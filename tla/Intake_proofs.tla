---------------------------- MODULE Intake_proofs ----------------------------
(***************************************************************************)
(* Proofs about what comes in, for any number of clients, requests and     *)
(* reviewers: BatchSubmission, ResearchRuns, DocumentChunking and          *)
(* ResearchPromotion.                                                      *)
(*                                                                         *)
(* SInv says of the table of jobs what its two unique indexes and the      *)
(* order of the statements keep true: at most one active job per           *)
(* selection, at most one job per key, and a batch that is owed for a key  *)
(* is the one its job names, so that the request never comes further than  *)
(* its first query.                                                        *)
(*                                                                         *)
(* RInv says of each research transaction that what it would commit now,   *)
(* over the documents committed meanwhile, has one root per text, and that *)
(* it holds the lock of address and text of every current row it wrote:    *)
(* no lock has two holders, so the rows of two transactions never meet.    *)
(*                                                                         *)
(* Of a document LinesOK says only that it consists of lines: what is      *)
(* promised of chunks holds of every document, and is shown from the       *)
(* recursions that merge and cut (UptoIs, LastBeginsIs, StartsAre).        *)
(*                                                                         *)
(* PInv says of each copy a review holds that it repeats no row, so that   *)
(* whichever review saves last leaves a company without repetition.        *)
(***************************************************************************)
EXTENDS BatchSubmission, ResearchRuns, DocumentChunking, ResearchPromotion, Order_proofs,
        SequenceTheorems

------------------------------------------------------------------------------
(***************************************************************************)
(* Submissions                                                             *)
(***************************************************************************)

\* Every job is of a batch; batches account for all jobs but the retries.
JobsFit ==
  /\ \A j \in DOMAIN jobs : jobs[j].batch \in DOMAIN batches
  /\ Len(jobs) <= Len(batches) + MaxRetries

OneActive ==
  \A i, j \in DOMAIN jobs :
    /\ jobs[i].active /\ jobs[j].active
    /\ SelectionOf(jobs[i]) = SelectionOf(jobs[j])
    => i = j

OnePerKey ==
  \A i, j \in DOMAIN jobs :
    jobs[i].key = jobs[j].key /\ jobs[i].key # NoKey => i = j

\* The job of key k is of batch b.
KeyNames(k, b) == \E j \in DOMAIN jobs : jobs[j].key = k /\ jobs[j].batch = b

OwedIsKept ==
  \A c \in Clients : request[c].owed # 0 =>
    /\ step[c] = "bykey" /\ request[c].key # NoKey
    /\ KeyNames(request[c].key, request[c].owed)
    /\ batches[request[c].owed] = request[c].selection

CreatedIsNamed ==
  \A a \in answers : a.outcome = "created" /\ a.request.key # NoKey =>
    KeyNames(a.request.key, a.batch)

SInv ==
  /\ SubmissionTypeOK /\ JobsFit /\ OneActive /\ OnePerKey
  /\ OwedIsKept /\ CreatedIsNamed /\ AnswersFit /\ CreatorKeyIsKept

------------------------------------------------------------------------------
\* What a request without a key looks like fits the types.
LEMMA NoRequestTyped == NoRequest \in RequestTypes /\ NoRequest.owed = 0
<1>1. (CHOOSE s \in Selections : TRUE) \in Selections  BY SubmissionAssumption
<1>2. 0 \in 0 .. MaxBatches  BY SubmissionAssumption
<1> QED  BY <1>1, <1>2 DEF NoRequest, RequestTypes

\* A job found by its key is the one row that has this key.
LEMMA FoundByKey ==
  ASSUME NEW k, NEW j \in UsedBy(k)
  PROVE  k # NoKey /\ \E i \in DOMAIN jobs : jobs[i] = j /\ jobs[i].key = k
BY DEF UsedBy, ToSet

\* A search that finds an active job returns one,
LEMMA FoundActive ==
  ASSUME NEW s, NEW j \in ActiveFor(s)
  PROVE  \E i \in DOMAIN jobs : jobs[i] = j /\ j.active /\ SelectionOf(jobs[i]) = s
BY DEF ActiveFor, ToSet

\* one that finds no job by its key means that there is none,
LEMMA NoneByKey ==
  ASSUME NEW k \in Keys, UsedBy(k) = {}
  PROVE  \A i \in DOMAIN jobs : jobs[i].key # k
BY SubmissionAssumption DEF UsedBy, ToSet

\* nor an active one of the selection.
LEMMA NoneActive ==
  ASSUME NEW s, ActiveFor(s) = {}
  PROVE  \A i \in DOMAIN jobs : jobs[i].active => SelectionOf(jobs[i]) # s
BY DEF ActiveFor, ToSet

\* A row of the table is typed and names a batch.
LEMMA RowTyped ==
  ASSUME SInv, NEW i \in DOMAIN jobs
  PROVE  /\ jobs[i] \in JobRecords /\ jobs[i].batch \in 1 .. MaxBatches
         /\ jobs[i].batch \in DOMAIN batches
         /\ batches[jobs[i].batch] \in Selections
<1>1. jobs \in Seq(JobRecords) /\ batches \in Seq(Selections) /\ jobs[i].batch \in DOMAIN batches
  BY DEF SInv, SubmissionTypeOK, JobsFit
<1>2. jobs[i] \in JobRecords  BY <1>1
<1>3. jobs[i].batch \in 1 .. MaxBatches  BY <1>2 DEF JobRecords
<1>4. batches[jobs[i].batch] \in Selections  BY <1>1
<1> QED  BY <1>1, <1>2, <1>3, <1>4

\* An answer leaves its client idle, and the other requests as they were.
LEMMA ReplyTyped ==
  ASSUME SInv, NEW c \in Clients, NEW outcome \in Outcomes, NEW b \in 0 .. MaxBatches,
         Reply(c, outcome, b)
  PROVE  /\ step' \in [Clients -> {"idle", "bykey", "byactive", "insert"}]
         /\ request' \in [Clients -> RequestTypes]
         /\ second' \in [Clients -> BOOLEAN]
         /\ answers' \subseteq Answers
         /\ request[c] \in RequestTypes
         /\ \A d \in Clients : request'[d].owed # 0 =>
              request'[d] = request[d] /\ step'[d] = step[d]
<1>1. /\ step \in [Clients -> {"idle", "bykey", "byactive", "insert"}]
      /\ request \in [Clients -> RequestTypes]
      /\ second \in [Clients -> BOOLEAN]
      /\ answers \subseteq Answers
  BY DEF SInv, SubmissionTypeOK
<1>2. request[c] \in RequestTypes  BY <1>1
<1>3. [request |-> request[c], outcome |-> outcome, batch |-> b] \in Answers
  BY <1>2 DEF Answers
<1>4. /\ step' = [step EXCEPT ![c] = "idle"]
      /\ second' = [second EXCEPT ![c] = FALSE]
      /\ answers' = answers \union
           {[request |-> request[c], outcome |-> outcome, batch |-> b]}
      /\ request' = [request EXCEPT ![c] = NoRequest]
  BY DEF Reply
<1>5. \A d \in Clients : request'[d].owed # 0 =>
        request'[d] = request[d] /\ step'[d] = step[d]
  <2> SUFFICES ASSUME NEW d \in Clients, request'[d].owed # 0
               PROVE  request'[d] = request[d] /\ step'[d] = step[d]
    OBVIOUS
  <2>1. d # c  BY <1>1, <1>4, NoRequestTyped
  <2> QED  BY <2>1, <1>1, <1>4
<1> QED  BY <1>1, <1>2, <1>3, <1>4, <1>5, NoRequestTyped

\* An answer that creates nothing keeps the invariant if it names a batch of
\* the selection, and the batch that is owed.
LEMMA ReplyOK ==
  ASSUME SInv, NEW c \in Clients, NEW outcome \in Outcomes, NEW b \in 0 .. MaxBatches,
         Reply(c, outcome, b), UNCHANGED <<batches, jobs>>,
         outcome # "created",
         outcome = "reused" => b \in DOMAIN batches /\ batches[b] = request[c].selection,
         request[c].owed # 0 => outcome = "reused" /\ b = request[c].owed
  PROVE  SInv'
<1> DEFINE new == [request |-> request[c], outcome |-> outcome, batch |-> b]
<1>1. answers' = answers \union {new} /\ batches' = batches /\ jobs' = jobs
  BY DEF Reply
<1>2. SubmissionTypeOK'
  BY <1>1, ReplyTyped DEF SInv, SubmissionTypeOK
<1>3. JobsFit' /\ OneActive' /\ OnePerKey'
  BY <1>1 DEF SInv, JobsFit, OneActive, OnePerKey, SelectionOf
<1>4. OwedIsKept'
  BY <1>1, ReplyTyped DEF SInv, OwedIsKept, KeyNames
<1>5. CreatedIsNamed'
  <2>1. new.outcome # "created"  OBVIOUS
  <2> QED  BY <1>1, <2>1 DEF SInv, CreatedIsNamed, KeyNames
<1>6. AnswersFit'
  <2>1. new.outcome \in {"created", "reused"} =>
          new.batch \in DOMAIN batches /\ batches[new.batch] = new.request.selection
    OBVIOUS
  <2> QED  BY <1>1, <2>1 DEF SInv, AnswersFit
<1>7. CreatorKeyIsKept'
  <2>1. new.request.owed # 0 => new.outcome = "reused" /\ new.batch = new.request.owed
    OBVIOUS
  <2> QED  BY <1>1, <2>1 DEF SInv, CreatorKeyIsKept
<1> QED  BY <1>2, <1>3, <1>4, <1>5, <1>6, <1>7 DEF SInv

\* The next statement of a request to which nothing is owed.
LEMMA ProceedOK ==
  ASSUME SInv, NEW c \in Clients, NEW label \in {"bykey", "byactive", "insert"},
         Proceed(c, label), second' \in [Clients -> BOOLEAN], request[c].owed = 0
  PROVE  SInv'
<1>1. /\ step' = [step EXCEPT ![c] = label]
      /\ batches' = batches /\ jobs' = jobs /\ request' = request /\ answers' = answers
  BY DEF Proceed
<1>2. SubmissionTypeOK'  BY <1>1 DEF SInv, SubmissionTypeOK
<1>3. OwedIsKept'
  BY <1>1 DEF SInv, SubmissionTypeOK, OwedIsKept, KeyNames
<1>4. JobsFit' /\ OneActive' /\ OnePerKey' /\ CreatedIsNamed' /\ AnswersFit' /\ CreatorKeyIsKept'
  BY <1>1 DEF SInv, JobsFit, OneActive, OnePerKey, SelectionOf, CreatedIsNamed,
              AnswersFit, CreatorKeyIsKept, KeyNames
<1> QED  BY <1>2, <1>3, <1>4 DEF SInv

\* What is owed for a key that has a job of this selection.
LEMMA OwedToNames ==
  ASSUME SInv, NEW s \in Selections, NEW k \in Keys \union {NoKey}
  PROVE  /\ OwedTo(s, k) \in 0 .. MaxBatches
         /\ OwedTo(s, k) # 0 => /\ k # NoKey /\ KeyNames(k, OwedTo(s, k))
                                /\ batches[OwedTo(s, k)] = s
<1> DEFINE js == {j \in UsedBy(k) : SelectionOf(j) = s}
<1>1. CASE js = {}
  <2>1. OwedTo(s, k) = 0  BY <1>1 DEF OwedTo
  <2> QED  BY <2>1, SubmissionAssumption
<1>2. CASE js # {}
  <2>1. PICK j \in js : OwedTo(s, k) = j.batch  BY <1>2 DEF OwedTo
  <2>2. PICK i \in DOMAIN jobs : jobs[i] = j /\ jobs[i].key = k
    BY <2>1, FoundByKey
  <2>3. k # NoKey  BY <2>1, FoundByKey
  <2>4. jobs[i].batch \in 1 .. MaxBatches  BY <2>2, RowTyped
  <2>5. batches[j.batch] = s  BY <2>1 DEF SelectionOf
  <2>6. KeyNames(k, j.batch)  BY <2>2 DEF KeyNames
  <2> QED  BY <2>1, <2>2, <2>3, <2>4, <2>5, <2>6, SubmissionAssumption
<1> QED  BY <1>1, <1>2

\* A client sends a request.
LEMMA SendOK ==
  ASSUME SInv, NEW c \in Clients, NEW s \in Selections, NEW k \in Keys \union {NoKey},
         Send(c, s, k)
  PROVE  SInv'
<1> DEFINE new == [selection |-> s, key |-> k, owed |-> OwedTo(s, k)]
<1>1. /\ step' = [step EXCEPT ![c] = "bykey"] /\ request' = [request EXCEPT ![c] = new]
      /\ batches' = batches /\ jobs' = jobs /\ second' = second /\ answers' = answers
  BY DEF Send
<1>2. new \in RequestTypes  BY OwedToNames DEF RequestTypes
<1>3. SubmissionTypeOK'  BY <1>1, <1>2 DEF SInv, SubmissionTypeOK
<1>4. OwedIsKept'
  <2> SUFFICES ASSUME NEW d \in Clients, request'[d].owed # 0
               PROVE  /\ step'[d] = "bykey" /\ request'[d].key # NoKey
                      /\ KeyNames(request'[d].key, request'[d].owed)
                      /\ batches[request'[d].owed] = request'[d].selection
    BY <1>1 DEF OwedIsKept, KeyNames
  <2>1. CASE d = c
    <3>1. request'[d] = new /\ step'[d] = "bykey"
      BY <1>1, <2>1 DEF SInv, SubmissionTypeOK
    <3> HIDE DEF new
    <3>2. new.selection = s /\ new.key = k /\ new.owed = OwedTo(s, k)  BY DEF new
    <3> QED  BY <3>1, <3>2, OwedToNames
  <2>2. CASE d # c
    <3>1. request'[d] = request[d] /\ step'[d] = step[d]
      BY <1>1, <2>2 DEF SInv, SubmissionTypeOK
    <3> QED  BY <3>1 DEF SInv, OwedIsKept
  <2> QED  BY <2>1, <2>2
<1>5. JobsFit' /\ OneActive' /\ OnePerKey' /\ CreatedIsNamed' /\ AnswersFit' /\ CreatorKeyIsKept'
  BY <1>1 DEF SInv, JobsFit, OneActive, OnePerKey, SelectionOf, CreatedIsNamed,
              AnswersFit, CreatorKeyIsKept, KeyNames
<1> QED  BY <1>3, <1>4, <1>5 DEF SInv

\* The first query finds the one job of the key: the batch that is owed.
LEMMA FindByRequestKeyOK ==
  ASSUME SInv, NEW c \in Clients, FindByRequestKey(c)
  PROVE  SInv'
<1> DEFINE r == request[c]
<1>0. /\ request \in [Clients -> RequestTypes] /\ second \in [Clients -> BOOLEAN]
      /\ 0 \in 0 .. MaxBatches
  BY SubmissionAssumption DEF SInv, SubmissionTypeOK
<1>1. CASE UsedBy(r.key) = {} /\ Proceed(c, "byactive") /\ UNCHANGED second
  <2>1. r.owed = 0
    <3> SUFFICES ASSUME r.owed # 0 PROVE FALSE  OBVIOUS
    <3>1. r.key # NoKey /\ KeyNames(r.key, r.owed)  BY DEF SInv, OwedIsKept
    <3>2. PICK i \in DOMAIN jobs : jobs[i].key = r.key  BY <3>1 DEF KeyNames
    <3>3. jobs[i] \in UsedBy(r.key)  BY <3>1, <3>2 DEF UsedBy, ToSet
    <3> QED  BY <3>3, <1>1
  <2> QED  BY <1>0, <1>1, <2>1, ProceedOK
<1>2. CASE \E j \in UsedBy(r.key) :
             /\ IF SelectionOf(j) = r.selection THEN Reply(c, "reused", j.batch)
                ELSE Reply(c, "conflict", 0)
             /\ UNCHANGED <<batches, jobs>>
  <2>1. PICK j \in UsedBy(r.key) :
             /\ IF SelectionOf(j) = r.selection THEN Reply(c, "reused", j.batch)
                ELSE Reply(c, "conflict", 0)
             /\ UNCHANGED <<batches, jobs>>
    BY <1>2
  <2>2. PICK i \in DOMAIN jobs : jobs[i] = j /\ jobs[i].key = r.key
    BY FoundByKey
  <2>3. j.batch \in 0 .. MaxBatches /\ j.batch \in DOMAIN batches
    BY <2>2, RowTyped, SubmissionAssumption
  <2>4. r.owed # 0 => r.owed = j.batch /\ SelectionOf(j) = r.selection
    <3> SUFFICES ASSUME r.owed # 0
                 PROVE  r.owed = j.batch /\ SelectionOf(j) = r.selection
      OBVIOUS
    <3>1. /\ r.key # NoKey /\ KeyNames(r.key, r.owed)
          /\ batches[r.owed] = r.selection
      BY DEF SInv, OwedIsKept
    <3>2. PICK n \in DOMAIN jobs : jobs[n].key = r.key /\ jobs[n].batch = r.owed
      BY <3>1 DEF KeyNames
    <3>3. n = i  BY <3>1, <3>2, <2>2 DEF SInv, OnePerKey
    <3> QED  BY <3>1, <3>2, <3>3, <2>2 DEF SelectionOf
  <2>5. CASE SelectionOf(j) = r.selection
    <3>1. Reply(c, "reused", j.batch) /\ UNCHANGED <<batches, jobs>>  BY <2>1, <2>5
    <3>2. batches[j.batch] = r.selection  BY <2>5 DEF SelectionOf
    <3> QED  BY <3>1, <3>2, <2>3, <2>4, ReplyOK DEF Outcomes
  <2>6. CASE SelectionOf(j) # r.selection
    <3>1. Reply(c, "conflict", 0) /\ UNCHANGED <<batches, jobs>>  BY <2>1, <2>6
    <3> QED  BY <3>1, <2>4, <2>6, <1>0, ReplyOK DEF Outcomes
  <2> QED  BY <2>5, <2>6
<1> QED  BY <1>1, <1>2 DEF FindByRequestKey

\* The second transaction of submit: an active job of the selection is answered.
LEMMA FindActiveOK ==
  ASSUME SInv, NEW c \in Clients, FindActive(c)
  PROVE  SInv'
<1> DEFINE r == request[c]
<1>0. second \in [Clients -> BOOLEAN] /\ 0 \in 0 .. MaxBatches
  BY SubmissionAssumption DEF SInv, SubmissionTypeOK
<1>1. r.owed = 0  BY DEF SInv, OwedIsKept, FindActive
<1>2. CASE Proceed(c, "insert") /\ UNCHANGED second
  BY <1>0, <1>1, <1>2, ProceedOK
<1>3. CASE Reply(c, "duplicate", 0) /\ UNCHANGED <<batches, jobs>>
  BY <1>0, <1>1, <1>3, ReplyOK DEF Outcomes
<1>4. CASE \E j \in ActiveFor(r.selection) : Reply(c, "reused", j.batch) /\ UNCHANGED <<batches, jobs>>
  <2>1. PICK j \in ActiveFor(r.selection) :
             Reply(c, "reused", j.batch) /\ UNCHANGED <<batches, jobs>>
    BY <1>4
  <2>2. PICK i \in DOMAIN jobs : jobs[i] = j /\ SelectionOf(jobs[i]) = r.selection
    BY FoundActive
  <2>3. j.batch \in 0 .. MaxBatches /\ j.batch \in DOMAIN batches
    BY <2>2, RowTyped, SubmissionAssumption
  <2>4. batches[j.batch] = r.selection  BY <2>2 DEF SelectionOf
  <2> QED  BY <2>1, <2>3, <2>4, <1>1, ReplyOK DEF Outcomes
<1> QED  BY <1>2, <1>3, <1>4 DEF FindActive

\* The unique indexes guard the one statement that makes a row active with a
\* key: no other row has its selection or its key.
LEMMA CommitSubmissionOK ==
  ASSUME SInv, NEW c \in Clients, CommitSubmission(c)
  PROVE  SInv'
<1> DEFINE r == request[c]
           b == Len(batches) + 1
           job == Job(b, r.key)
           new == [request |-> r, outcome |-> "created", batch |-> b]
<1>0. /\ second \in [Clients -> BOOLEAN] /\ request \in [Clients -> RequestTypes]
      /\ batches \in Seq(Selections) /\ Len(batches) < MaxBatches /\ step[c] = "insert"
      /\ jobs \in Seq(JobRecords) /\ Len(jobs) <= Len(batches) + MaxRetries
      /\ Len(batches) \in Nat /\ Len(jobs) \in Nat /\ MaxBatches \in Nat /\ MaxRetries \in Nat
  BY SubmissionAssumption DEF SInv, SubmissionTypeOK, JobsFit, CommitSubmission
<1>1. r.owed = 0  BY <1>0 DEF SInv, OwedIsKept
<1>2. CASE ActiveFor(r.selection) = {} /\ UsedBy(r.key) = {}
  <2>0. r \in RequestTypes /\ r.selection \in Selections /\ r.key \in Keys \union {NoKey}
    BY <1>0 DEF RequestTypes
  <2>1. /\ batches' = Append(batches, r.selection) /\ Len(batches') = b
        /\ jobs' = Append(jobs, Job(Len(batches'), r.key))
        /\ Reply(c, "created", Len(batches'))
    BY <1>0, <1>2, <2>0 DEF CommitSubmission
  <2>2. jobs' = Append(jobs, job) /\ Reply(c, "created", b)  BY <2>1
  <2>3. b \in 1 .. MaxBatches /\ b \in 0 .. MaxBatches  BY <1>0
  <2>4. job \in JobRecords /\ job.batch = b /\ job.key = r.key /\ job.active
    BY <2>0, <2>3 DEF Job, JobRecords
  <2>5. /\ batches' \in Seq(Selections) /\ DOMAIN batches' = 1 .. b /\ batches'[b] = r.selection
        /\ \A i \in DOMAIN batches : i \in DOMAIN batches' /\ batches'[i] = batches[i]
        /\ DOMAIN batches = 1 .. Len(batches) /\ b \notin DOMAIN batches
    BY <1>0, <2>0, <2>1
  <2> DEFINE n == Len(jobs) + 1
  <2> HIDE DEF job
  <2>6. /\ jobs' \in Seq(JobRecords) /\ Len(jobs') = n /\ DOMAIN jobs' = DOMAIN jobs \union {n}
        /\ jobs'[n] = job /\ n \notin DOMAIN jobs
        /\ \A i \in DOMAIN jobs : jobs'[i] = jobs[i]
    BY <1>0, <2>2, <2>4
  <2>7. answers' = answers \union {new}  BY <2>2 DEF Reply
  <2>8. SubmissionTypeOK'
    <3>1. Len(batches') <= MaxBatches /\ Len(jobs') <= MaxBatches + MaxRetries
      BY <1>0, <2>1, <2>6
    <3> QED  BY <3>1, <2>2, <2>3, <2>5, <2>6, ReplyTyped DEF SubmissionTypeOK, Outcomes
  <2>9. JobsFit'
    <3>1. Len(jobs') <= Len(batches') + MaxRetries  BY <1>0, <2>1, <2>6
    <3>2. \A i \in DOMAIN jobs' : jobs'[i].batch \in DOMAIN batches'
      <4> SUFFICES ASSUME NEW i \in DOMAIN jobs' PROVE jobs'[i].batch \in DOMAIN batches'
        OBVIOUS
      <4>1. CASE i = n  BY <4>1, <2>3, <2>4, <2>5, <2>6
      <4>2. CASE i \in DOMAIN jobs  BY <4>2, <2>5, <2>6, RowTyped
      <4> QED  BY <4>1, <4>2, <2>6
    <3> QED  BY <3>1, <3>2 DEF JobsFit
  <2>10. \A i \in DOMAIN jobs : /\ batches'[jobs'[i].batch] = SelectionOf(jobs[i])
                                /\ jobs[i].active => SelectionOf(jobs[i]) # r.selection
    BY <1>2, <2>5, <2>6, RowTyped, NoneActive DEF SelectionOf
  <2>11. \A i \in DOMAIN jobs : jobs[i].key = r.key => r.key = NoKey
    BY <1>2, <2>0, NoneByKey
  <2>12. OneActive'
    <3> SUFFICES ASSUME NEW i \in DOMAIN jobs', NEW j \in DOMAIN jobs',
                        jobs'[i].active, jobs'[j].active,
                        batches'[jobs'[i].batch] = batches'[jobs'[j].batch]
                 PROVE  i = j
      BY DEF OneActive, SelectionOf
    <3>1. batches'[jobs'[n].batch] = r.selection  BY <2>4, <2>5, <2>6
    <3>2. CASE i = n \/ j = n  BY <3>1, <3>2, <2>6, <2>10
    <3>3. CASE i # n /\ j # n
      <4>1. i \in DOMAIN jobs /\ j \in DOMAIN jobs  BY <3>3, <2>6
      <4>2. SelectionOf(jobs[i]) = SelectionOf(jobs[j])  BY <4>1, <2>10
      <4> QED  BY <4>1, <4>2, <2>6 DEF SInv, OneActive
    <3> QED  BY <3>2, <3>3
  <2>13. OnePerKey'
    <3> SUFFICES ASSUME NEW i \in DOMAIN jobs', NEW j \in DOMAIN jobs',
                        jobs'[i].key = jobs'[j].key, jobs'[i].key # NoKey
                 PROVE  i = j
      BY DEF OnePerKey
    <3>1. CASE i = n \/ j = n  BY <3>1, <2>4, <2>6, <2>11
    <3>2. CASE i # n /\ j # n  BY <3>2, <2>6 DEF SInv, OnePerKey
    <3> QED  BY <3>1, <3>2
  <2> DEFINE Named(k, x) == \E j \in DOMAIN jobs' : jobs'[j].key = k /\ jobs'[j].batch = x
  <2>14. \A k, x : KeyNames(k, x) => Named(k, x)  BY <2>6 DEF KeyNames
  <2>15. Named(r.key, b)  BY <2>4, <2>6
  <2>16. OwedIsKept'
    <3> SUFFICES ASSUME NEW d \in Clients, request'[d].owed # 0
                 PROVE  /\ step'[d] = "bykey" /\ request'[d].key # NoKey
                        /\ Named(request'[d].key, request'[d].owed)
                        /\ batches'[request'[d].owed] = request'[d].selection
      BY DEF OwedIsKept, KeyNames
    <3>1. request'[d] = request[d] /\ step'[d] = step[d]
      BY <2>2, <2>3, ReplyTyped DEF Outcomes
    <3>2. /\ step[d] = "bykey" /\ request[d].key # NoKey
          /\ KeyNames(request[d].key, request[d].owed)
          /\ batches[request[d].owed] = request[d].selection
      BY <3>1 DEF SInv, OwedIsKept
    <3>3. request[d].owed \in DOMAIN batches  BY <3>2, RowTyped DEF KeyNames
    <3>4. Named(request[d].key, request[d].owed)  BY <3>2, <2>14
    <3> HIDE DEF Named
    <3> QED  BY <3>1, <3>2, <3>3, <3>4, <2>5
  <2>17. CreatedIsNamed'
    <3> SUFFICES ASSUME NEW a \in answers', a.outcome = "created", a.request.key # NoKey
                 PROVE  Named(a.request.key, a.batch)
      BY DEF CreatedIsNamed, KeyNames
    <3> HIDE DEF Named
    <3>1. CASE a = new  BY <3>1, <2>15
    <3>2. CASE a \in answers  BY <3>2, <2>14 DEF SInv, CreatedIsNamed
    <3> QED  BY <3>1, <3>2, <2>7
  <2>18. AnswersFit'
    <3> SUFFICES ASSUME NEW a \in answers', a.outcome \in {"created", "reused"}
                 PROVE  a.batch \in DOMAIN batches' /\ batches'[a.batch] = a.request.selection
      BY DEF AnswersFit
    <3>1. CASE a = new  BY <3>1, <2>3, <2>5
    <3>2. CASE a \in answers  BY <3>2, <2>5 DEF SInv, AnswersFit
    <3> QED  BY <3>1, <3>2, <2>7
  <2>19. CreatorKeyIsKept'
    BY <1>1, <2>7 DEF SInv, CreatorKeyIsKept
  <2> QED  BY <2>8, <2>9, <2>12, <2>13, <2>16, <2>17, <2>18, <2>19 DEF SInv
<1>3. CASE second' = [second EXCEPT ![c] = TRUE] /\ Proceed(c, "bykey")
  BY <1>0, <1>1, <1>3, ProceedOK
<1> QED  BY <1>2, <1>3 DEF CommitSubmission

\* A job ends, and its selection may be submitted again.
LEMMA JobEndsOK ==
  ASSUME SInv, NEW n \in DOMAIN jobs, JobEnds(n)
  PROVE  SInv'
<1>0. jobs \in Seq(JobRecords) /\ n \in 1 .. Len(jobs)  BY DEF SInv, SubmissionTypeOK
<1>1. /\ jobs' = [jobs EXCEPT ![n].active = FALSE]
      /\ UNCHANGED <<batches, step, request, second, answers>>
  BY DEF JobEnds
<1>2. /\ jobs' \in Seq(JobRecords) /\ Len(jobs') = Len(jobs) /\ DOMAIN jobs' = DOMAIN jobs
      /\ \A i \in DOMAIN jobs : /\ jobs'[i].batch = jobs[i].batch /\ jobs'[i].key = jobs[i].key
                                /\ jobs'[i].active => jobs[i].active
  <2>1. jobs[n] \in JobRecords  BY <1>0
  <2>2. [jobs[n] EXCEPT !.active = FALSE] \in JobRecords  BY <2>1 DEF JobRecords
  <2>3. jobs' = [jobs EXCEPT ![n] = [jobs[n] EXCEPT !.active = FALSE]]  BY <1>1
  <2> DEFINE ended == [jobs[n] EXCEPT !.active = FALSE]
  <2>4. ended.batch = jobs[n].batch /\ ended.key = jobs[n].key /\ ended.active = FALSE
    BY <2>1 DEF JobRecords
  <2> HIDE DEF ended
  <2>5. jobs' = [jobs EXCEPT ![n] = ended] /\ ended \in JobRecords  BY <2>2, <2>3 DEF ended
  <2>6. jobs' \in Seq(JobRecords) /\ Len(jobs') = Len(jobs) /\ DOMAIN jobs' = DOMAIN jobs
    BY <1>0, <2>5
  <2>7. \A i \in DOMAIN jobs : jobs'[i] = IF i = n THEN ended ELSE jobs[i]  BY <1>0, <2>5
  <2> QED  BY <2>4, <2>6, <2>7
<1>3. SubmissionTypeOK'  BY <1>1, <1>2 DEF SInv, SubmissionTypeOK
<1>4. JobsFit' /\ OneActive' /\ OnePerKey'
  BY <1>1, <1>2 DEF SInv, JobsFit, OneActive, OnePerKey, SelectionOf
<1>5. OwedIsKept' /\ CreatedIsNamed' /\ AnswersFit' /\ CreatorKeyIsKept'
  BY <1>1, <1>2 DEF SInv, OwedIsKept, CreatedIsNamed, AnswersFit, CreatorKeyIsKept,
     KeyNames
<1> QED  BY <1>3, <1>4, <1>5 DEF SInv

\* A retry adds a job without a key, where none is active.
LEMMA RequeueOK ==
  ASSUME SInv, NEW b \in DOMAIN batches, Requeue(b)
  PROVE  SInv'
<1> DEFINE n == Len(jobs) + 1
           job == Job(b, NoKey)
<1>0. /\ jobs \in Seq(JobRecords) /\ batches \in Seq(Selections) /\ Len(batches) <= MaxBatches
      /\ Len(jobs) < Len(batches) + MaxRetries /\ ActiveFor(batches[b]) = {}
      /\ Len(batches) \in Nat /\ Len(jobs) \in Nat /\ MaxBatches \in Nat /\ MaxRetries \in Nat
  BY SubmissionAssumption DEF SInv, SubmissionTypeOK, Requeue
<1>1. jobs' = Append(jobs, job) /\ UNCHANGED <<batches, step, request, second, answers>>
  BY DEF Requeue
<1>2. job \in JobRecords /\ job.batch = b /\ job.key = NoKey
  BY <1>0 DEF Job, JobRecords
<1> HIDE DEF job
<1>3. /\ jobs' \in Seq(JobRecords) /\ Len(jobs') = n /\ DOMAIN jobs' = DOMAIN jobs \union {n}
      /\ jobs'[n] = job /\ n \notin DOMAIN jobs
      /\ \A i \in DOMAIN jobs : jobs'[i] = jobs[i]
  BY <1>0, <1>1, <1>2
<1>4. SubmissionTypeOK'
  <2>1. Len(jobs') <= MaxBatches + MaxRetries  BY <1>0, <1>3
  <2> QED  BY <2>1, <1>1, <1>3 DEF SInv, SubmissionTypeOK
<1>5. JobsFit'
  <2>1. Len(jobs') <= Len(batches') + MaxRetries  BY <1>0, <1>1, <1>3
  <2> QED  BY <2>1, <1>1, <1>2, <1>3 DEF SInv, JobsFit
<1>6. OneActive'
  <2>1. \A i \in DOMAIN jobs : jobs[i].active => SelectionOf(jobs[i]) # batches[b]
    BY <1>0, NoneActive
  <2>2. batches' = batches  BY <1>1
  <2> QED  BY <2>1, <2>2, <1>2, <1>3 DEF SInv, OneActive, SelectionOf
<1>7. OnePerKey'  BY <1>2, <1>3 DEF SInv, OnePerKey
<1>8. OwedIsKept' /\ CreatedIsNamed' /\ AnswersFit' /\ CreatorKeyIsKept'
  BY <1>1, <1>3 DEF SInv, OwedIsKept, CreatedIsNamed, AnswersFit, CreatorKeyIsKept,
     KeyNames
<1> QED  BY <1>4, <1>5, <1>6, <1>7, <1>8 DEF SInv

\* Nothing is submitted at first.
LEMMA SubmissionInitOK == SubmissionInit => SInv
<1> SUFFICES ASSUME SubmissionInit PROVE SInv  OBVIOUS
<1>1. SubmissionTypeOK
  BY NoRequestTyped, SubmissionAssumption DEF SubmissionInit, SubmissionTypeOK
<1>2. OwedIsKept  BY NoRequestTyped DEF SubmissionInit, OwedIsKept
<1> QED  BY <1>1, <1>2, SubmissionAssumption
         DEF SubmissionInit, SInv, JobsFit, OneActive, OnePerKey, CreatedIsNamed,
         AnswersFit,
             CreatorKeyIsKept

\* One step per action.
LEMMA SubmissionStepOK == SInv /\ [SubmissionNext]_submissionVars => SInv'
<1> SUFFICES ASSUME SInv, [SubmissionNext]_submissionVars PROVE SInv'  OBVIOUS
<1>1. ASSUME NEW c \in Clients, Submit(c) PROVE SInv'
  BY <1>1, FindByRequestKeyOK, FindActiveOK, CommitSubmissionOK DEF Submit
<1>2. ASSUME NEW c \in Clients, NEW s \in Selections, NEW k \in Keys \union {NoKey}, Send(c, s, k)
      PROVE  SInv'
  BY <1>2, SendOK
<1>3. ASSUME NEW j \in DOMAIN jobs, JobEnds(j) PROVE SInv'
  BY <1>3, JobEndsOK
<1>4. ASSUME NEW b \in DOMAIN batches, Requeue(b) PROVE SInv'
  BY <1>4, RequeueOK
<1>5. CASE UNCHANGED submissionVars
  BY <1>5 DEF submissionVars, SInv, SubmissionTypeOK, JobsFit, OneActive, OnePerKey,
     OwedIsKept,
              CreatedIsNamed, AnswersFit, CreatorKeyIsKept, KeyNames, SelectionOf
<1> QED  BY <1>1, <1>2, <1>3, <1>4, <1>5 DEF SubmissionNext

------------------------------------------------------------------------------
\* A key whose job is unique was answered "created" once.
LEMMA CreatedOnce == SInv => KeyCreatesOnce
<1> SUFFICES ASSUME SInv, NEW a \in answers, NEW b \in answers,
                    a.outcome = "created", b.outcome = "created",
                    a.request.key = b.request.key, a.request.key # NoKey
             PROVE  a = b
  BY DEF KeyCreatesOnce
<1>1. PICK i \in DOMAIN jobs : jobs[i].key = a.request.key /\ jobs[i].batch = a.batch
  BY DEF SInv, CreatedIsNamed, KeyNames
<1>2. PICK j \in DOMAIN jobs : jobs[j].key = b.request.key /\ jobs[j].batch = b.batch
  BY DEF SInv, CreatedIsNamed, KeyNames
<1>3. i = j  BY <1>1, <1>2 DEF SInv, OnePerKey
<1>4. a.batch = b.batch  BY <1>1, <1>2, <1>3
<1>5. a.request.selection = b.request.selection  BY <1>4 DEF SInv, AnswersFit
<1>6. a.request.owed = 0 /\ b.request.owed = 0  BY DEF SInv, CreatorKeyIsKept
<1>7. a \in Answers /\ b \in Answers  BY DEF SInv, SubmissionTypeOK
<1>8. a.request \in RequestTypes /\ b.request \in RequestTypes  BY <1>7 DEF Answers
<1>9. a.request = b.request  BY <1>5, <1>6, <1>8 DEF RequestTypes
<1> QED  BY <1>4, <1>7, <1>9 DEF Answers

\* A finite set of no two elements has at most one.
LEMMA AtMostOne ==
  ASSUME NEW S, IsFiniteSet(S), \A x, y \in S : x = y
  PROVE  Cardinality(S) <= 1
<1>1. CASE S = {}  BY <1>1, FS_EmptySet
<1>2. CASE S # {}
  <2>1. PICK x : S = {x}  BY <1>2
  <2> QED  BY <2>1, FS_Singleton
<1> QED  BY <1>1, <1>2

\* One active job per selection, as the runs check it.
LEMMA ActiveAtMostOne == SInv => OneJobPerSelection
<1> SUFFICES ASSUME SInv, NEW s \in Selections
             PROVE  Cardinality({j \in DOMAIN jobs : jobs[j].active /\ SelectionOf(jobs[j]) = s}) <= 1
  BY DEF OneJobPerSelection
<1> DEFINE S == {j \in DOMAIN jobs : jobs[j].active /\ SelectionOf(jobs[j]) = s}
<1>1. IsFiniteSet(DOMAIN jobs)
  <2>1. DOMAIN jobs = 1 .. Len(jobs) /\ Len(jobs) \in Nat  BY DEF SInv, SubmissionTypeOK
  <2> QED  BY <2>1, FS_Interval
<1>2. IsFiniteSet(S)  BY <1>1, FS_Subset
<1>3. \A x, y \in S : x = y  BY DEF SInv, OneActive
<1> HIDE DEF S
<1>4. Cardinality(S) <= 1  BY <1>2, <1>3, AtMostOne
<1> QED  BY <1>4 DEF S

\* SInv is inductive.
LEMMA SubmissionInvariant == SubmissionSpec => []SInv
<1>1. SubmissionInit => SInv  BY SubmissionInitOK
<1>2. SInv /\ [SubmissionNext]_submissionVars => SInv'  BY SubmissionStepOK
<1> QED  BY <1>1, <1>2, PTL DEF SubmissionSpec

\* Whatever clients repeat and race for: an accepted request names a batch of
\* its selection, a key that has created a batch is answered with that batch
\* for good, and creates no other (submit, _find_reused_submission).
THEOREM RequestsStayIdempotent == SubmissionSpec => []RequestsAreIdempotent
<1>1. SInv => RequestsAreIdempotent
  BY CreatedOnce DEF SInv, RequestsAreIdempotent
<1> QED  BY <1>1, SubmissionInvariant, PTL

\* No selection is worked on twice at once, whichever submissions and retries
\* race for it (uq_prospect_batch_jobs_active_business_key).
THEOREM OneJobPerSelectionHolds == SubmissionSpec => []OneJobPerSelection
<1>1. SInv => OneJobPerSelection  BY ActiveAtMostOne
<1> QED  BY <1>1, SubmissionInvariant, PTL

------------------------------------------------------------------------------
(***************************************************************************)
(* Research runs: the invariant                                            *)
(***************************************************************************)

Ids == Requests \X Nat
PageTypes == [url : Urls, final : Urls, content : Contents]
ClaimTypes == [page : Nat, quote : Sentences]
SiteTypes == [Urls -> Contents \union Urls \union {Down}]

Fields == DOMAIN Idle
IsWork(w) == w = [f \in Fields |-> w[f]]

DocFields == {"company", "url", "content", "status", "current", "duplicateOf"}
IsDocument(d) == d = [f \in DocFields |-> d[f]]

\* What holds of a row, whichever transaction reads it.
RowFits(d) ==
  /\ IsDocument(d) /\ d.current \in BOOLEAN
  /\ d.company \in Known /\ d.url \in Urls /\ d.content \in Contents \ Blank
  /\ d.status = IF d.current THEN Status(d.content) ELSE "superseded"

\* The lock keys of the address and of the text of a row.
KeysOf(d) == {Key[<<"url", d.company, d.url>>], Key[<<"content", d.company, d.content>>]}

\* Two current rows of a company differ in address, and two roots in text.
Apart(d, e) ==
  (d.current /\ e.current /\ d.company = e.company) =>
    /\ d.url # e.url
    /\ (d.duplicateOf = None /\ e.duplicateOf = None) => d.content # e.content

OneRoot(docs) == \A d, e \in DOMAIN docs : d # e => Apart(docs[d], docs[e])

RootsExist(docs) == \A d \in DOMAIN docs : docs[d].duplicateOf \in DOMAIN docs \union {None}

\* The document linked to a page with text still shows that text.
LinkShows(company, page, link, docs) ==
  (company # Prospect /\ page.content \notin Blank) =>
    link \in DOMAIN docs /\ docs[link].content = page.content

LinksShow(x, docs) ==
  \A i \in DOMAIN x.links : LinkShows(x.company, x.pages[i], x.links[i], docs)

ClaimFits(x, c) == c.page \in DOMAIN x.pages /\ c.quote \in Says[x.pages[c.page].content]

\* What holds of a result, in the coroutine as in the stored run.
ResultFits(x) ==
  /\ x.company \in Known \union {Prospect} /\ x.failed \in Nat
  /\ x.status \in {"completed", "partial", "failed"}
  /\ x.pages \in Seq(PageTypes) /\ x.claims \in Seq(ClaimTypes)
  /\ \A i \in DOMAIN x.claims : ClaimFits(x, x.claims[i])
  /\ x.status = "completed" => /\ x.failed = 0 /\ x.code = None
                               /\ \E i \in DOMAIN x.pages : x.pages[i].content \notin Thin
  /\ x.status = "failed" => x.pages = <<>> /\ x.claims = <<>> /\ x.code # None

\* A coroutine before its transaction.
Reads == {"idle", "rejected", "robots", "home", "pages", "extract", "stored", "lost"}

\* The pages to read are within the limit.
Room(pages, todo) == Len(pages) + Len(todo) <= MaxPages

ReadingFits(w) ==
  /\ w.pc # "rejected" => w.company \in Known \union {Prospect}
  /\ w.pc \in {"robots", "home", "pages"} => w.home \in Urls
  /\ w.pages \in Seq(PageTypes) /\ w.todo \in Seq(Urls)
  /\ Room(w.pages, w.todo)
  /\ w.pc \notin {"pages", "extract"} => w.pages = <<>>
  /\ w.claims = <<>> /\ w.failed \in Nat
  /\ w.held = {} /\ w.tx = <<>> /\ w.links = <<>>

WorkFits(w) ==
  /\ IsWork(w) /\ w.pc \in Reads \union {"store"}
  /\ w.tries \in Nat /\ w.tries < MaxAttempts /\ Len(w.pages) <= MaxPages
  /\ w.pc \in Reads => ReadingFits(w)
  /\ w.pc = "store" => ResultFits(w)

\* A row a transaction wrote: new, or one that was there, with its text.
RowOfTx(r, w, docs, d) ==
  /\ IF d \in DOMAIN docs THEN w.tx[d].content = docs[d].content
     ELSE \E i \in 1..w.at - 1 : d = <<r, i>>
  /\ d \in Ids /\ RowFits(w.tx[d])
  /\ w.tx[d].current => KeysOf(w.tx[d]) \subseteq w.held

\* A transaction that stores the documents of the pages before `at`.
TxFits(r, w, docs) ==
  /\ w.at \in 1..Len(w.pages) + 1 /\ w.links \in Seq(Ids \union {None}) /\ Len(w.links) = w.at - 1
  /\ \A d \in DOMAIN w.tx : RowOfTx(r, w, docs, d)
  /\ OneRoot(Over(w.tx, docs)) /\ RootsExist(Over(w.tx, docs))
  /\ LinksShow(w, Over(w.tx, docs))

DocumentsFit(docs) ==
  /\ \A d \in DOMAIN docs : d \in Ids /\ RowFits(docs[d])
  /\ OneRoot(docs) /\ RootsExist(docs)

RunFits(x, docs) ==
  /\ ResultFits(x) /\ LinksShow(x, docs)
  /\ x.links \in Seq(Ids \union {None}) /\ Len(x.links) = Len(x.pages)

SiteFits == site \in SiteTypes /\ changes \in 0..MaxChanges
LocksApart == \A r, s \in Requests : r # s => work[r].held \intersect work[s].held = {}
WorkIs == work = [r \in Requests |-> work[r]]

RInv ==
  /\ SiteFits /\ WorkIs /\ LocksApart
  /\ \A r \in Requests : WorkFits(work[r])
  /\ \A r \in Requests : work[r].pc = "store" => TxFits(r, work[r], db)
  /\ DocumentsFit(db)
  /\ \A d \in DOMAIN db : work[d[1]].pc = "stored"
  /\ DOMAIN stored \subseteq Requests /\ \A r \in DOMAIN stored : RunFits(stored[r], db)

------------------------------------------------------------------------------
(***************************************************************************)
(* Research runs: one page                                                 *)
(***************************************************************************)

\* The fields of a coroutine.
LEMMA FieldNames ==
  Fields = {"pc", "company", "home", "denied", "pages", "todo", "failed", "late", "tries",
            "claims", "status", "code", "at", "held", "tx", "links"}
BY DEF Fields, Idle

\* The limits are positive.
LEMMA LimitsAre ==
  MaxPages \in Nat \ {0} /\ MaxRedirects \in Nat \ {0} /\ MaxAttempts \in Nat \ {0}
BY ResearchAssumption

\* An address a read ends at has a text.
LEMMA FinalsAre ==
  ASSUME NEW u \in Urls, NEW host
  PROVE  \A v \in Finals(u, host) : v \in Urls /\ site[v] \in Contents
<1> SUFFICES ASSUME NEW t \in Trails(u), site[Last(t)] \in Contents
             PROVE  Last(t) \in Urls
  BY DEF Finals
<1>1. PICK n \in 1..MaxRedirects + 1 : t \in [1..n -> Urls]
  BY DEF Trails
<1> HIDE DEF Trails
<1>2. n \in Nat /\ n >= 1
  BY LimitsAre
<1>3. t \in Seq(Urls) /\ Len(t) = n
  BY <1>1, <1>2
<1>4. Last(t) = t[n] /\ n \in 1..n
  BY <1>2, <1>3 DEF Last
<1>  QED
  BY <1>1, <1>4

\* What is read is a page, or nothing.
LEMMA FetchIs ==
  ASSUME NEW u \in Urls, NEW host
  PROVE  Fetch(u, host) = None \/ Fetch(u, host) \in PageTypes
<1>1. CASE Finals(u, host) = {}
  BY <1>1 DEF Fetch
<1>2. CASE Finals(u, host) # {}
  <2> DEFINE v == CHOOSE v \in Finals(u, host) : TRUE
  <2>1. v \in Finals(u, host)
    BY <1>2
  <2>2. Fetch(u, host) = Fetched(u, v)
    BY <1>2 DEF Fetch
  <2> HIDE DEF v
  <2>  QED
    BY <2>1, <2>2, FinalsAre DEF Fetched, PageTypes
<1>  QED
  BY <1>1, <1>2

\* The reading order is a strict order of the addresses found.
LEMMA AheadIsTotal ==
  ASSUME NEW found, found \subseteq Urls
  PROVE  Total2(found, Ahead(found))
<1>1. \A u \in found : Leads(u, found) \in BOOLEAN
  BY DEF Leads
<1>2. \A u, v \in found : <<u, v>> \in Ahead(found) <=>
        IF Leads(u, found) = Leads(v, found) THEN <<u, v>> \in Better ELSE Leads(u, found)
  BY DEF Ahead
<1>  QED
  BY <1>1, <1>2, OrderAssumption, Zenon DEF Total2

\* The pages to read are as many as the limit leaves.
LEMMA RankedIs ==
  ASSUME NEW c \in Contents, NEW host
  PROVE  Ranked(Links[c], host) \in Seq(Urls) /\ Len(Ranked(Links[c], host)) <= MaxPages - 1
<1> DEFINE found == {u \in Links[c] : SameSite(u, host) /\ Worthwhile(u)}
           order == Ahead(found)
           size == IF Cardinality(found) < MaxPages THEN Cardinality(found) ELSE MaxPages - 1
           place(i) == CHOOSE u \in found : Place(u, found, order) = i
<1>1. found \subseteq Urls /\ IsFiniteSet(found)
  BY ResearchAssumption, FS_Subset
<1>2. Ranked(Links[c], host) = [i \in 1..size |-> place(i)]
  BY DEF Ranked
<1> HIDE DEF found
<1>3. Total2(found, order)
  BY <1>1, AheadIsTotal
<1>4. Cardinality(found) \in Nat
  BY <1>1, FS_CardinalityType
<1>5. size \in Nat /\ size <= MaxPages - 1 /\ size <= Cardinality(found)
  BY <1>4, ResearchAssumption
<1> HIDE DEF order, size
<1>6. ASSUME NEW i \in 1..size PROVE place(i) \in Urls
  <2> DEFINE Q(u) == u \in found /\ Place(u, found, order) = i
  <2>1. \E u \in found : RankIn(found, order, u) = i - 1
    <3>1. i \in 1..Cardinality(found)
      BY <1>4, <1>5
    <3>  QED
      BY <1>1, <1>3, <3>1, RankIsBijective
  <2>2. PICK u \in found : RankIn(found, order, u) = i - 1
    BY <2>1
  <2>3. i - 1 + 1 = i
    BY <1>5
  <2>4. Place(u, found, order) = RankIn(found, order, u) + 1
    BY DEF RankIn, Place
  <2>5. Q(u)
    BY <2>2, <2>3, <2>4
  <2>6. place(i) = CHOOSE x : Q(x)
    OBVIOUS
  <2> HIDE DEF Q
  <2>7. Q(CHOOSE x : Q(x))
    BY <2>5
  <2>  QED
    BY <1>1, <2>6, <2>7 DEF Q
<1> HIDE DEF place
<1>  QED
  BY <1>2, <1>5, <1>6

------------------------------------------------------------------------------
(***************************************************************************)
(* A coroutine moves alone                                                 *)
(***************************************************************************)

\* A coroutine that waits, or is done,
LEMMA BlankFits ==
  ASSUME NEW w, IsWork(w), w.pc \in {"idle", "stored", "lost"}, w.company = Prospect,
         w.pages = <<>>, w.todo = <<>>, w.tries = 0, w.claims = <<>>, w.failed = 0,
         w.held = {}, w.tx = <<>>, w.links = <<>>
  PROVE  WorkFits(w)
<1>1. <<>> \in Seq(PageTypes) /\ <<>> \in Seq(Urls) /\ Len(<<>>) = 0
  OBVIOUS
<1>2. ReadingFits(w)
  BY <1>1, LimitsAre DEF ReadingFits, Room
<1>  QED
  BY <1>1, <1>2, LimitsAre DEF WorkFits, Reads

\* fits, and holds no lock.
LEMMA IdleFits ==
  /\ Idle.pc = "idle" /\ WorkFits(Idle) /\ Idle.held = {}
  /\ \A pc \in {"stored", "lost"} :
       LET w == [Idle EXCEPT !.pc = pc] IN WorkFits(w) /\ w.pc = pc /\ w.held = {}
<1>1. ASSUME NEW pc \in {"stored", "lost"}
      PROVE  LET w == [Idle EXCEPT !.pc = pc] IN WorkFits(w) /\ w.pc = pc /\ w.held = {}
  <2> DEFINE w == [Idle EXCEPT !.pc = pc]
  <2>1. /\ IsWork(w) /\ w.pc = pc /\ w.company = Prospect /\ w.pages = <<>> /\ w.todo = <<>>
        /\ w.tries = 0 /\ w.claims = <<>> /\ w.failed = 0
        /\ w.held = {} /\ w.tx = <<>> /\ w.links = <<>>
    BY FieldNames DEF Idle, IsWork
  <2> HIDE DEF w
  <2>2. WorkFits(w)
    BY <2>1, BlankFits
  <2>  QED
    BY <2>1, <2>2 DEF w
<1>2. /\ IsWork(Idle) /\ Idle.pc = "idle" /\ Idle.company = Prospect /\ Idle.pages = <<>>
      /\ Idle.todo = <<>> /\ Idle.tries = 0 /\ Idle.claims = <<>> /\ Idle.failed = 0
      /\ Idle.held = {} /\ Idle.tx = <<>> /\ Idle.links = <<>>
  BY FieldNames DEF Idle, IsWork
<1>  QED
  BY <1>1, <1>2, BlankFits

\* A transaction that wrote nothing yet sees the committed documents.
LEMMA NothingWritten ==
  ASSUME NEW r \in Requests, NEW docs, DocumentsFit(docs), NEW w, ResultFits(w),
         w.at = 1, w.links = <<>>, w.tx = <<>>
  PROVE  TxFits(r, w, docs)
<1>1. DOMAIN w.tx = {} /\ DOMAIN w.links = {} /\ Len(w.links) = 0
  OBVIOUS
<1>2. Len(w.pages) \in Nat
  BY DEF ResultFits
<1>3. /\ DOMAIN Over(w.tx, docs) = DOMAIN docs
      /\ \A d \in DOMAIN docs : Over(w.tx, docs)[d] = docs[d]
  BY <1>1 DEF Over
<1> DEFINE seen == Over(w.tx, docs)
<1> HIDE DEF seen
<1>4. OneRoot(seen) /\ RootsExist(seen)
  BY <1>3 DEF seen, DocumentsFit, OneRoot, RootsExist
<1>5. LinksShow(w, seen)
  BY <1>1 DEF LinksShow
<1>6. w.links \in Seq(Ids \union {None}) /\ w.at \in 1..Len(w.pages) + 1
  BY <1>2
<1>  QED
  BY <1>1, <1>4, <1>5, <1>6 DEF TxFits, seen

\* The step of one coroutine on its own state: what it becomes fits, its
\* locks are not those of another.
LEMMA MovesAlone ==
  ASSUME RInv, NEW r \in Requests, NEW w, Goto(r, w), UNCHANGED <<site, changes, db, stored>>,
         WorkFits(w), w.pc = "store" => TxFits(r, w, db),
         work[r].pc = "stored" => w.pc = "stored",
         \A s \in Requests \ {r} : w.held \intersect work[s].held = {}
  PROVE  RInv'
<1>1. work'[r] = w /\ (\A s \in Requests \ {r} : work'[s] = work[s]) /\ WorkIs'
  BY DEF RInv, WorkIs, Goto
<1>2. LocksApart'
  BY <1>1 DEF LocksApart, RInv
<1>3. SiteFits'
  BY DEF SiteFits, RInv
<1>4. \A s \in Requests : WorkFits(work'[s])
  BY <1>1 DEF RInv
<1>5. \A s \in Requests : work'[s].pc = "store" => TxFits(s, work'[s], db')
  BY <1>1 DEF RInv
<1>6. DocumentsFit(db') /\ \A d \in DOMAIN db' : work'[d[1]].pc = "stored"
  <2>1. \A d \in DOMAIN db : d[1] \in Requests
    BY DEF RInv, DocumentsFit, Ids
  <2>2. \A d \in DOMAIN db : work'[d[1]].pc = "stored"
    BY <1>1, <2>1 DEF RInv
  <2>  QED
    BY <2>2 DEF RInv
<1>7. DOMAIN stored' \subseteq Requests /\ \A s \in DOMAIN stored' : RunFits(stored'[s], db')
  BY DEF RInv
<1>  QED
  BY <1>1, <1>2, <1>3, <1>4, <1>5, <1>6, <1>7 DEF RInv

\* A coroutine that reads or gives up holds no lock.
LEMMA ReadsAlone ==
  ASSUME RInv, NEW r \in Requests, NEW w, Local(r, w), WorkFits(w), w.held = {},
         w.pc = "store" => w.at = 1 /\ w.links = <<>> /\ w.tx = <<>>,
         work[r].pc = "stored" => w.pc = "stored"
  PROVE  RInv'
<1>1. w.pc = "store" => TxFits(r, w, db)
  BY NothingWritten DEF RInv, WorkFits
<1>2. \A s \in Requests \ {r} : w.held \intersect work[s].held = {}
  OBVIOUS
<1>  QED
  BY <1>1, <1>2, MovesAlone DEF Local

\* The result a coroutine has to store.
LEMMA ResultIs ==
  ASSUME NEW w, NEW status, NEW code
  PROVE  LET x == Result(w, status, code) IN
         /\ IsWork(x) /\ x.pc = "store" /\ x.tries = 0
         /\ x.company = w.company /\ x.pages = w.pages /\ x.failed = w.failed
         /\ x.claims = w.claims /\ x.status = status /\ x.code = code
         /\ x.at = 1 /\ x.held = {} /\ x.tx = <<>> /\ x.links = <<>>
<1> DEFINE blank == Idle
<1>1. /\ IsWork(blank) /\ blank.tries = 0 /\ blank.held = {} /\ blank.tx = <<>>
      /\ blank.links = <<>>
  BY FieldNames DEF Idle, IsWork
<1> HIDE DEF blank
<1> DEFINE x == Result(w, status, code)
<1>2. x = [blank EXCEPT !.pc = "store", !.company = w.company, !.pages = w.pages,
                        !.failed = w.failed, !.claims = w.claims, !.at = 1, !.status = status,
                        !.code = code]
  BY DEF Result, blank
<1> HIDE DEF x
<1>3. blank = [f \in Fields |-> blank[f]]
  BY <1>1 DEF IsWork
<1>4. DOMAIN x = Fields
  BY <1>2, <1>3
<1>5. /\ x.pc = "store" /\ x.tries = 0 /\ x.held = {} /\ x.tx = <<>> /\ x.links = <<>>
      /\ x.company = w.company /\ x.pages = w.pages /\ x.failed = w.failed
  BY <1>1, <1>2, <1>3, FieldNames
<1>6. x.claims = w.claims /\ x.status = status /\ x.code = code /\ x.at = 1
  BY <1>2, <1>3, FieldNames
<1>7. IsWork(x)
  <2> DEFINE y == [blank EXCEPT !.pc = "store", !.company = w.company, !.pages = w.pages,
                                !.failed = w.failed, !.claims = w.claims, !.at = 1,
                                !.status = status]
  <2>1. x = [y EXCEPT !.code = code]
    BY <1>2
  <2> HIDE DEF y
  <2>  QED
    BY <1>4, <2>1 DEF IsWork
<1>  QED
  BY <1>5, <1>6, <1>7 DEF x

\* A result that fits is what the coroutine may go on with.
LEMMA ResultMoves ==
  ASSUME RInv, NEW r \in Requests, NEW w, NEW status, NEW code,
         Local(r, Result(w, status, code)), ResultFits(Result(w, status, code)),
         Len(w.pages) <= MaxPages, work[r].pc # "stored"
  PROVE  RInv'
<1> DEFINE x == Result(w, status, code)
<1>1. /\ IsWork(x) /\ x.pc = "store" /\ x.tries = 0 /\ x.pages = w.pages
      /\ x.at = 1 /\ x.held = {} /\ x.tx = <<>> /\ x.links = <<>>
  BY ResultIs
<1> HIDE DEF x
<1>2. WorkFits(x)
  BY <1>1, LimitsAre DEF WorkFits, Reads, x
<1>  QED
  BY <1>1, <1>2, ReadsAlone DEF x

\* A run that fails before its first page.
LEMMA FailingMoves ==
  ASSUME RInv, NEW r \in Requests, NEW w,
         NEW code \in {"invalid_url", "robots_denied", "unreachable"}, Local(r, Failing(w, code)),
         w.company \in Known \union {Prospect}, w.pages = <<>>, w.claims = <<>>, w.failed \in Nat,
         work[r].pc # "stored"
  PROVE  RInv'
<1> DEFINE x == Result(w, "failed", code)
<1>1. /\ x.company = w.company /\ x.pages = <<>> /\ x.failed = w.failed
      /\ x.claims = <<>> /\ x.status = "failed" /\ x.code = code
  BY ResultIs
<1>2. code # None
  BY AnswersAssumption DEF Codes
<1> HIDE DEF x
<1>3. /\ <<>> \in Seq(PageTypes) /\ <<>> \in Seq(ClaimTypes) /\ Len(<<>>) = 0
      /\ \A i \in DOMAIN x.claims : ClaimFits(x, x.claims[i])
  BY <1>1
<1>4. ResultFits(x)
  BY <1>1, <1>2, <1>3 DEF ResultFits
<1>5. Len(w.pages) <= MaxPages
  BY <1>3, LimitsAre
<1>  QED
  BY <1>4, <1>5, ResultMoves DEF Failing, x

\* The pages read and those to read.
LEMMA ReadingLengths ==
  ASSUME NEW w, ReadingFits(w)
  PROVE  /\ w.pages \in Seq(PageTypes) /\ w.todo \in Seq(Urls)
         /\ Len(w.pages) \in Nat /\ Len(w.todo) \in Nat
         /\ Len(w.pages) + Len(w.todo) <= MaxPages /\ Len(w.pages) <= MaxPages
<1>1. /\ w.pages \in Seq(PageTypes) /\ w.todo \in Seq(Urls)
      /\ Len(w.pages) + Len(w.todo) <= MaxPages
  BY DEF ReadingFits, Room
<1>2. \A S : \A s \in Seq(S) : Len(s) \in Nat
  OBVIOUS
<1>3. Len(w.pages) \in Nat /\ Len(w.todo) \in Nat
  BY <1>1, <1>2, Zenon
<1> DEFINE p == Len(w.pages)
           t == Len(w.todo)
<1> HIDE DEF p, t
<1>4. p \in Nat /\ t \in Nat /\ p + t <= MaxPages
  BY <1>1, <1>3 DEF p, t
<1>5. p <= MaxPages
  BY <1>4, LimitsAre
<1>  QED
  BY <1>1, <1>3, <1>5 DEF p

\* What a coroutine needs to go on with other pages.
LEMMA StillReading ==
  ASSUME NEW w, ReadingFits(w), w.pc \in {"pages", "extract"}, NEW x, x.pc \in {"pages", "extract"},
         x.company = w.company, x.home = w.home, x.claims = w.claims, x.held = w.held,
         x.tx = w.tx, x.links = w.links, x.failed \in Nat,
         x.pc = "pages" => w.pc = "pages",
         x.pages \in Seq(PageTypes), x.todo \in Seq(Urls),
         Room(x.pages, x.todo)
  PROVE  ReadingFits(x)
BY DEF ReadingFits

\* A coroutine that goes on reading.
LEMMA ReadingMoves ==
  ASSUME RInv, NEW r \in Requests, NEW w, Local(r, w), IsWork(w), w.pc \in Reads,
         ReadingFits(w), w.tries = work[r].tries, work[r].pc # "stored"
  PROVE  RInv'
<1>1. w.tries \in Nat /\ w.tries < MaxAttempts
  BY DEF RInv, WorkFits
<1>3. Len(w.pages) <= MaxPages
  BY ReadingLengths
<1>4. WorkFits(w) /\ w.held = {} /\ w.pc # "store"
  BY <1>1, <1>3 DEF WorkFits, Reads, ReadingFits
<1>  QED
  BY <1>4, ReadsAlone

------------------------------------------------------------------------------
(***************************************************************************)
(* Reading, extraction and validation                                      *)
(***************************************************************************)

\* A request is resolved: rejected, failed or on its way.
LEMMA StartOK ==
  ASSUME RInv, NEW r \in Requests, Start(r)
  PROVE  RInv'
<1> DEFINE o == work[r]
<1>1. WorkFits(o) /\ o.pc = "idle"
  BY DEF RInv, Start
<1>2. PICK asked \in Asked :
        LET w == [o EXCEPT !.company = asked[1], !.home = asked[2]] IN
        Local(r, IF w.company \notin Known \union {Prospect} THEN [w EXCEPT !.pc = "rejected"]
                 ELSE IF Host[w.home] = NoHost THEN Failing(w, "invalid_url")
                 ELSE [w EXCEPT !.pc = "robots"])
  BY DEF Start
<1> DEFINE w == [o EXCEPT !.company = asked[1], !.home = asked[2]]
<1>3. asked[2] \in Urls
  BY ResearchAssumption
<1> HIDE DEF o
<1>4. /\ IsWork(w) /\ w.pc = "idle" /\ w.home \in Urls /\ w.pages = o.pages /\ w.todo = o.todo
      /\ w.tries = o.tries /\ w.claims = o.claims /\ w.failed = o.failed
      /\ w.held = o.held /\ w.tx = o.tx /\ w.links = o.links
  BY <1>1, <1>3, FieldNames DEF WorkFits, IsWork
<1>5. ReadingFits(o)
  BY <1>1 DEF WorkFits, Reads
<1> HIDE DEF w
<1>6. ASSUME NEW pc \in {"rejected", "robots"},
             pc = "robots" => w.company \in Known \union {Prospect}, Local(r, [w EXCEPT !.pc = pc])
      PROVE  RInv'
  <2> DEFINE x == [w EXCEPT !.pc = pc]
  <2>1. /\ IsWork(x) /\ x.pc = pc /\ x.company = w.company /\ x.home = w.home
        /\ x.pages = w.pages /\ x.todo = w.todo /\ x.tries = w.tries /\ x.claims = w.claims
        /\ x.failed = w.failed /\ x.held = w.held /\ x.tx = w.tx /\ x.links = w.links
    BY <1>4, FieldNames DEF IsWork
  <2> HIDE DEF x
  <2>2. ReadingFits(x)
    BY <1>1, <1>4, <1>5, <1>6, <2>1 DEF ReadingFits
  <2>3. Local(r, x)
    BY <1>6 DEF x
  <2>  QED
    BY <1>1, <1>4, <2>1, <2>2, <2>3, ReadingMoves DEF Reads, o
<1>7. ASSUME w.company \in Known \union {Prospect}, Local(r, Failing(w, "invalid_url"))
      PROVE  RInv'
  BY <1>1, <1>4, <1>5, <1>7, FailingMoves DEF ReadingFits, o
<1>  QED
  BY <1>2, <1>6, <1>7 DEF w, o

\* The homepage may be denied; that ends the run.
LEMMA LoadRobotsOK ==
  ASSUME RInv, NEW r \in Requests, LoadRobots(r)
  PROVE  RInv'
<1> DEFINE o == work[r]
<1>1. WorkFits(o) /\ o.pc = "robots"
  BY DEF RInv, LoadRobots
<1>2. PICK denied \in DenyLists :
        LET w == [o EXCEPT !.denied = denied] IN
        Local(r, IF Denied(w, w.home) THEN Failing(w, "robots_denied")
                 ELSE [w EXCEPT !.pc = "home"])
  BY DEF LoadRobots
<1> DEFINE w == [o EXCEPT !.denied = denied]
<1> HIDE DEF o
<1>4. /\ IsWork(w) /\ w.company = o.company /\ w.home = o.home /\ w.pages = o.pages
      /\ w.todo = o.todo /\ w.tries = o.tries /\ w.claims = o.claims /\ w.failed = o.failed
      /\ w.held = o.held /\ w.tx = o.tx /\ w.links = o.links
  BY <1>1, FieldNames DEF WorkFits, IsWork
<1>5. ReadingFits(o)
  BY <1>1 DEF WorkFits, Reads
<1> HIDE DEF w
<1>6. ASSUME Local(r, [w EXCEPT !.pc = "home"])
      PROVE  RInv'
  <2> DEFINE x == [w EXCEPT !.pc = "home"]
  <2>1. /\ IsWork(x) /\ x.pc = "home" /\ x.company = w.company /\ x.home = w.home
        /\ x.pages = w.pages /\ x.todo = w.todo /\ x.tries = w.tries /\ x.claims = w.claims
        /\ x.failed = w.failed /\ x.held = w.held /\ x.tx = w.tx /\ x.links = w.links
    BY <1>4, FieldNames DEF IsWork
  <2> HIDE DEF x
  <2>2. ReadingFits(x)
    BY <1>1, <1>4, <1>5, <2>1 DEF ReadingFits
  <2>3. Local(r, x)
    BY <1>6 DEF x
  <2>  QED
    BY <1>1, <1>4, <2>1, <2>2, <2>3, ReadingMoves DEF Reads, o
<1>7. ASSUME Local(r, Failing(w, "robots_denied"))
      PROVE  RInv'
  BY <1>1, <1>4, <1>5, <1>7, FailingMoves DEF ReadingFits, o
<1>  QED
  BY <1>2, <1>6, <1>7 DEF w, o

\* The homepage is the first page, and leads to less than the limit.
LEMMA ReadHomeOK ==
  ASSUME RInv, NEW r \in Requests, ReadHome(r)
  PROVE  RInv'
<1> DEFINE w == work[r]
           page == Fetch(w.home, Host[w.home])
           todo == Ranked(Links[page.content], Host[w.home])
           f == [w EXCEPT !.failed = 1]
           x == [w EXCEPT !.pc = "pages", !.pages = <<page>>, !.todo = todo]
<1>1. WorkFits(w) /\ w.pc = "home"
  BY DEF RInv, ReadHome
<1>2. IF page = None THEN Local(r, Failing(f, "unreachable")) ELSE Local(r, x)
  BY DEF ReadHome
<1> HIDE DEF w
<1>3. ReadingFits(w) /\ w.home \in Urls
  BY <1>1 DEF WorkFits, Reads, ReadingFits
<1>4. page = None \/ page \in PageTypes
  BY <1>3, FetchIs
<1>5. CASE page = None
  <2>1. f.company = w.company /\ f.pages = w.pages /\ f.claims = w.claims /\ f.failed = 1
    BY <1>1, FieldNames DEF WorkFits, IsWork
  <2> HIDE DEF f
  <2>  QED
    BY <1>1, <1>2, <1>3, <1>5, <2>1, FailingMoves DEF ReadingFits, w
<1>6. CASE page # None
  <2> HIDE DEF page
  <2>1. page \in PageTypes /\ page.content \in Contents
    BY <1>4, <1>6 DEF PageTypes
  <2>2. todo \in Seq(Urls) /\ Len(todo) <= MaxPages - 1
    BY <2>1, RankedIs
  <2> HIDE DEF todo
  <2>3. /\ IsWork(x) /\ x.pc = "pages" /\ x.company = w.company /\ x.home = w.home
        /\ x.pages = <<page>> /\ x.todo = todo /\ x.tries = w.tries /\ x.claims = w.claims
        /\ x.failed = w.failed /\ x.held = w.held /\ x.tx = w.tx /\ x.links = w.links
    BY <1>1, FieldNames DEF WorkFits, IsWork
  <2>4. <<page>> \in Seq(PageTypes) /\ Len(<<page>>) = 1
    BY <2>1
  <2> HIDE DEF x
  <2>5. Room(<<page>>, todo)
    <3> DEFINE t == Len(todo)
    <3>1. t \in Nat /\ t <= MaxPages - 1
      BY <2>2
    <3> HIDE DEF t
    <3>2. 1 + t <= MaxPages
      BY <3>1, LimitsAre
    <3>  QED
      BY <2>4, <3>2 DEF Room, t
  <2>6. ReadingFits(x)
    BY <1>1, <1>3, <2>2, <2>3, <2>4, <2>5 DEF ReadingFits
  <2>7. Local(r, x)
    BY <1>2, <1>6
  <2>  QED
    BY <1>1, <2>3, <2>6, <2>7, ReadingMoves DEF Reads, w
<1>  QED
  BY <1>5, <1>6

\* Each address costs a place, whether it becomes a page or not.
LEMMA ReadNextOK ==
  ASSUME RInv, NEW r \in Requests, ReadNext(r)
  PROVE  RInv'
<1> DEFINE w == work[r]
           u == Head(w.todo)
           rest == [w EXCEPT !.todo = Tail(@)]
           page == Fetch(u, Host[w.home])
           e == [w EXCEPT !.pc = "extract"]
           f == [rest EXCEPT !.failed = @ + 1]
           x == [rest EXCEPT !.pages = Append(@, page)]
<1>1. WorkFits(w) /\ w.pc = "pages"
  BY DEF RInv, ReadNext
<1>2. IF w.todo = <<>> THEN Local(r, e)
      ELSE Local(r, IF Denied(w, u) THEN rest ELSE IF page = None THEN f ELSE x)
  BY DEF ReadNext
<1> HIDE DEF w
<1>3. ReadingFits(w)
  BY <1>1 DEF WorkFits, Reads
<1>4. CASE w.todo = <<>>
  <2>1. /\ IsWork(e) /\ e.pc = "extract" /\ e.company = w.company /\ e.home = w.home
        /\ e.pages = w.pages /\ e.todo = w.todo /\ e.tries = w.tries /\ e.claims = w.claims
        /\ e.failed = w.failed /\ e.held = w.held /\ e.tx = w.tx /\ e.links = w.links
    BY <1>1, FieldNames DEF WorkFits, IsWork
  <2> HIDE DEF e
  <2>2. ReadingFits(e)
    BY <1>1, <1>3, <2>1 DEF ReadingFits
  <2>  QED
    BY <1>1, <1>2, <1>4, <2>1, <2>2, ReadingMoves DEF Reads, w
<1>5. CASE w.todo # <<>>
  <2>1. /\ u \in Urls /\ Tail(w.todo) \in Seq(Urls) /\ Len(Tail(w.todo)) = Len(w.todo) - 1
        /\ Len(w.pages) \in Nat /\ Len(w.todo) \in Nat
    BY <1>3, <1>5 DEF ReadingFits
  <2>2. /\ IsWork(rest) /\ rest.pc = "pages" /\ rest.company = w.company /\ rest.home = w.home
        /\ rest.pages = w.pages /\ rest.todo = Tail(w.todo) /\ rest.tries = w.tries
        /\ rest.claims = w.claims /\ rest.failed = w.failed /\ rest.held = w.held
        /\ rest.tx = w.tx /\ rest.links = w.links
    BY <1>1, FieldNames DEF WorkFits, IsWork
  <2> HIDE DEF rest, u
  <2>3. /\ Room(w.pages, Tail(w.todo))
        /\ Len(w.pages) + 1 + Len(Tail(w.todo)) <= MaxPages
        /\ w.pages \in Seq(PageTypes) /\ w.failed \in Nat /\ w.failed + 1 \in Nat
    <3> DEFINE p == Len(w.pages)
               t == Len(w.todo)
               n == Len(Tail(w.todo))
    <3>1. p \in Nat /\ t \in Nat /\ p + t <= MaxPages
      BY <1>3, ReadingLengths
    <3>2. n = t - 1
      BY <2>1
    <3> HIDE DEF p, t, n
    <3>3. p + n <= MaxPages /\ p + 1 + n <= MaxPages
      BY <3>1, <3>2, LimitsAre
    <3>4. w.pages \in Seq(PageTypes) /\ w.failed \in Nat
      BY <1>3 DEF ReadingFits
    <3>5. w.failed + 1 \in Nat
      BY <3>4
    <3>6. Len(w.pages) + Len(Tail(w.todo)) <= MaxPages
      BY <3>3 DEF p, n
    <3>  QED
      BY <3>3, <3>4, <3>5, <3>6 DEF Room, p, n
  <2>4. page = None \/ page \in PageTypes
    BY <2>1, FetchIs
  <2> HIDE DEF page
  <2>5. CASE Local(r, rest)
    <3>1. ReadingFits(rest)
      BY <1>1, <1>3, <2>1, <2>2, <2>3 DEF ReadingFits
    <3>  QED
      BY <1>1, <2>2, <2>5, <3>1, ReadingMoves DEF Reads, w
  <2>6. CASE Local(r, f)
    <3>1. /\ IsWork(f) /\ f.pc = "pages" /\ f.company = w.company /\ f.home = w.home
          /\ f.pages = w.pages /\ f.todo = Tail(w.todo) /\ f.tries = w.tries
          /\ f.claims = w.claims /\ f.failed = w.failed + 1 /\ f.held = w.held
          /\ f.tx = w.tx /\ f.links = w.links
      BY <2>2, FieldNames DEF IsWork
    <3> HIDE DEF f
    <3>2. ReadingFits(f)
      BY <1>1, <1>3, <2>1, <2>3, <3>1 DEF ReadingFits
    <3>  QED
      BY <1>1, <2>6, <3>1, <3>2, ReadingMoves DEF Reads, w
  <2>7. CASE page \in PageTypes /\ Local(r, x)
    <3>1. /\ IsWork(x) /\ x.pc = "pages" /\ x.company = w.company /\ x.home = w.home
          /\ x.pages = Append(w.pages, page) /\ x.todo = Tail(w.todo) /\ x.tries = w.tries
          /\ x.claims = w.claims /\ x.failed = w.failed /\ x.held = w.held
          /\ x.tx = w.tx /\ x.links = w.links
      BY <2>2, FieldNames DEF IsWork
    <3> HIDE DEF x
    <3>2. /\ Append(w.pages, page) \in Seq(PageTypes)
          /\ Len(Append(w.pages, page)) = Len(w.pages) + 1
      BY <1>3, <2>7 DEF ReadingFits
    <3>3. Room(Append(w.pages, page), Tail(w.todo))
      BY <2>3, <3>2 DEF Room
    <3>4. ReadingFits(x)
      BY <1>1, <1>3, <2>1, <2>3, <3>1, <3>2, <3>3 DEF ReadingFits
    <3>  QED
      BY <1>1, <2>7, <3>1, <3>4, ReadingMoves DEF Reads, w
  <2>  QED
    BY <1>2, <1>5, <2>4, <2>5, <2>6, <2>7
<1>  QED
  BY <1>4, <1>5

\* The pages left are given up; those read stay.
LEMMA OutOfTimeOK ==
  ASSUME RInv, NEW r \in Requests, OutOfTime(r)
  PROVE  RInv'
<1> DEFINE w == work[r]
           x == [w EXCEPT !.todo = <<>>, !.late = TRUE, !.pc = "extract"]
<1>1. WorkFits(w) /\ w.pc = "pages" /\ Local(r, x)
  BY DEF RInv, OutOfTime
<1> HIDE DEF w
<1>2. ReadingFits(w)
  BY <1>1 DEF WorkFits, Reads
<1>3. /\ IsWork(x) /\ x.pc = "extract" /\ x.company = w.company
      /\ x.pages = w.pages /\ x.todo = <<>> /\ x.tries = w.tries /\ x.claims = w.claims
      /\ x.failed = w.failed /\ x.held = w.held /\ x.tx = w.tx /\ x.links = w.links
  BY <1>1, FieldNames DEF WorkFits, IsWork
<1> HIDE DEF x
<1>4. /\ <<>> \in Seq(Urls) /\ Room(w.pages, <<>>)
      /\ w.pages \in Seq(PageTypes) /\ w.failed \in Nat
  <2> DEFINE p == Len(w.pages)
  <2>1. p \in Nat /\ p <= MaxPages /\ Len(<<>>) = 0
    BY <1>2, ReadingLengths
  <2> HIDE DEF p
  <2>2. p + Len(<<>>) <= MaxPages
    BY <2>1
  <2>  QED
    BY <1>2, <2>2 DEF ReadingFits, Room, p
<1>5. ReadingFits(x)
  BY <1>1, <1>2, <1>3, <1>4 DEF ReadingFits
<1>  QED
  BY <1>1, <1>3, <1>5, ReadingMoves DEF Reads, w

\* The last page named so, or none.
LEMMA PageOfIs ==
  ASSUME NEW pages \in Seq(PageTypes), NEW u
  PROVE  PageOf(pages, u) \in Nat /\ (PageOf(pages, u) # 0 => PageOf(pages, u) \in DOMAIN pages)
<1> DEFINE named == {i \in DOMAIN pages : u \in {pages[i].url, pages[i].final}}
           Q(i) == i \in named /\ \A j \in named : j <= i
           n == Len(pages)
<1>1. n \in Nat /\ DOMAIN pages = 1..n
  OBVIOUS
<1>2. named \subseteq 1..n
  BY <1>1
<1>3. PageOf(pages, u) = IF named = {} THEN 0 ELSE CHOOSE i \in named : \A j \in named : j <= i
  BY DEF PageOf
<1> HIDE DEF named, n
<1>4. CASE named = {}
  BY <1>3, <1>4
<1>5. CASE named # {}
  <2> DEFINE T == {n - i : i \in named}
  <2>1. T \subseteq Nat /\ T # {}
    <3>1. \A i \in 1..n : n - i \in Nat
      BY <1>1
    <3>  QED
      BY <1>2, <1>5, <3>1
  <2>2. PICK t \in T : \A y \in T : t <= y
    BY <2>1, Least
  <2>3. PICK i \in named : t = n - i
    BY <2>2
  <2>4. ASSUME NEW j \in named PROVE j <= i
    <3>1. n - i <= n - j
      BY <2>2, <2>3
    <3>2. i \in Int /\ j \in Int
      BY <1>2
    <3>  QED
      BY <1>1, <3>1, <3>2
  <2>5. Q(i)
    BY <2>4
  <2>6. PageOf(pages, u) = CHOOSE k : Q(k)
    BY <1>3, <1>5
  <2> HIDE DEF Q
  <2>7. Q(CHOOSE k : Q(k))
    BY <2>5
  <2>8. PageOf(pages, u) \in 1..n
    BY <1>2, <2>6, <2>7 DEF Q
  <2>  QED
    BY <1>1, <2>8
<1>  QED
  BY <1>4, <1>5

\* The page of a verified proposal is one that was read and holds its quote.
LEMMA ValidatedFits ==
  ASSUME NEW pages \in Seq(PageTypes), NEW p \in Proposals
  PROVE  /\ Validated(pages, p) \in Seq(ClaimTypes)
         /\ \A i \in DOMAIN Validated(pages, p) :
              LET c == Validated(pages, p)[i] IN
              c.page \in DOMAIN pages /\ c.quote \in Says[pages[c.page].content]
<1> DEFINE n == PageOf(pages, p.url)
           c == [page |-> n, quote |-> p.quote]
<1>1. n \in Nat /\ (n # 0 => n \in DOMAIN pages)
  BY PageOfIs
<1>2. p.quote \in Sentences
  BY DEF Proposals
<1> HIDE DEF n
<1>3. c \in ClaimTypes /\ c.page = n /\ c.quote = p.quote
  BY <1>1, <1>2 DEF ClaimTypes
<1>4. Validated(pages, p) = IF Verified(pages, p) THEN <<c>> ELSE <<>>
  BY DEF Validated, n
<1>5. Verified(pages, p) => n # 0 /\ p.quote \in Says[pages[n].content]
  BY DEF Verified, n
<1> HIDE DEF c
<1>6. CASE Verified(pages, p)
  <2>1. Validated(pages, p) = <<c>>
    BY <1>4, <1>6
  <2>2. <<c>> \in Seq(ClaimTypes) /\ \A i \in DOMAIN <<c>> : <<c>>[i] = c
    BY <1>3
  <2>  QED
    BY <1>1, <1>3, <1>5, <1>6, <2>1, <2>2
<1>7. CASE ~Verified(pages, p)
  <2>1. Validated(pages, p) = <<>>
    BY <1>4, <1>7
  <2>  QED
    BY <2>1
<1>  QED
  BY <1>6, <1>7

\* What the extraction ends with, whether the provider answered or not.
LEMMA CompletedMoves ==
  ASSUME RInv, NEW r \in Requests, NEW w, NEW code \in Codes \union {None},
         Local(r, Completed(w, code)), work[r].pc # "stored",
         w.company \in Known \union {Prospect}, w.failed \in Nat,
         w.pages \in Seq(PageTypes), w.claims \in Seq(ClaimTypes), Len(w.pages) <= MaxPages,
         \A i \in DOMAIN w.claims : ClaimFits(w, w.claims[i]),
         code = None => \E i \in DOMAIN w.pages : w.pages[i].content \notin Thin
  PROVE  RInv'
<1> DEFINE status == IF code # None \/ w.failed > 0 THEN "partial" ELSE "completed"
           x == Result(w, status, code)
<1>1. /\ x.company = w.company /\ x.pages = w.pages /\ x.failed = w.failed
      /\ x.claims = w.claims /\ x.status = status /\ x.code = code
  BY ResultIs
<1>2. status \in {"partial", "completed"} /\ (status = "completed" => code = None /\ w.failed = 0)
  OBVIOUS
<1>3. Completed(w, code) = x
  BY DEF Completed
<1> HIDE DEF x, status
<1>4. \A i \in DOMAIN x.claims : ClaimFits(x, x.claims[i])
  BY <1>1 DEF ClaimFits
<1>5. ResultFits(x)
  BY <1>1, <1>2, <1>4 DEF ResultFits
<1>  QED
  BY <1>3, <1>5, ResultMoves DEF x

\* Of an answer, the claims whose quote is on the page are kept.
LEMMA AnsweredOK ==
  ASSUME RInv, NEW r \in Requests, Answered(r)
  PROVE  RInv'
<1> DEFINE o == work[r]
<1>1. WorkFits(o) /\ o.pc = "extract"
  BY DEF RInv, Answered
<1>2. PICK p \in Proposals :
        LET w == [o EXCEPT !.claims = Validated(o.pages, p)]
        IN Local(r, Completed(w, FailureCode(w)))
  BY DEF Answered
<1> HIDE DEF o
<1> DEFINE claims == Validated(o.pages, p)
           w == [o EXCEPT !.claims = claims]
           code == FailureCode(w)
<1>3. ReadingFits(o)
  BY <1>1 DEF WorkFits, Reads
<1>4. /\ o.pages \in Seq(PageTypes) /\ Len(o.pages) <= MaxPages
      /\ o.company \in Known \union {Prospect} /\ o.failed \in Nat
  BY <1>1, <1>3 DEF ReadingFits, WorkFits
<1>5. /\ claims \in Seq(ClaimTypes)
      /\ \A i \in DOMAIN claims : /\ claims[i].page \in DOMAIN o.pages
                                  /\ claims[i].quote \in Says[o.pages[claims[i].page].content]
  BY <1>4, ValidatedFits
<1> HIDE DEF claims
<1>6. w.company = o.company /\ w.pages = o.pages /\ w.failed = o.failed /\ w.claims = claims
  BY <1>1, FieldNames DEF WorkFits, IsWork
<1> HIDE DEF w
<1>7. /\ code \in Codes \union {None}
      /\ code = None => \E i \in DOMAIN w.pages : w.pages[i].content \notin Thin
  BY AnswersAssumption DEF FailureCode, Codes
<1>8. \A i \in DOMAIN w.claims : ClaimFits(w, w.claims[i])
  BY <1>5, <1>6 DEF ClaimFits
<1>9. Local(r, Completed(w, code))
  BY <1>2 DEF w, claims
<1> HIDE DEF code
<1>  QED
  BY <1>1, <1>4, <1>5, <1>6, <1>7, <1>8, <1>9, CompletedMoves DEF o

\* A second call counts.
LEMMA RetryOK ==
  ASSUME RInv, NEW r \in Requests, Retry(r)
  PROVE  RInv'
<1> DEFINE w == work[r]
           x == [w EXCEPT !.tries = @ + 1]
<1>1. WorkFits(w) /\ w.pc = "extract" /\ w.tries + 1 < MaxAttempts /\ Local(r, x)
  BY DEF RInv, Retry, MayRetry
<1> HIDE DEF w
<1>2. ReadingFits(w) /\ w.tries \in Nat /\ Len(w.pages) <= MaxPages
  BY <1>1 DEF WorkFits, Reads
<1>3. /\ IsWork(x) /\ x.pc = "extract" /\ x.company = w.company
      /\ x.pages = w.pages /\ x.todo = w.todo /\ x.tries = w.tries + 1 /\ x.claims = w.claims
      /\ x.failed = w.failed /\ x.held = w.held /\ x.tx = w.tx /\ x.links = w.links
  BY <1>1, FieldNames DEF WorkFits, IsWork
<1> HIDE DEF x
<1>4. ReadingFits(x)
  BY <1>1, <1>2, <1>3 DEF ReadingFits
<1>5. x.tries \in Nat /\ x.tries < MaxAttempts
  BY <1>1, <1>2, <1>3
<1>6. WorkFits(x) /\ x.held = {}
  BY <1>2, <1>3, <1>4, <1>5 DEF WorkFits, Reads, ReadingFits
<1>  QED
  BY <1>1, <1>3, <1>6, ReadsAlone DEF w

\* Without an answer there are no claims.
LEMMA GiveUpOK ==
  ASSUME RInv, NEW r \in Requests, GiveUp(r)
  PROVE  RInv'
<1> DEFINE w == work[r]
<1>1. WorkFits(w) /\ w.pc = "extract" /\ Local(r, Completed(w, "extraction_failed"))
  BY DEF RInv, GiveUp
<1> HIDE DEF w
<1>2. ReadingFits(w)
  BY <1>1 DEF WorkFits, Reads
<1>3. /\ w.pages \in Seq(PageTypes) /\ Len(w.pages) <= MaxPages /\ w.claims = <<>>
      /\ w.company \in Known \union {Prospect} /\ w.failed \in Nat
  BY <1>1, <1>2 DEF ReadingFits, WorkFits
<1>4. /\ w.claims \in Seq(ClaimTypes) /\ \A i \in DOMAIN w.claims : ClaimFits(w, w.claims[i])
  BY <1>3
<1>5. "extraction_failed" \in Codes /\ "extraction_failed" # None
  BY AnswersAssumption DEF Codes
<1>  QED
  BY <1>1, <1>3, <1>4, <1>5, CompletedMoves DEF w

\* A transaction that is lost takes its rows and its locks with it.
LEMMA LostOK ==
  ASSUME RInv, NEW r \in Requests, Lost(r), work[r].pc # "stored"
  PROVE  RInv'
<1> DEFINE w == [Idle EXCEPT !.pc = "lost"]
<1>1. WorkFits(w) /\ w.pc = "lost" /\ w.held = {}
  BY IdleFits
<1>2. Local(r, w)
  BY DEF Lost
<1> HIDE DEF w
<1>  QED
  BY <1>1, <1>2, ReadsAlone

\* What a site answers is none of the coroutines' state.
LEMMA ChangeOK ==
  ASSUME RInv, Change
  PROVE  RInv'
<1>1. site \in SiteTypes /\ changes \in 0..MaxChanges /\ changes < MaxChanges
  BY DEF RInv, SiteFits, Change
<1>2. changes' \in 0..MaxChanges
  BY <1>1, ResearchAssumption DEF Change
<1>3. PICK u \in DOMAIN LaterAnswers : \E a \in LaterAnswers[u] \ {site[u]} :
        site' = [site EXCEPT ![u] = a]
  BY DEF Change
<1>4. u \in Urls /\ LaterAnswers[u] \subseteq Contents \union Urls \union {Down}
  BY AnswersAssumption
<1>5. site' \in SiteTypes
  BY <1>1, <1>3, <1>4 DEF SiteTypes
<1>6. UNCHANGED <<work, db, stored>>
  BY DEF Change
<1>  QED
  BY <1>2, <1>5, <1>6 DEF RInv, SiteFits, WorkIs, LocksApart

------------------------------------------------------------------------------
(***************************************************************************)
(* The transaction                                                         *)
(***************************************************************************)

\* What a transaction sees of its rows and of the committed ones.
LEMMA OverIs ==
  ASSUME NEW rows, NEW docs
  PROVE  /\ DOMAIN Over(rows, docs) = DOMAIN rows \union DOMAIN docs
         /\ \A d \in DOMAIN rows : Over(rows, docs)[d] = rows[d]
         /\ \A d \in DOMAIN docs \ DOMAIN rows : Over(rows, docs)[d] = docs[d]
BY DEF Over

\* Taking a lock changes nothing else.
LEMMA LockOK ==
  ASSUME RInv, NEW r \in Requests, Lock(r)
  PROVE  RInv'
<1> DEFINE w == work[r]
           k == NextKey(w)
           x == [w EXCEPT !.held = @ \union {k}]
<1>1. WorkFits(w) /\ w.pc = "store" /\ TxFits(r, w, db)
  BY DEF RInv, Lock, Needed
<1>2. Local(r, x) /\ \A s \in Requests \ {r} : k \notin work[s].held
  BY DEF Lock
<1>3. \A s \in Requests \ {r} : w.held \intersect work[s].held = {}
  BY DEF RInv, LocksApart
<1> HIDE DEF w, k
<1>4. /\ IsWork(x) /\ x.pc = "store" /\ x.company = w.company /\ x.pages = w.pages
      /\ x.tries = w.tries /\ x.claims = w.claims /\ x.failed = w.failed
      /\ x.held = w.held \union {k} /\ x.tx = w.tx /\ x.links = w.links /\ x.at = w.at
      /\ x.status = w.status /\ x.code = w.code
  BY <1>1, FieldNames DEF WorkFits, IsWork
<1> HIDE DEF x
<1>5. ResultFits(x)
  BY <1>1, <1>4 DEF WorkFits, ResultFits, ClaimFits
<1>6. WorkFits(x)
  BY <1>1, <1>4, <1>5 DEF WorkFits, Reads
<1>7. \A d \in DOMAIN x.tx : RowOfTx(r, x, db, d)
  BY <1>1, <1>4 DEF TxFits, RowOfTx
<1>8. TxFits(r, x, db)
  BY <1>1, <1>4, <1>7 DEF TxFits, LinksShow
<1>9. \A s \in Requests \ {r} : x.held \intersect work[s].held = {}
  BY <1>2, <1>3, <1>4
<1>  QED
  BY <1>1, <1>2, <1>4, <1>6, <1>8, <1>9, MovesAlone DEF Local, w

\* No row is lost, and each has the text it had.
Keeps(docs, seen) ==
  \A d \in DOMAIN seen : d \in DOMAIN docs /\ docs[d].content = seen[d].content

\* The transaction goes on to its next page: the rows it wrote keep what the
\* links before lead to, and the link of this page shows its text.
LEMMA IngestMoves ==
  ASSUME RInv, NEW r \in Requests, work[r].pc = "store", work[r].at \in DOMAIN work[r].pages,
         NEW v, IsWork(v), NEW rows, NEW link \in Ids \union {None}, Local(r, Linked(v, link)),
         v.pc = "store", v.company = work[r].company, v.pages = work[r].pages,
         v.tries = work[r].tries, v.claims = work[r].claims, v.failed = work[r].failed,
         v.held = work[r].held, v.links = work[r].links, v.at = work[r].at,
         v.status = work[r].status, v.code = work[r].code, v.tx = rows,
         \A d \in DOMAIN rows : RowOfTx(r, [at |-> v.at + 1, tx |-> rows, held |-> v.held], db, d),
         OneRoot(Over(rows, db)), RootsExist(Over(rows, db)),
         Keeps(Over(rows, db), View(work[r])),
         LinkShows(work[r].company, Page(work[r]), link, Over(rows, db))
  PROVE  RInv'
<1> DEFINE w == work[r]
           x == Linked(v, link)
           docs == Over(rows, db)
<1>1. WorkFits(w) /\ TxFits(r, w, db) /\ ResultFits(w)
  BY DEF RInv, WorkFits
<1>2. \A s \in Requests \ {r} : w.held \intersect work[s].held = {}
  BY DEF RInv, LocksApart
<1>3. /\ IsWork(x) /\ x.pc = "store" /\ x.company = w.company /\ x.pages = w.pages
      /\ x.tries = w.tries /\ x.claims = w.claims /\ x.failed = w.failed
      /\ x.held = w.held /\ x.tx = rows /\ x.links = Append(w.links, link) /\ x.at = w.at + 1
      /\ x.status = w.status /\ x.code = w.code
  BY FieldNames DEF Linked, IsWork
<1> HIDE DEF x
<1>4. LinkShows(w.company, Page(w), link, docs)
  OBVIOUS
<1>5. \A d \in DOMAIN View(w) : d \in DOMAIN docs /\ docs[d].content = View(w)[d].content
  BY DEF Keeps
<1> HIDE DEF w, docs
<1>6. ResultFits(x)
  BY <1>1, <1>3 DEF ResultFits, ClaimFits
<1>7. WorkFits(x)
  BY <1>1, <1>3, <1>6 DEF WorkFits, Reads
<1>8. \A d \in DOMAIN x.tx : RowOfTx(r, x, db, d)
  BY <1>3 DEF RowOfTx, w
<1>9. /\ w.at \in 1..Len(w.pages) /\ Len(w.pages) \in Nat
      /\ w.links \in Seq(Ids \union {None}) /\ Len(w.links) = w.at - 1
  BY <1>1 DEF TxFits, ResultFits, w
<1>10. /\ x.links \in Seq(Ids \union {None}) /\ Len(x.links) = x.at - 1
       /\ x.at \in 1..Len(x.pages) + 1
       /\ \A i \in 1..w.at - 1 : x.links[i] = w.links[i]
       /\ x.links[w.at] = link /\ DOMAIN x.links = 1..w.at /\ DOMAIN w.links = 1..w.at - 1
  <2> DEFINE a == w.at
             old == w.links
             new == Append(old, link)
  <2>1. a \in Nat /\ a >= 1 /\ old \in Seq(Ids \union {None}) /\ Len(old) = a - 1
    BY <1>9
  <2>2. x.links = new /\ x.at = a + 1 /\ x.pages = w.pages
    BY <1>3
  <2>3. a + 1 \in 1..Len(w.pages) + 1
    BY <1>9
  <2> HIDE DEF a, old
  <2>4. new \in Seq(Ids \union {None}) /\ Len(new) = Len(old) + 1 /\ DOMAIN old = 1..Len(old)
        /\ DOMAIN new = 1..Len(old) + 1
    BY <2>1
  <2>5. new[Len(old) + 1] = link /\ \A i \in 1..Len(old) : new[i] = old[i]
    BY <2>1
  <2> HIDE DEF new
  <2>6. Len(old) + 1 = a /\ a + 1 - 1 = a
    BY <2>1
  <2>  QED
    BY <2>1, <2>2, <2>3, <2>4, <2>5, <2>6 DEF a, old
<1>11. LinksShow(x, docs)
  <2> SUFFICES ASSUME NEW i \in 1..w.at PROVE LinkShows(w.company, w.pages[i], x.links[i], docs)
    BY <1>3, <1>10 DEF LinksShow
  <2>1. CASE i = w.at
    BY <1>4, <1>10, <2>1 DEF Page
  <2>2. CASE i # w.at
    <3>1. i \in 1..w.at - 1
      BY <1>9, <2>2
    <3>2. LinkShows(w.company, w.pages[i], w.links[i], View(w))
      BY <1>1, <1>10, <3>1 DEF TxFits, LinksShow, View
    <3>  QED
      BY <1>5, <1>10, <3>1, <3>2 DEF LinkShows
  <2>  QED
    BY <2>1, <2>2
<1>12. OneRoot(Over(x.tx, db)) /\ RootsExist(Over(x.tx, db)) /\ LinksShow(x, Over(x.tx, db))
  BY <1>3, <1>11 DEF docs
<1>13. TxFits(r, x, db)
  BY <1>8, <1>10, <1>12 DEF TxFits
<1>  QED
  BY <1>1, <1>2, <1>3, <1>7, <1>13, MovesAlone DEF Local, x, w

\* Rows written before stay rows of the transaction.
LEMMA RowsStay ==
  ASSUME NEW r \in Requests, NEW w, TxFits(r, w, db), NEW d \in DOMAIN w.tx
  PROVE  RowOfTx(r, [at |-> w.at + 1, tx |-> w.tx, held |-> w.held], db, d)
<1>1. RowOfTx(r, w, db, d) /\ w.at \in Int
  BY DEF TxFits
<1>2. \A i \in 1..w.at - 1 : i \in 1..w.at + 1 - 1
  BY <1>1
<1>  QED
  BY <1>1, <1>2 DEF RowOfTx

\* A page that leaves no row, or whose text is there already.
LEMMA ReuseOK ==
  ASSUME RInv, NEW r \in Requests, work[r].pc = "store", work[r].at \in DOMAIN work[r].pages,
         NEW link \in Ids \union {None}, Local(r, Linked(work[r], link)),
         LinkShows(work[r].company, Page(work[r]), link, View(work[r]))
  PROVE  RInv'
<1> DEFINE w == work[r]
<1>1. WorkFits(w) /\ TxFits(r, w, db)
  BY DEF RInv
<1>2. \A d \in DOMAIN w.tx : RowOfTx(r, [at |-> w.at + 1, tx |-> w.tx, held |-> w.held], db, d)
  BY <1>1, RowsStay
<1>3. OneRoot(Over(w.tx, db)) /\ RootsExist(Over(w.tx, db)) /\ View(w) = Over(w.tx, db) /\ IsWork(w)
  BY <1>1 DEF TxFits, View, WorkFits
<1>4. Keeps(Over(w.tx, db), View(w))
  BY <1>3 DEF Keeps
<1>  QED
  BY <1>2, <1>3, <1>4, IngestMoves

\* A row that replaces another keeps its text and is not current.
LEMMA SupersededFits ==
  ASSUME NEW d, RowFits(d)
  PROVE  /\ RowFits(Superseded(d)) /\ ~Superseded(d).current
         /\ Superseded(d).content = d.content /\ Superseded(d).duplicateOf = d.duplicateOf
<1> DEFINE x == Superseded(d)
<1>1. /\ IsDocument(x) /\ x.company = d.company /\ x.url = d.url /\ x.content = d.content
      /\ x.status = "superseded" /\ x.current = FALSE /\ x.duplicateOf = d.duplicateOf
  BY DEF Superseded, RowFits, IsDocument, DocFields
<1> HIDE DEF x
<1>  QED
  BY <1>1 DEF RowFits, x

\* The document of a page with text fits, and its keys are the scopes that
\* the transaction has to lock for it.
LEMMA NewDocumentFits ==
  ASSUME NEW w, ResultFits(w), NEW root, w.at \in DOMAIN w.pages, w.company # Prospect,
         Page(w).content \notin Blank
  PROVE  LET n == NewDocument(w, root) IN
         /\ RowFits(n) /\ n.current = TRUE /\ n.company = w.company /\ n.url = Page(w).final
         /\ n.content = Page(w).content /\ n.duplicateOf = root
         /\ n.status = Status(Page(w).content)
         /\ KeysOf(n) = {Key[s] : s \in Scopes(w)}
<1> DEFINE n == NewDocument(w, root)
<1>1. /\ Page(w) \in PageTypes /\ Page(w).final \in Urls /\ Page(w).content \in Contents
      /\ w.company \in Known
  <2>1. w.pages \in Seq(PageTypes) /\ w.company \in Known
    BY DEF ResultFits
  <2>2. Page(w) \in PageTypes
    BY <2>1 DEF Page
  <2>  QED
    BY <2>1, <2>2 DEF PageTypes
<1>2. /\ IsDocument(n) /\ n.current = TRUE /\ n.company = w.company /\ n.url = Page(w).final
      /\ n.content = Page(w).content /\ n.duplicateOf = root
      /\ n.status = Status(Page(w).content)
  BY DEF NewDocument, IsDocument, DocFields
<1> HIDE DEF n
<1>3. RowFits(n)
  BY <1>1, <1>2 DEF RowFits
<1>4. KeysOf(n) = {Key[s] : s \in Scopes(w)}
  BY <1>2 DEF KeysOf, Scopes
<1>  QED
  BY <1>2, <1>3, <1>4 DEF n

\* A row a transaction sees fits, and if it was committed has the text it had.
LEMMA SeenFits ==
  ASSUME NEW r, NEW w, TxFits(r, w, db), DocumentsFit(db), NEW d \in DOMAIN View(w)
  PROVE  /\ d \in Ids /\ RowFits(View(w)[d])
         /\ IF d \in DOMAIN db THEN View(w)[d].content = db[d].content
            ELSE \E i \in 1..w.at - 1 : d = <<r, i>>
<1>1. CASE d \in DOMAIN w.tx
  <2>1. RowOfTx(r, w, db, d)
    BY <1>1 DEF TxFits
  <2>2. View(w)[d] = w.tx[d]
    BY <1>1, OverIs DEF View
  <2>  QED
    BY <2>1, <2>2 DEF RowOfTx
<1>2. CASE d \notin DOMAIN w.tx
  <2> DEFINE seen == Over(w.tx, db)
  <2>1. d \in DOMAIN seen /\ View(w) = seen
    BY DEF View
  <2>2. /\ DOMAIN seen = DOMAIN w.tx \union DOMAIN db
        /\ \A e \in DOMAIN db \ DOMAIN w.tx : seen[e] = db[e]
    BY OverIs
  <2> HIDE DEF seen
  <2>3. d \in DOMAIN db /\ View(w)[d] = db[d]
    BY <1>2, <2>1, <2>2
  <2>  QED
    BY <2>3 DEF DocumentsFit
<1>  QED
  BY <1>1, <1>2

\* The key of a new document is a new one.
LEMMA KeyIsNew ==
  ASSUME RInv, NEW r \in Requests, work[r].pc = "store"
  PROVE  <<r, work[r].at>> \in Ids /\ <<r, work[r].at>> \notin DOMAIN View(work[r])
<1> DEFINE w == work[r]
           key == <<r, w.at>>
<1>1. TxFits(r, w, db) /\ DocumentsFit(db)
  BY DEF RInv
<1>2. w.at \in Nat /\ w.at \notin 1..w.at - 1
  BY <1>1 DEF TxFits
<1>3. key \notin DOMAIN db
  <2>1. key[1] = r
    OBVIOUS
  <2>2. "store" # "stored"
    OBVIOUS
  <2>  QED
    BY <2>1, <2>2 DEF RInv
<1>4. ASSUME key \in DOMAIN View(w) PROVE FALSE
  <2>1. PICK i \in 1..w.at - 1 : key = <<r, i>>
    BY <1>1, <1>3, <1>4, SeenFits
  <2>  QED
    BY <1>2, <2>1
<1>  QED
  BY <1>2, <1>4 DEF Ids

\* The rows of a transaction once it wrote the document n, and what it sees.
WroteIt(rows, w, key, n) ==
  /\ DOMAIN rows = {key} \union CurrentAt(w) \union DOMAIN w.tx /\ rows[key] = n
  /\ \A d \in CurrentAt(w) : rows[d] = Superseded(View(w)[d])
  /\ \A d \in DOMAIN w.tx \ CurrentAt(w) : rows[d] = w.tx[d]
  /\ CurrentAt(w) \subseteq DOMAIN View(w)

SeesIt(docs, w, key, n) ==
  /\ DOMAIN docs = {key} \union DOMAIN View(w) /\ docs[key] = n
  /\ \A d \in CurrentAt(w) : docs[d] = Superseded(View(w)[d])
  /\ \A d \in DOMAIN View(w) \ CurrentAt(w) : docs[d] = View(w)[d]
  /\ CurrentAt(w) \subseteq DOMAIN View(w)

\* Writing does what these two say.
LEMMA WrittenIs ==
  ASSUME NEW w, NEW key, NEW n, key \notin DOMAIN View(w)
  PROVE  /\ WroteIt(Written(w, key, n), w, key, n)
         /\ SeesIt(Over(Written(w, key, n), db), w, key, n)
<1> DEFINE rows == Written(w, key, n)
           seen == View(w)
           docs == Over(rows, db)
           gone == CurrentAt(w)
<1>1. gone \subseteq DOMAIN seen
  BY DEF CurrentAt, Current
<1>2. rows = [d \in {key} \union gone \union DOMAIN w.tx |->
                IF d = key THEN n ELSE IF d \in gone THEN Superseded(seen[d]) ELSE w.tx[d]]
  BY DEF Written
<1>3. /\ DOMAIN seen = DOMAIN w.tx \union DOMAIN db
      /\ \A d \in DOMAIN w.tx : seen[d] = w.tx[d]
      /\ \A d \in DOMAIN db \ DOMAIN w.tx : seen[d] = db[d]
  BY OverIs DEF View
<1> HIDE DEF rows, seen, gone
<1>4. /\ DOMAIN rows = {key} \union gone \union DOMAIN w.tx /\ rows[key] = n
      /\ \A d \in DOMAIN rows : d # key =>
           rows[d] = IF d \in gone THEN Superseded(seen[d]) ELSE w.tx[d]
  BY <1>2
<1>5. key \notin DOMAIN seen
  BY DEF seen
<1>6. /\ DOMAIN docs = DOMAIN rows \union DOMAIN db
      /\ \A d \in DOMAIN rows : docs[d] = rows[d]
      /\ \A d \in DOMAIN db \ DOMAIN rows : docs[d] = db[d]
  BY OverIs
<1> HIDE DEF docs
<1>7. /\ \A d \in gone : rows[d] = Superseded(seen[d])
      /\ \A d \in DOMAIN w.tx \ gone : rows[d] = w.tx[d]
  BY <1>1, <1>3, <1>4, <1>5
<1>8. /\ DOMAIN docs = {key} \union DOMAIN seen /\ docs[key] = n
      /\ \A d \in gone : docs[d] = Superseded(seen[d])
  BY <1>1, <1>3, <1>4, <1>6, <1>7
<1>9. \A d \in DOMAIN seen \ gone : docs[d] = seen[d]
  BY <1>3, <1>4, <1>5, <1>6, <1>7
<1>  QED
  BY <1>1, <1>4, <1>7, <1>8, <1>9 DEF rows, seen, gone, docs, WroteIt, SeesIt

\* A new document is apart from what the transaction sees, once it has taken
\* the place of the document of its address.
LEMMA NewIsApart ==
  ASSUME NEW w, NEW n, NEW root, n.current, n.company = w.company, n.url = Page(w).final,
         n.content = Page(w).content, n.duplicateOf = root,
         root = None => ContentRoots(w) = {},
         NEW d \in DOMAIN View(w) \ CurrentAt(w), RowFits(View(w)[d])
  PROVE  Apart(n, View(w)[d]) /\ Apart(View(w)[d], n)
<1> DEFINE e == View(w)[d]
<1>1. ~(e.company = w.company /\ e.current /\ e.url = Page(w).final)
  BY DEF CurrentAt, Current
<1>2. ~(/\ e.company = w.company /\ e.current /\ e.content = Page(w).content
        /\ e.status = Status(Page(w).content) /\ e.duplicateOf = None /\ e.url # Page(w).final
        /\ root = None)
  BY DEF ContentRoots, Current
<1>3. e.current => e.status = Status(e.content)
  BY DEF RowFits
<1> HIDE DEF e
<1>  QED
  BY <1>1, <1>2, <1>3 DEF Apart, e

\* What the transaction sees stays apart, and every root exists.
LEMMA WrittenApart ==
  ASSUME NEW r, NEW w, TxFits(r, w, db), DocumentsFit(db), NEW key, key \notin DOMAIN View(w),
         NEW n, NEW root, n.current, n.company = w.company, n.url = Page(w).final,
         n.content = Page(w).content, n.duplicateOf = root,
         root \in DOMAIN View(w) \union {None}, root = None => ContentRoots(w) = {}
  PROVE  /\ OneRoot(Over(Written(w, key, n), db)) /\ RootsExist(Over(Written(w, key, n), db))
         /\ Keeps(Over(Written(w, key, n), db), View(w))
<1> DEFINE seen == View(w)
           docs == Over(Written(w, key, n), db)
           gone == CurrentAt(w)
<1>1. /\ DOMAIN docs = {key} \union DOMAIN seen /\ docs[key] = n /\ gone \subseteq DOMAIN seen
      /\ \A d \in gone : docs[d] = Superseded(seen[d])
      /\ \A d \in DOMAIN seen \ gone : docs[d] = seen[d]
  <2>1. SeesIt(docs, w, key, n)
    BY WrittenIs
  <2>  QED
    BY <2>1 DEF SeesIt
<1>2. \A d \in DOMAIN seen : RowFits(seen[d])
  BY SeenFits
<1>3. OneRoot(seen) /\ RootsExist(seen)
  BY DEF TxFits, View
<1>4. \A d \in DOMAIN seen \ gone : Apart(n, seen[d]) /\ Apart(seen[d], n)
  BY <1>2, NewIsApart
<1> HIDE DEF seen, docs, gone
<1>5. \A d \in gone : /\ ~docs[d].current /\ docs[d].content = seen[d].content
                      /\ docs[d].duplicateOf = seen[d].duplicateOf
  BY <1>1, <1>2, SupersededFits
<1>6. \A d \in DOMAIN seen : docs[d].content = seen[d].content
                             /\ docs[d].duplicateOf = seen[d].duplicateOf
  BY <1>1, <1>5
<1>7. OneRoot(docs)
  <2> SUFFICES ASSUME NEW d \in DOMAIN docs, NEW e \in DOMAIN docs, d # e
               PROVE  Apart(docs[d], docs[e])
    BY DEF OneRoot
  <2>1. CASE d \in gone \/ e \in gone
    BY <2>1, <1>5 DEF Apart
  <2>2. CASE d \in DOMAIN seen \ gone /\ e \in DOMAIN seen \ gone
    BY <2>2, <1>1, <1>3 DEF OneRoot
  <2>3. CASE d = key /\ e \in DOMAIN seen \ gone
    BY <2>3, <1>1, <1>4
  <2>4. CASE e = key /\ d \in DOMAIN seen \ gone
    BY <2>4, <1>1, <1>4
  <2>  QED
    BY <1>1, <2>1, <2>2, <2>3, <2>4
<1>8. RootsExist(docs)
  <2>1. \A d \in DOMAIN seen : docs[d].duplicateOf \in DOMAIN docs \union {None}
    BY <1>1, <1>3, <1>6 DEF RootsExist
  <2>2. docs[key].duplicateOf \in DOMAIN docs \union {None}
    BY <1>1 DEF seen
  <2>  QED
    BY <1>1, <2>1, <2>2 DEF RootsExist
<1>  QED
  BY <1>1, <1>6, <1>7, <1>8 DEF seen, docs, Keeps

\* The rows of the transaction are its own, or those it found, with their text.
LEMMA WrittenRows ==
  ASSUME NEW r \in Requests, NEW w, TxFits(r, w, db), DocumentsFit(db),
         <<r, w.at>> \notin DOMAIN View(w), <<r, w.at>> \in Ids,
         NEW n, RowFits(n), KeysOf(n) \subseteq w.held,
         NEW d \in DOMAIN Written(w, <<r, w.at>>, n)
  PROVE  RowOfTx(r, [at |-> w.at + 1, tx |-> Written(w, <<r, w.at>>, n), held |-> w.held], db, d)
<1> DEFINE key == <<r, w.at>>
           rows == Written(w, key, n)
           x == [at |-> w.at + 1, tx |-> rows, held |-> w.held]
<1>0. DOMAIN View(w) = DOMAIN w.tx \union DOMAIN db
  BY OverIs DEF View
<1>1. /\ DOMAIN rows = {key} \union CurrentAt(w) \union DOMAIN w.tx /\ rows[key] = n
      /\ \A e \in CurrentAt(w) : rows[e] = Superseded(View(w)[e])
      /\ \A e \in DOMAIN w.tx \ CurrentAt(w) : rows[e] = w.tx[e]
      /\ CurrentAt(w) \subseteq DOMAIN View(w)
  <2>1. WroteIt(rows, w, key, n)
    BY WrittenIs
  <2>  QED
    BY <2>1 DEF WroteIt
<1>2. w.at \in Nat /\ w.at >= 1
  BY DEF TxFits
<1>3. /\ w.at \in 1..x.at - 1 /\ \A i \in 1..w.at - 1 : i \in 1..x.at - 1
  BY <1>2
<1>4. x.tx = rows /\ x.held = w.held
  OBVIOUS
<1> HIDE DEF rows, x
<1>5. CASE d = key
  <2>1. key \notin DOMAIN db
    BY <1>0
  <2>  QED
    BY <1>1, <1>3, <1>4, <1>5, <2>1 DEF RowOfTx, x, rows
<1>6. CASE d \in CurrentAt(w)
  <2>1. /\ d \in Ids /\ RowFits(View(w)[d])
        /\ IF d \in DOMAIN db THEN View(w)[d].content = db[d].content
           ELSE \E i \in 1..w.at - 1 : d = <<r, i>>
    BY <1>1, <1>6, SeenFits
  <2>2. RowFits(rows[d]) /\ ~rows[d].current /\ rows[d].content = View(w)[d].content
    BY <1>1, <1>6, <2>1, SupersededFits
  <2>  QED
    BY <1>3, <1>4, <2>1, <2>2 DEF RowOfTx, x, rows
<1>7. CASE d \in DOMAIN w.tx \ CurrentAt(w) /\ d # key
  <2>1. RowOfTx(r, w, db, d) /\ rows[d] = w.tx[d]
    BY <1>1, <1>7 DEF TxFits
  <2>  QED
    BY <1>3, <1>4, <2>1 DEF RowOfTx, x, rows
<1>  QED
  BY <1>1, <1>5, <1>6, <1>7 DEF rows

\* A page whose text is new at its address gets a row of its own.
LEMMA NewVersionOK ==
  ASSUME RInv, NEW r \in Requests, work[r].pc = "store", work[r].at \in DOMAIN work[r].pages,
         Needed(work[r]) = {}, work[r].company # Prospect, Page(work[r]).content \notin Blank,
         NEW root \in DOMAIN View(work[r]) \union {None}, root = None => ContentRoots(work[r]) = {},
         LET w == work[r]
             key == <<r, w.at>>
         IN Local(r, Linked([w EXCEPT !.tx = Written(w, key, NewDocument(w, root))], key))
  PROVE  RInv'
<1> DEFINE w == work[r]
           key == <<r, w.at>>
           n == NewDocument(w, root)
           rows == Written(w, key, n)
           v == [w EXCEPT !.tx = rows]
           docs == Over(rows, db)
<1>1. WorkFits(w) /\ ResultFits(w) /\ TxFits(r, w, db) /\ DocumentsFit(db)
  BY DEF RInv, WorkFits
<1>2. key \in Ids /\ key \notin DOMAIN View(w)
  BY KeyIsNew
<1>3. /\ RowFits(n) /\ n.current = TRUE /\ n.company = w.company /\ n.url = Page(w).final
      /\ n.content = Page(w).content /\ n.duplicateOf = root
      /\ KeysOf(n) = {Key[s] : s \in Scopes(w)}
  <2>1. w.at \in DOMAIN w.pages /\ w.company # Prospect /\ Page(w).content \notin Blank
    OBVIOUS
  <2> HIDE DEF w
  <2>  QED
    BY <1>1, <2>1, NewDocumentFits
<1>4. KeysOf(n) \subseteq w.held
  <2>1. {Key[s] : s \in Scopes(w)} \ w.held = {}
    BY DEF Needed
  <2>  QED
    BY <1>3, <2>1
<1> HIDE DEF n
<1>5. OneRoot(docs) /\ RootsExist(docs) /\ Keeps(docs, View(w))
  BY <1>1, <1>2, <1>3, WrittenApart
<1>6. \A d \in DOMAIN rows : RowOfTx(r, [at |-> w.at + 1, tx |-> rows, held |-> w.held], db, d)
  BY <1>1, <1>2, <1>3, <1>4, WrittenRows
<1>7. key \in DOMAIN docs /\ docs[key] = n
  <2>1. SeesIt(docs, w, key, n)
    BY <1>2, WrittenIs
  <2>  QED
    BY <2>1 DEF SeesIt
<1>8. Local(r, Linked(v, key))
  BY DEF n
<1> HIDE DEF rows, w
<1>9. /\ IsWork(v) /\ v.pc = w.pc /\ v.company = w.company /\ v.pages = w.pages
      /\ v.tries = w.tries /\ v.claims = w.claims /\ v.failed = w.failed
      /\ v.held = w.held /\ v.tx = rows /\ v.links = w.links /\ v.at = w.at
      /\ v.status = w.status /\ v.code = w.code
  BY <1>1, FieldNames DEF WorkFits, IsWork
<1> HIDE DEF v, key, docs
<1>10. LinkShows(w.company, Page(w), key, docs)
  BY <1>3, <1>7 DEF LinkShows
<1>  QED
  BY <1>2, <1>5, <1>6, <1>8, <1>9, <1>10, IngestMoves DEF w, docs

\* A page is without a document, linked to one, or gets a new one.
LEMMA IngestOK ==
  ASSUME RInv, NEW r \in Requests, Ingest(r)
  PROVE  RInv'
<1> DEFINE w == work[r]
<1>1. w.pc = "store" /\ w.at \in DOMAIN w.pages /\ Needed(w) = {}
  BY DEF Ingest
<1>2. CASE w.company = Prospect \/ Page(w).content \in Blank
  <2>1. Local(r, Linked(w, None))
    BY <1>2 DEF Ingest
  <2>2. LinkShows(w.company, Page(w), None, View(w))
    BY <1>2 DEF LinkShows
  <2>  QED
    BY <1>1, <2>1, <2>2, ReuseOK
<1>3. ASSUME NEW d \in CurrentAt(w), SameText(w, d), Local(r, Linked(w, d))
      PROVE  RInv'
  <2>1. d \in DOMAIN View(w)
    BY DEF CurrentAt, Current
  <2>2. d \in Ids
    BY <1>1, <2>1, SeenFits DEF RInv
  <2>3. LinkShows(w.company, Page(w), d, View(w))
    BY <1>3, <2>1 DEF LinkShows, SameText
  <2>  QED
    BY <1>1, <1>3, <2>2, <2>3, ReuseOK
<1>4. ASSUME ~(w.company = Prospect \/ Page(w).content \in Blank),
             NEW root \in IF ContentRoots(w) = {} THEN {None} ELSE ContentRoots(w),
             LET key == <<r, w.at>> IN
               Local(r, Linked([w EXCEPT !.tx = Written(w, key, NewDocument(w, root))], key))
      PROVE  RInv'
  <2>1. ContentRoots(w) \subseteq DOMAIN View(w)
    BY DEF ContentRoots, Current
  <2>2. ASSUME root = None PROVE ContentRoots(w) = {}
    <3>1. TxFits(r, w, db) /\ DocumentsFit(db)
      BY <1>1 DEF RInv
    <3>2. \A d \in DOMAIN View(w) : d \in Ids
      BY <3>1, SeenFits
    <3>3. None \notin Ids
      BY AnswersAssumption DEF Ids
    <3>  QED
      BY <1>4, <2>1, <2>2, <3>2, <3>3
  <2>3. root \in DOMAIN View(w) \union {None}
    BY <2>1
  <2>  QED
    BY <1>1, <1>4, <2>2, <2>3, NewVersionOK
<1>  QED
  BY <1>2, <1>3, <1>4 DEF Ingest

\* Links lead to the same texts as long as no row is lost.
LEMMA LinksStay ==
  ASSUME NEW x, NEW docs, NEW more, LinksShow(x, docs), Keeps(more, docs)
  PROVE  LinksShow(x, more)
BY DEF LinksShow, LinkShows, Keeps

\* What a transaction saw is what is there when it commits: the committed
\* rows keep their texts, and the new ones carry its name.
LEMMA CommitKeeps ==
  ASSUME RInv, NEW r \in Requests, work[r].pc = "store"
  PROVE  /\ Keeps(View(work[r]), db)
         /\ \A d \in DOMAIN View(work[r]) : d \in DOMAIN db \/ d[1] = r
         /\ DocumentsFit(View(work[r]))
<1> DEFINE w == work[r]
           seen == View(w)
<1>1. TxFits(r, w, db) /\ DocumentsFit(db)
  BY DEF RInv
<1>2. ASSUME NEW d \in DOMAIN seen
      PROVE  /\ d \in Ids /\ RowFits(seen[d])
             /\ IF d \in DOMAIN db THEN seen[d].content = db[d].content ELSE d[1] = r
  <2>1. /\ d \in Ids /\ RowFits(seen[d])
        /\ IF d \in DOMAIN db THEN seen[d].content = db[d].content
           ELSE \E i \in 1..w.at - 1 : d = <<r, i>>
    BY <1>1, SeenFits
  <2>2. \A i : <<r, i>>[1] = r
    OBVIOUS
  <2>  QED
    BY <2>1, <2>2
<1>3. DOMAIN db \subseteq DOMAIN seen
  BY OverIs DEF View
<1>4. OneRoot(seen) /\ RootsExist(seen)
  BY <1>1 DEF TxFits, View
<1> HIDE DEF seen
<1>5. Keeps(seen, db) /\ \A d \in DOMAIN seen : d \in DOMAIN db \/ d[1] = r
  BY <1>2, <1>3 DEF Keeps
<1>6. DocumentsFit(seen)
  BY <1>2, <1>4 DEF DocumentsFit
<1>  QED
  BY <1>5, <1>6 DEF seen

\* Two current rows that two transactions wrote are apart: each holds the
\* locks of its own, and no lock has two holders.
LEMMA LockedApart ==
  ASSUME RInv, NEW r \in Requests, NEW s \in Requests, r # s,
         work[r].pc = "store", work[s].pc = "store",
         NEW d \in DOMAIN work[r].tx, NEW e \in DOMAIN work[s].tx
  PROVE  Apart(work[r].tx[d], work[s].tx[e]) /\ Apart(work[s].tx[e], work[r].tx[d])
<1> DEFINE x == work[r].tx[d]
           y == work[s].tx[e]
<1>1. x.current => KeysOf(x) \subseteq work[r].held
  BY DEF RInv, TxFits, RowOfTx
<1>2. y.current => KeysOf(y) \subseteq work[s].held
  BY DEF RInv, TxFits, RowOfTx
<1>3. work[r].held \intersect work[s].held = {}
  BY DEF RInv, LocksApart
<1> HIDE DEF x, y
<1>4. x.current /\ y.current => KeysOf(x) \intersect KeysOf(y) = {}
  BY <1>1, <1>2, <1>3
<1>5. x.current /\ y.current /\ x.company = y.company => x.url # y.url /\ x.content # y.content
  BY <1>4 DEF KeysOf
<1>  QED
  BY <1>5 DEF Apart, x, y

\* A transaction that is still open fits what another one committed.
LEMMA OthersFit ==
  ASSUME RInv, NEW r \in Requests, NEW s \in Requests, r # s,
         work[r].pc = "store", work[s].pc = "store"
  PROVE  TxFits(s, work[s], View(work[r]))
<1> DEFINE w == work[r]
           v == work[s]
           new == View(w)
           docs == Over(v.tx, new)
           old == Over(v.tx, db)
<1>1. TxFits(r, w, db) /\ TxFits(s, v, db) /\ DocumentsFit(db)
  BY DEF RInv
<1>2. /\ Keeps(new, db) /\ DocumentsFit(new)
      /\ \A d \in DOMAIN new : d \in DOMAIN db \/ d[1] = r
  BY CommitKeeps
<1>3. /\ DOMAIN new = DOMAIN w.tx \union DOMAIN db
      /\ \A d \in DOMAIN w.tx : new[d] = w.tx[d]
      /\ \A d \in DOMAIN db \ DOMAIN w.tx : new[d] = db[d]
  BY OverIs DEF View
<1>4. /\ DOMAIN docs = DOMAIN v.tx \union DOMAIN new
      /\ \A d \in DOMAIN v.tx : docs[d] = v.tx[d]
      /\ \A d \in DOMAIN new \ DOMAIN v.tx : docs[d] = new[d]
  <2> HIDE DEF new
  <2>  QED
    BY OverIs
<1>5. /\ DOMAIN old = DOMAIN v.tx \union DOMAIN db
      /\ \A d \in DOMAIN v.tx : old[d] = v.tx[d]
      /\ \A d \in DOMAIN db \ DOMAIN v.tx : old[d] = db[d]
  BY OverIs
<1>6. OneRoot(old) /\ RootsExist(old) /\ LinksShow(v, old)
  BY <1>1 DEF TxFits
<1>7. OneRoot(new) /\ RootsExist(new)
  BY <1>2 DEF DocumentsFit
<1>8. \A d \in DOMAIN w.tx, e \in DOMAIN v.tx : Apart(w.tx[d], v.tx[e]) /\ Apart(v.tx[e], w.tx[d])
  BY LockedApart
<1>9. \A d \in DOMAIN v.tx : RowOfTx(s, v, db, d)
  BY <1>1 DEF TxFits
<1> HIDE DEF w, v, new, docs, old
<1>10. ASSUME NEW d \in DOMAIN v.tx PROVE RowOfTx(s, v, new, d)
  <2>1. CASE d \in DOMAIN db
    <3>1. d \in DOMAIN new /\ new[d].content = db[d].content
      BY <1>2, <2>1 DEF Keeps
    <3>  QED
      BY <1>9, <2>1, <3>1 DEF RowOfTx
  <2>2. CASE d \notin DOMAIN db
    <3>1. \E i \in 1..v.at - 1 : d = <<s, i>>
      BY <1>9, <2>2 DEF RowOfTx
    <3>2. d[1] = s
      BY <3>1
    <3>3. d \notin DOMAIN new
      BY <1>2, <2>2, <3>2
    <3>  QED
      BY <1>9, <2>2, <3>3 DEF RowOfTx
  <2>  QED
    BY <2>1, <2>2
<1>11. Keeps(docs, old)
  BY <1>2, <1>4, <1>5 DEF Keeps
<1>12. OneRoot(docs)
  <2> SUFFICES ASSUME NEW d \in DOMAIN docs, NEW e \in DOMAIN docs, d # e
               PROVE  Apart(docs[d], docs[e])
    BY DEF OneRoot
  <2>1. CASE d \in DOMAIN new \ DOMAIN v.tx /\ e \in DOMAIN new \ DOMAIN v.tx
    BY <1>4, <1>7, <2>1 DEF OneRoot
  <2>2. CASE d \in DOMAIN old /\ e \in DOMAIN old /\ docs[d] = old[d] /\ docs[e] = old[e]
    BY <1>6, <2>2 DEF OneRoot
  <2>3. CASE d \in DOMAIN v.tx /\ e \in DOMAIN w.tx \ DOMAIN v.tx
    BY <1>3, <1>4, <1>8, <2>3
  <2>4. CASE d \in DOMAIN w.tx \ DOMAIN v.tx /\ e \in DOMAIN v.tx
    BY <1>3, <1>4, <1>8, <2>4
  <2>5. \A f \in DOMAIN docs : \/ f \in DOMAIN old /\ docs[f] = old[f]
                               \/ f \in DOMAIN w.tx \ DOMAIN v.tx
    BY <1>3, <1>4, <1>5
  <2>6. \A f \in DOMAIN docs : f \in DOMAIN v.tx \/ f \in DOMAIN new \ DOMAIN v.tx
    BY <1>4
  <2>7. \A f \in DOMAIN v.tx : f \in DOMAIN old /\ docs[f] = old[f]
    BY <1>4, <1>5
  <2>  QED
    BY <2>1, <2>2, <2>3, <2>4, <2>5, <2>6, <2>7
<1>13. RootsExist(docs)
  <2> SUFFICES ASSUME NEW d \in DOMAIN docs
               PROVE  docs[d].duplicateOf \in DOMAIN docs \union {None}
    BY DEF RootsExist
  <2>1. CASE d \in DOMAIN v.tx
    BY <1>4, <1>5, <1>6, <1>11, <2>1 DEF RootsExist, Keeps
  <2>2. CASE d \in DOMAIN new \ DOMAIN v.tx
    BY <1>4, <1>7, <2>2 DEF RootsExist
  <2>  QED
    BY <1>4, <2>1, <2>2
<1>14. LinksShow(v, docs)
  BY <1>6, <1>11, LinksStay
<1>  QED
  BY <1>1, <1>10, <1>12, <1>13, <1>14 DEF TxFits, v, docs, new, w

\* What the transaction saw becomes what is committed.
LEMMA CommitOK ==
  ASSUME RInv, NEW r \in Requests, Commit(r)
  PROVE  RInv'
<1> DEFINE w == work[r]
           x == [Idle EXCEPT !.pc = "stored"]
           new == View(w)
           run == Run(w)
<1>1. /\ w.pc = "store" /\ w.at > Len(w.pages) /\ Goto(r, x) /\ db' = new
      /\ stored' = [s \in DOMAIN stored \union {r} |-> IF s = r THEN run ELSE stored[s]]
      /\ UNCHANGED <<site, changes>>
  BY DEF Commit
<1>2. WorkFits(w) /\ ResultFits(w) /\ TxFits(r, w, db)
  BY <1>1 DEF RInv, WorkFits
<1>3. WorkFits(x) /\ x.pc = "stored" /\ x.held = {}
  BY IdleFits
<1>4. /\ Keeps(new, db) /\ DocumentsFit(new)
      /\ \A d \in DOMAIN new : d \in DOMAIN db \/ d[1] = r
  BY <1>1, CommitKeeps
<1>5. \A s \in Requests \ {r} : work[s].pc = "store" => TxFits(s, work[s], new)
  BY <1>1, OthersFit
<1>6. LinksShow(w, new) /\ Len(w.links) = Len(w.pages) /\ w.links \in Seq(Ids \union {None})
  <2>1. /\ LinksShow(w, new) /\ w.links \in Seq(Ids \union {None}) /\ w.at \in 1..Len(w.pages) + 1 /\ Len(w.links) = w.at - 1
        /\ w.pages \in Seq(PageTypes)
    BY <1>2 DEF TxFits, View, ResultFits
  <2> DEFINE p == Len(w.pages)
  <2>2. p \in Nat
    BY <2>1
  <2>3. w.at > p /\ w.at \in 1..p + 1 /\ Len(w.links) = w.at - 1
    BY <1>1, <2>1
  <2> HIDE DEF p
  <2>4. Len(w.links) = p
    BY <2>2, <2>3
  <2>  QED
    BY <2>1, <2>4 DEF p
<1>7. /\ run.company = w.company /\ run.status = w.status /\ run.code = w.code
      /\ run.pages = w.pages /\ run.failed = w.failed /\ run.claims = w.claims
      /\ run.links = w.links
  BY DEF Run
<1> HIDE DEF w, x, new, run
<1>8. RunFits(run, new)
  BY <1>2, <1>6, <1>7 DEF RunFits, ResultFits, ClaimFits, LinksShow
<1>9. work'[r] = x /\ (\A s \in Requests \ {r} : work'[s] = work[s]) /\ WorkIs'
  BY <1>1 DEF RInv, WorkIs, Goto
<1>10. SiteFits'
  BY <1>1 DEF SiteFits, RInv
<1>11. LocksApart'
  BY <1>3, <1>9 DEF LocksApart, RInv
<1>12. \A s \in Requests : WorkFits(work'[s])
  BY <1>3, <1>9 DEF RInv
<1>13. \A s \in Requests : work'[s].pc = "store" => TxFits(s, work'[s], db')
  BY <1>1, <1>3, <1>5, <1>9
<1>14. DocumentsFit(db')
  BY <1>1, <1>4
<1>15. \A d \in DOMAIN db' : work'[d[1]].pc = "stored"
  <2> SUFFICES ASSUME NEW d \in DOMAIN new PROVE work'[d[1]].pc = "stored"
    BY <1>1
  <2>1. CASE d[1] = r
    BY <1>3, <1>9, <2>1
  <2>2. CASE d[1] # r
    <3>1. d \in DOMAIN db /\ d[1] \in Requests /\ work[d[1]].pc = "stored"
      BY <1>4, <2>2 DEF RInv, DocumentsFit, Ids
    <3>  QED
      BY <1>9, <2>2, <3>1
  <2>  QED
    BY <2>1, <2>2
<1>16. DOMAIN stored' \subseteq Requests /\ \A s \in DOMAIN stored' : RunFits(stored'[s], db')
  <2>1. DOMAIN stored \subseteq Requests /\ \A s \in DOMAIN stored : RunFits(stored[s], db)
    BY DEF RInv
  <2>2. \A s \in DOMAIN stored : RunFits(stored[s], new)
    BY <1>4, <2>1, LinksStay DEF RunFits
  <2>  QED
    BY <1>1, <1>8, <2>1, <2>2
<1>  QED
  BY <1>9, <1>10, <1>11, <1>12, <1>13, <1>14, <1>15, <1>16 DEF RInv

------------------------------------------------------------------------------
(***************************************************************************)
(* Research runs: the theorems                                             *)
(***************************************************************************)

\* A transaction that waits has not been stored.
LEMMA DeadlockOK ==
  ASSUME RInv, NEW r \in Requests, Deadlock(r)
  PROVE  RInv'
<1>1. PICK S \in SUBSET Requests : r \in S /\ \A s \in S : \E other \in S \ {s} : Waits(s, other)
  BY DEF Deadlock
<1>2. Needed(work[r]) # {}
  BY <1>1 DEF Waits
<1>3. work[r].pc # "stored"
  BY <1>2 DEF Needed
<1>  QED
  BY <1>3, LostOK DEF Deadlock

\* Nothing is stored at first.
LEMMA InitOK ==
  ASSUME Init
  PROVE  RInv
<1>1. work = [r \in Requests |-> Idle] /\ site = FirstSite /\ changes = 0
      /\ DOMAIN db = {} /\ DOMAIN stored = {}
  BY DEF Init
<1>2. SiteFits
  BY <1>1, AnswersAssumption, ResearchAssumption DEF SiteFits, SiteTypes
<1>3. \A r \in Requests : work[r] = Idle
  BY <1>1
<1>4. WorkIs
  BY <1>1, <1>3 DEF WorkIs
<1>5. \A r \in Requests : WorkFits(work[r]) /\ work[r].pc = "idle" /\ work[r].held = {}
  BY <1>3, IdleFits
<1>6. LocksApart
  BY <1>5 DEF LocksApart
<1>7. DocumentsFit(db)
  BY <1>1 DEF DocumentsFit, OneRoot, RootsExist
<1>  QED
  BY <1>1, <1>2, <1>4, <1>5, <1>6, <1>7 DEF RInv

\* Every step keeps the invariant.
LEMMA NextOK ==
  ASSUME RInv, [Next]_vars
  PROVE  RInv'
<1>1. CASE Change
  BY <1>1, ChangeOK
<1>2. CASE \E r \in Requests : Start(r) \/ Step(r) \/ Die(r)
  <2> PICK r \in Requests : Start(r) \/ Step(r) \/ Die(r)
    BY <1>2
  <2>1. CASE Start(r)
    BY <2>1, StartOK
  <2>2. CASE LoadRobots(r)
    BY <2>2, LoadRobotsOK
  <2>3. CASE ReadHome(r)
    BY <2>3, ReadHomeOK
  <2>4. CASE ReadNext(r)
    BY <2>4, ReadNextOK
  <2>5. CASE OutOfTime(r)
    BY <2>5, OutOfTimeOK
  <2>6. CASE Answered(r)
    BY <2>6, AnsweredOK
  <2>7. CASE Retry(r)
    BY <2>7, RetryOK
  <2>8. CASE GiveUp(r)
    BY <2>8, GiveUpOK
  <2>9. CASE Lock(r)
    BY <2>9, LockOK
  <2>10. CASE Ingest(r)
    BY <2>10, IngestOK
  <2>11. CASE Commit(r)
    BY <2>11, CommitOK
  <2>12. CASE Deadlock(r)
    BY <2>12, DeadlockOK
  <2>13. CASE Die(r)
    BY <2>13, LostOK DEF Die
  <2>  QED
    BY <2>1, <2>2, <2>3, <2>4, <2>5, <2>6, <2>7, <2>8, <2>9, <2>10, <2>11, <2>12, <2>13 DEF Step
<1>3. CASE UNCHANGED vars
  <2>1. /\ site' = site /\ changes' = changes /\ work' = work /\ db' = db /\ stored' = stored
    BY <1>3 DEF vars
  <2>2. SiteFits' /\ WorkIs' /\ LocksApart'
    BY <2>1 DEF RInv, SiteFits, WorkIs, LocksApart
  <2>3. \A r \in Requests : work'[r].pc = "store" => TxFits(r, work'[r], db')
    BY <2>1 DEF RInv
  <2>  QED
    BY <2>1, <2>2, <2>3 DEF RInv
<1>  QED
  BY <1>1, <1>2, <1>3 DEF Next

\* The committed documents are apart.
LEMMA RootsAreOne ==
  ASSUME RInv
  PROVE  OneRootPerText
<1>1. OneRoot(db)
  BY DEF RInv, DocumentsFit
<1>  QED
  BY <1>1 DEF OneRoot, Apart, OneRootPerText

\* What is stored is well formed.
LEMMA TypesFit ==
  ASSUME RInv
  PROVE  TypeOK
<1>1. /\ site \in [Urls -> Contents \union Urls \union {Down}] /\ changes \in 0..MaxChanges
      /\ DOMAIN stored \subseteq Requests
  BY DEF RInv, SiteFits, SiteTypes
<1>2. ASSUME NEW d \in DOMAIN db PROVE DocumentOK(db[d])
  <2>1. RowFits(db[d]) /\ db[d].duplicateOf \in DOMAIN db \union {None}
    BY DEF RInv, DocumentsFit, RootsExist
  <2>2. Status(db[d].content) \in {"ready", "quarantined"}
    BY DEF Status
  <2>  QED
    BY <2>1, <2>2 DEF RowFits, DocumentOK
<1>3. ASSUME NEW r \in DOMAIN stored PROVE RunOK(stored[r])
  BY DEF RInv, RunFits, ResultFits, RunOK
<1>4. \A r \in Requests : work[r].tries < MaxAttempts /\ Len(work[r].pages) <= MaxPages
  BY DEF RInv, WorkFits
<1>  QED
  BY <1>1, <1>2, <1>3, <1>4 DEF TypeOK

\* A quote is on its page, which therefore has text, and left a document.
LEMMA EvidenceFits ==
  ASSUME RInv
  PROVE  EvidenceIsKept
<1> SUFFICES ASSUME NEW r \in DOMAIN stored, NEW i \in DOMAIN stored[r].claims
             PROVE  LET run == stored[r]
                        claim == run.claims[i] IN
                    /\ claim.quote \in Says[run.pages[claim.page].content]
                    /\ run.company # Prospect =>
                         /\ run.links[claim.page] \in DOMAIN db
                         /\ claim.quote \in Says[db[run.links[claim.page]].content]
  BY DEF EvidenceIsKept
<1> DEFINE run == stored[r]
           claim == run.claims[i]
           page == run.pages[claim.page]
           link == run.links[claim.page]
<1>1. /\ ClaimFits(run, claim) /\ run.pages \in Seq(PageTypes) /\ LinksShow(run, db)
      /\ run.links \in Seq(Ids \union {None}) /\ Len(run.links) = Len(run.pages)
  BY DEF RInv, RunFits, ResultFits
<1>2. claim.page \in DOMAIN run.pages /\ claim.quote \in Says[page.content]
  BY <1>1 DEF ClaimFits
<1>3. page.content \notin Blank
  BY <1>2, ResearchAssumption
<1>4. claim.page \in DOMAIN run.links
  <2>1. \A S : \A s \in Seq(S) : DOMAIN s = 1..Len(s)
    OBVIOUS
  <2>  QED
    BY <1>1, <1>2, <2>1
<1>5. run.company # Prospect => link \in DOMAIN db /\ db[link].content = page.content
  BY <1>1, <1>3, <1>4 DEF LinksShow, LinkShows
<1>  QED
  BY <1>2, <1>5

\* A result that is complete is whole.
LEMMA CompletedFits ==
  ASSUME RInv
  PROVE  CompletedIsWhole
BY DEF RInv, RunFits, ResultFits, CompletedIsWhole

\* The invariant of the runs holds for all runs, companies and sites.
LEMMA RInvHolds ==
  Spec => []RInv
<1>1. Init => RInv
  BY InitOK
<1>2. RInv /\ [Next]_vars => RInv'
  BY NextOK
<1>  QED
  BY <1>1, <1>2, PTL DEF Spec

\* Of one text that several runs find, at most one current document of a
\* company is not a duplicate, and an address has one current document,
\* however the transactions interleave.
THEOREM OneRootPerTextHolds ==
  Spec => []OneRootPerText
<1>1. RInv => OneRootPerText
  BY RootsAreOne
<1>  QED
  BY <1>1, RInvHolds, PTL

\* The stored runs are well formed, keep their evidence and are complete
\* only when they read all they chose.
THEOREM RunsAreSoundHolds ==
  Spec => []RunsAreSound
<1>1. RInv => RunsAreSound
  BY TypesFit, EvidenceFits, CompletedFits DEF RunsAreSound
<1>  QED
  BY <1>1, RInvHolds, PTL

------------------------------------------------------------------------------
(***************************************************************************)
(* Reviews: the rows of a company                                          *)
(***************************************************************************)

\* Every sequence a review extends: its rows stay, none is repeated, and
\* every row asked for is there.
Grown(more, got, row, S) ==
  /\ more \in Seq(S) /\ IsInjective(more)
  /\ \A i \in DOMAIN got : i \in DOMAIN more /\ more[i] = got[i]
  /\ \A c \in DOMAIN row : \E i \in DOMAIN more : more[i] = row[c]

\* The claims of new rows are ordered; each has a place of its own.
LEMMA NewInOrder ==
  ASSUME NEW new, new \subseteq Nat, IsFiniteSet(new)
  PROVE  /\ Cardinality(new) \in Nat
         /\ \A i \in 1..Cardinality(new) :
              \E c \in new : Cardinality(Before(c, new)) = i - 1
         /\ \A c \in new : Cardinality(Before(c, new)) + 1 \in 1..Cardinality(new)
         /\ \A c, d \in new : Cardinality(Before(c, new)) = Cardinality(Before(d, new)) => c = d
<1>1. Total2(new, Less)
  BY DEF Total2, Less
<1>2. \A c \in new : RankIn(new, Less, c) = Cardinality(Before(c, new))
  <2> SUFFICES ASSUME NEW c \in new
               PROVE  {y \in new : <<y, c>> \in Less} = Before(c, new)
    BY DEF RankIn
  <2>  QED
    BY DEF Less, Before
<1>3. Cardinality(new) \in Nat
  BY FS_CardinalityType
<1>4. /\ \A x, y \in new : RankIn(new, Less, x) = RankIn(new, Less, y) => x = y
      /\ \A i \in 1 .. Cardinality(new) : \E x \in new : RankIn(new, Less, x) = i - 1
  BY <1>1, RankIsBijective
<1>5. \A x \in new : RankIn(new, Less, x) \in 0 .. Cardinality(new) - 1
  BY <1>1, RankGrows
<1>6. \A c \in new : Cardinality(Before(c, new)) + 1 \in 1..Cardinality(new)
  <2> TAKE c \in new
  <2> DEFINE n == Cardinality(new)
             k == Cardinality(Before(c, new))
  <2>1. n \in Nat /\ k \in 0 .. n - 1
    BY <1>2, <1>3, <1>5
  <2> HIDE DEF n, k
  <2>2. k + 1 \in 1..n
    BY <2>1
  <2>  QED
    BY <2>2 DEF n, k
<1>  QED
  BY <1>2, <1>3, <1>4, <1>6

\* The claims of new rows give different rows, and none that is there.
LEMMA NewRows ==
  ASSUME NEW got, NEW row, DOMAIN row \subseteq Nat
  PROVE  /\ NewIn(got, row) \subseteq DOMAIN row
         /\ \A c \in NewIn(got, row) : row[c] \notin Range(got)
         /\ \A c, d \in NewIn(got, row) : row[c] = row[d] => c = d
         /\ \A c \in DOMAIN row :
              row[c] \in Range(got) \/ \E d \in NewIn(got, row) : row[d] = row[c]
<1>1. \A c, d \in NewIn(got, row) : row[c] = row[d] => c = d
  BY DEF NewIn
<1>2. ASSUME NEW c \in DOMAIN row, row[c] \notin Range(got)
      PROVE  \E d \in NewIn(got, row) : row[d] = row[c]
  <2> DEFINE T == {d \in DOMAIN row : row[d] = row[c]}
  <2>1. T \subseteq Nat /\ T # {}
    OBVIOUS
  <2>2. PICK d \in T : \A e \in T : d <= e
    BY <2>1, Least
  <2>3. \A e \in DOMAIN row : e < d => row[e] # row[d]
    BY <2>2
  <2>4. d \in NewIn(got, row)
    BY <1>2, <2>2, <2>3 DEF NewIn
  <2>  QED
    BY <2>2, <2>4
<1>  QED
  BY <1>1, <1>2 DEF NewIn

\* u is s and then t, without a repetition.
Continues(u, s, t, S) ==
  /\ u \in Seq(S) /\ IsInjective(u)
  /\ \A i \in DOMAIN s : i \in DOMAIN u /\ u[i] = s[i]
  /\ \A j \in DOMAIN t : \E i \in DOMAIN u : u[i] = t[j]

\* Two sequences without a common element.
LEMMA Continued ==
  ASSUME NEW S, NEW s \in Seq(S), NEW t \in Seq(S), IsInjective(s), IsInjective(t),
         \A i \in DOMAIN s, j \in DOMAIN t : s[i] # t[j]
  PROVE  Continues(s \o t, s, t, S)
<1> DEFINE u == s \o t
           m == Len(s)
           n == Len(t)
<1>1. u \in Seq(S) /\ m \in Nat /\ n \in Nat /\ DOMAIN u = 1..m + n
      /\ DOMAIN s = 1..m /\ DOMAIN t = 1..n
  OBVIOUS
<1>2. \A i \in 1..m + n : u[i] = IF i <= m THEN s[i] ELSE t[i - m]
  BY <1>1
<1> HIDE DEF u, m, n
<1>3. IsInjective(u)
  <2> SUFFICES ASSUME NEW i \in 1..m + n, NEW j \in 1..m + n, u[i] = u[j]
               PROVE  i = j
    BY <1>1 DEF IsInjective
  <2>1. CASE i <= m /\ j <= m
    <3>1. i \in 1..m /\ j \in 1..m /\ s[i] = s[j]
      BY <1>1, <1>2, <2>1
    <3>  QED
      BY <1>1, <3>1 DEF IsInjective
  <2>2. CASE i <= m /\ j > m
    <3>1. i \in 1..m /\ j - m \in 1..n /\ s[i] = t[j - m]
      BY <1>1, <1>2, <2>2
    <3>  QED
      BY <1>1, <3>1
  <2>3. CASE i > m /\ j <= m
    <3>1. j \in 1..m /\ i - m \in 1..n /\ s[j] = t[i - m]
      BY <1>1, <1>2, <2>3
    <3>  QED
      BY <1>1, <3>1
  <2>4. CASE i > m /\ j > m
    <3>1. i - m \in 1..n /\ j - m \in 1..n /\ t[i - m] = t[j - m]
      BY <1>1, <1>2, <2>4
    <3>2. i - m = j - m
      BY <1>1, <3>1 DEF IsInjective
    <3>  QED
      BY <1>1, <3>2
  <2>  QED
    BY <1>1, <2>1, <2>2, <2>3, <2>4
<1>4. \A i \in 1..m : i \in 1..m + n /\ u[i] = s[i]
  BY <1>1, <1>2
<1>5. ASSUME NEW j \in 1..n PROVE \E i \in 1..m + n : u[i] = t[j]
  <2>1. m + j \in 1..m + n /\ ~(m + j <= m) /\ (m + j) - m = j
    BY <1>1
  <2>2. u[m + j] = t[j]
    BY <1>2, <2>1
  <2>  QED
    BY <2>1, <2>2
<1>  QED
  BY <1>1, <1>3, <1>4, <1>5 DEF u, Continues

\* Rows are appended once.
LEMMA EnsureGrows ==
  ASSUME NEW S, NEW got \in Seq(S), IsInjective(got), NEW row, DOMAIN row \subseteq Nat,
         IsFiniteSet(DOMAIN row), \A c \in DOMAIN row : row[c] \in S
  PROVE  Grown(Ensure(got, row), got, row, S)
<1> DEFINE new == NewIn(got, row)
           n == Cardinality(new)
           who(i) == CHOOSE c \in new : Cardinality(Before(c, new)) = i - 1
           t == [i \in 1..n |-> row[who(i)]]
<1>1. /\ new \subseteq DOMAIN row /\ \A c \in new : row[c] \notin Range(got)
      /\ \A c, d \in new : row[c] = row[d] => c = d
      /\ \A c \in DOMAIN row : row[c] \in Range(got) \/ \E d \in new : row[d] = row[c]
  BY NewRows
<1>2. new \subseteq Nat /\ IsFiniteSet(new)
  BY <1>1, FS_Subset
<1>3. /\ n \in Nat /\ \A i \in 1..n : \E c \in new : Cardinality(Before(c, new)) = i - 1
      /\ \A c \in new : Cardinality(Before(c, new)) + 1 \in 1..n
      /\ \A c, d \in new : Cardinality(Before(c, new)) = Cardinality(Before(d, new)) => c = d
  <2> HIDE DEF new
  <2>  QED
    BY <1>2, NewInOrder
<1>4. \A c \in new : Cardinality(Before(c, new)) \in Nat
  BY <1>2, FS_Subset, FS_CardinalityType DEF Before
<1>5. Ensure(got, row) = got \o t
  BY DEF Ensure
<1> HIDE DEF new, n
<1>6. \A i \in 1..n : who(i) \in new /\ Cardinality(Before(who(i), new)) = i - 1
  BY <1>3
<1> HIDE DEF who
<1>7. t \in Seq(S) /\ DOMAIN t = 1..n /\ \A i \in 1..n : t[i] = row[who(i)]
  BY <1>1, <1>3, <1>6
<1> HIDE DEF t
<1>8. IsInjective(t)
  <2> SUFFICES ASSUME NEW i \in 1..n, NEW j \in 1..n, t[i] = t[j]
               PROVE  i = j
    BY <1>7 DEF IsInjective
  <2>1. who(i) = who(j)
    BY <1>1, <1>6, <1>7
  <2>2. i - 1 = j - 1
    BY <1>6, <2>1
  <2>  QED
    BY <1>3, <2>2
<1>9. \A i \in DOMAIN got, j \in DOMAIN t : got[i] # t[j]
  BY <1>1, <1>6, <1>7 DEF Range
<1>10. Continues(got \o t, got, t, S)
  BY <1>7, <1>8, <1>9, Continued
<1>11. \A d \in new : \E j \in DOMAIN t : t[j] = row[d]
  <2> TAKE d \in new
  <2> DEFINE k == Cardinality(Before(d, new))
  <2>1. k \in Nat /\ k + 1 \in 1..n
    BY <1>3, <1>4
  <2> HIDE DEF k
  <2>2. who(k + 1) \in new /\ Cardinality(Before(who(k + 1), new)) = k
    BY <1>6, <2>1
  <2>3. who(k + 1) = d
    BY <1>3, <2>2 DEF k
  <2>  QED
    BY <1>7, <2>1, <2>3
<1>12. ASSUME NEW c \in DOMAIN row
       PROVE  \E i \in DOMAIN (got \o t) : (got \o t)[i] = row[c]
  <2>1. CASE row[c] \in Range(got)
    <3>1. PICK i \in DOMAIN got : got[i] = row[c]
      BY <2>1 DEF Range
    <3>  QED
      BY <1>10, <3>1 DEF Continues
  <2>2. CASE row[c] \notin Range(got)
    <3>1. PICK d \in new : row[d] = row[c]
      BY <1>1, <2>2
    <3>2. PICK j \in DOMAIN t : t[j] = row[d]
      BY <1>11
    <3>  QED
      BY <1>10, <3>1, <3>2 DEF Continues
  <2>  QED
    BY <2>1, <2>2
<1>  QED
  BY <1>5, <1>10, <1>12 DEF Grown, Continues

------------------------------------------------------------------------------
(***************************************************************************)
(* Reviews: their steps                                                    *)
(***************************************************************************)

Signals == Range(ClaimText) \union EditText
NoRepeat(company) ==
  IsFirm(company) /\ IsInjective(company.signals) /\ IsInjective(company.sources)
PromotionsFit(run, old) == \A c \in DOMAIN old : IsPromotion(run, c, old[c])

\* What a review holds between its steps: decisions on a run and the run's
\* promotions as read; later the company as read, and an answer.
DecisionsFit(r) ==
  /\ r.run \in Runs /\ r.firm \in Firms \union {Firm0} /\ r.asked \in Requested(r.run)
  /\ PromotionsFit(r.run, r.seen)
ReviewFits(r) ==
  /\ "pc" \in DOMAIN r /\ r.pc \in {"idle", "read", "save", "answered"}
  /\ r.pc \in {"read", "save"} => DecisionsFit(r)
  /\ r.pc = "save" => NoRepeat(r.company) /\ Answer(r.seen, r.asked) = "save"

PInv ==
  /\ promotions = [run \in Runs |-> promotions[run]] /\ firms = [f \in Firms |-> firms[f]]
  /\ review = [v \in Reviewers |-> review[v]]
  /\ \A run \in Runs : PromotionsFit(run, promotions[run])
  /\ \A f \in Firms : NoRepeat(firms[f])
  /\ \A v \in Reviewers : ReviewFits(review[v])

\* The verdicts asked for are on claims of the run.
LEMMA RequestedAre ==
  ASSUME NEW run \in Runs, NEW asked \in Requested(run)
  PROVE  /\ DOMAIN asked \subseteq Claims[run] /\ DOMAIN asked \subseteq Nat
         /\ IsFiniteSet(DOMAIN asked)
         /\ \A c \in DOMAIN asked : asked[c] \in Verdicts
<1>1. PICK C \in (SUBSET Claims[run]) \ {{}} : asked \in [C -> Verdicts]
  BY DEF Requested
<1>2. IsFiniteSet(C)
  BY FS_Subset, PromotionAssumption
<1>  QED
  BY <1>1, <1>2, PromotionAssumption

\* What a verdict writes is a text of the claims or of an editor.
LEMMA RenderedIs ==
  ASSUME NEW run \in Runs, NEW c \in Claims[run], NEW verdict \in Verdicts
  PROVE  Rendered(run, c, verdict) \in Signals /\ ClaimPage[<<run, c>>] \in Range(ClaimPage)
<1>1. <<run, c>> \in DOMAIN ClaimText /\ <<run, c>> \in DOMAIN ClaimPage
  BY PromotionAssumption
<1>2. verdict.decision = "edited" => verdict.text \in EditText
  BY DEF Verdicts
<1>  QED
  BY <1>1, <1>2 DEF Rendered, Signals, Range

\* The rows of the claims that are written.
PagesOf(run, written) == [c \in written |-> ClaimPage[<<run, c>>]]
TextsOf(run, asked, written) == [c \in written |-> Rendered(run, c, asked[c])]
Writing(asked, firm) == {c \in DOMAIN asked : Writes(firm, asked[c])}

\* The company after a review keeps its rows, repeats none, and has those of
\* the review.
LEMMA ExtendedIs ==
  ASSUME NEW run \in Runs, NEW asked \in Requested(run), NEW firm, NEW company, NoRepeat(company)
  PROVE  LET after == Extended(run, asked, firm, company)
             written == Writing(asked, firm) IN
         /\ NoRepeat(after)
         /\ Grown(after.sources, company.sources, PagesOf(run, written), Range(ClaimPage))
         /\ Grown(after.signals, company.signals, TextsOf(run, asked, written), Signals)
<1> DEFINE after == Extended(run, asked, firm, company)
           written == Writing(asked, firm)
           pages == PagesOf(run, written)
           texts == TextsOf(run, asked, written)
<1>1. /\ DOMAIN asked \subseteq Claims[run] /\ DOMAIN asked \subseteq Nat
      /\ IsFiniteSet(DOMAIN asked) /\ \A c \in DOMAIN asked : asked[c] \in Verdicts
  BY RequestedAre
<1>2. written \subseteq DOMAIN asked /\ IsFiniteSet(written)
  BY <1>1, FS_Subset DEF Writing
<1>3. /\ after.sources = Ensure(company.sources, pages)
      /\ after.signals = Ensure(company.signals, texts)
  BY DEF Extended, Writing, PagesOf, TextsOf
<1>4. DOMAIN pages = written /\ DOMAIN texts = written
  BY DEF PagesOf, TextsOf
<1>5. \A c \in written : pages[c] \in Range(ClaimPage) /\ texts[c] \in Signals
  BY <1>1, <1>2, RenderedIs DEF PagesOf, TextsOf
<1>6. /\ company.sources \in Seq(Range(ClaimPage)) /\ company.signals \in Seq(Signals)
      /\ IsInjective(company.sources) /\ IsInjective(company.signals)
  BY DEF NoRepeat, IsFirm, Signals
<1> HIDE DEF after, written, pages, texts
<1>7. Grown(after.sources, company.sources, pages, Range(ClaimPage))
  BY <1>1, <1>2, <1>3, <1>4, <1>5, <1>6, EnsureGrows
<1>8. Grown(after.signals, company.signals, texts, Signals)
  BY <1>1, <1>2, <1>3, <1>4, <1>5, <1>6, EnsureGrows
<1>9. NoRepeat(after)
  BY <1>7, <1>8 DEF Grown, NoRepeat, IsFirm, Signals
<1>  QED
  BY <1>7, <1>8, <1>9 DEF after, written, pages, texts

\* A row that is there has a position.
LEMMA PositionIs ==
  ASSUME NEW s, NEW x, \E i \in DOMAIN s : s[i] = x
  PROVE  Position(s, x) \in DOMAIN s /\ s[Position(s, x)] = x
BY DEF Position

\* The promotion of a claim is well formed, and names the rows it led to.
LEMMA PromotionIs ==
  ASSUME NEW run \in Runs, NEW asked \in Requested(run), NEW firm \in Firms \union {Firm0},
         NEW company, NoRepeat(company), NEW c \in DOMAIN asked
  PROVE  IsPromotion(run, c, Promotion(run, c, asked[c], firm, Extended(run, asked, firm, company)))
<1> DEFINE after == Extended(run, asked, firm, company)
           written == Writing(asked, firm)
           p == Promotion(run, c, asked[c], firm, after)
<1>1. c \in Claims[run] /\ asked[c] \in Verdicts
  BY RequestedAre
<1>2. /\ NoRepeat(after)
      /\ Grown(after.signals, company.signals, TextsOf(run, asked, written), Signals)
  BY ExtendedIs
<1>3. asked[c].decision \in {"accepted", "edited", "rejected"}
  BY <1>1 DEF Verdicts
<1>4. CASE Writes(firm, asked[c])
  <2>1. c \in written /\ TextsOf(run, asked, written)[c] = Rendered(run, c, asked[c])
    BY <1>4 DEF Writing, TextsOf
  <2>2. \E i \in DOMAIN after.signals : after.signals[i] = Rendered(run, c, asked[c])
    BY <1>2, <2>1 DEF Grown, TextsOf
  <2>3. p.signal \in DOMAIN after.signals
    BY <1>4, <2>2, PositionIs DEF Promotion
  <2>4. after.signals \in Seq(Signals)
    BY <1>2 DEF Grown
  <2>5. p.signal # 0
    BY <2>3, <2>4
  <2>6. p.decision = asked[c].decision /\ p.firm = firm /\ firm # Firm0 /\ p.decision # "rejected"
    BY <1>4 DEF Promotion, Writes
  <2> HIDE DEF p
  <2>7. IsPromotion(run, c, p)
    BY <1>1, <1>3, <2>5, <2>6 DEF IsPromotion, Applied
  <2>  QED
    BY <2>7 DEF p
<1>5. CASE ~Writes(firm, asked[c])
  <2>1. p.decision = asked[c].decision /\ p.firm = Firm0 /\ p.signal = 0
    BY <1>5 DEF Promotion
  <2> HIDE DEF p
  <2>2. IsPromotion(run, c, p)
    BY <1>1, <1>3, <2>1 DEF IsPromotion, Applied
  <2>  QED
    BY <2>2 DEF p
<1>  QED
  BY <1>4, <1>5

\* A review moves alone: nothing is written.
LEMMA ReviewMoves ==
  ASSUME PInv, NEW v \in Reviewers, NEW r, ReviewFits(r), Become(v, r), Unwritten
  PROVE  PInv'
<1>1. /\ review'[v] = r /\ \A u \in Reviewers \ {v} : review'[u] = review[u]
      /\ review' = [u \in Reviewers |-> review'[u]]
  BY DEF PInv, Become
<1>2. \A u \in Reviewers : ReviewFits(review'[u])
  BY <1>1 DEF PInv
<1>  QED
  BY <1>1, <1>2 DEF PInv, Unwritten

\* The run is read as it is.
LEMMA ReadRunOK ==
  ASSUME PInv, NEW v \in Reviewers, ReadRun(v)
  PROVE  PInv'
<1>1. PICK run \in Runs, asked \in Firms \union {Firm0} : \E verdicts \in Requested(run) :
        Become(v, IF Mismatch(run, asked) THEN [pc |-> "answered", answer |-> "conflict"]
                  ELSE [pc |-> "read", run |-> run, firm |-> Target(run, asked),
                        asked |-> verdicts, seen |-> promotions[run]])
  BY DEF ReadRun
<1>2. PICK verdicts \in Requested(run) :
        Become(v, IF Mismatch(run, asked) THEN [pc |-> "answered", answer |-> "conflict"]
                  ELSE [pc |-> "read", run |-> run, firm |-> Target(run, asked),
                        asked |-> verdicts, seen |-> promotions[run]])
  BY <1>1
<1> DEFINE x == [pc |-> "answered", answer |-> "conflict"]
           y == [pc |-> "read", run |-> run, firm |-> Target(run, asked),
                 asked |-> verdicts, seen |-> promotions[run]]
<1>3. ReviewFits(x)
  BY DEF ReviewFits
<1>4. Target(run, asked) \in Firms \union {Firm0}
  BY PromotionAssumption DEF Target
<1>5. PromotionsFit(run, promotions[run])
  BY DEF PInv
<1>6. "pc" \in DOMAIN y /\ y.pc = "read" /\ DecisionsFit(y)
  BY <1>4, <1>5 DEF DecisionsFit
<1> HIDE DEF x, y
<1>7. ReviewFits(y)
  BY <1>6 DEF ReviewFits
<1>8. Unwritten /\ (Become(v, x) \/ Become(v, y))
  BY <1>2 DEF ReadRun, x, y
<1>  QED
  BY <1>3, <1>7, <1>8, ReviewMoves

\* The company is read as it is.
LEMMA ReadCompanyOK ==
  ASSUME PInv, NEW v \in Reviewers, ReadCompany(v)
  PROVE  PInv'
<1> DEFINE r == review[v]
           answer == Answer(r.seen, r.asked)
           company == IF r.firm = Firm0 THEN NoRows ELSE firms[r.firm]
           x == [pc |-> IF answer = "save" THEN "save" ELSE "answered", answer |-> answer,
                 run |-> r.run, firm |-> r.firm, asked |-> r.asked, seen |-> r.seen,
                 company |-> company]
<1>1. Become(v, x) /\ Unwritten /\ r.pc = "read"
  BY DEF ReadCompany
<1>2. DecisionsFit(r)
  BY <1>1 DEF PInv, ReviewFits
<1>3. NoRepeat(NoRows)
  BY DEF NoRepeat, NoRows, IsFirm, IsInjective
<1>4. NoRepeat(company)
  BY <1>2, <1>3 DEF DecisionsFit, PInv
<1> HIDE DEF r, answer, company
<1>5. /\ "pc" \in DOMAIN x /\ x.pc \in {"save", "answered"}
      /\ x.run = r.run /\ x.firm = r.firm /\ x.asked = r.asked /\ x.seen = r.seen
      /\ x.company = company /\ (x.pc = "save" => answer = "save")
  OBVIOUS
<1> HIDE DEF x
<1>6. DecisionsFit(x)
  BY <1>2, <1>5 DEF DecisionsFit
<1>7. ReviewFits(x)
  BY <1>4, <1>5, <1>6 DEF ReviewFits, answer
<1>  QED
  BY <1>1, <1>7, ReviewMoves

\* What a review saves, as it follows from what it read.
After(r) == Extended(r.run, r.asked, r.firm, r.company)
Decided(r) == [c \in DOMAIN r.asked |-> Promotion(r.run, c, r.asked[c], r.firm, After(r))]

\* The promotions of the run and the rows of its company.
LEMMA SaveIs ==
  ASSUME PInv, NEW v \in Reviewers, Save(v)
  PROVE  LET r == review[v] IN
         /\ r.pc = "save" /\ DecisionsFit(r) /\ NoRepeat(r.company) /\ NoRepeat(After(r))
         /\ Answer(r.seen, r.asked) = "save"
         /\ \A run \in Runs \ {r.run} : promotions'[run] = promotions[run]
         /\ promotions'[r.run] = Recorded(Decided(r), r.seen)
         /\ \A f \in Firms \ {r.firm} : firms'[f] = firms[f]
         /\ r.firm \in Firms => firms'[r.firm] = After(r)
         /\ promotions' = [run \in Runs |-> promotions'[run]]
         /\ firms' = [f \in Firms |-> firms'[f]]
         /\ Become(v, [r EXCEPT !.pc = "answered"])
<1> DEFINE r == review[v]
<1>1. /\ r.pc = "save" /\ Become(v, [r EXCEPT !.pc = "answered"])
      /\ promotions' = [promotions EXCEPT ![r.run] = Recorded(Decided(r), r.seen)]
      /\ firms' = IF r.firm = Firm0 THEN firms ELSE [firms EXCEPT ![r.firm] = After(r)]
  BY DEF Save, Decided, After
<1>2. DecisionsFit(r) /\ NoRepeat(r.company) /\ Answer(r.seen, r.asked) = "save"
  BY <1>1 DEF PInv, ReviewFits
<1>3. promotions = [run \in Runs |-> promotions[run]] /\ firms = [f \in Firms |-> firms[f]]
  BY DEF PInv
<1> HIDE DEF r
<1>4. r.run \in Runs /\ r.firm \in Firms \union {Firm0} /\ r.asked \in Requested(r.run)
  BY <1>2 DEF DecisionsFit
<1>5. NoRepeat(After(r))
  BY <1>2, <1>4, ExtendedIs DEF After
<1> DEFINE more == Recorded(Decided(r), r.seen)
           after == After(r)
<1> HIDE DEF more, after
<1>6. /\ \A run \in Runs \ {r.run} : promotions'[run] = promotions[run]
      /\ promotions'[r.run] = more /\ promotions' = [run \in Runs |-> promotions'[run]]
  BY <1>1, <1>3, <1>4 DEF more
<1>7. /\ \A f \in Firms \ {r.firm} : firms'[f] = firms[f]
      /\ r.firm \in Firms => firms'[r.firm] = after
      /\ firms' = [f \in Firms |-> firms'[f]]
  <2>1. CASE r.firm = Firm0
    BY <1>1, <1>3, <2>1, PromotionAssumption
  <2>2. CASE r.firm \in Firms
    <3>1. firms' = [firms EXCEPT ![r.firm] = after]
      BY <1>1, <2>2, PromotionAssumption DEF after
    <3>  QED
      BY <1>3, <2>2, <3>1
  <2>  QED
    BY <1>4, <2>1, <2>2
<1>  QED
  BY <1>1, <1>2, <1>5, <1>6, <1>7 DEF r, more, after

\* The new promotions fit, and so do the old ones that stay.
LEMMA RecordedFit ==
  ASSUME NEW r, DecisionsFit(r), NoRepeat(r.company)
  PROVE  PromotionsFit(r.run, Recorded(Decided(r), r.seen))
<1> DEFINE new == Decided(r)
<1>1. /\ r.run \in Runs /\ r.firm \in Firms \union {Firm0} /\ r.asked \in Requested(r.run)
      /\ PromotionsFit(r.run, r.seen)
  BY DEF DecisionsFit
<1>2. \A c \in DOMAIN new : IsPromotion(r.run, c, new[c])
  BY <1>1, PromotionIs DEF Decided, After
<1> HIDE DEF new
<1>3. \A c \in DOMAIN Recorded(new, r.seen) : IsPromotion(r.run, c, Recorded(new, r.seen)[c])
  BY <1>1, <1>2 DEF Recorded, PromotionsFit
<1>  QED
  BY <1>3 DEF new, PromotionsFit

\* Whatever happened since its reads, a review saves what fits.
LEMMA SaveOK ==
  ASSUME PInv, NEW v \in Reviewers, Save(v)
  PROVE  PInv'
<1> DEFINE r == review[v]
           x == [r EXCEPT !.pc = "answered"]
<1>1. /\ r.pc = "save" /\ DecisionsFit(r) /\ NoRepeat(r.company) /\ NoRepeat(After(r))
      /\ \A run \in Runs \ {r.run} : promotions'[run] = promotions[run]
      /\ promotions'[r.run] = Recorded(Decided(r), r.seen)
      /\ \A f \in Firms \ {r.firm} : firms'[f] = firms[f]
      /\ r.firm \in Firms => firms'[r.firm] = After(r)
      /\ promotions' = [run \in Runs |-> promotions'[run]]
      /\ firms' = [f \in Firms |-> firms'[f]]
      /\ Become(v, x)
  BY SaveIs
<1>2. ReviewFits(r)
  BY DEF PInv
<1>3. PromotionsFit(r.run, Recorded(Decided(r), r.seen))
  BY <1>1, RecordedFit
<1>4. \A run \in Runs : PromotionsFit(run, promotions'[run])
  BY <1>1, <1>3 DEF PInv
<1>5. \A f \in Firms : NoRepeat(firms'[f])
  BY <1>1 DEF PInv
<1>6. review'[v] = x /\ (\A u \in Reviewers \ {v} : review'[u] = review[u])
      /\ review' = [u \in Reviewers |-> review'[u]]
  BY <1>1 DEF PInv, Become
<1> HIDE DEF r
<1>7. "pc" \in DOMAIN x /\ x.pc = "answered"
  BY <1>2 DEF ReviewFits
<1> HIDE DEF x
<1>8. ReviewFits(x)
  BY <1>7 DEF ReviewFits
<1>9. \A u \in Reviewers : ReviewFits(review'[u])
  BY <1>6, <1>8 DEF PInv
<1>  QED
  BY <1>1, <1>4, <1>5, <1>6, <1>9 DEF PInv

\* A transaction that fails leaves nothing.
LEMMA RefuseOK ==
  ASSUME PInv, NEW v \in Reviewers, Refuse(v)
  PROVE  PInv'
<1> DEFINE r == review[v]
           x == [r EXCEPT !.pc = "answered", !.answer = "refused"]
<1>1. Become(v, x) /\ Unwritten
  BY DEF Refuse
<1>2. "pc" \in DOMAIN r
  BY DEF PInv, ReviewFits
<1> HIDE DEF r
<1>3. "pc" \in DOMAIN x /\ x.pc = "answered"
  BY <1>2
<1> HIDE DEF x
<1>4. ReviewFits(x)
  BY <1>3 DEF ReviewFits
<1>  QED
  BY <1>1, <1>4, ReviewMoves

\* The invariant of the reviews.
LEMMA PInvHolds ==
  PromotionSpec => []PInv
<1>1. PromotionInit => PInv
  <2> SUFFICES ASSUME PromotionInit PROVE PInv
    OBVIOUS
  <2>1. NoRepeat(NoRows)
    BY DEF NoRepeat, NoRows, IsFirm, IsInjective
  <2>2. ReviewFits(NoReview)
    BY DEF ReviewFits, NoReview
  <2>3. \A run \in Runs : PromotionsFit(run, <<>>)
    BY DEF PromotionsFit
  <2> HIDE DEF NoReview, NoRows
  <2>  QED
    BY <2>1, <2>2, <2>3 DEF PromotionInit, PInv
<1>2. PInv /\ [PromotionNext]_promotionVars => PInv'
  <2> SUFFICES ASSUME PInv, [PromotionNext]_promotionVars PROVE PInv'
    OBVIOUS
  <2>1. CASE PromotionNext
    BY <2>1, ReadRunOK, ReadCompanyOK, SaveOK, RefuseOK DEF PromotionNext
  <2>2. CASE UNCHANGED promotionVars
    BY <2>2 DEF promotionVars, PInv
  <2>  QED
    BY <2>1, <2>2
<1>  QED
  BY <1>1, <1>2, PTL DEF PromotionSpec

\* A company has one source per page and one signal per text, for any number
\* of reviewers, runs and claims.
THEOREM NothingIsListedTwiceHolds ==
  PromotionSpec => []NothingIsListedTwice
<1>1. PInv => NothingIsListedTwice
  BY DEF PInv, PromotionsFit, NoRepeat, NothingIsListedTwice, PromotionTypeOK
<1>  QED
  BY <1>1, PInvHolds, PTL

\* A claim that was applied is not decided again by a review that is saved.
LEMMA AppliedStay ==
  ASSUME NEW r, Answer(r.seen, r.asked) = "save", NEW c \in DOMAIN r.seen, Applied(r.seen[c])
  PROVE  c \in DOMAIN Recorded(Decided(r), r.seen) /\ Recorded(Decided(r), r.seen)[c] = r.seen[c]
<1>1. c \notin DOMAIN r.asked
  BY DEF Answer, Reviewed
<1>2. DOMAIN Decided(r) = DOMAIN r.asked
  BY DEF Decided
<1>  QED
  BY <1>1, <1>2 DEF Recorded

\* The step of a review nobody overlapped keeps a trace.
LEMMA TraceStays ==
  ASSUME PInv, NEW v \in Reviewers, Fresh(v), Save(v),
         NEW run \in Runs, NEW c \in DOMAIN promotions[run],
         Applied(promotions[run][c]), Traced(run, c)
  PROVE  promotions'[run][c] = promotions[run][c] /\ Traced(run, c)'
<1> DEFINE r == review[v]
           p == promotions[run][c]
<1>1. /\ DecisionsFit(r) /\ NoRepeat(r.company) /\ Answer(r.seen, r.asked) = "save"
      /\ \A other \in Runs \ {r.run} : promotions'[other] = promotions[other]
      /\ promotions'[r.run] = Recorded(Decided(r), r.seen)
      /\ \A f \in Firms \ {r.firm} : firms'[f] = firms[f]
      /\ r.firm \in Firms => firms'[r.firm] = After(r)
  BY SaveIs
<1>2. r.seen = promotions[r.run] /\ (r.firm # Firm0 => r.company = firms[r.firm])
  BY DEF Fresh
<1>3. /\ r.run \in Runs /\ r.firm \in Firms \union {Firm0} /\ r.asked \in Requested(r.run)
  BY <1>1 DEF DecisionsFit
<1>4. IsPromotion(run, c, p)
  BY DEF PInv, PromotionsFit
<1>5. p.firm \in Firms
  BY <1>4 DEF IsPromotion
<1>6. /\ p.signal \in DOMAIN firms[p.firm].signals
      /\ firms[p.firm].signals[p.signal] = Rendered(run, c, p)
      /\ p.source \in DOMAIN firms[p.firm].sources
      /\ firms[p.firm].sources[p.source] = ClaimPage[<<run, c>>]
  BY DEF Traced
<1> HIDE DEF r
<1>7. promotions'[run][c] = p
  <2>1. CASE run # r.run
    BY <1>1, <2>1
  <2>2. CASE run = r.run
    BY <1>1, <1>2, <2>2, AppliedStay
  <2>  QED
    BY <2>1, <2>2
<1>8. /\ p.signal \in DOMAIN firms'[p.firm].signals
      /\ firms'[p.firm].signals[p.signal] = Rendered(run, c, p)
      /\ p.source \in DOMAIN firms'[p.firm].sources
      /\ firms'[p.firm].sources[p.source] = ClaimPage[<<run, c>>]
  <2>1. CASE p.firm # r.firm
    BY <1>1, <1>5, <1>6, <2>1
  <2>2. CASE p.firm = r.firm
    <3> DEFINE written == Writing(r.asked, r.firm)
    <3>1. /\ Grown(After(r).sources, r.company.sources, PagesOf(r.run, written), Range(ClaimPage))
          /\ Grown(After(r).signals, r.company.signals, TextsOf(r.run, r.asked, written), Signals)
      BY <1>1, <1>3, ExtendedIs DEF After
    <3>2. r.company = firms[p.firm] /\ firms'[p.firm] = After(r)
      BY <1>1, <1>2, <1>5, <2>2, PromotionAssumption
    <3> DEFINE old == r.company
               new == After(r)
    <3> HIDE DEF old, new
    <3>3. /\ \A i \in DOMAIN old.sources :
               i \in DOMAIN new.sources /\ new.sources[i] = old.sources[i]
          /\ \A i \in DOMAIN old.signals :
               i \in DOMAIN new.signals /\ new.signals[i] = old.signals[i]
      BY <3>1 DEF Grown, old, new
    <3>4. firms[p.firm] = old /\ firms'[p.firm] = new
      BY <3>2 DEF old, new
    <3>  QED
      BY <1>6, <3>3, <3>4
  <2>  QED
    BY <2>1, <2>2
<1> HIDE DEF p
<1>9. Traced(run, c)'
  BY <1>7, <1>8 DEF Traced
<1>  QED
  BY <1>7, <1>9 DEF p

\* A review nobody overlapped undoes no decision that reached a company, and
\* leaves each with the rows it was made from.
THEOREM ReviewsKeepTheTraceHolds ==
  PromotionSpec => ReviewsKeepTheTrace
<1>1. PInv /\ [PromotionNext]_promotionVars =>
        [\A v \in Reviewers : (review[v].pc = "save" /\ Fresh(v) /\ Save(v)) =>
           \A run \in Runs : \A c \in DOMAIN promotions[run] :
             (Applied(promotions[run][c]) /\ Traced(run, c)) =>
                promotions'[run][c] = promotions[run][c] /\ Traced(run, c)']_promotionVars
  BY TraceStays
<1>  QED
  BY <1>1, PInvHolds, PTL DEF PromotionSpec, ReviewsKeepTheTrace

------------------------------------------------------------------------------
(***************************************************************************)
(* Chunks of a document                                                    *)
(***************************************************************************)

LinesOK == document \in Seq(Lines)

\* A document consists of lines, each of which has a token.
LEMMA DocumentIs ==
  ASSUME LinesOK
  PROVE  /\ Len(document) \in Nat /\ DOMAIN document = 1 .. Len(document)
         /\ \A i \in 1 .. Len(document) : document[i] \in LineType
<1>1. Len(document) \in Nat /\ DOMAIN document = 1 .. Len(document)
  BY LenProperties DEF LinesOK
<1>2. \A i \in 1 .. Len(document) : document[i] \in Lines
  BY ElementOfSeq DEF LinesOK
<1>  QED
  BY <1>1, <1>2, ChunkingAssumption

\* It grows by lines.
LEMMA DocumentInvariant == ChunkingSpec => []LinesOK
<1>1. ChunkingInit => LinesOK
  BY EmptySeq DEF ChunkingInit, LinesOK
<1>2. LinesOK /\ [Grow]_document => LinesOK'
  <2>1. ASSUME LinesOK, Grow PROVE LinesOK'
    <3>1. PICK l \in Lines : document' = Append(document, l)
      BY <2>1 DEF Grow
    <3>  QED
      BY <2>1, <3>1, AppendProperties DEF LinesOK
  <2>2. LinesOK /\ UNCHANGED document => LinesOK'
    BY DEF LinesOK
  <2>  QED
    BY <2>1, <2>2
<1>  QED
  BY <1>1, <1>2, PTL DEF ChunkingSpec

\* The recursion of Upto defines a function.
LEMMA UptoIs ==
  ASSUME LinesOK
  PROVE  /\ Upto \in [0 .. Len(document) -> Nat] /\ Upto[0] = 0
         /\ \A i \in 1 .. Len(document) : Upto[i] = Upto[i - 1] + document[i].tokens
<1>1. PICK n : n = Len(document)
  OBVIOUS
<1>2. n \in Nat /\ \A i \in 1 .. n : document[i].tokens \in Nat
  BY <1>1, DocumentIs DEF LineType
<1>3. PICK turn : turn = [i \in 1 .. n |-> [x \in Nat |-> x + document[i].tokens]]
  OBVIOUS
<1>4. turn \in [1 .. n -> [Nat -> Nat]]
  <2>1. ASSUME NEW i \in 1 .. n PROVE [x \in Nat |-> x + document[i].tokens] \in [Nat -> Nat]
    <3>1. \A x \in Nat : x + document[i].tokens \in Nat
      BY <1>2
    <3>  QED
      BY <3>1
  <2>  QED
    BY <1>3, <2>1
<1>5. PICK f : Recursion(f, turn, n, Nat, 0)
  <2>1. Steps(turn, n, Nat, 0)
    BY <1>2, <1>4 DEF Steps
  <2>  QED
    BY <2>1, RecursionExists
<1>6. /\ f \in [0 .. n -> Nat] /\ f[0] = 0 /\ \A i \in 1 .. n : f[i] = turn[i][f[i - 1]]
      /\ \A i \in 1 .. n : i - 1 \in 0 .. n /\ f[i - 1] \in Nat
  BY <1>2, <1>5 DEF Recursion
<1>7. \A i \in 1 .. n : f[i] = f[i - 1] + document[i].tokens
  BY <1>3, <1>6
<1>8. f = [i \in 0 .. n |-> IF i = 0 THEN 0 ELSE f[i - 1] + document[i].tokens]
  <2>1. \A i \in 0 .. n : i # 0 => i \in 1 .. n
    BY <1>2
  <2>  QED
    BY <1>6, <1>7, <2>1
<1>9. Upto = CHOOSE g : g = [i \in 0 .. n |-> IF i = 0 THEN 0 ELSE g[i - 1] + document[i].tokens]
  BY <1>1 DEF Upto
<1>10. PICK g : g = Upto
  OBVIOUS
<1>11. g = [i \in 0 .. n |-> IF i = 0 THEN 0 ELSE g[i - 1] + document[i].tokens]
  BY <1>8, <1>9, <1>10
<1>12. \A i \in 1 .. n : i \in 0 .. n /\ i # 0 /\ i - 1 \in 0 .. n
  BY <1>2
<1>13. g[0] = 0 /\ \A i \in 1 .. n : g[i] = g[i - 1] + document[i].tokens
  BY <1>2, <1>11, <1>12
<1>14. Follows(g, turn, n, Nat, 0)
  <2>1. g = [i \in 0 .. n |-> g[i]]
    BY <1>11
  <2>  QED
    BY <1>3, <1>13, <2>1 DEF Follows
<1>15. Recursion(g, turn, n, Nat, 0)
  <2>1. Steps(turn, n, Nat, 0)
    BY <1>2, <1>4 DEF Steps
  <2>  QED
    BY <1>14, <2>1, RecursionStays
<1>16. g \in [0 .. n -> Nat]
  BY <1>15 DEF Recursion
<1>  QED
  BY <1>1, <1>10, <1>13, <1>16

\* A line adds tokens, or none.
LEMMA UptoGrows ==
  ASSUME LinesOK, NEW i \in 0 .. Len(document), NEW j \in i .. Len(document)
  PROVE  Upto[i] \in Nat /\ Upto[j] \in Nat /\ Upto[i] <= Upto[j]
<1>1. PICK n, u : n = Len(document) /\ u = Upto
  OBVIOUS
<1>2. /\ n \in Nat /\ u \in [0 .. n -> Nat] /\ i \in 0 .. n /\ j \in i .. n
      /\ \A k \in 1 .. n : u[k - 1] <= u[k]
  <2>1. n \in Nat /\ u \in [0 .. n -> Nat]
    BY <1>1, UptoIs, DocumentIs
  <2>2. ASSUME NEW k \in 1 .. n PROVE u[k - 1] <= u[k]
    <3>1. document[k].tokens \in Nat
      BY <1>1, DocumentIs DEF LineType
    <3>2. u[k] = u[k - 1] + document[k].tokens
      BY <1>1, UptoIs
    <3>3. k - 1 \in 0 .. n
      BY <2>1
    <3>4. u[k - 1] \in Nat
      BY <2>1, <3>3
    <3>  QED
      BY <3>1, <3>2, <3>4
  <2>  QED
    BY <1>1, <2>1, <2>2
<1>3. \A k \in 0 .. n : u[k] \in Nat
  BY <1>2
<1> DEFINE Bad == {k \in i .. n : ~(u[i] <= u[k])}
<1>4. ASSUME Bad # {} PROVE FALSE
  <2>1. PICK k \in Bad : \A l \in Bad : k <= l
    <3>1. Bad \subseteq Nat
      BY <1>2
    <3>  QED
      BY <1>4, <3>1, Least
  <2>2. k # i
    BY <1>2, <1>3, <2>1
  <2>3. k \in 1 .. n /\ k - 1 \in i .. n /\ k - 1 \in 0 .. n /\ ~(k <= k - 1) /\ k \in 0 .. n
    BY <1>2, <2>1, <2>2
  <2>4. u[i] <= u[k - 1]
    BY <2>1, <2>3
  <2>5. u[k - 1] <= u[k] /\ u[i] \in Nat /\ u[k - 1] \in Nat /\ u[k] \in Nat
    BY <1>2, <1>3, <2>3
  <2>6. u[i] <= u[k]
    BY <2>4, <2>5
  <2>  QED
    BY <2>1, <2>6
<1>5. j \in i .. n /\ j \in 0 .. n
  BY <1>2
<1>  QED
  BY <1>1, <1>2, <1>3, <1>4, <1>5

\* A token is in a line.
LEMMA LineOf ==
  ASSUME LinesOK, NEW i \in 1 .. Len(document), NEW j \in i .. Len(document), NEW t \in Nat,
         Upto[i - 1] < t, t <= Upto[j]
  PROVE  \E l \in i .. j : t \in TokensOf(l)
<1>1. Len(document) \in Nat
  BY DocumentIs
<1> DEFINE Beyond == {l \in i .. j : t <= Upto[l]}
<1>2. Beyond \subseteq Nat /\ Beyond # {}
  <2>1. j \in Beyond
    BY <1>1
  <2>  QED
    BY <1>1, <2>1
<1>3. PICK l \in Beyond : \A k \in Beyond : l <= k
  BY <1>2, Least
<1>4. Upto[l - 1] < t
  <2>1. CASE l = i
    BY <2>1
  <2>2. CASE l # i
    <3>1. l - 1 \in i .. j /\ l - 1 \in 0 .. Len(document) /\ ~(l <= l - 1)
      BY <1>1, <1>3, <2>2
    <3>2. ~(t <= Upto[l - 1])
      BY <1>3, <3>1
    <3>3. Upto[l - 1] \in Nat
      BY <3>1, UptoIs
    <3>  QED
      BY <3>2, <3>3
  <2>  QED
    BY <2>1, <2>2
<1>5. l - 1 \in 0 .. Len(document) /\ l \in 0 .. Len(document)
  BY <1>1, <1>3
<1>6. Upto[l - 1] \in Nat /\ Upto[l] \in Nat /\ t <= Upto[l]
  BY <1>3, <1>5, UptoIs
<1>7. t \in TokensOf(l)
  <2>1. PICK a, b : a = Upto[l - 1] /\ b = Upto[l]
    OBVIOUS
  <2>2. t \in (a + 1) .. b
    BY <1>4, <1>6, <2>1
  <2>  QED
    BY <2>1, <2>2 DEF TokensOf
<1>  QED
  BY <1>3, <1>7

\* Only a marker starts a page.
LEMMA SamePage ==
  ASSUME LinesOK, NEW i \in 1 .. Len(document), NEW j \in i .. Len(document),
         i .. j \subseteq Kept
  PROVE  PageAt(i) = PageAt(j)
<1>1. Len(document) \in Nat
  BY DocumentIs
<1>2. \A k \in 1 .. j : Marker(k) => k \in 1 .. i
  <2>1. ASSUME NEW k \in 1 .. j, Marker(k), k \notin 1 .. i PROVE FALSE
    <3>1. k \in i .. j
      BY <1>1, <2>1
    <3>2. k \in Kept
      BY <3>1
    <3>  QED
      BY <2>1, <3>2 DEF Kept, Skipped
  <2>  QED
    BY <2>1
<1>3. 1 .. i \subseteq 1 .. j
  BY <1>1
<1>4. {k \in 1 .. i : Marker(k)} = {k \in 1 .. j : Marker(k)}
  BY <1>2, <1>3
<1>5. PICK a, b : a = {k \in 1 .. i : Marker(k)} /\ b = {k \in 1 .. j : Marker(k)}
  OBVIOUS
<1>6. /\ PageAt(i) = IF a = {} THEN 0 ELSE document[Max(a)].page
      /\ PageAt(j) = IF b = {} THEN 0 ELSE document[Max(b)].page
  BY <1>5 DEF PageAt
<1>7. a = b
  BY <1>4, <1>5
<1>  QED
  BY <1>6, <1>7

\* The recursion of LastBegins defines a function.
LEMMA LastBeginsIs ==
  ASSUME LinesOK
  PROVE  /\ LastBegins \in [0 .. Len(document) -> 0 .. Len(document)] /\ LastBegins[0] = 0
         /\ \A i \in 1 .. Len(document) :
              LastBegins[i] = IF i \in Starts /\ ~Mergeable(LastBegins[i - 1], i) THEN i
                              ELSE LastBegins[i - 1]
<1> DEFINE Goes(x, i) == IF i \in Starts /\ ~Mergeable(x, i) THEN i ELSE x
<1>1. PICK n : n = Len(document)
  OBVIOUS
<1>2. n \in Nat
  BY <1>1, DocumentIs
<1>3. PICK turn : turn = [i \in 1 .. n |-> [x \in 0 .. n |-> Goes(x, i)]]
  OBVIOUS
<1>4. Steps(turn, n, 0 .. n, 0)
  <2>1. ASSUME NEW i \in 1 .. n PROVE [x \in 0 .. n |-> Goes(x, i)] \in [0 .. n -> 0 .. n]
    <3>1. i \in 0 .. n
      BY <1>2
    <3>2. \A x \in 0 .. n : Goes(x, i) \in 0 .. n
      BY <3>1
    <3> HIDE DEF Goes
    <3>  QED
      BY <3>2
  <2>2. 0 \in 0 .. n
    BY <1>2
  <2> HIDE DEF Goes
  <2>3. turn \in [1 .. n -> [0 .. n -> 0 .. n]]
    BY <1>3, <2>1
  <2>  QED
    BY <1>2, <2>2, <2>3 DEF Steps
<1>5. PICK f : Recursion(f, turn, n, 0 .. n, 0)
  BY <1>4, RecursionExists
<1>6. /\ f \in [0 .. n -> 0 .. n] /\ f[0] = 0 /\ \A i \in 1 .. n : f[i] = turn[i][f[i - 1]]
      /\ \A i \in 1 .. n : i - 1 \in 0 .. n /\ f[i - 1] \in 0 .. n
  <2>1. \A i \in 1 .. n : i - 1 \in 0 .. n
    BY <1>2
  <2>  QED
    BY <1>5, <2>1 DEF Recursion
<1>7. \A i \in 1 .. n : f[i] = Goes(f[i - 1], i)
  <2> HIDE DEF Goes
  <2>  QED
    BY <1>3, <1>6
<1>8. f = [i \in 0 .. n |-> IF i = 0 THEN 0 ELSE Goes(f[i - 1], i)]
  <2>1. \A i \in 0 .. n : i # 0 => i \in 1 .. n
    BY <1>2
  <2> HIDE DEF Goes
  <2>  QED
    BY <1>6, <1>7, <2>1
<1>9. LastBegins = CHOOSE g : g = [i \in 0 .. n |-> IF i = 0 THEN 0 ELSE Goes(g[i - 1], i)]
  BY <1>1 DEF LastBegins
<1>10. PICK g : g = LastBegins
  OBVIOUS
<1>11. g = [i \in 0 .. n |-> IF i = 0 THEN 0 ELSE Goes(g[i - 1], i)]
  <2> HIDE DEF Goes
  <2>  QED
    BY <1>8, <1>9, <1>10
<1>12. \A i \in 1 .. n : i \in 0 .. n /\ i # 0 /\ i - 1 \in 0 .. n
  BY <1>2
<1>13. g[0] = 0 /\ \A i \in 1 .. n : g[i] = Goes(g[i - 1], i)
  <2> HIDE DEF Goes
  <2>  QED
    BY <1>2, <1>11, <1>12
<1>14. Follows(g, turn, n, 0 .. n, 0)
  <2> HIDE DEF Goes
  <2>1. g = [i \in 0 .. n |-> g[i]]
    BY <1>11
  <2>  QED
    BY <1>3, <1>13, <2>1 DEF Follows
<1>15. Recursion(g, turn, n, 0 .. n, 0)
  BY <1>4, <1>14, RecursionStays
<1>16. g \in [0 .. n -> 0 .. n]
  BY <1>15 DEF Recursion
<1>  QED
  BY <1>1, <1>10, <1>13, <1>16

\* A kept line belongs to the run of kept lines back to where its section begins.
LEMMA SectionBegins ==
  ASSUME LinesOK, NEW i \in Kept
  PROVE  /\ LastBegins[i] \in 1 .. i /\ LastBegins[i] .. i \subseteq Kept
         /\ \A j \in LastBegins[i] .. i : LastBegins[j] = LastBegins[i]
<1> DEFINE Fine(k, f) == /\ f \in 1 .. k /\ f .. k \subseteq Kept
                         /\ \A j \in f .. k : LastBegins[j] = f
           Bad == {k \in Kept : ~Fine(k, LastBegins[k])}
<1>1. Len(document) \in Nat /\ Kept \subseteq 1 .. Len(document)
  BY DocumentIs DEF Kept
<1>2. ASSUME Bad # {} PROVE FALSE
  <2>1. Bad \subseteq Nat
    <3>1. 1 .. Len(document) \subseteq Nat
      BY <1>1
    <3>  QED
      BY <1>1, <3>1
  <2>2. PICK k \in Bad : \A l \in Bad : k <= l
    BY <1>2, <2>1, Least
  <2>3. k \in 1 .. Len(document) /\ k \in Kept
    BY <1>1
  <2>4. CASE LastBegins[k] = k
    <3>1. k .. k = {k}
      BY <2>3
    <3>2. Fine(k, k)
      BY <2>3, <2>4, <3>1
    <3>  QED
      BY <2>2, <2>4, <3>2
  <2>5. CASE LastBegins[k] # k
    <3>1. ~(k \in Starts /\ ~Mergeable(LastBegins[k - 1], k)) /\ LastBegins[k] = LastBegins[k - 1]
      BY <2>3, <2>5, LastBeginsIs
    <3>2. k - 1 \in Kept
      <4>1. CASE k \notin Starts
        BY <2>3, <4>1 DEF Starts
      <4>2. CASE Mergeable(LastBegins[k - 1], k)
        BY <4>2 DEF Mergeable
      <4>  QED
        BY <3>1, <4>1, <4>2
    <3>3. k - 1 \notin Bad
      BY <1>1, <2>2, <2>3
    <3>4. PICK f : f = LastBegins[k - 1]
      OBVIOUS
    <3>5. Fine(k - 1, f)
      BY <3>2, <3>3, <3>4
    <3>6. \A j \in f .. k : j = k \/ j \in f .. k - 1
      BY <2>3, <3>5
    <3>7. f \in 1 .. k
      BY <2>3, <3>5
    <3>8. Fine(k, f)
      BY <2>3, <3>1, <3>4, <3>5, <3>6, <3>7
    <3>  QED
      BY <2>2, <3>1, <3>4, <3>8
  <2>  QED
    BY <2>4, <2>5
<1>3. Fine(i, LastBegins[i])
  BY <1>2
<1>  QED
  BY <1>3

\* Of numbers up to n, Max chooses the greatest.
LEMMA MaxIs ==
  ASSUME NEW n \in Nat, NEW T, T \subseteq 0 .. n, T # {}
  PROVE  Max(T) \in T /\ \A y \in T : Max(T) >= y
<1>1. \E x \in T : \A y \in T : x >= y
  BY Greatest
<1>  QED
  BY <1>1 DEF Max

\* Of numbers, Min chooses the least.
LEMMA MinIs ==
  ASSUME NEW T, T \subseteq Nat, T # {}
  PROVE  Min(T) \in T /\ \A y \in T : Min(T) <= y
<1>1. \E x \in T : \A y \in T : x <= y
  BY Least
<1>  QED
  BY <1>1 DEF Min

\* The greater, and the lesser, of two numbers.
LEMMA OfTwo ==
  ASSUME NEW a \in Nat, NEW b \in Nat
  PROVE  /\ Max({a, b}) = IF a >= b THEN a ELSE b
         /\ Min({a, b}) = IF a <= b THEN a ELSE b
<1>1. PICK m : m = Max({a, b})
  OBVIOUS
<1>2. PICK l : l = Min({a, b})
  OBVIOUS
<1>3. m \in {a, b} /\ \A y \in {a, b} : m >= y
  <2>1. \E x \in {a, b} : \A y \in {a, b} : x >= y
    <3>1. a >= b \/ b >= a
      OBVIOUS
    <3>2. a >= a /\ b >= b
      OBVIOUS
    <3>  QED
      BY <3>1, <3>2
  <2>  QED
    BY <1>1, <2>1 DEF Max
<1>4. l \in {a, b} /\ \A y \in {a, b} : l <= y
  <2>1. {a, b} \subseteq Nat /\ {a, b} # {}
    OBVIOUS
  <2>  QED
    BY <1>2, <2>1, MinIs
<1>5. m >= a /\ m >= b /\ l <= a /\ l <= b /\ (m = a \/ m = b) /\ (l = a \/ l = b)
  BY <1>3, <1>4
<1>  QED
  BY <1>1, <1>2, <1>5

\* A section is a run of kept lines.
LEMMA SectionIs ==
  ASSUME LinesOK, NEW s \in Sections
  PROVE  /\ s.from \in 1 .. Len(document) /\ s.to \in s.from .. Len(document)
         /\ s.from .. s.to \subseteq Kept
<1>1. Len(document) \in Nat /\ Kept \subseteq 1 .. Len(document)
  BY DocumentIs DEF Kept
<1>2. PICK i \in Kept : s = [from |-> LastBegins[i],
                         to |-> Max({k \in Kept : LastBegins[k] = LastBegins[i]})]
  BY DEF Sections
<1>3. PICK f, T : f = LastBegins[i] /\ T = {k \in Kept : LastBegins[k] = f}
  OBVIOUS
<1>4. s.from = f /\ s.to = Max(T)
  BY <1>2, <1>3
<1>5. T \subseteq 0 .. Len(document) /\ T # {}
  <2>1. 1 .. Len(document) \subseteq 0 .. Len(document)
    BY <1>1
  <2>  QED
    BY <1>1, <1>3, <2>1
<1>6. s.to \in T
  BY <1>1, <1>4, <1>5, MaxIs
<1>7. s.to \in Kept /\ LastBegins[s.to] = f
  BY <1>3, <1>6
<1>8. f \in 1 .. s.to /\ f .. s.to \subseteq Kept
  BY <1>7, SectionBegins
<1>9. s.to \in 1 .. Len(document)
  BY <1>1, <1>7
<1>  QED
  BY <1>1, <1>4, <1>8, <1>9

\* Every kept line is in a section.
LEMMA SectionOf ==
  ASSUME LinesOK, NEW i \in Kept
  PROVE  \E s \in Sections : i \in s.from .. s.to
<1>1. Len(document) \in Nat /\ Kept \subseteq 1 .. Len(document)
  BY DocumentIs DEF Kept
<1>2. PICK f, T : f = LastBegins[i] /\ T = {k \in Kept : LastBegins[k] = f}
  OBVIOUS
<1>3. T \subseteq 0 .. Len(document) /\ i \in T
  <2>1. 1 .. Len(document) \subseteq 0 .. Len(document)
    BY <1>1
  <2>  QED
    BY <1>1, <1>2, <2>1
<1>4. PICK m : m = Max(T)
  OBVIOUS
<1>5. m \in T /\ m >= i
  BY <1>1, <1>3, <1>4, MaxIs
<1>6. [from |-> f, to |-> m] \in Sections
  BY <1>2, <1>4 DEF Sections
<1>7. f \in 1 .. i
  BY <1>2, SectionBegins
<1>8. i \in 1 .. Len(document) /\ m \in 1 .. Len(document)
  BY <1>1, <1>2, <1>5
<1>9. i \in f .. m
  BY <1>1, <1>5, <1>7, <1>8
<1>  QED
  BY <1>6, <1>9

\* The tokens of a section are those up to its end that are not before it.
LEMMA LengthIs ==
  ASSUME LinesOK, NEW s \in Sections
  PROVE  /\ Length(s) \in Nat /\ Upto[s.from - 1] \in Nat
         /\ Upto[s.from - 1] + Length(s) = Upto[s.to]
<1>1. Len(document) \in Nat
  BY DocumentIs
<1>2. s.from - 1 \in 0 .. Len(document) /\ s.to \in s.from - 1 .. Len(document)
  BY <1>1, SectionIs
<1>3. PICK a, b, l : a = Upto[s.from - 1] /\ b = Upto[s.to] /\ l = Length(s)
  OBVIOUS
<1>4. a \in Nat /\ b \in Nat /\ a <= b
  BY <1>2, <1>3, UptoGrows
<1>5. l = b - a
  BY <1>3 DEF Length, Tokens
<1>6. l \in Nat /\ a + l = b
  BY <1>4, <1>5
<1>  QED
  BY <1>3, <1>4, <1>6

\* A section that has tokens ends where it ends.
LEMMA EndsAre ==
  ASSUME LinesOK, NEW s \in Sections, Length(s) # 0
  PROVE  /\ Length(s) \in Nat \ {0}
         /\ SentenceEnds(s) \subseteq 1 .. Length(s) /\ Length(s) \in SentenceEnds(s)
<1>1. PICK l : l = Length(s)
  OBVIOUS
<1>2. l \in Nat \ {0}
  BY <1>1, LengthIs
<1>3. l \in 1 .. l /\ 1 .. (l - 1) \subseteq 1 .. l
  BY <1>2
<1>4. SentenceEnds(s) \subseteq 1 .. l /\ l \in SentenceEnds(s)
  BY <1>1, <1>3 DEF SentenceEnds
<1>  QED
  BY <1>1, <1>2, <1>4

\* A slice ends after its start, within the hard limit and the section.
LEMMA EndIs ==
  ASSUME LinesOK, NEW s \in Sections, NEW p \in 0 .. Length(s) - 1
  PROVE  /\ EndOf(s, p) \in p + 1 .. Length(s)
         /\ EndOf(s, p) - p \in 1 .. HardMaxTokens
<1>1. PICK l, ends : l = Length(s) /\ ends = SentenceEnds(s)
  OBVIOUS
<1>2. l \in Nat \ {0} /\ ends \subseteq 1 .. l /\ l \in ends /\ p \in 0 .. l - 1
  <2>1. l \in Nat /\ p \in 0 .. l - 1 /\ l # 0
    BY <1>1, LengthIs
  <2>  QED
    BY <1>1, <2>1, EndsAre
<1>3. /\ TargetTokens \in Nat \ {0} /\ HardMaxTokens \in Nat \ {0}
      /\ TargetTokens <= HardMaxTokens
  BY ChunkingAssumption DEF ConfigFits
<1>4. PICK hard : hard = Min({p + HardMaxTokens, l})
  OBVIOUS
<1>5. p \in Nat /\ p < l
  BY <1>2
<1>6. hard = IF p + HardMaxTokens <= l THEN p + HardMaxTokens ELSE l
  <2>1. p + HardMaxTokens \in Nat
    BY <1>3, <1>5
  <2>  QED
    BY <1>2, <1>4, <2>1, OfTwo
<1>7. hard \in p + 1 .. l /\ hard - p \in 1 .. HardMaxTokens /\ hard \in Nat
  BY <1>2, <1>3, <1>5, <1>6
<1>8. PICK target : target = Min({p + TargetTokens, hard})
  OBVIOUS
<1>9. target = IF p + TargetTokens <= hard THEN p + TargetTokens ELSE hard
  <2>1. p + TargetTokens \in Nat
    BY <1>3, <1>5
  <2>  QED
    BY <1>7, <1>8, <2>1, OfTwo
<1>10. target \in p + 1 .. hard
  BY <1>3, <1>5, <1>7, <1>9
<1>11. PICK e : e = EndIndex(ends, p, target, hard)
  OBVIOUS
<1>12. e = EndOf(s, p)
  BY <1>1, <1>4, <1>8, <1>11 DEF EndOf, HardEnd
<1>13. PICK after, before : /\ after = {k \in ends : target <= k /\ k <= hard}
                           /\ before = {k \in ends : p < k /\ k < target}
  OBVIOUS
<1>14. e = IF after # {} THEN Min(after) ELSE IF before # {} THEN Max(before) ELSE hard
  BY <1>11, <1>13 DEF EndIndex
<1>15. ends \subseteq Nat /\ ends \subseteq 0 .. l
  <2>1. 1 .. l \subseteq Nat /\ 1 .. l \subseteq 0 .. l
    BY <1>2
  <2>  QED
    BY <1>2, <2>1
<1>16. e \in p + 1 .. hard
  <2>1. CASE after # {}
    <3>1. e \in after
      <4>1. after \subseteq Nat
        BY <1>13, <1>15
      <4>  QED
        BY <1>14, <2>1, <4>1, MinIs
    <3>2. e \in Nat /\ target <= e /\ e <= hard
      BY <1>13, <1>15, <3>1
    <3>  QED
      BY <1>5, <1>7, <1>10, <3>2
  <2>2. CASE after = {} /\ before # {}
    <3>1. e \in before
      <4>1. before \subseteq 0 .. l /\ l \in Nat
        BY <1>2, <1>13, <1>15
      <4>  QED
        BY <1>14, <2>2, <4>1, MaxIs
    <3>2. e \in Nat /\ p < e /\ e < target
      BY <1>13, <1>15, <3>1
    <3>  QED
      BY <1>5, <1>7, <1>10, <3>2
  <2>3. CASE after = {} /\ before = {}
    BY <1>5, <1>7, <1>14, <2>3
  <2>  QED
    BY <2>1, <2>2, <2>3
<1>17. e \in p + 1 .. l /\ e - p \in 1 .. HardMaxTokens
  <2>1. /\ e \in Nat /\ p < e /\ e <= hard /\ hard <= l /\ hard - p <= HardMaxTokens
        /\ l \in Nat /\ hard \in Nat
    BY <1>2, <1>5, <1>7, <1>16
  <2>2. e \in p + 1 .. l
    BY <1>5, <2>1
  <2>3. e - p \in Nat /\ e - p # 0 /\ e - p <= hard - p
    BY <1>5, <1>7, <2>1
  <2>4. e - p <= HardMaxTokens
    BY <1>3, <1>5, <1>7, <2>1, <2>3
  <2>  QED
    BY <1>3, <2>2, <2>3, <2>4
<1>  QED
  BY <1>1, <1>12, <1>17

\* The next slice starts after this one, and overlaps it by no more than the overlap.
LEMMA OverlapIs ==
  ASSUME NEW l \in Nat, NEW ends, ends \subseteq 1 .. l, ends # {},
         NEW p \in Nat, NEW e \in Nat, p < e
  PROVE  /\ OverlapStart(ends, p, e) \in p + 1 .. e
         /\ e - OverlapStart(ends, p, e) \in 0 .. OverlapTokens
<1>1. OverlapTokens \in Nat
  BY ChunkingAssumption DEF ConfigFits
<1>2. PICK o : o = OverlapStart(ends, p, e)
  OBVIOUS
<1>3. CASE OverlapTokens = 0
  <2>1. o = e
    BY <1>2, <1>3 DEF OverlapStart
  <2>2. o \in p + 1 .. e /\ e - o \in 0 .. OverlapTokens
    BY <1>1, <2>1
  <2>  QED
    BY <1>2, <2>2
<1>4. CASE OverlapTokens # 0
  <2>1. PICK back : back = IF e > OverlapTokens THEN e - OverlapTokens ELSE 0
    OBVIOUS
  <2>2. PICK desired : desired = Max({p + 1, back})
    OBVIOUS
  <2>3. PICK starts : starts = {k \in ({0} \union ends) \ {Max(ends)} : desired <= k /\ k < e}
    OBVIOUS
  <2>4. PICK first : first = IF starts = {} THEN desired ELSE Min(starts)
    OBVIOUS
  <2>5. o = Max({p + 1, first})
    BY <1>2, <1>4, <2>1, <2>2, <2>3, <2>4 DEF OverlapStart
  <2>6. back \in Nat /\ back <= e /\ e - back <= OverlapTokens
    BY <1>1, <1>4, <2>1
  <2>7. desired = IF p + 1 >= back THEN p + 1 ELSE back
    <3>1. p + 1 \in Nat
      OBVIOUS
    <3>  QED
      BY <2>2, <2>6, <3>1, OfTwo
  <2>8. desired \in Nat /\ desired >= p + 1 /\ desired <= e /\ e - desired <= OverlapTokens
    BY <1>1, <2>6, <2>7
  <2>9. first \in Nat /\ desired <= first /\ first <= e
    <3>1. CASE starts = {}
      BY <2>4, <2>8, <3>1
    <3>2. CASE starts # {}
      <4>1. starts \subseteq Nat
        <5>1. 1 .. l \subseteq Nat /\ 0 \in Nat
          OBVIOUS
        <5>  QED
          BY <2>3, <5>1
      <4>2. first \in starts
        BY <2>4, <3>2, <4>1, MinIs
      <4>3. first \in Nat /\ desired <= first /\ first < e
        BY <2>3, <4>1, <4>2
      <4>  QED
        BY <4>3
    <3>  QED
      BY <3>1, <3>2
  <2>10. o = first
    <3>1. p + 1 \in Nat
      OBVIOUS
    <3>2. o = IF p + 1 >= first THEN p + 1 ELSE first
      BY <2>5, <2>9, <3>1, OfTwo
    <3>  QED
      BY <2>8, <2>9, <3>2
  <2>11. o \in p + 1 .. e /\ e - o \in 0 .. OverlapTokens
    BY <1>1, <2>8, <2>9, <2>10
  <2>  QED
    BY <1>2, <2>11
<1>  QED
  BY <1>3, <1>4

\* So is the next start of a slice in its section.
LEMMA NextIs ==
  ASSUME LinesOK, NEW s \in Sections, NEW p \in 0 .. Length(s) - 1
  PROVE  /\ NextStart(s, p) \in 0 .. Length(s) - 1
         /\ EndOf(s, p) >= Length(s) => NextStart(s, p) = p
         /\ EndOf(s, p) < Length(s) => /\ NextStart(s, p) \in p + 1 .. EndOf(s, p)
                                       /\ EndOf(s, p) - NextStart(s, p) \in 0 .. OverlapTokens
<1>1. PICK l, ends, e, q : /\ l = Length(s) /\ ends = SentenceEnds(s)
                          /\ e = EndOf(s, p) /\ q = NextStart(s, p)
  OBVIOUS
<1>2. l \in Nat \ {0} /\ ends \subseteq 1 .. l /\ ends # {} /\ p \in 0 .. l - 1 /\ e \in p + 1 .. l
  <2>1. l \in Nat /\ p \in 0 .. l - 1 /\ l # 0
    BY <1>1, LengthIs
  <2>  QED
    BY <1>1, <2>1, EndsAre, EndIs
<1>3. q = IF e >= l THEN p ELSE OverlapStart(ends, p, e)
  BY <1>1 DEF NextStart
<1>4. CASE e >= l
  BY <1>1, <1>2, <1>3, <1>4
<1>5. CASE e < l
  <2>1. l \in Nat /\ p \in Nat /\ e \in Nat /\ p < e
    BY <1>2
  <2>2. /\ OverlapStart(ends, p, e) \in p + 1 .. e
        /\ e - OverlapStart(ends, p, e) \in 0 .. OverlapTokens
    BY <1>2, <2>1, OverlapIs
  <2>3. q = OverlapStart(ends, p, e)
    BY <1>2, <1>3, <1>5
  <2>4. q \in p + 1 .. e /\ e - q \in 0 .. OverlapTokens
    BY <2>2, <2>3
  <2>5. q \in 0 .. l - 1 /\ ~(e >= l)
    BY <1>2, <1>5, <2>1, <2>4
  <2>  QED
    BY <1>1, <2>4, <2>5
<1>  QED
  BY <1>2, <1>4, <1>5

\* The recursion of SliceStarts defines a function.
LEMMA StartsAre ==
  ASSUME LinesOK, NEW s \in Sections, Length(s) # 0
  PROVE  /\ SliceStarts(s) \in [0 .. Length(s) -> 0 .. Length(s) - 1] /\ SliceStarts(s)[0] = 0
         /\ \A k \in 1 .. Length(s) : SliceStarts(s)[k] = NextStart(s, SliceStarts(s)[k - 1])
<1>1. PICK n : n = Length(s)
  OBVIOUS
<1>2. n \in Nat \ {0}
  BY <1>1, EndsAre
<1>3. PICK turn : turn = [k \in 1 .. n |-> [p \in 0 .. n - 1 |-> NextStart(s, p)]]
  OBVIOUS
<1>4. Steps(turn, n, 0 .. n - 1, 0)
  <2>1. [p \in 0 .. n - 1 |-> NextStart(s, p)] \in [0 .. n - 1 -> 0 .. n - 1]
    <3>1. \A p \in 0 .. n - 1 : NextStart(s, p) \in 0 .. n - 1
      BY <1>1, NextIs
    <3>  QED
      BY <3>1
  <2>2. 0 \in 0 .. n - 1
    BY <1>2
  <2>3. turn \in [1 .. n -> [0 .. n - 1 -> 0 .. n - 1]]
    BY <1>3, <2>1
  <2>  QED
    BY <1>2, <2>2, <2>3 DEF Steps
<1>5. PICK f : Recursion(f, turn, n, 0 .. n - 1, 0)
  BY <1>4, RecursionExists
<1>6. /\ f \in [0 .. n -> 0 .. n - 1] /\ f[0] = 0 /\ \A k \in 1 .. n : f[k] = turn[k][f[k - 1]]
      /\ \A k \in 1 .. n : k - 1 \in 0 .. n /\ f[k - 1] \in 0 .. n - 1
  <2>1. \A k \in 1 .. n : k - 1 \in 0 .. n
    BY <1>2
  <2>  QED
    BY <1>5, <2>1 DEF Recursion
<1>7. \A k \in 1 .. n : f[k] = NextStart(s, f[k - 1])
  BY <1>3, <1>6
<1>8. f = [k \in 0 .. n |-> IF k = 0 THEN 0 ELSE NextStart(s, f[k - 1])]
  <2>1. \A k \in 0 .. n : k # 0 => k \in 1 .. n
    BY <1>2
  <2>  QED
    BY <1>6, <1>7, <2>1
<1>9. SliceStarts(s) = CHOOSE g : g = [k \in 0 .. n |-> IF k = 0 THEN 0 ELSE NextStart(s, g[k - 1])]
  BY <1>1 DEF SliceStarts
<1>10. PICK g : g = SliceStarts(s)
  OBVIOUS
<1>11. g = [k \in 0 .. n |-> IF k = 0 THEN 0 ELSE NextStart(s, g[k - 1])]
  BY <1>8, <1>9, <1>10
<1>12. \A k \in 1 .. n : k \in 0 .. n /\ k # 0 /\ k - 1 \in 0 .. n
  BY <1>2
<1>13. g[0] = 0 /\ \A k \in 1 .. n : g[k] = NextStart(s, g[k - 1])
  BY <1>2, <1>11, <1>12
<1>14. Follows(g, turn, n, 0 .. n - 1, 0)
  <2>1. g = [k \in 0 .. n |-> g[k]]
    BY <1>11
  <2>  QED
    BY <1>3, <1>13, <2>1 DEF Follows
<1>15. Recursion(g, turn, n, 0 .. n - 1, 0)
  BY <1>4, <1>14, RecursionStays
<1>16. g \in [0 .. n -> 0 .. n - 1]
  BY <1>15 DEF Recursion
<1>  QED
  BY <1>1, <1>10, <1>13, <1>16

\* As many slices as there are tokens reach the end of the section.
LEMMA SlicesEnd ==
  ASSUME LinesOK, NEW s \in Sections, Length(s) # 0
  PROVE  EndOf(s, SliceStarts(s)[Length(s)]) >= Length(s)
<1>1. PICK n, start : n = Length(s) /\ start = SliceStarts(s)
  OBVIOUS
<1>2. /\ n \in Nat \ {0} /\ start \in [0 .. n -> 0 .. n - 1] /\ start[0] = 0
      /\ \A k \in 1 .. n : start[k] = NextStart(s, start[k - 1])
  BY <1>1, EndsAre, StartsAre
<1> DEFINE Bad == {k \in 0 .. n : ~(start[k] >= k \/ EndOf(s, start[k]) >= n)}
<1>3. ASSUME Bad # {} PROVE FALSE
  <2>1. Bad \subseteq Nat
    OBVIOUS
  <2>2. PICK k \in Bad : \A j \in Bad : k <= j
    BY <1>3, <2>1, Least
  <2>3. k # 0
    BY <1>2, <2>2
  <2>4. k \in 1 .. n /\ k - 1 \in 0 .. n /\ ~(k <= k - 1)
    BY <1>2, <2>2, <2>3
  <2>5. PICK p : p = start[k - 1]
    OBVIOUS
  <2>6. p \in 0 .. n - 1 /\ start[k] = NextStart(s, p)
    BY <1>2, <2>4, <2>5
  <2>7. p >= k - 1 \/ EndOf(s, p) >= n
    BY <2>2, <2>4, <2>5
  <2>8. EndOf(s, p) \in p + 1 .. n
    BY <1>1, <2>6, EndIs
  <2>9. CASE EndOf(s, p) >= n
    <3>1. start[k] = p
      BY <1>1, <2>6, <2>9, NextIs
    <3>  QED
      BY <2>2, <2>9, <3>1
  <2>10. CASE EndOf(s, p) < n
    <3>1. start[k] \in p + 1 .. EndOf(s, p)
      BY <1>1, <2>6, <2>10, NextIs
    <3>2. p >= k - 1
      BY <1>2, <2>6, <2>7, <2>8, <2>10
    <3>3. start[k] \in 0 .. n - 1
      BY <1>2, <2>4
    <3>4. start[k] >= k
      BY <1>2, <2>4, <2>6, <2>8, <3>1, <3>2, <3>3
    <3>  QED
      BY <2>2, <3>4
  <2>  QED
    BY <1>2, <2>6, <2>8, <2>9, <2>10
<1>4. n \in 0 .. n /\ start[n] \in 0 .. n - 1
  BY <1>2
<1>5. start[n] >= n \/ EndOf(s, start[n]) >= n
  BY <1>3, <1>4
<1>  QED
  BY <1>1, <1>2, <1>4, <1>5

\* A slice of a section: it fits, and the one after it overlaps it.
LEMMA SliceFits ==
  ASSUME LinesOK, NEW s \in Sections, Length(s) # 0, NEW slice \in Slices(s)
  PROVE  /\ slice.from \in 0 .. Length(s) - 1 /\ slice.to \in slice.from + 1 .. Length(s)
         /\ slice.to - slice.from \in 1 .. HardMaxTokens /\ slice.overlap \in 0 .. OverlapTokens
         /\ slice.to < Length(s) => \E next \in Slices(s) :
                                      /\ slice.from < next.from
                                      /\ next.from = slice.to - next.overlap
<1>1. PICK n, start : n = Length(s) /\ start = SliceStarts(s)
  OBVIOUS
<1>2. /\ n \in Nat \ {0} /\ start \in [0 .. n -> 0 .. n - 1] /\ start[0] = 0
      /\ \A k \in 1 .. n : start[k] = NextStart(s, start[k - 1])
      /\ HardMaxTokens \in Nat \ {0} /\ OverlapTokens \in Nat
  BY <1>1, EndsAre, StartsAre, ChunkingAssumption DEF ConfigFits
<1> DEFINE Cut(k) == Slice(start[k], EndOf(s, start[k]), EndOf(s, start[k - 1]) - start[k])
           On(k) == k \in 1 .. n /\ EndOf(s, start[k - 1]) < n
<1>3. CASE n <= HardMaxTokens
  <2>1. slice = Slice(0, n, 0)
    BY <1>1, <1>3 DEF Slices
  <2>2. slice.from = 0 /\ slice.to = n /\ slice.overlap = 0
    BY <2>1 DEF Slice
  <2>3. /\ 0 \in 0 .. n - 1 /\ n \in 0 + 1 .. n /\ n - 0 \in 1 .. HardMaxTokens
        /\ 0 \in 0 .. OverlapTokens
    BY <1>2, <1>3
  <2>4. ~(n < n)
    BY <1>2
  <2>  QED
    BY <1>1, <2>2, <2>3, <2>4
<1>4. CASE ~(n <= HardMaxTokens)
  <2>1. Slices(s) = {Slice(0, EndOf(s, 0), 0)}
                      \union {Cut(k) : k \in {m \in 1 .. n : EndOf(s, start[m - 1]) < n}}
    BY <1>1, <1>4 DEF Slices
  <2>2. ASSUME NEW k, On(k)
        PROVE  /\ Cut(k) \in Slices(s) /\ Cut(k).from = start[k] /\ Cut(k).to = EndOf(s, start[k])
               /\ Cut(k).overlap = EndOf(s, start[k - 1]) - start[k]
               /\ start[k - 1] < start[k] /\ Cut(k).overlap \in 0 .. OverlapTokens
               /\ start[k] = EndOf(s, start[k - 1]) - Cut(k).overlap
    <3>1. Cut(k) \in Slices(s)
      <4> HIDE DEF Cut
      <4>  QED
        BY <2>1, <2>2
    <3>2. /\ Cut(k).from = start[k] /\ Cut(k).to = EndOf(s, start[k])
          /\ Cut(k).overlap = EndOf(s, start[k - 1]) - start[k]
      BY DEF Slice
    <3>3. PICK p, e, q, o : /\ p = start[k - 1] /\ e = EndOf(s, p) /\ q = start[k]
                           /\ o = Cut(k).overlap
      OBVIOUS
    <3>4. k - 1 \in 0 .. n
      BY <1>2, <2>2
    <3>5. p \in 0 .. n - 1 /\ q = NextStart(s, p)
      BY <1>2, <2>2, <3>3, <3>4
    <3>6. e < n
      BY <2>2, <3>3
    <3>7. e \in p + 1 .. n /\ q \in p + 1 .. e /\ e - q \in 0 .. OverlapTokens
      BY <1>1, <3>3, <3>5, <3>6, EndIs, NextIs
    <3>8. o = e - q
      BY <3>2, <3>3
    <3>9. p < q /\ q = e - o /\ o \in 0 .. OverlapTokens
      <4>1. p \in Nat /\ e \in Nat
        BY <1>2, <3>5, <3>7
      <4>2. q \in Nat /\ p < q
        BY <3>7, <4>1
      <4>  QED
        BY <3>7, <3>8, <4>1, <4>2
    <3>  QED
      BY <3>1, <3>2, <3>3, <3>9
  <2>3. ASSUME NEW k \in 0 .. n, EndOf(s, start[k]) < n
        PROVE  On(k + 1) /\ (k + 1) - 1 = k
    <3>1. k # n
      <4>1. start[k] \in 0 .. n - 1
        BY <1>2
      <4>2. EndOf(s, start[k]) \in start[k] + 1 .. n
        BY <1>1, <4>1, EndIs
      <4>3. EndOf(s, start[k]) \in Int
        BY <1>2, <4>1, <4>2
      <4>4. EndOf(s, start[n]) >= n
        BY <1>1, SlicesEnd
      <4>  QED
        BY <1>2, <2>3, <4>3, <4>4
    <3>2. k + 1 \in 1 .. n /\ (k + 1) - 1 = k
      BY <1>2, <3>1
    <3>  QED
      BY <2>3, <3>2
  <2>4. ASSUME NEW k \in 0 .. n, slice.from = start[k], slice.to = EndOf(s, start[k]),
               slice.overlap \in 0 .. OverlapTokens
        PROVE  /\ slice.from \in 0 .. n - 1 /\ slice.to \in slice.from + 1 .. n
               /\ slice.to - slice.from \in 1 .. HardMaxTokens
               /\ slice.to < n => \E next \in Slices(s) : /\ slice.from < next.from
                                                          /\ next.from = slice.to - next.overlap
    <3>1. start[k] \in 0 .. n - 1
      BY <1>2
    <3>2. /\ EndOf(s, start[k]) \in start[k] + 1 .. n
          /\ EndOf(s, start[k]) - start[k] \in 1 .. HardMaxTokens
      BY <1>1, <3>1, EndIs
    <3>3. ASSUME slice.to < n
          PROVE  \E next \in Slices(s) :
                   slice.from < next.from /\ next.from = slice.to - next.overlap
      <4>1. PICK m : m = k + 1
        OBVIOUS
      <4>2. On(m) /\ m - 1 = k
        BY <2>3, <2>4, <3>3, <4>1
      <4>3. PICK next : next = Cut(m)
        OBVIOUS
      <4>4. /\ next \in Slices(s) /\ next.from = start[m] /\ start[m - 1] < start[m]
            /\ start[m] = EndOf(s, start[m - 1]) - next.overlap
        BY <2>2, <4>2, <4>3
      <4>5. slice.from < next.from /\ next.from = slice.to - next.overlap
        BY <2>4, <4>2, <4>4
      <4>  QED
        BY <4>4, <4>5
    <3>  QED
      BY <2>4, <3>1, <3>2, <3>3
  <2>5. CASE slice = Slice(0, EndOf(s, 0), 0)
    <3>1. /\ slice.from = start[0] /\ slice.to = EndOf(s, start[0])
          /\ slice.overlap \in 0 .. OverlapTokens
      BY <1>2, <2>5 DEF Slice
    <3>2. 0 \in 0 .. n
      BY <1>2
    <3>  QED
      BY <1>1, <2>4, <3>1, <3>2
  <2>6. CASE slice # Slice(0, EndOf(s, 0), 0)
    <3>1. PICK k \in {m \in 1 .. n : EndOf(s, start[m - 1]) < n} : slice = Cut(k)
      <4> HIDE DEF Cut
      <4>  QED
        BY <2>1, <2>6
    <3>2. On(k) /\ k \in 0 .. n
      BY <1>2, <3>1
    <3>3. /\ slice.from = start[k] /\ slice.to = EndOf(s, start[k])
          /\ slice.overlap \in 0 .. OverlapTokens
      BY <2>2, <3>1, <3>2
    <3>  QED
      BY <1>1, <2>4, <3>2, <3>3
  <2>  QED
    BY <2>5, <2>6
<1>  QED
  BY <1>3, <1>4

\* Every token of a section is in a slice.
LEMMA SlicesCover ==
  ASSUME LinesOK, NEW s \in Sections, NEW p \in 1 .. Length(s)
  PROVE  \E slice \in Slices(s) : slice.from < p /\ p <= slice.to
<1>1. PICK n, start : n = Length(s) /\ start = SliceStarts(s)
  OBVIOUS
<1>2. /\ n \in Nat \ {0} /\ start \in [0 .. n -> 0 .. n - 1] /\ start[0] = 0
      /\ \A k \in 1 .. n : start[k] = NextStart(s, start[k - 1])
      /\ p \in Nat /\ 0 < p /\ p <= n
  <2>1. n \in Nat /\ p \in 1 .. n
    BY <1>1, LengthIs
  <2>2. n # 0 /\ p \in Nat /\ 0 < p /\ p <= n
    BY <2>1
  <2>  QED
    BY <1>1, <2>2, EndsAre, StartsAre
<1>3. CASE n <= HardMaxTokens
  <2>1. Slice(0, n, 0) \in Slices(s)
    BY <1>1, <1>3 DEF Slices
  <2>2. Slice(0, n, 0).from = 0 /\ Slice(0, n, 0).to = n
    BY DEF Slice
  <2>  QED
    BY <1>2, <2>1, <2>2
<1>4. CASE ~(n <= HardMaxTokens)
  <2> DEFINE Cut(k) == Slice(start[k], EndOf(s, start[k]), EndOf(s, start[k - 1]) - start[k])
             Reached == {k \in 0 .. n : p <= EndOf(s, start[k])}
  <2>1. Slices(s) = {Slice(0, EndOf(s, 0), 0)}
                      \union {Cut(k) : k \in {m \in 1 .. n : EndOf(s, start[m - 1]) < n}}
    BY <1>1, <1>4 DEF Slices
  <2>2. \A k \in 0 .. n : EndOf(s, start[k]) \in start[k] + 1 .. n /\ EndOf(s, start[k]) \in Nat
    <3>1. ASSUME NEW k \in 0 .. n
          PROVE  EndOf(s, start[k]) \in start[k] + 1 .. n /\ EndOf(s, start[k]) \in Nat
      <4>1. start[k] \in 0 .. n - 1
        BY <1>2
      <4>2. EndOf(s, start[k]) \in start[k] + 1 .. n
        BY <1>1, <4>1, EndIs
      <4>  QED
        BY <1>2, <4>1, <4>2
    <3>  QED
      BY <3>1
  <2>3. Reached \subseteq Nat /\ n \in Reached
    <3>1. n \in 0 .. n
      BY <1>2
    <3>2. EndOf(s, start[n]) >= n /\ EndOf(s, start[n]) \in Nat
      BY <1>1, <1>2, <2>2, <3>1, SlicesEnd
    <3>3. p <= EndOf(s, start[n])
      BY <1>2, <3>2
    <3>4. 0 .. n \subseteq Nat
      OBVIOUS
    <3>  QED
      BY <3>1, <3>3, <3>4
  <2>4. PICK k \in Reached : \A j \in Reached : k <= j
    BY <2>3, Least
  <2>5. k \in 0 .. n /\ p <= EndOf(s, start[k])
    OBVIOUS
  <2>6. CASE k = 0
    <3>1. Slice(0, EndOf(s, 0), 0) \in Slices(s)
      BY <2>1
    <3>2. Slice(0, EndOf(s, 0), 0).from = 0 /\ Slice(0, EndOf(s, 0), 0).to = EndOf(s, 0)
      BY DEF Slice
    <3>  QED
      BY <1>2, <2>5, <2>6, <3>1, <3>2
  <2>7. CASE k # 0
    <3>1. k \in 1 .. n /\ k - 1 \in 0 .. n /\ ~(k <= k - 1)
      BY <1>2, <2>5, <2>7
    <3>2. ~(p <= EndOf(s, start[k - 1]))
      BY <2>4, <3>1
    <3>3. PICK q, e, r : q = start[k - 1] /\ e = EndOf(s, q) /\ r = start[k]
      OBVIOUS
    <3>4. q \in 0 .. n - 1 /\ e \in Nat /\ e < p /\ e < n
      <4>1. q \in 0 .. n - 1
        BY <1>2, <3>1, <3>3
      <4>2. e \in Nat /\ ~(p <= e)
        BY <2>2, <3>1, <3>2, <3>3
      <4>3. e < p /\ e < n
        BY <1>2, <4>2
      <4>  QED
        BY <4>1, <4>2, <4>3
    <3>5. r \in q + 1 .. e
      <4>1. r = NextStart(s, q)
        BY <1>2, <3>1, <3>3
      <4>  QED
        BY <1>1, <3>3, <3>4, <4>1, NextIs
    <3>6. r < p
      BY <1>2, <3>4, <3>5
    <3>7. Cut(k) \in Slices(s)
      <4>1. k \in {m \in 1 .. n : EndOf(s, start[m - 1]) < n}
        BY <3>1, <3>3, <3>4
      <4> HIDE DEF Cut
      <4>  QED
        BY <2>1, <4>1
    <3>8. Cut(k).from = r /\ Cut(k).to = EndOf(s, start[k])
      BY <3>3 DEF Slice
    <3>  QED
      BY <2>5, <3>6, <3>7, <3>8
  <2>  QED
    BY <2>6, <2>7
<1>  QED
  BY <1>3, <1>4

\* A chunk is a slice of a section that has tokens.
LEMMA ChunkIs ==
  ASSUME LinesOK, NEW c \in Chunks
  PROVE  \E s \in Sections : \E slice \in Slices(s) :
           c = [section |-> s, slice |-> slice] /\ Length(s) # 0
<1>1. /\ c \in UNION {{[section |-> s, slice |-> slice] : slice \in Slices(s)} : s \in Sections}
      /\ c.slice.to # c.slice.from
  BY DEF Chunks
<1>2. PICK s \in Sections : \E slice \in Slices(s) : c = [section |-> s, slice |-> slice]
  BY <1>1
<1>  PICK slice \in Slices(s) : c = [section |-> s, slice |-> slice]
  BY <1>2
<1>3. ASSUME Length(s) = 0 PROVE FALSE
  <2>1. Length(s) <= HardMaxTokens
    BY <1>3, ChunkingAssumption DEF ConfigFits
  <2>2. slice = Slice(0, 0, 0)
    BY <1>3, <2>1 DEF Slices
  <2>3. c.slice.to = 0 /\ c.slice.from = 0
    BY <2>2 DEF Slice
  <2>  QED
    BY <1>1, <2>3
<1>  QED
  BY <1>3

\* A section is cut into at least one slice.
LEMMA SomeSlice == ASSUME NEW s \in Sections PROVE Slices(s) # {}
<1>1. CASE Length(s) <= HardMaxTokens
  BY <1>1 DEF Slices
<1>2. CASE ~(Length(s) <= HardMaxTokens)
  <2>1. Slice(0, EndOf(s, 0), 0) \in Slices(s)
    BY <1>2 DEF Slices
  <2>  QED
    BY <2>1
<1>  QED
  BY <1>1, <1>2

\* Of a document that is not refused all slices become chunks; of one that
\* is, nothing is kept or a section has no token.
LEMMA AllOrNone ==
  ASSUME LinesOK
  PROVE  /\ Chunks # {} => \A s \in Sections : \A slice \in Slices(s) :
                             Length(s) # 0 /\ [section |-> s, slice |-> slice] \in Chunks
         /\ Chunks = {} => Kept = {} \/ \E s \in Sections : Length(s) = 0
<1>1. PICK planned :
        planned = UNION {{[section |-> s, slice |-> slice] : slice \in Slices(s)} : s \in Sections}
  OBVIOUS
<1>2. Chunks = IF \E c \in planned : c.slice.to = c.slice.from THEN {} ELSE planned
  BY <1>1 DEF Chunks
<1>3. \A s \in Sections : \A slice \in Slices(s) : [section |-> s, slice |-> slice] \in planned
  BY <1>1
<1>4. ASSUME Chunks # {}, NEW s \in Sections, NEW slice \in Slices(s)
      PROVE  Length(s) # 0 /\ [section |-> s, slice |-> slice] \in Chunks
  <2>1. PICK c : c = [section |-> s, slice |-> slice]
    OBVIOUS
  <2>2. c \in Chunks
    BY <1>2, <1>3, <1>4, <2>1
  <2>3. PICK r \in Sections : c.section = r /\ Length(r) # 0
    <3>1. PICK r \in Sections : \E cut \in Slices(r) :
            c = [section |-> r, slice |-> cut] /\ Length(r) # 0
      BY <2>2, ChunkIs
    <3>  QED
      BY <3>1
  <2>4. c.section = s
    BY <2>1
  <2>  QED
    BY <2>1, <2>2, <2>3, <2>4
<1>5. ASSUME Chunks = {}, Kept # {} PROVE \E s \in Sections : Length(s) = 0
  <2>1. PICK s \in Sections : Slices(s) # {}
    BY <1>5, SectionOf, SomeSlice
  <2>2. planned # {}
    BY <1>3, <2>1
  <2>3. PICK c \in planned : c.slice.to = c.slice.from
    BY <1>2, <1>5, <2>2
  <2>4. PICK r \in Sections : \E cut \in Slices(r) : c = [section |-> r, slice |-> cut]
    BY <1>1
  <2>  PICK slice \in Slices(r) : c = [section |-> r, slice |-> slice]
    BY <2>4
  <2>5. PICK from, to : from = slice.from /\ to = slice.to
    OBVIOUS
  <2>6. to = from
    BY <2>3, <2>5
  <2>7. ASSUME Length(r) # 0 PROVE FALSE
    <3>1. from \in 0 .. Length(r) - 1 /\ to \in from + 1 .. Length(r) /\ Length(r) \in Nat
      BY <2>5, <2>7, SliceFits, LengthIs
    <3>  QED
      BY <2>6, <3>1
  <2>  QED
    BY <2>7
<1>  QED
  BY <1>4, <1>5

\* What a chunk holds is tokens of lines of its section.
LEMMA HeldTokens ==
  ASSUME LinesOK, NEW c \in Chunks, NEW t \in Holds(c)
  PROVE  c.section \in Sections /\ \E i \in c.section.from .. c.section.to : t \in TokensOf(i)
<1>1. PICK s \in Sections : \E slice \in Slices(s) :
        c = [section |-> s, slice |-> slice] /\ Length(s) # 0
  BY ChunkIs
<1>2. PICK slice \in Slices(s) : c = [section |-> s, slice |-> slice] /\ Length(s) # 0
  BY <1>1
<1>3. c.section = s /\ c.slice = slice
  BY <1>2
<1>4. PICK n, a, b, from, to : /\ n = Length(s) /\ a = Upto[s.from - 1] /\ b = Upto[s.to]
                              /\ from = slice.from /\ to = slice.to
  OBVIOUS
<1>5. n \in Nat \ {0} /\ a \in Nat /\ a + n = b
  BY <1>2, <1>4, LengthIs
<1>6. from \in 0 .. n - 1 /\ to \in from + 1 .. n
  BY <1>2, <1>4, SliceFits
<1>7. t \in (a + from + 1) .. (a + to)
  BY <1>3, <1>4 DEF Holds
<1>8. t \in Nat /\ a < t /\ t <= b
  <2>1. from \in Nat /\ to \in Nat /\ to <= n
    BY <1>5, <1>6
  <2>  QED
    BY <1>5, <1>7, <2>1
<1>9. s.from \in 1 .. Len(document) /\ s.to \in s.from .. Len(document)
  BY SectionIs
<1>10. \E i \in s.from .. s.to : t \in TokensOf(i)
  BY <1>4, <1>8, <1>9, LineOf
<1>  QED
  BY <1>3, <1>10

\* A token is of one line.
LEMMA TokensDiffer ==
  ASSUME LinesOK, NEW i \in 1 .. Len(document), NEW j \in 1 .. Len(document), i < j,
         NEW t, t \in TokensOf(i), t \in TokensOf(j)
  PROVE  FALSE
<1>1. Len(document) \in Nat
  BY DocumentIs
<1>2. PICK a, b, c, d : a = Upto[i - 1] /\ b = Upto[i] /\ c = Upto[j - 1] /\ d = Upto[j]
  OBVIOUS
<1>3. i - 1 \in 0 .. Len(document) /\ i \in 0 .. Len(document) /\ j \in 0 .. Len(document)
      /\ j - 1 \in i .. Len(document) /\ j - 1 \in 0 .. Len(document)
  BY <1>1
<1>4. a \in Nat /\ b \in Nat /\ c \in Nat /\ d \in Nat
  BY <1>2, <1>3, UptoIs
<1>5. b <= c
  BY <1>2, <1>3, UptoGrows
<1>6. t \in a + 1 .. b /\ t \in c + 1 .. d
  BY <1>2 DEF TokensOf
<1>  QED
  BY <1>4, <1>5, <1>6

\* A chunk fits, of every document.
LEMMA Fit == ASSUME LinesOK PROVE ChunksFit
<1> SUFFICES ASSUME NEW c \in Chunks
             PROVE  /\ c.slice.to - c.slice.from \in 1 .. HardMaxTokens
                    /\ c.slice.overlap \in 0 .. OverlapTokens
                    /\ c.slice.to < Length(c.section) =>
                         \E next \in Slices(c.section) :
                           c.slice.from < next.from /\ next.from = c.slice.to - next.overlap
  BY DEF ChunksFit
<1>1. PICK s \in Sections : \E slice \in Slices(s) :
        c = [section |-> s, slice |-> slice] /\ Length(s) # 0
  BY ChunkIs
<1>2. PICK slice \in Slices(s) : c = [section |-> s, slice |-> slice] /\ Length(s) # 0
  BY <1>1
<1>3. c.section = s /\ c.slice = slice
  BY <1>2
<1>  QED
  BY <1>2, <1>3, SliceFits

\* Chunks hold the tokens of the kept lines, each of one page.
LEMMA NoneLost == ASSUME LinesOK PROVE NothingIsLost
<1>1. Len(document) \in Nat /\ Kept \subseteq 1 .. Len(document)
  BY DocumentIs DEF Kept
<1>2. ASSUME NEW c \in Chunks, NEW t \in Holds(c)
      PROVE  /\ c.section \in Sections
             /\ \E i \in Kept : i \in c.section.from .. c.section.to /\ t \in TokensOf(i)
  <2>1. PICK i \in c.section.from .. c.section.to : t \in TokensOf(i)
    BY <1>2, HeldTokens
  <2>2. c.section \in Sections
    BY <1>2, HeldTokens
  <2>3. i \in Kept
    BY <2>2, SectionIs
  <2>  QED
    BY <2>1, <2>2, <2>3
<1>3. ASSUME Chunks # {}, NEW i \in Kept, NEW t \in TokensOf(i)
      PROVE  \E c \in Chunks : t \in Holds(c)
  <2>1. PICK s \in Sections : i \in s.from .. s.to
    BY SectionOf
  <2>2. PICK n, a, b, u, v : /\ n = Length(s) /\ a = Upto[s.from - 1] /\ b = Upto[s.to]
                            /\ u = Upto[i - 1] /\ v = Upto[i]
    OBVIOUS
  <2>3. n \in Nat /\ a \in Nat /\ a + n = b
    BY <2>2, LengthIs
  <2>4. s.from \in 1 .. Len(document) /\ s.to \in s.from .. Len(document)
    BY SectionIs
  <2>5. /\ s.from - 1 \in 0 .. Len(document) /\ i - 1 \in s.from - 1 .. Len(document)
        /\ i \in 0 .. Len(document) /\ s.to \in i .. Len(document)
    BY <1>1, <2>1, <2>4
  <2>6. a <= u /\ v <= b /\ u \in Nat /\ v \in Nat
    BY <2>2, <2>5, UptoGrows
  <2>7. t \in u + 1 .. v
    BY <2>2 DEF TokensOf
  <2>8. PICK p : p = t - a
    OBVIOUS
  <2>9. t \in Nat /\ p \in 1 .. n /\ p \in Nat /\ t = a + p
    BY <2>3, <2>6, <2>7, <2>8
  <2>10. PICK slice \in Slices(s) : slice.from < p /\ p <= slice.to
    BY <2>2, <2>9, SlicesCover
  <2>11. PICK from, to : from = slice.from /\ to = slice.to
    OBVIOUS
  <2>12. from \in 0 .. n - 1 /\ to \in from + 1 .. n
    <3>1. n # 0
      BY <2>3, <2>9
    <3>  QED
      BY <2>2, <2>11, <3>1, SliceFits
  <2>13. t \in (a + from + 1) .. (a + to)
    <3>1. from \in Nat /\ to \in Nat
      BY <2>3, <2>12
    <3>2. from < p /\ p <= to
      BY <2>10, <2>11
    <3>  QED
      BY <2>3, <2>9, <3>1, <3>2
  <2>14. PICK c : c = [section |-> s, slice |-> slice]
    OBVIOUS
  <2>15. c \in Chunks
    BY <1>3, <2>14, AllOrNone
  <2>16. Holds(c) = (a + from + 1) .. (a + to)
    BY <2>2, <2>11, <2>14 DEF Holds
  <2>  QED
    BY <2>13, <2>15, <2>16
<1>4. ASSUME Chunks # {}
      PROVE  UNION {Holds(c) : c \in Chunks} = UNION {TokensOf(i) : i \in Kept}
  <2>1. \A c \in Chunks : \A t \in Holds(c) : \E i \in Kept : t \in TokensOf(i)
    BY <1>2
  <2>2. \A i \in Kept : \A t \in TokensOf(i) : \E c \in Chunks : t \in Holds(c)
    BY <1>3, <1>4
  <2>  QED
    BY <2>1, <2>2
<1>5. ASSUME NEW c \in Chunks, NEW i \in Kept, Holds(c) \cap TokensOf(i) # {}
      PROVE  c.section \in Sections /\ i \in c.section.from .. c.section.to
  <2>1. PICK t \in Holds(c) : t \in TokensOf(i)
    BY <1>5
  <2>2. PICK l \in Kept : l \in c.section.from .. c.section.to /\ t \in TokensOf(l)
    BY <1>2
  <2>3. i \in 1 .. Len(document) /\ l \in 1 .. Len(document)
    BY <1>1
  <2>4. ~(i < l) /\ ~(l < i)
    BY <2>1, <2>2, <2>3, TokensDiffer
  <2>5. i = l
    BY <1>1, <2>3, <2>4
  <2>6. c.section \in Sections
    BY <1>2, <2>1
  <2>  QED
    BY <2>2, <2>5, <2>6
<1>6. ASSUME NEW s \in Sections, NEW i \in s.from .. s.to PROVE PageAt(i) = PageAt(s.to)
  <2>1. /\ s.from \in 1 .. Len(document) /\ s.to \in s.from .. Len(document)
        /\ s.from .. s.to \subseteq Kept
    BY SectionIs
  <2>2. /\ i \in 1 .. Len(document) /\ s.to \in i .. Len(document)
        /\ i .. s.to \subseteq s.from .. s.to
    BY <1>1, <2>1
  <2>3. i .. s.to \subseteq Kept
    BY <2>1, <2>2
  <2>  QED
    BY <2>2, <2>3, SamePage
<1>7. ASSUME NEW c \in Chunks, NEW i \in Kept, NEW j \in Kept,
             Holds(c) \cap TokensOf(i) # {}, Holds(c) \cap TokensOf(j) # {}
      PROVE  PageAt(i) = PageAt(j)
  <2>1. c.section \in Sections /\ i \in c.section.from .. c.section.to
    BY <1>5, <1>7
  <2>2. j \in c.section.from .. c.section.to
    BY <1>5, <1>7
  <2>  QED
    BY <1>6, <2>1, <2>2
<1>  QED
  BY <1>4, <1>7 DEF NothingIsLost

\* The section of a line does not begin after it.
LEMMA BeginsBefore ==
  ASSUME LinesOK, NEW i \in 0 .. Len(document)
  PROVE  LastBegins[i] \in 0 .. i
<1>1. PICK n, f : n = Len(document) /\ f = LastBegins
  OBVIOUS
<1>2. /\ n \in Nat /\ f \in [0 .. n -> 0 .. n] /\ f[0] = 0 /\ i \in 0 .. n
      /\ \A k \in 1 .. n : f[k] = k \/ f[k] = f[k - 1]
  BY <1>1, DocumentIs, LastBeginsIs
<1> DEFINE Bad == {k \in 0 .. n : ~(f[k] <= k)}
<1>3. ASSUME Bad # {} PROVE FALSE
  <2>1. PICK k \in Bad : \A l \in Bad : k <= l
    <3>1. Bad \subseteq Nat
      OBVIOUS
    <3>  QED
      BY <1>3, <3>1, Least
  <2>2. k \in 1 .. n /\ k - 1 \in 0 .. n /\ ~(k <= k - 1)
    BY <1>2, <2>1
  <2>3. f[k - 1] <= k - 1
    <3>1. k - 1 \notin Bad
      BY <2>1, <2>2
    <3>  QED
      BY <2>2, <3>1
  <2>4. f[k - 1] \in Nat /\ k \in Nat
    <3>1. f[k - 1] \in 0 .. n
      BY <1>2, <2>2
    <3>2. 0 .. n \subseteq Nat /\ 1 .. n \subseteq Nat
      BY <1>2
    <3>  QED
      BY <3>1, <3>2, <2>2
  <2>5. f[k] = k \/ f[k] = f[k - 1]
    BY <1>2, <2>2
  <2>6. f[k] <= k
    BY <2>3, <2>4, <2>5
  <2>  QED
    BY <2>1, <2>6
<1>4. f[i] \in 0 .. n /\ f[i] <= i
  <2>1. f[i] \in 0 .. n /\ i \notin Bad
    BY <1>2, <1>3
  <2>  QED
    BY <1>2, <2>1
<1>  QED
  BY <1>1, <1>2, <1>4

\* Where a section begins a section starts that was not merged with the one
\* before, and of that start all lines are in it.
LEMMA SectionStarts ==
  ASSUME LinesOK, NEW s \in Sections
  PROVE  /\ LastBegins[s.to] = s.from
         /\ s.from \in Starts /\ ~Mergeable(LastBegins[s.from - 1], s.from)
         /\ LastOf(s.from) \in s.from .. s.to
<1>1. Len(document) \in Nat /\ Kept \subseteq 1 .. Len(document)
  BY DocumentIs DEF Kept
<1>2. PICK i \in Kept : s = [from |-> LastBegins[i],
                         to |-> Max({k \in Kept : LastBegins[k] = LastBegins[i]})]
  BY DEF Sections
<1>3. PICK f, T : f = LastBegins[i] /\ T = {k \in Kept : LastBegins[k] = f}
  OBVIOUS
<1>4. s.from = f /\ s.to = Max(T)
  BY <1>2, <1>3
<1>5. 1 .. Len(document) \subseteq 0 .. Len(document)
  BY <1>1
<1>6. T \subseteq 0 .. Len(document) /\ T # {}
  BY <1>1, <1>3, <1>5
<1>7. s.to \in T /\ \A k \in T : s.to >= k
  BY <1>1, <1>4, <1>6, MaxIs
<1>8. f \in 1 .. Len(document) /\ LastBegins[f] = f
  <2>1. i \in 1 .. Len(document)
    BY <1>1
  <2>2. f \in 1 .. i /\ \A j \in f .. i : LastBegins[j] = f
    BY <1>3, SectionBegins
  <2>3. f \in f .. i
    BY <2>1, <2>2
  <2>  QED
    BY <1>1, <2>1, <2>2, <2>3
<1>9. f \in Starts /\ ~Mergeable(LastBegins[f - 1], f)
  <2>1. f - 1 \in 0 .. Len(document) /\ f # f - 1 /\ f \notin 0 .. f - 1
    BY <1>1, <1>8
  <2>2. LastBegins[f - 1] # f
    BY <2>1, BeginsBefore
  <2>  QED
    BY <1>8, <2>2, LastBeginsIs
<1>10. PICK J, m : /\ J = {j \in Kept : j >= f /\ f .. j \subseteq Kept /\ (f + 1) .. j \cap Starts = {}}
                  /\ m = Max(J)
  OBVIOUS
<1>11. m = LastOf(f)
  BY <1>10 DEF LastOf
<1>12. m \in J
  <2>1. f \in J
    <3>1. f .. f = {f} /\ (f + 1) .. f = {} /\ f >= f
      BY <1>8
    <3>2. f \in Kept
      BY <1>9 DEF Starts
    <3>  QED
      BY <1>10, <3>1, <3>2
  <2>2. J \subseteq 0 .. Len(document)
    BY <1>1, <1>5, <1>10
  <2>  QED
    BY <1>1, <1>10, <2>1, <2>2, MaxIs
<1>13. m \in Kept /\ m \in f .. Len(document) /\ (f + 1) .. m \cap Starts = {}
  BY <1>1, <1>8, <1>10, <1>12
<1> DEFINE Bad == {k \in f .. m : LastBegins[k] # f}
<1>14. ASSUME Bad # {} PROVE FALSE
  <2>1. PICK k \in Bad : \A l \in Bad : k <= l
    <3>1. Bad \subseteq Nat
      BY <1>8
    <3>  QED
      BY <1>14, <3>1, Least
  <2>2. k \in f .. m /\ k # f
    BY <1>8, <2>1
  <2>3. k \in 1 .. Len(document) /\ k \in (f + 1) .. m /\ k - 1 \in f .. m /\ ~(k <= k - 1)
    BY <1>1, <1>8, <1>13, <2>2
  <2>4. k \notin Starts
    BY <1>13, <2>3
  <2>5. LastBegins[k] = LastBegins[k - 1]
    BY <2>3, <2>4, LastBeginsIs
  <2>6. LastBegins[k - 1] = f
    BY <2>1, <2>3
  <2>  QED
    BY <2>1, <2>5, <2>6
<1>15. m \in T
  <2>1. m \in f .. m
    BY <1>1, <1>8, <1>13
  <2>  QED
    BY <1>3, <1>13, <1>14, <2>1
<1>16. m \in f .. s.to
  <2>1. s.to >= m /\ s.to \in 1 .. Len(document)
    BY <1>1, <1>3, <1>7, <1>15
  <2>  QED
    BY <1>1, <1>8, <1>13, <2>1
<1>  QED
  BY <1>3, <1>4, <1>7, <1>9, <1>11, <1>16

\* Two sections that touch would be too long as one, as far as the second
\* one's first part.
LEMMA TooLong ==
  ASSUME LinesOK, NEW s \in Sections, NEW t \in Sections, s.to + 1 = t.from
  PROVE  \E m \in t.from .. t.to : TargetTokens < Upto[m] - Upto[s.from - 1]
<1>1. Len(document) \in Nat
  BY DocumentIs
<1>2. PICK f, i, m : f = s.from /\ i = t.from /\ m = LastOf(i)
  OBVIOUS
<1>3. /\ f \in 1 .. Len(document) /\ s.to \in f .. Len(document) /\ f .. s.to \subseteq Kept
      /\ i \in 1 .. Len(document) /\ t.to \in i .. Len(document)
  BY <1>2, SectionIs
<1>4. /\ i \in Starts /\ m \in i .. t.to /\ ~Mergeable(LastBegins[i - 1], i)
      /\ LastBegins[s.to] = f
  BY <1>2, SectionStarts
<1>5. i - 1 = s.to
  BY <1>1, <1>2, <1>3
<1>6. ~Mergeable(f, i)
  BY <1>4, <1>5
<1>7. f # 0 /\ i - 1 \in Kept
  <2>1. s.to \in f .. s.to /\ f # 0
    BY <1>1, <1>3
  <2>  QED
    BY <1>3, <1>5, <2>1
<1>8. PageAt(f) = PageAt(i)
  <2>1. f .. i = f .. s.to \union {i} /\ i \in f .. Len(document)
    BY <1>1, <1>3, <1>5
  <2>2. i \in Kept
    BY <1>4 DEF Starts
  <2>3. f .. i \subseteq Kept
    BY <1>3, <2>1, <2>2
  <2>  QED
    BY <1>3, <2>1, <2>3, SamePage
<1>9. ~(Tokens(f, m) <= TargetTokens)
  BY <1>2, <1>6, <1>7, <1>8 DEF Mergeable
<1>10. Tokens(f, m) \in Int /\ TargetTokens \in Int
  <2>1. f - 1 \in 0 .. Len(document) /\ m \in 0 .. Len(document)
    BY <1>1, <1>3, <1>4
  <2>2. PICK a, b : a = Upto[f - 1] /\ b = Upto[m]
    OBVIOUS
  <2>3. a \in Nat /\ b \in Nat
    BY <2>1, <2>2, UptoIs
  <2>4. Tokens(f, m) = b - a
    BY <2>2 DEF Tokens
  <2>  QED
    BY <2>3, <2>4, ChunkingAssumption DEF ConfigFits
<1>11. TargetTokens < Upto[m] - Upto[f - 1]
  <2>1. TargetTokens < Tokens(f, m)
    BY <1>9, <1>10
  <2>  QED
    BY <2>1 DEF Tokens
<1>12. m \in t.from .. t.to
  BY <1>2, <1>4
<1>13. TargetTokens < Upto[m] - Upto[s.from - 1]
  BY <1>2, <1>11
<1>  QED
  BY <1>12, <1>13

\* What touches a section without a token is longer than the target.
LEMMA ForCause == ASSUME LinesOK PROVE RefusedForCause
<1>1. Len(document) \in Nat
  BY DocumentIs
<1>2. ASSUME NEW s \in Sections, Length(s) = 0, NEW t \in Sections, t.to + 1 = s.from
      PROVE  Length(t) > TargetTokens
  <2>1. PICK m \in s.from .. s.to : TargetTokens < Upto[m] - Upto[t.from - 1]
    BY <1>2, TooLong
  <2>2. /\ s.from \in 1 .. Len(document) /\ s.to \in s.from .. Len(document)
        /\ t.from \in 1 .. Len(document) /\ t.to \in t.from .. Len(document)
    BY SectionIs
  <2>3. m \in 0 .. Len(document) /\ s.to \in m .. Len(document) /\ s.from - 1 = t.to
    BY <1>1, <1>2, <2>2
  <2>4. PICK a, b, c, d : a = Upto[t.from - 1] /\ b = Upto[t.to] /\ c = Upto[m] /\ d = Upto[s.to]
    OBVIOUS
  <2>5. /\ a \in Nat /\ b \in Nat /\ d = b /\ a + Length(t) = b /\ Length(t) \in Nat
        /\ c \in Nat /\ c <= d
    <3>1. b \in Nat /\ b + 0 = d
      BY <1>2, <2>3, <2>4, LengthIs
    <3>2. a \in Nat /\ a + Length(t) = b /\ Length(t) \in Nat
      BY <2>4, LengthIs
    <3>3. c \in Nat /\ c <= d
      BY <2>3, <2>4, UptoGrows
    <3>  QED
      BY <3>1, <3>2, <3>3
  <2>6. TargetTokens < c - a
    BY <2>1, <2>4
  <2>  QED
    BY <2>5, <2>6, ChunkingAssumption DEF ConfigFits
<1>3. ASSUME NEW s \in Sections, Length(s) = 0, NEW t \in Sections, s.to + 1 = t.from
      PROVE  Length(t) > TargetTokens
  <2>1. PICK m \in t.from .. t.to : TargetTokens < Upto[m] - Upto[s.from - 1]
    BY <1>3, TooLong
  <2>2. /\ s.from \in 1 .. Len(document) /\ s.to \in s.from .. Len(document)
        /\ t.from \in 1 .. Len(document) /\ t.to \in t.from .. Len(document)
    BY SectionIs
  <2>3. m \in 0 .. Len(document) /\ t.to \in m .. Len(document) /\ t.from - 1 = s.to
    BY <1>1, <1>3, <2>2
  <2>4. PICK a, b, c, d : a = Upto[s.from - 1] /\ b = Upto[s.to] /\ c = Upto[m] /\ d = Upto[t.to]
    OBVIOUS
  <2>5. /\ a \in Nat /\ b = a /\ a + Length(t) = d /\ Length(t) \in Nat
        /\ c \in Nat /\ d \in Nat /\ c <= d
    <3>1. a \in Nat /\ a + 0 = b
      BY <1>3, <2>4, LengthIs
    <3>2. b + Length(t) = d /\ Length(t) \in Nat
      BY <2>3, <2>4, LengthIs
    <3>3. c \in Nat /\ d \in Nat /\ c <= d
      BY <2>3, <2>4, UptoGrows
    <3>  QED
      BY <3>1, <3>2, <3>3
  <2>6. TargetTokens < c - a
    BY <2>1, <2>4
  <2>  QED
    BY <2>5, <2>6, ChunkingAssumption DEF ConfigFits
<1>4. ASSUME Chunks = {}, Kept # {}
      PROVE  \E s \in Sections :
               /\ Length(s) = 0
               /\ \A t \in Sections :
                    t.to + 1 = s.from \/ s.to + 1 = t.from => Length(t) > TargetTokens
  <2>1. PICK s \in Sections : Length(s) = 0
    BY <1>4, AllOrNone
  <2>  QED
    BY <1>2, <1>3, <2>1
<1>  QED
  BY <1>4 DEF RefusedForCause, Refused

\* The chunks of every document that grows line by line fit, overlap by no more
\* than configured, and together hold the kept lines, no chunk of two pages;
\* it has none only if nothing is kept, or some of it has no token and stands
\* alone (chunking.py: DeterministicDocumentChunker.chunk).
THEOREM ChunksAreWholeHolds == ChunkingSpec => []ChunksAreWhole
<1>1. LinesOK => ChunksAreWhole
  BY Fit, NoneLost, ForCause DEF ChunksAreWhole
<1>  QED
  BY <1>1, DocumentInvariant, PTL

==============================================================================
