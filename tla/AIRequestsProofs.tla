-------------------------- MODULE AIRequestsProofs --------------------------
(***************************************************************************)
(* Proofs about AIRequests, for any number of words, requests and reviews. *)
(***************************************************************************)
EXTENDS AIRequests, WordStoreProofs

\* A review under way has a request and a copy of its row.
LEMMA UnderReview ==
    ASSUME AITypeOK, NEW p \in Procs, review[p].pc # "idle"
    PROVE  /\ review[p] \in Review /\ review[p] # NoReview
           /\ review[p].req \in Requests /\ review[p].copy \in AIRow
           /\ review[p].copy.word \in Words /\ review[p].add \subseteq Children
BY DEF AITypeOK, NoReview, Review, AIRow

\* A row is not the absence of one.
LEMMA RowIsThere == NoRow \notin AIRow
BY DEF NoRow, AIRow

-----------------------------------------------------------------------------
(* The service works on words through the repository only: what it does to   *)
(* the store is what WordStore allows, so that all that is proved about the  *)
(* store holds beside AI requests as well.                                   *)

\* Every step of the service is, for the words, a step of WordStore or none.
LEMMA StoreStep == AITypeOK /\ [AINext]_vars => [Next]_wordVars
<1> SUFFICES ASSUME AITypeOK, [AINext]_vars PROVE [Next]_wordVars
  OBVIOUS
<1>1. CASE WordStep
  BY <1>1 DEF WordStep, Next, Continue
<1>2. ASSUME NEW r \in Requests, NEW w \in Words, NEW type, Trigger(r, w, type)
      PROVE  UNCHANGED wordVars
  BY <1>2 DEF Trigger
<1>3. ASSUME NEW r \in Requests, RunnerRead(r) \/ RunnerWrite(r) \/ RunnerLost(r)
      PROVE  UNCHANGED wordVars
  BY <1>3 DEF RunnerRead, RunnerWrite, RunnerLost
<1>4. ASSUME NEW r \in Requests, HandleApprove(r) \/ HandleReject(r)
      PROVE  UNCHANGED wordVars
  BY <1>4 DEF HandleApprove, HandleReject, ApproveAIRequest, RejectAIRequest, Decide
<1>5. ASSUME NEW p \in Procs, BeginMerge(p) PROVE Next
  BY <1>5, UnderReview DEF BeginMerge, Next
<1>6. ASSUME NEW p \in Procs, LoadWord(p) \/ AddOutput(p) \/ WriteWord(p) \/ EndMerge(p)
      PROVE  Next
  BY <1>6 DEF LoadWord, AddOutput, LoadExamples, WriteWord, EndMerge, Next, Continue
<1>7. ASSUME NEW p \in Procs, WriteReview(p) PROVE UNCHANGED wordVars
  BY <1>7 DEF WriteReview
<1>8. ASSUME NEW p \in Procs, AbortReview(p) PROVE [Next]_wordVars
  BY <1>8 DEF AbortReview, Next
<1>9. CASE UNCHANGED vars
  BY <1>9 DEF vars
<1> QED
  BY <1>1, <1>2, <1>3, <1>4, <1>5, <1>6, <1>7, <1>8, <1>9
  DEF AINext, TriggerForWord, QualityCheck

-----------------------------------------------------------------------------
(* Types. *)

\* AITypeOK is not inductive: that runLLM finds a row depends on the trigger
\* having stored one before it started the goroutine.
Stored == \A r \in Requests : runner[r].pc = "start" => ai[r] # NoRow

\* What a review that starts holds, and where it goes on.
LEMMA Decided ==
    ASSUME AITypeOK, NEW r \in Requests, HandleApprove(r) \/ HandleReject(r)
    PROVE  \E p \in Procs, decision \in {"approved", "rejected"}, pc \in {"merge", "write"} :
              /\ ai[r] # NoRow
              /\ Decide(p, r, pc, decision)
              /\ decision = "approved" /\ pc = "write" => ai[r].output = "none"
BY DEF HandleApprove, HandleReject, ApproveAIRequest, RejectAIRequest

\* Every step keeps everything well typed.
LEMMA AITypeStep == AITypeOK /\ Stored /\ [AINext]_vars => (AITypeOK /\ Stored)'
<1> SUFFICES ASSUME AITypeOK, Stored, [AINext]_vars PROVE (AITypeOK /\ Stored)'
  OBVIOUS
<1>0. TypeOK'
  BY StoreStep, TypeStep DEF AITypeOK
<1>a. ASSUME UNCHANGED aiVars PROVE (AITypeOK /\ Stored)'
  BY <1>0, <1>a DEF aiVars, AITypeOK, Stored
<1>1. ASSUME NEW r \in Requests, NEW w \in Words, NEW type \in Types, Trigger(r, w, type)
      PROVE  (AITypeOK /\ Stored)'
  <2>1. NewAIRequest(w, type) \in AIRow
    BY DEF NewAIRequest, AIRow, Output
  <2>2. [pc |-> "start"] \in Runner
    BY DEF Runner
  <2> QED
    BY <1>0, <1>1, <2>1, <2>2, RowIsThere DEF Trigger, CreateAIRequest, AITypeOK, Stored
<1>2. ASSUME NEW r \in Requests, RunnerRead(r) PROVE (AITypeOK /\ Stored)'
  <2>1. ai[r] \in AIRow
    BY <1>2 DEF RunnerRead, AITypeOK, Stored
  <2>2. [pc |-> "llm", copy |-> ai[r]] \in Runner
    BY <2>1 DEF Runner
  <2> QED
    BY <1>0, <1>2, <2>2 DEF RunnerRead, AITypeOK, Stored
<1>3. ASSUME NEW r \in Requests, RunnerWrite(r) PROVE (AITypeOK /\ Stored)'
  <2>1. runner[r].copy \in AIRow
    BY <1>3 DEF RunnerWrite, AITypeOK, Runner
  <2>2. Outcomes(runner[r].copy) \subseteq AIRow
    BY <2>1 DEF Outcomes, AIRow
  <2>3. [pc |-> "gone"] \in Runner
    BY DEF Runner
  <2> QED
    BY <1>0, <1>3, <2>2, <2>3, RowIsThere DEF RunnerWrite, UpdateAIRequest, AITypeOK, Stored
<1>4. ASSUME NEW r \in Requests, RunnerLost(r) PROVE (AITypeOK /\ Stored)'
  <2>1. [pc |-> "lost"] \in Runner
    BY DEF Runner
  <2> QED
    BY <1>0, <1>4, <2>1 DEF RunnerLost, AITypeOK, Stored
<1>5. ASSUME NEW r \in Requests, HandleApprove(r) \/ HandleReject(r)
      PROVE  (AITypeOK /\ Stored)'
  <2>1. PICK p \in Procs, decision \in {"approved", "rejected"}, pc \in {"merge", "write"} :
          ai[r] # NoRow /\ Decide(p, r, pc, decision)
    BY <1>5, Decided
  <2> DEFINE new == [pc |-> pc, req |-> r, copy |-> [ai[r] EXCEPT !.review = decision],
                     add |-> {}]
  <2>2. [ai[r] EXCEPT !.review = decision] \in AIRow
    BY <2>1 DEF AITypeOK, AIRow
  <2>3. new \in Review
    BY <2>2 DEF Review
  <2>4. review' = [review EXCEPT ![p] = new]
    BY <2>1 DEF Decide
  <2> HIDE DEF new
  <2> QED
    BY <1>0, <2>1, <2>3, <2>4 DEF Decide, AITypeOK, Stored
<1>6. ASSUME NEW p \in Procs, EndMerge(p) PROVE (AITypeOK /\ Stored)'
  <2>1. review[p] \in Review /\ review[p].req \in Requests
    BY <1>6, UnderReview DEF EndMerge
  <2>2. [review[p] EXCEPT !.pc = "write"] \in Review
    BY <2>1 DEF Review
  <2> QED
    BY <1>0, <1>6, <2>1, <2>2 DEF EndMerge, AITypeOK, Stored
<1>6a. ASSUME NEW p \in Procs, AddOutput(p) PROVE (AITypeOK /\ Stored)'
  <2>1. review[p] \in Review
    BY <1>6a, UnderReview DEF AddOutput
  <2>2. PICK add \in Suggestion :
          review' = [review EXCEPT ![p].add = add["definitions"] \cup add["examples"]]
    BY <1>6a DEF AddOutput
  <2>3. add["definitions"] \cup add["examples"] \in SUBSET Children
    BY DEF Suggestion, FreshContent, Fresh, Tables
  <2>4. [review[p] EXCEPT !.add = add["definitions"] \cup add["examples"]] \in Review
    BY <2>1, <2>3 DEF Review
  <2> QED
    BY <1>0, <1>6a, <2>2, <2>4 DEF AddOutput, AITypeOK, Stored
<1>6b. ASSUME NEW p \in Procs, WriteWord(p) PROVE (AITypeOK /\ Stored)'
  <2>1. review[p].req \in Requests
    BY <1>6b, UnderReview DEF WriteWord
  <2> QED
    BY <1>0, <1>6b, <2>1 DEF WriteWord, AITypeOK, Stored
<1>7. ASSUME NEW p \in Procs, WriteReview(p) PROVE (AITypeOK /\ Stored)'
  <2>1. review[p].req \in Requests /\ review[p].copy \in AIRow
    BY <1>7, UnderReview DEF WriteReview
  <2> QED
    BY <1>0, <1>7, <2>1, RowIsThere DEF WriteReview, UpdateAIRequest, AITypeOK, Stored
<1>8. ASSUME NEW p \in Procs, AbortReview(p) PROVE (AITypeOK /\ Stored)'
  BY <1>0, <1>8 DEF AbortReview, AITypeOK, Stored
<1>9. CASE UNCHANGED aiVars
  BY <1>9, <1>a
<1> QED
  BY <1>1, <1>2, <1>3, <1>4, <1>5, <1>6, <1>6a, <1>6b, <1>7, <1>8, <1>9
  DEF AINext, TriggerForWord, QualityCheck, WordStep, BeginMerge, LoadWord, vars, Types

\* The types, with the fact that makes them inductive.
LEMMA AITypesHold == AISpec => [](AITypeOK /\ Stored)
<1>1. AIInit => AITypeOK /\ Stored
  BY DEF AIInit, Init, AITypeOK, Stored, TypeOK, Row, Absent, Last, Runner
<1> QED
  BY <1>1, AITypeStep, PTL DEF AISpec

\* The words, the rows of ai_requests, the goroutines and the reviews are
\* always well typed: in particular runLLM never works on a row that is not there.
THEOREM AITypeCorrect == AISpec => []AITypeOK
BY AITypesHold, PTL

\* AI enrichment beside the admins' requests implements WordStore: for the
\* words, a review is a merge of WordStore or nothing at all.
THEOREM ImplementsWordStore == AISpec => Spec
<1>1. AIInit => Init
  BY DEF AIInit
<1> QED
  BY <1>1, AITypeCorrect, StoreStep, PTL DEF AISpec, Spec

\* So what is proved about the store holds while AI outputs are merged: the last
\* writer of a word loses nothing, and a deleted word is not written to again.
THEOREM StoreGuaranteesKept == AISpec => []LastWriterComplete /\ NoReplacementAfterDelete
BY ImplementsWordStore, LastWriterWins, DeletionFinal, PTL

-----------------------------------------------------------------------------
(* Reviews.  What keeps the whole-row writes of runLLM and of the reviews    *)
(* from undoing one another is the order of things: until runLLM has written *)
(* the row is pending, and so is every copy a review has taken of it.        *)

\* While the goroutine is at work nobody has seen an answer.
RunnerFirst ==
    \A r \in Requests : runner[r].pc \in {"start", "llm"} =>
        /\ ai[r].status = "pending"
        /\ \A p \in Procs : review[p] # NoReview /\ review[p].req = r =>
              review[p].copy.status = "pending"

\* A review is of a stored request, and decides.
ReviewsDecide ==
    \A p \in Procs : review[p] # NoReview =>
        ai[review[p].req] # NoRow /\ review[p].copy.review # "unreviewed"

\* A review that did not read a pending row will not write one.
ReadLate ==
    \A p \in Procs : review[p] # NoReview /\ review[p].req \notin early =>
        /\ ai[review[p].req].status # "pending"
        /\ review[p].copy.status # "pending"

\* runLLM carries no review, unless somebody reviewed the pending request.
RunnerUnreviewed ==
    \A r \in Requests \ early :
        /\ runner[r].pc = "start" => ai[r].review = "unreviewed"
        /\ runner[r].pc = "llm" => runner[r].copy.review = "unreviewed"

\* A merge that has added the suggestion has inserted it or still holds it.
Inserting ==
    \A p \in Procs :
        /\ review[p].pc = "merge" /\ AddsTo(review[p].copy) # {}
        /\ job[p] # Idle /\ job[p].pc \notin {"loadDefinitions", "loadExamples"}
        => \/ review[p].req \in merged
           \/ \E t \in Tables : review[p].add \cap job[p].put[t] # {}

\* An approval is written after the merge, if there is something to merge.
MergedFirst ==
    \A p \in Procs :
        /\ review[p].pc = "write" /\ review[p].copy.review = "approved"
        /\ AddsTo(review[p].copy) # {}
        => review[p].req \in merged

OrderInv ==
    /\ RunnerFirst /\ ReviewsDecide /\ ReadLate /\ RunnerUnreviewed
    /\ MergedFirst /\ ApprovedIsMerged

ReviewInv == OrderInv /\ Inserting

\* What the statements of an Update do to the children a request holds.
LEMMA SaveStep ==
    ASSUME TypeOK, NEW p \in Procs, Save(p)
    PROVE  /\ \A q \in Procs : q # p => job'[q] = job[q]
           /\ job[p] # Idle /\ job[p].pc \notin {"loadDefinitions", "loadExamples"}
           /\ \A t \in Tables : \A d \in job[p].put[t] :
                 d \in job'[p].put[t] \/ d \in child'[t][job[p].word]
<1>0. job[p].pc \in {"updateRow", "deleteDefinitions", "deleteExamples", "insert"}
  BY DEF Save, UpdateRow, DeleteDefinitions, DeleteExamples, Upsert
<1>1. job[p] \in Job /\ job[p] # Idle
  BY <1>0, AtWork DEF Idle
<1>2. ASSUME NEW pc, Step(p, pc)
      PROVE  /\ \A q \in Procs : q # p => job'[q] = job[q]
             /\ job'[p].put = job[p].put
  BY <1>1, <1>2 DEF Step, TypeOK, Job
<1>3. CASE UpdateRow(p) \/ DeleteDefinitions(p) \/ DeleteExamples(p)
  BY <1>1, <1>2, <1>3 DEF UpdateRow, DeleteDefinitions, DeleteExamples
<1>4. CASE Upsert(p)
  <2>1. PICK t \in Tables : \E d \in job[p].put[t] :
          /\ child' = [child EXCEPT ![t][job[p].word] = @ \cup {d}]
          /\ job' = [job EXCEPT ![p].put[t] = @ \ {d}]
    BY <1>4 DEF Upsert
  <2>1a. PICK d \in job[p].put[t] :
          /\ child' = [child EXCEPT ![t][job[p].word] = @ \cup {d}]
          /\ job' = [job EXCEPT ![p].put[t] = @ \ {d}]
    BY <2>1
  <2>2. job[p].word \in Words /\ job[p].put \in [Tables -> SUBSET Children]
    BY <1>1 DEF Job
  <2>3. /\ \A q \in Procs : q # p => job'[q] = job[q]
        /\ \A s \in Tables : job'[p].put[s] = IF s = t THEN job[p].put[s] \ {d}
                                               ELSE job[p].put[s]
    BY <1>1, <2>1a, <2>2 DEF TypeOK, Job
  <2>4. d \in child'[t][job[p].word]
    BY <2>1a, <2>2 DEF TypeOK
  <2> QED
    BY <1>1, <1>4, <2>3, <2>4 DEF Upsert
<1> QED
  BY <1>3, <1>4 DEF Save

\* What a merge adds is not lost on the way to the INSERT.
LEMMA InsertingStep == AITypeOK /\ Inserting /\ [AINext]_vars => Inserting'
<1> SUFFICES ASSUME AITypeOK, Inserting, [AINext]_vars PROVE Inserting'
  OBVIOUS
<1>0. TypeOK
  BY DEF AITypeOK
<1>a. NoReview.pc = "idle"
  BY DEF NoReview
<1>1. CASE UNCHANGED <<review, job, merged>>
  BY <1>1 DEF Inserting
<1>2. CASE WordStep
  <2>1. UNCHANGED <<review, merged>>
    BY <1>2 DEF WordStep, aiVars
  <2>2. CASE \E w \in Words : SoftDeleteWord(w)
    BY <1>1, <2>1, <2>2 DEF SoftDeleteWord
  <2>3. ASSUME NEW p \in Procs, review[p] = NoReview,
               Admin(p) \/ Save(p) \/ Answer(p) \/ Abort(p)
        PROVE  Inserting'
    <3>1. \A q \in Procs : q # p => job'[q] = job[q]
      BY <1>0, <2>3, SaveStep DEF Admin, CreateWord, UpdateWord, Answer, Abort, Leave, TypeOK
    <3> QED
      BY <1>a, <2>1, <2>3, <3>1 DEF Inserting
  <2> QED
    BY <1>2, <2>2, <2>3 DEF WordStep
<1>3. ASSUME NEW r \in Requests, HandleApprove(r) \/ HandleReject(r) PROVE Inserting'
  <2>1. PICK p \in Procs, decision \in {"approved", "rejected"}, pc \in {"merge", "write"} :
          Decide(p, r, pc, decision)
    BY <1>3, Decided
  <2>2. /\ \A q \in Procs : q # p => review'[q] = review[q]
        /\ job[p] = Idle /\ UNCHANGED <<job, merged>>
    BY <2>1 DEF Decide, wordVars, AITypeOK
  <2> QED
    BY <2>2 DEF Inserting
<1>4. ASSUME NEW p \in Procs, BeginMerge(p) PROVE Inserting'
  <2>1. /\ \A q \in Procs : q # p => job'[q] = job[q]
        /\ job'[p].pc = "loadDefinitions" /\ UNCHANGED <<review, merged>>
    BY <1>0, <1>4 DEF BeginMerge, MergeWord, aiVars, TypeOK
  <2> QED
    BY <2>1 DEF Inserting
<1>5. ASSUME NEW p \in Procs, LoadWord(p) PROVE Inserting'
  <2>1. job[p] \in Job
    BY <1>0, <1>5, AtWork DEF LoadWord, LoadDefinitions
  <2>2. /\ \A q \in Procs : q # p => job'[q] = job[q]
        /\ job'[p].pc = "loadExamples" /\ UNCHANGED <<review, merged>>
    BY <1>0, <1>5, <2>1 DEF LoadWord, LoadDefinitions, aiVars, TypeOK, Job
  <2> QED
    BY <2>2 DEF Inserting
<1>6. ASSUME NEW p \in Procs, AddOutput(p) PROVE Inserting'
  <2>1. PICK add \in Suggestion :
          /\ \A t \in Tables : add[t] # {} <=> t \in AddsTo(review[p].copy)
          /\ AddSuggestion(p, add)
          /\ review' = [review EXCEPT ![p].add = add["definitions"] \cup add["examples"]]
    BY <1>6 DEF AddOutput
  <2> DEFINE both == add["definitions"] \cup add["examples"]
  <2>2. review[p] \in Review
    BY <1>6, UnderReview DEF AddOutput
  <2>3. /\ \A q \in Procs : q # p => review'[q] = review[q]
        /\ review'[p].copy = review[p].copy /\ review'[p].add = both
    BY <2>1, <2>2 DEF AITypeOK, Review
  <2>4. job[p] \in Job
    BY <1>0, <2>1, AtWork DEF AddSuggestion
  <2>5. job[p].put \in [Tables -> SUBSET Children]
    BY <2>4 DEF Job
  <2>6. /\ \A q \in Procs : q # p => job'[q] = job[q]
        /\ job'[p].put["definitions"] = job[p].put["definitions"] \cup add["definitions"]
        /\ job'[p].put["examples"] = child["examples"][job[p].word] \cup add["examples"]
    BY <1>0, <2>1, <2>4, <2>5 DEF AddSuggestion, TypeOK, Job, Tables
  <2>7. \A t \in Tables : add[t] \subseteq both /\ add[t] \subseteq job'[p].put[t]
    BY <2>6 DEF Tables
  <2>8. AddsTo(review[p].copy) \subseteq Tables
    BY DEF AddsTo
  <2>9. AddsTo(review[p].copy) # {} => \E t \in Tables : both \cap job'[p].put[t] # {}
    BY <2>1, <2>7, <2>8
  <2> HIDE DEF both
  <2> QED
    BY <1>6, <2>3, <2>6, <2>9 DEF AddOutput, Inserting
<1>7. ASSUME NEW p \in Procs, WriteWord(p) PROVE Inserting'
  <2>1. Save(p) /\ UNCHANGED review /\ merged \subseteq merged'
    BY <1>7 DEF WriteWord
  <2>2. ASSUME NEW t \in Tables, review[p].add \cap child'[t][job[p].word] # {}
        PROVE  review[p].req \in merged'
    BY <1>7, <2>2 DEF WriteWord
  <2>3. /\ \A q \in Procs : q # p => job'[q] = job[q]
        /\ job[p] # Idle /\ job[p].pc \notin {"loadDefinitions", "loadExamples"}
        /\ \A t \in Tables : \A d \in job[p].put[t] :
              d \in job'[p].put[t] \/ d \in child'[t][job[p].word]
    BY <1>0, <2>1, SaveStep
  <2> QED
    BY <2>1, <2>2, <2>3 DEF Inserting
<1>8. ASSUME NEW p \in Procs, EndMerge(p) \/ AbortReview(p) PROVE Inserting'
  <2>1. review[p] # NoReview
    BY <1>8, <1>a DEF EndMerge, AbortReview
  <2>2. /\ \A q \in Procs : q # p => review'[q] = review[q] /\ job'[q] = job[q]
        /\ review'[p].pc # "merge" /\ UNCHANGED merged
    <3>1. CASE EndMerge(p)
      <4>1. review[p] \in Review
        BY <3>1, UnderReview DEF EndMerge
      <4> QED
        BY <1>0, <3>1, <4>1 DEF EndMerge, Answer, Leave, TypeOK, AITypeOK, Review
    <3>2. CASE AbortReview(p)
      BY <1>0, <1>a, <3>2 DEF AbortReview, Abort, Leave, TypeOK, AITypeOK, wordVars
    <3> QED
      BY <1>8, <3>1, <3>2
  <2> QED
    BY <2>2 DEF Inserting
<1>9. ASSUME NEW p \in Procs, WriteReview(p) PROVE Inserting'
  <2>1. /\ \A q \in Procs : q # p => review'[q] = review[q]
        /\ review'[p].pc # "merge" /\ UNCHANGED <<job, merged>>
    BY <1>9, <1>a DEF WriteReview, AITypeOK, wordVars
  <2> QED
    BY <2>1 DEF Inserting
<1>10. ASSUME NEW r \in Requests,
              \/ TriggerForWord(r) \/ QualityCheck(r)
              \/ RunnerRead(r) \/ RunnerWrite(r) \/ RunnerLost(r)
       PROVE  Inserting'
  BY <1>1, <1>10 DEF TriggerForWord, QualityCheck, Trigger, RunnerRead, RunnerWrite, RunnerLost,
     wordVars
<1>11. CASE UNCHANGED vars
  BY <1>1, <1>11 DEF vars, aiVars, wordVars
<1> QED
  BY <1>2, <1>3, <1>4, <1>5, <1>6, <1>7, <1>8, <1>9, <1>10, <1>11 DEF AINext

\* Every step keeps the order of things.
LEMMA OrderStep == AITypeOK /\ Stored /\ ReviewInv /\ [AINext]_vars => OrderInv'
<1> SUFFICES ASSUME AITypeOK, Stored, ReviewInv, [AINext]_vars PROVE OrderInv'
  OBVIOUS
<1> USE DEF RunnerFirst, ReviewsDecide, ReadLate, RunnerUnreviewed, MergedFirst,
            ApprovedIsMerged
<1>0. /\ RunnerFirst /\ ReviewsDecide /\ ReadLate /\ RunnerUnreviewed
      /\ MergedFirst /\ ApprovedIsMerged /\ Inserting
  BY DEF ReviewInv, OrderInv
<1>a. ASSUME UNCHANGED aiVars PROVE OrderInv'
  BY <1>0, <1>a DEF aiVars, OrderInv
<1>b. \A p \in Procs : review[p] # NoReview =>
         /\ review[p] \in Review /\ review[p].pc \in {"merge", "write"}
         /\ review[p].req \in Requests /\ review[p].copy \in AIRow
  BY DEF AITypeOK, Review
<1>c. NoReview.pc = "idle"
  BY DEF NoReview
<1>1. ASSUME NEW r \in Requests, NEW w \in Words, NEW type \in Types, Trigger(r, w, type)
      PROVE  OrderInv'
  <2> DEFINE new == NewAIRequest(w, type)
  <2>1. new.status = "pending" /\ new.review = "unreviewed"
    BY DEF NewAIRequest
  <2>2. ai[r] = NoRow /\ \A q \in Requests : ai'[q] = IF q = r THEN new ELSE ai[q]
    BY <1>1 DEF Trigger, CreateAIRequest, AITypeOK
  <2>3. /\ \A q \in Requests : runner'[q] = IF q = r THEN [pc |-> "start"] ELSE runner[q]
        /\ UNCHANGED <<review, merged, early>>
    BY <1>1 DEF Trigger, AITypeOK
  <2>4. \A p \in Procs : review[p] # NoReview => review[p].req # r
    BY <1>0, <2>2
  <2> HIDE DEF new
  <2>5. RunnerFirst'
    BY <1>0, <1>b, <2>1, <2>2, <2>3, <2>4
  <2>6. ReviewsDecide' /\ ReadLate'
    BY <1>0, <1>b, <2>2, <2>3, <2>4
  <2>7. RunnerUnreviewed' /\ MergedFirst' /\ ApprovedIsMerged'
    BY <1>0, <2>1, <2>2, <2>3
  <2> QED
    BY <2>5, <2>6, <2>7 DEF OrderInv
<1>2. ASSUME NEW r \in Requests, RunnerRead(r) PROVE OrderInv'
  <2>1. /\ runner[r].pc = "start" /\ UNCHANGED <<ai, review, merged, early>>
        /\ \A q \in Requests : runner'[q] = IF q = r THEN [pc |-> "llm", copy |-> ai[r]]
                                            ELSE runner[q]
    BY <1>2 DEF RunnerRead, AITypeOK
  <2> QED
    BY <1>0, <2>1 DEF OrderInv
<1>3. ASSUME NEW r \in Requests, RunnerWrite(r) PROVE OrderInv'
  <2>1. PICK new \in Outcomes(runner[r].copy) : ai' = [ai EXCEPT ![r] = new]
    BY <1>3 DEF RunnerWrite, UpdateAIRequest
  <2>2. runner[r].pc = "llm" /\ runner[r].copy \in AIRow
    BY <1>3 DEF RunnerWrite, AITypeOK, Runner
  <2>3. new \in AIRow /\ new.status # "pending" /\ new.review = runner[r].copy.review
    BY <2>2 DEF Outcomes, AIRow
  <2>4. \A q \in Requests : ai'[q] = IF q = r THEN new ELSE ai[q]
    BY <2>1 DEF AITypeOK
  <2>5. /\ \A q \in Requests : runner'[q] = IF q = r THEN [pc |-> "gone"] ELSE runner[q]
        /\ UNCHANGED <<review, merged, early>>
    BY <1>3 DEF RunnerWrite, AITypeOK
  <2>6. RunnerFirst' /\ ReadLate' /\ RunnerUnreviewed' /\ MergedFirst'
    BY <1>0, <1>b, <2>3, <2>4, <2>5
  <2>7. ReviewsDecide'
    BY <1>0, <1>b, <2>3, <2>4, <2>5, RowIsThere
  <2>8. ApprovedIsMerged'
    BY <1>0, <2>2, <2>3, <2>4, <2>5
  <2> QED
    BY <2>6, <2>7, <2>8 DEF OrderInv
<1>4. ASSUME NEW r \in Requests, RunnerLost(r) PROVE OrderInv'
  <2>1. /\ UNCHANGED <<ai, review, merged, early>>
        /\ \A q \in Requests : runner'[q] = IF q = r THEN [pc |-> "lost"] ELSE runner[q]
    BY <1>4 DEF RunnerLost, AITypeOK
  <2> QED
    BY <1>0, <2>1 DEF OrderInv
<1>5. ASSUME NEW r \in Requests, HandleApprove(r) \/ HandleReject(r) PROVE OrderInv'
  <2>1. PICK p \in Procs, decision \in {"approved", "rejected"}, pc \in {"merge", "write"} :
          /\ ai[r] # NoRow
          /\ Decide(p, r, pc, decision)
          /\ decision = "approved" /\ pc = "write" => ai[r].output = "none"
    BY <1>5, Decided
  <2> DEFINE copy == [ai[r] EXCEPT !.review = decision]
             new == [pc |-> pc, req |-> r, copy |-> copy, add |-> {}]
  <2>2. /\ copy.status = ai[r].status /\ copy.review = decision
        /\ copy.output = ai[r].output
    BY <2>1 DEF AITypeOK, AIRow
  <2>3. review' = [review EXCEPT ![p] = new]
    BY <2>1 DEF Decide
  <2> HIDE DEF copy
  <2>2a. decision = "approved" /\ pc = "write" => AddsTo(copy) = {}
    BY <2>1, <2>2 DEF AddsTo
  <2>4. new.pc = pc /\ new.req = r /\ new.copy = copy
    OBVIOUS
  <2> HIDE DEF new
  <2>5. \A q \in Procs : review'[q] = IF q = p THEN new ELSE review[q]
    BY <2>3 DEF AITypeOK
  <2>6. /\ UNCHANGED <<ai, runner, merged>> /\ early \subseteq early'
        /\ ai[r].status = "pending" => r \in early'
    BY <2>1 DEF Decide
  <2>7. RunnerFirst' /\ ReviewsDecide'
    BY <1>0, <2>1, <2>2, <2>4, <2>5, <2>6
  <2>8. ReadLate' /\ RunnerUnreviewed' /\ ApprovedIsMerged'
    BY <1>0, <2>2, <2>4, <2>5, <2>6
  <2>9. MergedFirst'
    BY <1>0, <2>2, <2>2a, <2>4, <2>5, <2>6
  <2> QED
    BY <2>7, <2>8, <2>9 DEF OrderInv
<1>6. ASSUME NEW p \in Procs, EndMerge(p) PROVE OrderInv'
  <2>1. review[p] \in Review /\ review[p] # NoReview
    BY <1>6, UnderReview DEF EndMerge
  <2> DEFINE new == [review[p] EXCEPT !.pc = "write"]
  <2>2. new.req = review[p].req /\ new.copy = review[p].copy
    BY <2>1 DEF Review
  <2>3. review' = [review EXCEPT ![p] = new]
    BY <1>6 DEF EndMerge
  <2> HIDE DEF new
  <2>4. \A q \in Procs : review'[q] = IF q = p THEN new ELSE review[q]
    BY <2>3 DEF AITypeOK
  <2>5. UNCHANGED <<ai, runner, merged, early>>
    BY <1>6 DEF EndMerge
  <2>6. job[p].pc = "insert" /\ \A t \in Tables : job[p].put[t] = {}
    BY <1>6 DEF EndMerge, Answer, AllInserted
  <2>6a. job[p] # Idle /\ review[p].pc = "merge"
    BY <1>6, <2>6 DEF Idle, EndMerge
  <2>7. AddsTo(review[p].copy) # {} => review[p].req \in merged
    BY <1>0, <2>6, <2>6a DEF Inserting
  <2>8. MergedFirst'
    BY <1>0, <2>2, <2>4, <2>5, <2>7
  <2> QED
    BY <1>0, <2>1, <2>2, <2>4, <2>5, <2>8 DEF OrderInv
<1>6a. ASSUME NEW p \in Procs, AddOutput(p) PROVE OrderInv'
  <2>1. review[p] \in Review /\ review[p] # NoReview
    BY <1>6a, UnderReview DEF AddOutput
  <2>2. PICK add : review' = [review EXCEPT ![p].add = add]
    BY <1>6a DEF AddOutput
  <2> DEFINE new == [review[p] EXCEPT !.add = add]
  <2>3. new.pc = review[p].pc /\ new.req = review[p].req /\ new.copy = review[p].copy
    BY <2>1 DEF Review
  <2> HIDE DEF new
  <2>4. \A q \in Procs : review'[q] = IF q = p THEN new ELSE review[q]
    BY <2>2 DEF AITypeOK, new
  <2>5. UNCHANGED <<ai, runner, merged, early>>
    BY <1>6a DEF AddOutput
  <2>6. RunnerFirst' /\ ReviewsDecide'
    BY <1>0, <2>1, <2>3, <2>4, <2>5
  <2>7. ReadLate' /\ RunnerUnreviewed'
    BY <1>0, <2>1, <2>3, <2>4, <2>5
  <2>8. MergedFirst' /\ ApprovedIsMerged'
    BY <1>0, <2>1, <2>3, <2>4, <2>5
  <2> QED
    BY <2>6, <2>7, <2>8 DEF OrderInv
<1>6b. ASSUME NEW p \in Procs, WriteWord(p) PROVE OrderInv'
  <2>1. merged \subseteq merged' /\ UNCHANGED <<ai, runner, review, early>>
    BY <1>6b DEF WriteWord
  <2> QED
    BY <1>0, <2>1 DEF OrderInv
<1>7. ASSUME NEW p \in Procs, WriteReview(p) PROVE OrderInv'
  <2>1. /\ review[p].pc = "write" /\ review[p] # NoReview
        /\ review[p].req \in Requests /\ review[p].copy \in AIRow
    BY <1>7, UnderReview DEF WriteReview
  <2>2. \A q \in Requests : ai'[q] = IF q = review[p].req THEN review[p].copy ELSE ai[q]
    BY <1>7 DEF WriteReview, UpdateAIRequest, AITypeOK
  <2>3. \A q \in Procs : review'[q] = IF q = p THEN NoReview ELSE review[q]
    BY <1>7 DEF WriteReview, AITypeOK
  <2>4. UNCHANGED <<runner, merged, early>>
    BY <1>7 DEF WriteReview
  <2>5. RunnerFirst' /\ ReadLate' /\ RunnerUnreviewed'
    BY <1>0, <1>b, <2>1, <2>2, <2>3, <2>4
  <2>6. ReviewsDecide'
    BY <1>0, <1>b, <2>1, <2>2, <2>3, RowIsThere
  <2>7. MergedFirst' /\ ApprovedIsMerged'
    BY <1>0, <1>c, <2>1, <2>2, <2>3, <2>4
  <2> QED
    BY <2>5, <2>6, <2>7 DEF OrderInv
<1>8. ASSUME NEW p \in Procs, AbortReview(p) PROVE OrderInv'
  <2>1. /\ \A q \in Procs : review'[q] = IF q = p THEN NoReview ELSE review[q]
        /\ UNCHANGED <<ai, runner, merged, early>>
    BY <1>8 DEF AbortReview, AITypeOK
  <2> QED
    BY <1>0, <1>c, <2>1 DEF OrderInv
<1>9. CASE UNCHANGED aiVars
  BY <1>9, <1>a
<1> QED
  BY <1>1, <1>2, <1>3, <1>4, <1>5, <1>6, <1>6a, <1>6b, <1>7, <1>8, <1>9
  DEF AINext, TriggerForWord, QualityCheck, WordStep, BeginMerge, LoadWord, vars, Types

\* The invariant holds from the beginning.
LEMMA ReviewInvHolds == AISpec => []ReviewInv
<1>1. AIInit => ReviewInv
  BY DEF AIInit, ReviewInv, RunnerFirst, ReviewsDecide, ReadLate, RunnerUnreviewed,
         MergedFirst, ApprovedIsMerged, NoReview, OrderInv, Inserting
<1>2. AITypeOK /\ Stored /\ ReviewInv /\ [AINext]_vars => ReviewInv'
  BY OrderStep, InsertingStep DEF ReviewInv
<1> QED
  BY <1>1, <1>2, AITypesHold, PTL DEF AISpec

\* When an output with a definition or an example stands as approved, that row
\* has been inserted into its word, unless somebody reviewed the request before
\* the model answered.
THEOREM ApprovalsAreMerged == AISpec => []ApprovedIsMerged
<1>1. ReviewInv => ApprovedIsMerged
  BY DEF ReviewInv, OrderInv
<1> QED
  BY <1>1, ReviewInvHolds, PTL

\* Once the row shows the model's answer or failure no write takes a review of
\* it back.
THEOREM ReviewsStick == AISpec => ReviewSticks
<1> DEFINE Sticks == \A r \in Requests :
             ai[r].status \in {"completed", "failed"} /\ ai[r].review # "unreviewed"
                 => ai'[r].review # "unreviewed"
<1>1. AITypeOK /\ ReviewInv /\ [AINext]_vars => [Sticks]_vars
  <2> SUFFICES ASSUME AITypeOK, ReviewInv, AINext, NEW r \in Requests,
                      ai[r].status \in {"completed", "failed"}, ai[r].review # "unreviewed",
                      ai'[r] # ai[r]
               PROVE  ai'[r].review # "unreviewed"
    OBVIOUS
  <2>1. ai[r] # NoRow
    BY DEF NoRow
  <2>2. ASSUME NEW q \in Requests, NEW w \in Words, NEW type, Trigger(q, w, type)
        PROVE  FALSE
    BY <2>1, <2>2 DEF Trigger, CreateAIRequest, AITypeOK
  <2>3. ASSUME NEW q \in Requests, RunnerWrite(q) PROVE FALSE
    <3>1. q = r
      BY <2>3 DEF RunnerWrite, UpdateAIRequest, AITypeOK
    <3> QED
      BY <2>3, <3>1 DEF RunnerWrite, ReviewInv, OrderInv, RunnerFirst
  <2>4. ASSUME NEW p \in Procs, WriteReview(p) PROVE ai'[r].review # "unreviewed"
    <3>1. review[p] # NoReview
      BY <2>4, UnderReview DEF WriteReview
    <3>2. review[p].req = r /\ ai'[r] = review[p].copy
      BY <2>4 DEF WriteReview, UpdateAIRequest, AITypeOK
    <3> QED
      BY <3>1, <3>2 DEF ReviewInv, OrderInv, ReviewsDecide
  <2> QED
    BY <2>2, <2>3, <2>4 DEF AINext, TriggerForWord, QualityCheck, WordStep, aiVars,
       RunnerRead, RunnerLost, HandleApprove, HandleReject, ApproveAIRequest,
       RejectAIRequest, Decide, BeginMerge, LoadWord, AddOutput, WriteWord, EndMerge, AbortReview
<1> QED
  BY <1>1, AITypeCorrect, ReviewInvHolds, PTL DEF AISpec, ReviewSticks
=============================================================================
