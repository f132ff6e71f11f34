----------------------------- MODULE AIRequests -----------------------------
(***************************************************************************)
(* AI enrichment: EnrichmentService on top of WordStore.  A trigger stores *)
(* a pending row in ai_requests and starts a goroutine, runLLM, that reads *)
(* the row, calls the model and writes the whole row back.  Meanwhile      *)
(* admins approve and reject the request: each reads the row, for an       *)
(* approval merges the output into the word, statement by statement, and   *)
(* writes the whole row back.  No write looks at what the row holds now.   *)
(* The merge rewrites the word whatever the output says; a related word is *)
(* added to the copy in memory, and the repository does not store it.      *)
(***************************************************************************)
EXTENDS WordStore

CONSTANT Requests   \* UUIDs of AI requests

VARIABLES ai,      \* ai[r]: the row of ai_requests
          runner,  \* runner[r]: the goroutine runLLM of r, with its copy
          review,  \* review[p]: what the request goroutine p reviews
          merged,  \* the requests whose suggestion has been inserted (history)
          early    \* the requests a review read while pending (history)

aiVars == <<ai, runner, review, merged, early>>
vars == <<wordVars, aiVars>>

\* A quality check concerns a contribution, the others a word.
WordTypes == {"enrich_definition", "suggest_example", "suggest_related"}
Types == WordTypes \cup {"quality_check"}

\* parsed_output: NULL, JSON without the field the merge looks for, or with it.
Output == {"none", "blank", "given"}

NoRow == [status |-> "none"]
AIRow == [type : Types, word : Words, output : Output,
          status : {"pending", "completed", "failed"},
          review : {"unreviewed", "approved", "rejected"}]

Runner == [pc : {"none", "start", "gone", "lost"}] \cup [pc : {"llm"}, copy : AIRow]

NoReview == [pc |-> "idle"]

\* add: the definition or the example that the merge added to the word.
Review == [pc : {"merge", "write"}, req : Requests, copy : AIRow, add : SUBSET Children]

AIInit ==
    /\ Init
    /\ ai = [r \in Requests |-> NoRow]
    /\ runner = [r \in Requests |-> [pc |-> "none"]]
    /\ review = [p \in Procs |-> NoReview]
    /\ merged = {}
    /\ early = {}

-----------------------------------------------------------------------------
(* Triggering and running. *)

NewAIRequest(w, aiType) ==
    [type |-> aiType, word |-> w, output |-> "none",
     status |-> "pending", review |-> "unreviewed"]

\* INSERT INTO ai_requests, and the UPDATE that writes what a copy holds.
CreateAIRequest(r, new) == ai[r] = NoRow /\ ai' = [ai EXCEPT ![r] = new]
UpdateAIRequest(r, new) == ai' = [ai EXCEPT ![r] = new]

TriggerUnstored(r, w, type) ==   \* mutant: Create's error is not looked at
    /\ ai[r] = NoRow /\ runner[r].pc = "none"
    /\ type \in WordTypes => Live(w)
    /\ runner' = [runner EXCEPT ![r] = [pc |-> "start"]]
    /\ UNCHANGED <<wordVars, ai, review, merged, early>>

\* POST /admin/ai/{enrich,example,related}/:word_id and /check/:contribution_id:
\* the word must exist; the row is stored and the goroutine started.
Trigger(r, w, type) ==
    /\ type \in WordTypes => Live(w)
    /\ CreateAIRequest(r, NewAIRequest(w, type))
    /\ runner' = [runner EXCEPT ![r] = [pc |-> "start"]]
    /\ UNCHANGED <<wordVars, review, merged, early>>

\* runLLM loads a copy of its own.
RunnerRead(r) ==
    /\ runner[r].pc = "start"
    /\ runner' = [runner EXCEPT ![r] = [pc |-> "llm", copy |-> ai[r]]]
    /\ UNCHANGED <<wordVars, ai, review, merged, early>>

\* MarkFailed, and MarkCompleted with an answer that is JSON, with the field or
\* without it, or is not; the latter leaves a row that is not pending as it is.
Outcomes(copy) ==
    {[copy EXCEPT !.status = "failed"]} \cup
    IF copy.status = "pending"
    THEN {[copy EXCEPT !.status = "completed", !.output = o] : o \in Output}
    ELSE {copy}

RunnerWriteRetry(r) ==           \* mutant: the UPDATE is sent again
    /\ runner[r].pc = "llm"
    /\ \E new \in Outcomes(runner[r].copy) : UpdateAIRequest(r, new)
    /\ \/ runner' = [runner EXCEPT ![r] = [pc |-> "gone"]]
       \/ UNCHANGED runner
    /\ UNCHANGED <<wordVars, review, merged, early>>

RunnerWriteSuccess(r) ==         \* mutant: a failed call is not recorded
    /\ runner[r].pc = "llm"
    /\ \E new \in Outcomes(runner[r].copy) :
          ai' = IF new.status = "failed" THEN ai ELSE [ai EXCEPT ![r] = new]
    /\ runner' = [runner EXCEPT ![r] = [pc |-> "gone"]]
    /\ UNCHANGED <<wordVars, review, merged, early>>

\* The model answers or fails, and the whole row is written back.
RunnerWrite(r) ==
    /\ runner[r].pc = "llm"
    /\ \E new \in Outcomes(runner[r].copy) : UpdateAIRequest(r, new)
    /\ runner' = [runner EXCEPT ![r] = [pc |-> "gone"]]
    /\ UNCHANGED <<wordVars, review, merged, early>>

\* The goroutine's SELECT or UPDATE fails, which it ignores, or the process
\* stops: nothing takes the request up again.
RunnerLost(r) ==
    /\ runner[r].pc \in {"start", "llm"}
    /\ runner' = [runner EXCEPT ![r] = [pc |-> "lost"]]
    /\ UNCHANGED <<wordVars, ai, review, merged, early>>

-----------------------------------------------------------------------------
(* Reviewing. *)

\* AIRequest.Approve and AIRequest.Reject.
MayApprove(req) == req.type # "quality_check" /\ req.review # "approved"
MayReject(req) == req.review # "rejected"

Decide(p, r, pc, decision) ==
    /\ review[p] = NoReview /\ job[p] = Idle
    /\ review' = [review EXCEPT ![p] =
          [pc |-> pc, req |-> r, copy |-> [ai[r] EXCEPT !.review = decision],
           add |-> {}]]
    /\ early' = early \cup (IF ai[r].status = "pending" THEN {r} ELSE {})
    /\ UNCHANGED <<wordVars, ai, runner, merged>>

ApproveUnmerged(p, r) ==         \* mutant: the row is written, nothing merged
    /\ ai[r] # NoRow /\ MayApprove(ai[r])
    /\ Decide(p, r, "write", "approved")

\* PATCH /admin/ai/requests/:id/approve.  There is something to merge only
\* when the copy that was read has an output.
ApproveAIRequest(p, r) ==
    /\ ai[r] # NoRow /\ MayApprove(ai[r])
    /\ Decide(p, r, IF ai[r].output = "none" THEN "write" ELSE "merge", "approved")

\* PATCH /admin/ai/requests/:id/reject.
RejectAIRequest(p, r) ==
    /\ ai[r] # NoRow /\ MayReject(ai[r])
    /\ Decide(p, r, "write", "rejected")

\* mergeAIOutput begins: FindByID of the target word.
BeginMerge(p) ==
    /\ review[p].pc = "merge" /\ job[p] = Idle
    /\ MergeWord(p, review[p].copy.word)
    /\ UNCHANGED aiVars

\* FindByID goes on to the word's definitions.
LoadWord(p) ==
    /\ review[p].pc = "merge"
    /\ LoadDefinitions(p)
    /\ UNCHANGED aiVars

\* The table that gets a row of the output, if any: none for a related word,
\* which TASKS.md 6.3.3 has the approval add and Update does not store.
AddsTo(copy) ==
    {t \in Tables : /\ copy.output = "given"
                    /\ <<copy.type, t>> \in {<<"enrich_definition", "definitions">>,
                                             <<"suggest_example", "examples">>}}

\* The examples are read and the output added to the copy of the word.
AddOutput(p) ==
    /\ review[p].pc = "merge"
    /\ \E add \in Suggestion :
          /\ \A t \in Tables : add[t] # {} <=> t \in AddsTo(review[p].copy)
          /\ AddSuggestion(p, add)
          /\ review' = [review EXCEPT ![p].add = add["definitions"] \cup add["examples"]]
    /\ UNCHANGED <<ai, runner, merged, early>>

\* A statement of the repository's Update; merged records the INSERT of what
\* the merge added.
WriteWord(p) ==
    /\ review[p].pc = "merge"
    /\ Save(p)
    /\ merged' = merged \cup
          {r \in {review[p].req} :
             \E t \in Tables : review[p].add \cap child'[t][job[p].word] # {}}
    /\ UNCHANGED <<ai, runner, review, early>>

\* Update has returned without an error.
EndMerge(p) ==
    /\ review[p].pc = "merge"
    /\ Answer(p)
    /\ review' = [review EXCEPT ![p].pc = "write"]
    /\ UNCHANGED <<ai, runner, merged, early>>

\* The whole row is written.  The audit log that follows is not modelled: its
\* error is ignored and nothing reads it.
WriteReview(p) ==
    /\ review[p].pc = "write"
    /\ UpdateAIRequest(review[p].req, review[p].copy)
    /\ review' = [review EXCEPT ![p] = NoReview]
    /\ UNCHANGED <<wordVars, runner, merged, early>>

\* The word is gone, a statement fails or the process stops.
AbortReview(p) ==
    /\ review[p] # NoReview
    /\ review' = [review EXCEPT ![p] = NoReview]
    /\ IF job[p] = Idle THEN UNCHANGED wordVars ELSE Abort(p)
    /\ UNCHANGED <<ai, runner, merged, early>>

-----------------------------------------------------------------------------
(* The dictionary's own requests go on as in WordStore. *)

WordStep ==
    /\ \/ \E p \in Procs :
            review[p] = NoReview /\ (Admin(p) \/ Save(p) \/ Answer(p) \/ Abort(p))
       \/ \E w \in Words : SoftDeleteWord(w)
    /\ UNCHANGED aiVars

\* The handlers, for any id that parses.
TriggerForWord(r) == \E w \in Words, type \in WordTypes : Trigger(r, w, type)
QualityCheck(r) == \E w \in Words : Trigger(r, w, "quality_check")
HandleApprove(r) == \E p \in Procs : ApproveAIRequest(p, r)
HandleReject(r) == \E p \in Procs : RejectAIRequest(p, r)

AINext ==
    \/ WordStep
    \/ \E r \in Requests :
         \/ TriggerForWord(r) \/ QualityCheck(r)
         \/ RunnerRead(r) \/ RunnerWrite(r) \/ RunnerLost(r)
         \/ HandleApprove(r) \/ HandleReject(r)
    \/ \E p \in Procs :
         \/ BeginMerge(p) \/ LoadWord(p) \/ AddOutput(p) \/ WriteWord(p) \/ EndMerge(p)
         \/ WriteReview(p) \/ AbortReview(p)

AISpec == AIInit /\ [][AINext]_vars

\* A goroutine is scheduled until it ends, and the model's client gives up
\* after thirty seconds.
FairAISpec ==
    AISpec /\ \A r \in Requests : WF_vars(RunnerRead(r) \/ RunnerWrite(r))

-----------------------------------------------------------------------------
(* Properties. *)

\* Type correctness of ai_requests, the goroutines and the reviews.
AITypeOK ==
    /\ TypeOK
    /\ ai \in [Requests -> {NoRow} \cup AIRow]
    /\ runner \in [Requests -> Runner]
    /\ review \in [Procs -> {NoReview} \cup Review]
    /\ merged \subseteq Requests
    /\ early \subseteq Requests

\* Once the row shows the model's answer or failure, a review is never undone:
\* it does not fall back to unreviewed, whichever stale copies are written.
ReviewSticks ==
    [][\A r \in Requests :
         ai[r].status \in {"completed", "failed"} /\ ai[r].review # "unreviewed"
             => ai'[r].review # "unreviewed"]_vars

\* "On success: word updated with source: ai_generated content" (TASKS.md
\* 6.3.3): when an output with a definition or an example stands as approved,
\* the row it suggests has been inserted, whatever other reviews, updates and
\* deletions came between, unless somebody reviewed the request before the
\* model answered.
ApprovedIsMerged ==
    \A r \in Requests \ early :
        /\ ai[r] # NoRow /\ ai[r].review = "approved"
        /\ AddsTo(ai[r]) # {}
        => r \in merged

\* A request leaves pending, as completed or as failed, unless its goroutine
\* is lost or somebody reviewed it before the model answered.
RequestsSettle ==
    \A r \in Requests :
        ai[r].status = "pending" ~>
            ai[r].status # "pending" \/ runner[r].pc = "lost" \/ r \in early

\* "Cannot approve an already-approved or rejected AIRequest": a write that
\* approves a request finds it unreviewed.
ApprovesOnlyUnreviewed ==
    [][\A p \in Procs : WriteReview(p) /\ review[p].copy.review = "approved"
          => ai[review[p].req].review = "unreviewed"]_vars
=============================================================================
