--------------------------- MODULE Contributions ---------------------------
(***************************************************************************)
(* The contribution workflow of internal/community: submit, withdraw,      *)
(* approve and reject.                                                     *)
(*                                                                         *)
(* Every HTTP request runs in a goroutine of its own and talks to          *)
(* PostgreSQL one autocommitted statement at a time: no transaction and no *)
(* lock spans the SELECT a decision is based on and the UPDATE that writes *)
(* it, and the UPDATE is keyed by the id alone.  A request is therefore a  *)
(* process with one atomic step per statement; what it read it keeps in    *)
(* memory (the Go *Contribution) until it writes it back.                  *)
(*                                                                         *)
(* A request that is refused (403, 404, 409, 422) changes nothing and      *)
(* leaves its process idle, so a refusal is a guard and not an action.     *)
(***************************************************************************)
EXTENDS Naturals, FiniteSets

CONSTANTS Users,      \* user ids; every one of them is registered
          Admins,     \* the users whose access token carries the role admin
          Ids,        \* the UUIDs available to new contributions
          EditTypes,  \* the contribution types that need a target word
          Words,      \* ids of dictionary words, existing or not
          Requests,   \* the request goroutines
          NoUser,     \* a NULL user id
          NoWord      \* a NULL word id

ASSUME ContributionAssumption ==
    /\ Admins \subseteq Users
    /\ "new_word" \notin EditTypes
    /\ NoUser \notin Users
    /\ NoWord \notin Words

VARIABLES contributions,  \* the table, one row per id ("absent": no row)
          words,          \* words[w]: "absent", "live" or soft-"deleted"
          verified,       \* users with a non-NULL email_verified_at
          req             \* what each request goroutine holds

vars == <<contributions, words, verified, req>>

-----------------------------------------------------------------------------
(* State. *)

\* In the code EditTypes is {"new_definition", "new_example", "edit_word"}: the
\* workflow treats the three alike.
ContributionType == {"new_word"} \cup EditTypes
Terminal == {"approved", "rejected", "withdrawn"}
ContributionStatus == {"pending"} \cup Terminal

\* reviewer stands for reviewer_id and reviewed_at, which are always set
\* together; note tells whether reviewer_note is non-NULL.
Row == [status : ContributionStatus \cup {"absent"},
        type : ContributionType,
        contributor : Users \cup {NoUser},
        target : Words \cup {NoWord},
        reviewer : Users \cup {NoUser},
        note : BOOLEAN]

AbsentRow == [status |-> "absent", type |-> "new_word", contributor |-> NoUser,
              target |-> NoWord, reviewer |-> NoUser, note |-> FALSE]

Idle == [pc |-> "idle"]
Submission == [pc : {"checkTarget", "create"}, caller : Users,
               type : ContributionType, target : Words \cup {NoWord}]
Decision == [pc : {"update"}, id : Ids, row : Row]

Init ==
    /\ contributions = [c \in Ids |-> AbsentRow]
    /\ words \in [Words -> {"absent", "live"}]
    /\ verified = {}
    /\ req = [r \in Requests |-> Idle]

-----------------------------------------------------------------------------
(* The entity: domain/contribution.go.  Each transition has a guard and a  *)
(* result; the result lives in the memory of the request.                  *)

NewContribution(u, t, w) ==
    [status |-> "pending", type |-> t, contributor |-> u, target |-> w,
     reviewer |-> NoUser, note |-> FALSE]

TargetNotRequired(t, w) == TRUE   \* mutant: the target check is forgotten
TargetGiven(t, w) == t = "new_word" \/ w # NoWord

MayApproveTwice(row) ==           \* mutant: a decided row can be approved
    row.status \in {"pending", "approved"}
MayApprove(row) == row.status = "pending"
Approve(row, u, n) ==
    [row EXCEPT !.status = "approved", !.reviewer = u, !.note = @ \/ n]

MayRejectAlways(row) == TRUE      \* mutant: the status is not looked at
MayReject(row) == row.status = "pending"
Reject(row, u) ==
    [row EXCEPT !.status = "rejected", !.reviewer = u, !.note = TRUE]

MayWithdraw(row, u) == row.contributor = u /\ row.status = "pending"
WithdrawCancels(row) ==           \* mutant: a status outside the enum
    [row EXCEPT !.status = "cancelled"]
Withdraw(row) == [row EXCEPT !.status = "withdrawn"]

-----------------------------------------------------------------------------
(* The repository: one SQL statement each.                                 *)

FindByID(c) == contributions[c]
Found(c) == contributions[c].status # "absent"

\* INSERT; target_word_id REFERENCES words(id), and a soft-deleted word is
\* still a row.
ForeignKeyHolds(w) ==
    w \in {NoWord} \cup {v \in Words : words[v] # "absent"}
Create(c, row) ==
    contributions' = [contributions EXCEPT ![c] = row]

UpdateStatusOnly(c, row) ==       \* mutant: the review columns are left out
    contributions' = [contributions EXCEPT ![c].status = row.status]

\* UPDATE ... SET status, reviewer_id, reviewer_note, reviewed_at WHERE id.
Update(c, row) ==
    contributions' = [contributions EXCEPT
        ![c].status = row.status,
        ![c].reviewer = row.reviewer,
        ![c].note = row.note]

WordExists(w) == words[w] = "live"
IsEmailVerified(u) == u \in verified

-----------------------------------------------------------------------------
(* Submission: three statements, each in a step of its own.                *)

\* POST /contributions up to the first SELECT (is the e-mail verified?).  The
\* entity's own check of the target needs no statement and is made here.
SubmitContribution(r, u, t, w) ==
    /\ req[r] = Idle
    /\ IsEmailVerified(u)
    /\ TargetGiven(t, w)
    /\ req' = [req EXCEPT ![r] =
                 [pc |-> IF t # "new_word" /\ w # NoWord
                         THEN "checkTarget" ELSE "create",
                  caller |-> u, type |-> t, target |-> w]]
    /\ UNCHANGED <<contributions, words, verified>>

\* The second SELECT: the target must be a word that is not deleted.
CheckTarget(r) ==
    /\ req[r].pc = "checkTarget"
    /\ req' = [req EXCEPT ![r] = IF WordExists(req[r].target)
                                 THEN [@ EXCEPT !.pc = "create"] ELSE Idle]
    /\ UNCHANGED <<contributions, words, verified>>

\* NewContribution and the INSERT; the row gets a fresh UUID.
InsertContribution(r) ==
    /\ req[r].pc = "create"
    /\ ForeignKeyHolds(req[r].target)
    /\ \E c \in Ids :
          /\ ~Found(c)
          /\ Create(c, NewContribution(req[r].caller, req[r].type, req[r].target))
    /\ req' = [req EXCEPT ![r] = Idle]
    /\ UNCHANGED <<words, verified>>

-----------------------------------------------------------------------------
(* Decisions: a SELECT with the entity's transition, then the UPDATE.      *)

Hold(r, c, row) ==
    /\ req' = [req EXCEPT ![r] = [pc |-> "update", id |-> c, row |-> row]]
    /\ UNCHANGED <<contributions, words, verified>>

\* PATCH /contributions/:id/withdraw.
WithdrawContribution(r, u, c) ==
    /\ req[r] = Idle
    /\ Found(c)
    /\ MayWithdraw(FindByID(c), u)
    /\ Hold(r, c, Withdraw(FindByID(c)))

\* PATCH /contributions/:id/approve; the note is optional.
ApproveContribution(r, u, c, n) ==
    /\ req[r] = Idle
    /\ u \in Admins
    /\ Found(c)
    /\ MayApprove(FindByID(c))
    /\ Hold(r, c, Approve(FindByID(c), u, n))

\* PATCH /contributions/:id/reject; a blank note is refused beforehand.
RejectContribution(r, u, c) ==
    /\ req[r] = Idle
    /\ u \in Admins
    /\ Found(c)
    /\ MayReject(FindByID(c))
    /\ Hold(r, c, Reject(FindByID(c), u))

WriteDecision(r) ==
    /\ req[r].pc = "update"
    /\ Update(req[r].id, req[r].row)
    /\ req' = [req EXCEPT ![r] = Idle]
    /\ UNCHANGED <<words, verified>>

\* The next statement fails, or the process stops: the request ends with a
\* 500 (or no answer) and whatever it held in memory is gone.
Abort(r) ==
    /\ req[r] # Idle
    /\ req' = [req EXCEPT ![r] = Idle]
    /\ UNCHANGED <<contributions, words, verified>>

-----------------------------------------------------------------------------
(* What the other components do to the tables this one reads.              *)

\* internal/dictionary creates words and soft-deletes them, once and for all.
CreateWord(w) ==
    /\ words[w] = "absent"
    /\ words' = [words EXCEPT ![w] = "live"]
    /\ UNCHANGED <<contributions, verified, req>>

SoftDeleteWord(w) ==
    /\ words[w] = "live"
    /\ words' = [words EXCEPT ![w] = "deleted"]
    /\ UNCHANGED <<contributions, verified, req>>

\* internal/identity writes email_verified_at with every full-row UPDATE of a
\* user; a stale one can take a verification back.
WriteVerified(u) ==
    /\ verified' \in {verified \cup {u}, verified \ {u}}
    /\ UNCHANGED <<contributions, words, req>>

Environment ==
    \/ \E w \in Words : CreateWord(w) \/ SoftDeleteWord(w)
    \/ \E u \in Users : WriteVerified(u)

\* The steps of a request that is under way.
Continue(r) == CheckTarget(r) \/ InsertContribution(r) \/ WriteDecision(r)

Start(r) ==
    \E u \in Users :
       \/ \E t \in ContributionType, w \in Words \cup {NoWord} :
             SubmitContribution(r, u, t, w)
       \/ \E c \in Ids :
             \/ WithdrawContribution(r, u, c)
             \/ \E n \in BOOLEAN : ApproveContribution(r, u, c, n)
             \/ RejectContribution(r, u, c)

Next ==
    \/ \E r \in Requests : Start(r) \/ Continue(r) \/ Abort(r)
    \/ Environment

Spec == Init /\ [][Next]_vars

\* Go schedules every goroutine and every statement ends, with a result or an
\* error: a request under way does not stay where it is for ever.
Fairness == \A r \in Requests : WF_vars(Continue(r) \/ Abort(r))

FairSpec == Spec /\ Fairness

-----------------------------------------------------------------------------
(* Properties. *)

\* Type correctness of the tables and of what the requests hold.
TypeOK ==
    /\ contributions \in [Ids -> Row]
    /\ words \in [Words -> {"absent", "live", "deleted"}]
    /\ verified \subseteq Users
    /\ req \in [Requests -> {Idle} \cup Submission \cup Decision]

\* A row, stored or about to be written, says who reviewed it exactly when it
\* is approved or rejected, and a rejection carries its reason.
ReviewComplete(row) ==
    /\ (row.reviewer # NoUser) <=> (row.status \in {"approved", "rejected"})
    /\ row.status = "rejected" => row.note
    /\ row.note => row.status \in {"approved", "rejected"}

\* However decisions race, the review columns of every row agree with its
\* status: a stale UPDATE replaces one complete decision by another and never
\* leaves the reviewer or the note of one next to the status of the other.
ReviewMatchesStatus ==
    /\ \A c \in Ids : ReviewComplete(contributions[c])
    /\ \A r \in Requests :
          req[r].pc = "update" => ReviewComplete(req[r].row)

\* Every stored contribution that is not a new word refers to a word that is
\* a row of the dictionary, although the word may have been soft-deleted
\* between the existence check and the INSERT.
TargetRowExists ==
    \A c \in Ids : LET row == contributions[c] IN
        row.status # "absent" /\ row.type # "new_word"
            => row.target # NoWord /\ words[row.target] # "absent"

\* The requests about to write a decision on c.
Deciders(c) == {r \in Requests : req[r].pc = "update" /\ req[r].id = c}

Lifecycle == INSTANCE ContributionLifecycle
                WITH status <- [c \in Ids |-> contributions[c].status],
                     contenders <- [c \in Ids |-> Deciders(c)]

\* The workflow implements ContributionLifecycle: an id is used once, a
\* contribution never returns to the queue, and the unguarded UPDATE can
\* overrule a decision only from a request that read the row as pending.
ImplementsLifecycle == Lifecycle!Spec

\* Every decision settles: once a contribution is decided, the requests that
\* could still overrule the decision run out, and from then on it is final.
DecisionsSettle ==
    \A c \in Ids : (contributions[c].status \in Terminal)
                     ~> [](Deciders(c) = {})

\* PRD 10.3 says of a contribution "Cannot withdraw after approval".
NoWithdrawAfterApproval ==
    [][\A c \in Ids : contributions[c].status = "approved"
                        => contributions'[c].status # "withdrawn"]_vars
=============================================================================
