------------------------ MODULE ContributionsProofs ------------------------
(***************************************************************************)
(* Proofs about Contributions for every set of users, ids, words and       *)
(* request goroutines.                                                     *)
(***************************************************************************)
EXTENDS Contributions, TLAPS

\* What a request is about to write is an outcome, for a row that is stored.
HeldDecision ==
    \A r \in Requests : req[r].pc = "update" =>
        /\ req[r].row.status \in Terminal
        /\ contributions[req[r].id].status # "absent"

USE ContributionAssumption

LEMMA IdlePc == \A x \in {Idle} \cup Submission \cup Decision :
    /\ x.pc \in {"checkTarget", "create"} => x \in Submission
    /\ x.pc = "update" => x \in Decision
    /\ x = Idle => x.pc = "idle"
  BY DEF Idle, Submission, Decision

\* Every step keeps the tables and the requests typed.
LEMMA TypeStep == TypeOK /\ [Next]_vars => TypeOK'
<1> SUFFICES ASSUME TypeOK, [Next]_vars PROVE TypeOK'
  OBVIOUS
<1>0. Idle \in {Idle} \cup Submission \cup Decision
  OBVIOUS
<1>1. ASSUME NEW r \in Requests, NEW c \in Ids, NEW row \in Row, Hold(r, c, row)
      PROVE  TypeOK'
  BY <1>1 DEF TypeOK, Hold, Decision
<1>2. ASSUME NEW r \in Requests, NEW u \in Users, NEW t \in ContributionType,
             NEW w \in Words \cup {NoWord}, SubmitContribution(r, u, t, w)
      PROVE  TypeOK'
  BY <1>2 DEF TypeOK, SubmitContribution, Submission
<1>3. ASSUME NEW r \in Requests, NEW u \in Users, NEW c \in Ids,
             WithdrawContribution(r, u, c)
      PROVE  TypeOK'
  <2>1. Withdraw(FindByID(c)) \in Row
    BY DEF TypeOK, Withdraw, FindByID, Row, ContributionStatus, Terminal
  <2>2. QED
    BY <1>1, <1>3, <2>1 DEF WithdrawContribution
<1>4. ASSUME NEW r \in Requests, NEW u \in Users, NEW c \in Ids,
             NEW n \in BOOLEAN, ApproveContribution(r, u, c, n)
      PROVE  TypeOK'
  <2>1. Approve(FindByID(c), u, n) \in Row
    BY DEF TypeOK, Approve, FindByID, Row, ContributionStatus, Terminal
  <2>2. QED
    BY <1>1, <1>4, <2>1 DEF ApproveContribution
<1>5. ASSUME NEW r \in Requests, NEW u \in Users, NEW c \in Ids,
             RejectContribution(r, u, c)
      PROVE  TypeOK'
  <2>1. Reject(FindByID(c), u) \in Row
    BY DEF TypeOK, Reject, FindByID, Row, ContributionStatus, Terminal
  <2>2. QED
    BY <1>1, <1>5, <2>1 DEF RejectContribution
<1>6. ASSUME NEW r \in Requests, CheckTarget(r)
      PROVE  TypeOK'
  <2>1. req[r] \in Submission
    BY <1>6, IdlePc DEF TypeOK, CheckTarget
  <2>2. [req[r] EXCEPT !.pc = "create"] \in Submission
    BY <2>1 DEF Submission
  <2>3. QED
    BY <1>6, <2>2 DEF TypeOK, CheckTarget
<1>7. ASSUME NEW r \in Requests, InsertContribution(r)
      PROVE  TypeOK'
  <2>1. req[r] \in Submission
    BY <1>7, IdlePc DEF TypeOK, InsertContribution
  <2>2. NewContribution(req[r].caller, req[r].type, req[r].target) \in Row
    BY <2>1 DEF NewContribution, Submission, Row, ContributionStatus
  <2>3. QED
    BY <1>7, <2>2 DEF TypeOK, InsertContribution, Create
<1>8. ASSUME NEW r \in Requests, WriteDecision(r)
      PROVE  TypeOK'
  <2>1. req[r] \in Decision
    BY <1>8, IdlePc DEF TypeOK, WriteDecision
  <2>2. req[r].row \in Row /\ req[r].id \in Ids
    BY <2>1 DEF Decision
  <2>3. contributions' \in [Ids -> Row]
    BY <1>8, <2>2 DEF TypeOK, WriteDecision, Update, Row
  <2>4. QED
    BY <1>8, <2>3 DEF TypeOK, WriteDecision
<1>9. ASSUME NEW r \in Requests, Abort(r)
      PROVE  TypeOK'
  BY <1>9 DEF TypeOK, Abort
<1>10. CASE Environment
  BY <1>10 DEF TypeOK, Environment, CreateWord, SoftDeleteWord, WriteVerified
<1>11. CASE UNCHANGED vars
  BY <1>11 DEF TypeOK, vars
<1>12. QED
  BY <1>2, <1>3, <1>4, <1>5, <1>6, <1>7, <1>8, <1>9, <1>10, <1>11
     DEF Next, Start, Continue

\* Type correctness: the tables and what the request goroutines hold keep
\* their types, whatever the interleaving of the handlers.
THEOREM TypeCorrect == Spec => []TypeOK
<1>1. Init => TypeOK
  BY DEF Init, TypeOK, AbsentRow, Row, ContributionType, Idle
<1>2. QED
  BY <1>1, TypeStep, PTL DEF Spec

-----------------------------------------------------------------------------
(* What the requests hold.                                                 *)

LEMMA HeldStep == TypeOK /\ HeldDecision /\ [Next]_vars => HeldDecision'
<1> SUFFICES ASSUME TypeOK, HeldDecision, [Next]_vars PROVE HeldDecision'
  OBVIOUS
<1>1. ASSUME NEW r \in Requests, NEW c \in Ids, NEW row, row.status \in Terminal,
             Found(c), Hold(r, c, row)
      PROVE  HeldDecision'
  BY <1>1 DEF TypeOK, HeldDecision, Hold, Found
<1>2. ASSUME NEW r \in Requests, NEW u \in Users, NEW t \in ContributionType,
             NEW w \in Words \cup {NoWord}, SubmitContribution(r, u, t, w)
      PROVE  HeldDecision'
  BY <1>2 DEF TypeOK, HeldDecision, SubmitContribution
<1>3. ASSUME NEW r \in Requests, NEW u \in Users, NEW c \in Ids,
             WithdrawContribution(r, u, c)
      PROVE  HeldDecision'
  <2>1. Withdraw(FindByID(c)).status \in Terminal
    BY DEF TypeOK, Withdraw, FindByID, Row, Terminal
  <2>2. QED
    BY <1>1, <1>3, <2>1 DEF WithdrawContribution
<1>4. ASSUME NEW r \in Requests, NEW u \in Users, NEW c \in Ids,
             NEW n \in BOOLEAN, ApproveContribution(r, u, c, n)
      PROVE  HeldDecision'
  <2>1. Approve(FindByID(c), u, n).status \in Terminal
    BY DEF TypeOK, Approve, FindByID, Row, Terminal
  <2>2. QED
    BY <1>1, <1>4, <2>1 DEF ApproveContribution
<1>5. ASSUME NEW r \in Requests, NEW u \in Users, NEW c \in Ids,
             RejectContribution(r, u, c)
      PROVE  HeldDecision'
  <2>1. Reject(FindByID(c), u).status \in Terminal
    BY DEF TypeOK, Reject, FindByID, Row, Terminal
  <2>2. QED
    BY <1>1, <1>5, <2>1 DEF RejectContribution
<1>6. ASSUME NEW r \in Requests, CheckTarget(r)
      PROVE  HeldDecision'
  <2>1. req[r] \in Submission
    BY <1>6, IdlePc DEF TypeOK, CheckTarget
  <2>2. req'[r].pc # "update"
    BY <1>6, <2>1 DEF TypeOK, CheckTarget, Submission, Idle
  <2>3. QED
    BY <1>6, <2>2 DEF TypeOK, HeldDecision, CheckTarget
<1>7. ASSUME NEW r \in Requests, InsertContribution(r)
      PROVE  HeldDecision'
  <2>1. \A c \in Ids : contributions[c].status # "absent"
                         => contributions'[c].status # "absent"
    BY <1>7 DEF TypeOK, InsertContribution, Create, NewContribution
  <2>2. \A q \in Requests : req'[q].pc = "update" => req[q] \in Decision
    BY <1>7, IdlePc DEF TypeOK, InsertContribution, Idle
  <2>3. QED
    BY <1>7, <2>1, <2>2 DEF TypeOK, HeldDecision, InsertContribution, Idle, Decision
<1>8. ASSUME NEW r \in Requests, WriteDecision(r)
      PROVE  HeldDecision'
  <2>1. req[r] \in Decision /\ req[r].row.status \in Terminal
    BY <1>8, IdlePc DEF TypeOK, WriteDecision, HeldDecision
  <2>2. \A c \in Ids : contributions[c].status # "absent"
                         => contributions'[c].status # "absent"
    BY <1>8, <2>1 DEF TypeOK, WriteDecision, Update, Row, Decision, Terminal
  <2>3. \A q \in Requests : req'[q].pc = "update" => req[q] \in Decision
    BY <1>8, IdlePc DEF TypeOK, WriteDecision, Idle
  <2>4. QED
    BY <1>8, <2>2, <2>3 DEF TypeOK, HeldDecision, WriteDecision, Idle, Decision
<1>9. ASSUME NEW r \in Requests, Abort(r)
      PROVE  HeldDecision'
  BY <1>9 DEF TypeOK, HeldDecision, Abort, Idle
<1>10. CASE Environment
  BY <1>10 DEF HeldDecision, Environment, CreateWord, SoftDeleteWord, WriteVerified
<1>11. CASE UNCHANGED vars
  BY <1>11 DEF HeldDecision, vars
<1>12. QED
  BY <1>2, <1>3, <1>4, <1>5, <1>6, <1>7, <1>8, <1>9, <1>10, <1>11
     DEF Next, Start, Continue

LEMMA HeldCorrect == Spec => []HeldDecision
<1>1. Init => HeldDecision
  BY DEF Init, HeldDecision, Idle
<1>2. QED
  BY <1>1, TypeCorrect, HeldStep, PTL DEF Spec

-----------------------------------------------------------------------------
(* The review columns.                                                     *)

\* The entity's transitions turn a complete pending row into a complete row.
LEMMA TransitionsComplete ==
    ASSUME NEW row \in Row, row.status = "pending", ReviewComplete(row)
    PROVE  /\ ReviewComplete(Withdraw(row))
           /\ \A u \in Users, n \in BOOLEAN : ReviewComplete(Approve(row, u, n))
           /\ \A u \in Users : ReviewComplete(Reject(row, u))
<1>1. row.reviewer = NoUser /\ row.note = FALSE
  BY DEF ReviewComplete, Row
<1>2. ReviewComplete(Withdraw(row))
  BY <1>1 DEF ReviewComplete, Withdraw, Row
<1>3. ASSUME NEW u \in Users, NEW n \in BOOLEAN
      PROVE  ReviewComplete(Approve(row, u, n))
  BY <1>1 DEF ReviewComplete, Approve, Row
<1>4. ASSUME NEW u \in Users
      PROVE  ReviewComplete(Reject(row, u))
  BY <1>1 DEF ReviewComplete, Reject, Row
<1>5. QED
  BY <1>2, <1>3, <1>4

LEMMA ReviewStep == TypeOK /\ ReviewMatchesStatus /\ [Next]_vars
                      => ReviewMatchesStatus'
<1> SUFFICES ASSUME TypeOK, ReviewMatchesStatus, [Next]_vars
             PROVE  ReviewMatchesStatus'
  OBVIOUS
<1>1. ASSUME NEW r \in Requests, NEW c \in Ids, NEW row,
             ReviewComplete(row), Hold(r, c, row)
      PROVE  ReviewMatchesStatus'
  BY <1>1 DEF TypeOK, ReviewMatchesStatus, Hold
<1>2. ASSUME NEW r \in Requests, NEW u \in Users, NEW t \in ContributionType,
             NEW w \in Words \cup {NoWord}, SubmitContribution(r, u, t, w)
      PROVE  ReviewMatchesStatus'
  BY <1>2 DEF TypeOK, ReviewMatchesStatus, SubmitContribution
<1>3. ASSUME NEW r \in Requests, NEW u \in Users, NEW c \in Ids,
             WithdrawContribution(r, u, c)
      PROVE  ReviewMatchesStatus'
  <2>1. contributions[c] \in Row /\ ReviewComplete(contributions[c])
    BY DEF TypeOK, ReviewMatchesStatus
  <2>2. ReviewComplete(Withdraw(contributions[c]))
    BY <1>3, <2>1, TransitionsComplete DEF WithdrawContribution, MayWithdraw, FindByID
  <2>3. QED
    BY <1>1, <1>3, <2>2 DEF WithdrawContribution, FindByID
<1>4. ASSUME NEW r \in Requests, NEW u \in Users, NEW c \in Ids,
             NEW n \in BOOLEAN, ApproveContribution(r, u, c, n)
      PROVE  ReviewMatchesStatus'
  <2>1. contributions[c] \in Row /\ ReviewComplete(contributions[c])
    BY DEF TypeOK, ReviewMatchesStatus
  <2>2. ReviewComplete(Approve(contributions[c], u, n))
    BY <1>4, <2>1, TransitionsComplete DEF ApproveContribution, MayApprove, FindByID
  <2>3. QED
    BY <1>1, <1>4, <2>2 DEF ApproveContribution, FindByID
<1>5. ASSUME NEW r \in Requests, NEW u \in Users, NEW c \in Ids,
             RejectContribution(r, u, c)
      PROVE  ReviewMatchesStatus'
  <2>1. contributions[c] \in Row /\ ReviewComplete(contributions[c])
    BY DEF TypeOK, ReviewMatchesStatus
  <2>2. ReviewComplete(Reject(contributions[c], u))
    BY <1>5, <2>1, TransitionsComplete DEF RejectContribution, MayReject, FindByID
  <2>3. QED
    BY <1>1, <1>5, <2>2 DEF RejectContribution, FindByID
<1>6. ASSUME NEW r \in Requests, CheckTarget(r)
      PROVE  ReviewMatchesStatus'
  <2>1. req[r] \in Submission
    BY <1>6, IdlePc DEF TypeOK, CheckTarget
  <2>2. req'[r].pc # "update"
    BY <1>6, <2>1 DEF TypeOK, CheckTarget, Submission, Idle
  <2>3. QED
    BY <1>6, <2>2 DEF TypeOK, ReviewMatchesStatus, CheckTarget
<1>7. ASSUME NEW r \in Requests, InsertContribution(r)
      PROVE  ReviewMatchesStatus'
  <2>1. ReviewComplete(NewContribution(req[r].caller, req[r].type, req[r].target))
    BY DEF ReviewComplete, NewContribution
  <2>2. \A c \in Ids : ReviewComplete(contributions'[c])
    BY <1>7, <2>1 DEF TypeOK, ReviewMatchesStatus, InsertContribution, Create
  <2>3. QED
    BY <1>7, <2>2 DEF TypeOK, ReviewMatchesStatus, InsertContribution, Idle
<1>8. ASSUME NEW r \in Requests, WriteDecision(r)
      PROVE  ReviewMatchesStatus'
  <2>1. req[r] \in Decision /\ ReviewComplete(req[r].row)
    BY <1>8, IdlePc DEF TypeOK, WriteDecision, ReviewMatchesStatus
  <2>2. \A c \in Ids : ReviewComplete(contributions'[c])
    BY <1>8, <2>1 DEF TypeOK, ReviewMatchesStatus, ReviewComplete, WriteDecision,
                      Update, Row, Decision
  <2>3. QED
    BY <1>8, <2>2 DEF TypeOK, ReviewMatchesStatus, WriteDecision, Idle
<1>9. ASSUME NEW r \in Requests, Abort(r)
      PROVE  ReviewMatchesStatus'
  BY <1>9 DEF TypeOK, ReviewMatchesStatus, Abort, Idle
<1>10. CASE Environment
  BY <1>10 DEF ReviewMatchesStatus, Environment, CreateWord, SoftDeleteWord,
               WriteVerified
<1>11. CASE UNCHANGED vars
  BY <1>11 DEF ReviewMatchesStatus, vars
<1>12. QED
  BY <1>2, <1>3, <1>4, <1>5, <1>6, <1>7, <1>8, <1>9, <1>10, <1>11
     DEF Next, Start, Continue

\* For any number of racing requests, the reviewer and the note of a row
\* always belong to its status: a lost update never leaves a mixed row.
THEOREM ReviewConsistent == Spec => []ReviewMatchesStatus
<1>1. Init => ReviewMatchesStatus
  BY DEF Init, ReviewMatchesStatus, ReviewComplete, AbsentRow, Idle
<1>2. QED
  BY <1>1, TypeCorrect, ReviewStep, PTL DEF Spec

-----------------------------------------------------------------------------
(* Targets.                                                                *)

\* TargetRowExists is not inductive: the submissions under way must be known
\* to carry a target when their type needs one.
TargetInv ==
    /\ TargetRowExists
    /\ \A r \in Requests : req[r].pc \in {"checkTarget", "create"}
                             => TargetGiven(req[r].type, req[r].target)

LEMMA TargetStep == TypeOK /\ HeldDecision /\ TargetInv /\ [Next]_vars
                      => TargetInv'
<1> SUFFICES ASSUME TypeOK, HeldDecision, TargetInv, [Next]_vars
             PROVE  TargetInv'
  OBVIOUS
<1>1. ASSUME NEW r \in Requests, NEW c \in Ids, NEW row, Hold(r, c, row)
      PROVE  TargetInv'
  BY <1>1 DEF TypeOK, TargetInv, TargetRowExists, Hold
<1>2. ASSUME NEW r \in Requests, NEW u \in Users, NEW t \in ContributionType,
             NEW w \in Words \cup {NoWord}, SubmitContribution(r, u, t, w)
      PROVE  TargetInv'
  BY <1>2 DEF TypeOK, TargetInv, TargetRowExists, SubmitContribution
<1>3. ASSUME NEW r \in Requests, CheckTarget(r)
      PROVE  TargetInv'
  <2>1. req[r] \in Submission
    BY <1>3, IdlePc DEF TypeOK, CheckTarget
  <2>2. req'[r] = Idle \/ (/\ req'[r].type = req[r].type
                           /\ req'[r].target = req[r].target)
    BY <1>3, <2>1 DEF TypeOK, CheckTarget, Submission
  <2>3. TargetGiven(req[r].type, req[r].target)
    BY <1>3 DEF TargetInv, CheckTarget
  <2>4. QED
    BY <1>3, <2>2, <2>3 DEF TypeOK, TargetInv, TargetRowExists, CheckTarget, Idle
<1>4. ASSUME NEW r \in Requests, InsertContribution(r)
      PROVE  TargetInv'
  <2>1. TargetGiven(req[r].type, req[r].target) /\ ForeignKeyHolds(req[r].target)
    BY <1>4 DEF TargetInv, InsertContribution
  <2>2. PICK c \in Ids :
            Create(c, NewContribution(req[r].caller, req[r].type, req[r].target))
    BY <1>4 DEF InsertContribution
  <2>3. words' = words
    BY <1>4 DEF InsertContribution
  <2>4. TargetRowExists'
    BY <2>1, <2>2, <2>3 DEF TypeOK, TargetInv, TargetRowExists, Create,
                            NewContribution, TargetGiven, ForeignKeyHolds
  <2>5. QED
    BY <1>4, <2>4 DEF TypeOK, TargetInv, InsertContribution, Idle
<1>5. ASSUME NEW r \in Requests, WriteDecision(r)
      PROVE  TargetInv'
  <2>1. req[r] \in Decision
    BY <1>5, IdlePc DEF TypeOK, WriteDecision
  <2>2. PICK c \in Ids : c = req[r].id
    BY <2>1 DEF Decision
  <2>3. \A d \in Ids : /\ contributions'[d].type = contributions[d].type
                       /\ contributions'[d].target = contributions[d].target
                       /\ d # c => contributions'[d] = contributions[d]
    BY <1>5, <2>1 , <2>2 DEF TypeOK, WriteDecision, Update, Row
  <2>4. QED
    BY <1>5, <2>2, <2>3 DEF TypeOK, HeldDecision, TargetInv, TargetRowExists, WriteDecision, Idle
<1>6. ASSUME NEW r \in Requests, Abort(r)
      PROVE  TargetInv'
  BY <1>6 DEF TypeOK, TargetInv, TargetRowExists, Abort, Idle
<1>7. CASE Environment
  BY <1>7 DEF TypeOK, TargetInv, TargetRowExists, Environment, CreateWord,
              SoftDeleteWord, WriteVerified, Row
<1>8. CASE UNCHANGED vars
  BY <1>8 DEF TargetInv, TargetRowExists, vars
<1>9. QED
  BY <1>1, <1>2, <1>3, <1>4, <1>5, <1>6, <1>7, <1>8
     DEF Next, Start, Continue, WithdrawContribution, ApproveContribution,
         RejectContribution

\* A stored contribution of a type that needs a word always has one that is a
\* row of the dictionary, for any interleaving with soft deletion.
THEOREM TargetsExist == Spec => []TargetRowExists
<1>1. Init => TargetInv
  BY DEF Init, TargetInv, TargetRowExists, AbsentRow, Idle
<1>2. TargetInv => TargetRowExists
  BY DEF TargetInv
<1>3. QED
  BY <1>1, <1>2, TypeCorrect, HeldCorrect, TargetStep, PTL DEF Spec

-----------------------------------------------------------------------------
(* Refinement of ContributionLifecycle.                                    *)

\* Any step maps to a step of the lifecycle or leaves its variables alone.
LEMMA LifecycleStep ==
    TypeOK /\ HeldDecision /\ [Next]_vars => [Lifecycle!Next]_(Lifecycle!vars)
<1> SUFFICES ASSUME TypeOK, HeldDecision, [Next]_vars
             PROVE  [Lifecycle!Next]_(Lifecycle!vars)
  OBVIOUS
<1> DEFINE st == [c \in Ids |-> contributions[c].status]
           ct == [c \in Ids |-> Deciders(c)]
\* A step that moves no request to or from "update" leaves the contenders.
<1>0. ASSUME \A q \in Requests :
                \/ req'[q] = req[q]
                \/ req'[q].pc # "update" /\ req[q].pc # "update"
      PROVE  ct' = ct
  BY <1>0 DEF Deciders
<1>1. ASSUME NEW r \in Requests, NEW c \in Ids, NEW row,
             contributions[c].status = "pending", req[r] = Idle, Hold(r, c, row)
      PROVE  Lifecycle!Contend(c, r)
  <2>1. st' = st
    BY <1>1 DEF Hold
  <2>2. ct' = [ct EXCEPT ![c] = @ \cup {r}]
    <3>1. req'[r].pc = "update" /\ req'[r].id = c
      BY <1>1 DEF TypeOK, Hold
    <3>2. \A q \in Requests : q # r => req'[q] = req[q]
      BY <1>1 DEF TypeOK, Hold
    <3>3. \A d \in Ids : Deciders(d)' = IF d = c THEN Deciders(d) \cup {r}
                                                  ELSE Deciders(d)
      BY <1>1, <3>1, <3>2 DEF Deciders, Idle
    <3>4. QED
      BY <3>3
  <2>3. QED
    BY <1>1, <2>1, <2>2 DEF Lifecycle!Contend
<1>2. ASSUME NEW r \in Requests, NEW u \in Users, NEW c \in Ids,
             \/ WithdrawContribution(r, u, c)
             \/ \E n \in BOOLEAN : ApproveContribution(r, u, c, n)
             \/ RejectContribution(r, u, c)
      PROVE  Lifecycle!Contend(c, r)
  BY <1>1, <1>2 DEF WithdrawContribution, ApproveContribution, RejectContribution,
                    MayWithdraw, MayApprove, MayReject, FindByID
<1>3. ASSUME NEW r \in Requests, NEW u \in Users, NEW t \in ContributionType,
             NEW w \in Words \cup {NoWord}, SubmitContribution(r, u, t, w)
      PROVE  UNCHANGED Lifecycle!vars
  <2>1. ct' = ct
    BY <1>0, <1>3 DEF TypeOK, SubmitContribution, Idle
  <2>2. st' = st
    BY <1>3 DEF SubmitContribution
  <2>3. QED
    BY <2>1, <2>2 DEF Lifecycle!vars
<1>4. ASSUME NEW r \in Requests, CheckTarget(r)
      PROVE  UNCHANGED Lifecycle!vars
  <2>1. req[r] \in Submission
    BY <1>4, IdlePc DEF TypeOK, CheckTarget
  <2>2. req'[r].pc # "update"
    BY <1>4, <2>1 DEF TypeOK, CheckTarget, Submission, Idle
  <2>3. ct' = ct
    BY <1>0, <1>4, <2>2 DEF TypeOK, CheckTarget
  <2>4. st' = st
    BY <1>4 DEF CheckTarget
  <2>5. QED
    BY <2>3, <2>4 DEF Lifecycle!vars
<1>5. ASSUME NEW r \in Requests, InsertContribution(r)
      PROVE  \E c \in Ids : Lifecycle!Submit(c)
  <2>1. PICK c \in Ids :
            /\ ~Found(c)
            /\ Create(c, NewContribution(req[r].caller, req[r].type, req[r].target))
    BY <1>5 DEF InsertContribution
  <2>2. ct' = ct
    BY <1>0, <1>5 DEF TypeOK, InsertContribution, Idle
  <2>3. st' = [st EXCEPT ![c] = "pending"]
    BY <2>1 DEF TypeOK, Create, NewContribution
  <2>4. QED
    BY <2>1, <2>2, <2>3 DEF Lifecycle!Submit, Found
<1>6. ASSUME NEW r \in Requests, WriteDecision(r)
      PROVE  \E c \in Ids, o \in Lifecycle!Outcomes : Lifecycle!Decide(c, r, o)
  <2>1. req[r] \in Decision /\ req[r].row.status \in Terminal
    BY <1>6, IdlePc DEF TypeOK, WriteDecision, HeldDecision
  <2>2. PICK c \in Ids : c = req[r].id
    BY <2>1 DEF Decision
  <2>3. st' = [st EXCEPT ![c] = req[r].row.status]
    <3>1. contributions[c] \in Row
      BY DEF TypeOK
    <3>2. contributions' = [contributions EXCEPT
              ![c] = [[[contributions[c] EXCEPT !.status = req[r].row.status]
                          EXCEPT !.reviewer = req[r].row.reviewer]
                          EXCEPT !.note = req[r].row.note]]
      BY <1>6, <2>2, <3>1 DEF TypeOK, WriteDecision, Update
    <3>3. contributions'[c].status = req[r].row.status
      BY <3>1, <3>2 DEF TypeOK, Row
    <3>4. \A d \in Ids : d # c => contributions'[d] = contributions[d]
      BY <3>2 DEF TypeOK
    <3>5. QED
      BY <3>3, <3>4
  <2>4. ct' = [ct EXCEPT ![c] = @ \ {r}]
    BY <1>6, <2>2 DEF TypeOK, WriteDecision, Deciders, Idle
  <2>5. r \in ct[c]
    BY <1>6, <2>2 DEF WriteDecision, Deciders
  <2>6. req[r].row.status \in Lifecycle!Outcomes
    BY <2>1 DEF Lifecycle!Outcomes, Terminal
  <2>7. QED
    BY <2>3, <2>4, <2>5, <2>6 DEF Lifecycle!Decide
<1>7. ASSUME NEW r \in Requests, Abort(r)
      PROVE  \/ \E c \in Ids : Lifecycle!GiveUp(c, r)
             \/ UNCHANGED Lifecycle!vars
  <2>1. st' = st
    BY <1>7 DEF Abort
  <2>2. CASE req[r].pc # "update"
    BY <1>0, <1>7, <2>1, <2>2 DEF TypeOK, Abort, Idle, Lifecycle!vars
  <2>3. CASE req[r].pc = "update"
    <3>1. PICK c \in Ids : c = req[r].id
      BY <2>3, IdlePc DEF TypeOK, Decision
    <3>2. ct' = [ct EXCEPT ![c] = @ \ {r}]
      BY <1>7, <3>1 DEF TypeOK, Abort, Deciders, Idle
    <3>3. r \in ct[c]
      BY <2>3, <3>1 DEF Deciders
    <3>4. QED
      BY <2>1, <3>2, <3>3 DEF Lifecycle!GiveUp
  <2>4. QED
    BY <2>2, <2>3
<1>8. CASE Environment
  BY <1>8 DEF Environment, CreateWord, SoftDeleteWord, WriteVerified,
              Lifecycle!vars, Deciders
<1>9. CASE UNCHANGED vars
  BY <1>9 DEF vars, Lifecycle!vars, Deciders
<1>10. QED
  BY <1>2, <1>3, <1>4, <1>5, <1>6, <1>7, <1>8, <1>9
     DEF Next, Start, Continue, Lifecycle!Next

\* The workflow implements ContributionLifecycle for any number of requests:
\* only a request that read the row as pending can overrule a decision.
THEOREM LifecycleImplemented == Spec => ImplementsLifecycle
<1>1. Init => Lifecycle!Init
  BY DEF Init, Lifecycle!Init, Deciders, AbsentRow, Idle
<1>2. QED
  BY <1>1, TypeCorrect, HeldCorrect, LifecycleStep, PTL
     DEF Spec, ImplementsLifecycle, Lifecycle!Spec

-----------------------------------------------------------------------------
(* What one request at a time would guarantee.                             *)

\* With a single request the row a decision was computed from is still the
\* stored one when the decision is written.
HeldIsCurrent ==
    \A r \in Requests : req[r].pc = "update"
        => contributions[req[r].id].status = "pending"

LEMMA SerialStep ==
    ASSUME \A p, q \in Requests : p = q
    PROVE  TypeOK /\ HeldIsCurrent /\ [Next]_vars => HeldIsCurrent'
<1> SUFFICES ASSUME TypeOK, HeldIsCurrent, [Next]_vars PROVE HeldIsCurrent'
  OBVIOUS
<1>1. ASSUME NEW r \in Requests, req'[r].pc # "update"
      PROVE  HeldIsCurrent'
  BY <1>1 DEF HeldIsCurrent
<1>2. ASSUME NEW r \in Requests, NEW c \in Ids, NEW row,
             contributions[c].status = "pending", Hold(r, c, row)
      PROVE  HeldIsCurrent'
  BY <1>2 DEF TypeOK, HeldIsCurrent, Hold
<1>3. ASSUME NEW r \in Requests, Start(r)
      PROVE  HeldIsCurrent'
  <2>1. ASSUME NEW u \in Users, NEW t \in ContributionType,
               NEW w \in Words \cup {NoWord}, SubmitContribution(r, u, t, w)
        PROVE  HeldIsCurrent'
    BY <1>1, <2>1 DEF TypeOK, SubmitContribution
  <2>2. QED
    BY <1>2, <1>3, <2>1 DEF Start, WithdrawContribution, ApproveContribution,
       RejectContribution, MayWithdraw, MayApprove, MayReject, FindByID
<1>4. ASSUME NEW r \in Requests, CheckTarget(r)
      PROVE  HeldIsCurrent'
  <2>1. req[r] \in Submission
    BY <1>4, IdlePc DEF TypeOK, CheckTarget
  <2>2. req'[r].pc # "update"
    BY <1>4, <2>1 DEF TypeOK, CheckTarget, Submission, Idle
  <2>3. QED
    BY <1>1, <2>2
<1>5. ASSUME NEW r \in Requests, InsertContribution(r) \/ WriteDecision(r) \/ Abort(r)
      PROVE  HeldIsCurrent'
  <2>1. req'[r].pc # "update"
    BY <1>5 DEF TypeOK, InsertContribution, WriteDecision, Abort, Idle
  <2>2. QED
    BY <1>1, <2>1
<1>6. CASE Environment
  BY <1>6 DEF HeldIsCurrent, Environment, CreateWord, SoftDeleteWord, WriteVerified
<1>7. CASE UNCHANGED vars
  BY <1>7 DEF HeldIsCurrent, vars
<1>8. QED
  BY <1>3, <1>4, <1>5, <1>6, <1>7 DEF Next, Continue

\* When requests do not overlap, an approved contribution is never withdrawn:
\* the entity's status check is enough, and only the race defeats it.
THEOREM SerialFinality ==
    ASSUME \A p, q \in Requests : p = q
    PROVE  Spec => NoWithdrawAfterApproval
<1>1. Init => HeldIsCurrent
  BY DEF Init, HeldIsCurrent, Idle
<1>2. Spec => []HeldIsCurrent
  BY <1>1, TypeCorrect, SerialStep, PTL DEF Spec
<1>3. TypeOK /\ HeldIsCurrent /\ [Next]_vars =>
        [\A c \in Ids : contributions[c].status = "approved"
            => contributions'[c].status # "withdrawn"]_vars
  <2> SUFFICES ASSUME TypeOK, HeldIsCurrent, Next, NEW c \in Ids,
                      contributions[c].status = "approved"
               PROVE  contributions'[c].status # "withdrawn"
    OBVIOUS
  <2>1. ASSUME contributions' = contributions
        PROVE  contributions'[c].status # "withdrawn"
    BY <2>1
  <2>2. ASSUME NEW r \in Requests, Start(r) \/ Abort(r) \/ CheckTarget(r)
        PROVE  contributions'[c].status # "withdrawn"
    BY <2>1, <2>2 DEF Start, SubmitContribution, WithdrawContribution,
       ApproveContribution, RejectContribution, Hold, Abort, CheckTarget
  <2>3. ASSUME NEW r \in Requests, InsertContribution(r)
        PROVE  contributions'[c].status # "withdrawn"
    BY <2>3 DEF TypeOK, InsertContribution, Create, NewContribution
  <2>4. ASSUME NEW r \in Requests, WriteDecision(r)
        PROVE  contributions'[c].status # "withdrawn"
    <3>1. req[r].id # c
      BY <2>4 DEF HeldIsCurrent, WriteDecision
    <3>2. QED
      BY <2>4, <3>1 DEF TypeOK, WriteDecision, Update
  <2>5. ASSUME Environment
        PROVE  contributions'[c].status # "withdrawn"
    BY <2>1, <2>5 DEF Environment, CreateWord, SoftDeleteWord, WriteVerified
  <2>6. QED
    BY <2>2, <2>3, <2>4, <2>5 DEF Next, Continue
<1>4. QED
  BY <1>2, <1>3, TypeCorrect, PTL DEF Spec, NoWithdrawAfterApproval
=============================================================================
