------------------------- MODULE InteractionsProofs -------------------------
(***************************************************************************)
(* Proofs about Interactions, for any number of users, words, definitions, *)
(* comments and requests.                                                  *)
(***************************************************************************)
EXTENDS Interactions, TLAPS

\* What a request holds where it is.
LEMMA Holds ==
    ASSUME NEW r \in Request
    PROVE  /\ r.pc \in {"vote", "unvote"} => r.user \in Users /\ r.target \in Targets
           /\ r.pc = "vote" => r.value \in Value
           /\ r.pc \in {"bookmark", "unbookmark", "comment"} =>
                 r.user \in Users /\ r.word \in Words
           /\ r.pc = "comment" => r.body \in Bodies
           /\ r.pc = "update" => r.id \in Comments /\ r.copy \in Comment
           /\ r.pc = "delete" => r.id \in Comments
           /\ r.pc \in Writing => r.word \in Words /\ r.put \subseteq Definitions
BY DEF Request, Idle, Writing

\* A comment that is there has an author, a word and a text.
LEMMA ThereRow ==
    ASSUME TypeOK, NEW c \in Comments, There(c)
    PROVE  comments[c] \in Comment
BY DEF TypeOK, There, Unborn, Gone

\* Edits and flags make comments of comments; a flag leaves the text alone.
LEMMA CopyType ==
    ASSUME NEW comment \in Comment
    PROVE  /\ \A b \in Bodies : Edited(comment, b) \in Comment
           /\ Flagged(comment) \in Comment
           /\ Flagged(comment).body = comment.body
BY DEF Edited, Flagged, Comment

\* What the first statement of a request has made sure of when it goes on to
\* the second: the target is alive (for a removal, it once was), and a new text
\* is its author's.  None of these requests writes a word.
Checked(r) ==
    /\ r.pc \notin Writing
    /\ r.pc = "vote" => Exists(r.target)
    /\ r.pc = "unvote" => target[r.target] # "unborn"
    /\ r.pc \in {"bookmark", "comment"} => Exists(r.word)
    /\ r.pc = "update" => /\ There(r.id)
                          /\ \/ r.user = comments[r.id].user
                             \/ r.copy.body = comments[r.id].body

\* Every route begins with a statement that checks.
LEMMA StartChecks ==
    ASSUME TypeOK, NEW p \in Procs, Start(p)
    PROVE  \E r \in Request : Begin(p, r) /\ Checked(r)
<1> DEFINE Goal == \E r \in Request : Begin(p, r) /\ Checked(r)
<1> HIDE DEF Goal
<1> USE DEF Writing
<1>1. ASSUME NEW u \in Users, NEW t \in Targets, NEW v \in Value, CastVote(p, u, t, v)
      PROVE  Goal
  <2> DEFINE r == [pc |-> "vote", user |-> u, target |-> t, value |-> v]
  <2>1. r \in Request /\ Checked(r)
    BY <1>1 DEF Request, Checked, CastVote
  <2> QED
    BY <1>1, <2>1 DEF CastVote, Goal
<1>2. ASSUME NEW u \in Users, NEW t \in Targets, RemoveVote(p, u, t) PROVE Goal
  <2> DEFINE r == [pc |-> "unvote", user |-> u, target |-> t]
  <2>1. r \in Request /\ Checked(r)
    BY <1>2 DEF Request, Checked, RemoveVote, TypeOK
  <2> QED
    BY <1>2, <2>1 DEF RemoveVote, Goal
<1>3. ASSUME NEW u \in Users, NEW w \in Words, AddBookmark(p, u, w) PROVE Goal
  <2> DEFINE r == [pc |-> "bookmark", user |-> u, word |-> w]
  <2>1. r \in Request /\ Checked(r)
    BY <1>3 DEF Request, Checked, AddBookmark
  <2> QED
    BY <1>3, <2>1 DEF AddBookmark, Goal
<1>4. ASSUME NEW u \in Users, NEW w \in Words, RemoveBookmark(p, u, w) PROVE Goal
  <2> DEFINE r == [pc |-> "unbookmark", user |-> u, word |-> w]
  <2>1. r \in Request /\ Checked(r)
    BY <1>4 DEF Request, Checked, RemoveBookmark
  <2> QED
    BY <1>4, <2>1 DEF RemoveBookmark, Goal
<1>5. ASSUME NEW u \in Users, NEW w \in Words, NEW b \in Bodies, PostComment(p, u, w, b)
      PROVE  Goal
  <2> DEFINE r == [pc |-> "comment", user |-> u, word |-> w, body |-> b]
  <2>1. r \in Request /\ Checked(r)
    BY <1>5 DEF Request, Checked, PostComment
  <2> QED
    BY <1>5, <2>1 DEF PostComment, Goal
<1>6. ASSUME NEW u \in Users, NEW c \in Comments, NEW b \in Bodies, EditComment(p, u, c, b)
      PROVE  Goal
  <2> DEFINE copy == Edited(comments[c], b)
             r == [pc |-> "update", user |-> u, id |-> c, copy |-> copy]
  <2>1. copy \in Comment
    BY <1>6, ThereRow, CopyType DEF EditComment
  <2>2. Begin(p, r)
    BY <1>6 DEF EditComment
  <2> HIDE DEF copy
  <2>3. r \in Request /\ Checked(r)
    BY <1>6, <2>1 DEF Request, Checked, EditComment, MayEdit
  <2> QED
    BY <2>2, <2>3 DEF Goal
<1>7. ASSUME NEW u \in Users, NEW role, NEW c \in Comments, DeleteComment(p, u, role, c)
      PROVE  Goal
  <2> DEFINE r == [pc |-> "delete", id |-> c]
  <2>1. r \in Request /\ Checked(r)
    BY DEF Request, Checked
  <2> QED
    BY <1>7, <2>1 DEF DeleteComment, Goal
<1>8. ASSUME NEW u \in Users, NEW c \in Comments, FlagComment(p, u, c) PROVE Goal
  <2> DEFINE copy == Flagged(comments[c])
             r == [pc |-> "update", user |-> u, id |-> c, copy |-> copy]
  <2>1. copy \in Comment /\ copy.body = comments[c].body
    BY <1>8, ThereRow, CopyType DEF FlagComment
  <2>2. Begin(p, r)
    BY <1>8 DEF FlagComment
  <2> HIDE DEF copy
  <2>3. r \in Request /\ Checked(r)
    BY <1>8, <2>1 DEF Request, Checked, FlagComment
  <2> QED
    BY <2>2, <2>3 DEF Goal
<1> QED
  BY <1>1, <1>2, <1>3, <1>4, <1>5, <1>6, <1>7, <1>8
  DEF Goal, Start, castVote, removeVote, HandleAddBookmark, HandleRemoveBookmark,
      HandlePostComment, HandleEditComment, HandleDeleteComment, HandleFlagComment

-----------------------------------------------------------------------------
(* Words and definitions: what a writer of a word does to the targets, and   *)
(* which definitions it holds afterwards.                                    *)

\* p will insert the definition t.
Carries(p, t) == req[p].pc \in Writing /\ t \in req[p].put

\* The request of a writer: it is over, or it holds definitions of its word,
\* each of which is not deleted or was in its hands before.
Held(p, r) ==
    /\ r \in Request
    /\ r = Idle \/ r.pc \in Writing
    /\ r.pc \in Writing =>
          \A d \in r.put : WordOf[d] = r.word /\ (target[d] # "gone" \/ Carries(p, d))

\* A request that holds definitions as it should is a writer's request.
LEMMA HoldIsHeld ==
    ASSUME NEW p \in Procs, NEW pc \in Writing, NEW w \in Words, NEW put \in SUBSET Definitions,
           \A d \in put : WordOf[d] = w /\ (target[d] # "gone" \/ Carries(p, d))
    PROVE  Held(p, [pc |-> pc, word |-> w, put |-> put])
<1> DEFINE r == [pc |-> pc, word |-> w, put |-> put]
<1>1. r \in Request
  BY DEF Request, Writing
<1>2. r.pc = pc /\ r.word = w /\ r.put = put
  OBVIOUS
<1> QED
  BY <1>1, <1>2 DEF Held

\* A deleted target comes back only from the hands of a writer, and no writer
\* takes a deleted definition into its hands.
LEMMA WriteStep ==
    ASSUME TypeOK, NEW p \in Procs, StartWrite(p) \/ ContinueWrite(p)
    PROVE  /\ UNCHANGED rows
           /\ \E r : Held(p, r) /\ req' = [req EXCEPT ![p] = r]
           /\ target' \in [Targets -> {"unborn", "live", "gone"}]
           /\ \A t \in Targets : target'[t] = "unborn" => target[t] = "unborn"
           /\ \A t \in Targets : target[t] = "gone" => target'[t] = "gone" \/ Carries(p, t)
<1> DEFINE Goal == /\ UNCHANGED rows
                   /\ \E r : Held(p, r) /\ req' = [req EXCEPT ![p] = r]
                   /\ target' \in [Targets -> {"unborn", "live", "gone"}]
                   /\ \A t \in Targets : target'[t] = "unborn" => target[t] = "unborn"
                   /\ \A t \in Targets :
                         target[t] = "gone" => target'[t] = "gone" \/ Carries(p, t)
           Record(pc, w, put) == [pc |-> pc, word |-> w, put |-> put]
<1>a. Words \subseteq Targets /\ Definitions \subseteq Targets
  BY DEF Targets
<1>b. {"load", "updateRow", "deleteDefinitions", "insert"} = Writing
  BY DEF Writing
<1>c. req[p].pc \in Writing => /\ req[p].word \in Words /\ req[p].put \in SUBSET Definitions
                               /\ \A d \in req[p].put : WordOf[d] = req[p].word /\ Carries(p, d)
  BY Holds DEF TypeOK, Carries
<1>d. \A w \in Words : \A d \in Fresh(w) :
         d \in Definitions /\ WordOf[d] = w /\ target[d] # "gone"
  BY DEF Fresh
<1>1. ASSUME NEW w \in Words, MergeWord(p, w) PROVE Goal
  <2>1. Held(p, Record("load", w, {}))
    BY <1>b, HoldIsHeld
  <2> QED
    BY <1>1, <2>1 DEF MergeWord, Begin, TypeOK
<1>2. ASSUME NEW w \in Words, NEW new \in SUBSET Fresh(w), CreateWord(p, w, new) PROVE Goal
  <2>1. Held(p, Record("insert", w, new))
    BY <1>b, <1>d, HoldIsHeld
  <2>2. \A t \in Targets : target'[t] = IF t = w THEN "live" ELSE target[t]
    BY <1>2 DEF CreateWord, TypeOK
  <2>3. target' \in [Targets -> {"unborn", "live", "gone"}] /\ target[w] = "unborn"
    BY <1>2 DEF CreateWord, TypeOK
  <2> QED
    BY <1>2, <2>1, <2>2, <2>3 DEF CreateWord, Hold
<1>3. ASSUME NEW w \in Words, NEW new \in SUBSET Fresh(w), UpdateWord(p, w, new) PROVE Goal
  <2>1. Held(p, Record("updateRow", w, new))
    BY <1>b, <1>d, HoldIsHeld
  <2> QED
    BY <1>3, <2>1 DEF UpdateWord, Begin, TypeOK
<1>4. ASSUME NEW w \in Words, NEW new \in SUBSET Fresh(w), SeedWord(p, w, new) PROVE Goal
  <2>1. Held(p, Record("insert", w, new)) /\ Held(p, Record("deleteDefinitions", w, new))
    BY <1>b, <1>d, HoldIsHeld
  <2>2. \A t \in Targets : target'[t] = IF t = w /\ target[t] = "unborn" THEN "live" ELSE target[t]
    BY <1>4, <1>a DEF SeedWord, TypeOK
  <2>3. target' \in [Targets -> {"unborn", "live", "gone"}]
    BY <1>4, <1>a DEF SeedWord, TypeOK
  <2> QED
    BY <1>4, <2>1, <2>2, <2>3 DEF SeedWord, Hold
<1>5. CASE LoadDefinitions(p)
  <2> DEFINE w == req[p].word
  <2>1. w \in Words /\ UNCHANGED <<target, rows>>
    BY <1>5, <1>b, <1>c DEF LoadDefinitions
  <2>2. PICK new \in {{}} \cup {{d} : d \in Fresh(w)} :
          req' = [req EXCEPT ![p] = Record("updateRow", w, DefinitionsOf(w) \cup new)]
    BY <1>5 DEF LoadDefinitions, Hold
  <2>3. new \subseteq Fresh(w)
    BY <2>2
  <2>4. \A d \in DefinitionsOf(w) \cup new :
           d \in Definitions /\ WordOf[d] = w /\ target[d] # "gone"
    BY <1>d, <2>1, <2>3 DEF DefinitionsOf, Exists
  <2> HIDE DEF w
  <2>5. Held(p, Record("updateRow", w, DefinitionsOf(w) \cup new))
    BY <1>b, <2>1, <2>4, HoldIsHeld
  <2> QED
    BY <2>1, <2>2, <2>5 DEF TypeOK
<1>6. CASE UpdateRow(p)
  <2>1. Held(p, Record("deleteDefinitions", req[p].word, req[p].put))
    BY <1>6, <1>b, <1>c, HoldIsHeld DEF UpdateRow
  <2> QED
    BY <1>6, <2>1 DEF UpdateRow, Hold, TypeOK
<1>7. CASE DeleteDefinitions(p)
  <2>1. Held(p, Record("insert", req[p].word, req[p].put))
    BY <1>7, <1>b, <1>c, HoldIsHeld DEF DeleteDefinitions
  <2>2. /\ target' \in [Targets -> {"unborn", "live", "gone"}]
        /\ \A t \in Targets : target'[t] \in {"gone", target[t]}
    BY <1>7 DEF DeleteDefinitions, TypeOK
  <2> QED
    BY <1>7, <2>1, <2>2 DEF DeleteDefinitions, Hold
<1>8. CASE UpsertDefinition(p)
  <2>1. PICK d \in req[p].put :
          /\ target' = [target EXCEPT ![d] = "live"]
          /\ req' = [req EXCEPT ![p] = Record("insert", req[p].word, req[p].put \ {d})]
    BY <1>8 DEF UpsertDefinition, Hold
  <2>2. d \in Targets /\ Carries(p, d)
    BY <1>8, <1>a, <1>b, <1>c DEF UpsertDefinition
  <2>3. Held(p, Record("insert", req[p].word, req[p].put \ {d}))
    BY <1>8, <1>b, <1>c, HoldIsHeld DEF UpsertDefinition
  <2>4. /\ target' \in [Targets -> {"unborn", "live", "gone"}]
        /\ \A t \in Targets : target'[t] = IF t = d THEN "live" ELSE target[t]
    BY <2>1, <2>2 DEF TypeOK
  <2> QED
    BY <1>8, <2>1, <2>2, <2>3, <2>4 DEF UpsertDefinition
<1>9. CASE Answer(p)
  <2>1. Held(p, Idle)
    BY DEF Held, Request, Idle, Writing
  <2> QED
    BY <1>9, <2>1 DEF Answer, End, TypeOK
<1> QED
  BY <1>1, <1>2, <1>3, <1>4, <1>5, <1>6, <1>7, <1>8, <1>9 DEF StartWrite, ContinueWrite

-----------------------------------------------------------------------------
(* Types. *)

\* Every step keeps everything well typed, and nothing names a target that
\* never was.
LEMMA TypeStep == TypeOK /\ [Next]_vars => TypeOK'
<1> SUFFICES ASSUME TypeOK, [Next]_vars PROVE TypeOK'
  OBVIOUS
<1> USE DEF rows
<1>a. /\ Idle \in Request /\ Idle.pc = "idle" /\ Words \subseteq Targets
      /\ {"idle", "vote", "unvote", "bookmark", "comment"} \cap Writing = {}
  BY DEF Request, Idle, Targets, Writing
<1>b. ASSUME NEW p \in Procs, End(p)
      PROVE  /\ req' \in [Procs -> Request] /\ UNCHANGED target
             /\ \A q \in Procs : req'[q] = IF q = p THEN Idle ELSE req[q]
  BY <1>a, <1>b DEF End, TypeOK
<1>1. ASSUME NEW p \in Procs, Start(p) PROVE TypeOK'
  <2>1. PICK r \in Request : Begin(p, r) /\ Checked(r)
    BY <1>1, StartChecks
  <2>2. /\ req' \in [Procs -> Request] /\ UNCHANGED <<target, rows>>
        /\ \A q \in Procs : req'[q] = IF q = p THEN r ELSE req[q]
    BY <2>1 DEF Begin, TypeOK
  <2> QED
    BY <2>1, <2>2 DEF TypeOK, Checked, Exists, There
<1>2. ASSUME NEW p \in Procs, UpsertVote(p) PROVE TypeOK'
  <2>1. req[p].user \in Users /\ req[p].target \in Targets /\ req[p].value \in Value
    BY <1>2, Holds DEF UpsertVote, TypeOK
  <2>2. /\ votes' \in [Users -> [Targets -> Value \cup {"none"}]]
        /\ \A u \in Users, t \in Targets :
              t # req[p].target => votes'[u][t] = votes[u][t]
    BY <1>2, <2>1 DEF UpsertVote, TypeOK
  <2>3. target[req[p].target] # "unborn"
    BY <1>2, <2>1 DEF UpsertVote, TypeOK
  <2> QED
    BY <1>2, <1>a, <1>b, <2>2, <2>3 DEF UpsertVote, TypeOK, There
<1>3. ASSUME NEW p \in Procs, DeleteVote(p) PROVE TypeOK'
  <2>1. req[p].user \in Users /\ req[p].target \in Targets
    BY <1>3, Holds DEF DeleteVote, TypeOK
  <2>2. /\ votes' \in [Users -> [Targets -> Value \cup {"none"}]]
        /\ \A u \in Users, t \in Targets : votes'[u][t] \in {"none", votes[u][t]}
    BY <1>3, <2>1 DEF DeleteVote, TypeOK
  <2> QED
    BY <1>3, <1>a, <1>b, <2>2 DEF DeleteVote, TypeOK, There
<1>4. ASSUME NEW p \in Procs, CreateBookmark(p) PROVE TypeOK'
  <2>1. req[p].user \in Users /\ req[p].word \in Words
    BY <1>4, Holds DEF CreateBookmark, TypeOK
  <2>2. target[req[p].word] # "unborn"
    BY <1>4, <1>a, <2>1 DEF CreateBookmark, TypeOK
  <2> QED
    BY <1>4, <1>a, <1>b, <2>1, <2>2 DEF CreateBookmark, TypeOK, There
<1>5. ASSUME NEW p \in Procs, DeleteBookmark(p) PROVE TypeOK'
  BY <1>5, <1>a, <1>b DEF DeleteBookmark, TypeOK, There
<1>6. ASSUME NEW p \in Procs, CreateComment(p) PROVE TypeOK'
  <2>1. req[p].user \in Users /\ req[p].word \in Words /\ req[p].body \in Bodies
    BY <1>6, Holds DEF CreateComment, TypeOK
  <2> DEFINE new == NewComment(req[p].user, req[p].word, req[p].body)
  <2>2. new \in Comment /\ new.word = req[p].word
    BY <2>1 DEF NewComment, Comment
  <2>3. PICK c \in Comments : comments' = [comments EXCEPT ![c] = new]
    BY <1>6 DEF CreateComment
  <2>4. target[req[p].word] # "unborn"
    BY <1>6, <1>a, <2>1 DEF CreateComment, TypeOK
  <2> HIDE DEF new
  <2>5. /\ comments' \in [Comments -> Comment \cup {Unborn, Gone}]
        /\ \A d \in Comments : comments'[d] = IF d = c THEN new ELSE comments[d]
    BY <2>2, <2>3 DEF TypeOK
  <2> QED
    BY <1>6, <1>a, <1>b, <2>2, <2>4, <2>5 DEF CreateComment, TypeOK, There
<1>7. ASSUME NEW p \in Procs, UpdateComment(p) PROVE TypeOK'
  <2>1. req[p].id \in Comments /\ req[p].copy \in Comment
    BY <1>7, Holds DEF UpdateComment, TypeOK
  <2> DEFINE new == [comments[req[p].id] EXCEPT !.body = req[p].copy.body]
  <2>2. There(req[p].id) => new \in Comment /\ new.word = comments[req[p].id].word
    BY <2>1, ThereRow DEF Comment
  <2>3. comments' = IF There(req[p].id) THEN [comments EXCEPT ![req[p].id] = new]
                    ELSE comments
    BY <1>7 DEF UpdateComment
  <2> HIDE DEF new
  <2>4. /\ comments' \in [Comments -> Comment \cup {Unborn, Gone}]
        /\ \A d \in Comments : comments'[d] = IF d = req[p].id /\ There(d)
                                              THEN new ELSE comments[d]
    BY <2>1, <2>2, <2>3 DEF TypeOK
  <2> QED
    BY <1>7, <1>a, <1>b, <2>2, <2>4 DEF UpdateComment, TypeOK, There
<1>8. ASSUME NEW p \in Procs, DeleteCommentRow(p) PROVE TypeOK'
  <2>1. req[p].id \in Comments
    BY <1>8, Holds DEF DeleteCommentRow, TypeOK
  <2>2. /\ comments' \in [Comments -> Comment \cup {Unborn, Gone}]
        /\ \A d \in Comments : comments'[d] = IF d = req[p].id THEN Gone ELSE comments[d]
    BY <1>8, <2>1 DEF DeleteCommentRow, TypeOK
  <2>3. Gone.state # "there"
    BY DEF Gone
  <2> QED
    BY <1>8, <1>a, <1>b, <2>2, <2>3 DEF DeleteCommentRow, TypeOK, There
<1>9. ASSUME NEW p \in Procs, Abort(p) PROVE TypeOK'
  BY <1>9, <1>a, <1>b DEF Abort, TypeOK, There
<1>10. ASSUME NEW w \in Words, SoftDeleteWord(w) PROVE TypeOK'
  <2>1. /\ target' \in [Targets -> {"unborn", "live", "gone"}]
        /\ \A t \in Targets : target'[t] = "unborn" => target[t] = "unborn"
    BY <1>10 DEF SoftDeleteWord, TypeOK
  <2> QED
    BY <1>10, <2>1 DEF SoftDeleteWord, TypeOK, There
<1>11. CASE UNCHANGED vars
  BY <1>11 DEF vars, TypeOK, There
<1>12. ASSUME NEW p \in Procs, StartWrite(p) \/ ContinueWrite(p) PROVE TypeOK'
  <2>1. PICK r : Held(p, r) /\ req' = [req EXCEPT ![p] = r]
    BY <1>12, WriteStep
  <2>2. /\ req' \in [Procs -> Request]
        /\ \A q \in Procs : req'[q] = IF q = p THEN r ELSE req[q]
    BY <2>1 DEF Held, TypeOK
  <2>3. /\ r.pc \notin {"vote", "unvote", "bookmark", "comment"}
        /\ r.pc \in Writing => \A d \in r.put : WordOf[d] = r.word
    BY <1>a, <2>1 DEF Held
  <2> QED
    BY <1>12, <2>2, <2>3, WriteStep DEF TypeOK, There
<1> QED
  BY <1>1, <1>2, <1>3, <1>4, <1>5, <1>6, <1>7, <1>8, <1>9, <1>10, <1>11, <1>12
  DEF Next, Continue

\* Every variable keeps its type, and whatever names a word or a definition
\* names one that is stored or was once.
THEOREM TypeCorrect == Spec => []TypeOK
<1>1. Init => TypeOK
  BY DEF Init, TypeOK, Idle, Request, There, Unborn, Targets, Writing
<1> QED
  BY <1>1, TypeStep, PTL DEF Spec

-----------------------------------------------------------------------------
(* Deleted words and definitions. *)

\* What a step does to a deleted target that no request under way found alive:
\* no writer carries it, so none brings it back, and none takes it up.
LEMMA QuietStep ==
    ASSUME TypeOK, Next, NEW t \in Targets, Settled(t)
    PROVE  /\ Settled(t)'
           /\ Voters(t)' \subseteq Voters(t)
           /\ Followers(t)' \subseteq Followers(t)
           /\ Remarks(t)' \subseteq Remarks(t)
<1> DEFINE Quiet == /\ Settled(t)'
                    /\ Voters(t)' \subseteq Voters(t)
                    /\ Followers(t)' \subseteq Followers(t)
                    /\ Remarks(t)' \subseteq Remarks(t)
<1> SUFFICES Quiet
  OBVIOUS
<1> USE DEF rows
<1>a. /\ Idle.pc = "idle" /\ Words \subseteq Targets
      /\ {"idle", "vote", "unvote", "bookmark", "comment"} \cap Writing = {}
  BY DEF Idle, Targets, Writing
<1>b. ASSUME NEW p \in Procs, End(p) PROVE Settled(t)'
  <2>1. UNCHANGED target /\ \A q \in Procs : req'[q] = IF q = p THEN Idle ELSE req[q]
    BY <1>b DEF End, TypeOK
  <2> QED
    BY <1>a, <2>1 DEF Settled
<1>1. ASSUME NEW p \in Procs, Start(p) PROVE Quiet
  <2>1. PICK r \in Request : Begin(p, r) /\ Checked(r)
    BY <1>1, StartChecks
  <2>2. UNCHANGED <<target, rows>> /\ \A q \in Procs : req'[q] = IF q = p THEN r ELSE req[q]
    BY <2>1 DEF Begin, TypeOK
  <2> QED
    BY <2>1, <2>2 DEF Settled, Checked, Exists, Voters, Followers, Remarks, There
<1>2. ASSUME NEW p \in Procs, UpsertVote(p) PROVE Quiet
  <2>1. req[p].user \in Users /\ req[p].target \in Targets /\ req[p].target # t
    BY <1>2, Holds DEF UpsertVote, TypeOK, Settled
  <2>2. \A u \in Users : votes'[u][t] = votes[u][t]
    BY <1>2, <2>1 DEF UpsertVote, TypeOK
  <2> QED
    BY <1>2, <1>b, <2>2 DEF UpsertVote, Voters, Followers, Remarks, There
<1>3. ASSUME NEW p \in Procs, DeleteVote(p) PROVE Quiet
  <2>1. req[p].user \in Users /\ req[p].target \in Targets
    BY <1>3, Holds DEF DeleteVote, TypeOK
  <2>2. \A u \in Users : votes'[u][t] \in {"none", votes[u][t]}
    BY <1>3, <2>1 DEF DeleteVote, TypeOK
  <2> QED
    BY <1>3, <1>b, <2>2 DEF DeleteVote, Voters, Followers, Remarks, There
<1>4. ASSUME NEW p \in Procs, CreateBookmark(p) PROVE Quiet
  <2>1. req[p].word # t
    BY <1>4 DEF CreateBookmark, Settled
  <2> QED
    BY <1>4, <1>b, <2>1 DEF CreateBookmark, Voters, Followers, Remarks, There
<1>5. ASSUME NEW p \in Procs, DeleteBookmark(p) PROVE Quiet
  BY <1>5, <1>b DEF DeleteBookmark, Voters, Followers, Remarks, There
<1>6. ASSUME NEW p \in Procs, CreateComment(p) PROVE Quiet
  <2> DEFINE new == NewComment(req[p].user, req[p].word, req[p].body)
  <2>1. new.word # t
    BY <1>6 DEF CreateComment, Settled, NewComment
  <2>2. PICK c \in Comments : comments' = [comments EXCEPT ![c] = new]
    BY <1>6 DEF CreateComment
  <2> HIDE DEF new
  <2>3. \A d \in Comments : comments'[d] = IF d = c THEN new ELSE comments[d]
    BY <2>2 DEF TypeOK
  <2> QED
    BY <1>6, <1>b, <2>1, <2>3 DEF CreateComment, Voters, Followers, Remarks, There
<1>7. ASSUME NEW p \in Procs, UpdateComment(p) PROVE Quiet
  <2>1. req[p].id \in Comments
    BY <1>7, Holds DEF UpdateComment, TypeOK
  <2> DEFINE new == [comments[req[p].id] EXCEPT !.body = req[p].copy.body]
  <2>2. There(req[p].id) => new.word = comments[req[p].id].word
    BY <2>1, ThereRow DEF Comment
  <2>3. comments' = IF There(req[p].id) THEN [comments EXCEPT ![req[p].id] = new]
                    ELSE comments
    BY <1>7 DEF UpdateComment
  <2> HIDE DEF new
  <2>4. \A d \in Comments : comments'[d] = IF d = req[p].id /\ There(d)
                                           THEN new ELSE comments[d]
    BY <2>3 DEF TypeOK
  <2> QED
    BY <1>7, <1>b, <2>2, <2>4 DEF UpdateComment, Voters, Followers, Remarks, There
<1>8. ASSUME NEW p \in Procs, DeleteCommentRow(p) PROVE Quiet
  <2>1. \A d \in Comments : comments'[d] \in {Gone, comments[d]}
    BY <1>8 DEF DeleteCommentRow, TypeOK
  <2>2. Gone.state # "there"
    BY DEF Gone
  <2> QED
    BY <1>8, <1>b, <2>1, <2>2 DEF DeleteCommentRow, Voters, Followers, Remarks, There
<1>9. ASSUME NEW p \in Procs, Abort(p) PROVE Quiet
  BY <1>9, <1>b DEF Abort, Voters, Followers, Remarks, There
<1>10. ASSUME NEW w \in Words, SoftDeleteWord(w) PROVE Quiet
  <2>1. target'[t] = "gone"
    BY <1>10 DEF SoftDeleteWord, TypeOK, Settled
  <2> QED
    BY <1>10, <2>1 DEF SoftDeleteWord, Settled, Voters, Followers, Remarks, There
<1>11. ASSUME NEW p \in Procs, StartWrite(p) \/ ContinueWrite(p) PROVE Quiet
  <2>1. PICK r : Held(p, r) /\ req' = [req EXCEPT ![p] = r]
    BY <1>11, WriteStep
  <2>2. \A q \in Procs : req'[q] = IF q = p THEN r ELSE req[q]
    BY <2>1 DEF TypeOK
  <2>3. target[t] = "gone" /\ ~Carries(p, t)
    BY DEF Settled, Carries
  <2>4. target'[t] = "gone" /\ UNCHANGED rows
    BY <1>11, <2>3, WriteStep
  <2>5. /\ r.pc \notin {"vote", "unvote", "bookmark", "comment"}
        /\ r.pc \in Writing => t \notin r.put
    BY <1>a, <2>1, <2>3 DEF Held
  <2>6. Settled(t)'
    BY <2>2, <2>4, <2>5 DEF Settled
  <2> QED
    BY <2>4, <2>6 DEF Voters, Followers, Remarks, There
<1> HIDE DEF Quiet
<1> QED
  BY <1>1, <1>2, <1>3, <1>4, <1>5, <1>6, <1>7, <1>8, <1>9, <1>10, <1>11 DEF Next, Continue

\* Once the requests that found it alive are over, a deleted word or definition
\* is not inserted again, and nobody adds a vote, a bookmark or a comment to it.
THEOREM DeletedStaysQuiet == Spec => DeletedTargetsQuiet
<1>1. TypeOK /\ [Next]_vars =>
        [\A t \in Targets : Settled(t) =>
            /\ Settled(t)'
            /\ Voters(t)' \subseteq Voters(t)
            /\ Followers(t)' \subseteq Followers(t)
            /\ Remarks(t)' \subseteq Remarks(t)]_vars
  BY QuietStep
<1> QED
  BY <1>1, TypeCorrect, PTL DEF Spec, DeletedTargetsQuiet

-----------------------------------------------------------------------------
(* Comments. *)

\* What a step does to a comment and its text.
LEMMA TextStep ==
    ASSUME TypeOK, Next, NEW c \in Comments
    PROVE  /\ comments[c] = Gone => comments'[c] = Gone
           /\ There(c) /\ There(c)' /\ TextSettled(c) =>
                \/ TextSettled(c)' /\ comments'[c].body = comments[c].body
                \/ \E p \in Procs : /\ req[p] = Idle
                                    /\ req'[p].pc = "update" /\ req'[p].id = c
                                    /\ req'[p].user = comments[c].user
<1> DEFINE Stays == comments[c] = Gone => comments'[c] = Gone
           Kept == There(c) /\ There(c)' /\ TextSettled(c) =>
                      TextSettled(c)' /\ comments'[c].body = comments[c].body
           Edit == \E p \in Procs : /\ req[p] = Idle
                                    /\ req'[p].pc = "update" /\ req'[p].id = c
                                    /\ req'[p].user = comments[c].user
<1> SUFFICES Stays /\ (Kept \/ Edit)
  OBVIOUS
<1> USE DEF rows
<1>a. Idle.pc = "idle"
  BY DEF Idle
<1>b. Gone # Unborn /\ Gone.state # "there" /\ Unborn.state # "there"
  BY DEF Gone, Unborn
<1>c. ASSUME NEW p \in Procs, End(p) PROVE \A q \in Procs : req'[q] = IF q = p THEN Idle ELSE req[q]
  BY <1>c DEF End, TypeOK
<1>d. ASSUME NEW p \in Procs, End(p), comments'[c] = comments[c] PROVE Stays /\ Kept
  BY <1>a, <1>c, <1>d DEF TextSettled
<1>1. ASSUME NEW p \in Procs, Start(p) PROVE Stays /\ (Kept \/ Edit)
  <2>1. PICK r \in Request : Begin(p, r) /\ Checked(r)
    BY <1>1, StartChecks
  <2>2. /\ UNCHANGED <<target, rows>> /\ req[p] = Idle
        /\ \A q \in Procs : req'[q] = IF q = p THEN r ELSE req[q]
    BY <2>1 DEF Begin, TypeOK
  <2>3. CASE r.pc = "update" /\ r.id = c /\ r.user = comments[c].user
    BY <2>2, <2>3
  <2>4. CASE ~(r.pc = "update" /\ r.id = c /\ r.user = comments[c].user)
    BY <2>1, <2>2, <2>4 DEF Checked, TextSettled
  <2> QED
    BY <2>3, <2>4
<1>2. ASSUME NEW p \in Procs, CreateComment(p) PROVE Stays /\ Kept
  <2>1. PICK d \in Comments :
          /\ comments[d] = Unborn
          /\ comments' = [comments EXCEPT ![d] = NewComment(req[p].user, req[p].word, req[p].body)]
    BY <1>2 DEF CreateComment
  <2>2. CASE d = c
    BY <1>b, <2>1, <2>2 DEF There
  <2>3. CASE d # c
    BY <1>2, <1>d, <2>1, <2>3 DEF CreateComment, TypeOK
  <2> QED
    BY <2>2, <2>3
<1>3. ASSUME NEW p \in Procs, UpdateComment(p) PROVE Stays /\ Kept
  <2>1. req[p].id \in Comments
    BY <1>3, Holds DEF UpdateComment, TypeOK
  <2>2. CASE req[p].id = c /\ There(c)
    <3>1. comments'[c] = [comments[c] EXCEPT !.body = req[p].copy.body]
      BY <1>3, <2>2 DEF UpdateComment, TypeOK
    <3>2. comments'[c].body = req[p].copy.body
      BY <2>2, <3>1, ThereRow DEF Comment
    <3>3. TextSettled(c) => req[p].copy.body = comments[c].body
      BY <1>3, <2>2 DEF TextSettled, UpdateComment
    <3>4. Stays
      BY <1>b, <2>2 DEF There
    <3>5. Kept
      BY <1>3, <1>a, <1>c, <3>2, <3>3 DEF UpdateComment, TextSettled
    <3> QED
      BY <3>4, <3>5
  <2>3. CASE ~(req[p].id = c /\ There(c))
    <3>1. comments'[c] = comments[c]
      BY <1>3, <2>1, <2>3 DEF UpdateComment, TypeOK
    <3> QED
      BY <1>3, <1>d, <3>1 DEF UpdateComment
  <2> QED
    BY <2>2, <2>3
<1>4. ASSUME NEW p \in Procs, DeleteCommentRow(p) PROVE Stays /\ Kept
  <2>1. comments'[c] = Gone \/ comments'[c] = comments[c]
    BY <1>4 DEF DeleteCommentRow, TypeOK
  <2>2. CASE comments'[c] = Gone
    BY <1>b, <2>2 DEF There
  <2>3. CASE comments'[c] = comments[c]
    BY <1>4, <1>d, <2>3 DEF DeleteCommentRow
  <2> QED
    BY <2>1, <2>2, <2>3
<1>5. ASSUME NEW p \in Procs,
             UpsertVote(p) \/ DeleteVote(p) \/ CreateBookmark(p) \/ DeleteBookmark(p) \/ Abort(p)
      PROVE  Stays /\ Kept
  BY <1>5, <1>d DEF UpsertVote, DeleteVote, CreateBookmark, DeleteBookmark, Abort
<1>6. ASSUME NEW w \in Words, SoftDeleteWord(w) PROVE Stays /\ Kept
  BY <1>6 DEF SoftDeleteWord, TextSettled
<1>7. ASSUME NEW p \in Procs, StartWrite(p) \/ ContinueWrite(p) PROVE Stays /\ Kept
  <2>1. PICK r : Held(p, r) /\ req' = [req EXCEPT ![p] = r]
    BY <1>7, WriteStep
  <2>2. \A q \in Procs : req'[q] = IF q = p THEN r ELSE req[q]
    BY <2>1 DEF TypeOK
  <2>3. r.pc # "update" /\ UNCHANGED comments
    BY <1>7, <1>a, <2>1, WriteStep DEF Held, Writing
  <2> QED
    BY <2>2, <2>3 DEF TextSettled
<1> HIDE DEF Stays, Kept, Edit
<1> QED
  BY <1>1, <1>2, <1>3, <1>4, <1>5, <1>6, <1>7 DEF Next, Continue

\* The text of a comment changes only through an edit its author began; a flag
\* alone, though it writes the text as well, does not change it.
THEOREM OnlyAuthorsEdit == Spec => TextIsTheAuthors
<1>1. TypeOK /\ [Next]_vars =>
        [\A c \in Comments : There(c) /\ There(c)' /\ TextSettled(c) =>
            \/ TextSettled(c)' /\ comments'[c].body = comments[c].body
            \/ \E p \in Procs : /\ req[p] = Idle
                                /\ req'[p].pc = "update" /\ req'[p].id = c
                                /\ req'[p].user = comments[c].user]_vars
  BY TextStep
<1> QED
  BY <1>1, TypeCorrect, PTL DEF Spec, TextIsTheAuthors

\* A deleted comment does not come back, whatever copies of it are pending.
THEOREM DeletionOfCommentFinal == Spec => DeletedCommentStays
<1>1. TypeOK /\ [Next]_vars =>
        [\A c \in Comments : comments[c] = Gone => comments'[c] = Gone]_vars
  BY TextStep
<1> QED
  BY <1>1, TypeCorrect, PTL DEF Spec, DeletedCommentStays
=============================================================================
