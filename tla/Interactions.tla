---------------------------- MODULE Interactions ----------------------------
(***************************************************************************)
(* Votes, bookmarks and comments: VoteService, BookmarkService and         *)
(* CommentService with their repositories.  Every request checks in one    *)
(* statement and writes in another; meanwhile the dictionary deletes words *)
(* and replaces definitions, and other requests write the same rows.  To   *)
(* replace definitions is to delete them and to insert others, one by one, *)
(* or, when an AI output is merged, the same ones under the same ids.      *)
(*                                                                         *)
(* A vote names its target by an id no foreign key guards.  An edit and a  *)
(* flag both read a comment and write back the text of their copy: the     *)
(* flag that FlagComment sets in memory is not among the columns written.  *)
(***************************************************************************)

CONSTANTS Users,        \* authenticated callers
          Words,        \* UUIDs of words
          Definitions,  \* UUIDs of definitions
          Comments,     \* UUIDs of comments
          Bodies,       \* texts of comments
          WordOf,       \* WordOf[d]: the word that definition d is made for
          Procs         \* concurrent requests

ASSUME TargetsAssumption ==
    Words \cap Definitions = {} /\ WordOf \in [Definitions -> Words]

VARIABLES target,     \* target[t]: a word or definition that is unborn, live or gone
          votes,      \* votes[u][t]: the row of votes, by its unique key
          bookmarks,  \* pairs <<u, w>>, the unique key of bookmarks
          comments,   \* comments[c]: its row, if it is there
          req         \* req[p]: the request p is in the middle of

vars == <<target, votes, bookmarks, comments, req>>
rows == <<votes, bookmarks, comments>>

Targets == Words \cup Definitions
Value == {"up", "down"}
Unborn == [state |-> "unborn"]
Gone == [state |-> "gone"]
Comment == [state : {"there"}, user : Users, word : Words, body : Bodies, flagged : BOOLEAN]

\* put: the definitions a request holds for a word and has not inserted yet.
Idle == [pc |-> "idle"]
Writing == {"load", "updateRow", "deleteDefinitions", "insert"}
Request ==
    {Idle} \cup
    [pc : {"vote"}, user : Users, target : Targets, value : Value] \cup
    [pc : {"unvote"}, user : Users, target : Targets] \cup
    [pc : {"bookmark", "unbookmark"}, user : Users, word : Words] \cup
    [pc : {"comment"}, user : Users, word : Words, body : Bodies] \cup
    [pc : {"update"}, user : Users, id : Comments, copy : Comment] \cup
    [pc : {"delete"}, id : Comments] \cup
    [pc : Writing, word : Words, put : SUBSET Definitions]

Init ==
    /\ target = [t \in Targets |-> "unborn"]
    /\ votes = [u \in Users |-> [t \in Targets |-> "none"]]
    /\ bookmarks = {}
    /\ comments = [c \in Comments |-> Unborn]
    /\ req = [p \in Procs |-> Idle]

ExistsDeleted(t) == target[t] # "unborn"   \* mutant: deleted_at IS NULL is left out

\* WordExistChecker and DefinitionExistChecker.
Exists(t) == target[t] = "live"

There(c) == comments[c].state = "there"

\* NewComment, Comment.Edit and Comment.Flag: what they make of a copy.
NewComment(u, w, b) ==
    [state |-> "there", user |-> u, word |-> w, body |-> b, flagged |-> FALSE]
MayEdit(comment, u) == comment.user = u
Edited(comment, b) == [comment EXCEPT !.body = b]
Flagged(comment) == [comment EXCEPT !.flagged = TRUE]

\* The first statement of a request holds; the request goes on to its second.
Begin(p, r) == req[p] = Idle /\ req' = [req EXCEPT ![p] = r] /\ UNCHANGED <<target, rows>>
End(p) == req' = [req EXCEPT ![p] = Idle] /\ UNCHANGED target

-----------------------------------------------------------------------------
(* Votes. *)

CastVoteUnchecked(p, u, t, v) ==   \* mutant: the target is not looked up
    Begin(p, [pc |-> "vote", user |-> u, target |-> t, value |-> v])

\* POST /words/:id/votes and /definitions/:id/votes.
CastVote(p, u, t, v) ==
    /\ Exists(t)
    /\ Begin(p, [pc |-> "vote", user |-> u, target |-> t, value |-> v])

\* INSERT ... ON CONFLICT (user_id, target_type, target_id) DO UPDATE.
UpsertVote(p) ==
    LET r == req[p] IN
    /\ r.pc = "vote"
    /\ votes' = [votes EXCEPT ![r.user][r.target] = r.value]
    /\ End(p) /\ UNCHANGED <<bookmarks, comments>>

\* DELETE /words/:id/votes and /definitions/:id/votes: there must be a vote,
\* its target is not looked at.
RemoveVote(p, u, t) ==
    /\ votes[u][t] # "none"
    /\ Begin(p, [pc |-> "unvote", user |-> u, target |-> t])

DeleteVote(p) ==
    LET r == req[p] IN
    /\ r.pc = "unvote"
    /\ votes' = [votes EXCEPT ![r.user][r.target] = "none"]
    /\ End(p) /\ UNCHANGED <<bookmarks, comments>>

-----------------------------------------------------------------------------
(* Bookmarks. *)

\* POST /bookmarks.
AddBookmark(p, u, w) ==
    /\ Exists(w)
    /\ Begin(p, [pc |-> "bookmark", user |-> u, word |-> w])

\* The unique key refuses a second row; the word's row, deleted softly or not,
\* is there for the foreign key.
CreateBookmark(p) ==
    LET r == req[p] IN
    /\ r.pc = "bookmark"
    /\ bookmarks' = bookmarks \cup {<<r.user, r.word>>}
    /\ End(p) /\ UNCHANGED <<votes, comments>>

\* DELETE /bookmarks/:word_id.
RemoveBookmark(p, u, w) ==
    /\ <<u, w>> \in bookmarks
    /\ Begin(p, [pc |-> "unbookmark", user |-> u, word |-> w])

DeleteBookmark(p) ==
    LET r == req[p] IN
    /\ r.pc = "unbookmark"
    /\ bookmarks' = bookmarks \ {<<r.user, r.word>>}
    /\ End(p) /\ UNCHANGED <<votes, comments>>

-----------------------------------------------------------------------------
(* Comments. *)

\* POST /words/:id/comments.
PostComment(p, u, w, b) ==
    /\ Exists(w)
    /\ Begin(p, [pc |-> "comment", user |-> u, word |-> w, body |-> b])

CreateComment(p) ==
    LET r == req[p] IN
    /\ r.pc = "comment"
    /\ \E c \in Comments :
          /\ comments[c] = Unborn
          /\ comments' = [comments EXCEPT ![c] = NewComment(r.user, r.word, r.body)]
    /\ End(p) /\ UNCHANGED <<votes, bookmarks>>

EditAnyones(p, u, c, b) ==         \* mutant: the caller is not compared with the author
    /\ There(c)
    /\ Begin(p, [pc |-> "update", user |-> u, id |-> c,
                copy |-> Edited(comments[c], b)])

\* PATCH /comments/:id, by the author.
EditComment(p, u, c, b) ==
    /\ There(c) /\ MayEdit(comments[c], u)
    /\ Begin(p, [pc |-> "update", user |-> u, id |-> c,
                copy |-> Edited(comments[c], b)])

\* POST /comments/:id/flag, by anybody.
FlagComment(p, u, c) ==
    /\ There(c)
    /\ Begin(p, [pc |-> "update", user |-> u, id |-> c,
                copy |-> Flagged(comments[c])])

UpdateUpserts(p) ==                \* mutant: the copy is stored if the row is gone
    LET r == req[p] IN
    /\ r.pc = "update"
    /\ comments' = [comments EXCEPT ![r.id] = r.copy]
    /\ End(p) /\ UNCHANGED <<votes, bookmarks>>

\* UPDATE comments SET body: the flag of the copy is not stored, and a row
\* deleted meanwhile is a 404.
UpdateComment(p) ==
    LET r == req[p] IN
    /\ r.pc = "update"
    /\ comments' = IF There(r.id) THEN [comments EXCEPT ![r.id].body = r.copy.body]
                   ELSE comments
    /\ End(p) /\ UNCHANGED <<votes, bookmarks>>

\* DELETE /comments/:id, by the author or an admin.
DeleteComment(p, u, role, c) ==
    /\ There(c) /\ (role = "admin" \/ comments[c].user = u)
    /\ Begin(p, [pc |-> "delete", id |-> c])

DeleteCommentRow(p) ==
    LET r == req[p] IN
    /\ r.pc = "delete"
    /\ comments' = [comments EXCEPT ![r.id] = Gone]
    /\ End(p) /\ UNCHANGED <<votes, bookmarks>>

-----------------------------------------------------------------------------
(* Failures, and the dictionary. *)

\* The second statement fails, or the process stops before it.
Abort(p) ==
    /\ req[p] # Idle
    /\ End(p) /\ UNCHANGED rows

\* The rows of definitions with word_id w.
DefinitionsOf(w) ==
    {d \in Definitions : WordOf[d] = w /\ Exists(d)}

\* The new UUIDs for definitions of w.
Fresh(w) ==
    {d \in Definitions :
        /\ WordOf[d] = w /\ target[d] = "unborn"
        /\ \A p \in Procs : req[p].pc \in Writing => d \notin req[p].put}

Hold(p, pc, w, put) == req' = [req EXCEPT ![p] = [pc |-> pc, word |-> w, put |-> put]]

\* POST /admin/words: the row, then its definitions.
CreateWord(p, w, new) ==
    /\ req[p] = Idle /\ target[w] = "unborn"
    /\ target' = [target EXCEPT ![w] = "live"]
    /\ Hold(p, "insert", w, new)
    /\ UNCHANGED rows

\* PATCH /admin/words/:id: new definitions take the place of all that are there.
UpdateWord(p, w, new) ==
    /\ Exists(w)
    /\ Begin(p, [pc |-> "updateRow", word |-> w, put |-> new])

\* mergeAIOutput: the definitions that are there, and at most one that is new,
\* take the place of all that are there by then.
MergeWord(p, w) ==
    /\ Exists(w)
    /\ Begin(p, [pc |-> "load", word |-> w, put |-> {}])

LoadDefinitions(p) ==
    /\ req[p].pc = "load"
    /\ \E new \in {{}} \cup {{d} : d \in Fresh(req[p].word)} :
          Hold(p, "updateRow", req[p].word, DefinitionsOf(req[p].word) \cup new)
    /\ UNCHANGED <<target, rows>>

\* The seeder: a row that is there, deleted or not, stays as it is; an error of
\* the DELETE is dropped, and errors of INSERTs leave fewer definitions.
SeedWord(p, w, new) ==
    /\ req[p] = Idle
    /\ target' = [target EXCEPT ![w] = IF @ = "unborn" THEN "live" ELSE @]
    /\ Hold(p, "deleteDefinitions", w, new) \/ Hold(p, "insert", w, new)
    /\ UNCHANGED rows

\* UPDATE words ... WHERE deleted_at IS NULL.
UpdateRow(p) ==
    /\ req[p].pc = "updateRow" /\ Exists(req[p].word)
    /\ Hold(p, "deleteDefinitions", req[p].word, req[p].put)
    /\ UNCHANGED <<target, rows>>

DeleteDefinitions(p) ==
    /\ req[p].pc = "deleteDefinitions"
    /\ target' = [t \in Targets |-> IF t \in DefinitionsOf(req[p].word) THEN "gone" ELSE target[t]]
    /\ Hold(p, "insert", req[p].word, req[p].put)
    /\ UNCHANGED rows

\* INSERT INTO definitions ... ON CONFLICT (id) DO UPDATE: a definition that
\* was read before it was deleted comes back.
UpsertDefinition(p) ==
    /\ req[p].pc = "insert"
    /\ \E d \in req[p].put :
          /\ target' = [target EXCEPT ![d] = "live"]
          /\ Hold(p, "insert", req[p].word, req[p].put \ {d})
    /\ UNCHANGED rows

Answer(p) ==
    /\ req[p].pc = "insert" /\ req[p].put = {}
    /\ End(p) /\ UNCHANGED rows

\* DELETE /admin/words/:id: the definitions stay.
SoftDeleteWord(w) ==
    /\ Exists(w)
    /\ target' = [target EXCEPT ![w] = "gone"]
    /\ UNCHANGED <<rows, req>>

-----------------------------------------------------------------------------
(* The handlers: any caller with a token, and any ids and values that parse. *)

castVote(p) == \E u \in Users, t \in Targets, v \in Value : CastVote(p, u, t, v)
removeVote(p) == \E u \in Users, t \in Targets : RemoveVote(p, u, t)
HandleAddBookmark(p) == \E u \in Users, w \in Words : AddBookmark(p, u, w)
HandleRemoveBookmark(p) == \E u \in Users, w \in Words : RemoveBookmark(p, u, w)
HandlePostComment(p) == \E u \in Users, w \in Words, b \in Bodies : PostComment(p, u, w, b)
HandleEditComment(p) ==
    \E u \in Users, c \in Comments, b \in Bodies : EditComment(p, u, c, b)
HandleDeleteComment(p) ==
    \E u \in Users, role \in {"user", "admin"}, c \in Comments : DeleteComment(p, u, role, c)
HandleFlagComment(p) == \E u \in Users, c \in Comments : FlagComment(p, u, c)

\* The routes.
Start(p) ==
    \/ castVote(p) \/ removeVote(p)
    \/ HandleAddBookmark(p) \/ HandleRemoveBookmark(p)
    \/ HandlePostComment(p) \/ HandleEditComment(p)
    \/ HandleDeleteComment(p) \/ HandleFlagComment(p)

\* What writes words.
StartWrite(p) ==
    \E w \in Words :
       \/ MergeWord(p, w)
       \/ \E new \in SUBSET Fresh(w) :
             CreateWord(p, w, new) \/ UpdateWord(p, w, new) \/ SeedWord(p, w, new)

Continue(p) ==
    \/ UpsertVote(p) \/ DeleteVote(p)
    \/ CreateBookmark(p) \/ DeleteBookmark(p)
    \/ CreateComment(p) \/ UpdateComment(p) \/ DeleteCommentRow(p)

ContinueWrite(p) ==
    \/ LoadDefinitions(p) \/ UpdateRow(p) \/ DeleteDefinitions(p)
    \/ UpsertDefinition(p) \/ Answer(p)

Next ==
    \/ \E p \in Procs :
         \/ Start(p) \/ Continue(p) \/ Abort(p)
         \/ StartWrite(p) \/ ContinueWrite(p)
    \/ \E w \in Words : SoftDeleteWord(w)

Spec == Init /\ [][Next]_vars

-----------------------------------------------------------------------------
(* Properties. *)

\* Every variable has its type; a vote, a bookmark, a comment and a request
\* under way name a word or definition that is stored or was once (the id of
\* a target that never was is refused by the first statement of each request).
\* A request holds definitions of the word it writes only.
TypeOK ==
    /\ target \in [Targets -> {"unborn", "live", "gone"}]
    /\ votes \in [Users -> [Targets -> Value \cup {"none"}]]
    /\ bookmarks \subseteq Users \X Words
    /\ comments \in [Comments -> Comment \cup {Unborn, Gone}]
    /\ req \in [Procs -> Request]
    /\ \A t \in Targets : target[t] = "unborn" =>
          /\ \A u \in Users : votes[u][t] = "none" /\ <<u, t>> \notin bookmarks
          /\ \A c \in Comments : There(c) => comments[c].word # t
          /\ \A p \in Procs :
                /\ req[p].pc \in {"vote", "unvote"} => req[p].target # t
                /\ req[p].pc \in {"bookmark", "comment"} => req[p].word # t
    /\ \A p \in Procs : req[p].pc \in Writing =>
          \A d \in req[p].put : WordOf[d] = req[p].word

\* Who has voted for, bookmarked or commented on t.
Voters(t) == {u \in Users : votes[u][t] # "none"}
Followers(t) == {u \in Users : <<u, t>> \in bookmarks}
Remarks(t) == {c \in Comments : There(c) /\ comments[c].word = t}

\* t is deleted and no request that found it alive is still under way: one
\* that goes on to write about it, or one that will insert it again.
Settled(t) ==
    /\ target[t] = "gone"
    /\ \A p \in Procs :
          /\ req[p].pc = "vote" => req[p].target # t
          /\ req[p].pc \in {"bookmark", "comment"} => req[p].word # t
          /\ req[p].pc \in Writing => t \notin req[p].put

\* The check and the write are two statements and nothing but the check keeps
\* a vote off a deleted target; an AI merge inserts definitions again that it
\* or another request has deleted.  Still, once the requests that found it
\* alive are over, a deleted target does not come back, and no vote, bookmark
\* or comment is added to it any more.
DeletedTargetsQuiet ==
    [][\A t \in Targets : Settled(t) =>
          /\ Settled(t)'
          /\ Voters(t)' \subseteq Voters(t)
          /\ Followers(t)' \subseteq Followers(t)
          /\ Remarks(t)' \subseteq Remarks(t)]_vars

\* No update under way would change the text of c.
TextSettled(c) ==
    \A p \in Procs : req[p].pc = "update" /\ req[p].id = c =>
        req[p].copy.body = comments[c].body

\* The text of a comment changes only through an edit that its author began.
\* A flag, which writes the text as well, leaves it as it is unless an edit is
\* written between its two statements.
TextIsTheAuthors ==
    [][\A c \in Comments : There(c) /\ There(c)' /\ TextSettled(c) =>
          \/ TextSettled(c)' /\ comments'[c].body = comments[c].body
          \/ \E p \in Procs : /\ req[p] = Idle
                              /\ req'[p].pc = "update" /\ req'[p].id = c
                              /\ req'[p].user = comments[c].user]_vars

\* A deleted comment does not come back, whatever copies of it edits and flags
\* still hold.
DeletedCommentStays == [][\A c \in Comments : comments[c] = Gone => comments'[c] = Gone]_vars
=============================================================================
