------------------------------ MODULE Listing ------------------------------
(***************************************************************************)
(* The paginated listings.  A request names a page and a page size; the    *)
(* repository answers it with two autocommitted statements, a COUNT and a  *)
(* SELECT ... ORDER BY ... LIMIT ... OFFSET, in the one order or the       *)
(* other; the handler adds the number of pages.  A client that wants the   *)
(* whole listing asks for page 1, 2, ... up to the number of pages the     *)
(* last answer reported.  Rows enter and leave the listing meanwhile: they *)
(* are inserted and deleted, reviewed, flagged, renamed.                   *)
(*                                                                         *)
(* A row is known by its rank in the ORDER BY columns, and by how often    *)
(* the FROM and WHERE clauses produce it: once, or for a search, which     *)
(* joins a word with its definitions, once per definition that matches.    *)
(* No ORDER BY ends in a unique column: rows of equal rank come in any     *)
(* order, and not in the same one each time.                               *)
(***************************************************************************)
EXTENDS Integers, FiniteSets

CONSTANTS Rows,            \* UUIDs of rows
          MaxRank,         \* ranks are 1..MaxRank
          MaxHits,         \* definitions of a word a search may match
          OffsetBits,      \* width of the integer OFFSET is truncated to (32)
          DefaultPerPage,  \* 20
          MaxPerPage,      \* 100
          MaxPage          \* bound on the page a request names

ASSUME ListingAssumption ==
    /\ OffsetBits \in Nat \ {0} /\ MaxRank \in Nat /\ MaxHits \in Nat \ {0}
    /\ DefaultPerPage \in 1..MaxPerPage /\ MaxPerPage \in Nat
    /\ MaxPage \in Nat \ {0} /\ IsFiniteSet(Rows)
    /\ Cardinality(Rows) < 2 ^ (OffsetBits - 1)

VARIABLES listing, \* which listing is read
          table,   \* table[r]: the row's rank and hits; hits 0 when it is not listed
          req,     \* the request being answered, and its answer
          seen,    \* seen[r]: on how many pages of the walk r was, up to 2 (history)
          steady,  \* rows listed, with a rank of their own, since the walk began (history)
          writes   \* what happened to the table: since the walk began, or, for
                   \* "torn", between the two statements of a request (history)

vars == <<listing, table, req, seen, steady, writes>>
history == <<seen, steady, writes>>

Absent == [rank |-> 0, hits |-> 0]
Row == [rank : 1..MaxRank, hits : 1..MaxHits]
Table == [Rows -> Row \cup {Absent}]

-----------------------------------------------------------------------------
(* The statements. *)

Listed == {r \in Rows : table[r].hits > 0}
Unique(t) == {r \in Rows : t[r].hits > 0 /\ \A s \in Rows \ {r} : t[s].rank # t[r].rank}

CountMatches ==                 \* mutant: DISTINCT is left out
    Cardinality({m \in Rows \X (1..MaxHits) : m[2] <= table[m[1]].hits})

\* The sequences of rows a SELECT with this ORDER BY may return.
Orderings(Before(_, _)) ==
    {s \in [1..Cardinality(Listed) -> Listed] :
        \A i, j \in DOMAIN s : i < j => s[i] # s[j] /\ Before(s[i], s[j])}

Ascending(r, s) == table[r].rank <= table[s].rank
Descending(r, s) == table[r].rank >= table[s].rank

CountWords == Cardinality(Listed)
CountSearchWords == Cardinality(Listed)    \* COUNT(DISTINCT w.id)
CountContributionsByContributor == Cardinality(Listed)
CountAllContributions == Cardinality(Listed)
CountFlaggedComments == Cardinality(Listed)
CountUsersAdmin == Cardinality(Listed)
CountBookmarksByUser == Cardinality(Listed)
CountCommentsByTarget == Cardinality(Listed)
CountAIRequestsByWord == Cardinality(Listed)
CountAIRequestsPendingReview == Cardinality(Listed)

\* created_at DESC and then banjar, or banjar alone.
ListWords(sort) ==
    IF sort = "recently_added" THEN Orderings(Descending) ELSE Orderings(Ascending)

Unordered(r, s) == TRUE
SearchUnordered == Orderings(Unordered)    \* mutant: no ORDER BY
SearchWords == Orderings(Ascending)
ListContributionsByContributor == Orderings(Descending)
ListAllContributions == Orderings(Descending)
ListFlaggedComments == Orderings(Ascending)
ListUsersAdmin == Orderings(Descending)
ListBookmarksByUser == Orderings(Descending)
ListCommentsByTarget == Orderings(Ascending)
ListAIRequestsByWord == Orderings(Descending)
ListAIRequestsPendingReview == Orderings(Ascending)

-----------------------------------------------------------------------------
(* The repositories: which of the two statements comes first. *)

CountFirst(count, orders) == [first |-> "count", count |-> count, orders |-> orders]
ListFirst(orders, count) == [first |-> "list", count |-> count, orders |-> orders]

FindAllCountsFirst(sort) == CountFirst(CountWords, ListWords(sort))   \* mutant: the other order
FindAllWords(sort) == ListFirst(ListWords(sort), CountWords)
Search == ListFirst(SearchWords, CountSearchWords)
FindByContributor ==
    CountFirst(CountContributionsByContributor, ListContributionsByContributor)
FindAllContributions == CountFirst(CountAllContributions, ListAllContributions)
GetPendingContributions == CountFirst(CountAllContributions, ListAllContributions)
GetFlaggedComments == CountFirst(CountFlaggedComments, ListFlaggedComments)
ListUsers == CountFirst(CountUsersAdmin, ListUsersAdmin)
FindByUser == CountFirst(CountBookmarksByUser, ListBookmarksByUser)
FindByTarget == CountFirst(CountCommentsByTarget, ListCommentsByTarget)
ListByWord == CountFirst(CountAIRequestsByWord, ListAIRequestsByWord)
ListPendingReview ==
    CountFirst(CountAIRequestsPendingReview, ListAIRequestsPendingReview)

-----------------------------------------------------------------------------
(* The query service and the handlers: which parser reads the parameters,   *)
(* which repository answers, and how the number of pages is computed.       *)

Parsed(repo, pages) == [params |-> "parse", repo |-> repo, pages |-> pages]
Clamped(repo, pages) == [params |-> "paginate", repo |-> repo, pages |-> pages]

QueryWords(sort) == Parsed(FindAllWords(sort), "TotalPages")
QuerySearch == Parsed(Search, "TotalPages")

GetWords(q, sort) == IF q THEN QuerySearch ELSE QueryWords(sort)
GetContributions(role) ==
    Parsed(IF role = "admin" THEN FindAllContributions ELSE FindByContributor, "inline")
GetModerationQueue == Parsed(GetPendingContributions, "inline")
GetFlags == Parsed(GetFlaggedComments, "inline")
GetUsers == Parsed(ListUsers, "inline")
GetBookmarks == Parsed(FindByUser, "inline")
GetComments == Parsed(FindByTarget, "inline")

\* This handler leaves total_pages at zero, and the client has to divide.
GetAIRequests(byWord) ==
    Clamped(IF byWord THEN ListByWord ELSE ListPendingReview, "none")

Endpoint(l) ==
    CASE l = "words" -> GetWords(FALSE, "alphabetical")
      [] l = "recentWords" -> GetWords(FALSE, "recently_added")
      [] l = "search" -> GetWords(TRUE, "alphabetical")
      [] l = "myContributions" -> GetContributions("user")
      [] l = "contributions" -> GetContributions("admin")
      [] l = "queue" -> GetModerationQueue
      [] l = "flags" -> GetFlags
      [] l = "users" -> GetUsers
      [] l = "bookmarks" -> GetBookmarks
      [] l = "comments" -> GetComments
      [] l = "aiByWord" -> GetAIRequests(TRUE)
      [] l = "aiPending" -> GetAIRequests(FALSE)

Listings == {"words", "recentWords", "search", "myContributions", "contributions",
             "queue", "flags", "users", "bookmarks", "comments", "aiByWord", "aiPending"}

-----------------------------------------------------------------------------
(* Parameters.  What is not an integer is treated like 0. *)

InRange(per) == per \in 1..MaxPerPage

ParseUncapped(page, per) ==      \* mutant: no maximum for per_page
    IF page >= 1 /\ per >= 1 THEN {<<page, per>>} ELSE {}

\* pagination.Parse refuses (422) what is out of range.
Parse(page, per) == IF page >= 1 /\ InRange(per) THEN {<<page, per>>} ELSE {}

\* The AI handler's paginate replaces it.
Paginate(page, per) == {<<IF page < 1 THEN 1 ELSE page,
                          IF InRange(per) THEN per ELSE DefaultPerPage>>}

Params(page, per) ==
    IF Endpoint(listing).params = "parse" THEN Parse(page, per) ELSE Paginate(page, per)

\* int32((page - 1) * perPage).
Offset(page, per) ==
    LET half == 2 ^ (OffsetBits - 1)
    IN  (((page - 1) * per + half) % (2 * half)) - half

TotalPages(total, per) ==
    (total \div per) + (IF total % per # 0 THEN 1 ELSE 0)

-----------------------------------------------------------------------------
(* Requests. *)

Idle == [pc |-> "idle"]

\* pc: the statement to come, or "answered".  walk: part of a client's walk.
Request ==
    [pc : {"count", "list", "answered"}, walk : BOOLEAN, page : Nat \ {0},
     per : 1..MaxPerPage, did : SUBSET {"count", "list"},
     total : 0..Cardinality(Rows), rows : SUBSET Rows]

Ask(walk, page, per) ==
    [pc |-> Endpoint(listing).repo.first, walk |-> walk, page |-> page, per |-> per,
     did |-> {}, total |-> 0, rows |-> {}]

Unseen == [r \in Rows |-> 0]

Init ==
    /\ listing \in Listings
    /\ table \in Table
    /\ \A r \in Rows : table[r].hits <= 1 \/ listing = "search"
    /\ req = Idle
    /\ seen = Unseen
    /\ steady = {}
    /\ writes = {}

\* A client sets out to read the whole listing.
StartWalk(per) ==
    /\ req = Idle
    /\ \E p \in Params(1, per) : req' = Ask(TRUE, p[1], p[2])
    /\ steady' = Unique(table)
    /\ UNCHANGED <<listing, table, seen, writes>>

\* A client asks for some page.
StartPage(page, per) ==
    /\ req = Idle
    /\ \E p \in Params(page, per) : req' = Ask(FALSE, p[1], p[2])
    /\ UNCHANGED <<listing, table, history>>

\* The request after a statement: the other one, or the answer.
Then(done) ==
    [req EXCEPT !.did = @ \cup {done},
                !.pc = IF req.did # {} THEN "answered"
                       ELSE CHOOSE s \in {"count", "list"} : s # done]

Count ==
    /\ req.pc = "count"
    /\ req' = [Then("count") EXCEPT !.total = Endpoint(listing).repo.count]
    /\ UNCHANGED <<listing, table, history>>

\* LIMIT and OFFSET cut a page out of what ORDER BY gives.
List ==
    /\ req.pc = "list"
    /\ LET off == Offset(req.page, req.per)
       IN  /\ off >= 0
           /\ \E s \in Endpoint(listing).repo.orders :
                 LET rows == {s[i] : i \in {j \in DOMAIN s : off < j /\ j <= off + req.per}}
                 IN  /\ req' = [Then("list") EXCEPT !.rows = rows]
                     /\ seen' = [r \in Rows |->
                           IF req.walk /\ r \in rows /\ seen[r] < 2
                           THEN seen[r] + 1 ELSE seen[r]]
    /\ UNCHANGED <<listing, table, steady, writes>>

\* The client has its answer, or an error.
Finish ==
    /\ req' = Idle
    /\ seen' = Unseen
    /\ steady' = {}
    /\ writes' = {}
    /\ UNCHANGED <<listing, table>>

\* A statement fails, as one with a negative OFFSET always does, or the word
\* whose comments are asked for is gone: the client gives up.
Fail ==
    /\ req.pc \in {"count", "list"}
    /\ Finish

\* What the client takes for the last page.
LastPage ==
    IF Endpoint(listing).pages = "TotalPages" THEN TotalPages(req.total, req.per)
    ELSE (req.total + req.per - 1) \div req.per

WalkOver == req.pc = "answered" /\ req.walk /\ req.page >= LastPage

NextPage ==
    /\ req.pc = "answered" /\ req.walk
    /\ req.page < LastPage
    /\ req' = Ask(TRUE, req.page + 1, req.per)
    /\ writes' = writes \ {"torn"}
    /\ UNCHANGED <<listing, table, seen, steady>>

Done ==
    /\ req.pc = "answered"
    /\ ~req.walk \/ WalkOver
    /\ Finish

\* Another request writes.
Write(t, what) ==
    /\ table' = t
    /\ steady' = steady \cap Unique(t)
    /\ writes' = IF req = Idle THEN writes
                 ELSE writes \cup {what} \cup
                      (IF req.did # {} /\ req.pc # "answered" THEN {"torn"} ELSE {})
    /\ UNCHANGED <<listing, req, seen>>

\* A row enters the listing, at any rank: a request that finishes late gets
\* in behind one that came after it, and a completed or flagged row keeps
\* the time it was created at.
Enter(r) ==
    /\ r \notin Listed
    /\ \E new \in Row :
          /\ new.hits <= 1 \/ listing = "search"
          /\ Write([table EXCEPT ![r] = new], "insert")

Leave(r) ==
    /\ r \in Listed
    /\ Write([table EXCEPT ![r] = Absent], "delete")

Next ==
    \/ \E per \in 0..(MaxPerPage + 1) : StartWalk(per)
    \/ \E page \in 0..MaxPage, per \in 0..(MaxPerPage + 1) : StartPage(page, per)
    \/ Count \/ List \/ Fail \/ NextPage \/ Done
    \/ \E r \in Rows : Enter(r) \/ Leave(r)

Spec == Init /\ [][Next]_vars

-----------------------------------------------------------------------------
(* Properties. *)

\* Type correctness; in particular every answered request, clamped or parsed,
\* has a page and a page size in range.
TypeOK ==
    /\ listing \in Listings
    /\ table \in Table
    /\ req \in Request \cup {Idle}
    /\ seen \in [Rows -> 0..2]
    /\ steady \subseteq Listed
    /\ writes \subseteq {"insert", "delete", "torn"}

\* The rows of an answer are as many as its total says this page has: a full
\* page before the last, the rest on the last, none after it.  Both the
\* total and the rows are right only together: the same filter and the same
\* DISTINCT in two statements, an OFFSET that is not truncated (the page
\* lies below 2^31 rows), and no write between the two statements.
RowsFillThePage ==
    (/\ req.pc = "answered"
     /\ "torn" \notin writes
     /\ (req.page - 1) * req.per < 2 ^ (OffsetBits - 1))
        => Cardinality(req.rows) =
              IF req.page < LastPage THEN req.per
              ELSE IF req.page > LastPage THEN 0
              ELSE req.total - (LastPage - 1) * req.per

\* A walk misses no row that stays listed at a rank of its own, as long as
\* rows only enter: they push rows to later pages, and the walk goes on to
\* them, since the total of the later answers grows too.  That is so whenever
\* they enter for the listings of words, which count after they list.  The
\* others count first and need more: a row that enters between the count and
\* the list may push the last row to a page the count does not know of.
NoSkipWithoutDelete ==
    (/\ WalkOver
     /\ "delete" \notin writes
     /\ "torn" \notin writes \/ listing \in {"words", "recentWords", "search"})
        => \A r \in steady : seen[r] >= 1

\* A walk sees no such row twice, as long as rows only leave.
NoRepeatWithoutInsert ==
    "insert" \notin writes => \A r \in steady : seen[r] <= 1
=============================================================================
