--------------------------- MODULE ListingProofs ---------------------------
(***************************************************************************)
(* Proofs about Listing, for any number of rows, ranks and page sizes and  *)
(* any width of OFFSET.                                                    *)
(***************************************************************************)
EXTENDS Listing, FiniteSetTheorems, TLAPS

\* The listings in ascending order.
Upward == {"words", "search", "flags", "comments", "aiPending"}

\* The listings of words, which list before they count.
CountsLast == {"words", "recentWords", "search"}

\* What the endpoints have in common: they count the listed rows, sort them one
\* way or the other, and divide by the page size in one way or the other.
LEMMA Endpoints ==
    ASSUME NEW l \in Listings
    PROVE  /\ Endpoint(l).repo.first \in {"count", "list"}
           /\ Endpoint(l).repo.count = Cardinality(Listed)
           /\ Endpoint(l).repo.orders =
                 IF l \in Upward THEN Orderings(Ascending) ELSE Orderings(Descending)
           /\ Endpoint(l).params \in {"parse", "paginate"}
           /\ l \in CountsLast => Endpoint(l).repo.first = "list"
<1> USE DEF GetWords, QueryWords, QuerySearch, GetContributions, GetModerationQueue,
            GetFlags, GetUsers, GetBookmarks, GetComments, GetAIRequests, Parsed, Clamped,
            FindAllWords, Search, FindByContributor, FindAllContributions,
            GetPendingContributions, GetFlaggedComments, ListUsers, FindByUser,
            FindByTarget, ListByWord, ListPendingReview, CountFirst, ListFirst,
            CountWords, CountSearchWords, CountContributionsByContributor,
            CountAllContributions, CountFlaggedComments, CountUsersAdmin,
            CountBookmarksByUser, CountCommentsByTarget, CountAIRequestsByWord,
            CountAIRequestsPendingReview, ListWords, SearchWords,
            ListContributionsByContributor, ListAllContributions, ListFlaggedComments,
            ListUsersAdmin, ListBookmarksByUser, ListCommentsByTarget,
            ListAIRequestsByWord, ListAIRequestsPendingReview, Upward,
            CountsLast
<1>1. CASE l \in {"words", "recentWords", "search"}
  BY <1>1 DEF Endpoint
<1>2. CASE l \in {"myContributions", "contributions", "queue"}
  BY <1>2 DEF Endpoint
<1>3. CASE l \in {"flags", "users", "bookmarks"}
  BY <1>3 DEF Endpoint
<1>4. CASE l \in {"comments", "aiByWord", "aiPending"}
  BY <1>4 DEF Endpoint
<1> QED
  BY <1>1, <1>2, <1>3, <1>4 DEF Listings

\* What a SELECT gives: every listed row once, sorted.
LEMMA Sorted ==
    ASSUME listing \in Listings, NEW s \in Endpoint(listing).repo.orders
    PROVE  /\ s \in [1..Cardinality(Listed) -> Listed]
           /\ \A i, j \in 1..Cardinality(Listed) : i < j =>
                 /\ s[i] # s[j]
                 /\ IF listing \in Upward THEN table[s[i]].rank <= table[s[j]].rank
                                           ELSE table[s[i]].rank >= table[s[j]].rank
<1>1. CASE listing \in Upward
  <2>1. s \in Orderings(Ascending)
    BY <1>1, Endpoints
  <2> QED
    BY <1>1, <2>1 DEF Orderings, Ascending
<1>2. CASE listing \notin Upward
  <2>1. s \in Orderings(Descending)
    BY <1>2, Endpoints
  <2> QED
    BY <1>2, <2>1 DEF Orderings, Descending
<1> QED
  BY <1>1, <1>2

-----------------------------------------------------------------------------
(* Types. *)

\* The listed rows are finitely many, and at most as many as there are rows.
LEMMA ListedFinite ==
    /\ IsFiniteSet(Rows) /\ Cardinality(Rows) \in Nat
    /\ IsFiniteSet(Listed) /\ Cardinality(Listed) \in 0..Cardinality(Rows)
<1>1. IsFiniteSet(Rows) /\ Listed \in SUBSET Rows
  BY ListingAssumption DEF Listed
<1>2. IsFiniteSet(Listed) /\ Cardinality(Listed) <= Cardinality(Rows)
  BY <1>1, FS_Subset
<1> QED
  BY <1>1, <1>2, FS_CardinalityType

\* Both parsers leave a page and a page size in range.
LEMMA ParamsType ==
    ASSUME TypeOK, NEW page \in Nat, NEW per \in Nat, NEW p \in Params(page, per)
    PROVE  p[1] \in Nat \ {0} /\ p[2] \in 1..MaxPerPage
BY ListingAssumption DEF Params, Parse, Paginate, InRange

\* A request that is asked is one.
LEMMA AskType ==
    ASSUME TypeOK, NEW walk \in BOOLEAN, NEW page \in Nat \ {0}, NEW per \in 1..MaxPerPage
    PROVE  /\ Ask(walk, page, per) \in Request
           /\ Ask(walk, page, per).page = page /\ Ask(walk, page, per).per = per
           /\ Ask(walk, page, per).did = {}
           /\ Ask(walk, page, per).pc \in {"count", "list"}
           /\ listing \in CountsLast => Ask(walk, page, per).pc = "list"
<1>1. Endpoint(listing).repo.first \in {"count", "list"}
  BY Endpoints DEF TypeOK
<1>2. 0 \in 0..Cardinality(Rows)
  BY ListedFinite
<1>3. listing \in CountsLast => Endpoint(listing).repo.first = "list"
  BY Endpoints DEF TypeOK
<1> QED
  BY <1>1, <1>2, <1>3 DEF Ask, Request

\* Where a request is after a statement.
LEMMA ThenType ==
    ASSUME NEW done \in {"count", "list"}, req \in Request
    PROVE  /\ Then(done) \in Request
           /\ Then(done).walk = req.walk /\ Then(done).page = req.page
           /\ Then(done).per = req.per /\ Then(done).did = req.did \cup {done}
           /\ Then(done).total = req.total /\ Then(done).rows = req.rows
           /\ Then(done).pc = IF req.did # {} THEN "answered"
                              ELSE IF done = "count" THEN "list" ELSE "count"
<1>1. (CHOOSE s \in {"count", "list"} : s # done) = IF done = "count" THEN "list" ELSE "count"
  OBVIOUS
<1> QED
  BY <1>1 DEF Then, Request

\* A request that is somewhere is not idle.
LEMMA UnderWay == ASSUME TypeOK, req.pc # "idle" PROVE req \in Request
BY DEF TypeOK, Idle

\* Every step keeps everything well typed.
LEMMA TypeStep == TypeOK /\ [Next]_vars => TypeOK'
<1> SUFFICES ASSUME TypeOK, [Next]_vars PROVE TypeOK'
  OBVIOUS
<1> USE DEF history
<1>1. ASSUME NEW per \in 0..(MaxPerPage + 1), StartWalk(per) PROVE TypeOK'
  <2>1. PICK p \in Params(1, per) : req' = Ask(TRUE, p[1], p[2])
    BY <1>1 DEF StartWalk
  <2>a. p[1] \in Nat \ {0} /\ p[2] \in 1..MaxPerPage
    BY ParamsType, ListingAssumption
  <2>2. req' \in Request
    BY <2>1, <2>a, AskType
  <2> QED
    BY <1>1, <2>2 DEF StartWalk, TypeOK, Listed, Unique
<1>2. ASSUME NEW page \in 0..MaxPage, NEW per \in 0..(MaxPerPage + 1), StartPage(page, per)
      PROVE  TypeOK'
  <2>1. PICK p \in Params(page, per) : req' = Ask(FALSE, p[1], p[2])
    BY <1>2 DEF StartPage
  <2>a. p[1] \in Nat \ {0} /\ p[2] \in 1..MaxPerPage
    BY ParamsType, ListingAssumption
  <2>2. req' \in Request
    BY <2>1, <2>a, AskType
  <2> QED
    BY <1>2, <2>2 DEF StartPage, TypeOK, Listed
<1>3. CASE Count
  <2>1. req \in Request
    BY <1>3, UnderWay DEF Count
  <2>2. req' = [Then("count") EXCEPT !.total = Cardinality(Listed)]
    BY <1>3, Endpoints DEF Count, TypeOK
  <2>3. Then("count") \in Request
    BY <2>1, ThenType
  <2>4. req' \in Request
    BY <2>2, <2>3, ListedFinite DEF Request
  <2> QED
    BY <1>3, <2>4 DEF Count, TypeOK, Listed
<1>4. CASE List
  <2>1. req \in Request
    BY <1>4, UnderWay DEF List
  <2> DEFINE off == Offset(req.page, req.per)
             Page(s) == {s[i] : i \in {j \in DOMAIN s : off < j /\ j <= off + req.per}}
  <2>2. PICK s \in Endpoint(listing).repo.orders :
          /\ req' = [Then("list") EXCEPT !.rows = Page(s)]
          /\ seen' = [r \in Rows |-> IF req.walk /\ r \in Page(s) /\ seen[r] < 2
                                     THEN seen[r] + 1 ELSE seen[r]]
    BY <1>4 DEF List
  <2>3. s \in [1..Cardinality(Listed) -> Listed]
    BY <2>2, Sorted DEF TypeOK
  <2>4. Page(s) \subseteq Rows
    BY <2>3 DEF Listed
  <2>5. Then("list") \in Request
    BY <2>1, ThenType
  <2> HIDE DEF Page
  <2>6. req' \in Request
    BY <2>2, <2>4, <2>5 DEF Request
  <2>7. seen' \in [Rows -> 0..2]
    BY <2>2 DEF TypeOK
  <2> QED
    BY <1>4, <2>6, <2>7 DEF List, TypeOK, Listed
<1>5. ASSUME Finish PROVE TypeOK'
  BY <1>5 DEF Finish, TypeOK, Unseen, Listed
<1>6. CASE NextPage
  <2>1. req \in Request
    BY <1>6, UnderWay DEF NextPage
  <2>a. req.page + 1 \in Nat \ {0} /\ req.per \in 1..MaxPerPage
    BY <2>1 DEF Request
  <2>2. Ask(TRUE, req.page + 1, req.per) \in Request
    BY <2>a, AskType
  <2> QED
    BY <1>6, <2>2 DEF NextPage, TypeOK, Listed
<1>7. ASSUME NEW t \in Table, NEW what \in {"insert", "delete"}, Write(t, what)
      PROVE  TypeOK'
  BY <1>7 DEF Write, TypeOK, Listed, Unique
<1>8. ASSUME NEW r \in Rows, Enter(r) PROVE TypeOK'
  <2>1. PICK new \in Row : Write([table EXCEPT ![r] = new], "insert")
    BY <1>8 DEF Enter
  <2>2. [table EXCEPT ![r] = new] \in Table
    BY DEF TypeOK, Table
  <2> QED
    BY <1>7, <2>1, <2>2
<1>9. ASSUME NEW r \in Rows, Leave(r) PROVE TypeOK'
  <2>1. [table EXCEPT ![r] = Absent] \in Table
    BY DEF TypeOK, Table
  <2> QED
    BY <1>7, <1>9, <2>1 DEF Leave
<1>10. CASE UNCHANGED vars
  BY <1>10 DEF vars, TypeOK, Listed
<1> QED
  BY <1>1, <1>2, <1>3, <1>4, <1>5, <1>6, <1>8, <1>9, <1>10 DEF Next, Fail, Done

\* Every variable keeps its type: whatever the caller names, a request that is
\* answered has a page and a page size in range.
THEOREM TypeCorrect == Spec => []TypeOK
<1>1. Init => TypeOK
  BY DEF Init, TypeOK, Unseen, Listed
<1> QED
  BY <1>1, TypeStep, PTL DEF Spec

-----------------------------------------------------------------------------
(* The rows of a page. *)

\* How many of n rows lie on a page.
PageSize(n, page, per) ==
    LET off == (page - 1) * per
    IN  IF off >= n THEN 0 ELSE IF off + per <= n THEN per ELSE n - off

\* OFFSET is the one that was meant.
Untruncated == (req.page - 1) * req.per < 2 ^ (OffsetBits - 1)

\* The first of the two statements has seen the table as it still is.
FirstStatement ==
    "torn" \notin writes =>
        /\ req.pc = "list" /\ req.did # {} => req.total = Cardinality(Listed)
        /\ req.pc = "count" /\ req.did # {} /\ Untruncated =>
              Cardinality(req.rows) = PageSize(Cardinality(Listed), req.page, req.per)

\* RowsFillThePage, before the pages are counted.
AnswerFits ==
    req.pc = "answered" /\ "torn" \notin writes /\ Untruncated =>
        Cardinality(req.rows) = PageSize(req.total, req.page, req.per)

\* The width of OFFSET, as far as it is known.
LEMMA HalfRange == 2 ^ (OffsetBits - 1) \in Nat \ {0} /\ Cardinality(Rows) < 2 ^ (OffsetBits - 1)
BY ListingAssumption, ListedFinite

\* An OFFSET in range is not truncated.
LEMMA OffsetExact ==
    ASSUME NEW page \in Nat \ {0}, NEW per \in Nat,
           (page - 1) * per < 2 ^ (OffsetBits - 1)
    PROVE  Offset(page, per) = (page - 1) * per /\ (page - 1) * per \in Nat
<1> DEFINE half == 2 ^ (OffsetBits - 1)
           n == (page - 1) * per
<1>1. half \in Nat \ {0}
  BY HalfRange
<1>2. n \in Nat
  OBVIOUS
<1>3. n < half
  OBVIOUS
<1> HIDE DEF half, n
<1>4. ((n + half) % (2 * half)) - half = n
  BY <1>1, <1>2, <1>3
<1> QED
  BY <1>2, <1>4 DEF Offset, half, n

\* What LIMIT and OFFSET cut out of an ordering.
Cut(s, off, per) == {s[i] : i \in {j \in DOMAIN s : off < j /\ j <= off + per}}

\* What they cut out is as many rows as positions.
LEMMA CutSize ==
    ASSUME NEW n \in Nat, NEW S, NEW s \in [1..n -> S],
           \A i, j \in 1..n : i < j => s[i] # s[j],
           NEW off \in Nat, NEW per \in Nat
    PROVE  Cardinality(Cut(s, off, per)) =
              IF off >= n THEN 0 ELSE IF off + per <= n THEN per ELSE n - off
<1> DEFINE last == IF off + per <= n THEN off + per ELSE n
           pos == (off + 1)..last
           page == Cut(s, off, per)
           f == [i \in pos |-> s[i]]
<1>1. {j \in DOMAIN s : off < j /\ j <= off + per} = pos
  OBVIOUS
<1>2. page = {s[i] : i \in pos} /\ pos \subseteq 1..n
  BY <1>1 DEF Cut
<1>3. \A i, j \in pos : s[i] = s[j] => i = j
  BY <1>2
<1>4. IsFiniteSet(pos) /\ Cardinality(pos) = IF off + 1 > last THEN 0 ELSE last - (off + 1) + 1
  BY FS_Interval
<1> HIDE DEF pos, page
<1>5. f \in Bijection(pos, page)
  BY <1>2, <1>3 DEF Bijection, Injection, Surjection, IsInjective
<1>6. Cardinality(page) = Cardinality(pos)
  BY <1>4, <1>5, FS_Bijection DEF ExistsBijection
<1> QED
  BY <1>4, <1>6 DEF page

\* A page of an answer has as many rows as the table has for it.
LEMMA PageCut ==
    ASSUME TypeOK, List, Untruncated
    PROVE  Cardinality(req'.rows) = PageSize(Cardinality(Listed), req.page, req.per)
<1> DEFINE off == Offset(req.page, req.per)
           n == Cardinality(Listed)
           per == req.per
<1>1. req \in Request
  BY UnderWay DEF List
<1>2. PICK s \in Endpoint(listing).repo.orders :
        req' = [Then("list") EXCEPT !.rows = Cut(s, off, per)]
  BY DEF List, Cut
<1>3. s \in [1..n -> Listed] /\ \A i, j \in 1..n : i < j => s[i] # s[j]
  BY <1>2, Sorted DEF TypeOK
<1>4. req.page \in Nat \ {0} /\ per \in Nat /\ n \in Nat
  BY <1>1, ListedFinite DEF Request
<1>5. off = (req.page - 1) * req.per /\ off \in Nat
  BY <1>4, OffsetExact DEF Untruncated
<1>6. Then("list") \in Request
  BY <1>1, ThenType
<1> HIDE DEF off, n, per
<1>7. Cardinality(Cut(s, off, per)) =
        IF off >= n THEN 0 ELSE IF off + per <= n THEN per ELSE n - off
  <2>1. n \in Nat /\ per \in Nat /\ off \in Nat
    BY <1>4, <1>5
  <2> QED
    BY <1>3, <2>1, CutSize
<1>8. req'.rows = Cut(s, off, per)
  BY <1>2, <1>6 DEF Request
<1> QED
  BY <1>5, <1>7, <1>8 DEF PageSize, n, per

\* Every step keeps the two: the first statement leaves what the table then
\* has, a write before the second one tears the request, and the second one
\* finds the same table.
LEMMA FillStep ==
    TypeOK /\ FirstStatement /\ AnswerFits /\ [Next]_vars => FirstStatement' /\ AnswerFits'
<1> SUFFICES ASSUME TypeOK, FirstStatement, AnswerFits, [Next]_vars
             PROVE  FirstStatement' /\ AnswerFits'
  OBVIOUS
<1> USE DEF history
<1>1. ASSUME NEW walk \in BOOLEAN, NEW page \in Nat \ {0}, NEW per \in 1..MaxPerPage,
             req' = Ask(walk, page, per)
      PROVE  FirstStatement' /\ AnswerFits'
  <2>1. req'.did = {} /\ req'.pc # "answered"
    BY <1>1, AskType
  <2> QED
    BY <2>1 DEF FirstStatement, AnswerFits
<1>2. ASSUME NEW per \in 0..(MaxPerPage + 1), StartWalk(per)
      PROVE  FirstStatement' /\ AnswerFits'
  <2>1. PICK p \in Params(1, per) : req' = Ask(TRUE, p[1], p[2])
    BY <1>2 DEF StartWalk
  <2>2. p[1] \in Nat \ {0} /\ p[2] \in 1..MaxPerPage
    BY ParamsType, ListingAssumption
  <2> QED
    BY <1>1, <2>1, <2>2
<1>3. ASSUME NEW page \in 0..MaxPage, NEW per \in 0..(MaxPerPage + 1), StartPage(page, per)
      PROVE  FirstStatement' /\ AnswerFits'
  <2>1. PICK p \in Params(page, per) : req' = Ask(FALSE, p[1], p[2])
    BY <1>3 DEF StartPage
  <2>2. p[1] \in Nat \ {0} /\ p[2] \in 1..MaxPerPage
    BY ParamsType, ListingAssumption
  <2> QED
    BY <1>1, <2>1, <2>2
<1>4. CASE Count
  <2>1. req \in Request /\ Then("count") \in Request
    BY <1>4, UnderWay, ThenType DEF Count
  <2>2. req' = [Then("count") EXCEPT !.total = Cardinality(Listed)]
    BY <1>4, Endpoints DEF Count, TypeOK
  <2>3. /\ req'.total = Cardinality(Listed) /\ req'.rows = req.rows
        /\ req'.page = req.page /\ req'.per = req.per
        /\ req'.pc = IF req.did # {} THEN "answered" ELSE "list"
    BY <2>1, <2>2, ThenType DEF Request
  <2>4. Listed' = Listed /\ writes' = writes
    BY <1>4 DEF Count, Listed
  <2> QED
    BY <1>4, <2>3, <2>4 DEF Count, FirstStatement, AnswerFits, Untruncated
<1>5. CASE List
  <2>1. req \in Request /\ Then("list") \in Request
    BY <1>5, UnderWay, ThenType DEF List
  <2>2. PICK rows : req' = [Then("list") EXCEPT !.rows = rows]
    BY <1>5 DEF List
  <2>3. /\ req'.total = req.total /\ req'.page = req.page /\ req'.per = req.per
        /\ req'.pc = IF req.did # {} THEN "answered" ELSE "count"
    BY <2>1, <2>2, ThenType DEF Request
  <2>4. Listed' = Listed /\ writes' = writes
    BY <1>5 DEF List, Listed
  <2>5. Untruncated =>
          Cardinality(req'.rows) = PageSize(Cardinality(Listed), req.page, req.per)
    BY <1>5, PageCut
  <2> QED
    BY <1>5, <2>3, <2>4, <2>5 DEF List, FirstStatement, AnswerFits, Untruncated
<1>6. ASSUME Finish PROVE FirstStatement' /\ AnswerFits'
  BY <1>6 DEF Finish, Idle, FirstStatement, AnswerFits
<1>7. CASE NextPage
  <2>1. req \in Request
    BY <1>7, UnderWay DEF NextPage
  <2>2. req.page + 1 \in Nat \ {0} /\ req.per \in 1..MaxPerPage
    BY <2>1 DEF Request
  <2> QED
    BY <1>1, <1>7, <2>2 DEF NextPage
<1>8. ASSUME NEW t, NEW what, Write(t, what) PROVE FirstStatement' /\ AnswerFits'
  BY <1>8 DEF Write, Idle, FirstStatement, AnswerFits, Untruncated
<1>9. CASE UNCHANGED vars
  BY <1>9 DEF vars, Listed, FirstStatement, AnswerFits, Untruncated
<1> QED
  BY <1>2, <1>3, <1>4, <1>5, <1>6, <1>7, <1>8, <1>9 DEF Next, Fail, Done, Enter, Leave

\* Both ways to count the pages round up.
LEMMA RoundsUp ==
    ASSUME NEW n \in Nat, NEW d \in Nat \ {0},
           NEW q \in {TotalPages(n, d), (n + d - 1) \div d}
    PROVE  q \in Nat /\ q * d - d < n /\ n <= q * d
<1>1. CASE q = TotalPages(n, d)
  <2> DEFINE a == n \div d
             r == n % d
  <2>1. a \in Nat /\ r \in 0..(d - 1) /\ n = (d * a) + r
    OBVIOUS
  <2>2. q = a + (IF r # 0 THEN 1 ELSE 0)
    BY <1>1 DEF TotalPages
  <2> HIDE DEF a, r
  <2>3. (a + 1) * d = (d * a) + d /\ a * d = d * a /\ d * a \in Nat
    BY <2>1
  <2> QED
    BY <2>1, <2>2, <2>3
<1>2. CASE q = (n + d - 1) \div d
  <2> DEFINE m == n + d - 1
  <2>1. m \in Nat
    OBVIOUS
  <2> HIDE DEF m
  <2>2. /\ m \div d \in Nat /\ m % d \in 0..(d - 1)
        /\ m = (d * (m \div d)) + (m % d)
    BY <2>1
  <2> QED
    BY <1>2, <2>2 DEF m
<1> QED
  BY <1>1, <1>2

\* Pages are as far apart as they are long.
LEMMA PagesApart ==
    ASSUME NEW a \in Nat, NEW b \in Nat, NEW d \in Nat, a < b
    PROVE  a * d + d <= b * d
OBVIOUS

\* How many rows a page has, in terms of the last page.
LEMMA SizeByPage ==
    ASSUME NEW n \in Nat, NEW page \in Nat \ {0}, NEW per \in Nat \ {0},
           NEW q \in Nat, q * per - per < n, n <= q * per
    PROVE  PageSize(n, page, per) =
              IF page < q THEN per ELSE IF page > q THEN 0 ELSE n - (q - 1) * per
<1>1. (page - 1) * per = page * per - per /\ (q - 1) * per = q * per - per
  OBVIOUS
<1>2. page * per \in Nat /\ q * per \in Nat
  OBVIOUS
<1>3. page < q => page * per + per <= q * per
  BY PagesApart
<1>4. page > q => q * per + per <= page * per
  BY PagesApart
<1> QED
  BY <1>1, <1>2, <1>3, <1>4 DEF PageSize

\* However the two statements of a request and other requests' writes
\* interleave, an answer whose two statements saw the same table, and whose
\* OFFSET is in range, has as many rows as its total says the page has.
THEOREM AnswersFillThePage == Spec => []RowsFillThePage
<1>1. Init => FirstStatement /\ AnswerFits
  BY DEF Init, Idle, FirstStatement, AnswerFits
<1>2. TypeOK /\ AnswerFits => RowsFillThePage
  <2> SUFFICES ASSUME TypeOK, AnswerFits, req.pc = "answered", "torn" \notin writes,
                      (req.page - 1) * req.per < 2 ^ (OffsetBits - 1)
               PROVE  Cardinality(req.rows) =
                        IF req.page < LastPage THEN req.per
                        ELSE IF req.page > LastPage THEN 0
                        ELSE req.total - (LastPage - 1) * req.per
    BY DEF RowsFillThePage
  <2>1. req \in Request
    BY UnderWay
  <2>2. req.total \in Nat /\ req.page \in Nat \ {0} /\ req.per \in Nat \ {0}
    BY <2>1, ListedFinite DEF Request
  <2>3. LastPage \in {TotalPages(req.total, req.per), (req.total + req.per - 1) \div req.per}
    BY DEF LastPage
  <2>4. /\ LastPage \in Nat /\ LastPage * req.per - req.per < req.total
        /\ req.total <= LastPage * req.per
    BY <2>2, <2>3, RoundsUp
  <2>5. Cardinality(req.rows) = PageSize(req.total, req.page, req.per)
    BY DEF AnswerFits, Untruncated
  <2> DEFINE n == req.total
             page == req.page
             per == req.per
             q == LastPage
  <2>6. /\ n \in Nat /\ page \in Nat \ {0} /\ per \in Nat \ {0} /\ q \in Nat
        /\ q * per - per < n /\ n <= q * per
    BY <2>2, <2>4
  <2> HIDE DEF n, page, per, q
  <2>7. PageSize(n, page, per) =
          IF page < q THEN per ELSE IF page > q THEN 0 ELSE n - (q - 1) * per
    BY <2>6, SizeByPage
  <2> QED
    BY <2>5, <2>7 DEF n, page, per, q
<1> QED
  BY <1>1, <1>2, FillStep, TypeCorrect, PTL DEF Spec

-----------------------------------------------------------------------------
(* Walks through a listing.  A row at a rank of its own has the same         *)
(* position in every answer: it comes after the rows ahead of it.            *)

\* The rows a listing gives before r.
Ahead(r) ==
    {x \in Listed : IF listing \in Upward THEN table[x].rank < table[r].rank
                                          ELSE table[x].rank > table[r].rank}

\* The rows ahead of a listed row are fewer than the listed rows.
LEMMA AheadFinite ==
    ASSUME TypeOK, NEW r \in Listed
    PROVE  /\ IsFiniteSet(Ahead(r)) /\ Cardinality(Ahead(r)) \in Nat
           /\ Cardinality(Ahead(r)) < Cardinality(Listed)
<1>1. table[r].rank \in Nat
  BY ListingAssumption DEF TypeOK, Table, Row, Absent, Listed
<1>2. Ahead(r) \in SUBSET Listed /\ r \notin Ahead(r)
  BY <1>1 DEF Ahead
<1>3. /\ IsFiniteSet(Ahead(r)) /\ Cardinality(Ahead(r)) <= Cardinality(Listed)
      /\ Cardinality(Listed) = Cardinality(Ahead(r)) => Listed = Ahead(r)
  BY <1>2, ListedFinite, FS_Subset
<1>4. Cardinality(Ahead(r)) \in Nat /\ Cardinality(Listed) \in Nat
  BY <1>3, ListedFinite, FS_CardinalityType
<1> QED
  BY <1>2, <1>3, <1>4

\* Every ordering has such a row, and right after the rows ahead of it.
LEMMA Position ==
    ASSUME TypeOK, NEW r \in Unique(table), NEW s \in Endpoint(listing).repo.orders
    PROVE  \E i \in DOMAIN s : s[i] = r /\ i = Cardinality(Ahead(r)) + 1
<1> DEFINE n == Cardinality(Listed)
<1>1. s \in [1..n -> Listed]
  BY Sorted DEF TypeOK
<1>2. \A i, j \in 1..n : i < j =>
        /\ s[i] # s[j]
        /\ IF listing \in Upward THEN table[s[i]].rank <= table[s[j]].rank
                                  ELSE table[s[i]].rank >= table[s[j]].rank
  BY Sorted DEF TypeOK
<1>3. n \in Nat /\ IsFiniteSet(Listed)
  BY ListedFinite
<1>4. /\ \A x \in Rows : table[x].rank \in Nat
      /\ r \in Listed /\ \A x \in Rows \ {r} : table[x].rank # table[r].rank
  BY ListingAssumption DEF TypeOK, Table, Row, Absent, Listed, Unique
<1> HIDE DEF n
<1>5. s \in Surjection(1..n, Listed)
  <2>1. s \in Injection(1..n, Listed)
    BY <1>1, <1>2, <1>3 DEF Injection, IsInjective
  <2>2. Cardinality(1..n) = n
    BY <1>3, FS_Interval
  <2> QED
    BY <1>3, <2>1, <2>2, FS_Injection DEF n
<1>6. PICK i \in 1..n : s[i] = r
  BY <1>4, <1>5 DEF Surjection
<1>7. \A j \in 1..(i - 1) : s[j] \in Ahead(r)
  <2> SUFFICES ASSUME NEW j \in 1..(i - 1) PROVE s[j] \in Ahead(r)
    OBVIOUS
  <2>1. j \in 1..n /\ j < i
    BY <1>3
  <2>2. s[j] \in Listed /\ s[j] \in Rows \ {r}
    BY <1>1, <1>2, <1>6, <2>1 DEF Listed
  <2> QED
    BY <1>2, <1>4, <1>6, <2>1, <2>2 DEF Ahead, Listed
<1>8. \A x \in Ahead(r) : \E j \in 1..(i - 1) : s[j] = x
  <2> SUFFICES ASSUME NEW x \in Ahead(r) PROVE \E j \in 1..(i - 1) : s[j] = x
    OBVIOUS
  <2>1. PICK j \in 1..n : s[j] = x
    BY <1>5 DEF Surjection, Ahead
  <2>2. x \in Listed /\ x \in Rows
    BY DEF Ahead, Listed
  <2>3. ~(i < j) /\ j # i
    BY <1>2, <1>4, <1>6, <2>1, <2>2 DEF Ahead, Listed
  <2> QED
    BY <1>3, <2>1, <2>3
<1> DEFINE f == [j \in 1..(i - 1) |-> s[j]]
<1>9. f \in Bijection(1..(i - 1), Ahead(r))
  <2>1. \A j, k \in 1..(i - 1) : s[j] = s[k] => j = k
    BY <1>2, <1>3
  <2> QED
    BY <1>7, <1>8, <2>1 DEF Bijection, Injection, Surjection, IsInjective
<1>10. IsFiniteSet(1..(i - 1)) /\ Cardinality(1..(i - 1)) = i - 1
  BY <1>3, FS_Interval
<1>11. Cardinality(Ahead(r)) = i - 1
  BY <1>9, <1>10, FS_Bijection DEF ExistsBijection
<1> QED
  BY <1>1, <1>3, <1>6, <1>11

\* Which statements are done, by the one to come.
Progress ==
    /\ req.pc = "answered" => req.did = {"count", "list"}
    /\ req.pc = "list" => "list" \notin req.did
    /\ req.pc = "count" => "count" \notin req.did
    /\ listing \in CountsLast /\ req.pc = "list" => req.did = {}
    /\ listing \in CountsLast /\ req.pc = "count" => req.did # {}

\* A request that is part of a walk.
Walking == req.pc # "idle" /\ req.walk

\* How many positions the walk has read: all those of the pages up to this one,
\* or up to the one before.
Covered == (IF "list" \in req.did THEN req.page ELSE req.page - 1) * req.per

\* Steady rows have a rank of their own.
SteadyApart == steady \subseteq Unique(table)

\* A walk never gets to an OFFSET beyond the rows there may be.
InReach == Walking => (req.page - 1) * req.per <= Cardinality(Rows)

\* Only a walk counts what it sees.
CountedOnWalks == Walking \/ seen = Unseen

\* A row the walk has not seen is not behind it, unless rows have left.
UnseenAhead ==
    Walking /\ "delete" \notin writes =>
        \A r \in steady : seen[r] = 0 => Covered <= Cardinality(Ahead(r))

\* A row the walk has seen is behind it, unless rows have entered.
SeenBehind ==
    Walking /\ "insert" \notin writes =>
        \A r \in steady :
            seen[r] <= 1 /\ (seen[r] = 1 => Cardinality(Ahead(r)) < Covered)

\* An answer that leaves a row unseen has a total that says so.
TotalTells ==
    (/\ req.pc = "answered" /\ req.walk /\ "delete" \notin writes
     /\ "torn" \notin writes \/ listing \in CountsLast)
        => \A r \in steady : seen[r] = 0 => req.page * req.per < req.total

WalkInv ==
    /\ Progress /\ SteadyApart /\ InReach /\ CountedOnWalks
    /\ UnseenAhead /\ SeenBehind /\ TotalTells

\* The page after the ones behind.
LEMMA PageEnd ==
    ASSUME req \in Request
    PROVE  /\ (req.page - 1) * req.per \in Nat /\ req.page * req.per \in Nat
           /\ (req.page - 1) * req.per + req.per = req.page * req.per
<1>1. req.page \in Nat \ {0} /\ req.per \in Nat
  BY DEF Request
<1> QED
  BY <1>1

\* On a walk LIMIT and OFFSET are exact: a SELECT sees a row with a rank of its
\* own exactly when its position is on the page.
LEMMA ListSees ==
    ASSUME TypeOK, List, Walking, InReach, NEW r \in Unique(table)
    PROVE  LET a == Cardinality(Ahead(r))
               off == (req.page - 1) * req.per
           IN  seen'[r] = IF off <= a /\ a < off + req.per /\ seen[r] < 2
                          THEN seen[r] + 1 ELSE seen[r]
<1> DEFINE off == Offset(req.page, req.per)
           per == req.per
           a == Cardinality(Ahead(r))
<1>1. req \in Request
  BY UnderWay DEF List
<1>2. PICK s \in Endpoint(listing).repo.orders :
        seen' = [x \in Rows |-> IF req.walk /\ x \in Cut(s, off, per) /\ seen[x] < 2
                                THEN seen[x] + 1 ELSE seen[x]]
  BY DEF List, Cut
<1>3. req.page \in Nat \ {0} /\ per \in Nat /\ req.walk
  BY <1>1 DEF Request, Walking
<1>4. off = (req.page - 1) * req.per /\ off \in Nat
  <2>1. (req.page - 1) * req.per < 2 ^ (OffsetBits - 1)
    BY <1>1, PageEnd, HalfRange, ListedFinite DEF InReach
  <2> QED
    BY <1>3, <2>1, OffsetExact
<1>5. r \in Rows /\ r \in Listed
  BY DEF Unique, Listed
<1>6. a \in Nat
  BY <1>5, AheadFinite
<1>7. PICK i \in DOMAIN s : s[i] = r /\ i = a + 1
  BY Position
<1>8. /\ DOMAIN s = 1..Cardinality(Listed) /\ Cardinality(Listed) \in Nat
      /\ \A j, k \in DOMAIN s : j < k => s[j] # s[k]
  BY Sorted, ListedFinite DEF TypeOK
<1> HIDE DEF off, per, a
<1>9. \A j \in DOMAIN s : s[j] = r => j = i
  BY <1>7, <1>8
<1>10. r \in Cut(s, off, per) <=> off < i /\ i <= off + per
  BY <1>7, <1>9 DEF Cut
<1>11. r \in Cut(s, off, per) <=> off <= a /\ a < off + per
  BY <1>3, <1>4, <1>6, <1>7, <1>10
<1> QED
  BY <1>2, <1>3, <1>4, <1>5, <1>11 DEF a, per

\* A row that enters pushes rows back, a row that leaves lets them move up.
LEMMA AheadMoves ==
    ASSUME TypeOK, TypeOK', SteadyApart, NEW x \in Rows, NEW r \in steady'
    PROVE  /\ Enter(x) => r \in steady /\ Cardinality(Ahead(r)) <= Cardinality(Ahead(r)')
           /\ Leave(x) => r \in steady /\ Cardinality(Ahead(r)') <= Cardinality(Ahead(r))
<1>1. CASE Enter(x)
  <2>1. PICK new : Write([table EXCEPT ![x] = new], "insert")
    BY <1>1 DEF Enter
  <2>2. r \in steady /\ r \in Listed /\ r \in Rows /\ r # x
    BY <1>1, <2>1 DEF Enter, Write, TypeOK, Listed
  <2>3. \A y \in Rows \ {x} : table'[y] = table[y]
    BY <2>1 DEF Write, TypeOK, Table
  <2>4. listing' = listing /\ x \notin Listed
    BY <1>1, <2>1 DEF Write, Enter
  <2>5. Ahead(r) \in SUBSET Ahead(r)'
    BY <2>2, <2>3, <2>4 DEF Ahead, Listed
  <2>6. IsFiniteSet(Ahead(r)')
    <3>1. Ahead(r)' \in SUBSET Rows
      BY DEF Ahead, Listed
    <3> QED
      BY <3>1, ListedFinite, FS_Subset
  <2> QED
    BY <1>1, <2>2, <2>5, <2>6, FS_Subset DEF Enter, Leave
<1>2. CASE Leave(x)
  <2>1. Write([table EXCEPT ![x] = Absent], "delete")
    BY <1>2 DEF Leave
  <2>2. table' = [table EXCEPT ![x] = Absent] /\ r \in steady /\ r \in Unique(table')
    BY <2>1 DEF Write
  <2>3. \A y \in Rows \ {x} : table'[y] = table[y]
    BY <2>2 DEF TypeOK, Table
  <2>4. table'[x] = Absent
    BY <2>2 DEF TypeOK, Table
  <2>5. r # x /\ r \in Rows
    BY <2>2, <2>4 DEF Unique, Absent
  <2>6. listing' = listing
    BY <2>1 DEF Write
  <2>7. Ahead(r)' \in SUBSET Ahead(r)
    BY <2>3, <2>4, <2>5, <2>6 DEF Ahead, Listed, Absent
  <2>8. r \in Listed
    BY <2>2 DEF TypeOK
  <2>9. IsFiniteSet(Ahead(r))
    BY <2>8, AheadFinite
  <2> QED
    BY <1>2, <2>2, <2>7, <2>9, FS_Subset DEF Enter, Leave
<1> QED
  BY <1>1, <1>2

\* A request of a walk.
LEMMA AskWalks ==
    ASSUME TypeOK, NEW page \in Nat \ {0}, NEW per \in 1..MaxPerPage,
           req' = Ask(TRUE, page, per)
    PROVE  /\ req'.walk /\ req'.page = page /\ req'.per = per
           /\ req'.did = {} /\ req'.pc \in {"count", "list"}
           /\ listing \in CountsLast => req'.pc = "list"
<1>1. /\ Endpoint(listing).repo.first \in {"count", "list"}
      /\ listing \in CountsLast => Endpoint(listing).repo.first = "list"
  BY Endpoints DEF TypeOK
<1> QED
  BY <1>1 DEF Ask

\* A walk begins at a page that covers nothing.
LEMMA WalkBegins ==
    ASSUME TypeOK, WalkInv, NEW per \in 0..(MaxPerPage + 1), StartWalk(per)
    PROVE  WalkInv'
<1>1. PICK p \in Params(1, per) : req' = Ask(TRUE, p[1], p[2])
  BY DEF StartWalk
<1>2. p[1] \in Nat \ {0} /\ p[1] = 1 /\ p[2] \in 1..MaxPerPage
  BY ListingAssumption DEF Params, Parse, Paginate, InRange
<1>3. /\ req'.walk /\ req'.page = 1 /\ req'.per = p[2]
      /\ req'.did = {} /\ req'.pc \in {"count", "list"}
      /\ listing \in CountsLast => req'.pc = "list"
  <2>1. p[1] \in Nat \ {0} /\ p[2] \in 1..MaxPerPage
    BY <1>2
  <2>2. /\ req'.walk /\ req'.page = p[1] /\ req'.per = p[2]
        /\ req'.did = {} /\ req'.pc \in {"count", "list"}
        /\ listing \in CountsLast => req'.pc = "list"
    BY <1>1, <2>1, AskWalks
  <2> QED
    BY <1>2, <2>2
<1>4. (req'.page - 1) * req'.per = 0 /\ Covered' = 0
  BY <1>2, <1>3 DEF Covered
<1>5. /\ listing' = listing /\ table' = table /\ seen' = Unseen
      /\ steady' \subseteq Unique(table)
  BY DEF StartWalk, WalkInv, CountedOnWalks, Walking, Idle
<1>6. Progress' /\ Walking'
  BY <1>3, <1>5 DEF Progress, Walking
<1>7. SteadyApart' /\ TotalTells'
  BY <1>3, <1>5 DEF SteadyApart, TotalTells, Unique
<1>8. InReach' /\ CountedOnWalks'
  BY <1>4, <1>6, ListedFinite DEF InReach, CountedOnWalks
<1>9. \A r \in steady' : r \in Rows /\ seen'[r] = 0 /\ Cardinality(Ahead(r))' \in Nat
  <2> SUFFICES ASSUME NEW r \in steady'
               PROVE  r \in Rows /\ seen'[r] = 0 /\ Cardinality(Ahead(r))' \in Nat
    OBVIOUS
  <2>1. r \in Rows /\ r \in Listed
    BY <1>5 DEF Unique, Listed
  <2>2. Ahead(r)' = Ahead(r)
    BY <1>5 DEF Ahead, Listed
  <2> QED
    BY <1>5, <2>1, <2>2, AheadFinite DEF Unseen
<1>10. UnseenAhead' /\ SeenBehind'
  BY <1>4, <1>9 DEF UnseenAhead, SeenBehind
<1> QED
  BY <1>6, <1>7, <1>8, <1>10 DEF WalkInv

\* A COUNT after the list counts the rows beyond the page.
LEMMA WalkCounts ==
    ASSUME TypeOK, WalkInv, Count
    PROVE  WalkInv'
<1>1. req \in Request /\ Then("count") \in Request
  BY UnderWay, ThenType DEF Count
<1>2. req' = [Then("count") EXCEPT !.total = Cardinality(Listed)]
  BY Endpoints DEF Count, TypeOK
<1>3. /\ req' \in Request
      /\ req'.total = Cardinality(Listed) /\ req'.walk = req.walk
      /\ req'.page = req.page /\ req'.per = req.per
      /\ req'.did = req.did \cup {"count"}
      /\ req'.pc = IF req.did # {} THEN "answered" ELSE "list"
  BY <1>1, <1>2, ThenType, ListedFinite DEF Request
<1>4. UNCHANGED <<listing, table, seen, steady, writes>> /\ req.pc = "count"
  BY DEF Count, history
<1>5. "list" \in req'.did <=> "list" \in req.did
  BY <1>3
<1>6. /\ Listed' = Listed /\ \A r : Ahead(r)' = Ahead(r)
      /\ Covered' = Covered /\ (Walking' <=> Walking)
  BY <1>3, <1>4, <1>5 DEF Listed, Ahead, Covered, Walking
<1>7. Progress'
  BY <1>1, <1>3, <1>4 DEF Progress, WalkInv, Request
<1>8. SteadyApart' /\ InReach' /\ CountedOnWalks' /\ UnseenAhead' /\ SeenBehind'
  BY <1>3, <1>4, <1>6 DEF WalkInv, SteadyApart, Unique, InReach, CountedOnWalks,
                         UnseenAhead, SeenBehind
<1>9. TotalTells'
  <2> SUFFICES ASSUME req'.pc = "answered", req.walk, "delete" \notin writes,
                      NEW r \in steady, seen[r] = 0
               PROVE  req.page * req.per < Cardinality(Listed)
    BY <1>3, <1>4 DEF TotalTells
  <2>1. "list" \in req.did
    BY <1>1, <1>3, <1>4 DEF WalkInv, Progress, Request
  <2>2. Covered = req.page * req.per /\ Walking
    BY <1>4, <2>1 DEF Covered, Walking
  <2>3. Covered <= Cardinality(Ahead(r))
    BY <2>2 DEF WalkInv, UnseenAhead
  <2>4. r \in Listed
    BY DEF TypeOK
  <2> QED
    BY <1>1, <2>2, <2>3, <2>4, AheadFinite, ListedFinite, PageEnd
<1> QED
  BY <1>7, <1>8, <1>9 DEF WalkInv

\* A SELECT sees the rows on its page, and so moves the border between the rows
\* the walk has seen and the others.
LEMMA WalkLists ==
    ASSUME TypeOK, FirstStatement, WalkInv, List
    PROVE  WalkInv'
<1>1. req \in Request /\ Then("list") \in Request
  BY UnderWay, ThenType DEF List
<1>2. PICK rows : /\ req' = [Then("list") EXCEPT !.rows = rows]
                  /\ ~req.walk => seen' = [r \in Rows |-> seen[r]]
  BY DEF List
<1>3. /\ req'.total = req.total /\ req'.walk = req.walk
      /\ req'.page = req.page /\ req'.per = req.per
      /\ req'.did = req.did \cup {"list"}
      /\ req'.pc = IF req.did # {} THEN "answered" ELSE "count"
  BY <1>1, <1>2, ThenType DEF Request
<1>4. UNCHANGED <<listing, table, steady, writes>> /\ req.pc = "list"
  BY DEF List
<1>5. /\ Listed' = Listed /\ \A r : Ahead(r)' = Ahead(r)
      /\ (Walking' <=> Walking) /\ (Walking <=> req.walk)
  BY <1>3, <1>4 DEF Listed, Ahead, Walking
<1>6. Progress'
  BY <1>1, <1>3, <1>4 DEF Progress, WalkInv, Request
<1>7. SteadyApart' /\ InReach'
  BY <1>3, <1>4, <1>5 DEF WalkInv, SteadyApart, Unique, InReach
<1>8. CountedOnWalks'
  BY <1>2, <1>5 DEF WalkInv, CountedOnWalks, TypeOK
<1> DEFINE off == (req.page - 1) * req.per
<1>9. /\ Covered = off /\ Covered' = req.page * req.per
      /\ off + req.per = req.page * req.per /\ off \in Nat /\ req.per \in Nat
  BY <1>1, <1>3, <1>4, PageEnd DEF Covered, WalkInv, Progress, Request
<1> HIDE DEF off
<1>10. ASSUME NEW r \in steady, Walking
       PROVE  /\ Cardinality(Ahead(r)) \in Nat /\ seen[r] \in 0..2
              /\ Cardinality(Ahead(r)) < Cardinality(Listed)
              /\ seen'[r] = IF /\ off <= Cardinality(Ahead(r))
                               /\ Cardinality(Ahead(r)) < off + req.per
                               /\ seen[r] < 2
                            THEN seen[r] + 1 ELSE seen[r]
  <2>1. r \in Unique(table) /\ r \in Listed /\ r \in Rows
    BY DEF WalkInv, SteadyApart, TypeOK, Listed
  <2>2. Cardinality(Ahead(r)) \in Nat /\ Cardinality(Ahead(r)) < Cardinality(Listed)
    BY <2>1, AheadFinite
  <2> QED
    BY <1>10, <2>1, <2>2, ListSees DEF WalkInv, off, TypeOK
<1>11. UnseenAhead'
  BY <1>4, <1>5, <1>9, <1>10 DEF WalkInv, UnseenAhead
<1>12. SeenBehind'
  BY <1>4, <1>5, <1>9, <1>10 DEF WalkInv, SeenBehind
<1>13. TotalTells'
  <2> SUFFICES ASSUME req'.pc = "answered", req.walk, "delete" \notin writes,
                      "torn" \notin writes \/ listing \in CountsLast,
                      NEW r \in steady, seen'[r] = 0
               PROVE  req.page * req.per < req.total
    BY <1>3, <1>4 DEF TotalTells
  <2>1. req.did # {}
    BY <1>3
  <2>2. "torn" \notin writes
    BY <1>4, <2>1 DEF WalkInv, Progress
  <2>3. req.total = Cardinality(Listed)
    BY <1>4, <2>1, <2>2 DEF FirstStatement
  <2>4. Covered' <= Cardinality(Ahead(r))
    BY <1>4, <1>5, <1>11 DEF UnseenAhead
  <2> QED
    BY <1>1, <1>5, <1>9, <1>10, <2>3, <2>4, ListedFinite, PageEnd
<1> QED
  BY <1>6, <1>7, <1>8, <1>11, <1>12, <1>13 DEF WalkInv

\* The next page begins where the last one ended, within the total.
LEMMA WalkGoesOn ==
    ASSUME TypeOK, WalkInv, NextPage
    PROVE  WalkInv'
<1>1. req \in Request /\ req.walk /\ req.did = {"count", "list"}
  BY UnderWay DEF NextPage, WalkInv, Progress
<1>2. req.page \in Nat /\ req.page + 1 \in Nat \ {0} /\ req.per \in 1..MaxPerPage
  BY <1>1 DEF Request
<1>3. /\ req'.walk /\ req'.page = req.page + 1
      /\ req'.per = req.per /\ req'.did = {} /\ req'.pc \in {"count", "list"}
      /\ listing \in CountsLast => req'.pc = "list"
  BY <1>2, AskWalks DEF NextPage
<1>4. /\ UNCHANGED <<listing, table, seen, steady>> /\ writes' = writes \ {"torn"}
      /\ req.pc = "answered" /\ req.page < LastPage
  BY DEF NextPage
<1>5. Covered' = Covered /\ Covered = req.page * req.per /\ Walking /\ Walking'
  <2>1. req'.page - 1 = req.page /\ req'.per = req.per
    BY <1>2, <1>3
  <2>2. Covered = req.page * req.per
    BY <1>1 DEF Covered
  <2>3. Covered' = (req'.page - 1) * req'.per
    BY <1>3 DEF Covered
  <2>4. Walking /\ Walking'
    BY <1>1, <1>3, <1>4 DEF Walking
  <2> QED
    BY <2>1, <2>2, <2>3, <2>4
<1>6. Progress' /\ TotalTells' /\ CountedOnWalks'
  BY <1>3, <1>4, <1>5 DEF Progress, TotalTells, CountedOnWalks
<1>7. SteadyApart'
  BY <1>4 DEF WalkInv, SteadyApart, Unique
<1>8. InReach'
  <2> DEFINE n == req.total
             page == req.page
             per == req.per
             q == LastPage
  <2>1. /\ n \in Nat /\ per \in Nat \ {0} /\ page \in Nat /\ page < q
        /\ n <= Cardinality(Rows) /\ Cardinality(Rows) \in Nat
    BY <1>1, <1>4, ListedFinite DEF Request
  <2>2. q \in {TotalPages(n, per), (n + per - 1) \div per}
    BY DEF LastPage
  <2>3. (req'.page - 1) = page /\ req'.per = per
    BY <1>2, <1>3
  <2> HIDE DEF n, page, per, q
  <2>4. q \in Nat /\ q * per - per < n /\ n <= q * per
    BY <2>1, <2>2, RoundsUp
  <2>5. page * per + per <= q * per
    BY <2>1, <2>4, PagesApart
  <2>6. page * per \in Nat /\ q * per \in Nat
    BY <2>1, <2>4
  <2>7. page * per <= Cardinality(Rows)
    BY <2>1, <2>4, <2>5, <2>6
  <2> QED
    BY <2>3, <2>7 DEF InReach
<1>9. \A r : Ahead(r)' = Ahead(r)
  BY <1>4 DEF Ahead, Listed
<1>10. UnseenAhead' /\ SeenBehind'
  BY <1>4, <1>5, <1>9 DEF WalkInv, UnseenAhead, SeenBehind
<1> QED
  BY <1>6, <1>7, <1>8, <1>10 DEF WalkInv

\* A write moves unseen rows back, or seen rows up.
LEMMA WalkSeesWrites ==
    ASSUME TypeOK, TypeOK', WalkInv, NEW x \in Rows, Enter(x) \/ Leave(x)
    PROVE  WalkInv'
<1>1. PICK what \in {"insert", "delete"} :
        /\ \E t : Write(t, what)
        /\ (Enter(x) /\ what = "insert") \/ (Leave(x) /\ what = "delete")
  <2>1. CASE Enter(x)
    <3>1. PICK new : Write([table EXCEPT ![x] = new], "insert")
      BY <2>1 DEF Enter
    <3>2. \E t : Write(t, "insert")
      BY <3>1, Zenon
    <3> QED
      BY <2>1, <3>2
  <2>2. CASE Leave(x)
    <3>1. Write([table EXCEPT ![x] = Absent], "delete")
      BY <2>2 DEF Leave
    <3> QED
      BY <2>2, <3>1, Zenon
  <2> QED
    BY <2>1, <2>2
<1>2. PICK t : Write(t, what)
  BY <1>1
<1>3. /\ UNCHANGED <<listing, req, seen>> /\ table' = t
      /\ steady' \subseteq steady /\ steady' \subseteq Unique(t)
      /\ writes \subseteq writes' /\ (Walking => what \in writes')
  BY <1>2 DEF Write, Walking, Idle
<1>4. Covered' = Covered /\ (Walking' <=> Walking)
  BY <1>3 DEF Covered, Walking
<1>5. Progress' /\ InReach' /\ CountedOnWalks'
  BY <1>3, <1>4 DEF WalkInv, Progress, InReach, CountedOnWalks
<1>6. SteadyApart'
  BY <1>3 DEF SteadyApart, Unique
<1>7. TotalTells'
  BY <1>3 DEF WalkInv, TotalTells
<1>8. \A r \in steady' : Cardinality(Ahead(r)) \in Nat /\ Cardinality(Ahead(r)') \in Nat
  <2> SUFFICES ASSUME NEW r \in steady'
               PROVE  Cardinality(Ahead(r)) \in Nat /\ Cardinality(Ahead(r)') \in Nat
    OBVIOUS
  <2>1. Cardinality(Ahead(r)) \in Nat
    BY <1>3, AheadFinite DEF TypeOK
  <2>2. Ahead(r)' \in SUBSET Rows
    BY DEF Ahead, Listed
  <2> QED
    BY <2>1, <2>2, ListedFinite, FS_Subset, FS_CardinalityType
<1>9. Covered \in Int \/ ~Walking
  <2>1. Walking => req \in Request
    BY UnderWay DEF Walking
  <2> QED
    BY <2>1, PageEnd DEF Covered
<1>10. UnseenAhead'
  <2> SUFFICES ASSUME Walking, "delete" \notin writes', NEW r \in steady', seen[r] = 0
               PROVE  Covered <= Cardinality(Ahead(r)')
    BY <1>3, <1>4 DEF UnseenAhead
  <2>1. Enter(x)
    BY <1>1, <1>3
  <2>2. Cardinality(Ahead(r)) <= Cardinality(Ahead(r)') /\ r \in steady
    BY <2>1, AheadMoves DEF WalkInv
  <2>3. Covered <= Cardinality(Ahead(r))
    BY <1>3, <2>2 DEF WalkInv, UnseenAhead
  <2> QED
    BY <1>8, <1>9, <2>2, <2>3
<1>11. SeenBehind'
  <2> SUFFICES ASSUME Walking, "insert" \notin writes', NEW r \in steady'
               PROVE  seen[r] <= 1 /\ (seen[r] = 1 => Cardinality(Ahead(r)') < Covered)
    BY <1>3, <1>4 DEF SeenBehind
  <2>1. Leave(x)
    BY <1>1, <1>3
  <2>2. Cardinality(Ahead(r)') <= Cardinality(Ahead(r)) /\ r \in steady
    BY <2>1, AheadMoves DEF WalkInv
  <2>3. seen[r] <= 1 /\ (seen[r] = 1 => Cardinality(Ahead(r)) < Covered)
    BY <1>3, <2>2 DEF WalkInv, SeenBehind
  <2> QED
    BY <1>8, <1>9, <2>2, <2>3
<1> QED
  BY <1>5, <1>6, <1>7, <1>10, <1>11 DEF WalkInv

\* Every step keeps what is known of a walk.
LEMMA WalkStep ==
    TypeOK /\ FirstStatement /\ WalkInv /\ [Next]_vars => WalkInv'
<1> SUFFICES ASSUME TypeOK, FirstStatement, WalkInv, [Next]_vars PROVE WalkInv'
  OBVIOUS
<1>1. TypeOK'
  BY TypeStep
<1>2. ASSUME NEW per \in 0..(MaxPerPage + 1), StartWalk(per) PROVE WalkInv'
  BY <1>2, WalkBegins
<1>3. ASSUME NEW page \in 0..MaxPage, NEW per \in 0..(MaxPerPage + 1), StartPage(page, per)
      PROVE  WalkInv'
  <2>1. PICK p \in Params(page, per) : req' = Ask(FALSE, p[1], p[2])
    BY <1>3 DEF StartPage
  <2>2. /\ req'.did = {} /\ req'.pc \in {"count", "list"}
        /\ listing \in CountsLast => req'.pc = "list"
    BY <2>1, Endpoints DEF Ask, TypeOK
  <2>3. ~req'.walk
    BY <2>1 DEF Ask
  <2>4. ~Walking /\ UNCHANGED <<listing, table, seen, steady, writes>>
    BY <1>3 DEF StartPage, history, Walking, Idle
  <2> QED
    BY <2>2, <2>3, <2>4 DEF WalkInv, Progress, SteadyApart, Unique, InReach, Walking,
                           CountedOnWalks, UnseenAhead, SeenBehind, TotalTells, Unseen
<1>4. CASE Count
  BY <1>4, WalkCounts
<1>5. CASE List
  BY <1>5, WalkLists
<1>6. ASSUME Finish PROVE WalkInv'
  <2>1. req' = Idle /\ seen' = Unseen /\ steady' = {}
    BY <1>6 DEF Finish
  <2>2. req'.pc = "idle" /\ ~Walking'
    BY <2>1 DEF Idle, Walking
  <2> QED
    BY <2>1, <2>2 DEF WalkInv, Progress, SteadyApart, InReach, CountedOnWalks, Unseen,
                      UnseenAhead, SeenBehind, TotalTells
<1>7. CASE NextPage
  BY <1>7, WalkGoesOn
<1>8. ASSUME NEW r \in Rows, Enter(r) \/ Leave(r) PROVE WalkInv'
  BY <1>1, <1>8, WalkSeesWrites
<1>9. CASE UNCHANGED vars
  <2>1. UNCHANGED <<Walking, Covered>> /\ \A r : Ahead(r)' = Ahead(r)
    BY <1>9 DEF vars, Walking, Covered, Ahead, Listed
  <2> QED
    BY <1>9, <2>1 DEF vars, WalkInv, Progress, SteadyApart, Unique, InReach,
                      CountedOnWalks, Unseen, UnseenAhead, SeenBehind, TotalTells
<1> QED
  BY <1>2, <1>3, <1>4, <1>5, <1>6, <1>7, <1>8, <1>9 DEF Next, Fail, Done

\* The walk invariant holds from the start.
LEMMA WalkInvHolds == Spec => []WalkInv
<1>1. Init => FirstStatement /\ AnswerFits /\ WalkInv
  BY DEF Init, Idle, FirstStatement, AnswerFits, WalkInv, Progress, SteadyApart, InReach,
         Walking, CountedOnWalks, UnseenAhead, SeenBehind, TotalTells
<1> QED
  BY <1>1, FillStep, WalkStep, TypeCorrect, PTL DEF Spec

\* A client that walks through a listing while rows only enter misses no row
\* that stays listed at a rank of its own: wherever the rows enter for the
\* listings that count last, and between requests for the others.
THEOREM WalksMissNothing == Spec => []NoSkipWithoutDelete
<1>1. TypeOK /\ WalkInv => NoSkipWithoutDelete
  <2> SUFFICES ASSUME TypeOK, WalkInv, WalkOver, "delete" \notin writes,
                      "torn" \notin writes \/ listing \in CountsLast, NEW r \in steady
               PROVE  seen[r] >= 1
    BY DEF NoSkipWithoutDelete, CountsLast
  <2>1. req \in Request /\ req.pc = "answered" /\ req.walk /\ req.page >= LastPage
    BY UnderWay DEF WalkOver
  <2>2. seen[r] = 0 => req.page * req.per < req.total
    BY <2>1 DEF WalkInv, TotalTells
  <2> DEFINE n == req.total
             page == req.page
             per == req.per
             q == LastPage
  <2>3. n \in Nat /\ per \in Nat \ {0} /\ page \in Nat /\ page >= q
    BY <2>1, ListedFinite DEF Request
  <2>4. q \in {TotalPages(n, per), (n + per - 1) \div per}
    BY DEF LastPage
  <2> HIDE DEF n, page, per, q
  <2>5. q \in Nat /\ q * per - per < n /\ n <= q * per
    BY <2>3, <2>4, RoundsUp
  <2>6. q * per <= page * per
    BY <2>3, <2>5, PagesApart
  <2>7. q * per \in Nat /\ page * per \in Nat
    BY <2>3, <2>5
  <2>8. ~(page * per < n)
    BY <2>3, <2>5, <2>6, <2>7
  <2>9. seen[r] \in 0..2
    BY DEF TypeOK, Listed
  <2> QED
    BY <2>2, <2>8, <2>9 DEF n, page, per
<1> QED
  BY <1>1, WalkInvHolds, TypeCorrect, PTL

\* A client that walks through a listing while rows only leave sees no such
\* row twice.
THEOREM WalksRepeatNothing == Spec => []NoRepeatWithoutInsert
<1>1. TypeOK /\ WalkInv => NoRepeatWithoutInsert
  <2> SUFFICES ASSUME TypeOK, WalkInv, "insert" \notin writes, NEW r \in steady
               PROVE  seen[r] <= 1
    BY DEF NoRepeatWithoutInsert
  <2>1. CASE Walking
    BY <2>1 DEF WalkInv, SeenBehind
  <2>2. CASE ~Walking
    BY <2>2 DEF WalkInv, CountedOnWalks, Unseen, TypeOK, Listed
  <2> QED
    BY <2>1, <2>2
<1> QED
  BY <1>1, WalkInvHolds, TypeCorrect, PTL
=============================================================================
