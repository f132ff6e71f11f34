# Verification of the Kamus Banjar API

TLA+ specifications of the Kamus Banjar API (Go, Fiber, PostgreSQL, Redis), the
TLC runs that check them on small instances, and TLAPS proofs. Paths are
relative to the repository; `PROJECT.json` maps every definition to the lines
it models.

## 1. The system

The API is one Go process (`cmd/api/main.go`). Fiber serves each HTTP request
in a goroutine; the state is in PostgreSQL and in Redis. **No code path opens a
transaction**: repositories issue autocommitted statements through sqlc. An
operation that reads, decides and writes is therefore several atomic steps, and
steps of other requests come between them. No operation takes a lock. A crash or a failing statement
leaves what was written before it. This is the source of nearly everything
that is hard to test here, and every module below has one atomic action per
statement.

| component | state | operations that change it | interactions | what makes it correct |
|---|---|---|---|---|
| contribution workflow (`internal/community`) | table `contributions` | submit, withdraw, approve, reject | reads `words` and `users.email_verified_at` | a decision is taken by a request that saw the contribution pending; review columns agree with the status; targets exist; decisions become final |
| dictionary (`internal/dictionary`) | `words`, `definitions`, `examples` | create, update, soft-delete a word | merged into by AI enrichment (and by the unwired moderation merge) | a successful write is not partly lost; a deleted word is not written any more |
| AI enrichment (`internal/ai`) | `ai_requests`, one goroutine per request in memory | trigger, run, approve (merges into the word), reject | calls the word repository and the model | approved output is merged; reviews are not undone; requests do not stay pending |
| rate limiter (`pkg/ratelimit`) | one Redis counter per client and route group | count a request | in front of the public, contribution and AI routes | at most the limit in any window; a client that pauses is served |
| identity (`internal/identity`) | `users`; refresh, verification and reset tokens in Redis | register, verify, log in, refresh, log out, forgotten password, reset, profile, change of password | e-mail; access tokens carry the role | only overlapping requests lose changes of the row; an unverified account can be verified; a demotion reaches the tokens |
| user moderation (`internal/moderation`) | `users`, `audit_logs` | ban, unban, change role | writes the same rows as identity | a ban keeps the user out once open sessions are over |
| moderation queue and merge (`internal/moderation`) | - | the queue only reads; the merging methods are behind no route | would compose contributions and words | - |
| votes, bookmarks, comments (`internal/community`) | `votes`, `bookmarks`, `comments` | cast, remove; add, remove; post, edit, delete, flag | refer to words and definitions by id, votes without a foreign key | nothing is added to a deleted target; the text of a comment is its author's; deleted comments stay deleted |
| listings (`pkg/pagination` and all handlers) | none | twelve paginated listings, each a COUNT and a SELECT | read what everybody writes | totals and pages agree; a client that walks the pages sees every row once |
| seeder (`scripts/seed`) | the dictionary tables | upsert each entry of the file | runs beside the API | can be run again, after a stop too |
| access tokens (`pkg/auth`) | none (signed claims) | issue, check, check the role | used by all handlers | roles are checked as claimed |
| AI translation, model client, mailer, docs, config, logging | none | I/O | - | - |

The hard behaviours: read-modify-write cycles of whole rows without a condition
on what was read (contributions, users, AI requests); multi-statement updates of
the word aggregate, by the API and by the seeder; checks of a target in one
statement and a write in another; listings whose two statements see different
tables; the detached goroutine of an AI request, which outlives its
HTTP request and dies with the process; lost replies and expiry in Redis. Each is listed at
its line under `hazards` in `PROJECT.json`.

## 2. Modules

| module | what it is |
|---|---|
| `ContributionLifecycle` | abstract specification: what the workflow promises whatever the interleaving |
| `Contributions` | the workflow, one action per statement; implements `ContributionLifecycle` |
| `RateLimit` | the Redis counter, its expiry and the middlewares |
| `WordStore` | the word aggregate: create, update, merge, soft-delete, statement by statement |
| `AIRequests` | enrichment requests, composed with `WordStore` (it extends it, and an approval drives WordStore's merge) |
| `Accounts` | users, tokens and sessions, with the moderation of users |
| `Interactions` | votes, bookmarks and comments over words and definitions that come and go |
| `Listing` | the twelve paginated listings, and a client that walks one while it changes |
| `Seeder` | the seeder, composed with `WordStore` (it extends it; the API's requests go on as there) |
| `ContributionsProofs`, `RateLimitProofs`, `WordStoreProofs`, `AccountsProofs`, `InteractionsProofs`, `AIRequestsProofs`, `ListingProofs`, `SeederProofs` | theorems and proofs about the module each is named after; `AIRequestsProofs` and `SeederProofs` build on `WordStoreProofs` as their modules do on `WordStore` |
| `MC...` | small instances for TLC: symmetry sets and structured constants |

### Contributions

`contributions` is the table; `req[r]` is what the request goroutine `r` holds:
nothing, a submission before its second or third statement, or a decision, that
is the Go `*Contribution` after the entity's transition and before the UPDATE.
`SubmitContribution`, `CheckTarget` and `InsertContribution` are the three
statements of a submission; `WithdrawContribution`, `ApproveContribution` and
`RejectContribution` are the SELECT with the transition of
`domain/contribution.go`, `WriteDecision` the UPDATE. A refusal (403, 404, 409,
422) changes nothing and is a guard. `Abort` is a failing statement or a stopped
process. `CreateWord`, `SoftDeleteWord` and `WriteVerified` are what the other
components may do to the tables that are read. A contribution type outside the
enum is refused by the INSERT and is an `Abort`. The payload plays no part in
the workflow and is left out, as is the name of the three edit types, which it
treats alike.

`ContributionLifecycle` says: an id is submitted once; a request becomes a
contender only while the contribution is pending; only a contender decides. A
decision can be overruled, but only by a request that was already contending.
This is weaker than the state machine of the entity, and it is what the code
guarantees.

### RateLimit

`count` and `ttl` are the Redis keys; `Increment` is the MULTI/EXEC of INCR and
EXPIRE. `Limiter` stands for both middlewares, which differ only in where the
limit comes from. `LimiterFailsOpen` is the lost reply: counted, and let pass; a
Redis that cannot be reached changes nothing and is no action. `Tick`, with the
expiry of keys, is external (Redis). `calls` is a history variable, the requests
of the last `Window` ticks.

### WordStore

`row`, `child` and `job` are the tables and the requests under way; `last` is a
history variable with the last request to clear a word's part of a table (or to
create the word) and the children it wants there. Children are UUIDs: their
texts and order do not matter to the properties. A headword stands for the
columns of `words_unique`. `CreateWord`, `UpdateWord`, `MergeWord` begin a
request; `LoadDefinitions` and `LoadExamples` are the SELECTs of `hydrate` whose
result a merge uses; `UpdateRow`, `DeleteDefinitions`, `DeleteExamples` and
`Upsert` are the statements of the repository's `Update`; `Answer` and `Abort`
end it. Of `UpdateWord`'s SELECTs only the one on `words` is a step, since the
children it reads are discarded. `related` words are never stored by `Update`,
so a suggestion of one adds nothing.

### AIRequests

`ai` is the table, `runner[r]` the goroutine `runLLM` with its copy of the row,
`review[p]` what an admin's request holds. `Trigger` stores the row and starts
the goroutine; `RunnerRead` and `RunnerWrite` are the goroutine's two
statements, the model's answer being any of `Outcomes`; `RunnerLost` is a
statement that fails, which the code ignores, or the end of the process, which
does not wait for these goroutines. `ApproveAIRequest` reads and decides;
`BeginMerge`, `LoadWord`, `AddOutput`, `WriteWord` and `EndMerge` are the merge,
each a statement of `WordStore`; `WriteReview` writes. The parsed output is NULL,
JSON without the field the merge looks for, or JSON with it, and `AddsTo` is the
table that gets a row: definitions for `enrich_definition`, examples for
`suggest_example`, none for `suggest_related`. `merged` is history: the requests
whose suggestion an INSERT of their merge has stored; `early` is history too. The
existence of the contribution of
a quality check is not modelled: contributions are never deleted and a quality
check merges nothing. Reviewer and time are written with the review status and
left out. The audit log's error is ignored and nothing in the code reads the
log.

A suggested related word is a disagreement between the code and its plan.
`TASKS.md:820` has the approval add related words; `mergeAIOutput` appends the
word to the copy in memory (`enrichment_service.go:240-247`), and the
repository's `Update` writes the row, the definitions and the examples only. The
request ends approved, the word is rewritten as it was read, and no statement of
the program writes the table of related words. `AIRequests` models it so: such a
request never enters `merged`, and `ApprovedIsMerged` speaks of definitions and
examples only.

The handlers `TriggerForWord` (three of them), `QualityCheck`, `HandleApprove`
and `HandleReject` are the entry points.

### Accounts

`users` is the table, `verify`, `reset` and `refresh` the keys of Redis,
`access` the roles claimed by tokens that have not expired, `req[p]` what a
request holds between two statements. Every change of a user is the same pair
of steps: an operation reads the row (`FindUser`), modifies the copy and
`WriteUser` writes all of it. `excused` is history: the accounts that lost their
only way to be verified. The columns told apart are the role, `is_active` and
`email_verified_at`; name and password hash are written with them but decide
nothing the properties are about (a login is one with the password of the row).
`Root` is the administrator the seeder creates, who can always act.

Statements are folded where nobody can tell: the lookup and the SET of
`ForgotPassword` (rows are never deleted), and the SET of the new and the DEL of
the old refresh token in `Rotate` (nobody knows the new token before the answer;
that the DEL may fail, which the code ignores, is kept). The audit log written
at the end of a moderation, which nothing reads, is left out.

### Interactions

`target` says which words and definitions are live. What the dictionary does to
them is modelled as far as ids are concerned: `CreateWord`, `UpdateWord`,
`MergeWord` and `SeedWord` begin a writer, which holds the definitions it will
insert; `LoadDefinitions` is the SELECT of a merge; `UpdateRow`,
`DeleteDefinitions` and `UpsertDefinition` are the statements of the
repository's `Update`; `SoftDeleteWord` deletes the word and leaves its
definitions. An update and the seeder insert definitions with new ids, a merge
inserts those it read under their old ids: between its DELETE and its INSERTs
they are not there, and one that another request deleted after the merge had read
it comes back. `WordOf` says which word a definition is made for. Examples and
headwords play no part here; `WordStore` has them. Every operation is a service action, the check with the SELECT,
followed by the statement that writes; the handlers `castVote`, `removeVote`,
`Handle...` add the caller and the arguments. `NewComment`, `Edited` and
`Flagged` are the methods of `domain/comment.go`; `UpdateComment` stores the
body only, as the repository does, so a flag is lost. Comments on contributions
exist as a type and no route creates them.

### Listing

A listing is a definition per layer: the two statements (`Count...` and
`List...`), the repository that says which comes first, and the handler that
says how the parameters are read and the number of pages computed. `Count` and
`List` run the two statements; between them, and between the pages of a walk,
rows `Enter` and `Leave`. A row is its rank in the ORDER BY columns and the
number of times the join of a search produces it. No ORDER BY ends in a unique
column, so rows of equal rank come in any order (`Orderings`). `Offset` is
truncated to `OffsetBits` bits. `seen`, `steady` and `writes` are history: what
the walk saw, which rows stayed at a rank of their own, and what was written.
The client (`StartWalk`, `NextPage`) is external. What does not parse as an
integer is treated like 0; the reading of children for each word and of the word
whose comments are listed are failures of the request (`Fail`) when they fail.

### Seeder

`seed` is where the run is: the entry, the UUID of its word and of the last root
word, and what is left to insert. A file is a sequence of entries with each
derived form after its root. `UpsertExisting` and `UpsertNew` are the two
outcomes of INSERT ... ON CONFLICT; `SeedDeleteDefinitions`,
`SeedDeleteExamples` and `SeedInsert` succeed or, with their error dropped, do
nothing; `Skip` is an entry whose class is unknown or whose upsert fails, with
its derived forms; `Stop` ends the process anywhere. `run` is history: whether
this run went undisturbed. `ApiNext` lets the requests of `WordStore` run in
between. A headword is the name with the UUID of the root (the dialect and the
homonym number are part of the name). The class of an entry is its letters and
the stray quotes that `normalizeWordClass` strips.

## 3. Runs

| run | result | shows |
|---|---|---|
| `contributions` | pass | `TypeOK`; `ReviewMatchesStatus`: status and review columns agree; `TargetRowExists`; `ImplementsLifecycle` (refinement); `DecisionsSettle`: a decision becomes final |
| `contributions_finality` | violation | `NoWithdrawAfterApproval`, as PRD.md:737 has it: a withdrawal reads pending, an approval is written, the withdrawal overwrites it |
| `ratelimit` | pass | `TypeOK`; `WindowBound`: no window, wherever it starts, passes more than the limit; `QuietClientServed` |
| `ratelimit_refusal` | violation | `RefusedOnlyOverLimit`: since every request renews the TTL (the interface comment asks for the first only), a client that is not over the limit in any window is refused |
| `wordstore` | pass | `TypeOK`; `LastWriterComplete`; `NoReplacementAfterDelete` |
| `wordstore_replace` | violation | `UpdateReplaces`: two requests on one word both succeed and leave the children of both |
| `ai_requests` | pass | `AITypeOK`; `ApprovedIsMerged`: the definition or example of an approved output has been inserted; `ReviewSticks`; `RequestsSettle` |
| `ai_review` | violation | `ApprovesOnlyUnreviewed` (PRD.md:761): a rejected request is approved |
| `accounts` | pass | `TypeOK`; `Verifiable`: an account that is not verified can still be, unless its registration failed half-way, its token expired or a stale copy undid it; `NoCollateralChange`: a field on which all pending writes agree changes only after an operation meant to change it begins; `BanHolds`: once open sessions are over only an unban lets a banned user in; `DemotionSettles`: no token claims a role the user has lost for good |
| `interactions` | pass | `TypeOK`; `DeletedTargetsQuiet`: once the requests that found it alive are over, a deleted word or definition does not come back and nothing is added to it; `TextIsTheAuthors`; `DeletedCommentStays` |
| `listing` | pass | `TypeOK`; `RowsFillThePage`: rows and total agree; `NoSkipWithoutDelete`, `NoRepeatWithoutInsert`: a walk misses (repeats) a row of its own rank only if rows left (entered) |
| `seeder` | pass | `SeedTypeOK`; `SeededExactly`: a run nobody disturbs leaves each headword with the children of its last entry, whatever earlier runs left, and with fewer if INSERTs failed; `NoReplacementAfterDelete`, the property of `WordStore`, with the seeder beside the API: no request begins to replace a deleted word's children and no upsert revives it (the seeder itself does replace the children of a deleted word; the property counts requests only) |

Each property of a passing run has a mutant in `PROJECT.json`: a change of one
mapped definition, defined just before it and marked "mutant", that breaks it.

**Bounds.** `contributions`: one contribution, three requests, an ordinary user
and an admin (who may also contribute), one word that exists, does not exist or
is soft-deleted. Contributions do not interact, and a race needs a read, a
decision in between and a write: two requests, three to see a decision
overruled twice. `ratelimit`: limits 1 and 2, window 3, counters up to 3, so
that each key reaches its limit and passes it; `CallIds` bounds the requests
recorded in a window to three, one more than the larger limit. `wordstore`: two
words, headwords, children and requests: enough for two overlapping updates of
one word, for a conflict of headwords with a soft-deleted word and for children
in both tables; the violation uses three children. `ai_requests`: one request,
word and child, two admins and the goroutine: three writers of one row. With the
one child a suggestion is merged into a word that has no other at that moment;
merges into a word with children are in `wordstore`, and the theorem has any
number.
`accounts`: one account, `Root`, two requests, two refresh tokens and one reset
token: a full-row write against every other operation, and two refreshes with
one token. A second account shares nothing with the first but the admin role,
which `Root` has as well. `interactions`: two users, one word, one definition,
one comment, two texts, two requests, each of which may also be a writer of the
word: a vote against a merge, and a merge against the update that deletes what
it has read. `listing`: three rows, ranks with ties,
pages of one or two rows, offsets of three bits, so that pages up to 9 reach
negative offsets and offsets that wrap to small ones; every listing is an
initial state. `seeder`: a file of four entries (a root, a derived form with a
stray quote, the same root again, an unknown class), two words, three UUIDs of
children and one API request (`MaxRequests`); runs are not bounded. The first
entry takes two UUIDs and its derived form a third, so that with three a run can
end without a gap, at first, after a stop and after a request.
The named bounds are `MaxCount` (the counter; Redis has 64 bits) and the sizes
of the sets of ids; the theorems hold for all of them.

**Fairness.** `contributions`: weak fairness on "the request goes on or aborts":
Go schedules every goroutine, and a statement ends with a result or an error. No
fairness is assumed on requests arriving or on the other components.
`ai_requests`: weak fairness on the two steps of `runLLM`, a goroutine whose
only wait is the model client's call, which has a timeout of 30 seconds
(`internal/ai/infrastructure/openrouter/client.go`). That the goroutine may be
lost is kept as an action and an exception in `RequestsSettle`.

`accounts`: weak fairness on a request under way (it goes on or fails) and on the
expiry of access tokens, which is fifteen minutes of clock. Nothing is assumed
about refresh tokens: a session may be refreshed for ever. `seeder` states no
liveness: nothing in the code runs it again.

**Deadlock** is checked in `contributions`, `ratelimit`, `accounts`, `listing`
and `seeder`. `wordstore`, `ai_requests` and `interactions` switch it off: when
the ids are used up and all words are soft-deleted, nothing is left to do.

**Exceptions stated in the properties.** `ApprovedIsMerged` and
`RequestsSettle` exclude requests that somebody reviewed before the model
answered: such a review writes back a pending row without an output, and the
goroutine's write and the review's then overwrite each other in either order.
`ReviewSticks` speaks of rows that show the answer for the same reason.
`ApprovedIsMerged` says nothing of related words, which are not stored (section
2). `DeletedTargetsQuiet` begins when no request under way found the target
alive: a vote that was checked before the deletion is still stored, and a merge
that read a definition brings it back, after which it collects votes again.
`NoCollateralChange` speaks of fields no pending write disagrees on: an
overlapping profile update does lift a ban, and the property says that overlap
is the only way. `BanHolds` begins when the sessions are over, since a refresh
does not look at `is_active`. `TextIsTheAuthors` likewise lets a flag undo an
edit that was stored between its two statements. `RowsFillThePage` excludes
offsets of 2^31 and more, where OFFSET is truncated, and writes between the two
statements. `NoSkipWithoutDelete` needs, except for the listings of words,
that no row entered between count and select.

## 4. Proofs

| theorem | statement |
|---|---|
| `ContributionsProofs!TypeCorrect`, `ReviewConsistent`, `TargetsExist` | `Spec => []TypeOK`, `[]ReviewMatchesStatus`, `[]TargetRowExists` |
| `ContributionsProofs!LifecycleImplemented` | `Spec => ImplementsLifecycle` |
| `ContributionsProofs!SerialFinality` | with a single request goroutine, `Spec => NoWithdrawAfterApproval` |
| `RateLimitProofs!TypeCorrect`, `LimitHolds`, `PauseHelps` | `Spec => []TypeOK`, `[]WindowBound`, `QuietClientServed` |
| `WordStoreProofs!TypeCorrect`, `LastWriterWins`, `DeletionFinal` | `Spec => []TypeOK`, `[]LastWriterComplete`, `NoReplacementAfterDelete` |
| `AIRequestsProofs!AITypeCorrect`, `ApprovalsAreMerged`, `ReviewsStick` | `AISpec => []AITypeOK`, `[]ApprovedIsMerged`, `ReviewSticks` |
| `AIRequestsProofs!ImplementsWordStore`, `StoreGuaranteesKept` | `AISpec => Spec` (of `WordStore`), hence `AISpec => []LastWriterComplete /\ NoReplacementAfterDelete` |
| `AccountsProofs!TypeCorrect`, `VerificationRepeatable`, `NoLostUpdateWithoutOverlap`, `BansHold` | `Spec => []TypeOK`, `[]Verifiable`, `NoCollateralChange`, `BanHolds` |
| `InteractionsProofs!TypeCorrect`, `DeletedStaysQuiet`, `OnlyAuthorsEdit`, `DeletionOfCommentFinal` | `Spec => []TypeOK`, `DeletedTargetsQuiet`, `TextIsTheAuthors`, `DeletedCommentStays` |
| `ListingProofs!TypeCorrect`, `AnswersFillThePage`, `WalksMissNothing`, `WalksRepeatNothing` | `Spec => []TypeOK`, `[]RowsFillThePage`, `[]NoSkipWithoutDelete`, `[]NoRepeatWithoutInsert` |
| `SeederProofs!SeedTypeCorrect`, `SeederKeepsDeletions`, `SeedingIsExact` | `SeedSpec => []SeedTypeOK`, `NoReplacementAfterDelete`, `[]SeededExactly` |

The assumptions are those the modules declare, which TLC evaluates on every run:
admins are users, NULLs and other placeholders are no ids
(`ContributionAssumption`, `WordStoreAssumption`, `UsersAssumption`), words and
definitions have different UUIDs and a definition is made for one word
(`TargetsAssumption`), limits, windows, page
sizes and the width of an offset are positive, and the rows of a table can be
counted in that width (`RateLimitAssumption`, `ListingAssumption`), and a file
is a sequence of entries in which each derived form follows a root and every
entry has a headword (`SeederAssumption`). No assumption bounds the sets of
users, words, tokens, children or requests, or the length of a file; the rows
of a listing are finite and fewer than 2^31, which is what the truncation to
int32 in the code supposes.

- *Contributions.* `ReviewMatchesStatus` is already stated for the rows in the
  hands of requests as well as for the stored ones: a stored row becomes
  whatever a request holds, so the claim about the table alone is not
  inductive. `TargetRowExists` needs that a submission past the entity's check
  has a target when its type needs one, and that a decision under way is on a
  row that exists (`HeldDecision`). The refinement is proved action by
  action: a SELECT with a decision is `Contend`, the UPDATE is `Decide`, an
  abort of a decision is `GiveUp`, everything else stutters. `SerialFinality`
  shows that the violation of run `contributions_finality` is entirely due to
  overlap: with one goroutine, a request about to decide implies that the
  contribution is still pending.
- *RateLimit.* The invariant says that all requests of a window belong to the
  same life of the key (they carry distinct counts between 1 and the present
  one, `SameEpoch`) and that the key outlives them (`Touched`). Requests passed
  have counts from 1 to the limit and these are distinct, so the set injects
  into `1 .. Limit[k]`, which bounds its cardinality.
- *WordStore.* The invariant adds to `LastWriterComplete` that the request named
  by `last` is still working on that word and past its DELETE on that table: a
  later DELETE changes `last`, and no other statement removes a child.
- *AIRequests.* The module drives `WordStore`, and the refinement mapping is the
  identity on the words: a trigger, a step of the goroutine and the two ends of a
  review leave them alone, `BeginMerge` is `MergeWord`, and the steps in between
  are those of `WordStore`. What is proved there therefore holds here. For the
  reviews, `ApprovedIsMerged` alone is not inductive, because three parties
  write whole rows from copies. `ReviewInv` says what orders them: while
  `runLLM` is at work the row and every copy of it are pending (`RunnerFirst`);
  a review that is not early read an answer and stays so (`ReadLate`); the
  goroutine carries no review of others (`RunnerUnreviewed`); a merge past its
  SELECTs has inserted the suggestion or still holds it (`Inserting`), so that an
  approval about to be written has been merged (`MergedFirst`). `ReviewSticks` follows from the
  same invariant.
- *Accounts.* `TypeOK` includes that whatever names an account names one with a
  row: no lookup after the first of a request comes back empty. `Verifiable`
  becomes inductive with the two half-way points of a verification: a token is
  deleted only for an account that is verified, or excused
  (`SpentForSomething`), and a write followed by that deletion is one that
  verifies (`WritesVerified`). `NoCollateralChange` and `BanHolds` follow from
  the types, action by action; lemmas treat the reads (`ReadAgrees`,
  `ReadLocked`) once for all operations.
- *Interactions.* What the first statement checked still holds in a weaker form
  at the second: a target that was stored once is live or gone (`Checked`).
  `WriteStep` sums up the writers of words: a deleted definition comes back only
  from the hands of a writer, and no writer takes a deleted definition into its
  hands. So a deleted target nobody carries stays deleted, and nobody who looks
  for it finds it. The three action properties follow from this and the types.
- *Listing.* That an answer has the rows its total speaks of needs what the
  first of the two statements saw (`FirstStatement`, for both orders of the
  statements) and the size of a slice of an ordering (`CutSize`). The theorems
  about walks rest on one lemma, `Position`: whatever order the database gives
  ties, a row with a rank of its own comes right after the rows that are
  `Ahead` of it. While no row leaves, the number ahead of a row does not fall,
  so an unseen row stays ahead of what the walk has covered (`UnseenAhead`);
  while none enters it does not grow, so a seen one stays behind
  (`SeenBehind`). `TotalTells` says that the total then makes the client go on,
  and `InReach` that a walk never reaches an offset that would be truncated:
  this is where the width matters. `WalkInv` is the conjunction.
- *Seeder.* Types need `Positioned`: a derived form is reached only when its
  root's UUID is known, since skipping a root skips its forms
  (`NextEntryIs`). `SeedingIsExact` needs two invariants. `HeadwordsUnique` is
  the constraint `words_unique`, kept by the API's check and by the upsert.
  `RunInv` speaks of a run nothing has disturbed: before the upsert of entry
  `at`, every earlier entry that is not replaced by a later one before `at` has
  a word with its children (`WrittenUpTo`); after it the same holds of those not
  replaced by `at` itself, `seed.root` is the row of the current root, and the
  children stored and left make up those of the file (`Filling`). The core is
  `WordApart`: the children deleted at one entry are never those of an earlier
  entry with another headword, because a row has one headword and a headword
  determines the name and the root (`SharedRow`).

TLC checked the inductive invariants (`ReviewInv`, `WalkInv`, `Positioned`,
`HeadwordsUnique` and `RunInv` among them) on the instances of the runs before
they were proved.

Only model-checked: `DecisionsSettle`, `RequestsSettle` and `DemotionSettles`,
since liveness under fairness is out of the prover's reach. Every other property
of a passing run is proved. The four violations are counterexamples, of which
`SerialFinality` shows where the first comes from. Induction over data and
RECURSIVE operators are out of reach too; the modules use neither. (The one
least element a proof needs, in `NextEntryIs`, comes from the well-foundedness
of the natural numbers.)

## 5. Not modelled

AI translation, prompts, the mailer, the documentation handler, configuration,
logging and error formatting keep no state. Operations that read a single row or
a count (a word, a contribution, an AI request, a user, the statistics of the
moderation) are one statement and change nothing. The audit log is written and
never read back. The approving and merging methods of `ModerationService`
(`moderation_service.go:64-227`) are reachable from no route: approvals go
through the community handler, which is in `Contributions`. Generated sqlc code
is modelled through the statements the modules use; the enumerations and row
types that the five copies of `models.go` repeat are not. Texts, prompts and
passwords are not told apart.

That a flag is never stored, that an approved related word is never stored, and
that the AI listings answer with zero `total_pages`, is modelled as the code has it and listed under `hazards`; no
property restates it.

## 6. Plan

Done, in this order: contributions with its abstract specification and proofs;
the rate limiter; the word store; AI enrichment; accounts with the moderation of
users; interactions; listings; the seeder.

The proofs followed in this order: contributions, rate limiter, word store;
accounts, interactions, AI enrichment, listings, seeder.

Next:

1. Serial counterparts of the other violations, as `SerialFinality` is of the
   first: with one request at a time an update of a word replaces all of its
   children, and with requests further apart than a window the limiter refuses
   only what is over the limit.
2. `LastWriterComplete` with the seeder beside the API.
3. The safety part of `RequestsSettle` (a request whose goroutine is neither at
   work nor lost is not pending, unless it was reviewed early) as an invariant.
