----------------------------- MODULE WordStore -----------------------------
(***************************************************************************)
(* The dictionary's word aggregate: WordCommandService, and the merge of   *)
(* an approved AI suggestion, on top of PostgresWordRepository.  A word is *)
(* one row of words with its rows in definitions and in examples.  The     *)
(* repository reads and writes the aggregate as a series of autocommitted  *)
(* statements: select the word, then its children table by table; insert   *)
(* or update the word, delete the old children table by table, insert the  *)
(* new ones one by one.  Other requests run between any two of them, and a *)
(* request that fails stops where it is: nothing is rolled back.           *)
(*                                                                         *)
(* Children are known by their UUIDs only.  A soft-deleted word keeps its  *)
(* row, and with it its headword.                                          *)
(***************************************************************************)
EXTENDS Naturals, FiniteSets

CONSTANTS Words,     \* UUIDs of words
          Headwords, \* values of (banjar, dialect, homonym, is_root, root)
          Children,  \* UUIDs of definitions and examples
          Procs,     \* the request goroutines
          NoHeadword, Nobody, Aborted

ASSUME WordStoreAssumption ==
    NoHeadword \notin Headwords /\ Nobody \notin Procs /\ Aborted \notin Procs

Tables == {"definitions", "examples"}

VARIABLES row,   \* row[w]: the row of words
          child, \* child[t][w]: the rows of table t with word_id w
          job,   \* what each request goroutine is doing
          last   \* last[t][w]: who cleared w's part of t, or created w, last,
                 \* and the children it wants there; by is Nobody when that
                 \* request has answered, Aborted when it failed (history)

wordVars == <<row, child, job, last>>

Absent == [state |-> "absent", headword |-> NoHeadword]
Row == {Absent} \cup [state : {"live", "deleted"}, headword : Headwords]

\* put[t]: the children a request holds for table t and has not inserted yet.
Idle == [pc |-> "idle"]
Job == [pc : {"loadDefinitions", "loadExamples", "updateRow",
              "deleteDefinitions", "deleteExamples", "insert"},
        word : Words, headword : Headwords, put : [Tables -> SUBSET Children]]

Last == [by : Procs \cup {Nobody, Aborted}, want : SUBSET Children]

Init ==
    /\ row = [w \in Words |-> Absent]
    /\ child = [t \in Tables |-> [w \in Words |-> {}]]
    /\ job = [p \in Procs |-> Idle]
    /\ last = [t \in Tables |-> [w \in Words |-> [by |-> Nobody, want |-> {}]]]

-----------------------------------------------------------------------------
(* Statements. *)

Live(w) == row[w].state = "live"

\* words_unique spans every row, the soft-deleted ones too.
HeadwordFree(w, h) == \A v \in Words \ {w} : row[v].headword # h

\* UUIDs that are in no table and in no request's hands.
Fresh ==
    {d \in Children :
        /\ \A t \in Tables, w \in Words :
              d \notin child[t][w] \cup last[t][w].want
        /\ \A p \in Procs : job[p] # Idle =>
              \A t \in Tables : d \notin job[p].put[t]}

\* New definitions and examples, all with fresh UUIDs.
FreshContent ==
    {put \in [Tables -> SUBSET Fresh] :
        put["definitions"] \cap put["examples"] = {}}

Step(p, pc) == job' = [job EXCEPT ![p].pc = pc]

\* The request ends: nobody's writes to come are counted on any more.
Leave(p, how) ==
    /\ job' = [job EXCEPT ![p] = Idle]
    /\ last' = [t \in Tables |-> [w \in Words |->
                  IF last[t][w].by = p
                  THEN [by |-> how, want |-> last[t][w].want \ job[p].put[t]]
                  ELSE last[t][w]]]

-----------------------------------------------------------------------------
(* Requests. *)

\* POST /admin/words: INSERT the word; a taken headword is a 409.
CreateWord(p, w, h, put) ==
    /\ job[p] = Idle
    /\ row[w] = Absent
    /\ HeadwordFree(w, h)
    /\ row' = [row EXCEPT ![w] = [state |-> "live", headword |-> h]]
    /\ last' = [t \in Tables |->
          [last[t] EXCEPT ![w] = [by |-> p, want |-> put[t]]]]
    /\ job' = [job EXCEPT ![p] = [pc |-> "insert", word |-> w,
                                  headword |-> h, put |-> put]]
    /\ UNCHANGED child

\* PATCH /admin/words/:id: FindByID, then the definitions and examples that
\* were read give way to those of the request, all of them new; the headword
\* stays (h is the one read) or is replaced.
UpdateWord(p, w, h, put) ==
    /\ job[p] = Idle
    /\ Live(w)
    /\ job' = [job EXCEPT ![p] = [pc |-> "updateRow", word |-> w,
                                  headword |-> h, put |-> put]]
    /\ UNCHANGED <<row, child, last>>

MergeUnchecked(p, w) ==         \* mutant: FindByID's error is not looked at
    /\ job[p] = Idle
    /\ job' = [job EXCEPT ![p] = [pc |-> "loadDefinitions", word |-> w,
                                  headword |-> row[w].headword,
                                  put |-> [t \in Tables |-> {}]]]
    /\ UNCHANGED <<row, child, last>>

\* mergeAIOutput: FindByID selects the word, then its definitions, then its
\* examples; the suggestion is appended to what was read.
MergeWord(p, w) ==
    /\ job[p] = Idle
    /\ Live(w)
    /\ job' = [job EXCEPT ![p] = [pc |-> "loadDefinitions", word |-> w,
                                  headword |-> row[w].headword,
                                  put |-> [t \in Tables |-> {}]]]
    /\ UNCHANGED <<row, child, last>>

LoadDefinitions(p) ==
    /\ job[p].pc = "loadDefinitions"
    /\ job' = [job EXCEPT ![p].pc = "loadExamples",
                          ![p].put["definitions"] = child["definitions"][job[p].word]]
    /\ UNCHANGED <<row, child, last>>

\* add[t]: the new definition or the new example, one at most; none when the
\* output is empty or names a related word, which Update does not store.
Suggestion ==
    {add \in FreshContent : Cardinality(add["definitions"] \cup add["examples"]) <= 1}

AddSuggestion(p, add) ==
    /\ job[p].pc = "loadExamples"
    /\ job' = [job EXCEPT
          ![p].pc = "updateRow",
          ![p].put["definitions"] = @ \cup add["definitions"],
          ![p].put["examples"] = child["examples"][job[p].word] \cup add["examples"]]
    /\ UNCHANGED <<row, child, last>>

LoadExamples(p) == \E add \in Suggestion : AddSuggestion(p, add)

UpdateRowDeleted(p) ==           \* mutant: deleted_at IS NULL is left out
    /\ job[p].pc = "updateRow"
    /\ HeadwordFree(job[p].word, job[p].headword)
    /\ row' = [row EXCEPT ![job[p].word].headword = job[p].headword]
    /\ Step(p, "deleteDefinitions")
    /\ UNCHANGED <<child, last>>

\* UPDATE words ... WHERE id AND deleted_at IS NULL.
UpdateRow(p) ==
    /\ job[p].pc = "updateRow"
    /\ Live(job[p].word)
    /\ HeadwordFree(job[p].word, job[p].headword)
    /\ row' = [row EXCEPT ![job[p].word].headword = job[p].headword]
    /\ Step(p, "deleteDefinitions")
    /\ UNCHANGED <<child, last>>

\* DELETE FROM t WHERE word_id.
Clear(p, t) ==
    /\ child' = [child EXCEPT ![t][job[p].word] = {}]
    /\ last' = [last EXCEPT ![t][job[p].word] = [by |-> p, want |-> job[p].put[t]]]
    /\ UNCHANGED row

DeleteDefinitions(p) ==
    /\ job[p].pc = "deleteDefinitions"
    /\ Clear(p, "definitions")
    /\ Step(p, "deleteExamples")

DeleteExamples(p) ==
    /\ job[p].pc = "deleteExamples"
    /\ Clear(p, "examples")
    /\ Step(p, "insert")

UpsertSkips(p) ==                \* mutant: the error of an INSERT is dropped
    /\ job[p].pc = "insert"
    /\ \E t \in Tables : \E d \in job[p].put[t] :
          /\ t = "examples" => job[p].put["definitions"] = {}
          /\ child' \in {child, [child EXCEPT ![t][job[p].word] = @ \cup {d}]}
          /\ job' = [job EXCEPT ![p].put[t] = @ \ {d}]
    /\ UNCHANGED <<row, last>>

\* One INSERT ... ON CONFLICT (id) DO UPDATE of upsertChildren: definitions
\* first, then examples, each table in slice order, which no property sees.
Upsert(p) ==
    /\ job[p].pc = "insert"
    /\ \E t \in Tables : \E d \in job[p].put[t] :
          /\ t = "examples" => job[p].put["definitions"] = {}
          /\ child' = [child EXCEPT ![t][job[p].word] = @ \cup {d}]
          /\ job' = [job EXCEPT ![p].put[t] = @ \ {d}]
    /\ UNCHANGED <<row, last>>

\* Nothing is left to insert.
AllInserted(p) == job[p].pc = "insert" /\ \A t \in Tables : job[p].put[t] = {}

\* 200 or 201.
Answer(p) ==
    /\ AllInserted(p)
    /\ Leave(p, Nobody)
    /\ UNCHANGED <<row, child>>

\* A statement finds no row, violates words_unique or fails, or the process
\* stops.  What was written stays.
Abort(p) ==
    /\ job[p] # Idle
    /\ ~AllInserted(p)
    /\ Leave(p, Aborted)
    /\ UNCHANGED <<row, child>>

\* DELETE /admin/words/:id.  The SELECT before it only spares the UPDATE,
\* which repeats its condition.
SoftDeleteWord(w) ==
    /\ Live(w)
    /\ row' = [row EXCEPT ![w].state = "deleted"]
    /\ UNCHANGED <<child, job, last>>

Admin(p) ==
    \E w \in Words, h \in Headwords, put \in FreshContent :
       CreateWord(p, w, h, put) \/ UpdateWord(p, w, h, put)

\* The statements that write what a request holds.
Save(p) ==
    UpdateRow(p) \/ DeleteDefinitions(p) \/ DeleteExamples(p) \/ Upsert(p)

Continue(p) == LoadDefinitions(p) \/ LoadExamples(p) \/ Save(p)

Next ==
    \/ \E p \in Procs : Admin(p) \/ Continue(p) \/ Answer(p) \/ Abort(p)
    \/ \E p \in Procs, w \in Words : MergeWord(p, w)
    \/ \E w \in Words : SoftDeleteWord(w)

Spec == Init /\ [][Next]_wordVars

-----------------------------------------------------------------------------
(* Properties. *)

\* Type correctness of the three tables and of the requests.
TypeOK ==
    /\ row \in [Words -> Row]
    /\ child \in [Tables -> [Words -> SUBSET Children]]
    /\ job \in [Procs -> {Idle} \cup Job]
    /\ last \in [Tables -> [Words -> Last]]

\* The last request to clear a table, or to create the word, loses nothing:
\* the definitions and examples it wants are there, or it is still inserting
\* them.  However creations, updates and merges of one word overlap, a child
\* that Update or Create has reported as written is gone only if a later
\* DELETE took it.
LastWriterComplete ==
    \A t \in Tables, w \in Words :
        last[t][w].want \subseteq child[t][w] \cup
            UNION {job[p].put[t] : p \in {last[t][w].by} \cap Procs}

\* The requests past the UPDATE that checked that w is not deleted.
Replacing(w) == {p \in Procs : /\ job[p] # Idle
                               /\ job[p].word = w
                               /\ job[p].pc \in {"deleteDefinitions",
                                                 "deleteExamples", "insert"}}

\* "Updating a soft-deleted word returns NOT_FOUND" (TASKS.md 2.4.3), when the
\* deletion comes between any two statements of an update or a merge: after it
\* no request begins to replace the word's children, and the word does not
\* come back.  The requests already past the UPDATE finish.
NoReplacementAfterDelete ==
    [][\A w \in Words : row[w].state = "deleted"
          => Replacing(w)' \subseteq Replacing(w) /\ row'[w].state = "deleted"]_wordVars

\* "UpdateWord replaces word data": when no request is working on a word, its
\* children are those of the last request to replace them and no others, if
\* that request did not fail.
UpdateReplaces ==
    \A t \in Tables, w \in Words :
        (/\ \A p \in Procs : job[p] # Idle => job[p].word # w
         /\ last[t][w].by # Aborted)
            => child[t][w] = last[t][w].want
=============================================================================
