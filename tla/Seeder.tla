------------------------------- MODULE Seeder -------------------------------
(***************************************************************************)
(* The dictionary seeder, scripts/seed, next to the API of WordStore.  It  *)
(* goes through the file entry by entry, and for each one upserts the      *)
(* word, deletes the word's definitions and inserts those of the file,     *)
(* deletes its examples and inserts those of the file: autocommitted       *)
(* statements, between which API requests run.  An entry whose upsert      *)
(* fails is skipped, with its derived forms; the error of every other      *)
(* statement is dropped.  The seeder may stop anywhere, and is then run    *)
(* again from the beginning of the file.                                   *)
(*                                                                         *)
(* A headword is a name with the UUID of its root word, and words_unique   *)
(* is NULLS NOT DISTINCT: two root words of one name conflict as well.     *)
(* The dialect and the homonym number are part of the name.                *)
(***************************************************************************)
EXTENDS WordStore, Sequences

CONSTANTS File,         \* the entries in order, each derived form after its root
          NoRoot,       \* root_word_id is NULL
          MaxRequests   \* bound on the API requests

WordClasses == {"n", "v", "a", "adv", "p", "pb", "ki", "num", "pron"}

\* isRoot: the entry is at the top level of the file.
\* wordClass: its letters and how many quotes scanning left at its end.
Entry == [name : STRING, isRoot : BOOLEAN,
          wordClass : [letters : STRING, quotes : Nat],
          definitions : Seq(STRING), examples : Seq(STRING)]

Headword(name, root) == <<name, root>>

ASSUME SeederAssumption ==
    /\ NoRoot \notin Words /\ MaxRequests \in Nat /\ File \in Seq(Entry)
    /\ \A e \in 1..Len(File) :
          IF File[e].isRoot
          THEN Headword(File[e].name, NoRoot) \in Headwords
          ELSE e > 1 /\ \A w \in Words : Headword(File[e].name, w) \in Headwords

VARIABLES seed,     \* where the seeder is
          run,      \* how this run went (history)
          requests  \* API requests so far (bound)

vars == <<row, child, job, last, seed, run, requests>>

\* clean: no statement failed and no API request wrote since the run began;
\* gaps: INSERTs of definitions or examples failed, and nothing else.
RunState == {"clean", "gaps", "disturbed"}

Stopped == [pc |-> "stopped"]

\* at: the entry being written; root: the UUID upsertEntry returned for the
\* last top-level entry; left: what is still to be inserted in this table.
Seed == [pc : {"upsert", "deleteDefinitions", "definitions", "examples"},
         at : 1..Len(File), word : Words \cup {NoRoot}, root : Words \cup {NoRoot},
         left : SUBSET Nat]

Finished == [pc |-> "finished"]

SeedInit ==
    /\ Init
    /\ seed = Stopped
    /\ run = "clean"
    /\ requests = 0

-----------------------------------------------------------------------------

\* normalizeWordClass strips the quotes and tries again.
NormalizeWordClass(class) == class.letters

Known(e) == NormalizeWordClass(File[e].wordClass) \in WordClasses

\* Empty meanings and sentences are passed over.
NonEmpty(texts) == {i \in DOMAIN texts : texts[i] # ""}

\* The next entry to write: the following one, or, when this one is skipped,
\* the following one that is not derived from it.
NextEntry(skip) ==
    LET rest == {e \in 1..Len(File) : e > seed.at
                    /\ (skip /\ File[seed.at].isRoot => File[e].isRoot)}
    IN  IF rest = {} THEN Finished
        ELSE [seed EXCEPT !.pc = "upsert", !.word = NoRoot, !.left = {},
                          !.at = CHOOSE e \in rest : \A f \in rest : e <= f]

Api == <<job, requests>>

\* main, after seedAdmin: an admin that exists already is no error.
Run ==
    /\ seed \in {Stopped, Finished}
    /\ File # <<>>
    /\ seed' = [pc |-> "upsert", at |-> 1, word |-> NoRoot, root |-> NoRoot, left |-> {}]
    /\ run' = "clean"
    /\ UNCHANGED <<wordVars, requests>>

\* The process is stopped, or loses the database and is started again.
Stop ==
    /\ seed \notin {Stopped, Finished}
    /\ seed' = Stopped
    /\ run' = "disturbed"
    /\ UNCHANGED <<wordVars, requests>>

EntryHeadword ==
    Headword(File[seed.at].name, IF File[seed.at].isRoot THEN NoRoot ELSE seed.root)

HasHeadword(h) == {w \in Words : row[w].headword = h}

UpsertedForgets(w) ==            \* mutant: the UUID returned for a root is not kept
    seed' = [seed EXCEPT !.pc = "deleteDefinitions", !.word = w]

Upserted(w) ==
    seed' = [seed EXCEPT !.pc = "deleteDefinitions", !.word = w,
                         !.root = IF File[seed.at].isRoot THEN w ELSE @]

UpsertRevives ==                 \* mutant: deleted_at = NULL in the DO UPDATE
    /\ seed.pc = "upsert" /\ Known(seed.at)
    /\ \E w \in HasHeadword(EntryHeadword) :
          /\ Upserted(w)
          /\ row' = [row EXCEPT ![w].state = "live"]
    /\ UNCHANGED <<child, last, Api, run>>

\* INSERT ... ON CONFLICT (the columns of words_unique) DO UPDATE.  It sets
\* columns the model does not have; deleted_at is not among them.
UpsertExisting ==
    /\ seed.pc = "upsert" /\ Known(seed.at)
    /\ \E w \in HasHeadword(EntryHeadword) : Upserted(w)
    /\ UNCHANGED <<row, child, last, Api, run>>

UpsertNew ==
    /\ seed.pc = "upsert" /\ Known(seed.at)
    /\ HasHeadword(EntryHeadword) = {}
    /\ \E w \in Words :
          /\ row[w] = Absent
          /\ row' = [row EXCEPT ![w] = [state |-> "live", headword |-> EntryHeadword]]
          /\ last' = [t \in Tables |->
                [last[t] EXCEPT ![w] = [by |-> Aborted, want |-> {}]]]
          /\ Upserted(w)
    /\ UNCHANGED <<child, Api, run>>

\* The word class is unknown, or the upsert fails.
Skip ==
    /\ seed.pc = "upsert"
    /\ seed' = NextEntry(TRUE)
    /\ run' = IF Known(seed.at) THEN "disturbed" ELSE run
    /\ UNCHANGED <<wordVars, requests>>

\* DELETE FROM t WHERE word_id; its error is dropped.  Whatever an API
\* request wanted there is given up.
SeedClear(t) ==
    /\ \/ /\ child' = [child EXCEPT ![t][seed.word] = {}]
          /\ last' = [last EXCEPT ![t][seed.word] = [by |-> Aborted, want |-> {}]]
          /\ UNCHANGED run
       \/ /\ run' = "disturbed"
          /\ UNCHANGED <<child, last>>
    /\ UNCHANGED <<row, Api>>

KeepDefinitions ==              \* mutant: the DELETE is left out
    /\ seed.pc = "deleteDefinitions"
    /\ seed' = [seed EXCEPT !.pc = "definitions",
                            !.left = NonEmpty(File[seed.at].definitions)]
    /\ UNCHANGED <<wordVars, run, requests>>

SeedDeleteDefinitions ==
    /\ seed.pc = "deleteDefinitions"
    /\ SeedClear("definitions")
    /\ seed' = [seed EXCEPT !.pc = "definitions",
                            !.left = NonEmpty(File[seed.at].definitions)]

SeedDeleteExamples ==
    /\ seed.pc = "definitions" /\ seed.left = {}
    /\ SeedClear("examples")
    /\ seed' = [seed EXCEPT !.pc = "examples",
                            !.left = NonEmpty(File[seed.at].examples)]

\* INSERT with a new UUID, in file order, which no property sees; its error
\* is dropped.
SeedInsert ==
    /\ seed.pc \in Tables
    /\ \E i \in seed.left :
          /\ \A j \in seed.left : i <= j
          /\ seed' = [seed EXCEPT !.left = @ \ {i}]
    /\ \/ /\ \E d \in Fresh : child' = [child EXCEPT ![seed.pc][seed.word] = @ \cup {d}]
          /\ UNCHANGED run
       \/ /\ run' = IF run = "clean" THEN "gaps" ELSE run
          /\ UNCHANGED child
    /\ UNCHANGED <<row, last, Api>>

EntryDone ==
    /\ seed.pc = "examples" /\ seed.left = {}
    /\ seed' = NextEntry(FALSE)
    /\ UNCHANGED <<wordVars, run, requests>>

SeederNext ==
    \/ Run \/ Stop \/ UpsertExisting \/ UpsertNew \/ Skip
    \/ SeedDeleteDefinitions \/ SeedDeleteExamples \/ SeedInsert \/ EntryDone

\* A request begins, or goes on, up to its answer.
ApiNext ==
    /\ Next
    /\ IF \A p \in Procs : job[p] = Idle
       THEN requests < MaxRequests /\ requests' = requests + 1
       ELSE UNCHANGED requests
    /\ run' = IF row' = row /\ child' = child THEN run ELSE "disturbed"
    /\ UNCHANGED seed

SeedSpec == SeedInit /\ [][SeederNext \/ ApiNext]_vars

-----------------------------------------------------------------------------
(* Properties. *)

\* Type correctness of the store and of the seeder.
SeedTypeOK ==
    /\ TypeOK
    /\ seed \in Seed \cup {Stopped, Finished}
    /\ run \in RunState
    /\ requests \in 0..MaxRequests

\* The top-level entry e belongs to.
RootEntry(e) == CHOOSE r \in 1..e : File[r].isRoot /\ \A f \in (r + 1)..e : ~File[f].isRoot

\* The rows of an entry: of the name, and derived from the root's row.
EntryRows(e) ==
    LET roots == HasHeadword(Headword(File[RootEntry(e)].name, NoRoot))
    IN  IF File[e].isRoot THEN roots
        ELSE UNION {HasHeadword(Headword(File[e].name, w)) : w \in roots}

\* As many children as the file gives, or fewer when INSERTs failed.
AsManyAs(children, texts) ==
    LET n == Cardinality(children) m == Cardinality(NonEmpty(texts))
    IN  n <= m /\ (run = "clean" => n = m)

\* No later entry has the headword of e, and replaces what e gave.
LastOfHeadword(e) ==
    \A f \in (e + 1)..Len(File) :
        Known(f) /\ Known(RootEntry(f)) => ~
           /\ File[f].name = File[e].name /\ File[f].isRoot = File[e].isRoot
           /\ File[RootEntry(f)].name = File[RootEntry(e)].name

\* "Safe to run multiple times (idempotent)": whatever earlier runs that
\* stopped half-way and earlier requests have left, when a run finishes during
\* which no API request wrote, every headword of the file has one word,
\* deleted or not, with as many definitions and examples as the last entry
\* of that headword gives.  When INSERTs failed some are missing, but none is
\* there twice.
SeededExactly ==
    (seed = Finished /\ run # "disturbed")
        => \A e \in 1..Len(File) :
              (Known(e) /\ Known(RootEntry(e)) /\ LastOfHeadword(e)) =>
                 /\ Cardinality(EntryRows(e)) = 1
                 /\ \A w \in EntryRows(e) :
                       /\ AsManyAs(child["definitions"][w], File[e].definitions)
                       /\ AsManyAs(child["examples"][w], File[e].examples)
=============================================================================
