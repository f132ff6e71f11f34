---------------------------- MODULE SeederProofs ----------------------------
(***************************************************************************)
(* Proofs about Seeder, for any file, any number of words, children and    *)
(* API requests.                                                           *)
(***************************************************************************)
EXTENDS Seeder, WordStoreProofs, FiniteSetTheorems, WellFoundedInduction

-----------------------------------------------------------------------------
(* What is known of the seeder, so that its types are right.                 *)

\* The seeder is somewhere in the file.
Active == seed \notin {Stopped, Finished}

\* A derived form is only written once its root is, and children only once
\* their word is.
Positioned ==
    Active => /\ seed.pc # "upsert" => seed.word \in Words /\ seed.root \in Words
              /\ ~File[seed.at].isRoot => seed.root \in Words

\* A set of natural numbers that is not empty has a least element.
LEMMA Least ==
    ASSUME NEW T, T \subseteq Nat, T # {}
    PROVE  \E x \in T : \A y \in T : x <= y
<1> DEFINE R == OpToRel(<, Nat)
<1>1. \E x \in T : \A y \in T : ~ (<<y, x>> \in R)
  BY NatLessThanWellFounded, WFMin, Zenon
<1>2. ASSUME NEW x \in T, NEW y \in T, ~ (<<y, x>> \in R)
      PROVE  x <= y
  BY <1>2 DEF OpToRel
<1> HIDE DEF R
<1> QED
  BY <1>1, <1>2

\* The entries of the file, and their headwords.
LEMMA Entries ==
    /\ Len(File) \in Nat
    /\ \A e \in 1..Len(File) :
          /\ File[e] \in Entry
          /\ File[e].isRoot => Headword(File[e].name, NoRoot) \in Headwords
          /\ ~File[e].isRoot =>
                e > 1 /\ \A w \in Words : Headword(File[e].name, w) \in Headwords
<1>1. File \in Seq(Entry) /\ Len(File) \in Nat
  BY SeederAssumption
<1>2. \A e \in 1..Len(File) : File[e] \in Entry
  BY <1>1
<1> QED
  BY <1>1, <1>2, SeederAssumption

\* An active seeder has an entry.
LEMMA AtEntry ==
    ASSUME SeedTypeOK, Active
    PROVE  /\ seed \in Seed /\ seed.at \in 1..Len(File) /\ seed.at \in Nat
           /\ File[seed.at] \in Entry
<1>1. seed \in Seed
  BY DEF SeedTypeOK, Active
<1> QED
  BY <1>1, Entries DEF Seed

\* The entry NextEntry goes on to: the next one, or the next root, past forms
\* derived from this one.
LEMMA NextEntryIs ==
    ASSUME SeedTypeOK, Active, NEW skip \in BOOLEAN
    PROVE  LET next == NextEntry(skip)
               over == skip /\ File[seed.at].isRoot
           IN  \/ /\ next = Finished
                  /\ \A e \in (seed.at + 1)..Len(File) : over /\ ~File[e].isRoot
               \/ /\ next \in Seed /\ next.pc = "upsert" /\ next.root = seed.root
                  /\ next.at > seed.at /\ (over => File[next.at].isRoot)
                  /\ \A e \in (seed.at + 1)..(next.at - 1) : over /\ ~File[e].isRoot
<1> DEFINE over == skip /\ File[seed.at].isRoot
           rest == {e \in 1..Len(File) : e > seed.at
                       /\ (skip /\ File[seed.at].isRoot => File[e].isRoot)}
           least == CHOOSE e \in rest : \A f \in rest : e <= f
           new == [seed EXCEPT !.pc = "upsert", !.word = NoRoot, !.left = {}, !.at = least]
<1>1. seed \in Seed /\ seed.at \in 1..Len(File) /\ Len(File) \in Nat
  BY AtEntry, Entries
<1>2. NextEntry(skip) = IF rest = {} THEN Finished ELSE new
  BY DEF NextEntry
<1>3. \A e \in (seed.at + 1)..Len(File) : e \notin rest => over /\ ~File[e].isRoot
  BY <1>1
<1>4. CASE rest = {}
  BY <1>2, <1>3, <1>4
<1>5. CASE rest # {}
  <2>1. rest \subseteq Nat
    BY <1>1
  <2>2. \E e \in rest : \A f \in rest : e <= f
    BY <1>5, <2>1, Least
  <2>3. least \in rest /\ \A f \in rest : least <= f
    BY <2>2
  <2>4. /\ least \in 1..Len(File) /\ least > seed.at
        /\ (over => File[least].isRoot)
    BY <2>3
  <2> HIDE DEF rest, least
  <2>5. \A e \in (seed.at + 1)..(least - 1) : e \in 1..Len(File) /\ e \notin rest
    BY <1>1, <2>3, <2>4
  <2>6. \A e \in (seed.at + 1)..(least - 1) : over /\ ~File[e].isRoot
    BY <1>1, <1>3, <2>4, <2>5
  <2>7. /\ new \in Seed /\ new.pc = "upsert" /\ new.root = seed.root
        /\ new.at = least
    BY <1>1, <2>4 DEF Seed
  <2> QED
    BY <1>2, <1>5, <2>4, <2>6, <2>7
<1> QED
  BY <1>4, <1>5

-----------------------------------------------------------------------------
(* Types. *)

\* Going on to another entry, past derived forms only where their root is
\* skipped, leaves the seeder positioned.
LEMMA NextEntryType ==
    ASSUME SeedTypeOK, Positioned, Active, NEW skip \in BOOLEAN, seed' = NextEntry(skip),
           ~skip => seed.pc # "upsert"
    PROVE  seed' \in Seed \cup {Stopped, Finished} /\ Positioned'
<1>1. CASE seed' = Finished
  BY <1>1 DEF Positioned, Active
<1>2. CASE seed' # Finished
  <2>1. /\ seed' \in Seed /\ seed'.pc = "upsert" /\ seed'.root = seed.root
        /\ seed'.at > seed.at /\ (skip /\ File[seed.at].isRoot => File[seed'.at].isRoot)
    BY <1>2, NextEntryIs
  <2>2. ~File[seed'.at].isRoot => seed.root \in Words
    BY <2>1 DEF Positioned
  <2> QED
    BY <2>1, <2>2 DEF Positioned
<1> QED
  BY <1>1, <1>2

\* The UUID the upsert returns becomes the word, and the root of what follows.
LEMMA UpsertedType ==
    ASSUME SeedTypeOK, Positioned, Active, NEW w \in Words, Upserted(w)
    PROVE  /\ seed' \in Seed /\ Positioned'
           /\ seed'.pc = "deleteDefinitions" /\ seed'.at = seed.at /\ seed'.word = w
           /\ seed'.root = IF File[seed.at].isRoot THEN w ELSE seed.root
<1>1. seed \in Seed
  BY AtEntry
<1>2. /\ seed' \in Seed
      /\ seed'.pc = "deleteDefinitions" /\ seed'.at = seed.at /\ seed'.word = w
      /\ seed'.root = IF File[seed.at].isRoot THEN w ELSE seed.root
  BY <1>1 DEF Upserted, Seed
<1> QED
  BY <1>2 DEF Positioned

\* A word of the file has one of the headwords.
LEMMA EntryHeadwordType ==
    ASSUME SeedTypeOK, Positioned, Active
    PROVE  EntryHeadword \in Headwords
BY AtEntry, Entries DEF Positioned, EntryHeadword

\* Deleting children keeps the tables well typed.
LEMMA SeedClearType ==
    ASSUME SeedTypeOK, seed.word \in Words, NEW t \in Tables, SeedClear(t)
    PROVE  TypeOK' /\ run' \in RunState /\ requests' = requests
<1>1. [child EXCEPT ![t][seed.word] = {}] \in [Tables -> [Words -> SUBSET Children]]
  BY DEF SeedTypeOK, TypeOK, Tables
<1>2. [by |-> Aborted, want |-> {}] \in Last
  BY DEF Last
<1>3. [last EXCEPT ![t][seed.word] = [by |-> Aborted, want |-> {}]]
        \in [Tables -> [Words -> Last]]
  BY <1>2 DEF SeedTypeOK, TypeOK, Tables
<1> QED
  BY <1>1, <1>3 DEF SeedClear, Api, SeedTypeOK, TypeOK, RunState

\* NonEmpty gives positions.
LEMMA NonEmptyType ==
    ASSUME NEW texts \in Seq(STRING)
    PROVE  NonEmpty(texts) \subseteq Nat /\ IsFiniteSet(NonEmpty(texts))
<1>1. DOMAIN texts = 1..Len(texts) /\ Len(texts) \in Nat
  OBVIOUS
<1>2. NonEmpty(texts) \in SUBSET (1..Len(texts))
  BY <1>1 DEF NonEmpty
<1>3. IsFiniteSet(1..Len(texts))
  BY <1>1, FS_Interval
<1> QED
  BY <1>1, <1>2, <1>3, FS_Subset

\* Every step keeps everything well typed, and the seeder positioned.
LEMMA SeedTypeStep ==
    SeedTypeOK /\ Positioned /\ [SeederNext \/ ApiNext]_vars => SeedTypeOK' /\ Positioned'
<1> SUFFICES ASSUME SeedTypeOK, Positioned, [SeederNext \/ ApiNext]_vars
             PROVE  SeedTypeOK' /\ Positioned'
  OBVIOUS
<1>a. ASSUME UNCHANGED <<wordVars, requests>>, run' \in RunState,
             seed' \in Seed \cup {Stopped, Finished}
      PROVE  SeedTypeOK'
  BY <1>a DEF SeedTypeOK, wordVars, TypeOK
<1>1. CASE Run
  <2> DEFINE first == [pc |-> "upsert", at |-> 1, word |-> NoRoot, root |-> NoRoot,
                       left |-> {}]
  <2>1. Len(File) \in Nat /\ Len(File) # 0
    BY <1>1, SeederAssumption DEF Run
  <2>2. first \in Seed /\ first.pc = "upsert" /\ first.at = 1
    BY <2>1 DEF Seed
  <2>3. seed' = first /\ run' \in RunState /\ UNCHANGED <<wordVars, requests>>
    BY <1>1 DEF Run, RunState
  <2> HIDE DEF first
  <2>4. File[1].isRoot
    BY <2>1, Entries
  <2> QED
    BY <1>a, <2>2, <2>3, <2>4 DEF Positioned
<1>2. CASE Stop
  BY <1>a, <1>2 DEF Stop, RunState, Positioned, Active
<1>3. CASE UpsertExisting
  <2>1. PICK w \in Words : Upserted(w)
    BY <1>3 DEF UpsertExisting, HasHeadword
  <2>2. Active
    BY <1>3 DEF UpsertExisting, Active, Stopped, Finished
  <2>3. seed' \in Seed /\ Positioned'
    BY <2>1, <2>2, UpsertedType
  <2>4. UNCHANGED <<row, child, last, job, run, requests>>
    BY <1>3 DEF UpsertExisting, Api
  <2> QED
    BY <2>3, <2>4 DEF SeedTypeOK, TypeOK
<1>4. CASE UpsertNew
  <2>1. PICK w \in Words :
          /\ row' = [row EXCEPT ![w] = [state |-> "live", headword |-> EntryHeadword]]
          /\ last' = [t \in Tables |->
                [last[t] EXCEPT ![w] = [by |-> Aborted, want |-> {}]]]
          /\ Upserted(w)
    BY <1>4 DEF UpsertNew
  <2>2. Active
    BY <1>4 DEF UpsertNew, Active, Stopped, Finished
  <2>3. seed' \in Seed /\ Positioned'
    BY <2>1, <2>2, UpsertedType
  <2>4. [state |-> "live", headword |-> EntryHeadword] \in Row
    BY <2>2, EntryHeadwordType DEF Row
  <2>5. row' \in [Words -> Row]
    BY <2>1, <2>4 DEF SeedTypeOK, TypeOK
  <2>6. last' \in [Tables -> [Words -> Last]]
    <3>1. [by |-> Aborted, want |-> {}] \in Last
      BY DEF Last
    <3> QED
      BY <2>1, <3>1 DEF SeedTypeOK, TypeOK
  <2>7. UNCHANGED <<child, job, run, requests>>
    BY <1>4 DEF UpsertNew, Api
  <2> QED
    BY <2>3, <2>5, <2>6, <2>7 DEF SeedTypeOK, TypeOK
<1>5. CASE Skip
  <2>1. Active /\ seed' = NextEntry(TRUE)
    BY <1>5 DEF Skip, Active, Stopped, Finished
  <2>2. seed' \in Seed \cup {Stopped, Finished} /\ Positioned'
    BY <2>1, NextEntryType
  <2> QED
    BY <1>5, <1>a, <2>2 DEF Skip, RunState, SeedTypeOK
<1>6. CASE SeedDeleteDefinitions
  <2>1. Active /\ seed.pc = "deleteDefinitions" /\ SeedClear("definitions")
    BY <1>6 DEF SeedDeleteDefinitions, Active, Stopped, Finished
  <2>2. seed \in Seed /\ seed.word \in Words /\ File[seed.at] \in Entry
    BY <2>1, AtEntry DEF Positioned
  <2>3. NonEmpty(File[seed.at].definitions) \subseteq Nat
    BY <2>2, NonEmptyType DEF Entry
  <2>4. /\ seed' \in Seed /\ seed'.word = seed.word /\ seed'.root = seed.root
        /\ seed'.at = seed.at
    BY <1>6, <2>2, <2>3 DEF SeedDeleteDefinitions, Seed
  <2>5. TypeOK' /\ run' \in RunState /\ requests' = requests
    BY <2>1, <2>2, SeedClearType DEF Tables
  <2> QED
    BY <2>1, <2>4, <2>5 DEF SeedTypeOK, Positioned
<1>7. CASE SeedDeleteExamples
  <2>1. Active /\ seed.pc = "definitions" /\ SeedClear("examples")
    BY <1>7 DEF SeedDeleteExamples, Active, Stopped, Finished
  <2>2. seed \in Seed /\ seed.word \in Words /\ File[seed.at] \in Entry
    BY <2>1, AtEntry DEF Positioned
  <2>3. NonEmpty(File[seed.at].examples) \subseteq Nat
    BY <2>2, NonEmptyType DEF Entry
  <2>4. /\ seed' \in Seed /\ seed'.word = seed.word /\ seed'.root = seed.root
        /\ seed'.at = seed.at
    BY <1>7, <2>2, <2>3 DEF SeedDeleteExamples, Seed
  <2>5. TypeOK' /\ run' \in RunState /\ requests' = requests
    BY <2>1, <2>2, SeedClearType DEF Tables
  <2> QED
    BY <2>1, <2>4, <2>5 DEF SeedTypeOK, Positioned
<1>8. CASE SeedInsert
  <2>1. Active /\ seed.pc \in Tables
    BY <1>8 DEF SeedInsert, Active, Stopped, Finished, Tables
  <2>2. seed \in Seed /\ seed.word \in Words
    BY <2>1, AtEntry DEF Positioned, Tables
  <2>3. PICK i \in seed.left : seed' = [seed EXCEPT !.left = @ \ {i}]
    BY <1>8 DEF SeedInsert
  <2>4. /\ seed' \in Seed /\ seed'.word = seed.word /\ seed'.root = seed.root
        /\ seed'.at = seed.at /\ seed'.pc = seed.pc
    BY <2>2, <2>3 DEF Seed
  <2>5. \A d \in Fresh : [child EXCEPT ![seed.pc][seed.word] = @ \cup {d}]
                            \in [Tables -> [Words -> SUBSET Children]]
    BY <2>1, <2>2 DEF SeedTypeOK, TypeOK, Fresh
  <2>6. child' \in [Tables -> [Words -> SUBSET Children]]
    BY <1>8, <2>5 DEF SeedInsert, SeedTypeOK, TypeOK
  <2>7. UNCHANGED <<row, last, job, requests>> /\ run' \in RunState
    BY <1>8 DEF SeedInsert, Api, SeedTypeOK, RunState
  <2> QED
    BY <2>1, <2>4, <2>6, <2>7 DEF SeedTypeOK, TypeOK, Positioned, Tables
<1>9. CASE EntryDone
  <2>1. Active /\ seed' = NextEntry(FALSE) /\ seed.pc # "upsert"
    BY <1>9 DEF EntryDone, Active, Stopped, Finished
  <2>2. seed' \in Seed \cup {Stopped, Finished} /\ Positioned'
    BY <2>1, NextEntryType
  <2> QED
    BY <1>9, <1>a, <2>2 DEF EntryDone, SeedTypeOK
<1>10. CASE ApiNext
  <2>1. TypeOK'
    BY <1>10, TypeStep DEF ApiNext, SeedTypeOK
  <2>2. requests' \in 0..MaxRequests
    BY <1>10, SeederAssumption DEF ApiNext, SeedTypeOK
  <2> QED
    BY <1>10, <2>1, <2>2 DEF ApiNext, SeedTypeOK, Positioned, Active, RunState
<1>11. CASE UNCHANGED vars
  BY <1>11 DEF vars, SeedTypeOK, TypeOK, Positioned, Active
<1> QED
  BY <1>1, <1>2, <1>3, <1>4, <1>5, <1>6, <1>7, <1>8, <1>9, <1>10, <1>11 DEF SeederNext

\* The first state is well typed.
LEMMA SeedInitial == SeedInit => SeedTypeOK /\ Positioned
<1>1. Init => TypeOK
  BY DEF Init, TypeOK, Row, Last
<1> QED
  BY <1>1, SeederAssumption DEF SeedInit, SeedTypeOK, Positioned, Active, RunState

\* The seeder and the API beside it keep every variable in its type: a derived
\* form always has a root that was written, whichever entries are skipped.
THEOREM SeedTypeCorrect == SeedSpec => []SeedTypeOK
BY SeedInitial, SeedTypeStep, PTL DEF SeedSpec

-----------------------------------------------------------------------------
(* Deletion is final for the seeder too.                                     *)

\* What the seeder does to the rows of words: nothing, or it adds one of a
\* headword no row has.
LEMMA SeederRows ==
    ASSUME SeedTypeOK, Positioned, SeederNext
    PROVE  /\ UNCHANGED job
           /\ \/ UNCHANGED row
              \/ /\ UpsertNew /\ EntryHeadword \in Headwords
                 /\ \A v \in Words : row[v].headword # EntryHeadword
                 /\ \E w \in Words :
                       /\ row[w] = Absent /\ row'[w].headword = EntryHeadword
                       /\ \A v \in Words \ {w} : row'[v] = row[v]
<1>1. CASE UpsertNew
  <2>1. Active
    BY <1>1 DEF UpsertNew, Active, Stopped, Finished
  <2>2. EntryHeadword \in Headwords
    BY <2>1, EntryHeadwordType
  <2>3. \A v \in Words : row[v].headword # EntryHeadword
    BY <1>1 DEF UpsertNew, HasHeadword
  <2>4. PICK w \in Words :
          /\ row[w] = Absent
          /\ row' = [row EXCEPT ![w] = [state |-> "live", headword |-> EntryHeadword]]
    BY <1>1 DEF UpsertNew
  <2>5. row'[w].headword = EntryHeadword /\ \A v \in Words \ {w} : row'[v] = row[v]
    BY <2>4 DEF SeedTypeOK, TypeOK
  <2> QED
    BY <1>1, <2>2, <2>3, <2>4, <2>5 DEF UpsertNew, Api
<1>2. CASE ~UpsertNew
  BY <1>2 DEF SeederNext, Run, Stop, UpsertExisting, Skip, SeedDeleteDefinitions,
              SeedDeleteExamples, SeedClear, SeedInsert, EntryDone, wordVars, Api
<1> QED
  BY <1>1, <1>2

\* The upsert of the seeder conflicts with deleted words as well as with live
\* ones, and brings none of them back; nor does an API request that overlaps
\* with the seeder begin to replace the children of a deleted word.
THEOREM SeederKeepsDeletions == SeedSpec => NoReplacementAfterDelete
<1>1. SeedTypeOK /\ Positioned /\ [SeederNext \/ ApiNext]_vars =>
        [\A w \in Words : row[w].state = "deleted"
            => Replacing(w)' \subseteq Replacing(w) /\ row'[w].state = "deleted"]_wordVars
  <2> SUFFICES ASSUME SeedTypeOK, Positioned, [SeederNext \/ ApiNext]_vars,
                      NEW w \in Words, row[w].state = "deleted", ~UNCHANGED wordVars
               PROVE  Replacing(w)' \subseteq Replacing(w) /\ row'[w].state = "deleted"
    OBVIOUS
  <2>1. CASE ApiNext
    BY <2>1, DeletedStep DEF ApiNext, SeedTypeOK
  <2>2. CASE SeederNext
    <3>1. row'[w] = row[w]
      BY <2>2, SeederRows DEF Absent
    <3>2. job' = job
      BY <2>2, SeederRows
    <3> QED
      BY <3>1, <3>2 DEF Replacing
  <2>3. CASE UNCHANGED vars
    BY <2>3 DEF vars, wordVars
  <2> QED
    BY <2>1, <2>2, <2>3
<1> QED
  BY <1>1, SeedInitial, SeedTypeStep, PTL DEF SeedSpec, NoReplacementAfterDelete

-----------------------------------------------------------------------------
(* What a run that nothing disturbs has written.                             *)

\* words_unique.
HeadwordsUnique ==
    \A v, w \in Words :
        row[v].headword \in Headwords /\ row[v].headword = row[w].headword => v = w

\* Neither e nor its root is skipped.
Counts(e) == Known(e) /\ Known(RootEntry(e))

SameHeadword(e, f) ==
    /\ File[f].name = File[e].name /\ File[f].isRoot = File[e].isRoot
    /\ File[RootEntry(f)].name = File[RootEntry(e)].name

\* No later entry up to n has the headword of e.
LastUpTo(e, n) == \A f \in (e + 1)..n : Counts(f) => ~SameHeadword(e, f)

Filled(v, e) ==
    /\ AsManyAs(child["definitions"][v], File[e].definitions)
    /\ AsManyAs(child["examples"][v], File[e].examples)

\* The entries up to n have their words and children, unless another one up to
\* m has replaced them.
WrittenUpTo(n, m) ==
    \A e \in 1..n : Counts(e) /\ LastUpTo(e, m) => \E v \in EntryRows(e) : Filled(v, e)

\* root is the row of the current entry's root.
RootWritten ==
    /\ Known(RootEntry(seed.at))
    /\ row[seed.root].headword = Headword(File[RootEntry(seed.at)].name, NoRoot)

\* The children inserted so far and those that are left make up those of the file.
Filling(children, texts) ==
    LET n == Cardinality(children) + Cardinality(seed.left)
        m == Cardinality(NonEmpty(texts))
    IN  /\ IsFiniteSet(children) /\ seed.left \subseteq NonEmpty(texts)
        /\ n <= m /\ (run = "clean" => n = m)

\* The current entry, before its upsert and after it.
BeforeUpsert ==
    /\ WrittenUpTo(seed.at - 1, seed.at - 1)
    /\ ~File[seed.at].isRoot => RootWritten

AfterUpsert ==
    /\ WrittenUpTo(seed.at - 1, seed.at)
    /\ Counts(seed.at) /\ RootWritten
    /\ seed.word \in EntryRows(seed.at)
    /\ seed.pc = "definitions" =>
          Filling(child["definitions"][seed.word], File[seed.at].definitions)
    /\ seed.pc = "examples" =>
          /\ AsManyAs(child["definitions"][seed.word], File[seed.at].definitions)
          /\ Filling(child["examples"][seed.word], File[seed.at].examples)

RunInv ==
    run # "disturbed" =>
        /\ seed = Finished => WrittenUpTo(Len(File), Len(File))
        /\ Active => IF seed.pc = "upsert" THEN BeforeUpsert ELSE AfterUpsert

\* Every entry has a root entry, which is the last one at the top level.
LEMMA RootEntryIs ==
    ASSUME NEW e \in 1..Len(File)
    PROVE  /\ RootEntry(e) \in 1..e /\ File[RootEntry(e)].isRoot
           /\ \A f \in (RootEntry(e) + 1)..e : ~File[f].isRoot
<1> DEFINE back == {d \in 0..(e - 1) : File[e - d].isRoot}
<1>1. Len(File) \in Nat /\ File[1].isRoot
  BY Entries
<1>2. e - 1 \in back /\ back \subseteq Nat
  <2>1. e - (e - 1) = 1 /\ e - 1 \in 0..(e - 1)
    BY <1>1
  <2> QED
    BY <1>1, <2>1
<1>3. PICK d \in back : \A c \in back : d <= c
  <2> HIDE DEF back
  <2> QED
    BY <1>2, Least
<1>4. e - d \in 1..e /\ File[e - d].isRoot
  BY <1>1, <1>3
<1>5. ASSUME NEW f \in (e - d + 1)..e PROVE ~File[f].isRoot
  <2> DEFINE c == e - f
  <2>1. e \in Nat /\ d \in 0..(e - 1) /\ f \in Nat
    BY <1>1, <1>3, <1>4
  <2>2. c \in 0..(e - 1) /\ c < d /\ e - c = f
    BY <2>1
  <2> HIDE DEF c
  <2>3. File[f].isRoot => c \in back
    BY <2>2
  <2> HIDE DEF back
  <2> QED
    BY <1>3, <2>1, <2>2, <2>3
<1>6. \E r \in 1..e : File[r].isRoot /\ \A f \in (r + 1)..e : ~File[f].isRoot
  BY <1>4, <1>5
<1> QED
  BY <1>6 DEF RootEntry

\* There is only one such entry.
LEMMA RootEntryUnique ==
    ASSUME NEW e \in 1..Len(File), NEW r \in 1..e, File[r].isRoot,
           \A f \in (r + 1)..e : ~File[f].isRoot
    PROVE  RootEntry(e) = r
<1> DEFINE q == RootEntry(e)
<1>1. q \in 1..e /\ File[q].isRoot /\ \A f \in (q + 1)..e : ~File[f].isRoot
  BY RootEntryIs
<1>2. Len(File) \in Nat
  BY Entries
<1> HIDE DEF q
<1>3. q = r
  BY <1>1, <1>2
<1> QED
  BY <1>3 DEF q

\* The root of a top-level entry, and of a derived form after another entry.
LEMMA RootEntrySteps ==
    ASSUME NEW e \in 1..Len(File)
    PROVE  /\ File[e].isRoot => RootEntry(e) = e
           /\ e + 1 \in 1..Len(File) /\ ~File[e + 1].isRoot => RootEntry(e + 1) = RootEntry(e)
           /\ \A f \in 1..Len(File) :
                 (/\ e < f /\ File[e].isRoot
                  /\ \A g \in (e + 1)..f : ~File[g].isRoot) => RootEntry(f) = e
<1>1. Len(File) \in Nat
  BY Entries
<1>2. File[e].isRoot => RootEntry(e) = e
  BY <1>1, RootEntryUnique
<1>3. ASSUME e + 1 \in 1..Len(File), ~File[e + 1].isRoot
      PROVE  RootEntry(e + 1) = RootEntry(e)
  <2> DEFINE r == RootEntry(e)
  <2>1. r \in 1..e /\ File[r].isRoot /\ \A f \in (r + 1)..e : ~File[f].isRoot
    BY RootEntryIs
  <2> HIDE DEF r
  <2>2. r \in 1..(e + 1) /\ \A f \in (r + 1)..(e + 1) : ~File[f].isRoot
    BY <1>1, <1>3, <2>1
  <2>3. RootEntry(e + 1) = r
    BY <1>3, <2>1, <2>2, RootEntryUnique
  <2> QED
    BY <2>3 DEF r
<1>4. ASSUME NEW f \in 1..Len(File), e < f, File[e].isRoot,
             \A g \in (e + 1)..f : ~File[g].isRoot
      PROVE  RootEntry(f) = e
  <2>1. e \in 1..f
    BY <1>1, <1>4
  <2> QED
    BY <1>4, <2>1, RootEntryUnique
<1> QED
  BY <1>2, <1>3, <1>4

\* The row of an entry has its headword, and there is no other such row.
LEMMA RowsOfEntry ==
    ASSUME NEW e \in 1..Len(File), NEW v \in EntryRows(e)
    PROVE  /\ v \in Words /\ row[v].headword \in Headwords
           /\ File[e].isRoot => row[v].headword = Headword(File[e].name, NoRoot)
           /\ ~File[e].isRoot => \E w \in Words :
                 /\ row[w].headword = Headword(File[RootEntry(e)].name, NoRoot)
                 /\ row[w].headword \in Headwords
                 /\ row[v].headword = Headword(File[e].name, w)
<1>1. RootEntry(e) \in 1..Len(File) /\ File[RootEntry(e)].isRoot
  BY RootEntryIs, Entries
<1>2. File[e].isRoot => RootEntry(e) = e
  BY RootEntrySteps
<1>3. CASE File[e].isRoot
  BY <1>2, <1>3, Entries DEF EntryRows, HasHeadword
<1>4. CASE ~File[e].isRoot
  <2>1. PICK w \in Words : /\ row[w].headword = Headword(File[RootEntry(e)].name, NoRoot)
                           /\ v \in Words /\ row[v].headword = Headword(File[e].name, w)
    BY <1>4 DEF EntryRows, HasHeadword
  <2> QED
    BY <1>1, <1>4, <2>1, Entries
<1> QED
  BY <1>3, <1>4

\* Two entries with a row in common have the same headword.
LEMMA SharedRow ==
    ASSUME HeadwordsUnique, NEW e \in 1..Len(File), NEW f \in 1..Len(File),
           NEW v \in EntryRows(e), v \in EntryRows(f)
    PROVE  SameHeadword(e, f)
<1>1. NoRoot \notin Words /\ File[e].isRoot \in BOOLEAN /\ File[f].isRoot \in BOOLEAN
  BY SeederAssumption, Entries DEF Entry
<1>2. File[e].isRoot <=> File[f].isRoot
  BY <1>1, RowsOfEntry DEF Headword
<1>3. CASE File[e].isRoot
  <2>1. Headword(File[e].name, NoRoot) = Headword(File[f].name, NoRoot)
    BY <1>2, <1>3, RowsOfEntry
  <2>2. File[e].name = File[f].name
    BY <2>1 DEF Headword
  <2> QED
    BY <1>1, <1>2, <1>3, <2>2, RootEntrySteps DEF SameHeadword
<1>4. CASE ~File[e].isRoot
  <2>1. PICK u \in Words : /\ row[u].headword = Headword(File[RootEntry(e)].name, NoRoot)
                           /\ row[v].headword = Headword(File[e].name, u)
    BY <1>4, RowsOfEntry
  <2>2. PICK w \in Words : /\ row[w].headword = Headword(File[RootEntry(f)].name, NoRoot)
                           /\ row[v].headword = Headword(File[f].name, w)
    BY <1>2, <1>4, RowsOfEntry
  <2>3. u = w /\ File[e].name = File[f].name
    BY <2>1, <2>2 DEF Headword
  <2>4. File[RootEntry(e)].name = File[RootEntry(f)].name
    BY <2>1, <2>2, <2>3 DEF Headword
  <2> QED
    BY <1>1, <1>2, <2>3, <2>4 DEF SameHeadword
<1> QED
  BY <1>3, <1>4

\* An entry has one row at most.
LEMMA OneRow ==
    ASSUME HeadwordsUnique, NEW e \in 1..Len(File), NEW u \in EntryRows(e),
           NEW v \in EntryRows(e)
    PROVE  u = v
<1>1. u \in Words /\ v \in Words /\ row[u].headword \in Headwords
  BY RowsOfEntry
<1>2. row[u].headword = row[v].headword
  <2>1. CASE File[e].isRoot
    BY <2>1, RowsOfEntry
  <2>2. CASE ~File[e].isRoot
    <3>1. PICK x \in Words : /\ row[x].headword = Headword(File[RootEntry(e)].name, NoRoot)
                             /\ row[x].headword \in Headwords
                             /\ row[u].headword = Headword(File[e].name, x)
      BY <2>2, RowsOfEntry
    <3>2. PICK y \in Words : /\ row[y].headword = Headword(File[RootEntry(e)].name, NoRoot)
                             /\ row[v].headword = Headword(File[e].name, y)
      BY <2>2, RowsOfEntry
    <3>3. x = y
      BY <3>1, <3>2 DEF HeadwordsUnique
    <3> QED
      BY <3>1, <3>2, <3>3
  <2> QED
    BY <2>1, <2>2
<1> QED
  BY <1>1, <1>2 DEF HeadwordsUnique

\* Every step keeps words_unique: the API checks it, and the upsert inserts
\* only where it finds no row.
LEMMA UniqueStep ==
    ASSUME SeedTypeOK, Positioned, HeadwordsUnique, [SeederNext \/ ApiNext]_vars
    PROVE  HeadwordsUnique'
<1>1. CASE UNCHANGED row
  BY <1>1 DEF HeadwordsUnique
<1>2. ASSUME NEW w \in Words, NEW h,
             row'[w].headword = h, \A v \in Words \ {w} : row'[v] = row[v],
             \A v \in Words \ {w} : row[v].headword # h
      PROVE  HeadwordsUnique'
  BY <1>2 DEF HeadwordsUnique
<1>3. CASE SeederNext
  BY <1>1, <1>2, <1>3, SeederRows
<1>4. CASE Next
  <2>1. ASSUME NEW p \in Procs, NEW w \in Words, NEW h \in Headwords,
               NEW put \in FreshContent, CreateWord(p, w, h, put)
        PROVE  HeadwordsUnique'
    BY <1>2, <2>1 DEF CreateWord, HeadwordFree, SeedTypeOK, TypeOK
  <2>2. ASSUME NEW p \in Procs, UpdateRow(p) PROVE HeadwordsUnique'
    <3>1. job[p] \in Job
      BY <2>2, AtWork DEF UpdateRow, SeedTypeOK
    <3>2. job[p].word \in Words
      BY <3>1 DEF Job
    <3>3. row[job[p].word] \in [state : {"live", "deleted"}, headword : Headwords]
      BY <2>2, <3>2 DEF UpdateRow, Live, SeedTypeOK, TypeOK, Row, Absent
    <3>4. /\ row'[job[p].word].headword = job[p].headword
          /\ \A v \in Words \ {job[p].word} : row'[v] = row[v]
      BY <2>2, <3>2, <3>3 DEF UpdateRow, SeedTypeOK, TypeOK
    <3> QED
      BY <1>2, <2>2, <3>2, <3>4 DEF UpdateRow, HeadwordFree
  <2>3. ASSUME NEW w \in Words, SoftDeleteWord(w) PROVE HeadwordsUnique'
    <3>1. row[w] \in [state : {"live", "deleted"}, headword : Headwords]
      BY <2>3 DEF SoftDeleteWord, Live, SeedTypeOK, TypeOK, Row, Absent
    <3>2. \A v \in Words : row'[v].headword = row[v].headword
      BY <2>3, <3>1 DEF SoftDeleteWord, SeedTypeOK, TypeOK
    <3> QED
      BY <3>2 DEF HeadwordsUnique
  <2>4. ASSUME NEW p \in Procs, Admin(p) PROVE HeadwordsUnique'
    BY <1>1, <2>1, <2>4 DEF Admin, UpdateWord
  <2>5. ASSUME NEW p \in Procs, Continue(p) PROVE HeadwordsUnique'
    BY <1>1, <2>2, <2>5 DEF Continue, Save, LoadDefinitions, LoadExamples, AddSuggestion,
                            DeleteDefinitions, DeleteExamples, Clear, Upsert
  <2> QED
    BY <1>1, <1>4, <2>3, <2>4, <2>5 DEF Next, Answer, Abort, MergeWord
<1>5. CASE UNCHANGED vars
  BY <1>1, <1>5 DEF vars
<1> QED
  BY <1>3, <1>4, <1>5 DEF ApiNext

\* No step of the seeder takes the headword of a row away.
LEMMA RowsStay ==
    ASSUME SeedTypeOK, Positioned, SeederNext, NEW v \in Words, row[v].headword \in Headwords
    PROVE  row'[v].headword = row[v].headword
<1>1. Absent.headword \notin Headwords
  BY WordStoreAssumption DEF Absent
<1> QED
  BY <1>1, SeederRows

\* The rows of an entry stay its rows.
LEMMA EntryRowsStay ==
    ASSUME NEW e \in 1..Len(File), NEW v \in EntryRows(e),
           \A w \in Words : row[w].headword \in Headwords => row'[w].headword = row[w].headword
    PROVE  v \in EntryRows(e)'
<1>1. File[e].isRoot => RootEntry(e) = e
  BY RootEntrySteps
<1>2. CASE File[e].isRoot
  BY <1>1, <1>2, RowsOfEntry DEF EntryRows, HasHeadword
<1>3. CASE ~File[e].isRoot
  BY <1>3, RowsOfEntry DEF EntryRows, HasHeadword
<1> QED
  BY <1>2, <1>3

\* What the entries up to n have stays, if later steps leave the rows of those
\* alone that are not replaced.
LEMMA WrittenStays ==
    ASSUME NEW n \in 0..Len(File), NEW m \in Nat, NEW k \in Nat, m <= k, WrittenUpTo(n, m),
           \A w \in Words : row[w].headword \in Headwords => row'[w].headword = row[w].headword,
           run' = "clean" => run = "clean",
           \A e \in 1..n : Counts(e) /\ LastUpTo(e, k) =>
              \A v \in EntryRows(e), t \in Tables : child'[t][v] = child[t][v]
    PROVE  WrittenUpTo(n, k)'
<1> SUFFICES ASSUME NEW e \in 1..n, Counts(e), LastUpTo(e, k)
             PROVE  \E v \in EntryRows(e)' : Filled(v, e)'
  BY DEF WrittenUpTo, Counts, LastUpTo, SameHeadword
<1>1. e \in 1..Len(File) /\ e \in Nat
  BY Entries
<1>2. LastUpTo(e, m)
  BY <1>1 DEF LastUpTo
<1>3. PICK v \in EntryRows(e) : Filled(v, e)
  BY <1>2 DEF WrittenUpTo
<1>4. v \in EntryRows(e)'
  BY <1>1, EntryRowsStay
<1>5. \A t \in Tables : child'[t][v] = child[t][v]
  OBVIOUS
<1>6. child'["definitions"][v] = child["definitions"][v] /\ child'["examples"][v] = child["examples"][v]
  BY <1>5 DEF Tables
<1>7. Filled(v, e)'
  BY <1>3, <1>6 DEF Filled, AsManyAs
<1> QED
  BY <1>4, <1>7

\* The rows of earlier entries that are not replaced are not the current word.
LEMMA WordApart ==
    ASSUME SeedTypeOK, HeadwordsUnique, Active, AfterUpsert,
           NEW e \in 1..(seed.at - 1), LastUpTo(e, seed.at), NEW v \in EntryRows(e)
    PROVE  v # seed.word
<1>1. seed.at \in 1..Len(File) /\ Len(File) \in Nat
  BY AtEntry, Entries
<1>2. e \in 1..Len(File) /\ seed.at \in (e + 1)..seed.at
  BY <1>1
<1>3. ~SameHeadword(e, seed.at)
  BY <1>2 DEF AfterUpsert, LastUpTo
<1> QED
  BY <1>1, <1>2, <1>3, SharedRow DEF AfterUpsert

\* When nothing is left to insert, the children are those of the file.
LEMMA FillingDone ==
    ASSUME NEW children, NEW texts, Filling(children, texts), seed.left = {}
    PROVE  AsManyAs(children, texts)
<1>1. Cardinality(children) \in Nat /\ Cardinality(seed.left) = 0
  BY FS_CardinalityType, FS_EmptySet DEF Filling
<1> QED
  BY <1>1 DEF Filling, AsManyAs

\* A successful upsert finds, or makes, the row of the entry.
LEMMA UpsertWrites ==
    ASSUME SeedTypeOK, Positioned, HeadwordsUnique, Active, seed.pc = "upsert", BeforeUpsert,
           Known(seed.at), SeederNext, NEW w \in Words, Upserted(w),
           row'[w].headword = EntryHeadword, UNCHANGED <<child, run>>
    PROVE  AfterUpsert'
<1>a. PICK at \in 1..Len(File) : at = seed.at
  BY AtEntry
<1>1. at \in Nat /\ Len(File) \in Nat
  BY Entries
<1>2. /\ seed'.pc = "deleteDefinitions" /\ seed'.at = at /\ seed'.word = w
      /\ seed'.root = IF File[at].isRoot THEN w ELSE seed.root
  BY <1>a, UpsertedType
<1>3. \A v \in Words : row[v].headword \in Headwords => row'[v].headword = row[v].headword
  BY RowsStay
<1>4. WrittenUpTo(at - 1, at)'
  <2>1. WrittenUpTo(at - 1, at - 1)
    BY <1>a DEF BeforeUpsert
  <2>2. at - 1 \in 0..Len(File) /\ at - 1 \in Nat /\ at - 1 <= at
    BY <1>1
  <2>3. \A e \in 1..(at - 1) : Counts(e) /\ LastUpTo(e, at) =>
           \A v \in EntryRows(e), t \in Tables : child'[t][v] = child[t][v]
    OBVIOUS
  <2> QED
    BY <1>1, <1>3, <2>1, <2>2, <2>3, WrittenStays
<1>5. RootEntry(at) \in 1..Len(File) /\ File[RootEntry(at)].isRoot
  BY <1>1, RootEntryIs
<1>6. /\ Counts(at)
      /\ row'[seed'.root].headword = Headword(File[RootEntry(at)].name, NoRoot)
      /\ w \in EntryRows(at)'
  <2>1. CASE File[at].isRoot
    <3>1. RootEntry(at) = at
      BY <1>1, <2>1, RootEntrySteps
    <3>2. row'[w].headword = Headword(File[at].name, NoRoot)
      BY <1>a, <2>1 DEF EntryHeadword
    <3> QED
      BY <1>a, <1>2, <2>1, <3>1, <3>2 DEF Counts, EntryRows, HasHeadword
  <2>2. CASE ~File[at].isRoot
    <3>1. /\ Known(RootEntry(at)) /\ seed.root \in Words
          /\ row[seed.root].headword = Headword(File[RootEntry(at)].name, NoRoot)
      BY <1>a, <2>2 DEF BeforeUpsert, RootWritten, Positioned
    <3>2. row'[seed.root].headword = Headword(File[RootEntry(at)].name, NoRoot)
      BY <1>3, <1>5, <3>1, Entries
    <3>3. row'[w].headword = Headword(File[at].name, seed.root)
      BY <1>a, <2>2 DEF EntryHeadword
    <3>4. w \in EntryRows(at)'
      BY <2>2, <3>1, <3>2, <3>3 DEF EntryRows, HasHeadword
    <3> QED
      BY <1>a, <1>2, <2>2, <3>1, <3>2, <3>4 DEF Counts
  <2> QED
    BY <2>1, <2>2
<1>7. RootWritten' /\ Counts(seed.at)' /\ (seed.word \in EntryRows(seed.at))'
  BY <1>2, <1>6 DEF RootWritten, Counts, EntryRows, HasHeadword
<1> QED
  BY <1>2, <1>4, <1>7 DEF AfterUpsert, WrittenUpTo

\* Going on from an entry that is done with, past the forms derived from a root
\* that is skipped.
LEMMA GoingOn ==
    ASSUME SeedTypeOK, Active, NEW skip \in BOOLEAN, seed' = NextEntry(skip),
           UNCHANGED <<row, child, run>>, WrittenUpTo(seed.at, seed.at),
           skip => ~Known(seed.at), RootWritten \/ (skip /\ File[seed.at].isRoot)
    PROVE  /\ seed' = Finished => WrittenUpTo(Len(File), Len(File))'
           /\ seed' # Finished => seed'.pc = "upsert" /\ BeforeUpsert'
<1>1. PICK at \in 1..Len(File) : at = seed.at
  BY AtEntry
<1>2. at \in Nat /\ Len(File) \in Nat
  BY Entries
<1>3. ASSUME NEW n \in at..Len(File),
             \A e \in (at + 1)..n : skip /\ File[at].isRoot /\ ~File[e].isRoot
      PROVE  WrittenUpTo(n, n)'
  <2> SUFFICES ASSUME NEW e \in 1..n, Counts(e), LastUpTo(e, n)
               PROVE  \E v \in EntryRows(e)' : Filled(v, e)'
    BY DEF WrittenUpTo, Counts, LastUpTo, SameHeadword
  <2>1. e \in 1..at
    <3> SUFFICES ASSUME e \in (at + 1)..n PROVE FALSE
      BY <1>2
    <3>1. /\ e \in 1..Len(File) /\ at < e /\ File[at].isRoot /\ ~Known(at)
          /\ \A g \in (at + 1)..e : ~File[g].isRoot
      BY <1>1, <1>2, <1>3
    <3>2. RootEntry(e) = at
      BY <3>1, RootEntrySteps
    <3> QED
      BY <3>1, <3>2 DEF Counts
  <2>2. LastUpTo(e, at)
    BY <1>2 DEF LastUpTo
  <2>3. PICK v \in EntryRows(e) : Filled(v, e)
    BY <1>1, <2>1, <2>2 DEF WrittenUpTo
  <2>4. v \in EntryRows(e)' /\ Filled(v, e)'
    BY <2>3 DEF EntryRows, HasHeadword, Filled, AsManyAs
  <2> QED
    BY <2>4
<1>4. CASE seed' = Finished
  <2>1. \A e \in (at + 1)..Len(File) : skip /\ File[at].isRoot /\ ~File[e].isRoot
    <3>1. seed'.pc # "upsert"
      BY <1>4 DEF Finished
    <3> QED
      BY <1>1, <3>1, NextEntryIs
  <2> QED
    BY <1>2, <1>3, <1>4, <2>1
<1>5. CASE seed' # Finished
  <2>1. /\ seed' \in Seed /\ seed'.pc = "upsert" /\ seed'.root = seed.root
        /\ seed'.at > at /\ (skip /\ File[at].isRoot => File[seed'.at].isRoot)
        /\ \A e \in (at + 1)..(seed'.at - 1) : skip /\ File[at].isRoot /\ ~File[e].isRoot
    BY <1>1, <1>5, NextEntryIs
  <2>2. PICK next \in 1..Len(File) : next = seed'.at
    BY <2>1 DEF Seed
  <2>3. next - 1 \in at..Len(File)
    BY <1>2, <2>1, <2>2
  <2>4. WrittenUpTo(next - 1, next - 1)'
    BY <1>3, <2>1, <2>2, <2>3
  <2>5. WrittenUpTo(seed.at - 1, seed.at - 1)'
    BY <2>2, <2>4 DEF WrittenUpTo
  <2>6. ~File[next].isRoot => RootWritten'
    <3> SUFFICES ASSUME ~File[next].isRoot PROVE RootWritten'
      OBVIOUS
    <3>1. ~(skip /\ File[at].isRoot)
      BY <2>1, <2>2
    <3>2. next = at + 1
      BY <1>2, <2>1, <2>2, <2>3, <3>1
    <3>3. RootEntry(next) = RootEntry(at)
      BY <3>2, RootEntrySteps
    <3>4. RootWritten
      BY <1>1, <3>1
    <3> QED
      BY <1>1, <2>1, <2>2, <3>3, <3>4 DEF RootWritten
  <2> QED
    BY <1>5, <2>1, <2>2, <2>5, <2>6 DEF BeforeUpsert
<1> QED
  BY <1>4, <1>5

\* Writing children of the current word leaves the earlier entries alone.
LEMMA OthersStay ==
    ASSUME SeedTypeOK, HeadwordsUnique, Active, AfterUpsert, UNCHANGED row,
           seed'.at = seed.at, seed'.word = seed.word, seed'.root = seed.root,
           run' = "clean" => run = "clean",
           \A t \in Tables, v \in Words \ {seed.word} : child'[t][v] = child[t][v]
    PROVE  /\ WrittenUpTo(seed.at - 1, seed.at)'
           /\ Counts(seed.at)' /\ RootWritten'
           /\ (seed.word \in EntryRows(seed.at))'
<1>1. PICK at \in 1..Len(File) : at = seed.at
  BY AtEntry
<1>2. at \in Nat /\ Len(File) \in Nat
  BY Entries
<1>3. WrittenUpTo(at - 1, at)'
  <2>1. WrittenUpTo(at - 1, at)
    BY <1>1 DEF AfterUpsert
  <2>2. at - 1 \in 0..Len(File)
    BY <1>2
  <2>3. ASSUME NEW e \in 1..(at - 1), Counts(e), LastUpTo(e, at), NEW v \in EntryRows(e),
               NEW t \in Tables
        PROVE  child'[t][v] = child[t][v]
    <3>1. v # seed.word
      BY <1>1, <2>3, WordApart
    <3>2. v \in Words
      BY <1>2, RowsOfEntry
    <3> QED
      BY <3>1, <3>2
  <2> QED
    BY <1>2, <2>1, <2>2, <2>3, WrittenStays
<1>4. WrittenUpTo(seed.at - 1, seed.at)'
  BY <1>1, <1>3 DEF WrittenUpTo
<1> QED
  BY <1>4 DEF AfterUpsert, Counts, RootWritten, EntryRows, HasHeadword

\* After the DELETE everything is left to insert.
LEMMA FillingBegins ==
    ASSUME NEW texts \in Seq(STRING), seed'.left = NonEmpty(texts)
    PROVE  Filling({}, texts)'
<1>1. Cardinality(NonEmpty(texts)) \in Nat
  BY NonEmptyType, FS_CardinalityType
<1>2. NonEmpty(texts)' = NonEmpty(texts)
  BY DEF NonEmpty
<1>3. IsFiniteSet({}) /\ Cardinality({}) = 0
  BY FS_EmptySet
<1> QED
  BY <1>1, <1>2, <1>3 DEF Filling

\* No set has everything in it.
LEMMA NothingHasAll == ASSUME NEW S PROVE \E d : d \notin S
<1>1. {x \in S : x \notin x} \notin S
  OBVIOUS
<1> QED
  BY <1>1

\* An INSERT moves a child from what is left to the table, or, when it fails,
\* leaves a gap.
LEMMA FillingGoesOn ==
    ASSUME NEW texts \in Seq(STRING), NEW children, Filling(children, texts),
           NEW i \in seed.left, seed'.left = seed.left \ {i}, NEW d, d \notin children
    PROVE  /\ UNCHANGED run => Filling(children \cup {d}, texts)'
           /\ run' # "clean" => Filling(children, texts)'
<1> DEFINE m == Cardinality(NonEmpty(texts))
           n == Cardinality(children)
           k == Cardinality(seed.left)
<1>1. /\ IsFiniteSet(children) /\ IsFiniteSet(seed.left)
      /\ n \in Nat /\ m \in Nat /\ k \in Nat
  BY NonEmptyType, FS_Subset, FS_CardinalityType DEF Filling
<1>2. /\ IsFiniteSet(children \cup {d}) /\ Cardinality(children \cup {d}) = n + 1
      /\ Cardinality(seed'.left) = k - 1
  BY <1>1, FS_AddElement, FS_RemoveElement
<1>3. seed'.left \subseteq NonEmpty(texts) /\ n + k <= m /\ (run = "clean" => n + k = m)
  BY DEF Filling
<1>4. NonEmpty(texts)' = NonEmpty(texts)
  BY DEF NonEmpty
<1> HIDE DEF m, n, k
<1>5. (n + 1) + (k - 1) = n + k /\ n + (k - 1) <= n + k
  BY <1>1
<1>6. (n + 1) + (k - 1) <= m /\ (run = "clean" => (n + 1) + (k - 1) = m)
  BY <1>3, <1>5
<1>7. n + (k - 1) <= m
  BY <1>1, <1>3
<1>8. UNCHANGED run => Filling(children \cup {d}, texts)'
  BY <1>2, <1>3, <1>4, <1>6 DEF Filling, m, n, k
<1>9. run' # "clean" => Filling(children, texts)'
  BY <1>1, <1>2, <1>3, <1>4, <1>7 DEF Filling, m, n, k
<1> QED
  BY <1>8, <1>9

\* Every step keeps what is known of a run that nothing disturbs.
LEMMA RunStep ==
    ASSUME SeedTypeOK, Positioned, HeadwordsUnique, RunInv, [SeederNext \/ ApiNext]_vars
    PROVE  RunInv'
<1> SUFFICES ASSUME run' # "disturbed"
             PROVE  /\ seed' = Finished => WrittenUpTo(Len(File), Len(File))'
                    /\ Active' => IF seed'.pc = "upsert" THEN BeforeUpsert' ELSE AfterUpsert'
  BY DEF RunInv
<1> DEFINE Goal == /\ seed' = Finished => WrittenUpTo(Len(File), Len(File))'
                   /\ Active' => IF seed'.pc = "upsert" THEN BeforeUpsert' ELSE AfterUpsert'
<1>1. CASE Run
  <2>1. seed'.at = 1 /\ seed'.pc = "upsert" /\ seed' # Finished
    BY <1>1 DEF Run, Finished
  <2>2. Len(File) \in Nat /\ Len(File) # 0
    BY <1>1, SeederAssumption DEF Run
  <2>3. File[1].isRoot
    BY <2>2, Entries
  <2>4. BeforeUpsert'
    BY <2>1, <2>3 DEF BeforeUpsert, WrittenUpTo
  <2> QED
    BY <2>1, <2>4
<1>2. CASE Stop
  BY <1>2 DEF Stop
<1>3. CASE UpsertExisting
  <2>1. Active /\ seed.pc = "upsert" /\ Known(seed.at) /\ SeederNext
    BY <1>3 DEF UpsertExisting, SeederNext, Active, Stopped, Finished
  <2>2. PICK w \in Words : row[w].headword = EntryHeadword /\ Upserted(w)
    BY <1>3 DEF UpsertExisting, HasHeadword
  <2>3. UNCHANGED <<row, child, run>>
    BY <1>3 DEF UpsertExisting
  <2>4. BeforeUpsert
    BY <2>1, <2>3 DEF RunInv
  <2>5. AfterUpsert'
    BY <2>1, <2>2, <2>3, <2>4, UpsertWrites
  <2>6. seed'.pc = "deleteDefinitions"
    BY <2>1, <2>2, UpsertedType
  <2> QED
    BY <2>5, <2>6 DEF Finished
<1>4. CASE UpsertNew
  <2>1. Active /\ seed.pc = "upsert" /\ Known(seed.at) /\ SeederNext
    <3>1. seed.pc = "upsert" /\ Known(seed.at)
      BY <1>4 DEF UpsertNew
    <3>2. SeederNext
      BY <1>4 DEF SeederNext
    <3> QED
      BY <3>1, <3>2 DEF Active, Stopped, Finished
  <2>2. PICK w \in Words :
          /\ row' = [row EXCEPT ![w] = [state |-> "live", headword |-> EntryHeadword]]
          /\ Upserted(w)
    BY <1>4 DEF UpsertNew
  <2>3. row'[w].headword = EntryHeadword /\ UNCHANGED <<child, run>>
    BY <1>4, <2>2 DEF UpsertNew, SeedTypeOK, TypeOK
  <2>4. BeforeUpsert
    BY <2>1, <2>3 DEF RunInv
  <2>5. AfterUpsert'
    BY <2>1, <2>2, <2>3, <2>4, UpsertWrites
  <2>6. seed'.pc = "deleteDefinitions"
    BY <2>1, <2>2, UpsertedType
  <2> QED
    BY <2>5, <2>6 DEF Finished
<1>5. CASE Skip
  <2>1. Active /\ seed.pc = "upsert" /\ seed' = NextEntry(TRUE) /\ UNCHANGED <<row, child>>
    BY <1>5 DEF Skip, Active, Stopped, Finished, wordVars
  <2>2. ~Known(seed.at) /\ UNCHANGED run
    BY <1>5 DEF Skip
  <2>3. BeforeUpsert
    BY <2>1, <2>2 DEF RunInv
  <2>4. seed.at \in 1..Len(File) /\ Len(File) \in Nat
    BY <2>1, AtEntry, Entries
  <2>5. WrittenUpTo(seed.at, seed.at)
    <3> SUFFICES ASSUME NEW e \in 1..seed.at, Counts(e), LastUpTo(e, seed.at)
                 PROVE  \E v \in EntryRows(e) : Filled(v, e)
      BY DEF WrittenUpTo
    <3>1. e # seed.at
      BY <2>2 DEF Counts
    <3>2. e \in 1..(seed.at - 1) /\ LastUpTo(e, seed.at - 1)
      BY <2>4, <3>1 DEF LastUpTo
    <3> QED
      BY <2>3, <3>2 DEF BeforeUpsert, WrittenUpTo
  <2>6. RootWritten \/ File[seed.at].isRoot
    BY <2>3 DEF BeforeUpsert
  <2> QED
    <3>1. PICK skip \in BOOLEAN : skip = TRUE
      OBVIOUS
    <3>2. seed' = NextEntry(skip)
      BY <2>1, <3>1
    <3>3. skip => ~Known(seed.at)
      BY <2>2
    <3>4. RootWritten \/ (skip /\ File[seed.at].isRoot)
      BY <2>6, <3>1
    <3>5. /\ seed' = Finished => WrittenUpTo(Len(File), Len(File))'
          /\ seed' # Finished => seed'.pc = "upsert" /\ BeforeUpsert'
      BY <2>1, <2>2, <2>5, <3>2, <3>3, <3>4, GoingOn
    <3> QED
      BY <3>5 DEF Active
<1>6. CASE SeedDeleteDefinitions
  <2>1. Active /\ seed.pc = "deleteDefinitions"
    BY <1>6 DEF SeedDeleteDefinitions, Active, Stopped, Finished
  <2>2. /\ child' = [child EXCEPT !["definitions"][seed.word] = {}]
        /\ UNCHANGED <<row, run>>
    BY <1>6 DEF SeedDeleteDefinitions, SeedClear
  <2>3. AfterUpsert
    BY <2>1, <2>2 DEF RunInv
  <2>4. seed \in Seed /\ seed.word \in Words /\ File[seed.at] \in Entry
    BY <2>1, AtEntry DEF Positioned
  <2>5. /\ seed'.at = seed.at /\ seed'.word = seed.word /\ seed'.root = seed.root
        /\ seed'.pc = "definitions" /\ seed'.left = NonEmpty(File[seed.at].definitions)
    BY <1>6, <2>4 DEF SeedDeleteDefinitions, Seed
  <2>6. /\ \A t \in Tables, v \in Words \ {seed.word} : child'[t][v] = child[t][v]
        /\ child'["definitions"][seed.word] = {}
    BY <2>2, <2>4 DEF SeedTypeOK, TypeOK, Tables
  <2>7. /\ WrittenUpTo(seed.at - 1, seed.at)' /\ Counts(seed.at)' /\ RootWritten'
        /\ (seed.word \in EntryRows(seed.at))'
    BY <2>1, <2>2, <2>3, <2>5, <2>6, OthersStay
  <2>8. Filling({}, File[seed.at].definitions)'
    <3>1. PICK at : at = seed.at
      OBVIOUS
    <3>2. File[at].definitions \in Seq(STRING)
      BY <2>4, <3>1 DEF Entry
    <3>3. Filling({}, File[at].definitions)'
      BY <2>5, <3>1, <3>2, FillingBegins
    <3> QED
      BY <2>5, <3>1, <3>3
  <2>9. Filling(child["definitions"][seed.word], File[seed.at].definitions)'
    BY <2>5, <2>6, <2>8
  <2> QED
    BY <2>5, <2>7, <2>9 DEF AfterUpsert, Finished
<1>7. CASE SeedDeleteExamples
  <2>1. Active /\ seed.pc = "definitions" /\ seed.left = {}
    BY <1>7 DEF SeedDeleteExamples, Active, Stopped, Finished
  <2>2. /\ child' = [child EXCEPT !["examples"][seed.word] = {}]
        /\ UNCHANGED <<row, run>>
    BY <1>7 DEF SeedDeleteExamples, SeedClear
  <2>3. AfterUpsert
    BY <2>1, <2>2 DEF RunInv
  <2>4. seed \in Seed /\ seed.word \in Words /\ File[seed.at] \in Entry
    BY <2>1, AtEntry DEF Positioned
  <2>5. /\ seed'.at = seed.at /\ seed'.word = seed.word /\ seed'.root = seed.root
        /\ seed'.pc = "examples" /\ seed'.left = NonEmpty(File[seed.at].examples)
    BY <1>7, <2>4 DEF SeedDeleteExamples, Seed
  <2>6. /\ \A t \in Tables, v \in Words \ {seed.word} : child'[t][v] = child[t][v]
        /\ child'["examples"][seed.word] = {}
        /\ child'["definitions"] = child["definitions"]
    BY <2>2, <2>4 DEF SeedTypeOK, TypeOK, Tables
  <2>7. /\ WrittenUpTo(seed.at - 1, seed.at)' /\ Counts(seed.at)' /\ RootWritten'
        /\ (seed.word \in EntryRows(seed.at))'
    BY <2>1, <2>2, <2>3, <2>5, <2>6, OthersStay
  <2>8. Filling(child["examples"][seed.word], File[seed.at].examples)'
    <3>1. PICK at : at = seed.at
      OBVIOUS
    <3>2. File[at].examples \in Seq(STRING)
      BY <2>4, <3>1 DEF Entry
    <3>3. Filling({}, File[at].examples)'
      BY <2>5, <3>1, <3>2, FillingBegins
    <3> QED
      BY <2>5, <2>6, <3>1, <3>3
  <2>9. AsManyAs(child["definitions"][seed.word], File[seed.at].definitions)'
    <3>1. AsManyAs(child["definitions"][seed.word], File[seed.at].definitions)
      BY <2>1, <2>3, FillingDone DEF AfterUpsert
    <3> QED
      BY <2>2, <2>5, <2>6, <3>1 DEF AsManyAs
  <2> QED
    BY <2>5, <2>7, <2>8, <2>9 DEF AfterUpsert, Finished
<1>8. CASE SeedInsert
  <2>1. Active /\ seed.pc \in Tables /\ UNCHANGED row
    BY <1>8 DEF SeedInsert, Active, Stopped, Finished, Tables
  <2>2. seed \in Seed /\ seed.word \in Words /\ File[seed.at] \in Entry
    BY <2>1, AtEntry DEF Positioned, Tables
  <2>3. PICK i \in seed.left : seed' = [seed EXCEPT !.left = @ \ {i}]
    BY <1>8 DEF SeedInsert
  <2>4. /\ seed'.at = seed.at /\ seed'.word = seed.word /\ seed'.root = seed.root
        /\ seed'.pc = seed.pc /\ seed'.left = seed.left \ {i}
    BY <2>2, <2>3 DEF Seed
  <2>5. run # "disturbed" /\ (run' = "clean" => run = "clean")
    BY <1>8 DEF SeedInsert, SeedTypeOK, RunState
  <2>6. AfterUpsert
    BY <2>1, <2>5 DEF RunInv, Tables
  <2>7. \/ /\ UNCHANGED run
           /\ \E d \in Fresh : child' = [child EXCEPT ![seed.pc][seed.word] = @ \cup {d}]
        \/ run' # "clean" /\ UNCHANGED child
    BY <1>8 DEF SeedInsert
  <2>8. /\ \A t \in Tables, v \in Words \ {seed.word} : child'[t][v] = child[t][v]
        /\ \A t \in Tables \ {seed.pc} : child'[t] = child[t]
        /\ \/ /\ UNCHANGED run
              /\ \E d : /\ d \notin child[seed.pc][seed.word]
                        /\ child'[seed.pc][seed.word] = child[seed.pc][seed.word] \cup {d}
           \/ run' # "clean" /\ child'[seed.pc][seed.word] = child[seed.pc][seed.word]
    <3>1. child \in [Tables -> [Words -> SUBSET Children]]
      BY DEF SeedTypeOK, TypeOK
    <3>2. CASE run' # "clean" /\ UNCHANGED child
      BY <3>2
    <3>3. ASSUME UNCHANGED run, NEW d \in Fresh,
                 child' = [child EXCEPT ![seed.pc][seed.word] = @ \cup {d}]
          PROVE  /\ \A t \in Tables, v \in Words \ {seed.word} : child'[t][v] = child[t][v]
                 /\ \A t \in Tables \ {seed.pc} : child'[t] = child[t]
                 /\ UNCHANGED run /\ d \notin child[seed.pc][seed.word]
                 /\ child'[seed.pc][seed.word] = child[seed.pc][seed.word] \cup {d}
      <4>1. d \notin child[seed.pc][seed.word]
        BY <2>1, <2>2, <3>3 DEF Fresh, Tables
      <4>2. /\ \A t \in Tables, v \in Words \ {seed.word} : child'[t][v] = child[t][v]
            /\ \A t \in Tables \ {seed.pc} : child'[t] = child[t]
        BY <2>1, <2>2, <3>1, <3>3
      <4>3. child'[seed.pc][seed.word] = child[seed.pc][seed.word] \cup {d}
        BY <2>1, <2>2, <3>1, <3>3
      <4> QED
        BY <3>3, <4>1, <4>2, <4>3
    <3> QED
      BY <2>7, <3>2, <3>3
  <2>9. /\ WrittenUpTo(seed.at - 1, seed.at)' /\ Counts(seed.at)' /\ RootWritten'
        /\ (seed.word \in EntryRows(seed.at))'
    BY <2>1, <2>4, <2>5, <2>6, <2>8, OthersStay
  <2>10. ASSUME NEW texts \in Seq(STRING), NEW children, NEW new,
                Filling(children, texts),
                \/ UNCHANGED run /\ \E d : d \notin children /\ new = children \cup {d}
                \/ run' # "clean" /\ new = children
         PROVE  Filling(new, texts)'
    <3>1. CASE UNCHANGED run /\ \E d : d \notin children /\ new = children \cup {d}
      BY <2>4, <2>10, <3>1, FillingGoesOn
    <3>2. CASE run' # "clean" /\ new = children
      <4>1. PICK d : d \notin children
        BY NothingHasAll
      <4> QED
        BY <2>4, <2>10, <3>2, <4>1, FillingGoesOn
    <3> QED
      BY <2>10, <3>1, <3>2
  <2>11. PICK at, old, new : /\ at = seed.at /\ old = child[seed.pc][seed.word]
                             /\ new = child'[seed.pc][seed.word]
    OBVIOUS
  <2>12. File[at].definitions \in Seq(STRING) /\ File[at].examples \in Seq(STRING)
    BY <2>2, <2>11 DEF Entry
  <2>13. CASE seed.pc = "definitions"
    <3>1. Filling(old, File[at].definitions)
      BY <2>6, <2>11, <2>13 DEF AfterUpsert
    <3>2. Filling(new, File[at].definitions)'
      BY <2>8, <2>10, <2>11, <2>12, <3>1
    <3>3. Filling(child["definitions"][seed.word], File[seed.at].definitions)'
      BY <2>4, <2>11, <2>13, <3>2
    <3> QED
      BY <2>4, <2>9, <2>13, <3>3 DEF AfterUpsert, Finished
  <2>14. CASE seed.pc = "examples"
    <3>1. Filling(old, File[at].examples)
      BY <2>6, <2>11, <2>14 DEF AfterUpsert
    <3>2. Filling(new, File[at].examples)'
      BY <2>8, <2>10, <2>11, <2>12, <3>1
    <3>3. Filling(child["examples"][seed.word], File[seed.at].examples)'
      BY <2>4, <2>11, <2>14, <3>2
    <3>4. AsManyAs(child["definitions"][seed.word], File[seed.at].definitions)
      BY <2>6, <2>14 DEF AfterUpsert
    <3>5. child'["definitions"] = child["definitions"]
      BY <2>8, <2>14 DEF Tables
    <3>6. AsManyAs(child["definitions"][seed.word], File[seed.at].definitions)'
      BY <2>4, <2>5, <3>4, <3>5 DEF AsManyAs
    <3> QED
      BY <2>4, <2>9, <2>14, <3>3, <3>6 DEF AfterUpsert, Finished
  <2> QED
    BY <2>1, <2>13, <2>14 DEF Tables
<1>9. CASE EntryDone
  <2>1. /\ Active /\ seed.pc = "examples" /\ seed.left = {} /\ seed' = NextEntry(FALSE)
        /\ UNCHANGED <<row, child, run>>
    BY <1>9 DEF EntryDone, Active, Stopped, Finished, wordVars
  <2>2. AfterUpsert
    BY <2>1 DEF RunInv
  <2>3. seed.at \in 1..Len(File) /\ Len(File) \in Nat
    BY <2>1, AtEntry, Entries
  <2>4. Filled(seed.word, seed.at) /\ seed.word \in EntryRows(seed.at)
    BY <2>1, <2>2, FillingDone DEF AfterUpsert, Filled
  <2>5. WrittenUpTo(seed.at, seed.at)
    <3> SUFFICES ASSUME NEW e \in 1..seed.at, Counts(e), LastUpTo(e, seed.at)
                 PROVE  \E v \in EntryRows(e) : Filled(v, e)
      BY DEF WrittenUpTo
    <3>1. CASE e = seed.at
      BY <2>4, <3>1
    <3>2. CASE e \in 1..(seed.at - 1)
      BY <2>2, <3>2 DEF AfterUpsert, WrittenUpTo
    <3> QED
      BY <2>3, <3>1, <3>2
  <2> QED
    <3>1. PICK skip \in BOOLEAN : skip = FALSE
      OBVIOUS
    <3>2. seed' = NextEntry(skip)
      BY <2>1, <3>1
    <3>3. skip => ~Known(seed.at)
      BY <3>1
    <3>4. RootWritten
      BY <2>2 DEF AfterUpsert
    <3>5. /\ seed' = Finished => WrittenUpTo(Len(File), Len(File))'
          /\ seed' # Finished => seed'.pc = "upsert" /\ BeforeUpsert'
      BY <2>1, <2>5, <3>2, <3>3, <3>4, GoingOn
    <3> QED
      BY <3>5 DEF Active
<1>10. ASSUME UNCHANGED <<row, child, run, seed>> PROVE Goal
  BY <1>10 DEF RunInv, Active, BeforeUpsert, AfterUpsert, RootWritten, WrittenUpTo,
               Counts, LastUpTo, SameHeadword, Filled, AsManyAs, Filling, EntryRows,
               HasHeadword
<1>11. CASE ApiNext
  <2>1. UNCHANGED <<row, child, run, seed>>
    BY <1>11 DEF ApiNext
  <2> QED
    BY <1>10, <2>1
<1>12. CASE UNCHANGED vars
  BY <1>10, <1>12 DEF vars
<1> QED
  BY <1>1, <1>2, <1>3, <1>4, <1>5, <1>6, <1>7, <1>8, <1>9, <1>11, <1>12 DEF SeederNext

\* "Safe to run multiple times (idempotent)": whatever earlier runs and requests
\* have left, and whatever the API reads and refuses meanwhile, a run that
\* finishes undisturbed leaves one word for every headword of the file, with the
\* children its last entry gives, and none twice.
THEOREM SeedingIsExact == SeedSpec => []SeededExactly
<1>1. SeedInit => HeadwordsUnique /\ RunInv
  BY WordStoreAssumption DEF SeedInit, Init, Absent, HeadwordsUnique, RunInv, Active,
                             Stopped, Finished
<1>2. HeadwordsUnique /\ RunInv => SeededExactly
  <2> SUFFICES ASSUME HeadwordsUnique, RunInv, seed = Finished, run # "disturbed",
                      NEW e \in 1..Len(File), Known(e), Known(RootEntry(e)), LastOfHeadword(e)
               PROVE  /\ Cardinality(EntryRows(e)) = 1
                      /\ \A w \in EntryRows(e) :
                            /\ AsManyAs(child["definitions"][w], File[e].definitions)
                            /\ AsManyAs(child["examples"][w], File[e].examples)
    BY DEF SeededExactly
  <2>1. Counts(e) /\ LastUpTo(e, Len(File))
    BY DEF Counts, LastUpTo, LastOfHeadword, SameHeadword
  <2>2. PICK v \in EntryRows(e) : Filled(v, e)
    BY <2>1 DEF RunInv, WrittenUpTo
  <2>3. \A w \in EntryRows(e) : w = v
    BY OneRow
  <2>4. EntryRows(e) = {v}
    BY <2>3
  <2>5. Cardinality(EntryRows(e)) = 1
    BY <2>4, FS_Singleton
  <2> QED
    BY <2>2, <2>3, <2>5 DEF Filled
<1>3. SeedTypeOK /\ Positioned /\ HeadwordsUnique /\ RunInv /\ [SeederNext \/ ApiNext]_vars
        => HeadwordsUnique' /\ RunInv'
  BY UniqueStep, RunStep
<1> QED
  BY <1>1, <1>2, <1>3, SeedInitial, SeedTypeStep, PTL DEF SeedSpec
=============================================================================
