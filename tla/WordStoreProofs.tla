-------------------------- MODULE WordStoreProofs --------------------------
(***************************************************************************)
(* Proofs about WordStore, for any number of words, children and requests. *)
(***************************************************************************)
EXTENDS WordStore, TLAPS

USE DEF Tables

\* A request that is somewhere in the repository has a word and children.
LEMMA AtWork ==
    ASSUME TypeOK, NEW p \in Procs, job[p].pc # "idle"
    PROVE  job[p] \in Job
BY DEF TypeOK, Idle

\* Going on to another statement keeps a request well typed.
LEMMA StepType ==
    ASSUME TypeOK, NEW p \in Procs, job[p].pc # "idle",
           NEW c \in {"deleteDefinitions", "deleteExamples", "insert"}, Step(p, c)
    PROVE  job' \in [Procs -> {Idle} \cup Job]
<1>1. job[p] \in Job
  BY AtWork
<1>2. [job[p] EXCEPT !.pc = c] \in Job
  BY <1>1 DEF Job
<1> QED
  BY <1>2 DEF TypeOK, Step

\* Deleting the children of a word keeps the tables well typed.
LEMMA ClearType ==
    ASSUME TypeOK, NEW p \in Procs, job[p].pc # "idle", NEW t \in Tables, Clear(p, t)
    PROVE  /\ child' \in [Tables -> [Words -> SUBSET Children]]
           /\ last' \in [Tables -> [Words -> Last]]
<1>1. job[p] \in Job
  BY AtWork
<1>2. job[p].word \in Words /\ job[p].put[t] \in SUBSET Children
  BY <1>1 DEF Job
<1>3. child' \in [Tables -> [Words -> SUBSET Children]]
  <2>1. [child[t] EXCEPT ![job[p].word] = {}] \in [Words -> SUBSET Children]
    BY <1>2 DEF TypeOK
  <2> QED
    BY <2>1 DEF TypeOK, Clear
<1>4. last' \in [Tables -> [Words -> Last]]
  <2>1. [by |-> p, want |-> job[p].put[t]] \in Last
    BY <1>2 DEF Last
  <2>2. [last[t] EXCEPT ![job[p].word] = [by |-> p, want |-> job[p].put[t]]]
          \in [Words -> Last]
    BY <1>2, <2>1 DEF TypeOK
  <2> QED
    BY <2>2 DEF TypeOK, Clear
<1> QED
  BY <1>3, <1>4

\* Every step of the repository keeps the tables and the requests well typed.
LEMMA TypeStep == TypeOK /\ [Next]_wordVars => TypeOK'
<1> SUFFICES ASSUME TypeOK, [Next]_wordVars PROVE TypeOK'
  OBVIOUS
<1>1. ASSUME NEW p \in Procs, Admin(p) PROVE TypeOK'
  <2> USE DEF TypeOK, Job, Last, Idle
  <2>1. PICK w \in Words, h \in Headwords, put \in FreshContent :
          CreateWord(p, w, h, put) \/ UpdateWord(p, w, h, put)
    BY <1>1 DEF Admin
  <2>2. put \in [Tables -> SUBSET Children]
    BY DEF FreshContent, Fresh
  <2>3. CASE CreateWord(p, w, h, put)
    BY <2>2, <2>3 DEF CreateWord, Row
  <2>4. CASE UpdateWord(p, w, h, put)
    BY <2>2, <2>4 DEF UpdateWord
  <2> QED
    BY <2>1, <2>3, <2>4
<1>2. ASSUME NEW p \in Procs, LoadDefinitions(p) PROVE TypeOK'
  <2> DEFINE w == job[p].word
             loaded == [job[p].put EXCEPT !["definitions"] = child["definitions"][w]]
  <2>1. job[p] \in Job
    BY <1>2, AtWork DEF LoadDefinitions
  <2>2. loaded \in [Tables -> SUBSET Children]
    BY <2>1 DEF Job, TypeOK
  <2>3. [job[p] EXCEPT !.pc = "loadExamples", !.put = loaded] \in Job
    BY <2>1, <2>2 DEF Job
  <2>4. job' = [job EXCEPT ![p] =
                  [job[p] EXCEPT !.pc = "loadExamples", !.put = loaded]]
    BY <1>2, <2>1 DEF LoadDefinitions, TypeOK, Job
  <2> HIDE DEF loaded
  <2>5. job' \in [Procs -> {Idle} \cup Job]
    BY <2>3, <2>4 DEF TypeOK
  <2> QED
    BY <1>2, <2>5 DEF LoadDefinitions, TypeOK
<1>3. ASSUME NEW p \in Procs, LoadExamples(p) PROVE TypeOK'
  <2>1. PICK add \in Suggestion :
          job' = [job EXCEPT
             ![p].pc = "updateRow",
             ![p].put["definitions"] = @ \cup add["definitions"],
             ![p].put["examples"] = child["examples"][job[p].word] \cup add["examples"]]
    BY <1>3 DEF LoadExamples, AddSuggestion
  <2> DEFINE loaded == [job[p].put EXCEPT
               !["definitions"] = @ \cup add["definitions"],
               !["examples"] = child["examples"][job[p].word] \cup add["examples"]]
  <2>2. job[p] \in Job
    BY <1>3, AtWork DEF LoadExamples, AddSuggestion
  <2>3. add \in [Tables -> SUBSET Children]
    BY DEF Suggestion, FreshContent, Fresh
  <2>4. loaded \in [Tables -> SUBSET Children]
    BY <2>2, <2>3 DEF Job, TypeOK
  <2>5. [job[p] EXCEPT !.pc = "updateRow", !.put = loaded] \in Job
    BY <2>2, <2>4 DEF Job
  <2>6. job' = [job EXCEPT ![p] =
                  [job[p] EXCEPT !.pc = "updateRow", !.put = loaded]]
    BY <2>1, <2>2 DEF TypeOK, Job
  <2> HIDE DEF loaded
  <2>7. job' \in [Procs -> {Idle} \cup Job]
    BY <2>5, <2>6 DEF TypeOK
  <2> QED
    BY <1>3, <2>7 DEF LoadExamples, AddSuggestion, TypeOK
<1>4. ASSUME NEW p \in Procs, UpdateRow(p) PROVE TypeOK'
  <2>1. job[p] \in Job /\ job' \in [Procs -> {Idle} \cup Job]
    BY <1>4, AtWork, StepType DEF UpdateRow
  <2>2. job[p].word \in Words /\ job[p].headword \in Headwords
    BY <2>1 DEF Job
  <2>3. [row[job[p].word] EXCEPT !.headword = job[p].headword] \in Row
    BY <1>4, <2>2 DEF UpdateRow, Live, TypeOK, Row, Absent
  <2>4. row' \in [Words -> Row]
    BY <1>4, <2>2, <2>3 DEF UpdateRow, TypeOK
  <2> QED
    BY <1>4, <2>1, <2>4 DEF UpdateRow, TypeOK
<1>5. ASSUME NEW p \in Procs, DeleteDefinitions(p) PROVE TypeOK'
  BY <1>5, StepType, ClearType DEF DeleteDefinitions, Clear, TypeOK
<1>6. ASSUME NEW p \in Procs, DeleteExamples(p) PROVE TypeOK'
  BY <1>6, StepType, ClearType DEF DeleteExamples, Clear, TypeOK
<1>7. ASSUME NEW p \in Procs, Upsert(p) PROVE TypeOK'
  <2>1. job[p] \in Job
    BY <1>7, AtWork DEF Upsert
  <2>2. PICK t \in Tables : \E d \in job[p].put[t] :
          /\ child' = [child EXCEPT ![t][job[p].word] = @ \cup {d}]
          /\ job' = [job EXCEPT ![p].put[t] = @ \ {d}]
    BY <1>7 DEF Upsert
  <2>3. PICK d \in job[p].put[t] :
          /\ child' = [child EXCEPT ![t][job[p].word] = @ \cup {d}]
          /\ job' = [job EXCEPT ![p].put[t] = @ \ {d}]
    BY <2>2
  <2>4. job[p].word \in Words /\ job[p].put \in [Tables -> SUBSET Children] /\ d \in Children
    BY <2>1 DEF Job
  <2>5. [child[t] EXCEPT ![job[p].word] = @ \cup {d}] \in [Words -> SUBSET Children]
    BY <2>4 DEF TypeOK
  <2>6. child' \in [Tables -> [Words -> SUBSET Children]]
    BY <2>3, <2>5 DEF TypeOK
  <2>7. [job[p].put EXCEPT ![t] = @ \ {d}] \in [Tables -> SUBSET Children]
    BY <2>4
  <2>8. [job[p] EXCEPT !.put = [job[p].put EXCEPT ![t] = @ \ {d}]] \in Job
    BY <2>1, <2>7 DEF Job
  <2>9. job' \in [Procs -> {Idle} \cup Job]
    BY <2>3, <2>8 DEF TypeOK
  <2> QED
    BY <1>7, <2>6, <2>9 DEF Upsert, TypeOK
<1>8. ASSUME NEW p \in Procs, NEW how \in {Nobody, Aborted}, Leave(p, how),
             UNCHANGED <<row, child>>
      PROVE TypeOK'
  <2>1. job' \in [Procs -> {Idle} \cup Job]
    BY <1>8 DEF Leave, TypeOK
  <2>2. last' \in [Tables -> [Words -> Last]]
    BY <1>8 DEF Leave, TypeOK, Last
  <2> QED
    BY <1>8, <2>1, <2>2 DEF TypeOK
<1>9. ASSUME NEW p \in Procs, NEW w \in Words, MergeWord(p, w) PROVE TypeOK'
  <2>1. row[w].headword \in Headwords
    BY <1>9 DEF MergeWord, Live, TypeOK, Row, Absent
  <2> QED
    BY <1>9, <2>1 DEF MergeWord, TypeOK, Job
<1>10. ASSUME NEW w \in Words, SoftDeleteWord(w) PROVE TypeOK'
  <2>1. [row[w] EXCEPT !.state = "deleted"] \in Row
    BY <1>10 DEF SoftDeleteWord, Live, TypeOK, Row, Absent
  <2> QED
    BY <1>10, <2>1 DEF SoftDeleteWord, TypeOK
<1>11. CASE UNCHANGED wordVars
  BY <1>11 DEF wordVars, TypeOK
<1> QED
  BY <1>1, <1>2, <1>3, <1>4, <1>5, <1>6, <1>7, <1>8, <1>9, <1>10, <1>11
     DEF Next, Continue, Save, Answer, Abort

\* The three tables and the requests are always well typed.
THEOREM TypeCorrect == Spec => []TypeOK
<1>1. Init => TypeOK
  BY DEF Init, TypeOK, Row, Absent, Last
<1> QED
  BY <1>1, TypeStep, PTL DEF Spec

-----------------------------------------------------------------------------
(* The last writer loses nothing.  What makes the invariant inductive is     *)
(* that the request named by last is still at work on that very word and     *)
(* past the DELETE on that table, so that what it holds is what it wants.    *)

\* The points of a request at which its DELETE on table t is behind it.
Past(t) == IF t = "definitions" THEN {"deleteExamples", "insert"} ELSE {"insert"}

\* The request recorded as the last to clear a table is working on the word.
OwnerAtWork ==
    \A t \in Tables, w \in Words : last[t][w].by \in Procs =>
        LET p == last[t][w].by
        IN  job[p].pc \in Past(t) /\ job[p].word = w

\* LastWriterComplete, split by whether the last writer is still at work.
WantThere ==
    \A t \in Tables, w \in Words :
        last[t][w].want \subseteq
            IF last[t][w].by \in Procs
            THEN child[t][w] \cup job[last[t][w].by].put[t]
            ELSE child[t][w]

IInv == OwnerAtWork /\ WantThere

\* Every step keeps the invariant: a DELETE makes its request the owner of
\* what it wants, an INSERT moves a child from the request to the table, and
\* a request that ends takes back what it has not inserted.
LEMMA WriterStep == TypeOK /\ IInv /\ [Next]_wordVars => IInv'
<1> SUFFICES ASSUME TypeOK, IInv, [Next]_wordVars PROVE IInv'
  OBVIOUS
<1> USE WordStoreAssumption
<1>1. ASSUME NEW p \in Procs, NEW w \in Words, NEW h \in Headwords,
             NEW put \in FreshContent, CreateWord(p, w, h, put)
      PROVE IInv'
  BY <1>1 DEF CreateWord, IInv, OwnerAtWork, WantThere, Past, TypeOK, Last,
              Idle, Job
<1>2. ASSUME NEW p \in Procs, \A q \in Procs \ {p} : job'[q] = job[q],
             job[p].pc \in {"idle", "loadDefinitions", "loadExamples", "updateRow"},
             UNCHANGED <<child, last>>
      PROVE IInv'
  <2>1. \A t \in Tables, w \in Words : last[t][w].by # p
    BY <1>2 DEF IInv, OwnerAtWork, Past
  <2>2. OwnerAtWork'
    BY <1>2, <2>1 DEF IInv, OwnerAtWork
  <2>3. WantThere'
    BY <1>2, <2>1 DEF IInv, WantThere
  <2> QED
    BY <2>2, <2>3 DEF IInv
<1>3. ASSUME NEW p \in Procs, DeleteDefinitions(p) PROVE IInv'
  <2>1. job[p] \in Job
    BY <1>3, AtWork DEF DeleteDefinitions
  <2>2. job[p].word \in Words
    BY <2>1 DEF Job
  <2> QED
    BY <1>3, <2>1, <2>2 DEF DeleteDefinitions, Clear, Step, IInv, OwnerAtWork,
                      WantThere, Past, TypeOK, Last, Job
<1>4. ASSUME NEW p \in Procs, DeleteExamples(p) PROVE IInv'
  <2>1. job[p] \in Job
    BY <1>4, AtWork DEF DeleteExamples
  <2>2. job[p].word \in Words
    BY <2>1 DEF Job
  <2> QED
    BY <1>4, <2>1, <2>2 DEF DeleteExamples, Clear, Step, IInv, OwnerAtWork,
                      WantThere, Past, TypeOK, Last, Job
<1>5. ASSUME NEW p \in Procs, Upsert(p) PROVE IInv'
  <2>1. job[p] \in Job
    BY <1>5, AtWork DEF Upsert
  <2>2. PICK t \in Tables : \E d \in job[p].put[t] :
          /\ child' = [child EXCEPT ![t][job[p].word] = @ \cup {d}]
          /\ job' = [job EXCEPT ![p].put[t] = @ \ {d}]
    BY <1>5 DEF Upsert
  <2>3. PICK d \in job[p].put[t] :
          /\ child' = [child EXCEPT ![t][job[p].word] = @ \cup {d}]
          /\ job' = [job EXCEPT ![p].put[t] = @ \ {d}]
    BY <2>2
  <2>4. /\ job[p].word \in Words
        /\ job[p].put \in [Tables -> SUBSET Children]
    BY <2>1 DEF Job
  <2>5. /\ \A q \in Procs : job'[q].pc = job[q].pc
        /\ \A q \in Procs : job'[q].word = job[q].word
    BY <2>1, <2>3 DEF TypeOK, Job
  <2>6. /\ \A q \in Procs \ {p} : job'[q] = job[q]
        /\ job'[p].put = [job[p].put EXCEPT ![t] = @ \ {d}]
    BY <2>1, <2>3 DEF TypeOK, Job
  <2>7. last' = last
    BY <1>5 DEF Upsert
  <2>8. OwnerAtWork'
    BY <2>5, <2>7 DEF IInv, OwnerAtWork
  <2>9. ASSUME NEW u \in Tables, NEW w \in Words
        PROVE  last[u][w].want \subseteq
                 IF last[u][w].by \in Procs
                 THEN child'[u][w] \cup job'[last[u][w].by].put[u]
                 ELSE child'[u][w]
    BY <2>3, <2>4, <2>6 DEF IInv, OwnerAtWork, WantThere, TypeOK
  <2> QED
    BY <2>7, <2>8, <2>9 DEF IInv, WantThere
<1>6. ASSUME NEW p \in Procs, NEW how \in {Nobody, Aborted}, Leave(p, how),
             UNCHANGED <<row, child>>
      PROVE IInv'
  <2>1. ASSUME NEW t \in Tables, NEW w \in Words
        PROVE  /\ last[t][w].by # p => last'[t][w] = last[t][w]
               /\ last[t][w].by = p =>
                    /\ last'[t][w].by = how
                    /\ last'[t][w].want = last[t][w].want \ job[p].put[t]
    BY <1>6 DEF Leave
  <2>2. \A q \in Procs \ {p} : job'[q] = job[q]
    BY <1>6 DEF Leave, TypeOK
  <2>3. ASSUME NEW t \in Tables, NEW w \in Words, last'[t][w].by \in Procs
        PROVE  last'[t][w] = last[t][w] /\ last[t][w].by # p
    BY <2>1, <2>3
  <2>4. OwnerAtWork'
    BY <2>2, <2>3 DEF IInv, OwnerAtWork
  <2>5. ASSUME NEW t \in Tables, NEW w \in Words
        PROVE  last'[t][w].want \subseteq
                 IF last'[t][w].by \in Procs
                 THEN child'[t][w] \cup job'[last'[t][w].by].put[t]
                 ELSE child'[t][w]
    <3>1. CASE last[t][w].by = p
      BY <1>6, <2>1, <3>1 DEF IInv, WantThere
    <3>2. CASE last[t][w].by # p
      BY <1>6, <2>1, <2>2, <3>2 DEF IInv, WantThere
    <3> QED
      BY <3>1, <3>2
  <2>6. WantThere'
    BY <2>5 DEF WantThere
  <2> QED
    BY <2>4, <2>6 DEF IInv
<1>7. ASSUME NEW w \in Words, SoftDeleteWord(w) PROVE IInv'
  BY <1>7 DEF SoftDeleteWord, IInv, OwnerAtWork, WantThere
<1>8. CASE UNCHANGED wordVars
  BY <1>8 DEF wordVars, IInv, OwnerAtWork, WantThere
<1>9. ASSUME NEW p \in Procs, NEW w \in Words, NEW h \in Headwords,
             NEW put \in FreshContent, UpdateWord(p, w, h, put)
      PROVE IInv'
  <2>1. \A q \in Procs \ {p} : job'[q] = job[q]
    BY <1>9 DEF UpdateWord, TypeOK
  <2> QED
    BY <1>2, <1>9, <2>1 DEF UpdateWord, Idle
<1>10. ASSUME NEW p \in Procs, NEW w \in Words, MergeWord(p, w) PROVE IInv'
  <2>1. \A q \in Procs \ {p} : job'[q] = job[q]
    BY <1>10 DEF MergeWord, TypeOK
  <2> QED
    BY <1>2, <1>10, <2>1 DEF MergeWord, Idle
<1>11. ASSUME NEW p \in Procs, LoadDefinitions(p) PROVE IInv'
  <2>1. \A q \in Procs \ {p} : job'[q] = job[q]
    BY <1>11 DEF LoadDefinitions, TypeOK
  <2> QED
    BY <1>2, <1>11, <2>1 DEF LoadDefinitions
<1>12. ASSUME NEW p \in Procs, LoadExamples(p) PROVE IInv'
  <2>1. \A q \in Procs \ {p} : job'[q] = job[q]
    BY <1>12 DEF LoadExamples, AddSuggestion, TypeOK
  <2> QED
    BY <1>2, <1>12, <2>1 DEF LoadExamples, AddSuggestion
<1>13. ASSUME NEW p \in Procs, UpdateRow(p) PROVE IInv'
  <2>1. \A q \in Procs \ {p} : job'[q] = job[q]
    BY <1>13 DEF UpdateRow, Step, TypeOK
  <2> QED
    BY <1>2, <1>13, <2>1 DEF UpdateRow, Step
<1> QED
  BY <1>1, <1>3, <1>4, <1>5, <1>6, <1>7, <1>8, <1>9, <1>10, <1>11, <1>12, <1>13
     DEF Next, Admin, Continue, Save, Answer, Abort

\* However creations, updates and merges of a word overlap, the one that
\* deletes a table last loses none of the children it wants there.
THEOREM LastWriterWins == Spec => []LastWriterComplete
<1>1. Init => IInv
  BY WordStoreAssumption DEF Init, IInv, OwnerAtWork, WantThere
<1>2. IInv => LastWriterComplete
  BY DEF IInv, WantThere, LastWriterComplete
<1> QED
  BY <1>1, <1>2, WriterStep, TypeCorrect, PTL DEF Spec

-----------------------------------------------------------------------------
(* Deletion is final.                                                        *)

\* No step brings a deleted word back or takes a request past the UPDATE of a
\* deleted word.
LEMMA DeletedStep ==
    ASSUME TypeOK, [Next]_wordVars, NEW w \in Words, row[w].state = "deleted"
    PROVE  Replacing(w)' \subseteq Replacing(w) /\ row'[w].state = "deleted"
<1>1. row'[w].state = "deleted"
  <2>1. row[w] # Absent /\ ~Live(w)
    BY DEF Absent, Live
  <2>2. ASSUME NEW p \in Procs, Admin(p) PROVE row'[w] = row[w]
    BY <2>1, <2>2 DEF Admin, CreateWord, UpdateWord, TypeOK
  <2>3. ASSUME NEW p \in Procs, UpdateRow(p) PROVE row'[w] = row[w]
    BY <2>1, <2>3 DEF UpdateRow, TypeOK
  <2>4. ASSUME NEW v \in Words, SoftDeleteWord(v) PROVE row'[w] = row[w]
    BY <2>1, <2>4 DEF SoftDeleteWord, TypeOK
  <2> QED
    BY <2>2, <2>3, <2>4 DEF Next, Continue, Save, LoadDefinitions, LoadExamples,
       AddSuggestion, DeleteDefinitions, DeleteExamples, Clear, Upsert, Answer, Abort, MergeWord, wordVars
<1>2. ASSUME NEW q \in Procs, job'[q].word = w, job'[q] # Idle,
             job'[q].pc \in {"deleteDefinitions", "deleteExamples", "insert"}
      PROVE  /\ job[q] # Idle
             /\ job[q].word = w
             /\ job[q].pc \in {"deleteDefinitions", "deleteExamples", "insert"}
  <2>1. row[w] # Absent /\ ~Live(w)
    BY DEF Absent, Live
  <2>2. CASE job'[q] = job[q]
    BY <1>2, <2>2
  <2>3. ASSUME NEW p \in Procs, Admin(p), job'[q] # job[q] PROVE FALSE
    <3>1. PICK v \in Words, h \in Headwords, put \in FreshContent :
            CreateWord(p, v, h, put) \/ UpdateWord(p, v, h, put)
      BY <2>3 DEF Admin
    <3>2. p = q
      BY <2>3, <3>1 DEF CreateWord, UpdateWord, TypeOK
    <3> QED
      BY <1>2, <2>1, <3>1, <3>2 DEF CreateWord, UpdateWord, TypeOK
  <2>4. ASSUME NEW p \in Procs, NEW v \in Words, MergeWord(p, v), job'[q] # job[q]
        PROVE FALSE
    BY <1>2, <2>4 DEF MergeWord, TypeOK
  <2>5. ASSUME NEW p \in Procs, Leave(p, Nobody) \/ Leave(p, Aborted),
               job'[q] # job[q]
        PROVE FALSE
    BY <1>2, <2>5 DEF Leave, TypeOK
  <2>6. ASSUME NEW p \in Procs, Continue(p), job'[q] # job[q]
        PROVE  /\ p = q
               /\ job[q] \in Job
               /\ job'[q].word = job[q].word
    <3>1. p = q
      BY <2>6 DEF Continue, Save, LoadDefinitions, LoadExamples, AddSuggestion,
                  UpdateRow, DeleteDefinitions, DeleteExamples, Step, Upsert, TypeOK
    <3>2. job[q] \in Job
      BY <2>6, <3>1, AtWork DEF Continue, Save, LoadDefinitions, LoadExamples,
                  AddSuggestion, UpdateRow, DeleteDefinitions, DeleteExamples, Upsert
    <3>3. job'[q].word = job[q].word
      <4>1. CASE LoadDefinitions(p)
        BY <3>1, <3>2, <4>1 DEF LoadDefinitions, TypeOK, Job
      <4>2. CASE LoadExamples(p)
        BY <3>1, <3>2, <4>2 DEF LoadExamples, AddSuggestion, TypeOK, Job
      <4>3. CASE UpdateRow(p) \/ DeleteDefinitions(p) \/ DeleteExamples(p)
        BY <3>1, <3>2, <4>3 DEF UpdateRow, DeleteDefinitions, DeleteExamples,
                               Step, TypeOK, Job
      <4>4. CASE Upsert(p)
        BY <3>1, <3>2, <4>4 DEF Upsert, TypeOK, Job
      <4> QED
        BY <2>6, <4>1, <4>2, <4>3, <4>4 DEF Continue, Save
    <3> QED
      BY <3>1, <3>2, <3>3
  <2>7. ASSUME NEW p \in Procs, Continue(p), job'[q] # job[q]
        PROVE  job[q].pc \in {"deleteDefinitions", "deleteExamples", "insert"}
    <3>1. p = q /\ job[q] \in Job /\ job[q].word = w
      BY <1>2, <2>6, <2>7
    <3>2. CASE LoadDefinitions(p) \/ LoadExamples(p)
      <4>1. job'[q].pc \in {"loadExamples", "updateRow"}
        <5>1. CASE LoadDefinitions(p)
          BY <3>1, <5>1 DEF LoadDefinitions, TypeOK, Job
        <5>2. CASE LoadExamples(p)
          BY <3>1, <5>2 DEF LoadExamples, AddSuggestion, TypeOK, Job
        <5> QED
          BY <3>2, <5>1, <5>2
      <4> QED
        BY <1>2, <4>1
    <3>3. CASE UpdateRow(p)
      BY <2>1, <3>1, <3>3 DEF UpdateRow
    <3>4. CASE DeleteDefinitions(p) \/ DeleteExamples(p) \/ Upsert(p)
      BY <3>1, <3>4 DEF DeleteDefinitions, DeleteExamples, Upsert
    <3> QED
      BY <2>7, <3>2, <3>3, <3>4 DEF Continue, Save
  <2>8. CASE \E v \in Words : SoftDeleteWord(v)
    BY <2>2, <2>8 DEF SoftDeleteWord
  <2>9. CASE UNCHANGED wordVars
    BY <2>2, <2>9 DEF wordVars
  <2>10. ASSUME NEW p \in Procs, Continue(p), job'[q] # job[q]
         PROVE  job[q] # Idle /\ job[q].word = w
    BY <1>2, <2>6, <2>7, <2>10 DEF Idle
  <2> QED
    BY <2>2, <2>3, <2>4, <2>5, <2>7, <2>8, <2>9, <2>10 DEF Next, Answer, Abort
<1> QED
  BY <1>1, <1>2 DEF Replacing

\* "Updating a soft-deleted word returns NOT_FOUND": once a word is deleted no
\* update or merge begins to replace its children, wherever it was interrupted
\* by the deletion, and nothing brings the word back.
THEOREM DeletionFinal == Spec => NoReplacementAfterDelete
<1>1. TypeOK /\ [Next]_wordVars =>
        [\A w \in Words : row[w].state = "deleted"
            => Replacing(w)' \subseteq Replacing(w) /\ row'[w].state = "deleted"]_wordVars
  BY DeletedStep
<1> QED
  BY <1>1, TypeCorrect, PTL DEF Spec, NoReplacementAfterDelete
=============================================================================
