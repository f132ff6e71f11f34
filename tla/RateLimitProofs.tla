-------------------------- MODULE RateLimitProofs --------------------------
(***************************************************************************)
(* Proofs about RateLimit for every set of keys, limits and window length. *)
(***************************************************************************)
EXTENDS RateLimit, FiniteSetTheorems, TLAPS

USE RateLimitAssumption

\* Why the limit holds.  The key outlives every request of the window, so
\* that all of them were counted by the same counter without a reset: their
\* counts are pairwise different.
SameEpoch(k) ==
    /\ \A c \in calls[k] :
          /\ c.age + ttl[k] >= Window
          /\ c.n \in 1 .. count[k]
          /\ c.outcome = "passed" => c.n <= Limit[k]
    /\ \A c, d \in calls[k] : c.n = d.n => c = d

\* Why a pause helps.  A key that exists was touched by a request of the
\* window, the youngest one, Window - ttl ticks ago.
Touched(k) ==
    /\ ttl[k] = 0 => count[k] = 0
    /\ ttl[k] > 0 => \E c \in calls[k] : c.age + ttl[k] = Window

IInv == \A k \in Keys : SameEpoch(k) /\ Touched(k)

Older(c) == [c EXCEPT !.age = @ + 1]

LEMMA OlderCall ==
    ASSUME NEW c \in Call, c.age + 1 < Window
    PROVE  /\ Older(c) \in Call
           /\ Older(c).age = c.age + 1
           /\ Older(c).n = c.n
           /\ Older(c).outcome = c.outcome
  BY DEF Older, Call

LEMMA TypeStep == TypeOK /\ [Next]_vars => TypeOK'
<1> SUFFICES ASSUME TypeOK, [Next]_vars PROVE TypeOK'
  OBVIOUS
<1>1. CASE Tick
  <2>1. \A k \in Keys : calls'[k] \in SUBSET Call
    BY <1>1, OlderCall DEF TypeOK, Tick, Older
  <2>2. calls' \in [Keys -> SUBSET Call]
    BY <1>1, <2>1 DEF Tick
  <2>3. QED
    BY <1>1, <2>2 DEF TypeOK, Tick
<1>2. ASSUME NEW k \in Keys, NEW outcome \in {"passed", "refused", "open"},
             count[k] < MaxCount, Increment(k), Record(k, outcome)
      PROVE  TypeOK'
  BY <1>2 DEF TypeOK, Increment, Record, Call
<1>3. CASE UNCHANGED vars
  BY <1>3 DEF TypeOK, vars
<1>4. QED
  BY <1>1, <1>2, <1>3 DEF Next, Limiter, LimiterFailsOpen

\* Type correctness: a counter is at most MaxCount and a key never lives
\* longer than the window.
THEOREM TypeCorrect == Spec => []TypeOK
<1>1. Init => TypeOK
  BY DEF Init, TypeOK
<1>2. QED
  BY <1>1, TypeStep, PTL DEF Spec

-----------------------------------------------------------------------------
(* The inductive invariant.                                                *)

LEMMA CountStep ==
    ASSUME TypeOK, IInv, NEW k \in Keys,
           NEW outcome \in {"passed", "refused", "open"},
           outcome = "passed" => WithinLimit(k, count[k] + 1),
           Increment(k), Record(k, outcome)
    PROVE  IInv'
<1>1. PICK id \in CallIds :
         calls' = [calls EXCEPT ![k] = @ \cup
            {[id |-> id, n |-> count[k] + 1, age |-> 0, outcome |-> outcome]}]
  BY DEF Record
<1> DEFINE new == [id |-> id, n |-> count[k] + 1, age |-> 0, outcome |-> outcome]
<1>2. calls'[k] = calls[k] \cup {new} /\ ttl'[k] = Window /\ count'[k] = count[k] + 1
  BY <1>1 DEF TypeOK, Increment
<1>3. /\ new.n = count[k] + 1 /\ new.age = 0 /\ new.outcome = outcome
      /\ count[k] \in Nat /\ ttl[k] \in 0 .. Window
  BY DEF TypeOK
<1>4. \A c \in calls[k] : c \in Call /\ c.age \in Nat /\ c.n \in 1 .. count[k]
  BY DEF TypeOK, Call, IInv, SameEpoch
<1> HIDE DEF new
<1>5. SameEpoch(k)'
  <2>1. \A c \in calls'[k] : /\ c.age + ttl'[k] >= Window
                             /\ c.n \in 1 .. count'[k]
                             /\ c.outcome = "passed" => c.n <= Limit[k]
    BY <1>2, <1>3, <1>4 DEF IInv, SameEpoch, WithinLimit
  <2>2. \A c, d \in calls'[k] : c.n = d.n => c = d
    BY <1>2, <1>3, <1>4 DEF IInv, SameEpoch
  <2>3. QED
    BY <2>1, <2>2 DEF SameEpoch
<1>6. Touched(k)'
  BY <1>2, <1>3 DEF Touched
<1>7. ASSUME NEW j \in Keys, j # k
      PROVE  SameEpoch(j)' /\ Touched(j)'
  <2>1. calls'[j] = calls[j] /\ ttl'[j] = ttl[j] /\ count'[j] = count[j]
    BY <1>1, <1>7 DEF TypeOK, Increment
  <2>2. QED
    BY <2>1 DEF IInv, SameEpoch, Touched
<1>8. QED
  BY <1>5, <1>6, <1>7 DEF IInv

LEMMA TickStep == ASSUME TypeOK, IInv, Tick PROVE IInv'
<1> SUFFICES ASSUME NEW k \in Keys PROVE SameEpoch(k)' /\ Touched(k)'
  BY DEF IInv
<1> DEFINE kept == {d \in calls[k] : d.age + 1 < Window}
<1>1. calls'[k] = {Older(c) : c \in kept}
  BY DEF Tick, Older
<1>2. /\ ttl'[k] = IF ttl[k] > 0 THEN ttl[k] - 1 ELSE 0
      /\ count'[k] = IF ttl[k] > 1 THEN count[k] ELSE 0
      /\ ttl[k] \in 0 .. Window /\ count[k] \in Nat
  BY DEF Tick, TypeOK
<1>3. \A c \in kept : /\ c \in calls[k] /\ c \in Call /\ c.age \in Nat /\ c.n \in Nat
                      /\ c.age + 1 < Window
  BY DEF TypeOK, Call
<1>4. \A c \in kept : /\ Older(c).age = c.age + 1 /\ Older(c).n = c.n
                      /\ Older(c).outcome = c.outcome
  BY <1>3, OlderCall
\* A request that stays in the window keeps its key alive.
<1>5. \A c \in kept : ttl[k] > 1 /\ c.age + ttl[k] >= Window
  BY <1>2, <1>3 DEF IInv, SameEpoch
<1>6. SameEpoch(k)'
  <2>1. ASSUME NEW c \in kept
        PROVE  /\ Older(c).age + ttl'[k] >= Window
               /\ Older(c).n \in 1 .. count'[k]
               /\ Older(c).outcome = "passed" => Older(c).n <= Limit[k]
    <3>1. c.n \in 1 .. count[k] /\ (c.outcome = "passed" => c.n <= Limit[k])
      BY <1>3 DEF IInv, SameEpoch
    <3>2. QED
      BY <1>2, <1>3, <1>4, <1>5, <3>1
  <2>2. ASSUME NEW c \in kept, NEW d \in kept, Older(c).n = Older(d).n
        PROVE  Older(c) = Older(d)
    <3>1. c = d
      BY <1>3, <1>4, <2>2 DEF IInv, SameEpoch
    <3>2. QED
      BY <3>1
  <2>3. QED
    BY <1>1, <2>1, <2>2 DEF SameEpoch
<1>7. Touched(k)'
  <2>1. ttl'[k] = 0 => count'[k] = 0
    BY <1>2
  <2>2. ASSUME ttl'[k] > 0
        PROVE  \E c \in calls'[k] : c.age + ttl'[k] = Window
    <3>1. ttl[k] > 1 /\ ttl'[k] = ttl[k] - 1
      BY <1>2, <2>2
    <3>2. PICK c \in calls[k] : c.age + ttl[k] = Window
      BY <1>2, <3>1 DEF IInv, Touched
    <3>3. c \in kept
      BY <1>2, <3>1, <3>2 DEF TypeOK, Call
    <3>4. Older(c).age + ttl'[k] = Window
      BY <1>2, <1>3, <1>4, <3>1, <3>2, <3>3
    <3>5. QED
      BY <1>1, <3>3, <3>4
  <2>3. QED
    BY <2>1, <2>2 DEF Touched
<1>8. QED
  BY <1>6, <1>7

LEMMA InvStep == TypeOK /\ IInv /\ [Next]_vars => IInv'
<1> SUFFICES ASSUME TypeOK, IInv, [Next]_vars PROVE IInv'
  OBVIOUS
<1>1. CASE Tick
  BY <1>1, TickStep
<1>2. ASSUME NEW k \in Keys, Limiter(k) PROVE IInv'
  BY <1>2, CountStep DEF Limiter
<1>3. ASSUME NEW k \in Keys, LimiterFailsOpen(k) PROVE IInv'
  BY <1>3, CountStep DEF LimiterFailsOpen
<1>4. CASE UNCHANGED vars
  BY <1>4 DEF IInv, SameEpoch, Touched, vars
<1>5. QED
  BY <1>1, <1>2, <1>3, <1>4 DEF Next

LEMMA InvCorrect == Spec => []IInv
<1>1. Init => IInv
  BY DEF Init, IInv, SameEpoch, Touched
<1>2. QED
  BY <1>1, TypeCorrect, InvStep, PTL DEF Spec

-----------------------------------------------------------------------------
(* The promises of the limiter.                                            *)

\* Requests with different counts, each at most the limit, are at most as
\* many as the limit.
LEMMA BoundFromEpoch == TypeOK /\ IInv => WindowBound
<1> SUFFICES ASSUME TypeOK, IInv, NEW k \in Keys
             PROVE  Cardinality(Passed(k)) <= Limit[k]
  BY DEF WindowBound
<1> DEFINE f == [c \in Passed(k) |-> c.n]
<1>1. \A c \in Passed(k) : c.n \in 1 .. Limit[k]
  BY DEF Passed, IInv, SameEpoch, TypeOK, Call
<1>2. \A c, d \in Passed(k) : c.n = d.n => c = d
  BY DEF Passed, IInv, SameEpoch
<1>3. f \in Injection(Passed(k), 1 .. Limit[k])
  BY <1>1, <1>2 DEF Injection, IsInjective
<1>4. IsFiniteSet(1 .. Limit[k]) /\ Cardinality(1 .. Limit[k]) = Limit[k]
  BY FS_Interval
<1>5. Cardinality(Passed(k)) <= Cardinality(1 .. Limit[k])
  BY <1>3, <1>4, FS_Injection
<1>6. QED
  BY <1>4, <1>5

\* For every limit and window: no window, wherever it starts, sees more than
\* Limit[k] requests of a key pass on the counter's word.
THEOREM LimitHolds == Spec => []WindowBound
  BY TypeCorrect, InvCorrect, BoundFromEpoch, PTL

\* For every limit and window: the first request after a window of silence is
\* not refused.
THEOREM PauseHelps == Spec => QuietClientServed
<1>1. TypeOK /\ IInv /\ [Next]_vars =>
        [\A k \in Keys : calls[k] = {} =>
            \A c \in calls'[k] : c.outcome # "refused"]_vars
  <2> SUFFICES ASSUME TypeOK, IInv, Next, NEW k \in Keys, calls[k] = {},
                      NEW c \in calls'[k]
               PROVE  c.outcome # "refused"
    OBVIOUS
  <2>1. count[k] = 0
    BY DEF IInv, Touched, TypeOK
  <2>2. CASE Tick
    BY <2>2 DEF Tick
  <2>3. ASSUME NEW j \in Keys, Limiter(j) PROVE c.outcome # "refused"
    <3>1. CASE j = k
      <4>1. WithinLimit(k, count[k] + 1)
        BY <2>1 DEF WithinLimit
      <4>2. QED
        BY <2>3, <3>1, <4>1 DEF TypeOK, Limiter, Record
    <3>2. CASE j # k
      BY <2>3, <3>2 DEF TypeOK, Limiter, Record
    <3>3. QED
      BY <3>1, <3>2
  <2>4. ASSUME NEW j \in Keys, LimiterFailsOpen(j) PROVE c.outcome # "refused"
    BY <2>4 DEF TypeOK, LimiterFailsOpen, Record
  <2>5. QED
    BY <2>2, <2>3, <2>4 DEF Next
<1>2. QED
  BY <1>1, TypeCorrect, InvCorrect, PTL DEF Spec, QuietClientServed
=============================================================================
