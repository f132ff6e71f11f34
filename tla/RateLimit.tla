----------------------------- MODULE RateLimit -----------------------------
(***************************************************************************)
(* pkg/ratelimit: the Redis counter behind every limited route.  A request *)
(* runs INCR and EXPIRE in one MULTI/EXEC, so the counter is never seen    *)
(* between the two, and the middleware lets it pass while the count is at  *)
(* most the limit of its key.                                              *)
(*                                                                         *)
(* Time is discrete.  Nothing depends on absolute time: the key has a time *)
(* to live, and the requests of the last Window ticks, kept to state the   *)
(* properties, have an age.                                                *)
(*                                                                         *)
(* When Redis cannot be reached the middleware fails open: the request     *)
(* passes and no counter changes.                                          *)
(***************************************************************************)
EXTENDS Naturals, FiniteSets

CONSTANTS Keys,      \* "ratelimit:<group>:<user or ip>"
          Limit,     \* Limit[k]: requests allowed for key k
          Window,    \* the window of the limit, in ticks
          CallIds,   \* names for the requests of the last Window ticks
          MaxCount   \* bound on the counters

ASSUME RateLimitAssumption ==
    /\ Limit \in [Keys -> Nat \ {0}]
    /\ Window \in Nat \ {0}
    /\ MaxCount \in Nat

VARIABLES count,  \* count[k]: the value of the Redis key, 0 when it is absent
          ttl,    \* ttl[k]: ticks until the key expires, 0 when it is absent
          calls   \* calls[k]: the counted requests of the last Window ticks

vars == <<count, ttl, calls>>

\* n is the count the request got.  "open": Redis counted the request but the
\* reply was lost, so that the middleware let it pass without looking.
Call == [id : CallIds, n : Nat, age : 0 .. Window - 1,
         outcome : {"passed", "refused", "open"}]

Init ==
    /\ count = [k \in Keys |-> 0]
    /\ ttl = [k \in Keys |-> 0]
    /\ calls = [k \in Keys |-> {}]

-----------------------------------------------------------------------------
IncrementLong(k) ==              \* mutant: the key outlives the window
    /\ count' = [count EXCEPT ![k] = @ + 1]
    /\ ttl' = [ttl EXCEPT ![k] = Window + 1]

IncrementShort(k) ==             \* mutant: the key expires a tick too early
    /\ count' = [count EXCEPT ![k] = @ + 1]
    /\ ttl' = [ttl EXCEPT ![k] = Window - 1]

\* INCR and EXPIRE, on every request.
Increment(k) ==
    /\ count' = [count EXCEPT ![k] = @ + 1]
    /\ ttl' = [ttl EXCEPT ![k] = Window]

WithinLimit(k, n) == n <= Limit[k]

\* Remember the request under a name no recent request of the key has.
Record(k, outcome) ==
    \E id \in CallIds :
       /\ \A c \in calls[k] : c.id # id
       /\ calls' = [calls EXCEPT ![k] = @ \cup
            {[id |-> id, n |-> count[k] + 1, age |-> 0, outcome |-> outcome]}]

\* A request is counted and judged by its count.
Limiter(k) ==
    /\ count[k] < MaxCount
    /\ Increment(k)
    /\ Record(k, IF WithinLimit(k, count[k] + 1) THEN "passed" ELSE "refused")

\* The pipeline runs but its reply is lost: an error, so the request passes.
LimiterFailsOpen(k) ==
    /\ count[k] < MaxCount
    /\ Increment(k)
    /\ Record(k, "open")

\* Time passes: keys come closer to expiry and are removed when they get
\* there; requests that leave the window are forgotten.
Tick ==
    /\ ttl' = [k \in Keys |-> IF ttl[k] > 0 THEN ttl[k] - 1 ELSE 0]
    /\ count' = [k \in Keys |-> IF ttl[k] > 1 THEN count[k] ELSE 0]
    /\ calls' = [k \in Keys |->
         {[c EXCEPT !.age = @ + 1] : c \in {d \in calls[k] : d.age + 1 < Window}}]

Next == Tick \/ \E k \in Keys : Limiter(k) \/ LimiterFailsOpen(k)

Spec == Init /\ [][Next]_vars

-----------------------------------------------------------------------------
(* Properties. *)

\* Type correctness of the counters and of the recorded requests.
TypeOK ==
    /\ count \in [Keys -> 0 .. MaxCount]
    /\ ttl \in [Keys -> 0 .. Window]
    /\ calls \in [Keys -> SUBSET Call]

Passed(k) == {c \in calls[k] : c.outcome = "passed"}

\* The limit: in no window, wherever it starts, do more than Limit[k] requests
\* pass on the counter's word.  A fixed window would allow twice as many
\* around its boundary.
WindowBound == \A k \in Keys : Cardinality(Passed(k)) <= Limit[k]

\* A client that stayed away for a whole window is served again: whatever it
\* did before, its first request after the pause is not refused.
QuietClientServed ==
    [][\A k \in Keys : calls[k] = {} =>
          \A c \in calls'[k] : c.outcome # "refused"]_vars

\* A sliding window refuses a request only when the window before it holds
\* Limit[k] others already.
RefusedOnlyOverLimit ==
    [][\A k \in Keys : \A c \in calls'[k] :
          (c.outcome = "refused" /\ c \notin calls[k] /\ c.age = 0)
             => Cardinality(calls[k]) >= Limit[k]]_vars
=============================================================================
