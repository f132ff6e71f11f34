----------------------- MODULE ContributionLifecycle -----------------------
(***************************************************************************)
(* What the contribution workflow promises, whatever the interleaving: a   *)
(* contribution is submitted once; only a contender decides it, and one    *)
(* becomes a contender only while the contribution is pending.  A decision *)
(* may be overruled, but only by a request that was already contending     *)
(* when it was taken, and never by one that comes later; it is final when  *)
(* the contenders have run out.                                            *)
(***************************************************************************)
CONSTANTS Ids, Requests

VARIABLES status,      \* status[c]: the status of contribution c
          contenders   \* contenders[c]: the requests about to decide c

vars == <<status, contenders>>

Outcomes == {"approved", "rejected", "withdrawn"}

Init ==
    /\ status = [c \in Ids |-> "absent"]
    /\ contenders = [c \in Ids |-> {}]

Submit(c) ==
    /\ status[c] = "absent"
    /\ status' = [status EXCEPT ![c] = "pending"]
    /\ UNCHANGED contenders

Contend(c, r) ==
    /\ status[c] = "pending"
    /\ contenders' = [contenders EXCEPT ![c] = @ \cup {r}]
    /\ UNCHANGED status

Decide(c, r, outcome) ==
    /\ r \in contenders[c]
    /\ status' = [status EXCEPT ![c] = outcome]
    /\ contenders' = [contenders EXCEPT ![c] = @ \ {r}]

GiveUp(c, r) ==
    /\ r \in contenders[c]
    /\ contenders' = [contenders EXCEPT ![c] = @ \ {r}]
    /\ UNCHANGED status

Next ==
    \E c \in Ids :
       \/ Submit(c)
       \/ \E r \in Requests :
             \/ Contend(c, r)
             \/ GiveUp(c, r)
             \/ \E o \in Outcomes : Decide(c, r, o)

Spec == Init /\ [][Next]_vars
=============================================================================
