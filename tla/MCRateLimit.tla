---------------------------- MODULE MCRateLimit ----------------------------
(***************************************************************************)
(* RateLimit with a guest key (limit 1) and a user key (limit 2), as the   *)
(* dictionary's AdaptiveLimiter distinguishes them.                        *)
(***************************************************************************)
EXTENDS RateLimit, TLC

CONSTANTS guest, user

MCKeys == {guest, user}
MCLimit == (guest :> 1) @@ (user :> 2)

CallSymmetry == Permutations(CallIds)
=============================================================================
