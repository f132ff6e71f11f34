---------------------------- MODULE MCAccounts -----------------------------
(***************************************************************************)
(* Accounts on a small instance: one account, two refresh tokens, so that  *)
(* a rotation has a token to go to, one reset token, and two requests that *)
(* overlap; Root is the second administrator.                              *)
(***************************************************************************)
EXTENDS Accounts
=============================================================================
