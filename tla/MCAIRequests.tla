---------------------------- MODULE MCAIRequests ----------------------------
(***************************************************************************)
(* AIRequests on a small instance: two admins review one suggestion for a  *)
(* word that is being created, updated and soft-deleted.                   *)
(***************************************************************************)
EXTENDS AIRequests
=============================================================================
