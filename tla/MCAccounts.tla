----------------------------- MODULE MCAccounts -----------------------------
(* Two users, each with a request. *)
EXTENDS Accounts
=============================================================================
