-------------------------- MODULE MCServiceAccounts --------------------------
(* Two requests.                                                           *)
EXTENDS ServiceAccounts

CONSTANTS r1, r2
=============================================================================
