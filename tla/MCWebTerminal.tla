---------------------------- MODULE MCWebTerminal ----------------------------
(* Two sessions of a user; the configuration chooses the bounds.            *)
EXTENDS WebTerminal

CONSTANTS s1, s2
=============================================================================
