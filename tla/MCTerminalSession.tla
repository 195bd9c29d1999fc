-------------------------- MODULE MCTerminalSession --------------------------
(* Two connections of a user, two logins' and refreshes' worth of tokens.  *)
EXTENDS TerminalSession, TLC

CONSTANTS s1, s2

TwoSessions == {s1, s2}
=============================================================================
