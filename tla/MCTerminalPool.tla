--------------------------- MODULE MCTerminalPool ---------------------------
(* Three requests of one user on one cluster and one on another; limit 2.   *)
EXTENDS TerminalPool

CONSTANTS h1, h2, h3, h4, k1, k2

MCHandlers == {h1, h2, h3, h4}
MCKeys == {k1, k2}
MCKeyOf == [h \in MCHandlers |-> IF h = h4 THEN k2 ELSE k1]
=============================================================================
