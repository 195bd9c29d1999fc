----------------------------- MODULE MCUserWatch -----------------------------
(* Two users, each with one browser connected.                             *)
EXTENDS UserWatch

CONSTANTS u1, u2, U2, c1, c2

MCLower == [e \in Emails |-> IF e = U2 THEN u2 ELSE e]

\* Both tokens spell the address as it is stored.
MCEmailOf == [c \in Clients |-> IF c = c1 THEN u1 ELSE u2]

\* One token spells it with a capital.
MCEmailOfMixed == [c \in Clients |-> IF c = c1 THEN u1 ELSE U2]
=============================================================================
