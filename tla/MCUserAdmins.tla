---------------------------- MODULE MCUserAdmins ----------------------------
(* Two requests of one user and one of another.                            *)
EXTENDS UserAdmins, TLC

CONSTANTS u1, u2, r1, r2, r3

MCCallerOf == [r \in Requests |-> IF r = r3 THEN u2 ELSE u1]

\* Requests of the same user.
Alike == Permutations({r1, r2})
=============================================================================
