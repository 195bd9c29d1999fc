-------------------------- MODULE MCTokenBlacklist --------------------------
(* Two requests of a user, each with a token of its own.                   *)
EXTENDS TokenBlacklist

CONSTANTS r1, r2, t1, t2

MCTokenOf == [r \in Requests |-> IF r = r1 THEN t1 ELSE t2]
=============================================================================
