-------------------------- MODULE MCProjectMembers --------------------------
(* A few people, one of them an administrator, and a service account.      *)
EXTENDS ProjectMembers, TLC

CONSTANTS r1, r2, r3

\* Requests differ only in what they are asked to do.
Alike == Permutations(Requests)
=============================================================================
