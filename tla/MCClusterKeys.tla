---------------------------- MODULE MCClusterKeys ----------------------------
(* Two requests; a patch changes encryption, credentials, label or name,   *)
(* or two of them.                                                         *)
EXTENDS ClusterKeys, TLC

CONSTANTS r1, r2, web, db, k1, k2

Alike == Permutations(Requests) \cup Permutations(Names) \cup Permutations(Keys)

SomePatches ==
    {[Silent EXCEPT !.encryption = "off", !.label = "drop"], [Silent EXCEPT !.encryption = "on"],
     [Silent EXCEPT !.credentials = "own", !.label = "set"]}
    \cup {[Silent EXCEPT !.name = n, !.label = "set"] : n \in Names}
    \cup {[Silent EXCEPT !.encryption = "on", !.key = k] : k \in Keys}
    \cup {[Silent EXCEPT !.credentials = "own", !.encryption = "on", !.key = k] : k \in Keys}
=============================================================================
