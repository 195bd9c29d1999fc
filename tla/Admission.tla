------------------------------ MODULE Admission ------------------------------
(***************************************************************************)
(* What the pool of terminal connections promises, without a counter, a    *)
(* lock or a map: a connection is turned away only if, at some moment      *)
(* since it asked, its key held the maximum number of open connections;    *)
(* and as long as nothing was released, it is let in only if at some       *)
(* moment its key held fewer.  The promise is about the moment of the      *)
(* decision: those that were let in may enter together.                    *)
(***************************************************************************)
EXTENDS Integers

CONSTANTS
    Handlers, Keys, keyOf, maxNumberOfConnections,
    Size(_)   \* the number of elements of a finite set

VARIABLES
    status,   \* "out", "asking", "granted", "refused" or "open"
    released  \* "yes" once the memory of the pool was released

vars == <<status, released>>

Init ==
    /\ status = [h \in Handlers |-> "out"]
    /\ released = "no"

Open(k) == {h \in Handlers : keyOf[h] = k /\ status[h] = "open"}

Becomes(h, from, to) == status[h] = from /\ status' = [status EXCEPT ![h] = to]

Ask(h) == Becomes(h, "out", "asking") /\ UNCHANGED released

Grant(h) ==
    /\ Becomes(h, "asking", "granted")
    /\ released = "yes" \/ Size(Open(keyOf[h])) < maxNumberOfConnections
    /\ UNCHANGED released

Refuse(h) ==
    /\ Becomes(h, "asking", "refused")
    /\ Size(Open(keyOf[h])) >= maxNumberOfConnections
    /\ UNCHANGED released

Enter(h) == Becomes(h, "granted", "open") /\ UNCHANGED released

Leave(h) ==
    /\ Becomes(h, "open", "out") \/ Becomes(h, "refused", "out")
    /\ UNCHANGED released

Release == released' = "yes" /\ UNCHANGED status

Next ==
    \/ Release
    \/ \E h \in Handlers : Ask(h) \/ Grant(h) \/ Refuse(h) \/ Enter(h) \/ Leave(h)

Spec == Init /\ [][Next]_vars
=============================================================================
