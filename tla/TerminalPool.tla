---------------------------- MODULE TerminalPool ----------------------------
(***************************************************************************)
(* The per-user pool of web terminal connections kept by the API server    *)
(* (modules/api/pkg/handler/routes_v1_websocket.go).                       *)
(*                                                                         *)
(* getTerminalWatchHandler runs once per websocket request.  It reads the  *)
(* number of active connections under the mutex, releases the mutex,       *)
(* compares the number with the limit, and only then takes the mutex again *)
(* to count itself.  A deferred call un-counts it when the handler         *)
(* returns.  A goroutine empties the whole map every 24 hours.             *)
(***************************************************************************)
EXTENDS Integers, FiniteSets

CONSTANTS
    Handlers,                \* handler invocations that may be in flight
    Keys,                    \* "<project>-<cluster>-<email>"
    keyOf,                   \* the key a handler's request is for
    maxNumberOfConnections,  \* maxNumberOfTerminalActiveConnectionsPerUser
    MaxReleases              \* bound on the runs of the cleaning goroutine

ASSUME PoolAssumption ==
    /\ IsFiniteSet(Handlers)
    /\ keyOf \in [Handlers -> Keys]
    /\ maxNumberOfConnections \in Nat \ {0}
    /\ MaxReleases \in Nat

VARIABLES
    active,    \* connections.active; a missing key reads as 0 in the code
    seen,      \* what getActiveConnections returned to a handler
    pc,        \* where each handler is
    releases   \* how often releaseMemory has run

poolVars == <<active, seen, pc, releases>>

Locations ==
    {"idle",      \* no request
     "upgraded",  \* websocket accepted, pool not looked at yet
     "compare",   \* count read, mutex released, comparison pending
     "admitted",  \* comparison passed, not counted yet
     "waiting",   \* counted; polling for the kubeconfig secret
     "writing"}   \* counted; the terminal session runs

PoolInit ==
    /\ active = [k \in Keys |-> 0]
    /\ seen = [h \in Handlers |-> 0]
    /\ pc = [h \in Handlers |-> "idle"]
    /\ releases = 0

Goto(h, from, to) == pc[h] = from /\ pc' = [pc EXCEPT ![h] = to]

\* Settings, token and cluster checks pass and the websocket is upgraded.
\* Before this point a failing check returns without touching the pool.
Connect(h) ==
    /\ Goto(h, "idle", "upgraded")
    /\ UNCHANGED <<active, seen, releases>>

\* connectionsPerUser.getActiveConnections(key)
GetActiveConnections(h) ==
    /\ Goto(h, "upgraded", "compare")
    /\ seen' = [seen EXCEPT ![h] = active[keyOf[h]]]
    /\ UNCHANGED <<active, releases>>

\* The comparison is made with the next connection counted in.
RejectEarly(h) ==
    /\ seen[h] + 1 >= maxNumberOfConnections
    /\ Goto(h, "compare", "idle")
    /\ UNCHANGED <<active, seen, releases>>

\* ">= maxNumberOfConnections": ConnectionPoolExceeded is sent and the
\* handler returns; the deferred decrease is not registered yet.
Reject(h) ==
    /\ seen[h] >= maxNumberOfConnections
    /\ Goto(h, "compare", "idle")
    /\ UNCHANGED <<active, seen, releases>>

\* An off-by-one in the comparison.
AdmitOneMore(h) ==
    /\ seen[h] <= maxNumberOfConnections
    /\ Goto(h, "compare", "admitted")
    /\ UNCHANGED <<active, seen, releases>>

Admit(h) ==
    /\ seen[h] < maxNumberOfConnections
    /\ Goto(h, "compare", "admitted")
    /\ UNCHANGED <<active, seen, releases>>

IncreaseActiveConnections(h) ==
    /\ Goto(h, "admitted", "waiting")
    /\ active' = [active EXCEPT ![keyOf[h]] = @ + 1]
    /\ UNCHANGED <<seen, releases>>

\* WaitFor finds the kubeconfig secret within five minutes.
SecretFound(h) ==
    /\ Goto(h, "waiting", "writing")
    /\ UNCHANGED <<active, seen, releases>>

\* A count that ignores the end of a connection.
NeverDecreased(n) == n

\* A count that forgets the other connections of the key.
DecreasedToZero(n) == 0

\* The count after decreaseActiveConnections: never below zero.
Decreased(n) == IF n > 0 THEN n - 1 ELSE n

\* The handler returns and its deferred decreaseActiveConnections runs.
Return(h, from) ==
    /\ Goto(h, from, "idle")
    /\ active' = [active EXCEPT ![keyOf[h]] = Decreased(@)]
    /\ UNCHANGED <<seen, releases>>

\* A poll without its timeout.
WaitsForever(h) == FALSE

\* The kubeconfig secret did not show up within five minutes.
WaitTimesOut(h) == Return(h, "waiting")

\* The writer returns: the websocket was closed, the pod went away, or the
\* terminal could not be set up.
SessionEnds(h) == Return(h, "writing")

\* The cleaning goroutine deletes every key, counted connections included.
ReleaseMemory ==
    /\ releases < MaxReleases
    /\ releases' = releases + 1
    /\ active' = [k \in Keys |-> 0]
    /\ UNCHANGED <<seen, pc>>

Handle(h) ==
    \/ Connect(h) \/ GetActiveConnections(h) \/ Reject(h) \/ Admit(h)
    \/ IncreaseActiveConnections(h) \/ SecretFound(h)
    \/ WaitTimesOut(h) \/ SessionEnds(h)

PoolNext == ReleaseMemory \/ \E h \in Handlers : Handle(h)

\* The comparison and the counting are straight-line code and WaitFor has a
\* timeout.  Nobody is obliged to open a connection, or to end a session.
Fairness ==
    \A h \in Handlers :
        /\ WF_poolVars(GetActiveConnections(h))
        /\ WF_poolVars(Reject(h)) /\ WF_poolVars(Admit(h))
        /\ WF_poolVars(IncreaseActiveConnections(h))
        /\ WF_poolVars(WaitTimesOut(h))

PoolSpec == PoolInit /\ [][PoolNext]_poolVars
FairPoolSpec == PoolSpec /\ Fairness

-----------------------------------------------------------------------------
\* The handlers that occupy a place: counted and not yet returned.
Occupying(k) == {h \in Handlers : keyOf[h] = k /\ pc[h] \in {"waiting", "writing"}}

\* The handlers between the comparison and the increase.
InWindow(k) == {h \in Handlers : keyOf[h] = k /\ pc[h] = "admitted"}

PoolTypeOK ==
    /\ active \in [Keys -> Nat]
    /\ seen \in [Handlers -> Nat]
    /\ pc \in [Handlers -> Locations]
    /\ releases \in 0 .. MaxReleases

\* The pool never counts a connection that is not there: a leaked count
\* would lock the user out until the next release.  The floor at zero in
\* decreaseActiveConnections and the release must not break it.
NoPhantomConnections ==
    \A k \in Keys : active[k] <= Cardinality(Occupying(k))

\* Until the first release the count is exact: every increase is paired
\* with one deferred decrease, and rejected handlers are not counted.
ExactUntilReleased ==
    releases = 0 => \A k \in Keys : active[k] = Cardinality(Occupying(k))

\* Without a release, a key is over its limit only by handlers that shared
\* the window between getActiveConnections and increaseActiveConnections:
\* a handler alone in that window never takes a place beyond the limit.
OverLimitOnlyByRace ==
    [][\A h \in Handlers :
         LET k == keyOf[h]
         IN  (/\ IncreaseActiveConnections(h)
              /\ releases = 0
              /\ seen[h] = active[k]) =>
                Cardinality(Occupying(k)') <= maxNumberOfConnections]_poolVars

\* The documented limit: at most maxNumberOfConnections sessions of a user
\* on a cluster at any time.
AtMostMaxConnections ==
    \A k \in Keys : Cardinality(Occupying(k)) <= maxNumberOfConnections

\* A handler past the comparison has seen a count below the limit.
AdmittedBelowLimit ==
    \A h \in Handlers : pc[h] = "admitted" => seen[h] < maxNumberOfConnections

\* The inductive invariant behind the properties above.
PoolInv ==
    PoolTypeOK /\ AdmittedBelowLimit /\ NoPhantomConnections /\ ExactUntilReleased

\* A user is turned away only if, at the moment the count was read, the
\* user held at least the maximum.  Stated on the read: seen[h] was the
\* count, and the count was backed by open connections.
RejectedOnlyWhenFull ==
    [][\A h \in Handlers :
         (GetActiveConnections(h) /\ seen'[h] >= maxNumberOfConnections) =>
            Cardinality(Occupying(keyOf[h])) >= maxNumberOfConnections]_poolVars

\* What the admission of a handler has come to: decided by the count it read.
Status(h) ==
    CASE pc[h] = "idle" -> "out"
      [] pc[h] = "upgraded" -> "asking"
      [] pc[h] = "compare" -> IF seen[h] >= maxNumberOfConnections THEN "refused"
                                                                   ELSE "granted"
      [] pc[h] = "admitted" -> "granted"
      [] OTHER -> "open"

A == INSTANCE Admission
        WITH status <- [h \in Handlers |-> Status(h)],
             released <- IF releases = 0 THEN "no" ELSE "yes",
             Size <- Cardinality

\* The counting of the code implements Admission: the counter, its floor at
\* zero and the release of the map are invisible in who is let in and who is
\* turned away.
ImplementsAdmission == A!Spec

\* Every accepted websocket gets an answer: it is turned away, its session
\* starts, or it is closed because the secret never appeared.
EveryConnectionIsAnswered ==
    \A h \in Handlers : pc[h] = "upgraded" ~> pc[h] \in {"idle", "writing"}
=============================================================================
