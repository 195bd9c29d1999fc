---------------------- MODULE TerminalConnectionsProofs ----------------------
(***************************************************************************)
(* The connections of web terminals: the pool that counts them, for any    *)
(* number of handlers, any keys, any limit and any number of releases, and *)
(* the token that the open ones of a user share, for any number of         *)
(* connections, any durations and any bounds.                              *)
(***************************************************************************)
EXTENDS TerminalPool, TerminalSession, FiniteSetTheorems, TLAPS

(* The pool.                                                               *)

\* The occupied places of a key are a finite set.
LEMMA OccupyingFinite ==
    ASSUME NEW k
    PROVE  /\ IsFiniteSet(Occupying(k))
           /\ Cardinality(Occupying(k)) \in Nat
<1>1. Occupying(k) \in SUBSET Handlers
  BY DEF Occupying
<1>2. IsFiniteSet(Occupying(k))
  BY <1>1, PoolAssumption, FS_Subset
<1> QED
  BY <1>2, FS_CardinalityType

\* A handler that neither takes nor gives back a place leaves them all.
LEMMA OccupyingUnchanged ==
    ASSUME PoolTypeOK, NEW h \in Handlers, NEW l \in Locations,
           l \notin {"waiting", "writing"} <=> pc[h] \notin {"waiting", "writing"},
           pc' = [pc EXCEPT ![h] = l]
    PROVE  \A k : Occupying(k)' = Occupying(k)
  BY DEF PoolTypeOK, Occupying

\* increaseActiveConnections occupies one more place of its key.
LEMMA OccupyingAdds ==
    ASSUME PoolTypeOK, NEW h \in Handlers, Goto(h, "admitted", "waiting")
    PROVE  /\ Cardinality(Occupying(keyOf[h])') = Cardinality(Occupying(keyOf[h])) + 1
           /\ \A k : k # keyOf[h] => Occupying(k)' = Occupying(k)
<1>1. /\ h \notin Occupying(keyOf[h])
      /\ Occupying(keyOf[h])' = Occupying(keyOf[h]) \cup {h}
  BY DEF PoolTypeOK, Goto, Occupying, Locations
<1>2. Cardinality(Occupying(keyOf[h])') = Cardinality(Occupying(keyOf[h])) + 1
  BY <1>1, OccupyingFinite, FS_AddElement
<1>3. \A k : k # keyOf[h] => Occupying(k)' = Occupying(k)
  BY DEF PoolTypeOK, Goto, Occupying, Locations
<1> QED
  BY <1>2, <1>3

\* A returning handler gives back one place of its key.
LEMMA OccupyingRemoves ==
    ASSUME PoolTypeOK, NEW h \in Handlers, NEW from \in {"waiting", "writing"},
           Goto(h, from, "idle")
    PROVE  /\ Cardinality(Occupying(keyOf[h])') = Cardinality(Occupying(keyOf[h])) - 1
           /\ \A k : k # keyOf[h] => Occupying(k)' = Occupying(k)
<1>1. /\ h \in Occupying(keyOf[h])
      /\ Occupying(keyOf[h])' = Occupying(keyOf[h]) \ {h}
  BY DEF PoolTypeOK, Goto, Occupying, Locations
<1>2. Cardinality(Occupying(keyOf[h])') = Cardinality(Occupying(keyOf[h])) - 1
  BY <1>1, OccupyingFinite, FS_RemoveElement
<1>3. \A k : k # keyOf[h] => Occupying(k)' = Occupying(k)
  BY DEF PoolTypeOK, Goto, Occupying, Locations
<1> QED
  BY <1>2, <1>3

\* The pool starts empty.
LEMMA PoolInvInit == PoolInit => PoolInv
<1> SUFFICES ASSUME PoolInit PROVE PoolInv
  OBVIOUS
<1>1. PoolTypeOK /\ AdmittedBelowLimit
  BY PoolAssumption DEF PoolInit, PoolTypeOK, AdmittedBelowLimit, Locations
<1>2. \A k \in Keys : active[k] = Cardinality(Occupying(k))
  <2> TAKE k \in Keys
  <2>1. Occupying(k) = {}
    BY DEF PoolInit, Occupying
  <2> QED
    BY <2>1, FS_EmptySet DEF PoolInit
<1> QED
  BY <1>1, <1>2, OccupyingFinite
     DEF PoolInv, NoPhantomConnections, ExactUntilReleased, PoolTypeOK

\* A step that only moves a handler between places that are not occupied,
\* or within an occupied one, keeps the counts right.
LEMMA CountsKept ==
    ASSUME PoolInv, active' = active, releases' = releases,
           \A k : Occupying(k)' = Occupying(k)
    PROVE  (NoPhantomConnections /\ ExactUntilReleased)'
  BY DEF PoolInv, NoPhantomConnections, ExactUntilReleased

\* Every step of a handler or of the cleaning goroutine keeps the invariant.
LEMMA PoolInvNext == PoolInv /\ [PoolNext]_poolVars => PoolInv'
<1> SUFFICES ASSUME PoolInv, [PoolNext]_poolVars PROVE PoolInv'
  OBVIOUS
<1> USE PoolAssumption
<1>t. PoolTypeOK /\ AdmittedBelowLimit
  BY DEF PoolInv
<1>1. ASSUME NEW h \in Handlers, Connect(h) PROVE PoolInv'
  <2>1. (PoolTypeOK /\ AdmittedBelowLimit)'
    BY <1>1, <1>t DEF Connect, Goto, PoolTypeOK, AdmittedBelowLimit, Locations
  <2>2. \A k : Occupying(k)' = Occupying(k)
    BY <1>1, <1>t, OccupyingUnchanged DEF Connect, Goto, Locations
  <2> QED
    BY <1>1, <2>1, <2>2, CountsKept DEF Connect, PoolInv
<1>2. ASSUME NEW h \in Handlers, GetActiveConnections(h) PROVE PoolInv'
  <2>1. (PoolTypeOK /\ AdmittedBelowLimit)'
    BY <1>2, <1>t DEF GetActiveConnections, Goto, PoolTypeOK, AdmittedBelowLimit, Locations
  <2>2. \A k : Occupying(k)' = Occupying(k)
    BY <1>2, <1>t, OccupyingUnchanged DEF GetActiveConnections, Goto, Locations
  <2> QED
    BY <1>2, <2>1, <2>2, CountsKept DEF GetActiveConnections, PoolInv
<1>3. ASSUME NEW h \in Handlers, Reject(h) PROVE PoolInv'
  <2>1. (PoolTypeOK /\ AdmittedBelowLimit)'
    BY <1>3, <1>t DEF Reject, Goto, PoolTypeOK, AdmittedBelowLimit, Locations
  <2>2. \A k : Occupying(k)' = Occupying(k)
    BY <1>3, <1>t, OccupyingUnchanged DEF Reject, Goto, Locations
  <2> QED
    BY <1>3, <2>1, <2>2, CountsKept DEF Reject, PoolInv
<1>4. ASSUME NEW h \in Handlers, Admit(h) PROVE PoolInv'
  <2>1. (PoolTypeOK /\ AdmittedBelowLimit)'
    BY <1>4, <1>t DEF Admit, Goto, PoolTypeOK, AdmittedBelowLimit, Locations
  <2>2. \A k : Occupying(k)' = Occupying(k)
    BY <1>4, <1>t, OccupyingUnchanged DEF Admit, Goto, Locations
  <2> QED
    BY <1>4, <2>1, <2>2, CountsKept DEF Admit, PoolInv
<1>5. ASSUME NEW h \in Handlers, IncreaseActiveConnections(h) PROVE PoolInv'
  <2>1. (PoolTypeOK /\ AdmittedBelowLimit)'
    BY <1>5, <1>t
       DEF IncreaseActiveConnections, Goto, PoolTypeOK, AdmittedBelowLimit, Locations
  <2>2. /\ Cardinality(Occupying(keyOf[h])') = Cardinality(Occupying(keyOf[h])) + 1
        /\ \A k : k # keyOf[h] => Occupying(k)' = Occupying(k)
    BY <1>5, <1>t, OccupyingAdds DEF IncreaseActiveConnections
  <2>3. ASSUME NEW k \in Keys
        PROVE  /\ active'[k] <= Cardinality(Occupying(k)')
               /\ releases' = 0 => active'[k] = Cardinality(Occupying(k)')
    <3>1. active'[k] = IF k = keyOf[h] THEN active[k] + 1 ELSE active[k]
      BY <1>5, <1>t DEF IncreaseActiveConnections, PoolTypeOK
    <3>2. /\ active[k] \in Nat
          /\ active[k] <= Cardinality(Occupying(k))
          /\ releases = 0 => active[k] = Cardinality(Occupying(k))
      BY DEF PoolInv, PoolTypeOK, NoPhantomConnections, ExactUntilReleased
    <3>3. Cardinality(Occupying(k)) \in Nat /\ releases' = releases
      BY <1>5, OccupyingFinite DEF IncreaseActiveConnections
    <3> QED
      BY <2>2, <3>1, <3>2, <3>3
  <2> QED
    BY <2>1, <2>3 DEF PoolInv, NoPhantomConnections, ExactUntilReleased
<1>6. ASSUME NEW h \in Handlers, SecretFound(h) PROVE PoolInv'
  <2>1. (PoolTypeOK /\ AdmittedBelowLimit)'
    BY <1>6, <1>t DEF SecretFound, Goto, PoolTypeOK, AdmittedBelowLimit, Locations
  <2>2. \A k : Occupying(k)' = Occupying(k)
    BY <1>6, <1>t, OccupyingUnchanged DEF SecretFound, Goto, Locations
  <2> QED
    BY <1>6, <2>1, <2>2, CountsKept DEF SecretFound, PoolInv
<1>7. ASSUME NEW h \in Handlers, NEW from \in {"waiting", "writing"}, Return(h, from)
      PROVE  PoolInv'
  <2>1. (PoolTypeOK /\ AdmittedBelowLimit)'
    BY <1>7, <1>t
       DEF Return, Goto, PoolTypeOK, AdmittedBelowLimit, Locations, Decreased
  <2>2. /\ Cardinality(Occupying(keyOf[h])') = Cardinality(Occupying(keyOf[h])) - 1
        /\ \A k : k # keyOf[h] => Occupying(k)' = Occupying(k)
    BY <1>7, <1>t, OccupyingRemoves DEF Return
  <2>3. ASSUME NEW k \in Keys
        PROVE  /\ active'[k] <= Cardinality(Occupying(k)')
               /\ releases' = 0 => active'[k] = Cardinality(Occupying(k)')
    <3>1. active'[k] = IF k = keyOf[h] THEN Decreased(active[k]) ELSE active[k]
      BY <1>7, <1>t DEF Return, PoolTypeOK
    <3>2. /\ active[k] \in Nat
          /\ active[k] <= Cardinality(Occupying(k))
          /\ releases = 0 => active[k] = Cardinality(Occupying(k))
      BY DEF PoolInv, PoolTypeOK, NoPhantomConnections, ExactUntilReleased
    <3>3. /\ Cardinality(Occupying(k)) \in Nat
          /\ Cardinality(Occupying(k)') \in Nat
          /\ releases' = releases
      <4>1. IsFiniteSet(Occupying(k)')
        <5>1. Occupying(k)' \in SUBSET Handlers
          BY DEF Occupying
        <5> QED
          BY <5>1, FS_Subset
      <4> QED
        BY <1>7, <4>1, OccupyingFinite, FS_CardinalityType DEF Return
    <3> QED
      BY <2>2, <3>1, <3>2, <3>3 DEF Decreased
  <2> QED
    BY <2>1, <2>3 DEF PoolInv, NoPhantomConnections, ExactUntilReleased
<1>8. ASSUME ReleaseMemory PROVE PoolInv'
  <2>1. (PoolTypeOK /\ AdmittedBelowLimit)'
    BY <1>8, <1>t DEF ReleaseMemory, PoolTypeOK, AdmittedBelowLimit
  <2>2. \A k : Occupying(k)' = Occupying(k)
    BY <1>8 DEF ReleaseMemory, Occupying
  <2>3. NoPhantomConnections'
    BY <1>8, <2>2, OccupyingFinite DEF ReleaseMemory, NoPhantomConnections
  <2>4. releases' # 0
    BY <1>8, <1>t DEF ReleaseMemory, PoolTypeOK
  <2> QED
    BY <2>1, <2>3, <2>4 DEF PoolInv, ExactUntilReleased
<1>9. CASE UNCHANGED poolVars
  <2>1. \A k : Occupying(k)' = Occupying(k)
    BY <1>9 DEF poolVars, Occupying
  <2>2. (PoolTypeOK /\ AdmittedBelowLimit)'
    BY <1>9, <1>t DEF poolVars, PoolTypeOK, AdmittedBelowLimit
  <2> QED
    BY <1>9, <2>1, <2>2, CountsKept DEF poolVars, PoolInv
<1> QED
  BY <1>1, <1>2, <1>3, <1>4, <1>5, <1>6, <1>7, <1>8, <1>9
     DEF PoolNext, Handle, WaitTimesOut, SessionEnds

\* The pool's invariant: counts never exceed the connections that are
\* there, and are exact until the map is first emptied.
THEOREM PoolInvariant == PoolSpec => []PoolInv
  BY PoolInvInit, PoolInvNext, PTL DEF PoolSpec

\* The pool stays well typed; the counts never go below zero.
THEOREM PoolTypeCorrect == PoolSpec => []PoolTypeOK
<1>1. PoolInv => PoolTypeOK
  BY DEF PoolInv
<1> QED
  BY <1>1, PoolInvariant, PTL

\* No connection is counted that is not there, whatever the interleaving
\* of handlers with each other and with releaseMemory.
THEOREM PoolNoPhantoms == PoolSpec => []NoPhantomConnections
<1>1. PoolInv => NoPhantomConnections
  BY DEF PoolInv
<1> QED
  BY <1>1, PoolInvariant, PTL

\* Until the first release the count is the number of open connections.
THEOREM PoolExact == PoolSpec => []ExactUntilReleased
<1>1. PoolInv => ExactUntilReleased
  BY DEF PoolInv
<1> QED
  BY <1>1, PoolInvariant, PTL

\* A handler whose count was still right when it counted itself does not
\* push its key over the limit.
THEOREM PoolOverLimitOnlyByRace == PoolSpec => OverLimitOnlyByRace
<1>1. ASSUME PoolInv, NEW h \in Handlers, IncreaseActiveConnections(h),
             releases = 0, seen[h] = active[keyOf[h]]
      PROVE  Cardinality(Occupying(keyOf[h])') <= maxNumberOfConnections
  <2>1. Cardinality(Occupying(keyOf[h])') = Cardinality(Occupying(keyOf[h])) + 1
    BY <1>1, OccupyingAdds DEF IncreaseActiveConnections, PoolInv
  <2>2. Cardinality(Occupying(keyOf[h])) = seen[h]
    BY <1>1, PoolAssumption DEF PoolInv, ExactUntilReleased
  <2>3. seen[h] < maxNumberOfConnections /\ seen[h] \in Nat
    BY <1>1 DEF PoolInv, PoolTypeOK, AdmittedBelowLimit, IncreaseActiveConnections, Goto
  <2> QED
    BY <2>1, <2>2, <2>3, PoolAssumption
<1>2. PoolInv /\ [PoolNext]_poolVars =>
        [\A h \in Handlers :
           LET k == keyOf[h]
           IN  (/\ IncreaseActiveConnections(h)
                /\ releases = 0
                /\ seen[h] = active[k]) =>
                  Cardinality(Occupying(k)') <= maxNumberOfConnections]_poolVars
  BY <1>1
<1> QED
  BY <1>2, PoolInvariant, PTL DEF PoolSpec, OverLimitOnlyByRace

\* ConnectionPoolExceeded is sent only to users that held the maximum
\* number of connections when the handler looked.
THEOREM PoolRejectedOnlyWhenFull == PoolSpec => RejectedOnlyWhenFull
<1>1. ASSUME PoolInv, NEW h \in Handlers, GetActiveConnections(h),
             seen'[h] >= maxNumberOfConnections
      PROVE  Cardinality(Occupying(keyOf[h])) >= maxNumberOfConnections
  <2>1. seen'[h] = active[keyOf[h]] /\ active[keyOf[h]] \in Nat
    BY <1>1, PoolAssumption DEF GetActiveConnections, PoolInv, PoolTypeOK
  <2>2. active[keyOf[h]] <= Cardinality(Occupying(keyOf[h]))
    BY <1>1, PoolAssumption DEF PoolInv, NoPhantomConnections
  <2> QED
    BY <1>1, <2>1, <2>2, OccupyingFinite, PoolAssumption
<1>2. PoolInv /\ [PoolNext]_poolVars =>
        [\A h \in Handlers :
           (GetActiveConnections(h) /\ seen'[h] >= maxNumberOfConnections) =>
              Cardinality(Occupying(keyOf[h])) >= maxNumberOfConnections]_poolVars
  BY <1>1
<1> QED
  BY <1>2, PoolInvariant, PTL DEF PoolSpec, RejectedOnlyWhenFull

-----------------------------------------------------------------------------
(* The refinement of Admission.                                            *)

\* The open connections of Admission are the occupied places of the pool.
LEMMA OpenIsOccupying ==
    ASSUME PoolTypeOK, NEW k
    PROVE  A!Open(k) = Occupying(k)
  BY DEF PoolTypeOK, A!Open, Occupying, Status, Locations

\* A handler's step moves its own status.
LEMMA StatusMoves ==
    ASSUME PoolTypeOK, PoolTypeOK', NEW h \in Handlers,
           \A g \in Handlers : g # h => pc'[g] = pc[g] /\ seen'[g] = seen[g]
    PROVE  [g \in Handlers |-> Status(g)]'
             = [[g \in Handlers |-> Status(g)] EXCEPT ![h] = Status(h)']
  BY DEF Status

\* Every step of the pool is a step of Admission, or changes nothing there.
LEMMA AdmissionStep == PoolInv /\ PoolInv' /\ [PoolNext]_poolVars => [A!Next]_A!vars
<1> SUFFICES ASSUME PoolInv, PoolInv', [PoolNext]_poolVars
             PROVE  [A!Next]_A!vars
  OBVIOUS
<1> DEFINE status == [h \in Handlers |-> Status(h)]
           released == IF releases = 0 THEN "no" ELSE "yes"
<1>t. PoolTypeOK /\ PoolTypeOK'
  BY DEF PoolInv
<1>1. CASE ReleaseMemory
  <2>1. status' = status /\ released' = "yes"
    BY <1>1, <1>t DEF ReleaseMemory, Status, PoolTypeOK
  <2> QED
    BY <2>1 DEF A!Next, A!Release
<1>2. CASE UNCHANGED poolVars
  <2>1. status' = status /\ released' = released
    BY <1>2 DEF poolVars, Status
  <2> QED
    BY <2>1 DEF A!vars
<1>3. ASSUME NEW h \in Handlers, Handle(h)
      PROVE  [A!Next]_A!vars
  <2>1. /\ \A g \in Handlers : g # h => pc'[g] = pc[g] /\ seen'[g] = seen[g]
        /\ releases' = releases
    BY <1>3, <1>t DEF Handle, Connect, GetActiveConnections, Reject, Admit,
       IncreaseActiveConnections, SecretFound, WaitTimesOut, SessionEnds, Return, Goto, PoolTypeOK
  <2>2. status' = [status EXCEPT ![h] = Status(h)']
    BY <2>1, <1>t, StatusMoves
  <2>3. released' = released
    BY <2>1
  <2>4. status[h] = Status(h)
    OBVIOUS
  <2>5. CASE Connect(h)
    <3>1. Status(h) = "out" /\ Status(h)' = "asking"
      BY <2>5, <1>t DEF Connect, Goto, Status, PoolTypeOK
    <3> QED
      BY <2>2, <2>3, <2>4, <3>1 DEF A!Next, A!Ask, A!Becomes
  <2>6. CASE GetActiveConnections(h)
    <3> DEFINE k == keyOf[h]
    <3>1. /\ Status(h) = "asking" /\ k \in Keys
          /\ Status(h)' = IF active[k] >= maxNumberOfConnections THEN "refused" ELSE "granted"
      BY <2>6, <1>t, PoolAssumption DEF GetActiveConnections, Goto, Status, PoolTypeOK
    <3>2. /\ A!Open(k) = Occupying(k) /\ Cardinality(Occupying(k)) \in Nat
          /\ active[k] \in Nat
      BY <1>t, <3>1, OpenIsOccupying, OccupyingFinite DEF PoolTypeOK
    <3>3. /\ active[k] <= Cardinality(Occupying(k))
          /\ releases = 0 => active[k] = Cardinality(Occupying(k))
      BY <3>1 DEF PoolInv, NoPhantomConnections, ExactUntilReleased
    <3>4. CASE active[k] >= maxNumberOfConnections
      <4>1. Cardinality(A!Open(k)) >= maxNumberOfConnections
        BY <3>2, <3>3, <3>4, PoolAssumption
      <4>2. Status(h)' = "refused"
        BY <3>1, <3>4
      <4>3. A!Becomes(h, "asking", "refused")
        BY <2>2, <2>4, <3>1, <4>2 DEF A!Becomes
      <4>4. A!Refuse(h)
        BY <2>3, <4>1, <4>3 DEF A!Refuse
      <4> QED
        BY <4>4 DEF A!Next
    <3>5. CASE ~(active[k] >= maxNumberOfConnections)
      <4>1. released = "yes" \/ Cardinality(A!Open(k)) < maxNumberOfConnections
        BY <3>2, <3>3, <3>5, PoolAssumption
      <4>2. Status(h)' = "granted"
        BY <3>1, <3>5
      <4>3. A!Becomes(h, "asking", "granted")
        BY <2>2, <2>4, <3>1, <4>2 DEF A!Becomes
      <4>4. A!Grant(h)
        BY <2>3, <4>1, <4>3 DEF A!Grant
      <4> QED
        BY <4>4 DEF A!Next
    <3> QED
      BY <3>4, <3>5
  <2>7. CASE Reject(h)
    <3>1. Status(h) = "refused" /\ Status(h)' = "out"
      BY <2>7, <1>t DEF Reject, Goto, Status, PoolTypeOK
    <3> QED
      BY <2>2, <2>3, <2>4, <3>1 DEF A!Next, A!Leave, A!Becomes
  <2>8. CASE Admit(h)
    <3>1. Status(h)' = Status(h)
      BY <2>8, <1>t, PoolAssumption DEF Admit, Goto, Status, PoolTypeOK
    <3> QED
      BY <2>2, <2>3, <2>4, <3>1 DEF A!vars
  <2>9. CASE IncreaseActiveConnections(h)
    <3>1. Status(h) = "granted" /\ Status(h)' = "open"
      BY <2>9, <1>t DEF IncreaseActiveConnections, Goto, Status, PoolTypeOK
    <3> QED
      BY <2>2, <2>3, <2>4, <3>1 DEF A!Next, A!Enter, A!Becomes
  <2>10. CASE SecretFound(h)
    <3>1. Status(h)' = Status(h)
      BY <2>10, <1>t DEF SecretFound, Goto, Status, PoolTypeOK
    <3> QED
      BY <2>2, <2>3, <2>4, <3>1 DEF A!vars
  <2>11. CASE WaitTimesOut(h) \/ SessionEnds(h)
    <3>1. Status(h) = "open" /\ Status(h)' = "out"
      BY <2>11, <1>t DEF WaitTimesOut, SessionEnds, Return, Goto, Status, PoolTypeOK
    <3> QED
      BY <2>2, <2>3, <2>4, <3>1 DEF A!Next, A!Leave, A!Becomes
  <2> QED
    BY <1>3, <2>5, <2>6, <2>7, <2>8, <2>9, <2>10, <2>11 DEF Handle
<1> QED
  BY <1>1, <1>2, <1>3 DEF PoolNext

\* The pool implements Admission, for any number of handlers: nobody is
\* turned away below the limit, and nobody is let in above it by a decision
\* made while the count was not yet released.
THEOREM PoolImplementsAdmission == PoolSpec => ImplementsAdmission
<1>1. PoolInit => A!Init
  BY DEF PoolInit, A!Init, Status
<1>2. PoolInv /\ PoolInv' /\ [PoolNext]_poolVars => [A!Next]_A!vars
  BY AdmissionStep
<1> QED
  BY <1>1, <1>2, PoolInvariant, PTL DEF PoolSpec, ImplementsAdmission, A!Spec

-----------------------------------------------------------------------------
(* The token.                                                              *)

\* The sleeps of the token routine stay within Longest.
LEMMA SleepBounds ==
    ASSUME NEW u \in Int, u <= TokenLife
    PROVE  /\ ValidSleep(u) \in 0 .. Longest
           /\ retry \in 0 .. Longest /\ minute \in 0 .. Longest
           /\ u \in 1 .. minute => minute + u \in 0 .. Longest
BY SessionAssumption DEF ValidSleep, Longest, Max2

\* Every failure of a refresh keeps the types and gives up the step.
LEMMA FailureTypes ==
    ASSUME TypeOK, NEW s \in Sessions, copy[s] # NoToken, onFailedUpdatingToken(s)
    PROVE  /\ token' = [token EXCEPT ![s] = "get"] /\ copy' = [copy EXCEPT ![s] = NoToken]
           /\ wait' \in [Sessions -> 0 .. Longest]
           /\ told' \in [Sessions -> {"nothing", "missing", "expired", "valid"}]
<1>1. ttl[copy[s]] \in Int /\ ttl[copy[s]] <= TokenLife
    BY SessionAssumption DEF TypeOK, Tokens, Forgotten, NoToken
<1>2. /\ retry \in 0 .. Longest /\ minute \in 0 .. Longest
      /\ ttl[copy[s]] \in 1 .. minute => minute + ttl[copy[s]] \in 0 .. Longest
    BY <1>1, SleepBounds
<1>3. CASE ttl[copy[s]] <= 0
    BY <1>2, <1>3 DEF onFailedUpdatingToken, SleepFor, SendMessage, TypeOK
<1>4. CASE ttl[copy[s]] > 0
    BY <1>1, <1>2, <1>4, SessionAssumption DEF onFailedUpdatingToken, SleepFor, TypeOK
<1> QED BY <1>1, <1>3, <1>4

\* Issuing a token keeps the types.
LEMMA IssueTypes ==
    ASSUME TypeOK, Issue
    PROVE  /\ current' \in Tokens /\ current' = current + 1 /\ current + 1 \in Tokens
           /\ ttl' \in [Tokens -> Forgotten .. TokenLife] /\ displaced' = displaced
BY SessionAssumption DEF TypeOK, Issue, Tokens, NoToken, Forgotten

\* The tokens of a well-typed state are numbers.
LEMMA TokenNumbers ==
    ASSUME TypeOK
    PROVE  /\ secret \in Nat /\ current \in Nat /\ displaced \in Nat /\ lost \in Nat
           /\ \A s \in Sessions : copy[s] \in Nat /\ got[s] \in Nat
           /\ \A t \in Tokens : t \in Nat /\ t # NoToken
<1>1. \A t \in Tokens : t \in Nat /\ t # NoToken
    BY SessionAssumption DEF Tokens, NoToken
<1>2. Tokens \cup {NoToken} \subseteq Nat
    BY <1>1 DEF NoToken
<1>3. secret \in Nat /\ current \in Nat /\ displaced \in Nat /\ lost \in Nat
    BY <1>2 DEF TypeOK
<1>4. \A s \in Sessions : copy[s] \in Nat /\ got[s] \in Nat
    BY <1>2 DEF TypeOK
<1> QED BY <1>1, <1>3, <1>4

\* The token that is lost is the current one.
LEMMA LoseFacts ==
    ASSUME TypeOK, NEW t \in Tokens \cup {NoToken}, Lose(t)
    PROVE  /\ lost' \in Tokens \cup {NoToken}
           /\ lost = current \/ t = current => lost' = current
BY DEF TypeOK, Lose

\* The newest token that was ever stored.
Newest == Max2(secret, displaced)

\* What is stored in place of the secret, or its deletion.
LEMMA StoreFacts ==
    ASSUME TypeOK, TokensInOrder, NEW t \in Tokens \cup {NoToken}, t <= current, Stores(t)
    PROVE  /\ secret' = t /\ displaced' \in Tokens \cup {NoToken} /\ displaced' <= current
           /\ displaced' # NoToken => t < displaced'
           /\ Newest <= Newest' /\ t <= Newest'
           /\ current \in {secret, displaced} => current \in {t, displaced'}
<1>1. t \in Nat
    BY SessionAssumption DEF Tokens, NoToken
<1> QED BY <1>1, TokenNumbers DEF TypeOK, TokensInOrder, Stores, Max2, Newest, Tokens, NoToken

\* The invariant holds before the first login.
LEMMA InitInv == Init => SessionInv
<1> SUFFICES ASSUME Init PROVE SessionInv
    OBVIOUS
<1>1. TypeOK
    BY SessionAssumption DEF Init, TypeOK, Tokens, NoToken, Forgotten, Longest, Max2
<1>2. TokensInOrder /\ StoredTokenIsCurrent
    BY DEF Init, TokensInOrder, StoredTokenIsCurrent, LoggingIn, NoToken
<1> QED BY <1>1, <1>2 DEF SessionInv

-----------------------------------------------------------------------------
(* One lemma per kind of step.                                             *)

\* Get, with or without success: no token changes hands but into copy.
LEMMA GetStep ==
    ASSUME SessionInv, NEW s \in Sessions, GetSecret(s) \/ GetSecretFails(s)
    PROVE  SessionInv'
<1> USE DEF SessionInv
<1>0. token[s] = "get" /\ UNCHANGED <<conn, got, secret, ttl, current, lost, displaced, login>>
    BY DEF GetSecret, GetSecretFails, At, issuer
<1>1. faults' \in 0 .. MaxFaults
    BY SessionAssumption DEF TypeOK, GetSecret, GetSecretFails
<1>2. StoredTokenIsCurrent'
    BY <1>0 DEF StoredTokenIsCurrent, LoggingIn
<1>3. CASE /\ token' = [token EXCEPT ![s] = "get"] /\ copy' = [copy EXCEPT ![s] = NoToken]
           /\ wait' \in [Sessions -> 0 .. Longest]
           /\ told' \in [Sessions -> {"nothing", "missing", "expired", "valid"}]
    <2>1. TypeOK'
        BY <1>0, <1>1, <1>3 DEF TypeOK
    <2>2. TokensInOrder'
        BY <1>0, <1>3, TokenNumbers DEF TypeOK, TokensInOrder, LoggingIn, NoToken
    <2> QED BY <1>2, <2>1, <2>2
<1>4. CASE Missing(s)
    <2>1. retry \in 0 .. Longest
        BY SleepBounds, SessionAssumption
    <2> QED BY <1>3, <1>4, <2>1 DEF TypeOK, Missing, SendMessage, SleepFor
<1>5. CASE secret # NoToken /\ TokenIsValid(s, secret)
    <2>1. ttl[secret] \in Int /\ ttl[secret] <= TokenLife
        BY <1>5, SessionAssumption DEF TypeOK, Tokens, NoToken, Forgotten
    <2>2. ValidSleep(ttl[secret]) \in 0 .. Longest
        BY <2>1, SleepBounds
    <2> QED BY <1>3, <1>5, <2>2 DEF TypeOK, TokenIsValid, SendMessage, SleepFor
<1>6. CASE /\ secret # NoToken /\ copy' = [copy EXCEPT ![s] = secret]
           /\ token' = [token EXCEPT ![s] = "refresh"] /\ UNCHANGED <<wait, told>>
    <2>1. TypeOK'
        BY <1>0, <1>1, <1>6 DEF TypeOK
    <2>2. TokensInOrder'
        BY <1>0, <1>6, TokenNumbers DEF TypeOK, TokensInOrder, LoggingIn, NoToken
    <2> QED BY <1>2, <2>1, <2>2
<1> QED BY <1>4, <1>5, <1>6 DEF GetSecret, GetSecretFails

\* A refresh: its token is the current one from then on.
LEMMA RefreshStep ==
    ASSUME SessionInv, NEW s \in Sessions, RefreshAccessToken(s) \/ RefreshFails(s)
    PROVE  SessionInv'
<1> USE DEF SessionInv
<1>0. /\ token[s] = "refresh" /\ copy[s] # NoToken /\ got[s] = NoToken
      /\ UNCHANGED <<conn, secret, login>>
    BY DEF RefreshAccessToken, RefreshFails, At, TokensInOrder
<1>1. faults' \in 0 .. MaxFaults
    BY SessionAssumption DEF TypeOK, RefreshAccessToken, RefreshFails
<1>2. CASE onFailedUpdatingToken(s) /\ UNCHANGED <<got, issuer>>
    <2>1. /\ token' = [token EXCEPT ![s] = "get"] /\ copy' = [copy EXCEPT ![s] = NoToken]
          /\ wait' \in [Sessions -> 0 .. Longest]
          /\ told' \in [Sessions -> {"nothing", "missing", "expired", "valid"}]
        BY <1>0, <1>2, FailureTypes
    <2>2. TypeOK'
        BY <1>0, <1>1, <1>2, <2>1 DEF TypeOK, issuer
    <2>3. TokensInOrder'
        BY <1>0, <1>2, <2>1, TokenNumbers DEF TypeOK, TokensInOrder, LoggingIn, NoToken, issuer
    <2>4. StoredTokenIsCurrent'
        BY <1>0, <1>2 DEF StoredTokenIsCurrent, LoggingIn, issuer
    <2> QED BY <2>2, <2>3, <2>4
<1>3. CASE Issue /\ ~Refuses(copy[s])
    <2>1. current' \in Tokens /\ current' = current + 1 /\ copy[s] = current
          /\ ttl' \in [Tokens -> Forgotten .. TokenLife] /\ displaced' = displaced
        BY <1>3, IssueTypes DEF Refuses
    <2>2. CASE /\ got' = [got EXCEPT ![s] = current'] /\ lost' = NoToken
               /\ token' = [token EXCEPT ![s] = "update"]
               /\ UNCHANGED <<wait, copy, told>> /\ conn[s] # "closed"
        <3>1. TypeOK'
            BY <1>0, <1>1, <2>1, <2>2 DEF TypeOK
        <3>2. ASSUME NEW q \in Sessions
              PROVE  /\ copy'[q] <= current' /\ got'[q] <= current'
                     /\ token'[q] \in {"refresh", "update"} <=> copy'[q] # NoToken
                     /\ token'[q] = "update" => copy'[q] < got'[q]
                     /\ token'[q] # "update" => got'[q] = NoToken
                     /\ conn'[q] = "new" => token'[q] = "off"
                     /\ conn'[q] = "closed" /\ got'[q] = current' => lost' = current'
            BY <1>0, <2>1, <2>2, <3>2, TokenNumbers DEF TypeOK, TokensInOrder, NoToken
        <3>3. /\ secret' <= current' /\ displaced' <= current'
              /\ displaced' # NoToken => secret' < displaced'
              /\ \A t \in LoggingIn' : t <= current'
            BY <1>0, <2>1, TokenNumbers DEF TokensInOrder, LoggingIn
        <3>4. StoredTokenIsCurrent'
            BY <2>2 DEF TypeOK, StoredTokenIsCurrent
        <3> QED BY <3>1, <3>2, <3>3, <3>4 DEF TokensInOrder
    <2>3. CASE onFailedUpdatingToken(s) /\ lost' = current' /\ UNCHANGED got
        <3>0. /\ token' = [token EXCEPT ![s] = "get"] /\ copy' = [copy EXCEPT ![s] = NoToken]
              /\ wait' \in [Sessions -> 0 .. Longest]
              /\ told' \in [Sessions -> {"nothing", "missing", "expired", "valid"}]
            BY <1>0, <2>3, FailureTypes
        <3>1. TypeOK'
            BY <1>0, <1>1, <2>1, <2>3, <3>0 DEF TypeOK
        <3>2. ASSUME NEW q \in Sessions
              PROVE  /\ copy'[q] <= current' /\ got'[q] <= current'
                     /\ token'[q] \in {"refresh", "update"} <=> copy'[q] # NoToken
                     /\ token'[q] = "update" => copy'[q] < got'[q]
                     /\ token'[q] # "update" => got'[q] = NoToken
                     /\ conn'[q] = "new" => token'[q] = "off"
            BY <1>0, <2>1, <2>3, <3>0, <3>2, TokenNumbers DEF TypeOK, TokensInOrder, NoToken
        <3>3. /\ secret' <= current' /\ displaced' <= current'
              /\ displaced' # NoToken => secret' < displaced'
              /\ \A t \in LoggingIn' : t <= current'
            BY <1>0, <2>1, TokenNumbers DEF TokensInOrder, LoggingIn
        <3>4. StoredTokenIsCurrent'
            BY <2>3 DEF StoredTokenIsCurrent
        <3> QED BY <2>3, <3>1, <3>2, <3>3, <3>4 DEF TokensInOrder
    <2> QED BY <1>2, <1>3, <2>2, <2>3 DEF RefreshAccessToken, RefreshFails, Cancelled
<1> QED BY <1>2, <1>3 DEF RefreshAccessToken, RefreshFails

\* An update: it succeeds only on the secret that was read, whose token is
\* older than the one stored, so it is never written over a newer one.
LEMMA UpdateStep ==
    ASSUME SessionInv, NEW s \in Sessions, UpdateSecret(s) \/ UpdateFails(s)
    PROVE  SessionInv'
<1> USE DEF SessionInv
<1>0. /\ token[s] = "update" /\ copy[s] # NoToken /\ copy[s] < got[s]
      /\ got' = [got EXCEPT ![s] = NoToken]
      /\ UNCHANGED <<conn, ttl, current, login>>
    BY DEF UpdateSecret, UpdateFails, At, TokensInOrder
<1>1. faults' \in 0 .. MaxFaults
    BY SessionAssumption DEF TypeOK, UpdateSecret, UpdateFails
<1>2. got[s] \in Tokens /\ got[s] <= current
    BY <1>0 DEF TypeOK, TokensInOrder, Tokens, NoToken
<1>3. ASSUME /\ token' = [token EXCEPT ![s] = "get"] /\ copy' = [copy EXCEPT ![s] = NoToken]
             /\ lost = current => lost' = current
      PROVE  \A q \in Sessions :
               /\ copy'[q] <= current' /\ got'[q] <= current'
               /\ token'[q] \in {"refresh", "update"} <=> copy'[q] # NoToken
               /\ token'[q] = "update" => copy'[q] < got'[q]
               /\ token'[q] # "update" => got'[q] = NoToken
               /\ conn'[q] = "new" => token'[q] = "off"
               /\ conn'[q] = "closed" /\ got'[q] = current' => lost' = current'
    <2> SUFFICES ASSUME NEW q \in Sessions
                 PROVE  /\ copy'[q] <= current' /\ got'[q] <= current'
                        /\ token'[q] \in {"refresh", "update"} <=> copy'[q] # NoToken
                        /\ token'[q] = "update" => copy'[q] < got'[q]
                        /\ token'[q] # "update" => got'[q] = NoToken
                        /\ conn'[q] = "new" => token'[q] = "off"
                        /\ conn'[q] = "closed" /\ got'[q] = current' => lost' = current'
        OBVIOUS
    <2>1. CASE q = s
        BY <1>0, <1>2, <1>3, <2>1, TokenNumbers DEF TypeOK, TokensInOrder, NoToken
    <2>2. CASE q # s
        BY <1>0, <1>3, <2>2 DEF TypeOK, TokensInOrder
    <2> QED BY <2>1, <2>2
<1>4. CASE Dropped(s)
    <2>1. onFailedUpdatingToken(s) /\ UNCHANGED <<secret, displaced>>
        BY <1>4 DEF Dropped
    <2>2. /\ token' = [token EXCEPT ![s] = "get"] /\ copy' = [copy EXCEPT ![s] = NoToken]
          /\ wait' \in [Sessions -> 0 .. Longest]
          /\ told' \in [Sessions -> {"nothing", "missing", "expired", "valid"}]
        BY <1>0, <2>1, FailureTypes
    <2>3. /\ lost' \in Tokens \cup {NoToken}
          /\ lost = current \/ got[s] = current => lost' = current
        BY <1>2, <1>4, LoseFacts DEF Dropped, Cancelled, TypeOK, TokensInOrder
    <2>4. TypeOK'
        BY <1>0, <1>1, <2>1, <2>2, <2>3 DEF TypeOK
    <2>5. TokensInOrder'
        BY <1>0, <1>3, <2>1, <2>2, <2>3 DEF TokensInOrder, LoggingIn
    <2>6. StoredTokenIsCurrent'
        <3>1. \A q \in Sessions : q # s => got'[q] = got[q]
            BY <1>0 DEF TypeOK
        <3> QED BY <1>0, <2>1, <2>3, <3>1 DEF StoredTokenIsCurrent, LoggingIn
    <2> QED BY <2>4, <2>5, <2>6
<1>5. CASE /\ secret = copy[s] /\ Stores(got[s])
           /\ UNCHANGED lost /\ TokenIsValid(s, got[s])
    <2>1. ttl[got[s]] \in Int /\ ttl[got[s]] <= TokenLife
        BY <1>2, SessionAssumption DEF TypeOK, Forgotten
    <2>2. ValidSleep(ttl[got[s]]) \in 0 .. Longest
        BY <2>1, SleepBounds
    <2>3. /\ secret' = got[s] /\ displaced' \in Tokens \cup {NoToken} /\ displaced' <= current
          /\ displaced' # NoToken => got[s] < displaced'
          /\ current \in {secret, displaced} => current \in {got[s], displaced'}
        BY <1>2, <1>5, StoreFacts
    <2>4. token' = [token EXCEPT ![s] = "get"] /\ copy' = [copy EXCEPT ![s] = NoToken]
        BY <1>5 DEF TokenIsValid, SleepFor
    <2>5. TypeOK'
        BY <1>0, <1>1, <1>2, <1>5, <2>2, <2>3 DEF TypeOK, TokenIsValid, SendMessage, SleepFor
    <2>6. TokensInOrder'
        BY <1>0, <1>2, <1>3, <1>5, <2>3, <2>4 DEF TokensInOrder, LoggingIn
    <2>7. StoredTokenIsCurrent'
        <3>1. \A q \in Sessions : q # s => got'[q] = got[q]
            BY <1>0 DEF TypeOK
        <3> QED BY <1>0, <1>5, <2>3, <3>1 DEF StoredTokenIsCurrent, LoggingIn
    <2> QED BY <2>5, <2>6, <2>7
<1> QED BY <1>4, <1>5 DEF UpdateSecret, UpdateFails

\* A login: whatever it finds, the current token is stored, displaced, lost or
\* still on its way.
LEMMA LoginStep ==
    ASSUME SessionInv, NEW t \in Tokens,
           createKubeconfigSecret(t) \/ createSecret(t) \/ LoginFails(t)
    PROVE  SessionInv'
<1> USE DEF SessionInv
<1>0. UNCHANGED <<conn, wait, token, copy, got, told, ttl, current>> /\ t \in LoggingIn /\ t <= current
    BY DEF createKubeconfigSecret, createSecret, LoginFails, routine, issuer, LoggingIn, TokensInOrder
<1>1. faults' \in 0 .. MaxFaults
    BY SessionAssumption DEF TypeOK, createKubeconfigSecret, createSecret, LoginFails
<1>2. CASE createKubeconfigSecret(t)
    <2>1. UNCHANGED <<secret, lost, displaced>> /\ LoggingIn' = LoggingIn /\ TypeOK'
        BY <1>0, <1>1, <1>2 DEF createKubeconfigSecret, issuer, LoggingIn, TypeOK
    <2> QED BY <1>0, <2>1 DEF TokensInOrder, StoredTokenIsCurrent
<1>3. CASE createSecret(t) \/ LoginFails(t)
    <2>0. login' = [login EXCEPT ![t] = "none"]
        BY <1>3 DEF createSecret, LoginFails, Answered
    <2>1. login' \in [Tokens -> {"none", "exchanged", "create", "update"}] /\ LoggingIn' = LoggingIn \ {t}
        BY <2>0 DEF TypeOK, LoggingIn
    <2>2. CASE Lose(t) /\ UNCHANGED <<secret, displaced>>
        <3>1. /\ lost' \in Tokens \cup {NoToken}
              /\ lost = current \/ t = current => lost' = current
            BY <2>2, LoseFacts
        <3>2. TypeOK'
            BY <1>0, <1>1, <2>1, <2>2, <3>1 DEF TypeOK
        <3> QED BY <1>0, <2>1, <2>2, <3>1, <3>2 DEF TokensInOrder, StoredTokenIsCurrent
    <2>3. CASE Stores(t) /\ UNCHANGED lost
        <3>1. /\ secret' = t /\ displaced' \in Tokens \cup {NoToken} /\ displaced' <= current
              /\ displaced' # NoToken => t < displaced'
              /\ current \in {secret, displaced} => current \in {t, displaced'}
            BY <1>0, <2>3, StoreFacts
        <3>2. TypeOK'
            BY <1>0, <1>1, <2>1, <2>3, <3>1 DEF TypeOK
        <3> QED BY <1>0, <2>1, <2>3, <3>1, <3>2 DEF TokensInOrder, StoredTokenIsCurrent
    <2> QED BY <1>3, <2>2, <2>3 DEF createSecret, LoginFails
<1> QED BY <1>2, <1>3

-----------------------------------------------------------------------------
\* Every step keeps the invariant.
LEMMA NextInv == SessionInv /\ [Next]_vars => SessionInv'
<1> SUFFICES ASSUME SessionInv, [Next]_vars PROVE SessionInv'
    OBVIOUS
<1> USE DEF SessionInv
<1>1. CASE Exchange
    <2>1. /\ current' \in Tokens /\ current' = current + 1 /\ current + 1 \in Tokens
          /\ ttl' \in [Tokens -> Forgotten .. TokenLife] /\ displaced' = displaced
        BY <1>1, IssueTypes DEF Exchange
    <2>2. /\ UNCHANGED <<conn, wait, token, copy, got, told, secret, faults>> /\ lost' = NoToken
          /\ login' \in [Tokens -> {"none", "exchanged", "create", "update"}]
          /\ LoggingIn' = LoggingIn \cup {current'}
        BY <1>1, <2>1 DEF Exchange, routine, TypeOK, LoggingIn
    <2>3. TypeOK'
        BY <1>1, <2>1, <2>2 DEF TypeOK
    <2>4. TokensInOrder'
        <3>1. ASSUME NEW s \in Sessions
              PROVE  copy'[s] <= current' /\ got'[s] <= current' /\ got'[s] # current'
            BY <2>1, <2>2, <3>1, TokenNumbers DEF TokensInOrder
        <3>2. secret' <= current' /\ displaced' <= current' /\ \A t \in LoggingIn' : t <= current'
            BY <2>1, <2>2, TokenNumbers DEF TokensInOrder, LoggingIn
        <3> QED BY <2>1, <2>2, <3>1, <3>2 DEF TokensInOrder
    <2>5. StoredTokenIsCurrent'
        BY <2>2 DEF StoredTokenIsCurrent
    <2> QED BY <2>3, <2>4, <2>5
<1>2. ASSUME NEW t \in Tokens, createKubeconfigSecret(t) \/ createSecret(t) \/ LoginFails(t)
      PROVE  SessionInv'
    BY <1>2, LoginStep
<1>3. CASE SecretDeleted
    <2>1. NoToken <= current
        BY TokenNumbers DEF NoToken
    <2>2. /\ secret' = NoToken /\ displaced' \in Tokens \cup {NoToken} /\ displaced' <= current
          /\ displaced' # NoToken => NoToken < displaced'
          /\ current \in {secret, displaced} => current \in {NoToken, displaced'}
        BY <1>3, <2>1, StoreFacts DEF SecretDeleted
    <2>3. /\ UNCHANGED <<conn, wait, token, copy, got, told, ttl, current, lost, login>>
          /\ faults' \in 0 .. MaxFaults /\ LoggingIn' = LoggingIn
        BY <1>3, SessionAssumption DEF SecretDeleted, routine, TypeOK, LoggingIn
    <2>4. TypeOK'
        BY <2>2, <2>3 DEF TypeOK
    <2> QED BY <2>1, <2>2, <2>3, <2>4 DEF TokensInOrder, StoredTokenIsCurrent
<1>4. CASE Tick
    <2>1. wait' \in [Sessions -> 0 .. Longest]
        BY <1>4, SessionAssumption DEF TypeOK, Tick, Down, Max2, Longest
    <2>2. ttl' \in [Tokens -> Forgotten .. TokenLife]
        BY <1>4, SessionAssumption DEF TypeOK, Tick, Max2, Forgotten
    <2>3. TypeOK'
        BY <1>4, <2>1, <2>2 DEF TypeOK, Tick, routine
    <2>4. TokensInOrder' /\ StoredTokenIsCurrent'
        BY <1>4 DEF Tick, routine, TokensInOrder, StoredTokenIsCurrent, LoggingIn
    <2> QED BY <2>3, <2>4
<1>5. ASSUME NEW s \in Sessions, startProcess(s) PROVE SessionInv'
    BY <1>5 DEF TypeOK, TokensInOrder, StoredTokenIsCurrent, startProcess, issuer, LoggingIn
<1>6. ASSUME NEW s \in Sessions, Close(s) PROVE SessionInv'
    <2>1. /\ UNCHANGED <<wait, token, copy, got, secret, ttl, current, displaced, login, faults>>
          /\ LoggingIn' = LoggingIn /\ Lose(got[s])
          /\ conn' = [conn EXCEPT ![s] = "closed"] /\ told' = [told EXCEPT ![s] = "nothing"]
        BY <1>6 DEF Close, LoggingIn
    <2>2. /\ lost' \in Tokens \cup {NoToken}
          /\ lost = current \/ got[s] = current => lost' = current
        BY <2>1, LoseFacts DEF TypeOK
    <2>3. TypeOK'
        BY <2>1, <2>2 DEF TypeOK
    <2>4. TokensInOrder'
        BY <1>6, <2>1, <2>2 DEF TypeOK, TokensInOrder, Close
    <2>5. StoredTokenIsCurrent'
        BY <2>1, <2>2 DEF StoredTokenIsCurrent
    <2> QED BY <2>3, <2>4, <2>5
<1>7. ASSUME NEW s \in Sessions, TokenStep(s) PROVE SessionInv'
    BY <1>7, GetStep, RefreshStep, UpdateStep DEF TokenStep
<1>8. CASE UNCHANGED vars
    BY <1>8 DEF vars, routine, issuer, TypeOK, TokensInOrder, StoredTokenIsCurrent, LoggingIn
<1> QED BY <1>1, <1>2, <1>3, <1>4, <1>5, <1>6, <1>7, <1>8 DEF Next

\* SessionInv is invariant, whichever logins overlap.
THEOREM SessionInvariant == Spec => []SessionInv
BY InitInv, NextInv, PTL DEF Spec

\* Every variable of the token routines keeps its type; in particular every
\* sleep is bounded by the life of a token or two minutes and a retry.
THEOREM SessionTypes == Spec => []TypeOK
BY SessionInvariant, PTL DEF SessionInv

\* However many connections of a user refresh the token at the same time,
\* and however the user's logins overlap with them and with each other, the
\* refresh token that the issuer accepts is in the kubeconfig secret or on
\* its way there, unless its receiver failed or an older login was stored in
\* its place: checkTokenAndRefreshIfNeeded never overwrites it.
THEOREM RefreshTokenIsKept == Spec => []StoredTokenIsCurrent
BY SessionInvariant, PTL DEF SessionInv

-----------------------------------------------------------------------------
(* What the clients were told.  Besides SessionInv the proof needs how long *)
(* each routine may still sleep against the life of the token it will find. *)

HeldTokens == Held \ {NoToken}

\* Tokens expire in the order in which they were issued.
OlderExpireFirst == \A t, u \in HeldTokens : t <= u => ttl[t] <= ttl[u]

\* A routine that calls the issuer or the API server does not sleep, so what it
\* received is as good as new; what it read was stored.  A client that believes
\* in its token hears from its routine at most a minute after the token expires
\* that it finds then, which is no older than any that was stored before.
OnTime(s) ==
    /\ token[s] \in {"refresh", "update"} => wait[s] = 0
    /\ token[s] = "update" => ttl[got[s]] = TokenLife
    /\ copy[s] <= Newest
    /\ told[s] = "valid" =>
         /\ conn[s] = "running" /\ token[s] # "off"
         /\ wait[s] <= TokenLife + minute
         /\ \A t \in HeldTokens : Newest <= t => wait[s] <= ttl[t] + minute

InTime == OlderExpireFirst /\ \A s \in Sessions : OnTime(s)
Timely == SessionInv /\ InTime

\* The numbers of a well-typed state.
LEMMA Numbers ==
    ASSUME TypeOK
    PROVE  /\ \A t \in Tokens : ttl[t] \in Int /\ ttl[t] <= TokenLife /\ ttl[t] >= -minute - 1
           /\ \A s \in Sessions : wait[s] \in Nat
           /\ minute \in Nat /\ minute > 0 /\ TokenLife \in Nat /\ TokenLife > 0
           /\ remainingTokenExpirationTime \in Nat /\ remainingTokenExpirationTime > 0
           /\ Newest \in Nat /\ secret <= Newest
<1>1. /\ minute \in Nat /\ minute > 0 /\ TokenLife \in Nat /\ TokenLife > 0
      /\ remainingTokenExpirationTime \in Nat /\ remainingTokenExpirationTime > 0
    BY SessionAssumption
<1>2. \A i \in Forgotten .. TokenLife : i \in Int /\ i <= TokenLife /\ i >= -minute - 1
    BY <1>1 DEF Forgotten
<1>3. \A t \in Tokens : ttl[t] \in Forgotten .. TokenLife
    BY DEF TypeOK
<1>4. \A s \in Sessions : wait[s] \in 0 .. Longest
    BY DEF TypeOK
<1>5. Newest \in Nat /\ secret <= Newest
    BY TokenNumbers DEF Newest, Max2
<1> QED BY <1>1, <1>2, <1>3, <1>4, <1>5

\* The tokens that are held were issued.
LEMMA HeldWereIssued ==
    ASSUME SessionInv
    PROVE  /\ HeldTokens \subseteq Tokens /\ \A t \in HeldTokens : t <= current
           /\ secret \in HeldTokens \cup {NoToken}
           /\ \A s \in Sessions : /\ copy[s] \in HeldTokens \cup {NoToken}
                                  /\ got[s] \in HeldTokens \cup {NoToken}
<1>1. TypeOK /\ TokensInOrder
    BY DEF SessionInv
<1>2. ASSUME NEW t \in HeldTokens PROVE t \in Tokens /\ t <= current
    <2>1. t # NoToken /\ (t = secret \/ t \in LoggingIn \/ \E s \in Sessions : t = copy[s] \/ t = got[s])
        BY <1>2 DEF HeldTokens, Held
    <2>2. CASE t = secret
        BY <1>1, <2>1, <2>2 DEF TypeOK, TokensInOrder
    <2>3. CASE t \in LoggingIn
        BY <1>1, <2>3 DEF LoggingIn, TokensInOrder
    <2>4. ASSUME NEW s \in Sessions, t = copy[s] \/ t = got[s] PROVE t \in Tokens /\ t <= current
        BY <1>1, <2>1, <2>4 DEF TypeOK, TokensInOrder
    <2> QED BY <2>1, <2>2, <2>3, <2>4
<1> QED BY <1>2 DEF HeldTokens, Held

\* Issuing a token changes no other.
LEMMA IssueFresh ==
    ASSUME SessionInv, Issue
    PROVE  /\ current' = current + 1 /\ current' \in Tokens /\ ttl'[current'] = TokenLife
           /\ \A t \in Tokens : t <= current => ttl'[t] = ttl[t]
<1>1. current' \in Tokens /\ current' = current + 1
    BY IssueTypes DEF SessionInv
<1>2. ttl' = [ttl EXCEPT ![current'] = TokenLife]
    BY <1>1 DEF Issue
<1>3. ttl \in [Tokens -> Forgotten .. TokenLife] /\ current \in Int
    BY TokenNumbers DEF SessionInv, TypeOK
<1> QED BY <1>1, <1>2, <1>3 DEF Tokens

\* While no time passes tokens are handed on, dropped or newly issued, and the
\* newest token that was stored gets no older.
Passes ==
    /\ \A t \in HeldTokens' : \/ t \in HeldTokens /\ ttl'[t] = ttl[t]
                              \/ t = current + 1 /\ ttl'[t] = TokenLife
    /\ Newest <= Newest'

\* What is held afterwards, from who holds it.
LEMMA HeldWithin ==
    ASSUME NEW X, secret' \in X, LoggingIn' \subseteq X,
           \A q \in Sessions : copy'[q] \in X /\ got'[q] \in X
    PROVE  Held' \subseteq X
BY DEF Held

\* A step that issues no token.
LEMMA PassesOn ==
    ASSUME SessionInv, UNCHANGED ttl, Newest <= Newest',
           secret' \in Held \cup {NoToken}, LoggingIn' \subseteq LoggingIn,
           \A q \in Sessions : /\ copy'[q] \in Held \cup {NoToken}
                               /\ got'[q] \in Held \cup {NoToken}
    PROVE  Passes
<1>1. LoggingIn' \subseteq Held \cup {NoToken}
    BY DEF Held
<1>2. Held' \subseteq Held \cup {NoToken}
    BY <1>1, HeldWithin
<1> QED BY <1>2 DEF Passes, HeldTokens

\* A step that issues a token.
LEMMA PassesNew ==
    ASSUME SessionInv, Issue, UNCHANGED secret, LoggingIn' \subseteq LoggingIn \cup {current + 1},
           \A q \in Sessions : /\ copy'[q] \in Held \cup {NoToken}
                               /\ got'[q] \in Held \cup {NoToken, current + 1}
    PROVE  Passes
<1>1. /\ secret' \in Held \cup {NoToken, current + 1}
      /\ LoggingIn' \subseteq Held \cup {NoToken, current + 1}
    BY DEF Held
<1>2. Held' \subseteq Held \cup {NoToken, current + 1}
    BY <1>1, HeldWithin
<1>3. Newest' = Newest /\ Newest \in Nat
    BY Numbers DEF Newest, Issue, SessionInv
<1>4. /\ current' = current + 1 /\ ttl'[current'] = TokenLife
      /\ \A u \in Tokens : u <= current => ttl'[u] = ttl[u]
    BY IssueFresh
<1>5. \A u \in HeldTokens : u \in Tokens /\ u <= current
    BY HeldWereIssued
<1>6. ASSUME NEW t \in HeldTokens'
      PROVE  \/ t \in HeldTokens /\ ttl'[t] = ttl[t]
             \/ t = current + 1 /\ ttl'[t] = TokenLife
    <2>1. CASE t = current + 1
        BY <1>4, <2>1
    <2>2. CASE t # current + 1
        <3>1. t \in HeldTokens
            BY <1>2, <1>6, <2>2 DEF HeldTokens
        <3>2. t \in Tokens /\ t <= current
            BY <1>5, <3>1
        <3>3. ttl'[t] = ttl[t]
            BY <1>4, <3>2
        <3> QED BY <3>1, <3>3
    <2> QED BY <2>1, <2>2
<1> QED BY <1>3, <1>6 DEF Passes

\* Tokens go on to expire in order.
LEMMA OlderKept ==
    ASSUME Timely, Passes
    PROVE  OlderExpireFirst'
<1> SUFFICES ASSUME NEW t \in HeldTokens', NEW u \in HeldTokens', t <= u PROVE ttl'[t] <= ttl'[u]
    BY DEF OlderExpireFirst
<1>1. SessionInv /\ TypeOK /\ current \in Nat
    BY TokenNumbers DEF Timely, SessionInv
<1>2. \A v \in HeldTokens : v \in Nat /\ v <= current /\ ttl[v] \in Int /\ ttl[v] <= TokenLife
    BY <1>1, HeldWereIssued, TokenNumbers, Numbers
<1>3. TokenLife \in Nat
    BY SessionAssumption
<1>4. CASE t \in HeldTokens /\ ttl'[t] = ttl[t]
    <2>1. CASE u \in HeldTokens /\ ttl'[u] = ttl[u]
        BY <1>4, <2>1 DEF Timely, InTime, OlderExpireFirst
    <2>2. CASE u = current + 1 /\ ttl'[u] = TokenLife
        BY <1>2, <1>4, <2>2
    <2> QED BY <2>1, <2>2 DEF Passes
<1>5. CASE t = current + 1 /\ ttl'[t] = TokenLife
    <2>1. CASE u \in HeldTokens /\ ttl'[u] = ttl[u]
        BY <1>1, <1>2, <1>5, <2>1
    <2>2. CASE u = current + 1 /\ ttl'[u] = TokenLife
        BY <1>3, <1>5, <2>2
    <2> QED BY <2>1, <2>2 DEF Passes
<1> QED BY <1>4, <1>5 DEF Passes

\* The newest token is a number after a step, too.
LEMMA NewestAfter == ASSUME SessionInv' PROVE Newest' \in Nat
<1>1. secret' \in Tokens \cup {NoToken} /\ displaced' \in Tokens \cup {NoToken}
    BY DEF SessionInv, TypeOK
<1> QED BY <1>1, SessionAssumption DEF Newest, Max2, Tokens, NoToken

\* A bound on a sleep stays right while tokens pass on.
LEMMA BoundKept ==
    ASSUME Timely, SessionInv', Passes, NEW n \in Nat, n <= TokenLife + minute,
           \A t \in HeldTokens : Newest <= t => n <= ttl[t] + minute
    PROVE  \A t \in HeldTokens' : Newest' <= t => n <= ttl'[t] + minute
<1> SUFFICES ASSUME NEW t \in HeldTokens', Newest' <= t PROVE n <= ttl'[t] + minute
    OBVIOUS
<1>1. SessionInv /\ TypeOK
    BY DEF Timely, SessionInv
<1>2. \A u \in HeldTokens : u \in Nat
    BY <1>1, HeldWereIssued, TokenNumbers
<1>3. t \in Nat
    BY <1>1, <1>2, TokenNumbers DEF Passes
<1>4. Newest \in Nat /\ Newest' \in Nat
    BY <1>1, Numbers, NewestAfter
<1>5. Newest <= t
    BY <1>3, <1>4 DEF Passes
<1> QED BY <1>5 DEF Passes

\* A routine that a step does not touch stays on time.
LEMMA OthersKept ==
    ASSUME Timely, SessionInv', Passes, NEW q \in Sessions,
           conn'[q] = conn[q], told'[q] = told[q], wait'[q] = wait[q], token'[q] = token[q],
           copy'[q] = copy[q], got'[q] = got[q]
    PROVE  OnTime(q)'
<1>1. OnTime(q) /\ SessionInv /\ TypeOK
    BY DEF Timely, InTime, SessionInv
<1>2. /\ Newest \in Nat /\ Newest' \in Nat /\ copy[q] \in Nat /\ wait[q] \in Nat
    BY <1>1, Numbers, TokenNumbers, NewestAfter
<1>3. copy'[q] <= Newest'
    BY <1>1, <1>2 DEF OnTime, Passes
<1>4. token'[q] = "update" => ttl'[got'[q]] = TokenLife
    <2>1. token[q] = "update" => got[q] # NoToken
        BY <1>1, TokenNumbers DEF SessionInv, TokensInOrder, NoToken
    <2>2. got'[q] \in HeldTokens' \cup {NoToken}
        BY DEF HeldTokens, Held
    <2> QED BY <1>1, <2>1, <2>2 DEF OnTime, Passes
<1>5. told'[q] = "valid" => \A t \in HeldTokens' : Newest' <= t => wait'[q] <= ttl'[t] + minute
    BY <1>1, <1>2, BoundKept DEF OnTime
<1> QED BY <1>1, <1>3, <1>4, <1>5 DEF OnTime

\* No token is given out before the first login.
LEMMA InitInTime == Init => InTime
<1> SUFFICES ASSUME Init PROVE InTime
    OBVIOUS
<1>1. HeldTokens = {}
    BY DEF Init, HeldTokens, Held, LoggingIn
<1>2. Newest = 0 /\ \A s \in Sessions : copy[s] = 0
    BY DEF Init, Newest, Max2, NoToken
<1> QED BY <1>1, <1>2 DEF Init, InTime, OlderExpireFirst, OnTime

\* A sleep after a valid token ends with the token, or earlier.
LEMMA ValidSleepBound ==
    ASSUME NEW u \in Int, u > 0
    PROVE  ValidSleep(u) <= u /\ ValidSleep(u) \in Nat
BY SessionAssumption DEF ValidSleep, Max2

\* A failed refresh is followed by a sleep that outlasts the token that was
\* read by no more than a minute, unless the client is told that it expired.
LEMMA FailureSleep ==
    ASSUME TypeOK, NEW s \in Sessions, copy[s] # NoToken, onFailedUpdatingToken(s)
    PROVE  /\ \A q \in Sessions : q # s => /\ told'[q] = told[q] /\ wait'[q] = wait[q]
                                           /\ token'[q] = token[q] /\ copy'[q] = copy[q]
           /\ token'[s] = "get" /\ copy'[s] = NoToken
           /\ told'[s] = "valid" =>
                 told[s] = "valid" /\ (~Cancelled(s) => wait'[s] <= ttl[copy[s]] + minute)
<1>1. ttl[copy[s]] \in Int /\ minute \in Nat
    BY Numbers DEF TypeOK
<1>2. CASE ttl[copy[s]] <= 0
    BY <1>2 DEF onFailedUpdatingToken, SleepFor, SendMessage, TypeOK
<1>3. CASE ~(ttl[copy[s]] <= 0)
    BY <1>1, <1>3 DEF onFailedUpdatingToken, SleepFor, TypeOK
<1> QED BY <1>2, <1>3

\* A routine that gives up a call sleeps no longer than its client's belief
\* allows, whether or not a token was issued.
LEMMA FailureInTime ==
    ASSUME Timely, SessionInv', NEW s \in Sessions, token[s] \in {"refresh", "update"},
           onFailedUpdatingToken(s), Passes, UNCHANGED conn,
           \A q \in Sessions : q # s => got'[q] = got[q]
    PROVE  InTime'
<1>1. /\ SessionInv /\ TypeOK /\ OnTime(s) /\ OlderExpireFirst
      /\ copy[s] # NoToken /\ copy[s] \in HeldTokens
    BY HeldWereIssued DEF Timely, InTime, SessionInv, TokensInOrder
<1>2. /\ \A q \in Sessions : q # s => /\ told'[q] = told[q] /\ wait'[q] = wait[q]
                                      /\ token'[q] = token[q] /\ copy'[q] = copy[q]
      /\ token'[s] = "get" /\ copy'[s] = NoToken
      /\ told'[s] = "valid" =>
            told[s] = "valid" /\ (~Cancelled(s) => wait'[s] <= ttl[copy[s]] + minute)
    BY <1>1, FailureSleep
<1>3. \A q \in Sessions : q # s => OnTime(q)'
    BY <1>2, OthersKept
<1>4. NoToken <= Newest'
    BY NewestAfter DEF NoToken
<1>5. ASSUME told'[s] = "valid"
      PROVE  /\ conn[s] = "running" /\ wait'[s] <= TokenLife + minute
             /\ \A t \in HeldTokens' : Newest' <= t => wait'[s] <= ttl'[t] + minute
    <2>1. told[s] = "valid" /\ conn[s] = "running" /\ wait'[s] <= ttl[copy[s]] + minute
        BY <1>1, <1>2, <1>5 DEF OnTime, Cancelled
    <2>2. wait'[s] \in Nat
        BY SessionAssumption DEF SessionInv, TypeOK, Longest, Max2
    <2>3. /\ copy[s] \in Nat /\ copy[s] <= Newest /\ Newest \in Nat
          /\ ttl[copy[s]] \in Int /\ ttl[copy[s]] <= TokenLife /\ minute \in Nat /\ TokenLife \in Nat
        BY <1>1, Numbers, TokenNumbers, HeldWereIssued DEF OnTime
    <2>4. ASSUME NEW t \in HeldTokens, Newest <= t PROVE wait'[s] <= ttl[t] + minute
        <3>1. t \in Nat /\ ttl[t] \in Int
            BY <1>1, Numbers, TokenNumbers, HeldWereIssued
        <3>2. copy[s] <= t
            BY <2>3, <2>4, <3>1
        <3>3. ttl[copy[s]] <= ttl[t]
            BY <1>1, <3>2 DEF OlderExpireFirst
        <3> QED BY <2>1, <2>2, <2>3, <3>1, <3>3
    <2>5. wait'[s] <= TokenLife + minute
        BY <2>1, <2>2, <2>3
    <2> QED BY <2>1, <2>2, <2>4, <2>5, BoundKept
<1>6. OnTime(s)'
    BY <1>2, <1>4, <1>5 DEF OnTime
<1> QED BY <1>3, <1>6, OlderKept DEF InTime

\* Get: what is read is what is stored, and a valid token ends the sleep.
LEMMA GetInTime ==
    ASSUME Timely, SessionInv', NEW s \in Sessions, GetSecret(s) \/ GetSecretFails(s)
    PROVE  InTime'
<1>1. /\ token[s] = "get" /\ wait[s] = 0
      /\ UNCHANGED <<conn, got, secret, ttl, current, lost, displaced, login>>
    BY DEF GetSecret, GetSecretFails, At, issuer
<1>2. /\ SessionInv /\ TypeOK /\ conn[s] \in {"running", "closed"} /\ OnTime(s) /\ OlderExpireFirst
    BY <1>1 DEF Timely, InTime, SessionInv, TypeOK, TokensInOrder
<1>3. /\ Newest' = Newest /\ Newest \in Nat /\ LoggingIn' = LoggingIn /\ secret <= Newest
      /\ NoToken <= Newest
    BY <1>1, <1>2, Numbers DEF Newest, LoggingIn, NoToken
<1>4. ASSUME NEW v \in Held \cup {NoToken}, copy' = [copy EXCEPT ![s] = v]
      PROVE  Passes /\ copy'[s] = v /\ \A q \in Sessions : q # s => copy'[q] = copy[q]
    <2>1. copy'[s] = v /\ \A q \in Sessions : q # s => copy'[q] = copy[q]
        BY <1>2, <1>4 DEF TypeOK
    <2>2. \A q \in Sessions : copy'[q] \in Held \cup {NoToken} /\ got'[q] \in Held \cup {NoToken}
        BY <1>1, <1>4, <2>1 DEF Held
    <2>3. secret' \in Held \cup {NoToken} /\ LoggingIn' \subseteq LoggingIn /\ Newest <= Newest'
        BY <1>1, <1>3 DEF Held
    <2> QED BY <1>1, <1>2, <2>1, <2>2, <2>3, PassesOn
<1>5. CASE Missing(s)
    <2>1. /\ copy' = [copy EXCEPT ![s] = NoToken] /\ token' = [token EXCEPT ![s] = "get"]
          /\ wait' = [wait EXCEPT ![s] = retry]
        BY <1>5 DEF Missing, SleepFor
    <2>2. /\ \A q \in Sessions : q # s => told'[q] = told[q]
          /\ told'[s] # "valid"
        BY <1>2, <1>5 DEF Missing, SendMessage, Cancelled, TypeOK, OnTime
    <2>3. /\ \A q \in Sessions : q # s => token'[q] = token[q] /\ wait'[q] = wait[q]
          /\ token'[s] = "get"
        BY <2>1, <1>2 DEF TypeOK
    <2>4. Passes /\ copy'[s] = NoToken /\ \A q \in Sessions : q # s => copy'[q] = copy[q]
        BY <1>4, <2>1
    <2>5. \A q \in Sessions : q # s => OnTime(q)'
        BY <1>1, <2>2, <2>3, <2>4, OthersKept
    <2>6. OnTime(s)'
        BY <1>3, <2>2, <2>3, <2>4 DEF OnTime
    <2> QED BY <2>4, <2>5, <2>6, OlderKept DEF InTime
<1>6. CASE /\ secret # NoToken /\ copy' = [copy EXCEPT ![s] = secret]
           /\ token' = [token EXCEPT ![s] = "refresh"] /\ UNCHANGED <<wait, told>>
    <2>1. Passes /\ copy'[s] = secret /\ \A q \in Sessions : q # s => copy'[q] = copy[q]
        BY <1>4, <1>6 DEF Held
    <2>2. /\ token'[s] = "refresh"
          /\ \A q \in Sessions : q # s => token'[q] = token[q]
        BY <1>2, <1>6 DEF TypeOK
    <2>3. \A q \in Sessions : q # s => OnTime(q)'
        BY <1>1, <1>6, <2>1, <2>2, OthersKept
    <2>4. wait[s] \in Nat
        BY <1>2, Numbers
    <2>5. told[s] = "valid" => \A t \in HeldTokens' : Newest' <= t => wait[s] <= ttl'[t] + minute
        BY <1>2, <2>1, <2>4, BoundKept DEF OnTime
    <2>6. OnTime(s)'
        BY <1>1, <1>2, <1>3, <1>6, <2>1, <2>2, <2>5 DEF OnTime
    <2> QED BY <2>1, <2>3, <2>6, OlderKept DEF InTime
<1>7. CASE /\ secret # NoToken /\ ~Cancelled(s) /\ TokenIsValid(s, secret)
           /\ ~(ttl[secret] <= remainingTokenExpirationTime)
    <2>1. /\ conn[s] = "running" /\ secret \in HeldTokens /\ secret \in Tokens
          /\ copy' = [copy EXCEPT ![s] = NoToken]
        BY <1>2, <1>7, HeldWereIssued DEF Cancelled, TokenIsValid, SleepFor
    <2>2. Passes /\ copy'[s] = NoToken /\ \A q \in Sessions : q # s => copy'[q] = copy[q]
        BY <1>4, <2>1
    <2>3. ttl[secret] \in Int /\ ttl[secret] > 0 /\ ttl[secret] <= TokenLife
        BY <1>2, <1>7, <2>1, Numbers
    <2>4. ValidSleep(ttl[secret]) <= ttl[secret] /\ ValidSleep(ttl[secret]) \in Nat
        BY <2>3, ValidSleepBound
    <2>5. /\ token'[s] = "get" /\ told'[s] = "valid" /\ wait'[s] = ValidSleep(ttl[secret])
          /\ \A q \in Sessions : q # s => /\ token'[q] = token[q] /\ told'[q] = told[q]
                                          /\ wait'[q] = wait[q]
        BY <1>2, <1>7 DEF TokenIsValid, SendMessage, SleepFor, TypeOK
    <2>6. \A q \in Sessions : q # s => OnTime(q)'
        BY <1>1, <2>2, <2>5, OthersKept
    <2>7. ASSUME NEW t \in HeldTokens, Newest <= t PROVE wait'[s] <= ttl[t] + minute
        <3>1. t \in Nat /\ ttl[t] \in Int /\ secret \in Nat /\ minute \in Nat
            BY <1>2, Numbers, TokenNumbers, HeldWereIssued
        <3>2. secret <= t
            BY <1>3, <2>7, <3>1
        <3>3. ttl[secret] <= ttl[t]
            BY <1>2, <2>1, <3>2 DEF OlderExpireFirst
        <3> QED BY <2>3, <2>4, <2>5, <3>1, <3>3
    <2>8. wait'[s] \in Nat /\ wait'[s] <= TokenLife + minute
        BY <1>2, <2>3, <2>4, <2>5, Numbers
    <2>9. \A t \in HeldTokens' : Newest' <= t => wait'[s] <= ttl'[t] + minute
        BY <2>2, <2>7, <2>8, BoundKept
    <2>10. OnTime(s)'
        BY <1>1, <1>3, <2>1, <2>2, <2>5, <2>8, <2>9 DEF OnTime
    <2> QED BY <2>2, <2>6, <2>10, OlderKept DEF InTime
<1> QED BY <1>5, <1>6, <1>7 DEF GetSecret, GetSecretFails

\* Refresh: the token that is issued is as good as new.
LEMMA RefreshInTime ==
    ASSUME Timely, SessionInv', NEW s \in Sessions, RefreshAccessToken(s) \/ RefreshFails(s)
    PROVE  InTime'
<1>1. /\ token[s] = "refresh" /\ wait[s] = 0 /\ UNCHANGED <<conn, secret, login>>
      /\ LoggingIn' = LoggingIn
    BY DEF RefreshAccessToken, RefreshFails, At, LoggingIn
<1>2. SessionInv /\ TypeOK /\ OnTime(s) /\ copy[s] # NoToken /\ Newest \in Nat /\ current + 1 # NoToken
    BY <1>1, Numbers, TokenNumbers DEF Timely, InTime, SessionInv, TokensInOrder, NoToken
<1>3. CASE onFailedUpdatingToken(s) /\ UNCHANGED got /\ (UNCHANGED issuer \/ Issue)
    <2>1. \A q \in Sessions : copy'[q] \in Held \cup {NoToken} /\ got'[q] \in Held \cup {NoToken}
        BY <1>2, <1>3, FailureSleep DEF Held
    <2>2. Passes
        <3>1. CASE Issue
            BY <1>1, <1>2, <2>1, <3>1, PassesNew
        <3>2. CASE UNCHANGED issuer
            <4>1. Newest' = Newest /\ secret' \in Held
                BY <1>1, <3>2 DEF Newest, issuer, Held
            <4> QED BY <1>1, <1>2, <2>1, <3>2, <4>1, PassesOn DEF issuer
        <3> QED BY <1>3, <3>1, <3>2
    <2> QED BY <1>1, <1>3, <2>2, FailureInTime
<1>4. CASE /\ Issue /\ got' = [got EXCEPT ![s] = current']
           /\ token' = [token EXCEPT ![s] = "update"] /\ UNCHANGED <<wait, copy, told>>
    <2>1. /\ current' = current + 1 /\ ttl'[current'] = TokenLife
          /\ \A q \in Sessions : q # s => got'[q] = got[q] /\ token'[q] = token[q]
          /\ got'[s] = current' /\ token'[s] = "update"
        BY <1>2, <1>4, IssueFresh DEF TypeOK
    <2>2. \A q \in Sessions : /\ copy'[q] \in Held \cup {NoToken}
                              /\ got'[q] \in Held \cup {NoToken, current + 1}
        BY <1>4, <2>1 DEF Held
    <2>3. Passes
        BY <1>1, <1>2, <1>4, <2>2, PassesNew
    <2>4. \A q \in Sessions : q # s => OnTime(q)'
        BY <1>1, <1>4, <2>1, <2>3, OthersKept
    <2>5. wait[s] \in Nat
        BY <1>2, Numbers
    <2>6. told[s] = "valid" => \A t \in HeldTokens' : Newest' <= t => wait[s] <= ttl'[t] + minute
        BY <1>2, <2>3, <2>5, BoundKept DEF OnTime
    <2>7. copy[s] <= Newest'
        BY <1>2, <2>3, TokenNumbers, NewestAfter DEF OnTime, Passes
    <2>8. OnTime(s)'
        BY <1>1, <1>2, <1>4, <2>1, <2>6, <2>7 DEF OnTime
    <2> QED BY <2>3, <2>4, <2>8, OlderKept DEF InTime
<1> QED BY <1>3, <1>4 DEF RefreshAccessToken, RefreshFails

\* Update: the token that is stored is as good as new.
LEMMA UpdateInTime ==
    ASSUME Timely, SessionInv', NEW s \in Sessions, UpdateSecret(s) \/ UpdateFails(s)
    PROVE  InTime'
<1>1. /\ token[s] = "update" /\ UNCHANGED <<conn, ttl, current, login>>
      /\ got' = [got EXCEPT ![s] = NoToken] /\ LoggingIn' = LoggingIn
    BY DEF UpdateSecret, UpdateFails, At, LoggingIn
<1>2. /\ SessionInv /\ TypeOK /\ TokensInOrder /\ OnTime(s) /\ OlderExpireFirst /\ copy[s] # NoToken
      /\ conn[s] \in {"running", "closed"} /\ Newest \in Nat
    BY <1>1, Numbers DEF Timely, InTime, SessionInv, TypeOK, TokensInOrder
<1>3. got[s] \in HeldTokens /\ got[s] \in Tokens /\ got[s] \in Nat /\ got[s] <= current
    BY <1>1, <1>2, HeldWereIssued, TokenNumbers DEF TokensInOrder, NoToken
<1>4. \A q \in Sessions : q # s => got'[q] = got[q]
    BY <1>1, <1>2 DEF TypeOK
<1>5. \A q \in Sessions : got'[q] \in Held \cup {NoToken}
    BY <1>1, <1>2, <1>4 DEF Held, TypeOK
<1>6. CASE Dropped(s)
    <2>1. onFailedUpdatingToken(s) /\ UNCHANGED <<secret, displaced>>
        BY <1>6 DEF Dropped
    <2>2. \A q \in Sessions : copy'[q] \in Held \cup {NoToken}
        BY <1>2, <2>1, FailureSleep DEF Held
    <2>3. Newest' = Newest /\ secret' \in Held
        BY <2>1 DEF Newest, Held
    <2>4. Passes
        BY <1>1, <1>2, <1>5, <2>2, <2>3, PassesOn
    <2> QED BY <1>1, <1>4, <2>1, <2>4, FailureInTime
<1>7. CASE ~Cancelled(s) /\ Stores(got[s]) /\ TokenIsValid(s, got[s])
    <2>1. /\ secret' = got[s] /\ Newest <= Newest' /\ got[s] <= Newest'
        BY <1>2, <1>3, <1>7, StoreFacts
    <2>2. /\ ttl[got[s]] = TokenLife /\ conn[s] = "running"
          /\ TokenLife \in Int /\ TokenLife > 0 /\ minute \in Nat
        BY <1>1, <1>2, <1>7, SessionAssumption DEF OnTime, Cancelled
    <2>3. ValidSleep(TokenLife) <= TokenLife /\ ValidSleep(TokenLife) \in Nat
        BY <2>2, ValidSleepBound
    <2>4. /\ token'[s] = "get" /\ told'[s] = "valid" /\ wait'[s] = ValidSleep(TokenLife)
          /\ copy'[s] = NoToken
          /\ \A q \in Sessions : q # s => /\ token'[q] = token[q] /\ told'[q] = told[q]
                                          /\ wait'[q] = wait[q] /\ copy'[q] = copy[q]
        BY <1>2, <1>7, <2>2 DEF TokenIsValid, SendMessage, SleepFor, TypeOK
    <2>5. \A q \in Sessions : copy'[q] \in Held \cup {NoToken}
        BY <2>4 DEF Held
    <2>6. Passes
        BY <1>1, <1>2, <1>3, <1>5, <2>1, <2>5, PassesOn DEF HeldTokens
    <2>7. \A q \in Sessions : q # s => OnTime(q)'
        BY <1>1, <1>4, <2>4, <2>6, OthersKept
    <2>8. ASSUME NEW t \in HeldTokens', Newest' <= t PROVE wait'[s] <= ttl'[t] + minute
        <3>1. Newest' \in Nat
            BY NewestAfter
        <3>2. t \in HeldTokens \/ ttl'[t] = TokenLife
            BY <2>6, <2>8 DEF Passes
        <3>3. CASE t \in HeldTokens
            <4>1. t \in Nat /\ ttl[t] \in Int
                BY <1>2, <3>3, Numbers, TokenNumbers, HeldWereIssued
            <4>2. got[s] <= t
                BY <1>3, <2>1, <2>8, <3>1, <4>1
            <4>3. TokenLife <= ttl[t]
                BY <1>2, <1>3, <2>2, <3>3, <4>2 DEF OlderExpireFirst
            <4> QED BY <1>1, <2>2, <2>3, <2>4, <4>1, <4>3
        <3>4. CASE ttl'[t] = TokenLife
            BY <2>2, <2>3, <2>4, <3>4
        <3> QED BY <3>2, <3>3, <3>4
    <2>9. NoToken <= Newest' /\ wait'[s] <= TokenLife + minute
        BY <2>2, <2>3, <2>4, NewestAfter DEF NoToken
    <2>10. OnTime(s)'
        BY <1>1, <2>2, <2>4, <2>8, <2>9 DEF OnTime
    <2> QED BY <2>6, <2>7, <2>10, OlderKept DEF InTime
<1> QED BY <1>6, <1>7 DEF UpdateSecret, UpdateFails

\* Time passes alike for the sleeps and for the tokens that are held.
LEMMA TickInTime ==
    ASSUME Timely, Tick
    PROVE  InTime'
<1>1. /\ UNCHANGED <<conn, token, copy, got, told, secret, displaced, login>>
      /\ wait' = [q \in Sessions |-> Down(wait[q])]
      /\ \A q \in Sessions : ~Due(q)
    BY DEF Tick, routine
<1>2. HeldTokens' = HeldTokens /\ Newest' = Newest
    BY <1>1 DEF HeldTokens, Held, LoggingIn, Newest
<1>3. SessionInv /\ TypeOK /\ HeldTokens \subseteq Tokens
    BY HeldWereIssued DEF Timely, SessionInv
<1>4. \A t \in HeldTokens : ttl'[t] = Max2(Forgotten, ttl[t] - 1)
    BY <1>3 DEF Tick, HeldTokens
<1>5. OlderExpireFirst'
    <2> SUFFICES ASSUME NEW t \in HeldTokens, NEW u \in HeldTokens, t <= u PROVE ttl'[t] <= ttl'[u]
        BY <1>2 DEF OlderExpireFirst
    <2>1. ttl[t] <= ttl[u] /\ ttl[t] \in Int /\ ttl[u] \in Int /\ Forgotten \in Int
        BY <1>3, Numbers DEF Timely, InTime, OlderExpireFirst, Forgotten
    <2> QED BY <1>4, <2>1 DEF Max2
<1>6. ASSUME NEW q \in Sessions PROVE OnTime(q)'
    <2>1. OnTime(q) /\ wait[q] \in Nat /\ wait'[q] = Down(wait[q])
        BY <1>1, <1>3, Numbers DEF Timely, InTime
    <2>2. token[q] \notin {"refresh", "update"}
        BY <1>1, <2>1 DEF OnTime, Due
    <2>3. ASSUME told[q] = "valid"
          PROVE  /\ wait'[q] <= TokenLife + minute
                 /\ \A t \in HeldTokens : Newest <= t => wait'[q] <= ttl'[t] + minute
        <3>1. wait[q] > 0 /\ wait[q] <= TokenLife + minute
            BY <1>1, <2>1, <2>3 DEF Due, OnTime
        <3>2. wait'[q] = wait[q] - 1
            BY <2>1, <3>1 DEF Down, Max2
        <3>3. ASSUME NEW t \in HeldTokens, Newest <= t PROVE wait'[q] <= ttl'[t] + minute
            <4>1. wait[q] <= ttl[t] + minute /\ ttl[t] \in Int /\ minute \in Nat
                BY <1>3, <2>1, <2>3, <3>3, Numbers DEF OnTime
            <4>2. ttl'[t] = Max2(Forgotten, ttl[t] - 1)
                BY <1>4
            <4> QED BY <2>1, <3>1, <3>2, <4>1, <4>2 DEF Max2, Forgotten
        <3> QED BY <1>3, <2>1, <3>1, <3>2, <3>3, Numbers
    <2> QED BY <1>1, <1>2, <2>1, <2>2, <2>3 DEF OnTime
<1> QED BY <1>5, <1>6 DEF InTime

\* A login or a deletion leaves the routines alone.
LEMMA LoginInTime ==
    ASSUME Timely, SessionInv',
           \/ Exchange \/ SecretDeleted
           \/ \E t \in Tokens : createKubeconfigSecret(t) \/ createSecret(t) \/ LoginFails(t)
    PROVE  InTime'
<1>1. UNCHANGED <<conn, wait, token, copy, got, told>>
    BY DEF Exchange, createKubeconfigSecret, createSecret, LoginFails, SecretDeleted, routine
<1>2. SessionInv /\ TypeOK /\ TokensInOrder /\ Newest \in Nat
    BY Numbers DEF Timely, SessionInv
<1>3. \A q \in Sessions : copy'[q] \in Held \cup {NoToken} /\ got'[q] \in Held \cup {NoToken}
    BY <1>1 DEF Held
<1>4. CASE Exchange
    <2>1. Issue /\ UNCHANGED secret /\ LoggingIn' \subseteq LoggingIn \cup {current + 1}
        BY <1>2, <1>4 DEF Exchange, LoggingIn, TypeOK
    <2>2. Passes
        BY <1>2, <1>3, <2>1, PassesNew
    <2> QED BY <1>1, <2>2, OthersKept, OlderKept DEF InTime
<1>5. CASE SecretDeleted
    <2>1. NoToken <= current
        BY <1>2, TokenNumbers DEF NoToken
    <2>2. Newest <= Newest' /\ secret' = NoToken /\ UNCHANGED ttl /\ LoggingIn' = LoggingIn
        BY <1>2, <1>5, <2>1, StoreFacts DEF SecretDeleted, LoggingIn
    <2>3. Passes
        BY <1>2, <1>3, <2>2, PassesOn
    <2> QED BY <1>1, <2>3, OthersKept, OlderKept DEF InTime
<1>6. ASSUME NEW t \in Tokens, createKubeconfigSecret(t) \/ createSecret(t) \/ LoginFails(t)
      PROVE  InTime'
    <2>1. t \in LoggingIn /\ UNCHANGED ttl /\ LoggingIn' \subseteq LoggingIn /\ t <= current
        BY <1>2, <1>6 DEF createKubeconfigSecret, createSecret, LoginFails, Answered, LoggingIn,
                          TokensInOrder, TypeOK, issuer
    <2>2. CASE UNCHANGED <<secret, displaced>>
        <3>1. Newest' = Newest /\ secret' \in Held
            BY <2>2 DEF Newest, Held
        <3> QED BY <1>1, <1>2, <1>3, <2>1, <3>1, PassesOn, OthersKept, OlderKept DEF InTime
    <2>3. CASE Stores(t)
        <3>1. Newest <= Newest' /\ secret' = t /\ t \in Held
            BY <1>2, <2>1, <2>3, StoreFacts DEF Held
        <3> QED BY <1>1, <1>2, <1>3, <2>1, <3>1, PassesOn, OthersKept, OlderKept DEF InTime
    <2> QED BY <1>6, <2>2, <2>3 DEF createKubeconfigSecret, createSecret, LoginFails, issuer
<1> QED BY <1>4, <1>5, <1>6

\* Every step keeps the clients told in time.
LEMMA NextInTime == Timely /\ [Next]_vars => Timely'
<1> SUFFICES ASSUME Timely, [Next]_vars PROVE InTime'
    BY NextInv DEF Timely
<1>1. SessionInv /\ TypeOK /\ SessionInv' /\ Newest \in Nat
    BY NextInv, Numbers DEF Timely, SessionInv
<1>2. ASSUME UNCHANGED <<copy, got, secret, ttl, displaced, login>>
      PROVE  Passes
    BY <1>1, <1>2, PassesOn DEF Held, LoggingIn, Newest
<1>3. ASSUME NEW s \in Sessions, startProcess(s) PROVE InTime'
    <2>1. /\ UNCHANGED <<wait, copy, got, told, secret, ttl, displaced, login>>
          /\ conn' = [conn EXCEPT ![s] = "running"] /\ token' = [token EXCEPT ![s] = "get"]
        BY <1>3 DEF startProcess, issuer
    <2>2. /\ conn'[s] = "running" /\ token'[s] = "get"
          /\ \A q \in Sessions : q # s => conn'[q] = conn[q] /\ token'[q] = token[q]
        BY <1>1, <2>1 DEF TypeOK
    <2>3. Passes /\ \A q \in Sessions : q # s => OnTime(q)'
        BY <1>1, <1>2, <2>1, <2>2, OthersKept
    <2>4. OnTime(s) /\ conn[s] = "new" /\ Newest' = Newest
        BY <1>3, <2>1 DEF Timely, InTime, startProcess, Newest
    <2>5. OnTime(s)'
        BY <2>1, <2>2, <2>4 DEF OnTime
    <2> QED BY <2>3, <2>5, OlderKept DEF InTime
<1>4. ASSUME NEW s \in Sessions, Close(s) PROVE InTime'
    <2>1. /\ UNCHANGED <<wait, token, copy, got, secret, ttl, displaced, login>>
          /\ conn' = [conn EXCEPT ![s] = "closed"] /\ told' = [told EXCEPT ![s] = "nothing"]
        BY <1>4 DEF Close
    <2>2. /\ told'[s] = "nothing"
          /\ \A q \in Sessions : q # s => conn'[q] = conn[q] /\ told'[q] = told[q]
        BY <1>1, <2>1 DEF TypeOK
    <2>3. Passes /\ \A q \in Sessions : q # s => OnTime(q)'
        BY <1>1, <1>2, <2>1, <2>2, OthersKept
    <2>4. OnTime(s) /\ Newest' = Newest
        BY <2>1 DEF Timely, InTime, Newest
    <2>5. OnTime(s)'
        BY <2>1, <2>2, <2>4 DEF OnTime
    <2> QED BY <2>3, <2>5, OlderKept DEF InTime
<1>5. CASE UNCHANGED vars
    <2>1. UNCHANGED <<conn, wait, token, copy, got, told, secret, ttl, displaced, login>>
        BY <1>5 DEF vars, routine, issuer
    <2>2. Passes /\ \A q \in Sessions : OnTime(q)'
        BY <1>1, <1>2, <2>1, OthersKept
    <2> QED BY <2>2, OlderKept DEF InTime
<1> QED BY <1>1, <1>3, <1>4, <1>5, GetInTime, RefreshInTime, UpdateInTime, TickInTime, LoginInTime
        DEF Next, TokenStep

\* checkTokenAndRefreshIfNeeded and onFailedUpdatingToken never sleep so long
\* that a client believes in a token that expired more than a minute ago,
\* whoever else refreshes, logs in or deletes the secret meanwhile, while the
\* secret holds the newest token that was stored.
THEOREM ClientsAreTold == Spec => []ToldInTime
<1>1. Init => Timely
    BY InitInv, InitInTime DEF Timely
<1>2. Timely => ToldInTime
    <2> SUFFICES ASSUME Timely, NEW s \in Sessions, secret # NoToken, told[s] = "valid",
                        displaced = NoToken
                 PROVE  ~(ttl[secret] < -minute)
        BY DEF ToldInTime
    <2>1. SessionInv /\ TypeOK /\ secret \in HeldTokens /\ secret \in Tokens /\ secret \in Nat
        BY HeldWereIssued, TokenNumbers DEF Timely, SessionInv
    <2>2. Newest <= secret
        BY <2>1 DEF Newest, Max2, NoToken
    <2>3. wait[s] <= ttl[secret] + minute
        BY <2>1, <2>2 DEF Timely, InTime, OnTime
    <2> QED BY <2>1, <2>3, Numbers
<1> QED BY <1>1, <1>2, NextInTime, PTL DEF Spec
=============================================================================
