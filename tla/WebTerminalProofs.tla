-------------------------- MODULE WebTerminalProofs --------------------------
(***************************************************************************)
(* Proofs about the life of a web terminal, for any number of sessions,    *)
(* connections and faults, any lifetime and any limit on refreshes.        *)
(*                                                                         *)
(* TerminalInv is proved in three layers: types together with the restarts *)
(* left to the job; the limit on refreshes, which only the steps that      *)
(* touch the config map or a pending refresh can disturb; and what the     *)
(* script knows, which only the steps that touch the config map, the job   *)
(* or the stale flag can disturb.  CoverInv, about the policy and the pod,  *)
(* rests on the types alone.  The last part is about a terminal that was    *)
(* opened once.                                                             *)
(***************************************************************************)
EXTENDS WebTerminal, TLAPS

CMType ==
    [exists : BOOLEAN, remaining : 0 .. podLifetime, refreshes : Nat]

JobType ==
    [step : JobSteps, exp : 0 .. podLifetime, refreshes : Nat,
     failures : 0 .. backoffLimit]

\* The record of a job that does not exist.
LEMMA NoJobType == NoJob \in JobType
  BY TerminalAssumption DEF NoJob, JobType, JobSteps, backoffLimit

\* The job of a container that failed: restarted while it has restarts
\* left, finished otherwise.
LEMMA FailedJob ==
    ASSUME job \in JobType, job.failures < backoffLimit
    PROVE  /\ Failed(job) \in JobType
           /\ Failed(job).step \in {"readExp", "finished"}
           /\ Failed(job).step = "readExp" => Failed(job).failures < backoffLimit
<1> DEFINE n == job.failures + 1
           step == IF n < backoffLimit THEN "readExp" ELSE "finished"
<1>1. n \in 0 .. backoffLimit
  BY TerminalAssumption DEF JobType, backoffLimit
<1>2. Failed(job) = [NoJob EXCEPT !.step = step, !.failures = n]
  BY DEF Failed
<1>3. step \in JobSteps /\ step \in {"readExp", "finished"}
  BY DEF JobSteps
<1>4. step = "readExp" => n < backoffLimit
  OBVIOUS
<1> HIDE DEF n, step
<1>5. /\ Failed(job).step = step /\ Failed(job).failures = n
      /\ Failed(job) \in JobType
  BY <1>1, <1>2, <1>3, NoJobType DEF JobType
<1> QED
  BY <1>3, <1>4, <1>5

\* A config map written by startProcess or by a refresh.
LEMMA WrittenConfigMap ==
    ASSUME NEW n \in Nat
    PROVE  genWebTerminalConfigMap(n) \in CMType
  BY TerminalAssumption DEF genWebTerminalConfigMap, CMType

\* Nothing exists before the first connection.
LEMMA TerminalInit == Init => TerminalInv
<1> SUFFICES ASSUME Init PROVE TerminalInv
  OBVIOUS
<1>1. TypeOK
  <2>1. cm \in CMType
    BY TerminalAssumption DEF Init, NoConfigMap, CMType
  <2>2. job \in JobType
    BY NoJobType DEF Init
  <2>3. /\ sess \in [Sessions -> SessionSteps]
        /\ pending \in [Sessions -> Nat \cup {NoRefresh}]
    BY DEF Init, SessionSteps
  <2>4. /\ pod \in PodPhases
        /\ connects \in 0 .. MaxConnects /\ faults \in 0 .. MaxFaults
    BY TerminalAssumption DEF Init, PodPhases
  <2>5. policy \in BOOLEAN /\ stale \in BOOLEAN /\ bared \in BOOLEAN
    BY DEF Init
  <2> QED
    BY <2>1, <2>2, <2>3, <2>4, <2>5 DEF TypeOK, JobType, CMType
<1>2. RestartsLeft /\ ScriptInformed
  BY DEF Init, RestartsLeft, ScriptInformed, NoJob, Deleting
<1>3. RefreshesWithinLimit /\ PendingBelowLimit
  BY TerminalAssumption
     DEF Init, RefreshesWithinLimit, PendingBelowLimit, NoConfigMap, NoRefresh
<1> QED
  BY <1>1, <1>2, <1>3 DEF TerminalInv

-----------------------------------------------------------------------------
\* Types, and the restarts left to an unfinished job.
LEMMA TypeNext ==
    ASSUME TypeOK, RestartsLeft, [Next]_vars
    PROVE  (TypeOK /\ RestartsLeft)'
<1> USE TerminalAssumption
    DEF TypeOK, RestartsLeft, PodPhases, JobSteps, SessionSteps, NoRefresh,
        cluster, session, bounds
<1>1. ASSUME NEW s \in Sessions, Connect(s) PROVE (TypeOK /\ RestartsLeft)'
  BY <1>1 DEF Connect, Goto
<1>2. ASSUME NEW s \in Sessions, GetPod(s) PROVE (TypeOK /\ RestartsLeft)'
  BY <1>2 DEF GetPod, Goto
<1>3. ASSUME NEW s \in Sessions, CreatePolicy(s) PROVE (TypeOK /\ RestartsLeft)'
  BY <1>3 DEF CreatePolicy, Goto
<1>4. ASSUME NEW s \in Sessions, UpdatePolicy(s) PROVE (TypeOK /\ RestartsLeft)'
  BY <1>4 DEF UpdatePolicy, Goto
<1>5. ASSUME NEW s \in Sessions, CreatePod(s) PROVE (TypeOK /\ RestartsLeft)'
  BY <1>5 DEF CreatePod, Goto
<1>6. ASSUME NEW s \in Sessions, CreateJob(s) PROVE (TypeOK /\ RestartsLeft)'
  BY <1>6 DEF CreateJob, Goto, genWebTerminalCleanupJob, NoJob, backoffLimit
<1>7. ASSUME NEW s \in Sessions, CreateConfigMap(s) PROVE (TypeOK /\ RestartsLeft)'
  <2>1. cm' \in CMType
    BY <1>7, WrittenConfigMap DEF CreateConfigMap, CMType
  <2>2. stale' \in BOOLEAN
    BY <1>7 DEF CreateConfigMap
  <2>3. /\ pod' = pod /\ policy' = policy /\ job' = job /\ bared' = bared
        /\ connects' = connects /\ faults' = faults
    BY <1>7 DEF CreateConfigMap
  <2>4. /\ sess' \in [Sessions -> SessionSteps]
        /\ pending' \in [Sessions -> Nat \cup {NoRefresh}]
    BY <1>7 DEF CreateConfigMap, Goto
  <2> QED
    BY <2>1, <2>2, <2>3, <2>4 DEF CMType
<1>8. ASSUME NEW s \in Sessions, UpdateConfigMap(s) PROVE (TypeOK /\ RestartsLeft)'
  <2>1. cm' \in CMType
    BY <1>8, WrittenConfigMap DEF UpdateConfigMap, CMType
  <2>2. stale' \in BOOLEAN
    BY <1>8 DEF UpdateConfigMap
  <2>3. /\ pod' = pod /\ policy' = policy /\ job' = job /\ bared' = bared
        /\ connects' = connects /\ faults' = faults
    BY <1>8 DEF UpdateConfigMap
  <2>4. /\ sess' \in [Sessions -> SessionSteps]
        /\ pending' \in [Sessions -> Nat \cup {NoRefresh}]
    BY <1>8 DEF UpdateConfigMap, Goto
  <2> QED
    BY <2>1, <2>2, <2>3, <2>4 DEF CMType
<1>9. ASSUME NEW s \in Sessions, PodReady(s) PROVE (TypeOK /\ RestartsLeft)'
  BY <1>9 DEF PodReady, Goto
<1>10. ASSUME NEW s \in Sessions, WaitTimesOut(s) PROVE (TypeOK /\ RestartsLeft)'
  BY <1>10 DEF WaitTimesOut, Goto
<1>11. ASSUME NEW s \in Sessions, StartRefresh(s) PROVE (TypeOK /\ RestartsLeft)'
  BY <1>11 DEF StartRefresh
<1>12. ASSUME NEW s \in Sessions, FinishRefresh(s) PROVE (TypeOK /\ RestartsLeft)'
  <2>1. cm' \in CMType
    BY <1>12, WrittenConfigMap DEF FinishRefresh, CMType
  <2>2. stale' \in BOOLEAN
    BY <1>12 DEF FinishRefresh
  <2>3. /\ pod' = pod /\ policy' = policy /\ job' = job /\ bared' = bared
        /\ connects' = connects /\ faults' = faults
    BY <1>12 DEF FinishRefresh
  <2>4. /\ sess' \in [Sessions -> SessionSteps]
        /\ pending' \in [Sessions -> Nat \cup {NoRefresh}]
    BY <1>12 DEF FinishRefresh, Goto
  <2> QED
    BY <2>1, <2>2, <2>3, <2>4 DEF CMType
<1>13. ASSUME NEW s \in Sessions, SessionEnds(s) PROVE (TypeOK /\ RestartsLeft)'
  BY <1>13 DEF SessionEnds, Goto
<1>14. ASSUME NEW s \in Sessions, StreamBreaks(s) PROVE (TypeOK /\ RestartsLeft)'
  BY <1>14 DEF StreamBreaks, Goto
<1>15. ASSUME NEW s \in Sessions, CallFails(s) PROVE (TypeOK /\ RestartsLeft)'
  BY <1>15 DEF CallFails
<1>16. ASSUME ReadExpiration PROVE (TypeOK /\ RestartsLeft)'
  BY <1>16 DEF ReadExpiration
<1>17. ASSUME ReadRefreshes PROVE (TypeOK /\ RestartsLeft)'
  BY <1>17 DEF ReadRefreshes
<1>18. ASSUME Decide PROVE (TypeOK /\ RestartsLeft)'
  BY <1>18 DEF Decide, JobAt
<1>19. ASSUME WakeAndExit PROVE (TypeOK /\ RestartsLeft)'
  BY <1>19, FailedJob DEF WakeAndExit, JobType
<1>20. ASSUME DeletePolicy PROVE (TypeOK /\ RestartsLeft)'
  BY <1>20 DEF DeletePolicy, JobAt
<1>21. ASSUME DeleteConfigMap PROVE (TypeOK /\ RestartsLeft)'
  BY <1>21 DEF DeleteConfigMap, JobAt, NoConfigMap
<1>22. ASSUME DeletePod PROVE (TypeOK /\ RestartsLeft)'
  BY <1>22, FailedJob DEF DeletePod, JobType, NoJob, backoffLimit
<1>23. ASSUME ReadFails PROVE (TypeOK /\ RestartsLeft)'
  <2>1. CASE job.step = "readExp"
    <3>1. job' = [job EXCEPT !.step = "readRefreshes", !.exp = 0]
      BY <1>23, <2>1 DEF ReadFails
    <3>0. 0 \in 0 .. podLifetime /\ job \in JobType
      BY DEF JobType
    <3>2. job' \in JobType /\ job'.step = "readRefreshes" /\ job'.failures = job.failures
      BY <3>0, <3>1, Zenon DEF JobType
    <3>3. stale' \in BOOLEAN
      BY <1>23 DEF ReadFails
    <3> QED
      BY <1>23, <2>1, <3>2, <3>3 DEF ReadFails, JobType
  <2>2. CASE job.step = "readRefreshes"
    <3>1. job' = [job EXCEPT !.step = "decide", !.refreshes = 0]
      BY <1>23, <2>2 DEF ReadFails
    <3>2. job' \in JobType /\ job'.step = "decide" /\ job'.failures = job.failures
      BY <3>1 DEF JobType
    <3>3. stale' \in BOOLEAN
      BY <1>23 DEF ReadFails
    <3> QED
      BY <1>23, <2>2, <3>2, <3>3 DEF ReadFails, JobType
  <2> QED
    BY <1>23, <2>1, <2>2 DEF ReadFails
<1>24. ASSUME RemoveFinishedJob PROVE (TypeOK /\ RestartsLeft)'
  BY <1>24 DEF RemoveFinishedJob, NoJob, backoffLimit
<1>25. ASSUME JobContainerFails PROVE (TypeOK /\ RestartsLeft)'
  BY <1>25, FailedJob DEF JobContainerFails, JobType
<1>26. ASSUME PodStarts PROVE (TypeOK /\ RestartsLeft)'
  BY <1>26 DEF PodStarts
<1>27. ASSUME PodFails PROVE (TypeOK /\ RestartsLeft)'
  BY <1>27 DEF PodFails
<1>28. ASSUME Tick PROVE (TypeOK /\ RestartsLeft)'
  BY <1>28 DEF Tick, Less
<1>29. CASE UNCHANGED vars
  BY <1>29 DEF vars
<1> QED
  BY <1>1, <1>2, <1>3, <1>4, <1>5, <1>6, <1>7, <1>8, <1>9, <1>10,
     <1>11, <1>12, <1>13, <1>14, <1>15, <1>16, <1>17, <1>18, <1>19, <1>20,
     <1>21, <1>22, <1>23, <1>24, <1>25, <1>26, <1>27, <1>28, <1>29
     DEF Next, Session, SetUp, Script

-----------------------------------------------------------------------------
\* No step stores, or is about to store, more than the maximum number of
\* refreshes.
LEMMA LimitNext ==
    ASSUME TypeOK, RefreshesWithinLimit, PendingBelowLimit, [Next]_vars
    PROVE  (RefreshesWithinLimit /\ PendingBelowLimit)'
<1> USE TerminalAssumption DEF TypeOK, RefreshesWithinLimit, PendingBelowLimit, NoRefresh
<1>1. ASSUME UNCHANGED <<cm, pending>>
      PROVE  (RefreshesWithinLimit /\ PendingBelowLimit)'
  BY <1>1
<1>2. ASSUME NEW s \in Sessions, CreateConfigMap(s) \/ UpdateConfigMap(s)
      PROVE  (RefreshesWithinLimit /\ PendingBelowLimit)'
  <2>1. cm' = cm \/ cm' = genWebTerminalConfigMap(0)
    BY <1>2 DEF CreateConfigMap, UpdateConfigMap
  <2>2. RefreshesWithinLimit'
    BY <2>1 DEF genWebTerminalConfigMap
  <2> QED
    BY <1>2, <2>2 DEF CreateConfigMap, UpdateConfigMap, genWebTerminalConfigMap
<1>3. ASSUME NEW s \in Sessions, StartRefresh(s)
      PROVE  (RefreshesWithinLimit /\ PendingBelowLimit)'
  BY <1>3 DEF StartRefresh, cluster
<1>4. ASSUME NEW s \in Sessions, FinishRefresh(s)
      PROVE  (RefreshesWithinLimit /\ PendingBelowLimit)'
  <2>1. pending[s] \in Nat /\ pending[s] + 1 <= maxNumberOfExpirationRefreshes
    BY <1>4 DEF FinishRefresh
  <2> QED
    BY <1>4, <2>1 DEF FinishRefresh, genWebTerminalConfigMap
<1>5. ASSUME NEW s \in Sessions, CallFails(s)
      PROVE  (RefreshesWithinLimit /\ PendingBelowLimit)'
  BY <1>5 DEF CallFails, cluster
<1>6. ASSUME DeleteConfigMap
      PROVE  (RefreshesWithinLimit /\ PendingBelowLimit)'
  BY <1>6 DEF DeleteConfigMap, NoConfigMap, session
<1>7. ASSUME Tick
      PROVE  (RefreshesWithinLimit /\ PendingBelowLimit)'
  BY <1>7 DEF Tick, session
<1> QED
  <2>1. ASSUME NEW s \in Sessions, Session(s)
        PROVE  (RefreshesWithinLimit /\ PendingBelowLimit)'
    BY <2>1, <1>1, <1>2, <1>3, <1>4, <1>5
       DEF Session, SetUp, cluster, Connect, GetPod, CreatePolicy, UpdatePolicy,
           CreatePod, CreateJob, PodReady, WaitTimesOut, SessionEnds, StreamBreaks
  <2>2. ASSUME Script \/ ReadFails \/ RemoveFinishedJob \/ JobContainerFails
        PROVE  (RefreshesWithinLimit /\ PendingBelowLimit)'
    BY <2>2, <1>1, <1>6
       DEF Script, session, ReadExpiration, ReadRefreshes, Decide, WakeAndExit,
           DeletePolicy, DeletePod, ReadFails, RemoveFinishedJob, JobContainerFails
  <2>3. ASSUME PodStarts \/ PodFails \/ UNCHANGED vars
        PROVE  (RefreshesWithinLimit /\ PendingBelowLimit)'
    BY <2>3, <1>1 DEF PodStarts, PodFails, vars, session
  <2> QED
    BY <2>1, <2>2, <2>3, <1>7 DEF Next

-----------------------------------------------------------------------------
\* What an up-to-date script knows stays right: another writer of the
\* config map makes it stale, and time passes for both copies alike.
LEMMA InformedNext ==
    ASSUME TypeOK, RestartsLeft, ScriptInformed, [Next]_vars
    PROVE  ScriptInformed'
<1> USE TerminalAssumption DEF TypeOK, ScriptInformed, Deleting, Live, StillAlive
<1>1. ASSUME UNCHANGED <<cm, job, stale>> PROVE ScriptInformed'
  BY <1>1
<1>2. ASSUME NEW s \in Sessions, CreateJob(s) PROVE ScriptInformed'
  BY <1>2 DEF CreateJob, genWebTerminalCleanupJob, NoJob
<1>3. ASSUME NEW s \in Sessions,
             CreateConfigMap(s) \/ UpdateConfigMap(s) \/ FinishRefresh(s)
      PROVE  ScriptInformed'
  BY <1>3 DEF CreateConfigMap, UpdateConfigMap, FinishRefresh
<1>4. ASSUME ReadExpiration PROVE ScriptInformed'
  BY <1>4 DEF ReadExpiration
<1>5. ASSUME ReadRefreshes PROVE ScriptInformed'
  BY <1>5 DEF ReadRefreshes
<1>6. ASSUME ReadFails PROVE ScriptInformed'
  BY <1>6 DEF ReadFails
<1>7. ASSUME Decide PROVE ScriptInformed'
  BY <1>7 DEF Decide, JobAt
<1>8. ASSUME job' = Failed(job), UNCHANGED <<cm, stale>>,
             job.step \notin {"none", "finished"}
      PROVE  ScriptInformed'
  <2>1. Failed(job).step \in {"readExp", "finished"}
    BY <1>8, FailedJob DEF RestartsLeft, JobType
  <2> QED
    BY <1>8, <2>1
<1>9. ASSUME DeletePolicy PROVE ScriptInformed'
  BY <1>9 DEF DeletePolicy, JobAt
<1>10. ASSUME DeleteConfigMap PROVE ScriptInformed'
  BY <1>10 DEF DeleteConfigMap, JobAt, NoConfigMap
<1>11. ASSUME DeletePod PROVE ScriptInformed'
  <2>1. CASE pod = "none"
    BY <1>11, <2>1, <1>8 DEF DeletePod
  <2>2. CASE pod # "none"
    BY <1>11, <2>2 DEF DeletePod, NoJob
  <2> QED
    BY <2>1, <2>2
<1>12. ASSUME RemoveFinishedJob PROVE ScriptInformed'
  BY <1>12 DEF RemoveFinishedJob, NoJob
<1>13. ASSUME Tick PROVE ScriptInformed'
  BY <1>13 DEF Tick, Less
<1> QED
  <2>1. ASSUME NEW s \in Sessions, Session(s) PROVE ScriptInformed'
    BY <2>1, <1>1, <1>2, <1>3
       DEF Session, SetUp, cluster, Connect, GetPod, CreatePolicy, UpdatePolicy,
           CreatePod, PodReady, WaitTimesOut, StartRefresh, SessionEnds,
           StreamBreaks, CallFails
  <2>2. ASSUME Script \/ ReadFails \/ RemoveFinishedJob PROVE ScriptInformed'
    BY <2>2, <1>4, <1>5, <1>6, <1>7, <1>8, <1>9, <1>10, <1>11, <1>12
       DEF Script, WakeAndExit
  <2>3. ASSUME JobContainerFails PROVE ScriptInformed'
    BY <2>3, <1>8 DEF JobContainerFails
  <2>4. ASSUME PodStarts \/ PodFails \/ UNCHANGED vars PROVE ScriptInformed'
    BY <2>4, <1>1 DEF PodStarts, PodFails, vars
  <2> QED
    BY <2>1, <2>2, <2>3, <2>4, <1>13 DEF Next

-----------------------------------------------------------------------------
\* The three layers together.
THEOREM TerminalInvariant == Spec => []TerminalInv
<1>1. TerminalInv /\ [Next]_vars => TerminalInv'
  BY TypeNext, LimitNext, InformedNext DEF TerminalInv
<1> QED
  BY <1>1, TerminalInit, PTL DEF Spec

\* The terminal stays well typed: the job never fails more often than its
\* backoff limit.
THEOREM TerminalTypeCorrect == Spec => []TypeOK
<1>1. TerminalInv => TypeOK
  BY DEF TerminalInv
<1> QED
  BY <1>1, TerminalInvariant, PTL

\* However many sessions refresh, reset and reconnect concurrently, the
\* config map never holds more than the maximum number of refreshes.
THEOREM TerminalRefreshesWithinLimit == Spec => []RefreshesWithinLimit
<1>1. TerminalInv => RefreshesWithinLimit
  BY DEF TerminalInv
<1> QED
  BY <1>1, TerminalInvariant, PTL

\* The cleanup script deletes a live terminal only if the terminal was
\* created or renewed after the script looked, or kubectl failed.
THEOREM TerminalDeletesLiveOnlyIfStale == Spec => []DeletesLiveOnlyIfStale
<1>1. TerminalInv => DeletesLiveOnlyIfStale
  BY DEF TerminalInv, TypeOK, ScriptInformed, DeletesLiveOnlyIfStale
<1> QED
  BY <1>1, TerminalInvariant, PTL

-----------------------------------------------------------------------------
\* A session goes on to create its pod only with a policy, unless the script
\* has deleted it since.
PodToBeCovered == \A s \in Sessions : sess[s] = "createPod" => policy \/ bared

CoverInv == PolicyCoversPod /\ PodToBeCovered

\* The steps that create or delete the policy or the pod, end the script or
\* bring a session to its pod.
LEMMA CoverNext ==
    ASSUME TypeOK, CoverInv, [Next]_vars
    PROVE  CoverInv'
<1> USE DEF CoverInv, PolicyCoversPod, PodToBeCovered
<1>1. ASSUME UNCHANGED <<pod, policy, bared>>, job'.step = job.step,
             \A s \in Sessions : sess'[s] = "createPod" => sess[s] = "createPod"
      PROVE  CoverInv'
  BY <1>1
<1>2. ASSUME UNCHANGED <<pod, policy, bared>>, UNCHANGED sess,
             job.step \notin {"deleteConfigMap", "deletePod"}
      PROVE  CoverInv'
  BY <1>2
<1>3. ASSUME NEW s \in Sessions, Session(s) PROVE CoverInv'
  <2>1. CASE CreatePolicy(s)
    <3>1. policy' /\ pod' = pod
      BY <2>1 DEF CreatePolicy
    <3> QED BY <3>1
  <2>2. CASE UpdatePolicy(s)
    <3>1. /\ UNCHANGED <<pod, policy, bared, job>>
          /\ \A t \in Sessions : sess'[t] = "createPod" => policy \/ sess[t] = "createPod"
      BY <2>2 DEF UpdatePolicy, Goto, cluster, TypeOK
    <3> QED BY <3>1
  <2>3. CASE CreatePod(s)
    <3>1. /\ UNCHANGED <<policy, bared, job>> /\ sess[s] = "createPod"
          /\ \A t \in Sessions : sess'[t] = "createPod" => sess[t] = "createPod"
      BY <2>3 DEF CreatePod, Goto, TypeOK
    <3> QED BY <3>1
  <2>4. CASE CreateJob(s)
    <3>1. /\ UNCHANGED <<pod, policy, bared>>
          /\ job' = job \/ job.step = "none"
          /\ \A t \in Sessions : sess'[t] = "createPod" => sess[t] = "createPod"
      BY <2>4 DEF CreateJob, Goto, TypeOK
    <3> QED BY <3>1
  <2>5. CASE \/ Connect(s) \/ GetPod(s) \/ CreateConfigMap(s) \/ UpdateConfigMap(s)
             \/ PodReady(s) \/ WaitTimesOut(s) \/ StartRefresh(s) \/ FinishRefresh(s)
             \/ SessionEnds(s) \/ StreamBreaks(s) \/ CallFails(s)
    <3>1. UNCHANGED <<pod, policy, bared, job>>
      BY <2>5 DEF Connect, GetPod, CreateConfigMap, UpdateConfigMap, PodReady, WaitTimesOut,
                  StartRefresh, FinishRefresh, SessionEnds, StreamBreaks, CallFails, cluster
    <3>2. PICK x \in SessionSteps \ {"createPod"} :
             sess' = sess \/ sess' = [sess EXCEPT ![s] = x]
      BY <2>5 DEF Connect, GetPod, CreateConfigMap, UpdateConfigMap, PodReady, WaitTimesOut,
                  StartRefresh, FinishRefresh, SessionEnds, StreamBreaks, CallFails, Goto,
                  SessionSteps
    <3>3. \A t \in Sessions : sess'[t] = "createPod" => sess[t] = "createPod"
      BY <3>2 DEF TypeOK
    <3> QED BY <1>1, <3>1, <3>3
  <2> QED BY <1>3, <2>1, <2>2, <2>3, <2>4, <2>5 DEF Session, SetUp
<1>4. CASE DeletePolicy
  <2>1. /\ pod' = pod /\ sess' = sess /\ job'.step = "deleteConfigMap"
        /\ bared' = (bared \/ PodOnItsWay)
    BY <1>4 DEF DeletePolicy, JobAt, session, TypeOK
  <2> QED BY <2>1 DEF PodOnItsWay
<1>5. CASE DeleteConfigMap
  <2>1. UNCHANGED <<pod, policy, bared, sess>> /\ job'.step = "deletePod"
    BY <1>5 DEF DeleteConfigMap, JobAt, session, TypeOK
  <2> QED BY <1>5, <2>1 DEF DeleteConfigMap, JobAt
<1>6. CASE DeletePod
  <2>1. pod' = "none" /\ UNCHANGED <<policy, sess>> /\ bared' = (bared /\ PodOnItsWay)
    BY <1>6 DEF DeletePod, session
  <2> QED BY <2>1 DEF PodOnItsWay
<1>7. CASE JobContainerFails
  <2>1. /\ UNCHANGED <<pod, policy, sess>>
        /\ bared' = (bared \/ (job.step \in {"deleteConfigMap", "deletePod"} /\ ~policy))
    BY <1>7 DEF JobContainerFails, session
  <2> QED BY <2>1
<1>8. CASE ReadExpiration \/ ReadRefreshes \/ Decide \/ WakeAndExit \/ ReadFails \/ RemoveFinishedJob
  <2>1. UNCHANGED <<pod, policy, bared, sess>> /\ job.step \notin {"deleteConfigMap", "deletePod"}
    BY <1>8 DEF ReadExpiration, ReadRefreshes, Decide, WakeAndExit, ReadFails, RemoveFinishedJob,
                JobAt, session
  <2> QED BY <1>2, <2>1
<1>9. CASE PodStarts \/ PodFails
  <2>1. UNCHANGED <<policy, bared, sess, job>> /\ pod # "none"
    BY <1>9 DEF PodStarts, PodFails, session
  <2> QED BY <2>1
<1>10. CASE Tick \/ UNCHANGED vars
  <2>1. UNCHANGED <<pod, policy, bared, sess>> /\ job'.step = job.step
    BY <1>10 DEF Tick, session, vars, TypeOK
  <2> QED BY <1>1, <2>1
<1> QED BY <1>3, <1>4, <1>5, <1>6, <1>7, <1>8, <1>9, <1>10 DEF Next, Script

\* Of any number of sessions, connections and faults, only the script deleting
\* the policy under a session that is about to create the pod, or being killed
\* on its way from the policy to the pod, leaves a pod without its policy:
\* createOrUpdateResources creates the policy first, the script deletes it only
\* on its way to the pod.
THEOREM PodIsCovered == Spec => []PolicyCoversPod
<1>1. Init => CoverInv
  BY DEF Init, CoverInv, PolicyCoversPod, PodToBeCovered
<1>2. TerminalInv /\ CoverInv /\ [Next]_vars => CoverInv'
  BY CoverNext DEF TerminalInv
<1>3. CoverInv => PolicyCoversPod
  BY DEF CoverInv
<1> QED
  BY <1>1, <1>2, <1>3, TerminalInvariant, PTL DEF Spec

-----------------------------------------------------------------------------
(* A terminal that was opened once, and whose calls, pods and jobs did not  *)
(* fail: until a second connection or a fault, for any value of the         *)
(* constants.                                                               *)

\* The session has a handler, or a refresh that outlives it.
Active(s) == sess[s] # "closed" \/ pending[s] # NoRefresh

\* Before the first connection there is nothing, and then one session.
OneSession ==
    /\ \A s, t \in Sessions : Active(s) /\ Active(t) => s = t
    /\ connects = 0 => /\ \A s \in Sessions : ~Active(s)
                       /\ pod = "none" /\ job.step = "none" /\ ~cm.exists /\ ~stale

\* What is there when the session is at each of its steps.
Opening == {"getPod", "createPolicy", "updatePolicy", "createPod"}
Stage(s) ==
    /\ sess[s] \in Opening => pod = "none"
    /\ sess[s] \in Opening \cup {"createJob"} => job.step = "none" /\ ~stale
    /\ sess[s] = "createPod" => policy
    /\ sess[s] = "createJob" => pod # "none"
    /\ sess[s] \in Opening \cup {"createJob", "createConfigMap"} => ~cm.exists
    /\ sess[s] \in Opening \cup {"createJob", "createConfigMap", "waitPod"}
         => pending[s] = NoRefresh
    /\ sess[s] # "updateConfigMap"
    /\ pending[s] # NoRefresh /\ cm.exists => pending[s] = cm.refreshes

\* The job is created after the pod, and it is the only one to delete it.
JobHasPod ==
    /\ job.step \notin {"none", "finished"} => pod # "none"
    /\ ~cm.exists => cm.remaining = 0

\* The script has slept no more often than the config map was written, counting
\* a sleep that has begun and a write that it has not seen.
Writes == IF cm.exists THEN cm.refreshes + 1 ELSE 0
Unseen == IF stale THEN 1 ELSE 0
Sleeps == IF \/ job.step = "sleep"
             \/ job.step \in {"readRefreshes", "decide"} /\ job.exp > 0
          THEN 1 ELSE 0
SleepsCounted ==
    job.step \in {"readExp", "readRefreshes", "decide", "sleep"} =>
        /\ job.failures + Unseen + Sleeps <= Writes
        /\ ~stale /\ job.step # "readExp" => cm.remaining <= job.exp
        /\ ~stale /\ job.step = "readExp" => cm.remaining = 0

Undisturbed ==
    OneSession /\ (\A s \in Sessions : Stage(s)) /\ JobHasPod /\ SleepsCounted

\* Before the first connection.
LEMMA UndisturbedInit == Init => Undisturbed
BY DEF Init, Undisturbed, OneSession, Active, Stage, Opening, JobHasPod,
       SleepsCounted, NoConfigMap, NoJob

\* While one session is active the others are not at any step.
LEMMA OthersIdle ==
    ASSUME TypeOK, OneSession, NEW s \in Sessions, Active(s),
           NEW x \in SessionSteps, sess' = [sess EXCEPT ![s] = x],
           \A q \in Sessions : q # s => pending'[q] = pending[q]
    PROVE  /\ sess'[s] = x /\ connects # 0
           /\ \A q \in Sessions : q # s => sess'[q] = "closed" /\ pending'[q] = NoRefresh
           /\ connects' = connects => OneSession'
BY DEF TypeOK, OneSession, Active

\* The steps of the session up to its job.
LEMMA SetUpUndisturbed ==
    ASSUME TerminalInv, Undisturbed, NEW s \in Sessions,
           GetPod(s) \/ CreatePolicy(s) \/ UpdatePolicy(s) \/ CreatePod(s) \/ CreateJob(s)
    PROVE  Undisturbed'
<1>1. TypeOK /\ RestartsLeft /\ OneSession /\ \A q \in Sessions : Stage(q)
    BY DEF TerminalInv, Undisturbed
<1>2. UNCHANGED <<cm, stale, pending, connects>>
    BY DEF GetPod, CreatePolicy, UpdatePolicy, CreatePod, CreateJob, cluster, bounds
<1>3. sess[s] \in Opening \cup {"createJob"} /\ Active(s)
    BY DEF GetPod, CreatePolicy, UpdatePolicy, CreatePod, CreateJob, Goto, Opening, Active
<1>4. job.step = "none" /\ ~stale /\ ~cm.exists /\ pending[s] = NoRefresh
    BY <1>1, <1>3 DEF Stage
<1>5. ASSUME NEW x \in SessionSteps, sess' = [sess EXCEPT ![s] = x], Stage(s)'
      PROVE  OneSession' /\ \A q \in Sessions : Stage(q)'
    <2>1. /\ OneSession'
          /\ \A q \in Sessions : q # s => sess'[q] = "closed" /\ pending'[q] = NoRefresh
        BY <1>1, <1>2, <1>3, <1>5, OthersIdle
    <2> QED BY <1>5, <2>1 DEF Stage, Opening
<1>6. CASE GetPod(s)
    <2>1. pod = "none"
        BY <1>1, <1>6 DEF Stage, Opening, GetPod, Goto
    <2>2. /\ UNCHANGED <<pod, policy, job>>
          /\ sess' = [sess EXCEPT ![s] = "createPolicy"] /\ sess'[s] = "createPolicy"
        BY <1>1, <1>6, <2>1 DEF GetPod, cluster, Goto, TypeOK
    <2>3. Stage(s)'
        BY <1>2, <1>4, <2>1, <2>2 DEF Stage, Opening
    <2>4. "createPolicy" \in SessionSteps
        BY DEF SessionSteps
    <2> QED BY <1>2, <1>5, <2>2, <2>3, <2>4
            DEF Undisturbed, JobHasPod, SleepsCounted, Writes, Unseen, Sleeps
<1>7. CASE CreatePolicy(s)
    <2>1. pod = "none" /\ UNCHANGED <<pod, job>> /\ policy'
        BY <1>1, <1>7 DEF Stage, Opening, CreatePolicy, Goto
    <2>2. PICK x \in {"updatePolicy", "createPod"} : sess' = [sess EXCEPT ![s] = x] /\ sess'[s] = x
        BY <1>1, <1>7 DEF CreatePolicy, Goto, TypeOK
    <2>3. Stage(s)'
        BY <1>2, <1>4, <2>1, <2>2 DEF Stage, Opening
    <2>4. x \in SessionSteps
        BY DEF SessionSteps
    <2> QED BY <1>2, <1>5, <2>1, <2>2, <2>3, <2>4
            DEF Undisturbed, JobHasPod, SleepsCounted, Writes, Unseen, Sleeps
<1>8. CASE UpdatePolicy(s)
    <2>1. pod = "none" /\ UNCHANGED <<pod, policy, job>>
        BY <1>1, <1>8 DEF Stage, Opening, UpdatePolicy, Goto, cluster
    <2>2. PICK x \in {"closed", "createPod"} :
             sess' = [sess EXCEPT ![s] = x] /\ sess'[s] = x /\ (x = "createPod" => policy)
        BY <1>1, <1>8 DEF UpdatePolicy, Goto, TypeOK
    <2>3. Stage(s)'
        BY <1>2, <1>4, <2>1, <2>2 DEF Stage, Opening
    <2>4. x \in SessionSteps
        BY DEF SessionSteps
    <2> QED BY <1>2, <1>5, <2>1, <2>2, <2>3, <2>4
            DEF Undisturbed, JobHasPod, SleepsCounted, Writes, Unseen, Sleeps
<1>9. CASE CreatePod(s)
    <2>1. policy /\ pod' # "none" /\ UNCHANGED <<policy, job>>
        BY <1>1, <1>9 DEF Stage, Opening, CreatePod, Goto
    <2>2. sess' = [sess EXCEPT ![s] = "createJob"] /\ sess'[s] = "createJob"
        BY <1>1, <1>9 DEF CreatePod, Goto, TypeOK
    <2>3. Stage(s)'
        BY <1>2, <1>4, <2>1, <2>2 DEF Stage, Opening
    <2>4. "createJob" \in SessionSteps
        BY DEF SessionSteps
    <2> QED BY <1>2, <1>5, <2>1, <2>2, <2>3, <2>4
            DEF Undisturbed, JobHasPod, SleepsCounted, Writes, Unseen, Sleeps
<1>10. CASE CreateJob(s)
    <2>1. pod # "none" /\ UNCHANGED <<pod, policy>>
        BY <1>1, <1>10 DEF Stage, CreateJob, Goto
    <2>2. sess' = [sess EXCEPT ![s] = "createConfigMap"] /\ sess'[s] = "createConfigMap"
        BY <1>1, <1>10 DEF CreateJob, Goto, TypeOK
    <2>3. job'.step = "readExp" /\ job'.failures = 0
        BY <1>4, <1>10 DEF CreateJob, genWebTerminalCleanupJob, NoJob
    <2>4. Stage(s)'
        BY <1>2, <1>4, <2>1, <2>2 DEF Stage, Opening
    <2>5. "createConfigMap" \in SessionSteps
        BY DEF SessionSteps
    <2>6. SleepsCounted'
        BY <1>2, <1>4, <2>3 DEF SleepsCounted, Writes, Unseen, Sleeps, Undisturbed, JobHasPod
    <2>7. JobHasPod'
        BY <1>2, <1>4, <2>1 DEF Undisturbed, JobHasPod
    <2> QED BY <1>5, <2>2, <2>4, <2>5, <2>6, <2>7 DEF Undisturbed
<1> QED BY <1>6, <1>7, <1>8, <1>9, <1>10

\* The connection is the first.
LEMMA ConnectUndisturbed ==
    ASSUME TerminalInv, Undisturbed, NEW s \in Sessions, Connect(s), Once'
    PROVE  Undisturbed'
<1>1. TypeOK /\ connects = 0 /\ connects' # 0
    BY DEF TerminalInv, TypeOK, Connect, Once
<1>2. /\ UNCHANGED <<pod, policy, cm, job, stale, pending>>
      /\ sess' = [sess EXCEPT ![s] = "getPod"]
    BY DEF Connect, cluster, Goto
<1>3. /\ \A q \in Sessions : sess[q] = "closed" /\ pending[q] = NoRefresh
      /\ pod = "none" /\ job.step = "none" /\ ~cm.exists /\ ~stale
    BY <1>1 DEF Undisturbed, OneSession, Active
<1>4. sess'[s] = "getPod" /\ \A q \in Sessions : q # s => sess'[q] = "closed"
    BY <1>1, <1>2, <1>3 DEF TypeOK
<1>5. OneSession'
    BY <1>1, <1>2, <1>3, <1>4 DEF OneSession, Active
<1>6. \A q \in Sessions : Stage(q)'
    BY <1>2, <1>3, <1>4 DEF Stage, Opening
<1> QED BY <1>2, <1>5, <1>6
        DEF Undisturbed, JobHasPod, SleepsCounted, Writes, Unseen, Sleeps

\* The session waits for its pod and streams, and leaves.
LEMMA StreamUndisturbed ==
    ASSUME TerminalInv, Undisturbed, NEW s \in Sessions,
           \/ PodReady(s) \/ WaitTimesOut(s) \/ SessionEnds(s) \/ StreamBreaks(s)
           \/ StartRefresh(s)
    PROVE  Undisturbed'
<1>1. TypeOK /\ OneSession /\ \A q \in Sessions : Stage(q)
    BY DEF TerminalInv, Undisturbed
<1>2. UNCHANGED <<pod, policy, cm, job, stale, connects>>
    BY DEF PodReady, WaitTimesOut, SessionEnds, StreamBreaks, StartRefresh, cluster, bounds
<1>3. sess[s] \in {"waitPod", "streaming"} /\ Active(s)
    BY DEF PodReady, WaitTimesOut, SessionEnds, StreamBreaks, StartRefresh, Goto, Active
<1>4. PICK x \in {"streaming", "closed"} : sess' = [sess EXCEPT ![s] = x]
    BY <1>1 DEF PodReady, WaitTimesOut, SessionEnds, StreamBreaks, StartRefresh, Goto, TypeOK
<1>5. \/ pending' = pending
      \/ cm.exists /\ pending' = [pending EXCEPT ![s] = cm.refreshes]
    BY DEF PodReady, WaitTimesOut, SessionEnds, StreamBreaks, StartRefresh
<1>6. /\ \A q \in Sessions : q # s => pending'[q] = pending[q]
      /\ pending'[s] \in {pending[s], cm.refreshes}
    BY <1>1, <1>5 DEF TypeOK
<1>7. x \in SessionSteps
    BY DEF SessionSteps
<1>8. /\ sess'[s] = x /\ OneSession'
      /\ \A q \in Sessions : q # s => sess'[q] = "closed" /\ pending'[q] = NoRefresh
    BY <1>1, <1>2, <1>3, <1>4, <1>6, <1>7, OthersIdle
<1>9. \A q \in Sessions : Stage(q)'
    BY <1>1, <1>2, <1>4, <1>6, <1>8 DEF Stage, Opening
<1> QED BY <1>2, <1>8, <1>9
        DEF Undisturbed, JobHasPod, SleepsCounted, Writes, Unseen, Sleeps

\* The session writes the config map: first when it is created, then with each
\* refresh.  Every write lets the script sleep once more.
LEMMA WriteUndisturbed ==
    ASSUME TerminalInv, Undisturbed, NEW s \in Sessions,
           CreateConfigMap(s) \/ UpdateConfigMap(s) \/ FinishRefresh(s)
    PROVE  Undisturbed'
<1>1. TypeOK /\ OneSession /\ \A q \in Sessions : Stage(q)
    BY DEF TerminalInv, Undisturbed
<1>2. UNCHANGED <<pod, policy, job, connects>>
    BY DEF CreateConfigMap, UpdateConfigMap, FinishRefresh, cluster, bounds
<1>3. ~UpdateConfigMap(s)
    BY <1>1 DEF Stage, UpdateConfigMap, Goto
<1>4. Active(s)
    BY <1>3 DEF CreateConfigMap, FinishRefresh, Goto, Active
<1>5. /\ job.failures \in Nat /\ cm.refreshes \in Nat
      /\ Unseen \in {0, 1} /\ Sleeps \in {0, 1}
    BY <1>1, TerminalAssumption DEF TypeOK, backoffLimit, Unseen, Sleeps
<1>6. CASE CreateConfigMap(s)
    <2>1. ~cm.exists /\ pending[s] = NoRefresh
        BY <1>1, <1>6 DEF Stage, CreateConfigMap, Goto
    <2>2. /\ sess' = [sess EXCEPT ![s] = "waitPod"] /\ cm' = genWebTerminalConfigMap(0)
          /\ stale' /\ pending' = pending
        BY <1>6, <2>1 DEF CreateConfigMap, Goto
    <2>3. cm'.exists /\ cm'.refreshes = 0
        BY <2>2 DEF genWebTerminalConfigMap
    <2>4. "waitPod" \in SessionSteps
        BY DEF SessionSteps
    <2>5. /\ sess'[s] = "waitPod" /\ OneSession'
          /\ \A q \in Sessions : q # s => sess'[q] = "closed" /\ pending'[q] = NoRefresh
        BY <1>1, <1>2, <1>4, <2>2, <2>4, OthersIdle
    <2>6. \A q \in Sessions : Stage(q)'
        BY <2>1, <2>2, <2>5 DEF Stage, Opening
    <2>7. SleepsCounted'
        <3>1. Writes = 0 /\ Writes' = 1 /\ Unseen' = 1 /\ Sleeps' = Sleeps
            BY <1>2, <2>1, <2>2, <2>3 DEF Writes, Unseen, Sleeps
        <3> QED BY <1>2, <1>5, <2>2, <3>1 DEF SleepsCounted, Undisturbed
    <2> QED BY <1>2, <2>3, <2>5, <2>6, <2>7 DEF Undisturbed, JobHasPod
<1>7. CASE FinishRefresh(s)
    <2>1. /\ pending[s] # NoRefresh /\ pending' = [pending EXCEPT ![s] = NoRefresh]
          /\ pending'[s] = NoRefresh /\ \A q \in Sessions : q # s => pending'[q] = pending[q]
        BY <1>1, <1>7 DEF FinishRefresh, TypeOK
    <2>2. sess[s] \notin Opening \cup {"createJob", "createConfigMap", "waitPod", "updateConfigMap"}
        BY <1>1, <2>1 DEF Stage
    <2>3. PICK x \in {sess[s], "closed"} : sess' = [sess EXCEPT ![s] = x]
        BY <1>1, <1>7 DEF FinishRefresh, TypeOK
    <2>4. x \in SessionSteps
        BY <1>1 DEF SessionSteps, TypeOK
    <2>5. /\ sess'[s] = x /\ OneSession'
          /\ \A q \in Sessions : q # s => sess'[q] = "closed" /\ pending'[q] = NoRefresh
        BY <1>1, <1>2, <1>4, <2>1, <2>3, <2>4, OthersIdle
    <2>6. \A q \in Sessions : Stage(q)'
        BY <2>1, <2>2, <2>3, <2>5 DEF Stage, Opening
    <2>7. CASE ~cm.exists
        <3>1. cm' = cm /\ stale' = stale
            BY <1>7, <2>7 DEF FinishRefresh
        <3> QED BY <1>2, <2>5, <2>6, <3>1
                DEF Undisturbed, JobHasPod, SleepsCounted, Writes, Unseen, Sleeps
    <2>8. CASE cm.exists
        <3>1. pending[s] = cm.refreshes /\ cm' = genWebTerminalConfigMap(pending[s] + 1) /\ stale'
            BY <1>1, <1>7, <2>1, <2>8 DEF Stage, FinishRefresh
        <3>2. cm'.exists /\ cm'.refreshes = cm.refreshes + 1
            BY <3>1 DEF genWebTerminalConfigMap
        <3>3. Writes' = Writes + 1 /\ Unseen' = 1 /\ Sleeps' = Sleeps /\ Writes \in Nat
            BY <1>2, <1>5, <2>8, <3>1, <3>2 DEF Writes, Unseen, Sleeps
        <3>4. SleepsCounted'
            BY <1>2, <1>5, <3>1, <3>3 DEF SleepsCounted, Undisturbed
        <3> QED BY <1>2, <2>5, <2>6, <3>2, <3>4 DEF Undisturbed, JobHasPod
    <2> QED BY <2>7, <2>8
<1> QED BY <1>3, <1>6, <1>7

\* The script and the cluster do not touch the session, and while there is a
\* job the session has passed the steps before it.
LEMMA SessionUntouched ==
    ASSUME Undisturbed, UNCHANGED <<sess, pending, connects>>, job.step # "none",
           \/ ~cm'.exists
           \/ cm'.exists = cm.exists /\ cm'.refreshes = cm.refreshes
    PROVE  OneSession' /\ \A q \in Sessions : Stage(q)'
<1>1. OneSession'
    BY DEF Undisturbed, OneSession, Active
<1>2. \A q \in Sessions : Stage(q)'
    BY DEF Undisturbed, Stage, Opening
<1> QED BY <1>1, <1>2

\* The script: it sleeps only on a write it had not seen, and it deletes the
\* policy only to delete the pod.
LEMMA ScriptUndisturbed ==
    ASSUME TerminalInv, Undisturbed, Script
    PROVE  Undisturbed'
<1>1. /\ TypeOK /\ RestartsLeft /\ job \in JobType
      /\ UNCHANGED <<sess, pending, connects>> /\ job.step \notin {"none", "finished"}
    BY DEF TerminalInv, TypeOK, JobType, Script, ReadExpiration, ReadRefreshes, Decide, WakeAndExit,
           DeletePolicy, DeleteConfigMap, DeletePod, JobAt, session, bounds
<1>2. /\ job.failures \in Nat /\ cm.refreshes \in Nat /\ job.exp \in Nat /\ cm.remaining \in Nat
      /\ Unseen \in {0, 1} /\ Sleeps \in {0, 1} /\ Writes \in Nat
    BY <1>1, TerminalAssumption DEF TypeOK, backoffLimit, Unseen, Sleeps, Writes
<1>3. pod # "none"
    BY <1>1 DEF Undisturbed, JobHasPod
<1>4. ASSUME UNCHANGED <<pod, policy, cm>>, SleepsCounted'
      PROVE  Undisturbed'
    BY <1>1, <1>3, <1>4, SessionUntouched DEF Undisturbed, JobHasPod
<1>5. CASE ReadExpiration
    <2>1. /\ UNCHANGED <<pod, policy, cm>> /\ ~stale'
          /\ job.step = "readExp" /\ job'.step = "readRefreshes"
          /\ job'.exp = cm.remaining /\ job'.failures = job.failures
        BY <1>1, <1>5 DEF ReadExpiration, JobType
    <2>2. Sleeps = 0 /\ Unseen' = 0 /\ Writes' = Writes
        BY <2>1 DEF Sleeps, Unseen, Writes
    <2>3. stale => Unseen = 1
        BY DEF Unseen
    <2>4. ~stale => Sleeps' = 0
        BY <2>1 DEF Undisturbed, SleepsCounted, Sleeps
    <2>5. Sleeps' \in {0, 1}
        BY DEF Sleeps
    <2>6. SleepsCounted'
        BY <1>2, <2>1, <2>2, <2>3, <2>4, <2>5 DEF SleepsCounted, Undisturbed
    <2> QED BY <1>4, <2>1, <2>6 DEF Undisturbed
<1>6. CASE ReadRefreshes
    <2>1. /\ UNCHANGED <<pod, policy, cm, stale>>
          /\ job.step = "readRefreshes" /\ job'.step = "decide"
          /\ job'.exp = job.exp /\ job'.failures = job.failures
        BY <1>1, <1>6 DEF ReadRefreshes, JobType
    <2> QED BY <1>4, <2>1 DEF Undisturbed, SleepsCounted, Sleeps, Unseen, Writes
<1>7. CASE Decide
    <2>1. /\ UNCHANGED <<pod, policy, cm, stale>> /\ job.step = "decide"
          /\ job'.step \in {"sleep", "deletePolicy"}
          /\ job'.step = "sleep" => job.exp > 0
          /\ job'.exp = job.exp /\ job'.failures = job.failures
        BY <1>1, <1>7 DEF Decide, JobAt, StillAlive, JobType
    <2>2. job'.step = "sleep" => Sleeps = 1 /\ Sleeps' = 1
        BY <2>1 DEF Sleeps
    <2>3. SleepsCounted'
        BY <2>1, <2>2 DEF Undisturbed, SleepsCounted, Unseen, Writes
    <2> QED BY <1>4, <2>1, <2>3 DEF Undisturbed
<1>8. CASE WakeAndExit
    <2>1. UNCHANGED <<pod, policy, cm, stale>> /\ job.step = "sleep" /\ job.exp = 0 /\ job' = Failed(job)
        BY <1>8 DEF WakeAndExit
    <2>2. job'.step \in {"readExp", "finished"} /\ job'.failures = job.failures + 1
        BY <2>1 DEF Failed, NoJob
    <2>3. Sleeps = 1 /\ Sleeps' = 0 /\ Unseen' = Unseen /\ Writes' = Writes
        BY <2>1, <2>2 DEF Sleeps, Unseen, Writes
    <2>4. SleepsCounted'
        BY <1>2, <2>1, <2>2, <2>3 DEF Undisturbed, SleepsCounted
    <2> QED BY <1>4, <2>1, <2>2, <2>4 DEF Undisturbed
<1>9. CASE DeletePolicy \/ DeleteConfigMap \/ DeletePod
    <2>1. /\ job'.step \in {"deleteConfigMap", "deletePod", "finished"}
          /\ job'.step = "finished" => pod' = "none"
          /\ job'.step # "finished" => pod' = pod
          /\ cm' \in {cm, NoConfigMap}
        BY <1>1, <1>3, <1>9
           DEF DeletePolicy, DeleteConfigMap, DeletePod, JobAt, JobType, NoJob
    <2>2. OneSession' /\ \A q \in Sessions : Stage(q)'
        BY <1>1, <2>1, SessionUntouched DEF NoConfigMap
    <2>3. JobHasPod'
        BY <1>3, <2>1 DEF Undisturbed, JobHasPod, NoConfigMap
    <2> QED BY <2>1, <2>2, <2>3 DEF Undisturbed, SleepsCounted
<1> QED BY <1>5, <1>6, <1>7, <1>8, <1>9 DEF Script

\* Finished jobs are removed, the pod starts and time passes.
LEMMA ClusterUndisturbed ==
    ASSUME TerminalInv, Undisturbed, RemoveFinishedJob \/ PodStarts \/ Tick
    PROVE  Undisturbed'
<1>1. TypeOK /\ UNCHANGED <<sess, pending, connects, policy, stale>>
    BY DEF TerminalInv, RemoveFinishedJob, PodStarts, Tick, session, bounds
<1>2. CASE RemoveFinishedJob
    <2>1. UNCHANGED <<pod, cm>> /\ job.step = "finished" /\ job'.step = "none"
        BY <1>2 DEF RemoveFinishedJob, NoJob
    <2>2. OneSession' /\ \A q \in Sessions : Stage(q)'
        BY <1>1, <2>1, SessionUntouched
    <2> QED BY <1>1, <2>1, <2>2 DEF Undisturbed, JobHasPod, SleepsCounted
<1>3. CASE PodStarts
    <2>1. UNCHANGED <<job, cm>> /\ pod = "pending" /\ pod' = "running"
        BY <1>3 DEF PodStarts
    <2>2. OneSession' /\ \A q \in Sessions : Stage(q)'
        BY <1>1, <2>1 DEF Undisturbed, OneSession, Active, Stage, Opening
    <2> QED BY <1>1, <2>1, <2>2
            DEF Undisturbed, JobHasPod, SleepsCounted, Sleeps, Unseen, Writes
<1>4. CASE Tick
    <2>1. /\ pod' = pod /\ cm'.exists = cm.exists /\ cm'.refreshes = cm.refreshes
          /\ cm'.remaining = Less(cm.remaining)
          /\ job'.step = job.step /\ job'.failures = job.failures /\ job'.exp = Less(job.exp)
        BY <1>1, <1>4 DEF Tick, TypeOK
    <2>2. OneSession' /\ \A q \in Sessions : Stage(q)'
        BY <1>1, <2>1 DEF Undisturbed, OneSession, Active, Stage, Opening
    <2>3. JobHasPod'
        BY <1>1, <2>1 DEF Undisturbed, JobHasPod, Less
    <2>4. cm.remaining \in Nat /\ job.exp \in Nat /\ job.failures \in Nat /\ cm.refreshes \in Nat
        BY <1>1, TerminalAssumption DEF TypeOK, backoffLimit
    <2>5. Sleeps' \in {0, 1} /\ Sleeps \in {0, 1} /\ Sleeps' <= Sleeps
        BY <2>1, <2>4 DEF Sleeps, Less
    <2>6. Writes' = Writes /\ Unseen' = Unseen /\ Writes \in Nat /\ Unseen \in {0, 1}
        BY <1>1, <2>1, <2>4 DEF Writes, Unseen
    <2>7. SleepsCounted'
        BY <1>1, <2>1, <2>4, <2>5, <2>6 DEF Undisturbed, SleepsCounted, Less
    <2> QED BY <2>2, <2>3, <2>7 DEF Undisturbed
<1> QED BY <1>2, <1>3, <1>4

\* What holds of every terminal, and of one that was opened once.
OnceInv == TerminalInv /\ (Once => Undisturbed)

\* As long as there is one connection and no fault, every step keeps what holds
\* of a terminal opened once.
LEMMA OnceNext == OnceInv /\ [Next]_vars => OnceInv'
<1> SUFFICES ASSUME OnceInv, [Next]_vars, Once' PROVE Undisturbed'
    BY TypeNext, LimitNext, InformedNext DEF OnceInv, TerminalInv
<1>1. TypeOK /\ TerminalInv
    BY DEF OnceInv, TerminalInv
<1>2. connects \in Nat /\ faults \in Nat
    BY <1>1, TerminalAssumption DEF TypeOK
<1>3. /\ ~ReadFails /\ ~JobContainerFails /\ ~PodFails /\ \A s \in Sessions : ~CallFails(s)
    BY <1>2 DEF ReadFails, JobContainerFails, PodFails, CallFails, Once
<1>4. CASE UNCHANGED vars
    BY <1>4 DEF OnceInv, Once, vars, Undisturbed, OneSession, Active, Stage, Opening,
                JobHasPod, SleepsCounted, Writes, Unseen, Sleeps
<1>5. ASSUME NEW s \in Sessions, Session(s) PROVE Undisturbed'
    <2>1. CASE Connect(s)
        <3>1. Once
            BY <1>2, <2>1 DEF Connect, Once
        <3> QED BY <1>1, <2>1, <3>1, ConnectUndisturbed DEF OnceInv
    <2>2. CASE ~Connect(s)
        <3>1. Once
            BY <1>3, <1>5, <2>2
               DEF Once, Session, SetUp, GetPod, CreatePolicy, UpdatePolicy, CreatePod, CreateJob,
                   CreateConfigMap, UpdateConfigMap, PodReady, WaitTimesOut, StartRefresh,
                   FinishRefresh, SessionEnds, StreamBreaks, bounds
        <3> QED BY <1>1, <1>3, <1>5, <2>2, <3>1, SetUpUndisturbed, StreamUndisturbed, WriteUndisturbed
                DEF OnceInv, Session, SetUp
    <2> QED BY <2>1, <2>2
<1>6. CASE Script \/ RemoveFinishedJob \/ PodStarts \/ Tick
    <2>1. Once
        BY <1>6 DEF Once, Script, ReadExpiration, ReadRefreshes, Decide, WakeAndExit, DeletePolicy,
                    DeleteConfigMap, DeletePod, RemoveFinishedJob, PodStarts, Tick, bounds
    <2> QED BY <1>1, <1>6, <2>1, ScriptUndisturbed, ClusterUndisturbed DEF OnceInv
<1> QED BY <1>3, <1>4, <1>5, <1>6 DEF Next

\* What holds of a terminal opened once holds until the second connection or
\* the first fault.
LEMMA OnceHolds == Spec => []OnceInv
BY TerminalInit, UndisturbedInit, OnceNext, PTL DEF Spec, OnceInv

\* With the 10 spare restarts of genWebTerminalCleanupJob, or with two, a
\* terminal opened once never uses up the restarts of its job, however often it
\* is refreshed: each sleep of the script answers one write of the config map.
THEOREM JobIsRestarted ==
    ASSUME spareRestarts > 1
    PROVE  Spec => ExitRestartsJob
<1>1. ASSUME OnceInv, WakeAndExit, Once PROVE job'.step = "readExp"
    <2>1. TypeOK /\ RefreshesWithinLimit
        BY <1>1 DEF OnceInv, TerminalInv
    <2>2. job.step = "sleep" /\ job' = Failed(job)
        BY <1>1 DEF WakeAndExit
    <2>3. job.failures \in Nat /\ cm.refreshes \in Nat /\ Unseen \in {0, 1} /\ Sleeps = 1
        BY <2>1, <2>2, TerminalAssumption DEF TypeOK, backoffLimit, Unseen, Sleeps
    <2>4. job.failures + Unseen + Sleeps <= Writes
        BY <1>1, <2>2 DEF OnceInv, Undisturbed, SleepsCounted
    <2>5. job.failures + 1 < backoffLimit
        BY <2>1, <2>3, <2>4, TerminalAssumption DEF Writes, RefreshesWithinLimit, backoffLimit
    <2> QED BY <2>2, <2>5 DEF Failed, NoJob
<1>2. OnceInv /\ [Next]_vars => [WakeAndExit /\ Once => job'.step = "readExp"]_vars
    BY <1>1
<1> QED BY <1>2, OnceHolds, PTL DEF Spec, ExitRestartsJob
=============================================================================
