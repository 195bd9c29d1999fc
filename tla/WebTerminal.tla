----------------------------- MODULE WebTerminal -----------------------------
(***************************************************************************)
(* The life of one user's web terminal on one cluster                      *)
(* (modules/api/pkg/handler/websocket/terminal.go).                        *)
(*                                                                         *)
(* A terminal is a pod, a network policy and a config map in the user      *)
(* cluster and a cleanup job on the seed.  They are shared by all the      *)
(* user's websocket sessions.  The config map holds the expiration time    *)
(* and the number of refreshes; the job's script sleeps until the          *)
(* expiration, exits as failed to be restarted, and deletes everything     *)
(* once the expiration was not moved.  Every API call is a step of its     *)
(* own: nothing serialises the sessions with one another or with the job.  *)
(*                                                                         *)
(* Time is relative: an expiration timestamp is kept as the time that      *)
(* remains until it, which Tick decreases, so that time is unbounded.      *)
(***************************************************************************)
EXTENDS Integers, FiniteSets

CONSTANTS
    Sessions,                        \* websocket sessions of the user
    podLifetime,                     \* in ticks
    maxNumberOfExpirationRefreshes,
    spareRestarts,                   \* the 10 of BackoffLimit = 10 + max
    MaxConnects,                     \* bound on connections opened
    MaxFaults                        \* bound on failing calls, pods and jobs

ASSUME TerminalAssumption ==
    /\ podLifetime \in Nat \ {0}
    /\ maxNumberOfExpirationRefreshes \in Nat
    /\ spareRestarts \in Nat \ {0}
    /\ MaxConnects \in Nat
    /\ MaxFaults \in Nat

VARIABLES
    pod,       \* phase of the terminal pod, or "none"
    policy,    \* whether the network policy exists
    cm,        \* the config map
    job,       \* the cleanup job and the variables of its script
    sess,      \* the step each session is at
    pending,   \* refreshes between their Get and their Update
    stale,     \* the script does not know the current config map
    bared,     \* the policy was deleted under a pod that stays (history)
    connects,  \* connections opened so far
    faults     \* faults so far

vars == <<pod, policy, cm, job, sess, pending, stale, bared, connects, faults>>
cluster == <<pod, policy, cm, job, stale, bared>>
session == <<sess, pending>>
bounds == <<connects, faults>>

-----------------------------------------------------------------------------
NoRefresh == -1

\* A missing config map reads as empty strings in the script, which the
\* shell's arithmetic takes for zero.
NoConfigMap == [exists |-> FALSE, remaining |-> 0, refreshes |-> 0]

\* genWebTerminalConfigMap: expires podLifetime from now.
genWebTerminalConfigMap(numberOfExpirationRefreshes) ==
    [exists |-> TRUE, remaining |-> podLifetime,
     refreshes |-> numberOfExpirationRefreshes]

NoJob == [step |-> "none", exp |-> 0, refreshes |-> 0, failures |-> 0]

\* genWebTerminalCleanupJob
backoffLimitWithoutSpare == maxNumberOfExpirationRefreshes
backoffLimit == spareRestarts + maxNumberOfExpirationRefreshes
genWebTerminalCleanupJob == [NoJob EXCEPT !.step = "readExp"]

PodPhases == {"none", "pending", "running", "failed"}
JobSteps == {"none", "readExp", "readRefreshes", "decide", "sleep",
             "deletePolicy", "deleteConfigMap", "deletePod", "finished"}
SessionSteps == {"closed", "getPod", "createPolicy", "updatePolicy",
                 "createPod", "createJob", "createConfigMap",
                 "updateConfigMap", "waitPod", "streaming"}

Init ==
    /\ pod = "none" /\ policy = FALSE /\ cm = NoConfigMap /\ job = NoJob
    /\ sess = [s \in Sessions |-> "closed"]
    /\ pending = [s \in Sessions |-> NoRefresh]
    /\ stale = FALSE /\ bared = FALSE
    /\ connects = 0 /\ faults = 0

-----------------------------------------------------------------------------
(* A session: startProcess, then the stream until it ends.                 *)

Goto(s, from, to) == sess[s] = from /\ sess' = [sess EXCEPT ![s] = to]

Connect(s) ==
    /\ connects < MaxConnects /\ connects' = connects + 1
    /\ pending[s] = NoRefresh
    /\ Goto(s, "closed", "getPod")
    /\ UNCHANGED <<cluster, pending, faults>>

\* An existing pod, in whatever phase, skips createOrUpdateResources.
GetPod(s) ==
    /\ Goto(s, "getPod", IF pod = "none" THEN "createPolicy" ELSE "createConfigMap")
    /\ UNCHANGED <<cluster, pending, bounds>>

CreatePolicy(s) ==
    /\ Goto(s, "createPolicy", IF policy THEN "updatePolicy" ELSE "createPod")
    /\ policy' = TRUE /\ bared' = FALSE
    /\ UNCHANGED <<pod, cm, job, stale, pending, bounds>>

\* The Update after AlreadyExists fails if the policy is gone by then.
UpdatePolicy(s) ==
    /\ Goto(s, "updatePolicy", IF policy THEN "createPod" ELSE "closed")
    /\ UNCHANGED <<cluster, pending, bounds>>

\* AlreadyExists is ignored.
CreatePod(s) ==
    /\ Goto(s, "createPod", "createJob")
    /\ pod' = IF pod = "none" THEN "pending" ELSE pod
    /\ UNCHANGED <<policy, cm, job, stale, bared, pending, bounds>>

\* AlreadyExists is ignored, also for a finished job about to be removed.
CreateJob(s) ==
    /\ Goto(s, "createJob", "createConfigMap")
    /\ job' = IF job.step = "none" THEN genWebTerminalCleanupJob ELSE job
    /\ UNCHANGED <<pod, policy, cm, stale, bared, pending, bounds>>

\* Create, and Update after AlreadyExists: no refreshes, full lifetime.
CreateConfigMap(s) ==
    /\ Goto(s, "createConfigMap", IF cm.exists THEN "updateConfigMap" ELSE "waitPod")
    /\ cm' = IF cm.exists THEN cm ELSE genWebTerminalConfigMap(0)
    /\ stale' = IF cm.exists THEN stale ELSE TRUE
    /\ UNCHANGED <<pod, policy, job, bared, pending, bounds>>

UpdateConfigMap(s) ==
    /\ Goto(s, "updateConfigMap", IF cm.exists THEN "waitPod" ELSE "closed")
    /\ cm' = IF cm.exists THEN genWebTerminalConfigMap(0) ELSE cm
    /\ stale' = IF cm.exists THEN TRUE ELSE stale
    /\ UNCHANGED <<pod, policy, job, bared, pending, bounds>>

\* The poll sees the pod running; the exec stream is opened.
PodReady(s) ==
    /\ pod = "running"
    /\ Goto(s, "waitPod", "streaming")
    /\ UNCHANGED <<cluster, pending, bounds>>

\* Two minutes without a running pod.
WaitTimesOut(s) ==
    /\ Goto(s, "waitPod", "closed")
    /\ UNCHANGED <<cluster, pending, bounds>>

\* The limit off by one.
StartRefreshOnceMore(s) ==
    /\ sess[s] = "streaming" /\ pending[s] = NoRefresh
    /\ cm.exists /\ cm.refreshes <= maxNumberOfExpirationRefreshes
    /\ pending' = [pending EXCEPT ![s] = cm.refreshes]
    /\ UNCHANGED <<sess, cluster, bounds>>

\* First half of extendExpirationTime.  At the limit the user only gets
\* RefreshesLimitExceeded; a missing config map ends the session.
StartRefresh(s) ==
    /\ sess[s] = "streaming" /\ pending[s] = NoRefresh
    /\ IF ~cm.exists
       THEN /\ sess' = [sess EXCEPT ![s] = "closed"]
            /\ UNCHANGED pending
       ELSE /\ cm.refreshes < maxNumberOfExpirationRefreshes
            /\ pending' = [pending EXCEPT ![s] = cm.refreshes]
            /\ UNCHANGED sess
    /\ UNCHANGED <<cluster, bounds>>

\* Second half: an Update without resourceVersion, so the last one wins.
\* It runs under a background context, whether the session lives or not.
FinishRefresh(s) ==
    /\ pending[s] # NoRefresh
    /\ pending' = [pending EXCEPT ![s] = NoRefresh]
    /\ cm' = IF cm.exists THEN genWebTerminalConfigMap(pending[s] + 1) ELSE cm
    /\ stale' = IF cm.exists THEN TRUE ELSE stale
    /\ sess' = IF cm.exists THEN sess ELSE [sess EXCEPT ![s] = "closed"]
    /\ UNCHANGED <<pod, policy, job, bared, bounds>>

\* The user closes the terminal.
SessionEnds(s) ==
    /\ Goto(s, "streaming", "closed")
    /\ UNCHANGED <<cluster, pending, bounds>>

\* The exec stream ends with its pod.
StreamBreaks(s) ==
    /\ pod # "running"
    /\ Goto(s, "streaming", "closed")
    /\ UNCHANGED <<cluster, pending, bounds>>

\* A call of startProcess fails, or the API server restarts (a refresh may
\* be lost with it): nothing that was created is undone.
CallFails(s) ==
    /\ faults < MaxFaults /\ faults' = faults + 1
    /\ sess[s] # "closed"
    /\ sess' = [sess EXCEPT ![s] = "closed"]
    /\ pending' \in {pending, [pending EXCEPT ![s] = NoRefresh]}
    /\ UNCHANGED <<cluster, connects>>

-----------------------------------------------------------------------------
(* The script of the cleanup job.                                          *)

JobAt(from, to) == job.step = from /\ job' = [job EXCEPT !.step = to]

\* EXP=$(kubectl get configmap ...)
ReadExpiration ==
    /\ job.step = "readExp"
    /\ job' = [job EXCEPT !.step = "readRefreshes", !.exp = cm.remaining]
    /\ stale' = FALSE
    /\ UNCHANGED <<pod, policy, cm, bared, session, bounds>>

\* EXP_REFRESHES=$(kubectl get configmap ...)
ReadRefreshes ==
    /\ job.step = "readRefreshes"
    /\ job' = [job EXCEPT !.step = "decide", !.refreshes = cm.refreshes]
    /\ UNCHANGED <<pod, policy, cm, stale, bared, session, bounds>>

\* kubectl fails: the script does not look at its exit code and goes on
\* with an empty variable.
ReadFails ==
    /\ faults < MaxFaults /\ faults' = faults + 1
    /\ \/ /\ job.step = "readExp"
          /\ job' = [job EXCEPT !.step = "readRefreshes", !.exp = 0]
       \/ /\ job.step = "readRefreshes"
          /\ job' = [job EXCEPT !.step = "decide", !.refreshes = 0]
    /\ stale' = TRUE
    /\ UNCHANGED <<pod, policy, cm, bared, session, connects>>

\* The comparison off by one.
StillAliveOffByOne(remaining, refreshes) ==
    refreshes <= maxNumberOfExpirationRefreshes /\ remaining > 1

\* The condition under which the script sleeps instead of deleting.
StillAlive(remaining, refreshes) ==
    refreshes <= maxNumberOfExpirationRefreshes /\ remaining > 0

\* NOW=$(date ...) and the comparison.
Decide ==
    /\ JobAt("decide", IF StillAlive(job.exp, job.refreshes)
                       THEN "sleep" ELSE "deletePolicy")
    /\ UNCHANGED <<pod, policy, cm, stale, bared, session, bounds>>

\* A job that does not restart its container.
FailedForGood(j) == [NoJob EXCEPT !.step = "finished"]

\* A failed container is restarted until the job reaches its limit; then
\* the job has failed, which also counts as finished.
Failed(j) ==
    LET n == j.failures + 1
    IN  [NoJob EXCEPT !.step = IF n < backoffLimit THEN "readExp" ELSE "finished",
                      !.failures = n]

\* sleep $REMAINING_TIME_SEC; exit 1
WakeAndExit ==
    /\ job.step = "sleep" /\ job.exp = 0
    /\ job' = Failed(job)
    /\ UNCHANGED <<pod, policy, cm, stale, bared, session, bounds>>

\* A session that has created or updated the policy, and not yet the pod.
PodOnItsWay == \E s \in Sessions : sess[s] = "createPod"

\* kubectl delete networkpolicy; its result is ignored.
DeletePolicy ==
    /\ JobAt("deletePolicy", "deleteConfigMap")
    /\ policy' = FALSE
    /\ bared' = (bared \/ PodOnItsWay)
    /\ UNCHANGED <<pod, cm, stale, session, bounds>>

\* kubectl delete configmap; its result is ignored.
DeleteConfigMap ==
    /\ JobAt("deleteConfigMap", "deletePod")
    /\ cm' = NoConfigMap
    /\ UNCHANGED <<pod, policy, stale, bared, session, bounds>>

\* The script stops after the config map.
DeletePodForgotten ==
    /\ JobAt("deletePod", "finished")
    /\ UNCHANGED <<pod, policy, cm, stale, bared, session, bounds>>

\* kubectl delete pod: the last command, its result is the script's.
DeletePod ==
    /\ job.step = "deletePod"
    /\ job' = IF pod = "none" THEN Failed(job) ELSE [NoJob EXCEPT !.step = "finished"]
    /\ pod' = "none"
    /\ bared' = (bared /\ PodOnItsWay)
    /\ UNCHANGED <<policy, cm, stale, session, bounds>>

\* TTLSecondsAfterFinished is 0: a finished job is removed.
RemoveFinishedJob ==
    /\ job.step = "finished"
    /\ job' = NoJob
    /\ UNCHANGED <<pod, policy, cm, stale, bared, session, bounds>>

\* The job's container is killed anywhere in the script.
JobContainerFails ==
    /\ faults < MaxFaults /\ faults' = faults + 1
    /\ job.step \notin {"none", "finished"}
    /\ job' = Failed(job)
    /\ bared' = (bared \/ (job.step \in {"deleteConfigMap", "deletePod"} /\ ~policy))
    /\ UNCHANGED <<pod, policy, cm, stale, session, connects>>

-----------------------------------------------------------------------------
(* The cluster.                                                            *)

\* The pod mounts the config map: it stays pending until there is one.
PodStarts ==
    /\ pod = "pending" /\ cm.exists
    /\ pod' = "running"
    /\ UNCHANGED <<policy, cm, job, stale, bared, session, bounds>>

\* The pod is evicted: its object stays, in phase Failed.
PodFails ==
    /\ faults < MaxFaults /\ faults' = faults + 1
    /\ pod \in {"pending", "running"}
    /\ pod' = "failed"
    /\ UNCHANGED <<policy, cm, job, stale, bared, session, connects>>

Less(t) == IF t > 0 THEN t - 1 ELSE 0

\* Time passes: for the expiration, for the copy of it the script works
\* with, for a sleeping script, and for the pod.
Tick ==
    /\ cm' = [cm EXCEPT !.remaining = Less(@)]
    /\ job' = [job EXCEPT !.exp = Less(@)]
    /\ UNCHANGED <<pod, policy, stale, bared, session, bounds>>

-----------------------------------------------------------------------------
SetUp(s) ==
    \/ GetPod(s) \/ CreatePolicy(s) \/ UpdatePolicy(s) \/ CreatePod(s)
    \/ CreateJob(s) \/ CreateConfigMap(s) \/ UpdateConfigMap(s)
    \/ PodReady(s) \/ WaitTimesOut(s)

Session(s) ==
    \/ Connect(s) \/ SetUp(s) \/ StartRefresh(s) \/ FinishRefresh(s)
    \/ SessionEnds(s) \/ StreamBreaks(s) \/ CallFails(s)

Script ==
    \/ ReadExpiration \/ ReadRefreshes \/ Decide \/ WakeAndExit
    \/ DeletePolicy \/ DeleteConfigMap \/ DeletePod

Next ==
    \/ \E s \in Sessions : Session(s)
    \/ Script \/ ReadFails \/ RemoveFinishedJob \/ JobContainerFails
    \/ PodStarts \/ PodFails \/ Tick

\* Time passes, the job's container is run and restarted, finished jobs
\* are removed, and a handler that has begun goes through its calls.
\* Nobody is obliged to connect, refresh or close.
Fairness ==
    /\ WF_vars(Tick) /\ WF_vars(Script) /\ WF_vars(RemoveFinishedJob)
    /\ \A s \in Sessions : WF_vars(SetUp(s)) /\ WF_vars(FinishRefresh(s))

Spec == Init /\ [][Next]_vars
FairSpec == Spec /\ Fairness

-----------------------------------------------------------------------------
TypeOK ==
    /\ pod \in PodPhases
    /\ policy \in BOOLEAN
    /\ cm \in [exists : BOOLEAN, remaining : 0 .. podLifetime, refreshes : Nat]
    /\ job \in [step : JobSteps, exp : 0 .. podLifetime, refreshes : Nat,
                failures : 0 .. backoffLimit]
    /\ sess \in [Sessions -> SessionSteps]
    /\ pending \in [Sessions -> Nat \cup {NoRefresh}]
    /\ stale \in BOOLEAN /\ bared \in BOOLEAN
    /\ connects \in 0 .. MaxConnects
    /\ faults \in 0 .. MaxFaults

\* No interleaving of the unguarded read-modify-writes of several sessions
\* (extendExpirationTime, the reset in startProcess) stores more than the
\* maximum number of refreshes.  It follows that the script's comparison
\* of EXP_REFRESHES never decides anything.
RefreshesWithinLimit == cm.refreshes <= maxNumberOfExpirationRefreshes

\* The config map says that the terminal is in use.
Live ==
    /\ cm.exists /\ cm.remaining > 0
    /\ cm.refreshes <= maxNumberOfExpirationRefreshes

Deleting == job.step \in {"deletePolicy", "deleteConfigMap", "deletePod"}

\* The script deletes the resources of a live terminal only if a session
\* wrote the config map after the script read it, or kubectl failed.
DeletesLiveOnlyIfStale == Deleting /\ Live => stale

\* A refresh on its way was allowed by a count below the limit.
PendingBelowLimit ==
    \A s \in Sessions : pending[s] < maxNumberOfExpirationRefreshes

\* A job that has not finished has restarts left.
RestartsLeft ==
    job.step \notin {"none", "finished"} => job.failures < backoffLimit

\* Unless stale, the script works with what the config map says, and it
\* deletes because the config map says so.
ScriptInformed ==
    ~stale => /\ job.step \in {"readRefreshes", "decide"} => job.exp = cm.remaining
              /\ job.step = "decide" => job.refreshes = cm.refreshes
              /\ Deleting => ~Live

\* The inductive invariant behind TypeOK, RefreshesWithinLimit and
\* DeletesLiveOnlyIfStale.
TerminalInv ==
    /\ TypeOK /\ RestartsLeft
    /\ RefreshesWithinLimit /\ PendingBelowLimit /\ ScriptInformed

\* What the script's comment says: the terminal it deletes is expired.
DeletesOnlyExpired == Deleting => ~Live

\* A pod is without its network policy only while the cleanup is on its way
\* to deleting the pod too, or after one of two accidents: the script deleted
\* the policy between a session's creation of the policy and that of the
\* pod, or its container was killed between deleting the policy and the pod.
PolicyCoversPod ==
    pod # "none" => policy \/ bared \/ job.step \in {"deleteConfigMap", "deletePod"}

\* A terminal that was opened once and whose calls, pod and job have not failed.
Once == connects <= 1 /\ faults = 0

\* "exit as failed, so the job will be restarted": a script that has slept
\* runs again.
ExitAlwaysRestartsJob == [][WakeAndExit => job'.step = "readExp"]_vars

\* That is so, the restarts are not used up, as long as the terminal was
\* opened once: however refreshes and wake-ups interleave, the spare restarts
\* of the backoff limit suffice.
ExitRestartsJob == [][WakeAndExit /\ Once => job'.step = "readExp"]_vars

\* The pod of a terminal that was opened once is deleted in the end, though
\* the script sleeps again for every refresh, and exits as failed.
PodIsDeleted == pod # "none" /\ Once ~> pod = "none" \/ ~Once
=============================================================================
