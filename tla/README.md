# A TLA+ model of the Kubermatic dashboard API

The dashboard is a browser application and an API server written in Go
(`modules/api`). The server keeps almost no state of its own: users, projects,
clusters and tokens are Kubernetes objects, which any number of requests, on
several replicas, read through informer caches and write back. What it does keep
in memory or drive over time (counters of open web terminals, the life of a
terminal pod, subscriptions of websockets) is shared by goroutines and by programs
on other machines. This project models the parts where such sharing decides
whether the program is right.

All paths below are relative to `modules/api/pkg` unless they start with `modules`.

## 1. Inventory

| Component | State it keeps | Operations | Interacts with | What makes it correct |
|---|---|---|---|---|
| Terminal connection pool, `handler/routes_v1_websocket.go` | `connections.activeConnections`: a count per user and cluster, in memory | read, increase, decrease, empty the map every 24 hours | one goroutine per websocket; the release goroutine | counts match open connections; limit per user; nobody is locked out; every websocket is answered |
| Terminal session and cleanup, `handler/websocket/terminal.go` | pod, network policy, config map (expiration, refreshes) in the user cluster; a cleanup job on the seed | connect, set up or reuse, refresh the expiration, stream; the job's script sleeps, exits, deletes | several sessions of one user; the job controller; the kubelet | live terminals are not deleted, dead ones are; bounded refreshes; the pod is covered by its policy |
| Terminal token loop, `handler/websocket/terminal.go` | the OIDC token in the user's kubeconfig secret | read it, refresh it at the issuer, store it; log in again | all connections of a user share the secret; a login writes it too | the refresh token is not lost, also with several logins at a time; clients learn that it expired; a loop that outlives its connection takes no token |
| Terminal warning and ping loops, `handler/websocket/terminal.go`, `common.go` | the expiration last read | warn, ping | share a websocket with the reader and the shell | one writer at a time; loops end with the session |
| User watch, `watcher/kubernetes/user.go`, `handler/websocket/user.go` | `userCache`; subscriptions of the publisher; per connection the first user read | informer events; read, send, subscribe, install the close handler | informer goroutine calls the websocket writers | clients that missed nothing show the stored user, however their token spells the address; subscriptions do not outlive connections |
| Settings watch, `watcher/kubernetes/settings.go`, `handler/websocket/settings.go` | subscriptions | as above, one object and no cache | as above | as above |
| Authentication and users, `handler/middleware/middleware.go`, `provider/kubernetes/user.go`, `handler/v1/user/user.go` | the User object; a secret with logged out tokens | verify a token, look up or create the user, save LastSeen, patch settings, log out | every request of a user writes the same User object, from copies of a lagging cache | a logout is final; no settings are lost; the reference resolves |
| Administrators, `provider/kubernetes/admin.go`, `handler/v1/admin/admin.go` | `Spec.IsAdmin` of all users | elect the first user, set or clear rights | `UserSaver` writes the same objects; a controller grants and revokes rights by group | one user is elected; an administrator is left; writes do not undo changes of rights |
| Projects and members, `provider/kubernetes/member.go`, `handler/v1/project/project.go`, `handler/v1/user/user.go` | Project and UserProjectBinding objects | create a project and bind its owner; delete it; add, edit, remove members | informer caches; the RBAC controller | one binding per user and project; no project without a manager; the limit on projects holds |
| Service accounts, `provider/kubernetes/sa.go`, `sa_token.go`, `handler/v1/serviceaccount`, `handler/auth/sa.go` | User, binding and secret objects | create, update, rotate and delete accounts and tokens; verify a token | informer caches; a controller that turns a label into a binding; the garbage collector | unique names; a rotated token is refused; a change of group arrives |
| Clusters and SSH keys, `handler/common/cluster.go`, `provider/kubernetes/cluster.go`, `handler/v1/ssh/ssh.go`, `provider/kubernetes/ssh.go` | Cluster and UserSSHKey objects; a credential secret and an encryption secret per cluster | create, patch, migrate, delete; create, assign, detach and delete keys | the cluster controllers; informer caches | secrets fit the cluster they belong to; concurrent patches undo nothing; unique names |
| Machines, templates, presets, backups, constraints, addons, quotas and the other resources | Kubernetes objects | mostly one read or write each around validation and conversion | controllers outside this repository | mostly sequential; listed in `PROJECT.json` with the reason they are left out |

Behaviours that are hard to test here:

- a check and the write it justifies under two separate locks or in two calls
  (pool limit, election of the first user, membership, limit on projects, every
  "name is free");
- several sessions that update one config map without a resource version;
- a script on another machine that decides on values it read earlier;
- informer caches that lag, so that a read does not show the reader's own write;
- optimistic locking whose conflicts are sometimes ignored (`UserSaver`),
  sometimes reported (logout, settings), and sometimes not checked (status patch);
- operations that write several objects and may stop in between (a logout, the
  creation of a project, a patch of a cluster);
- a refresh token that can be used once and is shared by goroutines;
- events that arrive between a read and a subscription, or as tombstones;
- limits whose exhaustion shows after days: job restarts, refreshes, leaked
  subscriptions, counters.

`PROJECT.json` lists each hazard at its line with the properties that cover it.

## 2. Modules

| Module | Models | Used by |
|---|---|---|
| `TerminalPool` | the connection pool and the handler around it | `MCTerminalPool`, `TerminalConnectionsProofs` |
| `WebTerminal` | one user's terminal on one cluster: sessions, objects, cleanup job | `MCWebTerminal`, `WebTerminalProofs` |
| `UserWatch` | watcher, publisher and websocket writers of user changes | `MCUserWatch`, `UserWatchProofs` |
| `TokenBlacklist` | authentication, user saving, settings and logout of one user | `MCTokenBlacklist`, `TokenBlacklistProofs` |
| `UserAdmins` | election and changes of administrators, over all users | `MCUserAdmins`, `UserAdminsProofs` |
| `Admission` | what the pool promises, without counter, lock or map | `TerminalPool` (`A == INSTANCE Admission WITH ...`) |
| `TerminalSession` | the token of a user's open terminals: token loops, login, issuer | `MCTerminalSession`, `TerminalConnectionsProofs` |
| `ProjectMembers` | projects and the bindings of their members | `MCProjectMembers`, `ProjectMembersProofs` |
| `ServiceAccounts` | service accounts of a project, their tokens, authentication with them | `MCServiceAccounts`, `ServiceAccountsProofs` |
| `Clusters` | clusters of a project with their two secrets | `ClusterKeys` |
| `ClusterKeys` | SSH keys and their assignment, composed with `Clusters` | `MCClusterKeys`, `ClusterKeysProofs` |

Two modules are composed of others. `TerminalPool` is shown to implement `Admission`
under the mapping of `Status`. `ClusterKeys` extends `Clusters` with a second kind of
object: its next-state relation takes every step of `Clusters` beside its own, so
that a key is assigned while its cluster is patched or deleted. The other
specifications do not share state. The pool admits a websocket and
then runs the session, but neither looks at the other's variables: a place in the
pool is held for as long as the handler runs, whatever the session does, and
`SessionEnds` of the pool may come at any time. `WebTerminal` follows the objects of a
terminal and `TerminalSession` the token; the code connects them by the connection
alone. `TokenBlacklist` and `UserAdmins`
model the same middleware (`UserSaver`) from two sides: the first follows one user
object and its secret, the second all user objects and one field of them.

Each module defines, next to an action, the faulty variants of it that the
mutation runs substitute (a name such as `UpdateBlindly` with a comment saying what
the fault is). No specification uses them.

### TerminalPool

`active` is the map of counts (zero for an absent key), `pc` the place of each
handler in `getTerminalWatchHandler`, `seen` the count it read. Each method of
`connections` is one action, since each takes the mutex once; the comparison
between two of them (`Reject`, `Admit`) is an action of its own. The checks before
the upgrade only read and are one step (`Connect`). `Return` is the deferred
`decreaseActiveConnections`. `ReleaseMemory` empties the map; `releases` bounds it.

### WebTerminal

Every call to an API server is an action: `GetPod`, `CreatePolicy`, `UpdatePolicy`,
`CreatePod`, `CreateJob`, `CreateConfigMap`, `UpdateConfigMap` in the order of
`startProcess` and `createOrUpdateResources`, with the early returns on errors
(`CallFails`) and on `AlreadyExists`. A refresh is `StartRefresh` (the Get and the
test of the limit) and `FinishRefresh` (the Update). The script of
`genWebTerminalCleanupJob` is followed line by line: two reads of the config map,
the comparison, the sleep and `exit 1`, and three deletions. A failed read leaves
an empty variable, which the shell's arithmetic takes for zero. The job controller
restarts a failed container while `failures` is below `backoffLimit`; a finished
job is removed some time later by its TTL.

Time is relative: an expiration is the number of ticks left until it, so that time
needs no bound. `stale` is a history variable: the script read the config map
before its latest change, or its read failed. `bared` is another: the script deleted the
policy while a session was between policy and pod (`PodOnItsWay`), or its container was
killed between deleting the policy and the pod.

### UserWatch

`store` holds the objects, `queue` what the informer has not delivered, `cache` is
`userCache`. `OnAdd`, `OnUpdate` and `OnDelete` are whole handlers, cache update
included, since the informer runs them one at a time. `WriteUser` takes four steps
(`ReadInitial`, `SendInitial`, `Subscribe`, `SetCloseHandler`) which events and the peer
may interrupt. A message carries the groups of the user as first read, since the
callback looks up the bindings of `initialUser`. `missed` records that something was
published between the read and the subscription, a race the code does not close, or that
the callback failed for it. A subscription's path is the hash of the address in the
token as it is spelled there (`emailOf`); a message's is that of the stored address,
which `CreateUser` turned to lower case; `UserByEmail` ignores case (`userOf`). Hashes
that collide are left out. A look-up of bindings may fail (`faults`), on the first read
and in the callback, which then returns without a message. A client may stop reading
(`StopReading`): the callback's write then does not return, and the informer's
goroutine, which runs all callbacks, hands over nothing until the client reads on or its
connection breaks.

### TokenBlacklist

An object is the sequence of its versions; a resource version is a position in it,
an informer cache and a request's copy are positions too. `Update` succeeds only for
a copy of the last version. The status patch in `UpdateUser` names no version and
always applies. The API server makes no new version of an object when an update
changes nothing: the groups that `UserSaver` writes are not modelled, so both
outcomes are possible (`SaveUser`, `SaveUnchanged`). A request goes through
`TokenVerifier` (`Verify`, `FindUser`, `CheckBlocked`), `UserSaver` (`GetUser` to
`PatchStatus`) and then patches settings, logs out, or stops. `CallFails` may end it
between any two calls; this includes a server that stops. `saved` and `loggedOut`
record what clients were told.

### UserAdmins

All versions of all user objects form one log, in the order they were written; the
cache has a prefix of it. Only the fields that concern rights are kept. Rights by
group are given and taken by a controller outside this repository that applies the admin
groups setting (`GrantByGroup`, `RevokeByGroup`), as the error in `SetAdmin` says. `lapsed`
records that the setting took the last rights away.
`IsGlobalViewer`, which `SetAdmin` writes in the same Update, is left out.
`crossed` records that a demotion was written for a caller who had been demoted
since the request read its rights.

### Admission

A connection asks, is granted or refused, enters, and leaves. It is refused only if
at some moment since it asked its key held the maximum, and until a release it is
granted only if at some moment its key held fewer. That moment is the read of the
count: `Status` maps a handler that has read to "granted" or "refused" by the count it
read, although it acts on it later. The abstract pool says nothing about how many
enter, because those that were granted may enter together; this is exactly the
promise the code keeps.

### TerminalSession

One action per call of `checkTokenAndRefreshIfNeeded`: `GetSecret`,
`RefreshAccessToken`, `UpdateSecret`, each with its failure, followed by the sleep the
code computes (`ValidSleep`, `onFailedUpdatingToken`). A sleep is a number of ticks; a
routine that is due acts before time passes. The issuer is external: it takes each
refresh token once and answers with the next. A login (`Exchange`,
`createKubeconfigSecret`, `createSecret`) gets a new token, probes for the secret and
creates or updates it without a version. Nothing keeps a user from logging in several
times at once: `login` has the step of the login that received each token. Closing a
connection cancels its context, so that its later calls fail, but the routine goes on.
`lost` records that the current token was received and not stored, `displaced` that the
newest stored token made way for an older one, of a login that had begun earlier, or was
deleted.

### ProjectMembers

All versions of all bindings form one log, the cache has a prefix of it, and a
binding remembers how much of the log its creator had looked at. Creating a project
is the check of the limit, the Project, the creator's binding and then a binding per
invited user (`CheckLimit` to `BindInvited`), any of which may fail. Adding,
editing and removing members are a read of the cache and a write; a version remembers how
much of the log its writer had seen, which is what `EditsAreSeen` is about. Rights come from
the cached binding, of which any one is taken if there are several. `excused` records
what may leave a project without manager.

### ServiceAccounts

Accounts and tokens are sequences of versions. Administrators read objects from the
cache and others from the API server, and both list from the cache. The group of an
account goes through a label, which a controller outside the repository turns into a
binding (`ApplyLabel`) and then removes (`RemoveLabel`). A request about a token names an
account in its URL, which nothing compares with the owner of the token: names are looked
up among that account's tokens, and its address goes into the claims. So the data of a token is
the token, an account and the second it was made in (`Generate`). `Verify` is the check
of `handler/auth/sa.go` against the cached secret. Each version remembers which version of
every object had been looked at for the name it carries (`seen`), so that a clash of names
can be told from one that the lookup should have found. `misread` records that an update
left the label alone because the cached binding already had the group, while the real one
did not.

### Clusters and ClusterKeys

A cluster is the sequence of its versions, with the fields its operations compare:
name, label of a preset, encryption, external CCM, finalizer. The credential secret
and the encryption secret are state of their own. `PatchEndpoint` copies the labels of a
patch as they are, so a patch can set the preset label itself; such a link is "claimed", one
from the creation "yes" (`Link`). The list in which a name is looked up is empty when the
seed refuses the connection (`Answers`). The encryption secret that `GenerateCluster`
stores under a random name is part of the creation. A patch goes through
`StartPatch`, `PutCredentials`, `HandleEncryption` and `UpdateCluster`, of
which only the last compares versions; any of them may be the last step (`Fail`).
Creation ends with the wait until the cache shows the cluster and a patch of its
status. Deletion is the addition of finalizers and the Delete. `writer`, `agreed`,
`cleanup`, `assigned` and `misread` record what requests were told. `RequestsInformed`
says what a request at each of its steps has found out and may rely on, and
`CreatedApart` that a cluster was created under a name that none its request looked at
had; `KeysInv` has both.

## 3. Runs

### What holds

| Run | Configuration | Shows |
|---|---|---|
| `pool` | 3 requests on one key, 1 on another, limit 2, 1 release | counts never exceed open connections and are exact until the release; a handler that counted itself on an up-to-date count stays within the limit; the pool implements `Admission`; every websocket is answered |
| `terminal` | 2 sessions, 3 connections, lifetime 2, 2 refreshes, 2 spare restarts, 1 fault | the refresh limit survives unguarded read-modify-writes; a live terminal is deleted only by a script that lacks the latest config map or whose read failed; a pod is without its network policy only while it is being deleted, or after the script deleted the policy between a session's policy and pod, or was killed between its deletions; as long as the terminal was opened once and nothing failed, the job's restarts suffice and the pod is deleted in the end |
| `terminal_session` | 2 connections, logins that overlap, 3 tokens of 3 ticks, 1 fault | the refresh token the issuer accepts is in the secret or on its way there unless its receiver failed or an older login was stored in its place; clients are told of an expired token within a minute and of its replacement |
| `user_watch` | 2 users with a browser each, 3 changes, 1 failing look-up, tombstones | a client that missed nothing shows the stored user once events are handled; the watcher's cache hides no change (`ShownIsPending`); changes are pushed in the end, unless a client that does not read holds up the informer |
| `blacklist` | 2 requests with a token each, 2 values of settings | an acknowledged logout is not undone, the reference resolves, acknowledged settings are not lost, and once the caches catch up a logged out token is refused until it expires |
| `admins` | 2 users, 3 requests, 1 grant by group and its revocation, 1 save of LastSeen | an administrator is left unless demotions crossed or the setting took the last rights away (`AdminLeft`); no request takes rights by group; saving LastSeen changes no rights |
| `members` | 2 users, one an administrator, a service account, 3 requests, 2 projects, limit 1 | an edit overwrites no version of a binding that it has not seen (`EditsAreSeen`); a user gets a second binding only from a request that could not see the first; a project has a manager unless an administrator interfered, managers crossed or its creation stopped; the limit is exceeded only by a race |
| `service_accounts` | 2 requests, 2 names, 2 groups, 2 accounts and a token and up to 3 of each | names clash only unseen; a revoked token is refused in the end and not stored again, unless it was generated for two accounts within one second; a group is lost only if the cached binding was misread; the tokens of a deleted account go with it |
| `clusters` | 2 requests, 2 clusters and 2 more, 2 SSH keys, 1 encryption key | a cluster that kept the link to its preset has its credentials unless a request is under way or failed; an encrypted cluster has a key; patches undo neither a migration nor a deletion's finalizers; keys are for the clusters the answers named (`KeysInv`) |

`TypeOK` of every module (`PoolTypeOK` of the pool) is a conjunct of its `...Inv` invariant.
Those invariants are inductive and proved; of the runs only `clusters` lists its own, because
its part about answers to assignments (`AnswersHold`) is a property in its own right.

### What the code does differently from what it says

| Run | Property | What happens |
|---|---|---|
| `user_watch_groups` | `GroupsAreCurrent` | a change of groups is pushed with the bindings of the old groups |
| `user_watch_spelling` | `EachSpellingIsServed` | the address in a token has a capital; its user is found, but the subscription is under a path that nothing is published to |
| `clusters_encryption` | `AgreedKeyIsUsed` | two requests enable encryption at once, or it is enabled again, with another key; the secret already exists and stays in use, and the request is answered with success |

The findings in `PROJECT.json` quote the lines. The modules state further
expectations that the code does not meet. They have no run of their own; added to the
configuration named, each has a short counterexample:

| Statement | Configuration | What happens |
|---|---|---|
| `TerminalPool!AtMostMaxConnections` | `MCTerminalPool` | handlers that compare before either has counted itself are all admitted |
| `WebTerminal!DeletesOnlyExpired` | `MCWebTerminal` | the job is created before the config map; a script that reads first takes the terminal for expired |
| `WebTerminal!ExitAlwaysRestartsJob` | `MCWebTerminal` (as a property) | reconnections renew the expiration without being counted; the job runs out of restarts and the pod stays |
| `UserAdmins!OneUserIsElected` | `MCUserAdmins` | users who log in for the first time before the cache shows any of them all become administrators |
| `ProjectMembers!RemovedMemberIsOut` | `MCProjectMembers` (as a property) | of two bindings of a member one is removed |
| `ServiceAccounts!GroupIsApplied` | `MCServiceAccounts` | an update back to the old group, while the new one is being applied, finds the old group in the cached binding, leaves the label alone, and the new group is applied |

More consequences of the same code, visible in the models:

- `ReleaseMemory` lets later handlers exceed the limit even one at a time, since the
  connections it forgets stay open.
- A reconnection sets the refreshes back to zero: the "maximum 24h" of the comment on
  `maxNumberOfExpirationRefreshes` bounds the refreshes of one connection, not the life
  of the pod.
- A connection that closes between the refresh of the token and the Update loses the
  refresh token; the user has to log in again. The token routine itself never ends.
  Two logins at once may store the older token last; until the next login the secret then
  holds a token that cannot be refreshed.
- A deletion of a user that the informer delivers as a tombstone is logged and dropped.
  A change whose callback fails to look up the bindings is not pushed; the next one is.
- `LogoutTakesEffect` is about requests that pass `TokenVerifier`; the websocket handlers
  authenticate by themselves (`handler/routes_v1_websocket.go`) and do not look at the tokens
  that were logged out.
- Removing a group from the admin groups setting may leave no administrator.
- For an administrator the check that the name of a token is free compares names with
  token IDs and finds nothing. A token regenerated within a second for the same
  account is the same token; as the account is that of the URL, a token regenerated for
  two accounts in turn within a second may become one that was replaced. A name is looked
  up among the tokens of the account in the URL, which need not be the owner. A token
  that carries the address of one account and is owned by another goes with its owner.
- The limit on projects counts, for every binding of the user, the owner bindings in its
  project, so a duplicate binding counts four times.
- The name of a cluster is looked up as typed and stored trimmed, and renaming looks up
  nothing. A creation that times out waiting for the cache answers with an error although
  the cluster exists. A patch that fails after its first write leaves new credentials
  in a cluster that is still linked to its preset, and a patch can set the label of that link
  whatever the credentials are.

### Bounds and why they are enough

- Pool: three handlers on one key are one more than the limit, so that two can
  share the window; the second key shows that keys are independent; a second release
  does nothing new, since the first already separates counts from connections.
  The theorems hold for any number of each.
- Terminal: two sessions suffice for every pair of racing read-modify-writes, the third
  connection for a reconnection beside an open session; they also suffice for a session that
  creates a pod while the script deletes the policy. A lifetime of two ticks lets
  the script wake, early or late. `spareRestarts` stands for the constant 10 of
  `BackoffLimit`; two are the fewest with which the restarts suffice, and the number of
  connections that exhausts them grows with the constant. `Once` excepts reconnections and
  failures from the two properties about restarts. The terminal theorems hold for any
  value, `JobIsRestarted` for any of at least two.
- User watch: one change before the read, one between read and subscription and one
  after; two users so that a message can go to the wrong one; one look-up that fails. A
  third address, another spelling of one of the two, is used by the run about spellings.
- Blacklist: two requests with different tokens race a logout against a logout, a
  save of settings or an update of LastSeen; two values besides the initial one
  tell a lost write from a kept one. The safety properties are proved for any
  number of requests, tokens and values.
- Admins: two users so that they can demote one another; two requests of one of them
  so that one can be created and then act on old rights.
- Session: two connections race for one refresh; a third token shows what becomes of the
  loser, and with three tokens two logins overlap beside a stored one. A token life of
  three ticks leaves room for the early refresh, the expiry and the retry a minute
  later. The theorems hold for any values, `ToldInTime` included.
- Members: two requests race, the third acts on what they left; an administrator and a
  service account take the paths of the handlers that ask for either. A limit of one
  and two projects suffice to be below, at and above it.
- Service accounts: two requests race over two initial accounts, so that the one in the
  URL need not be the owner, and a token; one more account and two more tokens can be
  created. The clock has two values, equal or different seconds. The safety properties
  are proved for any number of requests, objects and seconds.
- Clusters: one race of two requests of any kinds over two clusters. Patches change one
  thing, or credentials and encryption, the pair of which writes all three objects; some
  also set or drop the preset label. One encryption key is enough where only its
  presence matters; the run about `AgreedKeyIsUsed` has two. Requests, names and
  encryption keys are symmetric: nothing orders them, and no temporal property other
  than action properties is checked in these runs.

Deadlock checking is off where the modelled processes may all come to rest: a
finite set of requests that have been answered, changes or connections used up to
their bound.

### Fairness

- Pool: weak fairness of the straight-line steps and of the timeout of the wait for
  the secret. Nobody is obliged to connect or to end a session.
- Terminal: time passes, the job's container runs and is restarted, finished
  jobs are removed, and a handler that began goes through its calls. Users need
  not refresh, reconnect or close.
- User watch: the informer delivers, and a writer that started runs. Delivery is
  strongly fair because a write that was blocked goes on once its client reads; it is
  fairness of a delivery whose look-ups succeed, since `faults` bounds those that fail.
  No client has to read: `PushedEventually` excepts the time in which the informer's
  goroutine is held up.
- Blacklist: the informers deliver. Requests need not make progress.
- Session: time passes and a token routine that is due acts. Nobody has to log in,
  connect or close.
- Service accounts: informers, the controller and the garbage collector keep running.
  Requests need not make progress.

`PushedEventually`, `LogoutTakesEffect`, `RevokedIsRefused` and `TokensGoWithAccount`
are of the form "from some point on", since the numbers of changes and requests are
finite in a run.

## 4. Proofs

Eight modules hold theorems, one for each specification; the pool and the token
routines, which every open terminal takes part in, share one. All are proved for every
value of the constants under the assumptions stated with them: limits and bounds are
naturals and durations positive, `keyOf` and `tokenOf` are functions, the sets of
handlers are finite where they are counted, and the words the models use for "nothing"
(`"none"`, `"absent"`, `"failed"`) are not names of anything. The theorem about
restarts also assumes two spare ones.

**TerminalConnectionsProofs, the pool.** `PoolInv` is inductive: types, "an admitted handler saw a
count below the limit", "no count exceeds the open connections" and "counts are
exact until the first release". The difficulty is cardinalities: one lemma says how
the set of open connections of a key changes when a handler enters or leaves, and
each action of the pool refers to it. From the invariant follow the type invariant,
`NoPhantomConnections`, `ExactUntilReleased`, and the two action properties
`OverLimitOnlyByRace` and `RejectedOnlyWhenFull`. `PoolImplementsAdmission` shows that
`TerminalPool` implements `Admission`: the read of the count maps to `Grant` or `Refuse`,
whose conditions on the open connections are `ExactUntilReleased` and
`NoPhantomConnections` at that moment; the comparison itself maps to a stutter.

**WebTerminalProofs.** `TerminalInv` comes in three layers: types together with
`RestartsLeft`, without which the job's failures would leave their range; then
`RefreshesWithinLimit` with `PendingBelowLimit` (a refresh under way was allowed by a
count below the limit, and what it writes is one more than what it read, however old
that is); then `ScriptInformed` (unless stale, the script's variables are those of
the config map), from which `DeletesLiveOnlyIfStale` follows.

`PodIsCovered` (`PolicyCoversPod`) holds for any number of sessions, connections and faults. Besides
the property itself it needs `PodToBeCovered`: a session about to create the pod finds
the policy there, or `bared` says that the script has deleted it since.

`ExitRestartsJob` is about a terminal that was opened once and nothing failed, which
`Once` says of a state; without that (`ExitAlwaysRestartsJob`) it is wrong. The inductive
invariant `Undisturbed` says that one session at most is active (`OneSession`), what
exists when it is at each of its steps (`Stage`), and that a job at work has a pod
(`JobHasPod`). `JobIsRestarted` (`ExitRestartsJob`) also needs `SleepsCounted`: the
failures of the job, a sleep that has begun and a write the script has not seen are
together no more than the writes of the config map, which are one more than the refreshes.
So two spare restarts are enough, and the code has ten.

**TokenBlacklistProofs.** `LoggedOutStaysBlacklisted` is not inductive: an older
version of the user must not come back, and a logout about to answer must have had
its effect. `BlacklistInv` adds `ReferenceStays` (once in a version, the reference is
in all later ones), `ReferenceIsHeld` (a logout that writes tokens holds a version
with the reference) and `AnswersAreEarned`. The proof first shows what any step can
do to each object (`UserStep`: append a version that follows the last one;
`SecretStep`: a logout with the latest version adds a token and drops expired ones)
and derives the rest from these two lemmas, so that only the parts about a request's
progress look at the actions again.

**TerminalConnectionsProofs, the token routines.** `StoredTokenIsCurrent` is not
inductive: a routine that stores what it received must not store an older token over a
newer one. `TokensInOrder` says why it cannot: what a routine received is newer than
what it read, and as the Update compares versions it succeeds only if the secret still
holds what was read. A login compares nothing, and `displaced` is then the newer token
it replaced. `SessionInv`, these two and the types, is inductive. `ClientsAreTold`
(`ToldInTime`) is about sleeps: while a client believes in its token, its routine wakes
no later than a minute after the expiry of whatever token it can find then (`OnTime`),
counted from the newest token that was ever stored (`Newest`). That survives a change of
the secret because tokens expire in the order in which they were issued
(`OlderExpireFirst`) and a routine between its refresh and its Update does not sleep.
While an older token has the place of a newer one, `ToldInTime` says nothing.

**UserAdminsProofs.** `AdminsInv` is inductive: types, what each request has read
(`RequestsInformed`), that whoever has rights by group has them (`GroupMakesAdmin`), and
that an administrator is left unless demotions crossed or the setting took the last
rights (`AdminLeft`). The argument for the last: a request demotes only a user other
than its caller, and the caller, unless demoted in between (`crossed`), is left; a grant
by group or by a request ends what `lapsed` records. `SavingIsHarmless` and
`GroupRightsAreKept` follow from it step by step.

**UserWatchProofs.** `WatcherInv` adds to the types that an update on its way is of a user
that is there by then (`EventsInOrder`), so that `OnUpdate` meets only users in the cache
(`UpdatesAreCached`); that the events end with the user as it is stored
(`StoreRecorded`); what each writer has done at its step (`WritersInOrder`); and that a client
whose token spells the address as it is stored and that missed
nothing shows what the watcher caches or is about to publish (`ShownIsPending`, the
theorem `CacheHidesNothing`). Once the
queue is empty the cache is what is stored, which gives `StaleOnlyIfMissed`.

**ProjectMembersProofs.** `MembersInv` says that names identify bindings (`NamesCount`),
that a removed binding has no later version (`RemovedStaysRemoved`), that a version is
written over earlier ones only by a request that had seen them (`EditsAreSeen`) and what
a request has read (`RequestsInformed`). It is proved together with
`DuplicatesOnlyUnseen` and `ManagerLeft`, which need it. Two lemmas say what any written
version does to the log (a new binding that its request did not see, or a version over
an existing one); the actions refer to them. `LimitIsKept` counts: a request that goes
on to create a project has seen fewer owned projects than the limit (`LimitChecked`),
what it saw can only shrink, and its own binding adds one. The cardinalities come from
the theorems on finite sets.

**ClusterKeysProofs.** The proof is about steps first: a step extends a cluster by one
version that follows the latest one (`Extends`, `Follows`), adds a cluster, or leaves
all alone; the same for SSH keys. From this follows what every request knows
(`RequestsInformed`), for the requests that take the step and for those that do not.
`KeysAreRight` (`KeysInv`), `NamesAreApart`, `EncryptionHasItsKey`, `LinksAreRight` and
`CleanupsAreKept` share one inductive invariant, `IndInv`: `EncryptedHasKey` needs to
know that a request which is about to switch encryption on has stored a key;
`CleanupIsKept` that a request holds the finalizers of the version it read; names that a
cluster, or a key, was created under a name that none its request looked at had
(`CreatedApart`, `KeysCreatedApart`). The action property `ExternalCCMStays` is proved
from it.

**ServiceAccountsProofs.** Every step leaves the objects alone, adds one, or adds a version
to one that is live (`Extends`); so the version a request has looked at stays what it was,
and a deleted object has no later version (`GoneIsLast`). Three arguments rest on this, in
one inductive invariant, `AccountsInv`:

- Revocation. The data of a token is the token, an account and a second (`DataIsOwn`).
  What a request is about to write is no older than the version it read
  (`RequestsReadFirst`), and it is accepted only if that version is still the latest; so
  seconds never decrease along the versions of a token, and what was replaced is older
  than what is stored, or was replaced within its second for another account
  (`RevokedIsOlder`, `Switched`). `RevocationIsFinal` (`RevokedStaysRevoked`) is the
  consequence. Within a second and for the same account a regeneration makes the same
  token, and nothing counts as revoked.
- Names. The versions that were looked at for a name did not have it (`NamesWereFree`). If
  a request saw an object at or after the version in which that object got its present
  name (`NamedAt`, which exists because there is a least such version), it saw a live object
  with the name and would not have used it. That is `NamesClashOnlyUnseen`, for accounts and
  for the tokens of an account; a look-up under another account's URL has not seen them.
- Groups. The label, or else the binding, has the promised group unless `misread`; the
  controller removes a label only from a version whose group it has bound (`LabelsLead`).
  `GroupLostOnlyByMisreading` is the case without label.

Every safety property that a run shows to hold is proved. Only model-checked are the
liveness properties `EveryConnectionIsAnswered`, `PodIsDeleted`, `ExpiredRecovers`,
`PushedEventually`, `LogoutTakesEffect`, `RevokedIsRefused` and `TokensGoWithAccount`:
fairness and `ENABLED` are outside the prover's reach.

## 5. Not modelled

- Contents of the generated pod, network policy and RBAC objects; the expiration warning
  and ping loops of a terminal, the overlap of its websocket writers. The goroutine that
  reads terminal sizes has no end either; like the token routine it waits and writes
  nothing.
- Project bindings in the user watch beyond the groups they depend on; the settings
  watch, which is the user watch without cache and path.
- Of projects: renaming, and group bindings. Of clusters: validation, defaulting and
  conversion of specifications, and the fields that no two operations share. Of logins:
  everything but the token that is stored.
- Everything whose state changes are single calls around validation and conversion
  (machine deployments, presets, templates, backups, constraints, addons, rules, quotas,
  policies), the cloud providers, the enterprise edition's endpoints and the frontend;
  `PROJECT.json` gives the reason for each.

The modelled code is a small part of the server's lines, and will remain so: most of
the rest is declarations of routes and API types, conversions between API and
Kubernetes types, clients of cloud providers, and endpoints that check a permission
and make one call, for which a model would repeat the call. Where such an endpoint
makes more than one (clusters, accounts, members), it is modelled.

## 6. Plan

In this order:

1. `SettingsWatch`: the publisher without cache and path.
2. The writers of a terminal's websocket: reader, shell, warning and token routine.
3. Group project bindings beside user bindings; cluster templates, whose instances are
   created by a controller from a label.
