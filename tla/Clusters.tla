------------------------------ MODULE Clusters ------------------------------
(***************************************************************************)
(* The user clusters of a project (modules/api/pkg/handler/common/         *)
(* cluster.go, modules/api/pkg/provider/kubernetes/cluster.go and          *)
(* credentials.go): creation, patches, migration to the external cloud     *)
(* controller, and deletion.                                               *)
(*                                                                         *)
(* A patch writes up to three objects: the secret with the cloud           *)
(* credentials, the secret with the encryption key, and then the Cluster,  *)
(* which alone is guarded by its version.  A cluster is the sequence of    *)
(* its versions; the cache, which serves administrators, has a prefix.     *)
(***************************************************************************)
EXTENDS Naturals, Sequences

CONSTANTS
    Requests,    \* HTTP requests
    Names,       \* human readable names, without space around them
    Keys,        \* encryption keys
    Credentials, \* cloud credentials a user may enter
    Patches,     \* patches a user may send
    MaxClusters  \* bound on the clusters created

Callers == {"admin", "member"}

\* The part of a patch that matters here.  "keep" where it is silent.  The
\* labels of a patch are taken as they are, the one for presets too.
PatchRecords ==
    [name : Names \cup {"keep"}, label : {"keep", "set", "drop"},
     credentials : Credentials \cup {"keep"},
     encryption : {"keep", "on", "off"}, key : Keys \cup {"none"}]

ASSUME ClustersAssumption ==
    /\ MaxClusters \in Nat
    /\ {"keep", "none", "preset"} \cap (Names \cup Keys \cup Credentials) = {}
    /\ {"none", "failed"} \cap Requests = {}
    /\ Patches \subseteq PatchRecords

VARIABLES
    clusters,   \* versions of each cluster, in the order of creation
    shown,      \* how many versions of a cluster the cache has
    credential, \* what the credential secret of a cluster holds
    encKey,     \* what the encryption secret of a cluster holds, or "none"
    pc, req,    \* the step a request is at, what it has found out
    origin,     \* how the name of a cluster was checked
    writer,     \* request that wrote the credentials and is not answered
    agreed,     \* key in the last successful request to encrypt a cluster
    cleanup     \* whether a deletion has asked for the volumes to go

objects == <<clusters, shown, credential, encKey>>
ghosts == <<origin, writer, agreed, cleanup>>
vars == <<objects, pc, req, ghosts>>

-----------------------------------------------------------------------------
Known == 1 .. Len(clusters)
Latest(versions) == versions[Len(versions)]
Present(versions, n) == n > 0 /\ versions[n].state # "gone"
Stored(versions) == Present(versions, Len(versions))

\* GetInternalCluster: administrators read the cache.
Found(versions, n, by) == IF by = "admin" THEN n ELSE Len(versions)

\* A cluster made from a preset, to which it is linked by a label.  The link
\* is "claimed" when a patch has set the label on a cluster without it.
NewCluster(n, e) ==
    [name |-> n, preset |-> "yes", encryption |-> e, ccm |-> "no",
     up |-> "no", finalizer |-> "no", owner |-> "no", state |-> "live"]

Silent == [name |-> "keep", label |-> "keep", credentials |-> "keep",
           encryption |-> "keep", key |-> "none"]
NoRequest == [by |-> "member", object |-> 0, position |-> 0, patch |-> Silent,
              padded |-> "no", volumes |-> "no", seen |-> {}]

\* Two clusters that are up, the older of them encrypted or not.
Init ==
    /\ \E n, m \in Names, e \in {"on", "off"}, k \in Keys :
         LET Running(name, enc) == [NewCluster(name, enc) EXCEPT !.up = "yes", !.owner = "yes"]
         IN  /\ n # m
             /\ clusters = <<<<Running(n, e)>>, <<Running(m, "off")>>>>
             /\ encKey = <<IF e = "on" THEN k ELSE "none", "none">> /\ agreed = encKey
    /\ shown = <<1, 1>> /\ credential = <<"preset", "preset">>
    /\ pc = [r \in Requests |-> "idle"] /\ req = [r \in Requests |-> NoRequest]
    /\ origin = <<[padded |-> "no", seen |-> {}], [padded |-> "no", seen |-> {1}]>>
    /\ writer = <<"none", "none">> /\ cleanup = <<"no", "no">>

\* A request begins with its reads, goes on, or is answered.
Begin(r, step, held) ==
    /\ pc[r] = "idle" /\ pc' = [pc EXCEPT ![r] = step]
    /\ req' = [req EXCEPT ![r] = held]
Go(r, from, to) ==
    /\ pc[r] = from /\ pc' = [pc EXCEPT ![r] = to]
    /\ UNCHANGED req
Answer(r, from) ==
    /\ pc[r] = from /\ pc' = [pc EXCEPT ![r] = "answered"]
    /\ req' = [req EXCEPT ![r] = NoRequest]

\* An Update: the version that was read must be the latest one, nothing is
\* stored if nothing changes, and a cluster that is being deleted takes no
\* new finalizer.
Accepted(q, new) ==
    LET versions == clusters[q.object]
    IN  /\ q.position = Len(versions) /\ Stored(versions)
        /\ Latest(versions).state = "deleting" => new.finalizer = Latest(versions).finalizer
Store(c, new) ==
    clusters' = IF new = Latest(clusters[c]) THEN clusters
                ELSE [clusters EXCEPT ![c] = Append(@, new)]

-----------------------------------------------------------------------------
(* Creation.                                                               *)

\* List: a seed that refuses the connection has no clusters.
Listed == {c \in Known : Present(clusters[c], shown[c])}
Answers == {Listed, {}}

\* With a name: the one in the request, while stored names have been trimmed
\* of space.
ListByName(listed, n, padded) ==
    {c \in listed : padded = "no" /\ clusters[c][shown[c]].name = n}

\* CreateEndpoint without the look at the names in use.
StartCreateUnlisted(r, by, n, padded, key) ==
    /\ Begin(r, "create", [NoRequest EXCEPT !.by = by, !.padded = padded, !.seen = Listed,
                             !.patch = [Silent EXCEPT !.name = n, !.key = key]])
    /\ UNCHANGED <<objects, ghosts>>

\* CreateEndpoint up to the write.  GenerateCluster has stored the
\* encryption key, under a random name that nobody else knows.
StartCreate(r, by, n, padded, key) ==
    /\ \E listed \in Answers :
         /\ ListByName(listed, n, padded) = {}
         /\ Begin(r, "create", [NoRequest EXCEPT !.by = by, !.padded = padded, !.seen = listed,
                                  !.patch = [Silent EXCEPT !.name = n, !.key = key]])
    /\ UNCHANGED <<objects, ghosts>>

\* createNewCluster: genAPICluster trims the name.
CreateCluster(r) ==
    LET q == req[r]
        key == q.patch.key
    IN  /\ pc[r] = "create" /\ Len(clusters) < MaxClusters
        /\ pc' = [pc EXCEPT ![r] = "appear"]
        /\ req' = [req EXCEPT ![r].object = Len(clusters) + 1]
        /\ clusters' = Append(clusters, <<NewCluster(q.patch.name,
                                              IF key = "none" THEN "off" ELSE "on")>>)
        /\ shown' = Append(shown, 0)
        /\ credential' = Append(credential, "preset")
        /\ encKey' = Append(encKey, key) /\ agreed' = Append(agreed, key)
        /\ origin' = Append(origin, [padded |-> q.padded, seen |-> q.seen])
        /\ writer' = Append(writer, "none") /\ cleanup' = Append(cleanup, "no")

\* waitForCluster, then the user's e-mail is patched into the status.
SetUserEmail(r) ==
    /\ Go(r, "appear", "ready")
    /\ LET c == req[r].object
           found == Found(clusters[c], shown[c], req[r].by)
       IN  /\ Present(clusters[c], found) /\ Stored(clusters[c])
           /\ Store(c, [Latest(clusters[c]) EXCEPT !.owner = "yes"])
    /\ UNCHANGED <<shown, credential, encKey, ghosts>>

\* The wait for the RBAC controller: nothing is written any more.
WaitForCluster(r) ==
    /\ pc[r] = "ready"
    /\ LET c == req[r].object
       IN  Present(clusters[c], Found(clusters[c], shown[c], req[r].by))
    /\ Answer(r, "ready")
    /\ UNCHANGED <<objects, ghosts>>

-----------------------------------------------------------------------------
(* Patches.                                                                *)

\* PatchEndpoint up to the first write.
StartPatch(r, by, c, p) ==
    LET found == Found(clusters[c], shown[c], by)
    IN  /\ Present(clusters[c], found)
        /\ Begin(r, IF p.credentials = "keep" THEN "validate" ELSE "credentials",
                 [NoRequest EXCEPT !.by = by, !.object = c, !.position = found, !.patch = p])
        /\ UNCHANGED <<objects, ghosts>>

\* createOrUpdateCredentialSecretForCluster, with credentials in the patch.
PutCredentials(r) ==
    LET c == req[r].object
    IN  /\ Go(r, "credentials", "validate")
        /\ credential' = [credential EXCEPT ![c] = req[r].patch.credentials]
        /\ writer' = [writer EXCEPT ![c] = r]
        /\ UNCHANGED <<clusters, shown, encKey, origin, agreed, cleanup>>

Old(q) == clusters[q.object][q.position]
Patched(was, wanted) == IF wanted = "keep" THEN was ELSE wanted
Enables(q) == Old(q).encryption = "off" /\ q.patch.encryption = "on"

\* Encryption may be enabled without a key.
HandleEncryptionWithoutKey(r) ==
    LET q == req[r]
    IN  /\ Go(r, "validate", "update")
        /\ encKey' = IF Enables(q) /\ encKey[q.object] = "none"
                     THEN [encKey EXCEPT ![q.object] = q.patch.key] ELSE encKey
        /\ UNCHANGED <<clusters, shown, credential, ghosts>>

\* Validation and handleEncryptionAtRestUpdate: to enable encryption takes
\* a key, and createEncryptionSecret leaves a secret alone that exists.
HandleEncryption(r) ==
    LET q == req[r]
    IN  /\ Go(r, "validate", "update")
        /\ Enables(q) => q.patch.key # "none"
        /\ encKey' = IF Enables(q) /\ encKey[q.object] = "none"
                     THEN [encKey EXCEPT ![q.object] = q.patch.key] ELSE encKey
        /\ UNCHANGED <<clusters, shown, credential, ghosts>>

\* New credentials end the link to the preset, after the labels of the patch
\* have been taken over.
Link(was, p) ==
    CASE p.credentials # "keep" \/ p.label = "drop" -> "no"
      [] p.credentials = "keep" /\ p.label = "set" /\ was = "no" -> "claimed"
      [] OTHER -> was
PatchedCluster(q) ==
    [Old(q) EXCEPT !.name = Patched(@, q.patch.name),
                   !.preset = Link(@, q.patch),
                   !.encryption = Patched(@, q.patch.encryption)]

Settle(r, c) == writer' = IF writer[c] = r THEN [writer EXCEPT ![c] = "none"] ELSE writer

\* The Update without the version that was read.
UpdateClusterBlindly(r) ==
    LET q == req[r]
        c == q.object
    IN  /\ Answer(r, "update") /\ Stored(clusters[c])
        /\ Store(c, PatchedCluster(q)) /\ Settle(r, c)
        /\ agreed' = IF Enables(q) THEN [agreed EXCEPT ![c] = q.patch.key] ELSE agreed
        /\ UNCHANGED <<shown, credential, encKey, origin, cleanup>>

\* updateCluster
UpdateCluster(r) ==
    LET q == req[r]
        c == q.object
    IN  /\ Answer(r, "update") /\ Accepted(q, PatchedCluster(q))
        /\ Store(c, PatchedCluster(q)) /\ Settle(r, c)
        /\ agreed' = IF Enables(q) THEN [agreed EXCEPT ![c] = q.patch.key] ELSE agreed
        /\ UNCHANGED <<shown, credential, encKey, origin, cleanup>>

-----------------------------------------------------------------------------
(* Migration and deletion.                                                 *)

\* MigrateEndpointToExternalCCM
StartMigrate(r, by, c) ==
    LET found == Found(clusters[c], shown[c], by)
    IN  /\ Present(clusters[c], found) /\ clusters[c][found].ccm = "no"
        /\ Begin(r, "migrate", [NoRequest EXCEPT !.by = by, !.object = c, !.position = found])
        /\ UNCHANGED <<objects, ghosts>>

\* The patch has the one feature in it and no version.
Migrate(r) ==
    LET c == req[r].object
    IN  /\ Answer(r, "migrate") /\ Stored(clusters[c])
        /\ Store(c, [Latest(clusters[c]) EXCEPT !.ccm = "yes"])
        /\ UNCHANGED <<shown, credential, encKey, ghosts>>

\* DeleteEndpoint up to the first write.
StartDelete(r, by, c, volumes) ==
    LET found == Found(clusters[c], shown[c], by)
    IN  /\ Present(clusters[c], found)
        /\ Begin(r, "finalize", [NoRequest EXCEPT !.by = by, !.object = c,
                                   !.position = found, !.volumes = volumes])
        /\ UNCHANGED <<objects, ghosts>>

\* updateAndDeleteCluster: the finalizers that clean up volumes and load
\* balancers are for clusters that have been up.
AddFinalizers(r) ==
    LET q == req[r]
        c == q.object
        asked == q.volumes = "yes" /\ Old(q).up = "yes"
        new == [Old(q) EXCEPT !.finalizer = IF asked THEN "yes" ELSE @]
    IN  /\ Go(r, "finalize", "delete") /\ Accepted(q, new)
        /\ Store(c, new)
        /\ cleanup' = IF asked THEN [cleanup EXCEPT ![c] = "yes"] ELSE cleanup
        /\ UNCHANGED <<shown, credential, encKey, origin, writer, agreed>>

\* Delete, by name.
Delete(r) ==
    LET c == req[r].object
    IN  /\ Answer(r, "delete") /\ Stored(clusters[c])
        /\ Store(c, [Latest(clusters[c]) EXCEPT !.state = "deleting"])
        /\ UNCHANGED <<shown, credential, encKey, ghosts>>

\* Invalid credentials or an invalid cluster, a conflict, a failed call, a
\* cluster that is gone or does not appear in time.  Nothing is undone.
Fail(r) ==
    /\ \E step \in {"create", "appear", "ready", "credentials", "validate", "update",
                    "migrate", "finalize", "delete"} : Answer(r, step)
    /\ writer' = [c \in Known |-> IF writer[c] = r THEN "failed" ELSE writer[c]]
    /\ UNCHANGED <<objects, origin, agreed, cleanup>>

-----------------------------------------------------------------------------
(* The surroundings.                                                       *)

\* A controller finds that a cluster is up and protects its nodes.
ComeUp(c) ==
    /\ Stored(clusters[c]) /\ Latest(clusters[c]).state = "live"
    /\ Latest(clusters[c]).up = "no"
    /\ Store(c, [Latest(clusters[c]) EXCEPT !.up = "yes"])
    /\ UNCHANGED <<shown, credential, encKey, pc, req, ghosts>>

\* The controllers have removed their finalizers.
Vanish(c) ==
    /\ Latest(clusters[c]).state = "deleting"
    /\ Store(c, [Latest(clusters[c]) EXCEPT !.state = "gone"])
    /\ UNCHANGED <<shown, credential, encKey, pc, req, ghosts>>

Sync(c) ==
    /\ shown[c] < Len(clusters[c])
    /\ shown' = [shown EXCEPT ![c] = @ + 1]
    /\ UNCHANGED <<clusters, credential, encKey, pc, req, ghosts>>

Start(r) ==
    /\ pc[r] = "idle"
    /\ \E by \in Callers :
         \/ \E n \in Names, padded \in {"yes", "no"}, key \in Keys \cup {"none"} :
              StartCreate(r, by, n, padded, key)
         \/ \E c \in Known, p \in Patches : StartPatch(r, by, c, p)
         \/ \E c \in Known : StartMigrate(r, by, c)
         \/ \E c \in Known, volumes \in {"yes", "no"} : StartDelete(r, by, c, volumes)

Continue(r) ==
    \/ CreateCluster(r) \/ SetUserEmail(r) \/ WaitForCluster(r)
    \/ PutCredentials(r) \/ HandleEncryption(r) \/ UpdateCluster(r)
    \/ Migrate(r) \/ AddFinalizers(r) \/ Delete(r) \/ Fail(r)

Next ==
    \/ \E r \in Requests : Start(r) \/ Continue(r)
    \/ \E c \in Known : ComeUp(c) \/ Vanish(c) \/ Sync(c)

Spec == Init /\ [][Next]_vars
-----------------------------------------------------------------------------
YesNo == {"yes", "no"}
Links == {"yes", "no", "claimed"}
Versions ==
    [name : Names, preset : Links, encryption : {"on", "off"},
     ccm : YesNo, up : YesNo, finalizer : YesNo, owner : YesNo, state : {"live", "deleting", "gone"}]
RequestData ==
    [by : Callers, object : Nat, position : Nat, patch : PatchRecords, padded : YesNo,
     volumes : YesNo, seen : SUBSET Nat]
PerCluster(s, S) == s \in Seq(S) /\ Len(s) = Len(clusters)

\* The steps of a request; those of requests about keys are the last three.
Steps ==
    {"idle", "create", "appear", "ready", "credentials", "validate", "update", "migrate",
     "finalize", "delete", "answered", "createKey", "assign", "detach"}

TypeOK ==
    /\ clusters \in Seq(Seq(Versions)) /\ PerCluster(shown, Nat)
    /\ PerCluster(credential, Credentials \cup {"preset"})
    /\ PerCluster(encKey, Keys \cup {"none"}) /\ PerCluster(agreed, Keys \cup {"none"})
    /\ PerCluster(origin, [padded : YesNo, seen : SUBSET Nat])
    /\ PerCluster(writer, Requests \cup {"none", "failed"}) /\ PerCluster(cleanup, YesNo)
    /\ pc \in [Requests -> Steps] /\ req \in [Requests -> RequestData]
    /\ \A c \in Known :
         /\ Len(clusters[c]) > 0 /\ shown[c] <= Len(clusters[c])
         /\ \A i \in 1 .. Len(clusters[c]) :
              clusters[c][i].state = "gone" => i = Len(clusters[c])

\* A cluster that has had another name at some time.
NamedOtherwise(c, n) == \E i \in 1 .. Len(clusters[c]) : clusters[c][i].name # n

\* What a request has found out remains true while it goes on: the version
\* it read is there, the key it needs is stored, and the clusters it has
\* looked at before a creation have, or had, another name.
Informed(r) ==
    LET q == req[r]
    IN  /\ pc[r] \in {"appear", "ready", "credentials", "validate", "update", "migrate",
                      "finalize", "delete", "assign", "detach"} => q.object \in Known
        /\ pc[r] \in {"credentials", "validate", "update", "finalize"} =>
              q.position \in 1 .. Len(clusters[q.object])
        /\ pc[r] = "credentials" => q.patch.credentials # "keep"
        /\ pc[r] = "update" /\ Enables(q) => encKey[q.object] # "none"
        /\ pc[r] = "create" =>
              /\ q.patch.name \in Names
              /\ \A c \in q.seen :
                   c \in Known /\ (q.padded = "no" => NamedOtherwise(c, q.patch.name))
        /\ \A c \in Known :
              writer[c] = r => /\ pc[r] \in {"validate", "update"} /\ q.object = c
                               /\ q.patch.credentials # "keep"
RequestsInformed == \A r \in Requests : Informed(r)

\* A cluster was created under a name that the clusters looked at before
\* did not have, at least at the time.
CreatedApart ==
    \A y \in Known :
        \A x \in origin[y].seen :
            /\ x \in Known
            /\ origin[y].padded = "no" => NamedOtherwise(x, clusters[y][1].name)

\* Two clusters of a project have one name only if one was renamed, which
\* nothing checks, or the younger was created with space around its name,
\* or without the older in the list that was looked at: the cache did not
\* have it yet, or the seed refused the connection.
NamesClashUnchecked ==
    \A x, y \in Known :
        /\ x < y /\ Stored(clusters[x]) /\ Stored(clusters[y])
        /\ Latest(clusters[x]).name = Latest(clusters[y]).name
        => \/ \E c \in {x, y} : \E i \in 1 .. Len(clusters[c]) :
                clusters[c][i].name # clusters[c][1].name
           \/ origin[y].padded = "yes"
           \/ x \notin origin[y].seen

\* "the credentials were changed during the update. Remove link to
\* credential preset": a cluster that has kept the link to its preset has the
\* credentials of the preset, unless the request that wrote others to the
\* secret is still under way, or has failed afterwards.  Nothing is said of a
\* label that a patch has set itself: PatchEndpoint takes any.
LinkedHasPresetCredentials ==
    \A c \in Known :
        Latest(clusters[c]).preset = "yes" /\ writer[c] = "none" => credential[c] = "preset"

\* An encrypted cluster has its key, whatever fails on the way.
EncryptedHasKey ==
    \A c \in Known : Latest(clusters[c]).encryption = "on" => encKey[c] # "none"

\* "encryption key is required when enabling encryption at rest": the key
\* in the request that succeeded is the one in use.
AgreedKeyIsUsed ==
    \A c \in Known : Latest(clusters[c]).encryption = "on" => encKey[c] = agreed[c]

\* "external CCM already enabled, cannot be disabled", not by a patch that
\* was made from an older version either.
ExternalCCMStays ==
    [][\A c \in Known : Latest(clusters[c]).ccm = "yes" => Latest(clusters'[c]).ccm = "yes"]_vars

\* A deletion that has asked for the volumes of a cluster that is up is not
\* made to leave them by another request, until the cluster is gone.
CleanupIsKept ==
    \A c \in Known : cleanup[c] = "yes" => Latest(clusters[c]).finalizer = "yes"
=============================================================================
