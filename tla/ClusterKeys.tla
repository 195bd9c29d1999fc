---------------------------- MODULE ClusterKeys ----------------------------
(***************************************************************************)
(* The SSH keys of a project and their assignment to its clusters          *)
(* (modules/api/pkg/handler/v1/ssh/ssh.go, modules/api/pkg/handler/common/ *)
(* cluster.go, modules/api/pkg/provider/kubernetes/ssh.go), beside the     *)
(* operations on the clusters.  A key has the list of the clusters it is   *)
(* for; to assign or detach it is a read and an Update of that list.       *)
(***************************************************************************)
EXTENDS Clusters

CONSTANTS KeyNames, MaxKeys

ASSUME KeysAssumption == MaxKeys \in Nat

VARIABLES
    sshKeys,   \* versions of each key
    keyShown,  \* how many versions of a key the cache has
    key,       \* what a request has found out about a key
    keyOrigin, \* keys that the creation of a key looked at
    assigned,  \* clusters a key is for, as answered
    misread    \* assignments that were answered from an old version

keyObjects == <<sshKeys, keyShown>>
keyGhosts == <<keyOrigin, assigned, misread>>
keyVars == <<keyObjects, key, keyGhosts>>
allVars == <<vars, keyVars>>

-----------------------------------------------------------------------------
NoKey == [id |-> 0, position |-> 0, name |-> "none", seen |-> {}]
NewKey(n) == [name |-> n, clusters |-> {}, state |-> "live"]
KnownKeys == 1 .. Len(sshKeys)

\* A key that has been assigned to the older cluster.
KeysInit ==
    /\ Init
    /\ \E n \in KeyNames : sshKeys = <<<<[NewKey(n) EXCEPT !.clusters = {1}]>>>>
    /\ assigned = <<{1}>>
    /\ keyShown = <<1>> /\ keyOrigin = <<{}>> /\ misread = <<{}>>
    /\ key = [r \in Requests |-> NoKey]

\* Requests about keys leave the clusters alone.
BeginKey(r, step, q, k) ==
    /\ Begin(r, step, q) /\ key' = [key EXCEPT ![r] = k]
    /\ UNCHANGED <<objects, ghosts, keyObjects, keyGhosts>>
AnswerKey(r, step) ==
    /\ Answer(r, step) /\ key' = [key EXCEPT ![r] = NoKey]
    /\ UNCHANGED <<objects, ghosts>>

\* List, from the cache for everybody.
ListKeys == {k \in KnownKeys : Present(sshKeys[k], keyShown[k])}

\* CreateEndpoint
StartKey(r, by, n) ==
    /\ \A k \in ListKeys : sshKeys[k][keyShown[k]].name # n
    /\ BeginKey(r, "createKey", [NoRequest EXCEPT !.by = by],
                [NoKey EXCEPT !.name = n, !.seen = ListKeys])

\* createUserSSHKey
CreateUserSSHKey(r) ==
    /\ AnswerKey(r, "createKey") /\ Len(sshKeys) < MaxKeys
    /\ sshKeys' = Append(sshKeys, <<NewKey(key[r].name)>>)
    /\ keyShown' = Append(keyShown, 0) /\ keyOrigin' = Append(keyOrigin, key[r].seen)
    /\ assigned' = Append(assigned, {}) /\ misread' = Append(misread, {})

\* DeleteEndpoint: by name, without a look at the key.
DeleteUserSSHKey(r, k) ==
    /\ Stored(sshKeys[k])
    /\ pc[r] = "idle" /\ pc' = [pc EXCEPT ![r] = "answered"]
    /\ sshKeys' = [sshKeys EXCEPT ![k] = Append(@, [Latest(@) EXCEPT !.state = "gone"])]
    /\ UNCHANGED <<objects, req, ghosts, keyShown, key, keyGhosts>>

\* What both AssignSSHKeyEndpoint and DetachSSHKeyEndpoint ask for.
Usable(by, c, k) ==
    /\ Present(clusters[c], Found(clusters[c], shown[c], by))
    /\ k \in ListKeys
    /\ Present(sshKeys[k], Found(sshKeys[k], keyShown[k], by))
Read(by, c, k, step, r) ==
    BeginKey(r, step, [NoRequest EXCEPT !.by = by, !.object = c],
             [NoKey EXCEPT !.id = k, !.position = Found(sshKeys[k], keyShown[k], by)])

\* AssignSSHKeyEndpoint: nothing to do if the key has the cluster.
AssignNothing(r, by, c, k) ==
    /\ Usable(by, c, k) /\ c \in sshKeys[k][Found(sshKeys[k], keyShown[k], by)].clusters
    /\ pc[r] = "idle" /\ pc' = [pc EXCEPT ![r] = "answered"]
    /\ assigned' = [assigned EXCEPT ![k] = @ \cup {c}]
    /\ misread' = IF c \in Latest(sshKeys[k]).clusters THEN misread
                  ELSE [misread EXCEPT ![k] = @ \cup {c}]
    /\ UNCHANGED <<objects, req, ghosts, keyObjects, key, keyOrigin>>
StartAssign(r, by, c, k) ==
    /\ Usable(by, c, k) /\ c \notin sshKeys[k][Found(sshKeys[k], keyShown[k], by)].clusters
    /\ Read(by, c, k, "assign", r)

\* DetachSSHKeyEndpoint
StartDetach(r, by, c, k) == Usable(by, c, k) /\ Read(by, c, k, "detach", r)

Unchanged(k) == key[k].position = Len(sshKeys[key[k].id]) /\ Stored(sshKeys[key[k].id])
WithCluster(step, c, cs) == IF step = "assign" THEN cs \cup {c} ELSE cs \ {c}

\* The list that was read is written, whatever is stored.
UpdateClusterSSHKeyBlindly(r) ==
    \E step \in {"assign", "detach"}, k \in KnownKeys, c \in Known :
        LET old == sshKeys[k][key[r].position]
            new == [old EXCEPT !.clusters = WithCluster(step, c, @)]
        IN  /\ key[r].id = k /\ req[r].object = c
            /\ AnswerKey(r, step) /\ Stored(sshKeys[k])
            /\ sshKeys' = IF new = Latest(sshKeys[k]) THEN sshKeys
                          ELSE [sshKeys EXCEPT ![k] = Append(@, new)]
            /\ assigned' = [assigned EXCEPT ![k] = WithCluster(step, c, @)]
            /\ misread' = [misread EXCEPT ![k] = @ \ {c}]
            /\ UNCHANGED <<keyShown, keyOrigin>>

\* UpdateClusterSSHKey
UpdateClusterSSHKey(r) ==
    \E step \in {"assign", "detach"}, k \in KnownKeys, c \in Known :
        LET old == sshKeys[k][key[r].position]
            new == [old EXCEPT !.clusters = WithCluster(step, c, @)]
        IN  /\ key[r].id = k /\ req[r].object = c
            /\ AnswerKey(r, step) /\ Unchanged(r)
            /\ sshKeys' = IF new = old THEN sshKeys
                          ELSE [sshKeys EXCEPT ![k] = Append(@, new)]
            /\ assigned' = [assigned EXCEPT ![k] = WithCluster(step, c, @)]
            /\ misread' = [misread EXCEPT ![k] = @ \ {c}]
            /\ UNCHANGED <<keyShown, keyOrigin>>

\* A conflict, a missing key or a failed call.
FailKey(r) ==
    /\ \E step \in {"createKey", "assign", "detach"} : AnswerKey(r, step)
    /\ UNCHANGED <<keyObjects, keyGhosts>>

SyncKey(k) ==
    /\ keyShown[k] < Len(sshKeys[k])
    /\ keyShown' = [keyShown EXCEPT ![k] = @ + 1]
    /\ UNCHANGED <<vars, sshKeys, key, keyGhosts>>

KeyStep(r) ==
    \/ \E by \in Callers :
         \/ \E n \in KeyNames : StartKey(r, by, n)
         \/ \E c \in Known, k \in KnownKeys :
              StartAssign(r, by, c, k) \/ AssignNothing(r, by, c, k) \/ StartDetach(r, by, c, k)
    \/ \E k \in KnownKeys : DeleteUserSSHKey(r, k)
    \/ CreateUserSSHKey(r) \/ UpdateClusterSSHKey(r) \/ FailKey(r)

KeysNext ==
    \/ Next /\ UNCHANGED keyVars
    \/ \E r \in Requests : KeyStep(r)
    \/ \E k \in KnownKeys : SyncKey(k)

KeysSpec == KeysInit /\ [][KeysNext]_allVars
-----------------------------------------------------------------------------
KeyVersions == [name : KeyNames, clusters : SUBSET Nat, state : {"live", "gone"}]
KeyData == [id : Nat, position : Nat, name : KeyNames \cup {"none"}, seen : SUBSET Nat]
PerKey(s, S) == s \in Seq(S) /\ Len(s) = Len(sshKeys)

KeysTypeOK ==
    /\ TypeOK
    /\ sshKeys \in Seq(Seq(KeyVersions)) /\ PerKey(keyShown, Nat)
    /\ key \in [Requests -> KeyData] /\ PerKey(keyOrigin, SUBSET Nat)
    /\ PerKey(assigned, SUBSET Nat) /\ PerKey(misread, SUBSET Nat)
    /\ \A k \in KnownKeys :
         /\ Len(sshKeys[k]) > 0 /\ keyShown[k] <= Len(sshKeys[k])
         /\ \A i \in 1 .. Len(sshKeys[k]) : sshKeys[k][i].clusters \subseteq Known

\* A key keeps the name it was created with, which no key had that the
\* creation looked at.
KeysCreatedApart ==
    /\ \A k \in KnownKeys :
         /\ \A i \in 1 .. Len(sshKeys[k]) : sshKeys[k][i].name = sshKeys[k][1].name
         /\ \A x \in keyOrigin[k] : x \in KnownKeys /\ sshKeys[x][1].name # sshKeys[k][1].name
    /\ \A r \in Requests : pc[r] = "createKey" =>
         /\ key[r].name \in KeyNames
         /\ \A x \in key[r].seen : x \in KnownKeys /\ sshKeys[x][1].name # key[r].name

\* Two keys of a project have one name only if the younger was created
\* before the cache had the older.
KeyNamesClashUnseen ==
    \A x, y \in KnownKeys :
        /\ x < y /\ Stored(sshKeys[x]) /\ Stored(sshKeys[y])
        /\ Latest(sshKeys[x]).name = Latest(sshKeys[y]).name
        => x \notin keyOrigin[y]

\* A key is for the clusters that the answers have said: neither another
\* assignment nor a detachment at the same time undoes one.  The exception
\* is an assignment that an administrator is told has been there already,
\* from a cache that has missed the detachment.
AnswersHold ==
    \A k \in KnownKeys :
        Stored(sshKeys[k]) => Latest(sshKeys[k]).clusters = assigned[k] \ misread[k]

\* What requests about keys keep to, beside requests about clusters, with
\* what every request knows.
KeysInv ==
    /\ KeysTypeOK /\ RequestsInformed /\ CreatedApart /\ KeysCreatedApart
    /\ KeyNamesClashUnseen /\ AnswersHold
=============================================================================
