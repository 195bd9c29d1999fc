------------------------- MODULE ClusterKeysProofs -------------------------
(***************************************************************************)
(* Clusters and their SSH keys, for any number of requests, clusters, keys *)
(* and names.  Versions are only ever appended; what a request has read    *)
(* therefore stays where it was, and an Update that is accepted follows    *)
(* the version it was made from.                                           *)
(***************************************************************************)
EXTENDS ClusterKeys, TLAPS

\* What Append returns.
LEMMA AppendFacts ==
    ASSUME NEW S, NEW s \in Seq(S), NEW e \in S
    PROVE  /\ Append(s, e) \in Seq(S) /\ Len(Append(s, e)) = Len(s) + 1
           /\ \A i \in 1 .. Len(s) : Append(s, e)[i] = s[i]
           /\ Append(s, e)[Len(s) + 1] = e
  OBVIOUS

\* What replacing an element of a sequence returns.
LEMMA ExceptFacts ==
    ASSUME NEW S, NEW s \in Seq(S), NEW j \in 1 .. Len(s), NEW e \in S
    PROVE  /\ [s EXCEPT ![j] = e] \in Seq(S) /\ Len([s EXCEPT ![j] = e]) = Len(s)
           /\ [s EXCEPT ![j] = e][j] = e
           /\ \A i \in 1 .. Len(s) : i # j => [s EXCEPT ![j] = e][i] = s[i]
  OBVIOUS

\* An element of a sequence.
LEMMA ElementFacts ==
    ASSUME NEW S, NEW s \in Seq(S), NEW i \in 1 .. Len(s)
    PROVE  s[i] \in S /\ Len(s) \in Nat
  OBVIOUS
\* A sequence of one element.
LEMMA SingletonFacts ==
    ASSUME NEW S, NEW e \in S
    PROVE  <<e>> \in Seq(S) /\ Len(<<e>>) = 1 /\ <<e>>[1] = e
  OBVIOUS

-----------------------------------------------------------------------------
(* How sequences of versions grow.  The lemmas are about any sequence of   *)
(* them, those of the clusters and those of the keys.                      *)

\* Every sequence of versions goes on where it was.
Extends(old, new) ==
    /\ Len(old) <= Len(new)
    /\ \A c \in 1 .. Len(old) :
         /\ Len(old[c]) <= Len(new[c])
         /\ \A i \in 1 .. Len(old[c]) : new[c][i] = old[c][i]

Grow(s, c, e) == [s EXCEPT ![c] = Append(s[c], e)]

\* One sequence of versions gets another version.
LEMMA GrowFacts ==
    ASSUME NEW S, NEW s \in Seq(Seq(S)), NEW c \in 1 .. Len(s), NEW e \in S
    PROVE  /\ Grow(s, c, e) \in Seq(Seq(S)) /\ Len(Grow(s, c, e)) = Len(s)
           /\ Len(Grow(s, c, e)[c]) = Len(s[c]) + 1 /\ Grow(s, c, e)[c][Len(s[c]) + 1] = e
           /\ \A i \in 1 .. Len(s[c]) : Grow(s, c, e)[c][i] = s[c][i]
           /\ \A d \in 1 .. Len(s) : d # c => Grow(s, c, e)[d] = s[d]
           /\ Extends(s, Grow(s, c, e))
  <1>1. s[c] \in Seq(S) /\ Len(s[c]) \in Nat BY ElementFacts
  <1> DEFINE t == Append(s[c], e)
  <1>2. /\ t \in Seq(S) /\ Len(t) = Len(s[c]) + 1 /\ t[Len(s[c]) + 1] = e
        /\ \A i \in 1 .. Len(s[c]) : t[i] = s[c][i]
    BY <1>1, AppendFacts
  <1> HIDE DEF t
  <1>3. /\ [s EXCEPT ![c] = t] \in Seq(Seq(S)) /\ Len([s EXCEPT ![c] = t]) = Len(s)
        /\ [s EXCEPT ![c] = t][c] = t
        /\ \A i \in 1 .. Len(s) : i # c => [s EXCEPT ![c] = t][i] = s[i]
    BY <1>2, ExceptFacts
  <1>4. Grow(s, c, e) = [s EXCEPT ![c] = t] BY DEF Grow, t
  <1>5. \A d \in 1 .. Len(s) : Len(s[d]) \in Nat BY ElementFacts
  <1>6. Len(s) \in Nat OBVIOUS
  <1>7. Extends(s, [s EXCEPT ![c] = t])
    <2>1. ASSUME NEW d \in 1 .. Len(s)
          PROVE  /\ Len(s[d]) <= Len([s EXCEPT ![c] = t][d])
                 /\ \A i \in 1 .. Len(s[d]) : [s EXCEPT ![c] = t][d][i] = s[d][i]
      <3>1. CASE d = c BY <3>1, <1>1, <1>2, <1>3
      <3>2. CASE d # c BY <3>2, <1>3, <1>5
      <3> QED BY <3>1, <3>2
    <2> QED BY <2>1, <1>3, <1>6 DEF Extends
  <1> QED BY <1>2, <1>3, <1>4, <1>7

\* There is one sequence of versions more.
LEMMA AppendExtends ==
    ASSUME NEW S, NEW s \in Seq(Seq(S)), NEW t \in Seq(S)
    PROVE  Extends(s, Append(s, t))
  <1>1. /\ Len(Append(s, t)) = Len(s) + 1 /\ Len(s) \in Nat
        /\ \A i \in 1 .. Len(s) : Append(s, t)[i] = s[i]
    BY AppendFacts
  <1>2. \A d \in 1 .. Len(s) : Len(s[d]) \in Nat BY ElementFacts
  <1> QED BY <1>1, <1>2 DEF Extends

\* Nothing changes.
LEMMA ExtendsItself ==
    ASSUME NEW S, NEW s \in Seq(Seq(S))
    PROVE  Extends(s, s)
  <1>1. \A d \in 1 .. Len(s) : Len(s[d]) \in Nat BY ElementFacts
  <1> QED BY <1>1 DEF Extends

-----------------------------------------------------------------------------
(* What a step does to the clusters and to what belongs to them.           *)

\* The next version of a cluster keeps the external CCM and the finalizers,
\* does not restore the link to the preset, and is encrypted only if there
\* is a key.
Follows(c, new) ==
    LET old == Latest(clusters[c])
    IN  /\ old.state # "gone"
        /\ old.ccm = "yes" => new.ccm = "yes"
        /\ old.finalizer = "yes" => new.finalizer = "yes"
        /\ new.preset = "yes" => old.preset = "yes"
        /\ new.encryption = "on" => encKey[c] # "none"

ClustersStep ==
    \/ clusters' = clusters
    \/ \E c \in Known, new \in Versions : Follows(c, new) /\ clusters' = Grow(clusters, c, new)

\* The other objects change at one cluster at a time.
Put(s, S) == \E c \in Known, v \in S : s' = [s EXCEPT ![c] = v]
ObjectsStep ==
    /\ ClustersStep
    /\ \/ UNCHANGED shown
       \/ \E c \in Known : shown[c] < Len(clusters[c]) /\ shown' = [shown EXCEPT ![c] = shown[c] + 1]
    /\ UNCHANGED credential \/ Put(credential, Credentials)
    /\ \/ UNCHANGED encKey
       \/ \E c \in Known, k \in Keys : encKey[c] = "none" /\ encKey' = [encKey EXCEPT ![c] = k]
    /\ UNCHANGED agreed \/ Put(agreed, Keys \cup {"none"})
    /\ UNCHANGED origin
    /\ \/ UNCHANGED writer \/ Put(writer, Requests \cup {"none"})
       \/ \E r \in Requests : writer' = [c \in Known |-> IF writer[c] = r THEN "failed" ELSE writer[c]]
    /\ UNCHANGED cleanup \/ Put(cleanup, {"yes"})

\* What the steps of a request rely on.
StepInv == TypeOK /\ RequestsInformed /\ EncryptedHasKey

\* A cluster has a latest version.
LEMMA LatestFacts ==
    ASSUME TypeOK, NEW c \in Known
    PROVE  /\ Len(clusters[c]) \in Nat \ {0} /\ Latest(clusters[c]) \in Versions
           /\ clusters[c] \in Seq(Versions)
           /\ \A i \in 1 .. Len(clusters[c]) : clusters[c][i] \in Versions
  <1>1. clusters[c] \in Seq(Versions) /\ Len(clusters[c]) > 0 BY DEF TypeOK, Known
  <1> QED BY <1>1 DEF Latest

\* A version that was changed in one field is a version.
LEMMA VersionChanges ==
    ASSUME NEW v \in Versions
    PROVE  /\ [v EXCEPT !.owner = "yes"] \in Versions /\ [v EXCEPT !.ccm = "yes"] \in Versions
           /\ [v EXCEPT !.finalizer = "yes"] \in Versions /\ [v EXCEPT !.up = "yes"] \in Versions
           /\ [v EXCEPT !.state = "deleting"] \in Versions
           /\ [v EXCEPT !.state = "gone"] \in Versions
  BY DEF Versions, YesNo

\* Storing a version that follows the latest one.
LEMMA StoreFollows ==
    ASSUME NEW c \in Known, NEW new \in Versions, Follows(c, new), Store(c, new)
    PROVE  ClustersStep
  BY DEF Store, ClustersStep, Grow

\* A change of the latest version that keeps the four fields follows it.
LEMMA SameFollows ==
    ASSUME TypeOK, EncryptedHasKey, NEW c \in Known, NEW new,
           Latest(clusters[c]).state # "gone",
           new.ccm = Latest(clusters[c]).ccm \/ new.ccm = "yes",
           new.finalizer = Latest(clusters[c]).finalizer \/ new.finalizer = "yes",
           new.preset = Latest(clusters[c]).preset,
           new.encryption = Latest(clusters[c]).encryption
    PROVE  Follows(c, new)
  BY DEF Follows, EncryptedHasKey

\* The changes that controllers and patches without a version make.
LEMMA LatestChanges ==
    ASSUME TypeOK, EncryptedHasKey, NEW c \in Known, Latest(clusters[c]).state # "gone",
           LET old == Latest(clusters[c])
           IN  \/ Store(c, [old EXCEPT !.owner = "yes"]) \/ Store(c, [old EXCEPT !.ccm = "yes"])
               \/ Store(c, [old EXCEPT !.up = "yes"]) \/ Store(c, [old EXCEPT !.finalizer = "yes"])
               \/ Store(c, [old EXCEPT !.state = "deleting"]) \/ Store(c, [old EXCEPT !.state = "gone"])
    PROVE  ClustersStep
  <1> DEFINE old == Latest(clusters[c])
  <1>1. old \in Versions BY LatestFacts
  <1> HIDE DEF old
  <1>2. PICK new \in Versions :
          /\ Store(c, new)
          /\ new.ccm = old.ccm \/ new.ccm = "yes"
          /\ new.finalizer = old.finalizer \/ new.finalizer = "yes"
          /\ new.preset = old.preset /\ new.encryption = old.encryption
    <2>1. CASE Store(c, [old EXCEPT !.owner = "yes"]) BY <2>1, <1>1, VersionChanges DEF Versions
    <2>2. CASE Store(c, [old EXCEPT !.ccm = "yes"]) BY <2>2, <1>1, VersionChanges DEF Versions
    <2>3. CASE Store(c, [old EXCEPT !.up = "yes"]) BY <2>3, <1>1, VersionChanges DEF Versions
    <2>4. CASE Store(c, [old EXCEPT !.finalizer = "yes"]) BY <2>4, <1>1, VersionChanges DEF Versions
    <2>5. CASE Store(c, [old EXCEPT !.state = "deleting"]) BY <2>5, <1>1, VersionChanges DEF Versions
    <2>6. CASE Store(c, [old EXCEPT !.state = "gone"]) BY <2>6, <1>1, VersionChanges DEF Versions
    <2> QED BY <2>1, <2>2, <2>3, <2>4, <2>5, <2>6 DEF old
  <1>3. Follows(c, new) BY <1>2, SameFollows DEF old
  <1> QED BY <1>2, <1>3, StoreFollows

\* An Update that is accepted was made from the latest version.
LEMMA AcceptedIsLatest ==
    ASSUME TypeOK, NEW q, q.object \in Known, NEW new, Accepted(q, new)
    PROVE  /\ Old(q) = Latest(clusters[q.object]) /\ Old(q) \in Versions
           /\ Latest(clusters[q.object]).state # "gone"
  BY LatestFacts DEF Accepted, Old, Latest, Stored, Present

\* A patch that is accepted.
LEMMA UpdateFollows ==
    ASSUME StepInv, ClustersAssumption, NEW r \in Requests, UpdateCluster(r)
    PROVE  ClustersStep
  <1> DEFINE q == req[r]
             new == PatchedCluster(q)
             old == Latest(clusters[q.object])
  <1>1. q \in RequestData /\ pc[r] = "update" BY DEF StepInv, TypeOK, UpdateCluster, Answer
  <1>2. q.object \in Known /\ (Enables(q) => encKey[q.object] # "none")
    BY <1>1 DEF StepInv, RequestsInformed, Informed
  <1>3. Accepted(q, new) /\ Store(q.object, new) BY DEF UpdateCluster
  <1>4. Old(q) = old /\ old \in Versions /\ old.state # "gone"
    BY <1>2, <1>3, AcceptedIsLatest DEF StepInv
  <1>5. q.patch \in PatchRecords BY <1>1 DEF RequestData
  <1>6. /\ new \in Versions /\ new.ccm = old.ccm /\ new.finalizer = old.finalizer
        /\ new.preset = "yes" => old.preset = "yes"
        /\ new.encryption = Patched(old.encryption, q.patch.encryption)
    <2> HIDE DEF q, old
    <2>1. Patched(old.name, q.patch.name) \in Names
      BY <1>4, <1>5 DEF Patched, PatchRecords, Versions
    <2>2. Patched(old.encryption, q.patch.encryption) \in {"on", "off"}
      BY <1>4, <1>5 DEF Patched, PatchRecords, Versions
    <2>6. Link(old.preset, q.patch) \in {"no", "claimed", old.preset}
      BY DEF Link
    <2>7. old.preset \in Links BY <1>4 DEF Versions
    <2>3. PICK n \in Names, p \in Links, e \in {"on", "off"} :
            /\ n = Patched(old.name, q.patch.name)
            /\ p = Link(old.preset, q.patch)
            /\ e = Patched(old.encryption, q.patch.encryption)
      BY <2>1, <2>2, <2>6, <2>7 DEF Links
    <2>4. new = [old EXCEPT !.name = n, !.preset = p, !.encryption = e]
      BY <1>4, <2>3 DEF PatchedCluster, Versions
    <2>5. p = "yes" => old.preset = "yes" BY <2>3, <2>6
    <2> HIDE DEF new
    <2> QED BY <1>4, <2>3, <2>4, <2>5, ZenonT(60) DEF Versions, YesNo
  <1>7. new.encryption = "on" => encKey[q.object] # "none"
    <2>1. CASE old.encryption = "on" BY <2>1, <1>2 DEF StepInv, EncryptedHasKey
    <2>2. CASE old.encryption = "off"
      <3>1. new.encryption = "on" => q.patch.encryption = "on"
        BY <2>2, <1>6 DEF Patched
      <3>2. new.encryption = "on" => Enables(q) BY <2>2, <3>1, <1>4 DEF Enables
      <3> QED BY <3>2, <1>2
    <2> QED BY <2>1, <2>2, <1>4 DEF Versions
  <1>8. Follows(q.object, new)
    <2> HIDE DEF q, new
    <2> QED BY <1>4, <1>6, <1>7 DEF Follows
  <1> HIDE DEF q, new, old
  <1> QED BY <1>2, <1>3, <1>6, <1>8, StoreFollows

\* The first write of a deletion.
LEMMA FinalizeFollows ==
    ASSUME StepInv, NEW r \in Requests, AddFinalizers(r)
    PROVE  ClustersStep
  <1> DEFINE q == req[r]
             asked == q.volumes = "yes" /\ Old(q).up = "yes"
             new == [Old(q) EXCEPT !.finalizer = IF asked THEN "yes" ELSE @]
  <1>1. q.object \in Known
    BY DEF StepInv, RequestsInformed, Informed, AddFinalizers, Go
  <1>2. Accepted(q, new) /\ Store(q.object, new) BY DEF AddFinalizers
  <1>3. /\ Old(q) = Latest(clusters[q.object]) /\ Old(q) \in Versions
        /\ Latest(clusters[q.object]).state # "gone"
    BY <1>1, <1>2, AcceptedIsLatest DEF StepInv
  <1>4. CASE asked
    <2>1. new = [Old(q) EXCEPT !.finalizer = "yes"] BY <1>4, <1>3 DEF Versions
    <2> HIDE DEF q, new
    <2> QED BY <1>1, <1>2, <1>3, <2>1, LatestChanges DEF StepInv
  <1>5. CASE ~ asked
    <2>1. new = Old(q) BY <1>5, <1>3 DEF Versions
    <2> HIDE DEF q, new
    <2> QED BY <1>2, <1>3, <2>1 DEF Store, ClustersStep
  <1> QED BY <1>4, <1>5

\* Requests that change the latest version, whatever it is.
LEMMA OtherFollows ==
    ASSUME StepInv, NEW r \in Requests,
           SetUserEmail(r) \/ Migrate(r) \/ Delete(r)
    PROVE  ClustersStep
  <1> DEFINE c == req[r].object
  <1>1. c \in Known
    BY DEF StepInv, RequestsInformed, Informed, SetUserEmail, Migrate, Delete, Go, Answer
  <1>2. Stored(clusters[c]) BY DEF SetUserEmail, Migrate, Delete
  <1>3. Latest(clusters[c]).state # "gone" BY <1>2 DEF Stored, Present, Latest
  <1>4. LET old == Latest(clusters[c])
        IN  \/ Store(c, [old EXCEPT !.owner = "yes"]) \/ Store(c, [old EXCEPT !.ccm = "yes"])
            \/ Store(c, [old EXCEPT !.state = "deleting"])
    BY DEF SetUserEmail, Migrate, Delete
  <1> HIDE DEF c
  <1> QED BY <1>1, <1>3, <1>4, LatestChanges DEF StepInv

\* The controllers change the latest version too.
LEMMA ControllerFollows ==
    ASSUME StepInv, NEW c \in Known, ComeUp(c) \/ Vanish(c)
    PROVE  ClustersStep
  <1>1. Latest(clusters[c]).state # "gone" BY DEF ComeUp, Vanish
  <1> QED BY <1>1, LatestChanges DEF StepInv, ComeUp, Vanish

\* Requests about keys leave the clusters alone.
LEMMA KeyStepsLeave ==
    ASSUME NEW r \in Requests, KeyStep(r)
    PROVE  UNCHANGED <<objects, ghosts>>
  BY ZenonT(60) DEF KeyStep, StartKey, StartAssign, StartDetach, AssignNothing, Read, BeginKey,
         DeleteUserSSHKey, CreateUserSSHKey, UpdateClusterSSHKey, FailKey, AnswerKey

\* A step either creates a cluster or changes the objects one at a time.
LEMMA ObjectsStepThm ==
    ASSUME StepInv, ClustersAssumption, KeysNext
    PROVE  (\E r \in Requests : CreateCluster(r)) \/ ObjectsStep
  <1>1. SUFFICES ASSUME ~ \E r \in Requests : CreateCluster(r) PROVE ObjectsStep
    OBVIOUS
  <1>2. ASSUME NEW r \in Requests, Start(r) PROVE ObjectsStep
    BY <1>2 DEF Start, StartCreate, StartPatch, StartMigrate, StartDelete, objects, ghosts,
                ObjectsStep, ClustersStep
  <1>3. ASSUME UNCHANGED <<objects, ghosts>> PROVE ObjectsStep
    BY <1>3 DEF objects, ghosts, ObjectsStep, ClustersStep
  <1>4. ASSUME NEW r \in Requests, Continue(r) PROVE ObjectsStep
    <2>1. CASE SetUserEmail(r) BY <2>1, OtherFollows DEF SetUserEmail, ghosts, ObjectsStep
    <2>2. CASE WaitForCluster(r) BY <2>2, <1>3 DEF WaitForCluster
    <2>3. CASE PutCredentials(r)
      <3>1. req[r].object \in Known /\ req[r].patch.credentials \in Credentials
        <4>1. req[r].patch \in PatchRecords BY DEF StepInv, TypeOK, RequestData
        <4>2. req[r].object \in Known /\ req[r].patch.credentials # "keep"
          BY <2>3 DEF StepInv, RequestsInformed, Informed, PutCredentials, Go
        <4> QED BY <4>1, <4>2 DEF PatchRecords
      <3>2. Put(credential, Credentials) BY <2>3, <3>1 DEF PutCredentials, Put
      <3>3. Put(writer, Requests \cup {"none"}) BY <2>3, <3>1 DEF PutCredentials, Put
      <3>4. UNCHANGED <<clusters, shown, encKey, origin, agreed, cleanup>>
        BY <2>3 DEF PutCredentials
      <3> QED BY <3>2, <3>3, <3>4 DEF ObjectsStep, ClustersStep
    <2>4. CASE HandleEncryption(r)
      <3>1. req[r].object \in Known /\ req[r].patch \in PatchRecords
        BY <2>4 DEF StepInv, RequestsInformed, Informed, HandleEncryption, Go, TypeOK, RequestData
      <3>2. \/ UNCHANGED encKey
            \/ \E c \in Known, k \in Keys : encKey[c] = "none" /\ encKey' = [encKey EXCEPT ![c] = k]
        BY <2>4, <3>1 DEF HandleEncryption, PatchRecords
      <3> QED BY <2>4, <3>2 DEF HandleEncryption, ObjectsStep, ClustersStep, ghosts
    <2>5. CASE UpdateCluster(r)
      <3>1. req[r].object \in Known /\ req[r].patch \in PatchRecords
        BY <2>5 DEF StepInv, RequestsInformed, Informed, UpdateCluster, Answer, TypeOK, RequestData
      <3>2. ClustersStep BY <2>5, UpdateFollows
      <3>3. UNCHANGED agreed \/ Put(agreed, Keys \cup {"none"})
        BY <2>5, <3>1 DEF UpdateCluster, Put, PatchRecords
      <3>4. UNCHANGED writer \/ Put(writer, Requests \cup {"none"})
        BY <2>5, <3>1 DEF UpdateCluster, Settle, Put
      <3>5. UNCHANGED <<shown, credential, encKey, origin, cleanup>> BY <2>5 DEF UpdateCluster
      <3> QED BY <3>2, <3>3, <3>4, <3>5 DEF ObjectsStep
    <2>6. CASE Migrate(r) BY <2>6, OtherFollows DEF Migrate, ghosts, ObjectsStep
    <2>7. CASE AddFinalizers(r)
      <3>1. req[r].object \in Known
        BY <2>7 DEF StepInv, RequestsInformed, Informed, AddFinalizers, Go
      <3>2. ClustersStep BY <2>7, FinalizeFollows
      <3>3. UNCHANGED cleanup \/ Put(cleanup, {"yes"}) BY <2>7, <3>1 DEF AddFinalizers, Put
      <3>4. UNCHANGED <<shown, credential, encKey, origin, writer, agreed>> BY <2>7 DEF AddFinalizers
      <3> QED BY <3>2, <3>3, <3>4 DEF ObjectsStep
    <2>8. CASE Delete(r) BY <2>8, OtherFollows DEF Delete, ghosts, ObjectsStep
    <2>9. CASE Fail(r) BY <2>9 DEF Fail, objects, ObjectsStep, ClustersStep
    <2> QED BY <1>1, <1>4, <2>1, <2>2, <2>3, <2>4, <2>5, <2>6, <2>7, <2>8, <2>9 DEF Continue
  <1>5. ASSUME NEW c \in Known, ComeUp(c) \/ Vanish(c) PROVE ObjectsStep
    BY <1>5, ControllerFollows DEF ComeUp, Vanish, ghosts, ObjectsStep
  <1>6. ASSUME NEW c \in Known, Sync(c) PROVE ObjectsStep
    BY <1>6 DEF Sync, ghosts, ObjectsStep, ClustersStep
  <1>7. ASSUME NEW r \in Requests, KeyStep(r) PROVE UNCHANGED <<objects, ghosts>>
    BY <1>7, KeyStepsLeave
  <1>8. ASSUME NEW k \in KnownKeys, SyncKey(k) PROVE UNCHANGED <<objects, ghosts>>
    BY <1>8 DEF SyncKey, vars
  <1> QED BY <1>2, <1>3, <1>4, <1>5, <1>6, <1>7, <1>8 DEF KeysNext, Next

-----------------------------------------------------------------------------
(* Types.                                                                  *)

\* What a creation writes.
LEMMA CreateFacts ==
    ASSUME StepInv, NEW r \in Requests, CreateCluster(r)
    PROVE  LET q == req[r]
               v == NewCluster(q.patch.name, IF q.patch.key = "none" THEN "off" ELSE "on")
           IN  /\ v \in Versions /\ q.patch.key \in Keys \cup {"none"} /\ q.patch.name \in Names
               /\ v.name = q.patch.name /\ v.state = "live"
               /\ clusters' = Append(clusters, <<v>>)
  <1> DEFINE q == req[r]
  <1>1. q.patch \in PatchRecords BY DEF StepInv, TypeOK, RequestData
  <1>2. q.patch.name \in Names
    BY DEF StepInv, RequestsInformed, Informed, CreateCluster
  <1>3. q.patch.key \in Keys \cup {"none"} BY <1>1 DEF PatchRecords
  <1>4. PICK e \in {"on", "off"} : e = IF q.patch.key = "none" THEN "off" ELSE "on" OBVIOUS
  <1>5. NewCluster(q.patch.name, e) \in Versions BY <1>2 DEF NewCluster, Versions, YesNo, Links
  <1>6. NewCluster(q.patch.name, e).name = q.patch.name /\ NewCluster(q.patch.name, e).state = "live"
    BY DEF NewCluster
  <1>7. clusters' = Append(clusters, <<NewCluster(q.patch.name, e)>>) BY <1>4 DEF CreateCluster
  <1> HIDE DEF q
  <1> QED BY <1>2, <1>3, <1>4, <1>5, <1>6, <1>7 DEF q

\* The versions there are stay, and further ones come after them.
LEMMA ClustersExtended ==
    ASSUME StepInv, ClustersAssumption, KeysNext
    PROVE  Extends(clusters, clusters') /\ clusters' \in Seq(Seq(Versions))
  <1>1. clusters \in Seq(Seq(Versions)) BY DEF StepInv, TypeOK
  <1>2. ASSUME NEW r \in Requests, CreateCluster(r)
        PROVE  Extends(clusters, clusters') /\ clusters' \in Seq(Seq(Versions))
    <2>1. PICK v \in Versions : clusters' = Append(clusters, <<v>>) BY <1>2, CreateFacts
    <2>2. <<v>> \in Seq(Versions) BY SingletonFacts
    <2> QED BY <1>1, <2>1, <2>2, AppendFacts, AppendExtends
  <1>3. CASE ObjectsStep
    <2>1. CASE clusters' = clusters BY <1>1, <2>1, ExtendsItself
    <2>2. CASE \E c \in Known, new \in Versions : Follows(c, new) /\ clusters' = Grow(clusters, c, new)
      <3>1. PICK c \in Known, new \in Versions : clusters' = Grow(clusters, c, new) BY <2>2
      <3> QED BY <1>1, <3>1, GrowFacts DEF Known
    <2> QED BY <1>3, <2>1, <2>2 DEF ObjectsStep, ClustersStep
  <1> QED BY <1>2, <1>3, ObjectsStepThm

\* A request that holds nothing yet.
LEMMA NoRequestFacts == NoRequest \in RequestData /\ Silent \in PatchRecords
  BY DEF NoRequest, RequestData, Silent, PatchRecords, Callers, YesNo

\* One request moves at a time.
RequestStep(r) ==
    \E to \in Steps, held \in RequestData :
        pc' = [pc EXCEPT ![r] = to] /\ req' = [req EXCEPT ![r] = held]

\* A new request moves.
LEMMA StartsMove ==
    ASSUME StepInv, ClustersAssumption, NEW r \in Requests, Start(r)
    PROVE  RequestStep(r)
  <1>1. Len(clusters) \in Nat /\ Known \subseteq Nat BY DEF StepInv, TypeOK, Known
  <1>2. ASSUME NEW c \in Known, NEW by \in Callers PROVE Found(clusters[c], shown[c], by) \in Nat
    <2>1. shown[c] \in Nat BY DEF StepInv, TypeOK, PerCluster, Known
    <2> QED BY <2>1, LatestFacts DEF Found, StepInv
  <1>3. ASSUME NEW by \in Callers, NEW n \in Names, NEW padded \in {"yes", "no"},
               NEW k \in Keys \cup {"none"}, StartCreate(r, by, n, padded, k)
        PROVE  RequestStep(r)
    <2>1. [Silent EXCEPT !.name = n, !.key = k] \in PatchRecords BY DEF Silent, PatchRecords
    <2>2. \A seen \in Answers : seen \in SUBSET Nat BY <1>1 DEF Answers, Listed
    <2>3. PICK p \in PatchRecords : p = [Silent EXCEPT !.name = n, !.key = k] BY <2>1
    <2>4. PICK seen \in Answers :
            Begin(r, "create", [NoRequest EXCEPT !.by = by, !.padded = padded, !.seen = seen,
                                  !.patch = p])
      BY <1>3, <2>3 DEF StartCreate
    <2>5. [NoRequest EXCEPT !.by = by, !.padded = padded, !.seen = seen, !.patch = p] \in RequestData
      BY <2>2, NoRequestFacts DEF RequestData, YesNo
    <2> QED BY <2>4, <2>5 DEF Begin, RequestStep, Steps
  <1>4. ASSUME NEW by \in Callers, NEW c \in Known, NEW p \in Patches, StartPatch(r, by, c, p)
        PROVE  RequestStep(r)
    <2>1. PICK n \in Nat : n = Found(clusters[c], shown[c], by) BY <1>2
    <2>2. p \in PatchRecords /\ c \in Nat BY <1>1 DEF ClustersAssumption
    <2>3. [NoRequest EXCEPT !.by = by, !.object = c, !.position = n, !.patch = p] \in RequestData
      BY <2>2, NoRequestFacts DEF RequestData
    <2>4. PICK to \in {"validate", "credentials"} :
            to = IF p.credentials = "keep" THEN "validate" ELSE "credentials"
      OBVIOUS
    <2>5. pc' = [pc EXCEPT ![r] = to] BY <1>4, <2>4 DEF StartPatch, Begin
    <2> QED BY <1>4, <2>1, <2>3, <2>5 DEF StartPatch, Begin, RequestStep, Steps
  <1>5. ASSUME NEW by \in Callers, NEW c \in Known, StartMigrate(r, by, c)
        PROVE  RequestStep(r)
    <2>1. PICK n \in Nat : n = Found(clusters[c], shown[c], by) BY <1>2
    <2>2. [NoRequest EXCEPT !.by = by, !.object = c, !.position = n] \in RequestData
      BY <1>1, NoRequestFacts DEF RequestData
    <2> QED BY <1>5, <2>1, <2>2 DEF StartMigrate, Begin, RequestStep, Steps
  <1>6. ASSUME NEW by \in Callers, NEW c \in Known, NEW volumes \in {"yes", "no"},
               StartDelete(r, by, c, volumes)
        PROVE  RequestStep(r)
    <2>1. PICK n \in Nat : n = Found(clusters[c], shown[c], by) BY <1>2
    <2>2. [NoRequest EXCEPT !.by = by, !.object = c, !.position = n, !.volumes = volumes] \in RequestData
      BY <1>1, NoRequestFacts DEF RequestData, YesNo
    <2> QED BY <1>6, <2>1, <2>2 DEF StartDelete, Begin, RequestStep, Steps
  <1> QED BY <1>3, <1>4, <1>5, <1>6 DEF Start

\* So does one that goes on or is answered.
LEMMA GoMoves ==
    ASSUME TypeOK, NEW r \in Requests, NEW from, NEW to \in Steps, Go(r, from, to)
    PROVE  RequestStep(r)
  <1>1. req[r] \in RequestData /\ req' = [req EXCEPT ![r] = req[r]] BY DEF TypeOK, Go
  <1> QED BY <1>1 DEF Go, RequestStep
\* An answer ends a request.
LEMMA AnswerMoves ==
    ASSUME NEW r, NEW from, Answer(r, from)
    PROVE  RequestStep(r)
  BY NoRequestFacts DEF Answer, RequestStep, Steps

\* A request about a cluster that goes on moves.
LEMMA ContinuationsMove ==
    ASSUME StepInv, NEW r \in Requests, Continue(r)
    PROVE  RequestStep(r)
  <1> USE DEF StepInv
  <1>1. CASE CreateCluster(r)
    <2>1. Len(clusters) + 1 \in Nat BY DEF TypeOK
    <2>2. req[r] \in RequestData BY DEF TypeOK
    <2>3. PICK o \in Nat : o = Len(clusters) + 1 BY <2>1
    <2>4. [req[r] EXCEPT !.object = o] \in RequestData BY <2>2 DEF RequestData
    <2>5. req' = [req EXCEPT ![r] = [req[r] EXCEPT !.object = o]]
      BY <1>1, <2>3 DEF CreateCluster, TypeOK
    <2> QED BY <1>1, <2>4, <2>5 DEF CreateCluster, RequestStep, Steps
  <1>2. CASE SetUserEmail(r) BY <1>2, GoMoves DEF SetUserEmail, Steps
  <1>3. CASE WaitForCluster(r) BY <1>3, AnswerMoves DEF WaitForCluster
  <1>4. CASE PutCredentials(r) BY <1>4, GoMoves DEF PutCredentials, Steps
  <1>5. CASE HandleEncryption(r) BY <1>5, GoMoves DEF HandleEncryption, Steps
  <1>6. CASE UpdateCluster(r) BY <1>6, AnswerMoves DEF UpdateCluster
  <1>7. CASE Migrate(r) BY <1>7, AnswerMoves DEF Migrate
  <1>8. CASE AddFinalizers(r) BY <1>8, GoMoves DEF AddFinalizers, Steps
  <1>9. CASE Delete(r) BY <1>9, AnswerMoves DEF Delete
  <1>10. CASE Fail(r) BY <1>10, AnswerMoves DEF Fail
  <1> QED BY <1>1, <1>2, <1>3, <1>4, <1>5, <1>6, <1>7, <1>8, <1>9, <1>10 DEF Continue

\* Every step of a request about keys moves it.
LEMMA KeyStepsMove ==
    ASSUME StepInv, NEW r \in Requests, KeyStep(r)
    PROVE  RequestStep(r)
  <1>1. Known \subseteq Nat BY DEF StepInv, TypeOK, Known
  <1>2. ASSUME NEW by \in Callers, NEW n \in KeyNames, StartKey(r, by, n) PROVE RequestStep(r)
    <2>1. [NoRequest EXCEPT !.by = by] \in RequestData
      BY NoRequestFacts DEF RequestData
    <2> QED BY <1>2, <2>1 DEF StartKey, BeginKey, Begin, RequestStep, Steps
  <1>3. ASSUME NEW by \in Callers, NEW c \in Known, NEW k \in KnownKeys, NEW step \in {"assign", "detach"},
               Read(by, c, k, step, r)
        PROVE  RequestStep(r)
    <2>1. [NoRequest EXCEPT !.by = by, !.object = c] \in RequestData
      BY <1>1, NoRequestFacts DEF RequestData
    <2> QED BY <1>3, <2>1 DEF Read, BeginKey, Begin, RequestStep, Steps
  <1>4. ASSUME NEW by \in Callers, NEW c \in Known, NEW k \in KnownKeys,
               StartAssign(r, by, c, k) \/ StartDetach(r, by, c, k)
        PROVE  RequestStep(r)
    <2>1. \E step \in {"assign", "detach"} : Read(by, c, k, step, r)
      BY <1>4 DEF StartAssign, StartDetach
    <2> QED BY <2>1, <1>3
  <1>5. ASSUME pc' = [pc EXCEPT ![r] = "answered"], req' = req PROVE RequestStep(r)
    <2>1. req[r] \in RequestData /\ req' = [req EXCEPT ![r] = req[r]] BY <1>5 DEF StepInv, TypeOK
    <2> QED BY <1>5, <2>1 DEF RequestStep, Steps
  <1>6. ASSUME NEW by \in Callers, NEW c \in Known, NEW k \in KnownKeys, AssignNothing(r, by, c, k)
        PROVE  RequestStep(r)
    BY <1>5, <1>6 DEF AssignNothing
  <1>7. ASSUME NEW k \in KnownKeys, DeleteUserSSHKey(r, k) PROVE RequestStep(r)
    BY <1>5, <1>7 DEF DeleteUserSSHKey
  <1>8. ASSUME CreateUserSSHKey(r) \/ UpdateClusterSSHKey(r) \/ FailKey(r) PROVE RequestStep(r)
    BY <1>8, AnswerMoves DEF CreateUserSSHKey, UpdateClusterSSHKey, FailKey, AnswerKey
  <1> QED BY <1>2, <1>4, <1>6, <1>7, <1>8 DEF KeyStep

\* No step moves two requests, and the types of their data stay.
LEMMA RequestsMove ==
    ASSUME StepInv, ClustersAssumption, KeysNext
    PROVE  /\ UNCHANGED <<pc, req>> \/ \E r \in Requests : RequestStep(r)
           /\ pc' \in [Requests -> Steps] /\ req' \in [Requests -> RequestData]
  <1>1. UNCHANGED <<pc, req>> \/ \E r \in Requests : RequestStep(r)
    <2>1. ASSUME NEW c \in Known, ComeUp(c) \/ Vanish(c) \/ Sync(c) PROVE UNCHANGED <<pc, req>>
      BY <2>1 DEF ComeUp, Vanish, Sync
    <2>2. ASSUME NEW k \in KnownKeys, SyncKey(k) PROVE UNCHANGED <<pc, req>>
      BY <2>2 DEF SyncKey, vars
    <2> QED BY <2>1, <2>2, StartsMove, ContinuationsMove, KeyStepsMove DEF KeysNext, Next
  <1>2. pc \in [Requests -> Steps] /\ req \in [Requests -> RequestData] BY DEF StepInv, TypeOK
  <1> QED BY <1>1, <1>2 DEF RequestStep

\* One of the objects that belong to clusters changes at one cluster.
LEMMA PutTypes ==
    ASSUME NEW S, NEW s \in Seq(S), Len(s) = Len(clusters), NEW c \in Known, NEW v \in S
    PROVE  [s EXCEPT ![c] = v] \in Seq(S) /\ Len([s EXCEPT ![c] = v]) = Len(clusters)
  BY ExceptFacts DEF Known

\* Which clusters there are, and how many versions they have, in the next
\* state.
VersionsStep ==
    \A c \in Known' :
        /\ Len(clusters'[c]) > 0 /\ shown'[c] <= Len(clusters'[c])
        /\ \A i \in 1 .. Len(clusters'[c]) :
             clusters'[c][i].state = "gone" => i = Len(clusters'[c])

\* A step on objects keeps every cluster's versions: none is lost, and a deleted
\* cluster gets no further one.
LEMMA VersionsAreKept ==
    ASSUME StepInv, ClustersAssumption, ObjectsStep
    PROVE  VersionsStep /\ Len(clusters') = Len(clusters)
  <1> DEFINE Right(c, s, n) ==
               /\ Len(s) > 0 /\ n <= Len(s)
               /\ \A i \in 1 .. Len(s) : s[i].state = "gone" => i = Len(s)
  <1>1. \A c \in Known : /\ Right(c, clusters[c], shown[c]) /\ shown[c] \in Nat
                         /\ clusters[c] \in Seq(Versions) /\ Len(clusters[c]) \in Nat
    BY LatestFacts DEF StepInv, TypeOK, PerCluster, Known
  <1>2. clusters \in Seq(Seq(Versions)) /\ shown \in Seq(Nat) /\ Len(shown) = Len(clusters)
    BY DEF StepInv, TypeOK, PerCluster
  <1>3. \A c \in Known : shown'[c] \in Nat /\ shown'[c] <= Len(clusters[c])
    <2>1. CASE UNCHANGED shown BY <2>1, <1>1
    <2>2. CASE \E c \in Known : shown[c] < Len(clusters[c]) /\ shown' = [shown EXCEPT ![c] = shown[c] + 1]
      BY <2>2, <1>1, <1>2, SMTT(60) DEF Known
    <2> QED BY <2>1, <2>2 DEF ObjectsStep
  <1>4. CASE clusters' = clusters
    <2>1. Known' = Known BY <1>4 DEF Known
    <2> QED BY <1>1, <1>3, <1>4, <2>1 DEF VersionsStep
  <1>5. CASE \E c \in Known, new \in Versions : Follows(c, new) /\ clusters' = Grow(clusters, c, new)
    <2>1. PICK c \in Known, new \in Versions : Follows(c, new) /\ clusters' = Grow(clusters, c, new)
      BY <1>5
    <2>2. /\ Len(clusters') = Len(clusters) /\ Len(clusters'[c]) = Len(clusters[c]) + 1
          /\ \A i \in 1 .. Len(clusters[c]) : clusters'[c][i] = clusters[c][i]
          /\ \A d \in Known : d # c => clusters'[d] = clusters[d]
      <3> DEFINE g == Grow(clusters, c, new)
      <3>1. c \in 1 .. Len(clusters) /\ clusters \in Seq(Seq(Versions)) BY <1>2 DEF Known
      <3>2. /\ Len(g) = Len(clusters) /\ Len(g[c]) = Len(clusters[c]) + 1
            /\ \A i \in 1 .. Len(clusters[c]) : g[c][i] = clusters[c][i]
            /\ \A d \in 1 .. Len(clusters) : d # c => g[d] = clusters[d]
        BY <3>1, GrowFacts
      <3>3. clusters' = g BY <2>1
      <3> HIDE DEF g
      <3> QED BY <3>2, <3>3 DEF Known
    <2>3. Known' = Known BY <2>2 DEF Known
    <2>4. clusters[c][Len(clusters[c])].state # "gone" BY <2>1 DEF Follows, Latest
    <2>5. \A i \in 1 .. Len(clusters[c]) : clusters[c][i].state # "gone" BY <1>1, <2>4
    <2>6. \A i \in 1 .. Len(clusters'[c]) : clusters'[c][i].state = "gone" => i = Len(clusters'[c])
      BY <1>1, <2>2, <2>5, SMTT(60)
    <2>7. Right(c, clusters'[c], shown'[c]) BY <1>1, <1>3, <2>2, <2>6
    <2>8. \A d \in Known : d # c => Right(d, clusters'[d], shown'[d]) BY <1>1, <1>3, <2>2
    <2> QED BY <2>2, <2>3, <2>7, <2>8 DEF VersionsStep
  <1> QED BY <1>4, <1>5 DEF ObjectsStep, ClustersStep

\* A step on objects keeps the types of the clusters.
LEMMA ObjectTypes ==
    ASSUME StepInv, ClustersAssumption, KeysNext, ObjectsStep
    PROVE  TypeOK'
  <1>1. Len(clusters') = Len(clusters) /\ VersionsStep BY VersionsAreKept
  <1>2. clusters' \in Seq(Seq(Versions)) BY ClustersExtended
  <1>3. PerCluster(shown, Nat)'
    <2>1. shown \in Seq(Nat) /\ Len(shown) = Len(clusters) BY DEF StepInv, TypeOK, PerCluster
    <2>2. ASSUME NEW c \in Known PROVE shown[c] + 1 \in Nat BY <2>1 DEF Known
    <2>3. CASE UNCHANGED shown BY <1>1, <2>1, <2>3 DEF PerCluster
    <2>4. ASSUME NEW c \in Known, shown' = [shown EXCEPT ![c] = shown[c] + 1] PROVE PerCluster(shown, Nat)'
      BY <1>1, <2>1, <2>2, <2>4, PutTypes DEF PerCluster
    <2> QED BY <2>3, <2>4 DEF ObjectsStep
  <1>4. PerCluster(credential, Credentials \cup {"preset"})'
    <2>1. credential \in Seq(Credentials \cup {"preset"}) /\ Len(credential) = Len(clusters)
      BY DEF StepInv, TypeOK, PerCluster
    <2>2. CASE UNCHANGED credential BY <1>1, <2>1, <2>2 DEF PerCluster
    <2>3. CASE Put(credential, Credentials) BY <1>1, <2>1, <2>3, PutTypes DEF PerCluster, Put
    <2> QED BY <2>2, <2>3 DEF ObjectsStep
  <1>5. PerCluster(encKey, Keys \cup {"none"})'
    <2>1. encKey \in Seq(Keys \cup {"none"}) /\ Len(encKey) = Len(clusters)
      BY DEF StepInv, TypeOK, PerCluster
    <2>2. CASE UNCHANGED encKey BY <1>1, <2>1, <2>2 DEF PerCluster
    <2>3. CASE Put(encKey, Keys) BY <1>1, <2>1, <2>3, PutTypes DEF PerCluster, Put
    <2> QED BY <2>2, <2>3 DEF ObjectsStep, Put
  <1>6. PerCluster(agreed, Keys \cup {"none"})'
    <2>1. agreed \in Seq(Keys \cup {"none"}) /\ Len(agreed) = Len(clusters)
      BY DEF StepInv, TypeOK, PerCluster
    <2>2. CASE UNCHANGED agreed BY <1>1, <2>1, <2>2 DEF PerCluster
    <2>3. CASE Put(agreed, Keys \cup {"none"}) BY <1>1, <2>1, <2>3, PutTypes DEF PerCluster, Put
    <2> QED BY <2>2, <2>3 DEF ObjectsStep
  <1>7. PerCluster(origin, [padded : YesNo, seen : SUBSET Nat])'
    BY <1>1 DEF StepInv, TypeOK, PerCluster, ObjectsStep
  <1>8. PerCluster(writer, Requests \cup {"none", "failed"})'
    <2>1. writer \in Seq(Requests \cup {"none", "failed"}) /\ Len(writer) = Len(clusters)
      BY DEF StepInv, TypeOK, PerCluster
    <2>2. CASE UNCHANGED writer BY <1>1, <2>1, <2>2 DEF PerCluster
    <2>3. CASE Put(writer, Requests \cup {"none"}) BY <1>1, <2>1, <2>3, PutTypes DEF PerCluster, Put
    <2>4. CASE \E r \in Requests :
                 writer' = [c \in Known |-> IF writer[c] = r THEN "failed" ELSE writer[c]]
      BY <1>1, <2>1, <2>4 DEF PerCluster, Known
    <2> QED BY <2>2, <2>3, <2>4 DEF ObjectsStep
  <1>9. PerCluster(cleanup, YesNo)'
    <2>1. cleanup \in Seq(YesNo) /\ Len(cleanup) = Len(clusters)
      BY DEF StepInv, TypeOK, PerCluster
    <2>2. CASE UNCHANGED cleanup BY <1>1, <2>1, <2>2 DEF PerCluster
    <2>3. CASE Put(cleanup, {"yes"}) BY <1>1, <2>1, <2>3, PutTypes DEF PerCluster, Put, YesNo
    <2> QED BY <2>2, <2>3 DEF ObjectsStep
  <1>10. pc' \in [Requests -> Steps] /\ req' \in [Requests -> RequestData] BY RequestsMove
  <1> QED BY <1>1, <1>2, <1>3, <1>4, <1>5, <1>6, <1>7, <1>8, <1>9, <1>10 DEF TypeOK, VersionsStep

\* A creation adds one element to every sequence.
LEMMA CreateTypes ==
    ASSUME StepInv, ClustersAssumption, KeysNext, NEW r \in Requests, CreateCluster(r)
    PROVE  TypeOK'
  <1> DEFINE q == req[r]
  <1>1. PICK v \in Versions : v.state = "live" /\ clusters' = Append(clusters, <<v>>)
    BY CreateFacts
  <1>2. <<v>> \in Seq(Versions) /\ Len(<<v>>) = 1 /\ <<v>>[1] = v BY SingletonFacts
  <1>3. clusters \in Seq(Seq(Versions)) /\ Len(clusters) \in Nat BY DEF StepInv, TypeOK
  <1>4. /\ clusters' \in Seq(Seq(Versions)) /\ Len(clusters') = Len(clusters) + 1
        /\ \A c \in Known : clusters'[c] = clusters[c]
        /\ clusters'[Len(clusters) + 1] = <<v>>
    BY <1>1, <1>2, <1>3, AppendFacts DEF Known
  <1>5. PerCluster(shown, Nat)' /\ shown'[Len(clusters) + 1] = 0 /\ \A c \in Known : shown'[c] = shown[c]
    BY <1>4, AppendFacts DEF CreateCluster, StepInv, TypeOK, PerCluster, Known
  <1>6. q \in RequestData /\ q.patch.key \in Keys \cup {"none"}
    BY CreateFacts DEF StepInv, TypeOK
  <1>7. PerCluster(credential, Credentials \cup {"preset"})'
    BY <1>4, AppendFacts DEF CreateCluster, StepInv, TypeOK, PerCluster
  <1>8. PerCluster(encKey, Keys \cup {"none"})' /\ PerCluster(agreed, Keys \cup {"none"})'
    BY <1>4, <1>6, AppendFacts DEF CreateCluster, StepInv, TypeOK, PerCluster
  <1>9. PerCluster(origin, [padded : YesNo, seen : SUBSET Nat])'
    <2>1. [padded |-> q.padded, seen |-> q.seen] \in [padded : YesNo, seen : SUBSET Nat]
      BY <1>6 DEF RequestData
    <2> QED BY <1>4, <2>1, AppendFacts, SMTT(60) DEF CreateCluster, StepInv, TypeOK, PerCluster
  <1>10. PerCluster(writer, Requests \cup {"none", "failed"})'
    BY <1>4, AppendFacts DEF CreateCluster, StepInv, TypeOK, PerCluster
  <1>11. PerCluster(cleanup, YesNo)'
    BY <1>4, AppendFacts DEF CreateCluster, StepInv, TypeOK, PerCluster, YesNo
  <1>12. pc' \in [Requests -> Steps] /\ req' \in [Requests -> RequestData] BY RequestsMove
  <1>13. VersionsStep
    <2>1. Known' = Known \cup {Len(clusters) + 1} BY <1>3, <1>4 DEF Known
    <2>2. ASSUME NEW c \in Known
          PROVE  /\ Len(clusters'[c]) > 0 /\ shown'[c] <= Len(clusters'[c])
                 /\ \A i \in 1 .. Len(clusters'[c]) :
                      clusters'[c][i].state = "gone" => i = Len(clusters'[c])
      BY <1>4, <1>5 DEF StepInv, TypeOK
    <2>3. ASSUME NEW c, c = Len(clusters) + 1
          PROVE  /\ Len(clusters'[c]) > 0 /\ shown'[c] <= Len(clusters'[c])
                 /\ \A i \in 1 .. Len(clusters'[c]) :
                      clusters'[c][i].state = "gone" => i = Len(clusters'[c])
      BY <1>1, <1>2, <1>4, <1>5, <2>3
    <2> QED BY <2>1, <2>2, <2>3 DEF VersionsStep
  <1> QED BY <1>4, <1>5, <1>7, <1>8, <1>9, <1>10, <1>11, <1>12, <1>13 DEF TypeOK, VersionsStep

-----------------------------------------------------------------------------
(* Clusters and their secrets.                                             *)

\* The latest version of a cluster is followed by one that may follow it.
LEMMA LatestFollows ==
    ASSUME StepInv, ClustersAssumption, KeysNext, NEW c \in Known
    PROVE  /\ c \in Known'
           /\ Latest(clusters'[c]) = Latest(clusters[c]) \/ Follows(c, Latest(clusters'[c]))
  <1>1. clusters \in Seq(Seq(Versions)) /\ c \in 1 .. Len(clusters) /\ Len(clusters) \in Nat
    BY DEF StepInv, TypeOK, Known
  <1>2. ASSUME NEW r \in Requests, CreateCluster(r)
        PROVE  c \in Known' /\ clusters'[c] = clusters[c]
    <2>1. PICK v \in Versions : clusters' = Append(clusters, <<v>>) BY <1>2, CreateFacts
    <2>2. <<v>> \in Seq(Versions) BY SingletonFacts
    <2>3. Len(clusters') = Len(clusters) + 1 /\ clusters'[c] = clusters[c]
      BY <1>1, <2>1, <2>2, AppendFacts
    <2> QED BY <1>1, <2>3 DEF Known
  <1>3. ASSUME NEW d \in Known, NEW new \in Versions, Follows(d, new), clusters' = Grow(clusters, d, new)
        PROVE  /\ c \in Known'
               /\ Latest(clusters'[c]) = Latest(clusters[c]) \/ Follows(c, Latest(clusters'[c]))
    <2> DEFINE g == Grow(clusters, d, new)
    <2>1. d \in 1 .. Len(clusters) /\ Len(clusters[d]) \in Nat BY LatestFacts DEF Known, StepInv
    <2>2. /\ Len(g) = Len(clusters)
          /\ Len(g[d]) = Len(clusters[d]) + 1 /\ g[d][Len(clusters[d]) + 1] = new
          /\ c # d => g[c] = clusters[c]
      BY <1>1, <2>1, GrowFacts
    <2> HIDE DEF g
    <2>3. clusters' = g BY <1>3 DEF g
    <2>4. Latest(clusters'[d]) = new BY <2>2, <2>3 DEF Latest
    <2>5. c \in Known' BY <1>1, <2>2, <2>3 DEF Known
    <2>6. CASE c = d BY <1>3, <2>4, <2>5, <2>6
    <2>7. CASE c # d BY <2>2, <2>3, <2>5, <2>7
    <2> QED BY <2>6, <2>7
  <1>4. CASE ObjectsStep
    <2>1. CASE clusters' = clusters BY <2>1 DEF Known
    <2> QED BY <1>3, <1>4, <2>1 DEF ObjectsStep, ClustersStep
  <1> QED BY <1>2, <1>4, ObjectsStepThm

\* The version that is stored is the latest one.
LEMMA StoreLatest ==
    ASSUME TypeOK, NEW c \in Known, NEW new \in Versions, Store(c, new)
    PROVE  Latest(clusters'[c]) = new
  <1>1. clusters \in Seq(Seq(Versions)) /\ c \in 1 .. Len(clusters) BY DEF TypeOK, Known
  <1>2. CASE new = Latest(clusters[c]) BY <1>2 DEF Store
  <1>3. CASE new # Latest(clusters[c])
    <2>1. clusters' = Grow(clusters, c, new) BY <1>3 DEF Store, Grow
    <2> DEFINE g == Grow(clusters, c, new)
    <2>2. Len(g[c]) = Len(clusters[c]) + 1 /\ g[c][Len(clusters[c]) + 1] = new
      BY <1>1, GrowFacts
    <2> HIDE DEF g
    <2> QED BY <2>1, <2>2 DEF Latest, g
  <1> QED BY <1>2, <1>3

\* A key that is stored stays.
LEMMA KeysStay ==
    ASSUME StepInv, ClustersAssumption, KeysNext, NEW c \in Known, encKey[c] # "none"
    PROVE  encKey'[c] = encKey[c]
  <1>1. encKey \in Seq(Keys \cup {"none"}) /\ Len(encKey) = Len(clusters) /\ c \in 1 .. Len(encKey)
    BY DEF StepInv, TypeOK, PerCluster, Known
  <1>2. ASSUME NEW r \in Requests, CreateCluster(r) PROVE encKey'[c] = encKey[c]
    <2>1. PICK k \in Keys \cup {"none"} : encKey' = Append(encKey, k)
      BY <1>2, CreateFacts DEF CreateCluster
    <2> QED BY <1>1, <2>1, AppendFacts
  <1>3. CASE ObjectsStep
    <2>1. CASE UNCHANGED encKey BY <2>1
    <2>2. ASSUME NEW d \in Known, NEW k \in Keys, encKey[d] = "none", encKey' = [encKey EXCEPT ![d] = k]
          PROVE  encKey'[c] = encKey[c]
      BY <1>1, <2>2 DEF Known
    <2> QED BY <1>3, <2>1, <2>2 DEF ObjectsStep
  <1> QED BY <1>2, <1>3, ObjectsStepThm

\* The cluster that a creation adds.
CreatedCluster(q) == NewCluster(q.patch.name, IF q.patch.key = "none" THEN "off" ELSE "on")
\* A creation starts a cluster with what its request asked for.
LEMMA NewClusterFacts ==
    ASSUME StepInv, NEW r \in Requests, CreateCluster(r), NEW c \in Known', c \notin Known
    PROVE  /\ Latest(clusters'[c]) = CreatedCluster(req[r])
           /\ clusters'[c][1] = CreatedCluster(req[r])
           /\ credential'[c] = "preset" /\ encKey'[c] = req[r].patch.key
           /\ writer'[c] = "none" /\ cleanup'[c] = "no"
           /\ origin'[c] = [padded |-> req[r].padded, seen |-> req[r].seen]
  <1> DEFINE n == Len(clusters)
  <1>1. PICK v \in Versions :
          /\ v = CreatedCluster(req[r])
          /\ clusters' = Append(clusters, <<v>>)
    BY CreateFacts DEF CreatedCluster
  <1>2. <<v>> \in Seq(Versions) /\ Len(<<v>>) = 1 /\ <<v>>[1] = v BY SingletonFacts
  <1>3. clusters \in Seq(Seq(Versions)) /\ n \in Nat BY DEF StepInv, TypeOK
  <1>4. Len(clusters') = n + 1 /\ clusters'[n + 1] = <<v>> BY <1>1, <1>2, <1>3, AppendFacts
  <1>5. c = n + 1 BY <1>3, <1>4 DEF Known
  <1>6. Latest(clusters'[c]) = v /\ clusters'[c][1] = v BY <1>2, <1>4, <1>5 DEF Latest
  <1>7. credential'[n + 1] = "preset"
    BY DEF CreateCluster, StepInv, TypeOK, PerCluster
  <1>8. encKey'[n + 1] = req[r].patch.key
    BY DEF CreateCluster, StepInv, TypeOK, PerCluster
  <1>9. writer'[n + 1] = "none"
    BY DEF CreateCluster, StepInv, TypeOK, PerCluster
  <1>10. cleanup'[n + 1] = "no"
    BY DEF CreateCluster, StepInv, TypeOK, PerCluster
  <1>11. origin'[n + 1] = [padded |-> req[r].padded, seen |-> req[r].seen]
    BY DEF CreateCluster, StepInv, TypeOK, PerCluster
  <1> HIDE DEF n
  <1> QED BY <1>1, <1>4, <1>5, <1>6, <1>7, <1>8, <1>9, <1>10, <1>11

\* The clusters in the next state that were not there.
LEMMA NewIsCreated ==
    ASSUME StepInv, ClustersAssumption, KeysNext, NEW c \in Known', c \notin Known
    PROVE  \E r \in Requests : CreateCluster(r)
  BY ObjectsStepThm, VersionsAreKept DEF Known

\* Steps keep the key of an encrypted cluster.
LEMMA EncryptedStep ==
    ASSUME StepInv, ClustersAssumption, KeysNext
    PROVE  EncryptedHasKey'
  <1> SUFFICES ASSUME NEW c \in Known', Latest(clusters'[c]).encryption = "on"
               PROVE  encKey'[c] # "none"
    BY DEF EncryptedHasKey
  <1>1. CASE c \in Known
    <2>1. encKey[c] # "none" BY <1>1, LatestFollows DEF Follows, StepInv, EncryptedHasKey
    <2> QED BY <1>1, <2>1, KeysStay
  <1>2. CASE c \notin Known
    <2>1. PICK r \in Requests : CreateCluster(r) BY <1>2, NewIsCreated
    <2>2. Latest(clusters'[c]) = CreatedCluster(req[r]) /\ encKey'[c] = req[r].patch.key
      BY <1>2, <2>1, NewClusterFacts
    <2> QED BY <2>2 DEF CreatedCluster, NewCluster
  <1> QED BY <1>1, <1>2

\* Which steps write credentials, settle who wrote them, or ask for a
\* cleanup.
LEMMA WhoWrites ==
    ASSUME KeysNext
    PROVE  \/ UNCHANGED <<credential, writer, cleanup>>
           \/ \E r \in Requests : \/ CreateCluster(r) \/ PutCredentials(r) \/ UpdateCluster(r)
                                  \/ AddFinalizers(r) \/ Fail(r)
  <1>1. ASSUME NEW r \in Requests, Start(r) PROVE UNCHANGED <<credential, writer, cleanup>>
    BY <1>1 DEF Start, StartCreate, StartPatch, StartMigrate, StartDelete, objects, ghosts
  <1>2. ASSUME NEW r \in Requests,
               \/ SetUserEmail(r) \/ WaitForCluster(r) \/ HandleEncryption(r) \/ Migrate(r) \/ Delete(r)
        PROVE  UNCHANGED <<credential, writer, cleanup>>
    BY <1>2 DEF SetUserEmail, WaitForCluster, HandleEncryption, Migrate, Delete, objects, ghosts
  <1>3. ASSUME NEW c \in Known, ComeUp(c) \/ Vanish(c) \/ Sync(c)
        PROVE  UNCHANGED <<credential, writer, cleanup>>
    BY <1>3 DEF ComeUp, Vanish, Sync, ghosts
  <1>4. ASSUME NEW r \in Requests, KeyStep(r) PROVE UNCHANGED <<credential, writer, cleanup>>
    BY <1>4, KeyStepsLeave DEF objects, ghosts
  <1>5. ASSUME NEW k \in KnownKeys, SyncKey(k) PROVE UNCHANGED <<credential, writer, cleanup>>
    BY <1>5 DEF SyncKey, vars, objects, ghosts
  <1> QED BY <1>1, <1>2, <1>3, <1>4, <1>5 DEF KeysNext, Next, Continue

\* Finalizers that were asked for are there, and stay.
LEMMA CleanupStep ==
    ASSUME StepInv, CleanupIsKept, ClustersAssumption, KeysNext
    PROVE  CleanupIsKept'
  <1> SUFFICES ASSUME NEW c \in Known', cleanup'[c] = "yes"
               PROVE  Latest(clusters'[c]).finalizer = "yes"
    BY DEF CleanupIsKept
  <1>1. CASE c \notin Known
    <2>1. PICK r \in Requests : CreateCluster(r) BY <1>1, NewIsCreated
    <2> QED BY <1>1, <2>1, NewClusterFacts
  <1>2. CASE c \in Known /\ cleanup[c] = "yes"
    <2>1. Latest(clusters[c]).finalizer = "yes" BY <1>2 DEF CleanupIsKept
    <2> QED BY <1>2, <2>1, LatestFollows DEF Follows
  <1>3. CASE c \in Known /\ cleanup[c] # "yes"
    <2>1. cleanup \in Seq(YesNo) /\ Len(cleanup) = Len(clusters) /\ c \in 1 .. Len(cleanup)
      BY <1>3 DEF StepInv, TypeOK, PerCluster, Known
    <2>2. ASSUME NEW r \in Requests, CreateCluster(r) PROVE cleanup'[c] = cleanup[c]
      <3>1. cleanup' = Append(cleanup, "no") /\ "no" \in YesNo BY <2>2 DEF CreateCluster, YesNo
      <3> QED BY <2>1, <3>1, AppendFacts
    <2>3. PICK r \in Requests : AddFinalizers(r)
      BY <1>3, <2>2, WhoWrites DEF PutCredentials, UpdateCluster, Fail
    <2> DEFINE q == req[r]
               asked == q.volumes = "yes" /\ Old(q).up = "yes"
               new == [Old(q) EXCEPT !.finalizer = IF asked THEN "yes" ELSE @]
    <2>4. asked /\ c = q.object BY <1>3, <2>1, <2>3 DEF AddFinalizers
    <2>5. Accepted(q, new) /\ Store(q.object, new) BY <2>3 DEF AddFinalizers
    <2>6. Old(q) \in Versions BY <1>3, <2>4, <2>5, AcceptedIsLatest DEF StepInv
    <2>7. new = [Old(q) EXCEPT !.finalizer = "yes"] BY <2>4, <2>6 DEF Versions
    <2>8. new \in Versions /\ new.finalizer = "yes" BY <2>6, <2>7, VersionChanges DEF Versions
    <2> HIDE DEF new, q
    <2> QED BY <1>3, <2>4, <2>5, <2>8, StoreLatest DEF StepInv
  <1> QED BY <1>1, <1>2, <1>3

\* Credentials other than the preset's come with a writer, or without the
\* link.
LEMMA LinkedStep ==
    ASSUME StepInv, LinkedHasPresetCredentials, ClustersAssumption, KeysNext
    PROVE  LinkedHasPresetCredentials'
  <1> SUFFICES ASSUME NEW c \in Known', Latest(clusters'[c]).preset = "yes", writer'[c] = "none"
               PROVE  credential'[c] = "preset"
    BY DEF LinkedHasPresetCredentials
  <1>1. CASE c \notin Known
    <2>1. PICK r \in Requests : CreateCluster(r) BY <1>1, NewIsCreated
    <2> QED BY <1>1, <2>1, NewClusterFacts
  <1>2. CASE c \in Known
    <2>1. Latest(clusters[c]).preset = "yes"
      BY <1>2, LatestFollows, LatestFacts DEF Follows, StepInv, Versions, YesNo
    <2>2. /\ writer \in Seq(Requests \cup {"none", "failed"}) /\ c \in 1 .. Len(writer)
          /\ credential \in Seq(Credentials \cup {"preset"}) /\ c \in 1 .. Len(credential)
      BY <1>2 DEF StepInv, TypeOK, PerCluster, Known
    <2>3. writer[c] = "none" => credential[c] = "preset"
      BY <1>2, <2>1 DEF LinkedHasPresetCredentials
    <2>4. CASE UNCHANGED <<credential, writer, cleanup>> BY <2>3, <2>4
    <2>5. ASSUME NEW r \in Requests, CreateCluster(r) PROVE credential'[c] = "preset"
      <3>1. writer' = Append(writer, "none") /\ credential' = Append(credential, "preset")
        BY <2>5 DEF CreateCluster
      <3>2. writer'[c] = writer[c] BY <2>2, <3>1, AppendFacts
      <3>3. credential'[c] = credential[c] BY <2>2, <3>1, AppendFacts
      <3> QED BY <2>3, <3>2, <3>3
    <2>6. ASSUME NEW r \in Requests, PutCredentials(r) PROVE credential'[c] = "preset"
      <3>1. r # "none" BY DEF ClustersAssumption
      <3>2. c # req[r].object BY <2>2, <2>6, <3>1 DEF PutCredentials
      <3> QED BY <2>2, <2>3, <2>6, <3>2 DEF PutCredentials
    <2>7. ASSUME NEW r \in Requests, UpdateCluster(r) PROVE credential'[c] = "preset"
      <3>1. CASE writer[c] = "none" BY <2>3, <2>7, <3>1 DEF UpdateCluster
      <3>2. CASE writer[c] # "none"
        <4> DEFINE q == req[r]
                   new == PatchedCluster(q)
        <4>1. c = q.object /\ writer[c] = r BY <2>2, <2>7, <3>2 DEF UpdateCluster, Settle
        <4>2. q.patch.credentials # "keep" BY <1>2, <4>1 DEF StepInv, RequestsInformed, Informed
        <4>3. Accepted(q, new) /\ Store(q.object, new) BY <2>7 DEF UpdateCluster
        <4>4. Old(q) \in Versions BY <1>2, <4>1, <4>3, AcceptedIsLatest DEF StepInv
        <4>5. new.preset = "no" BY <4>2, <4>4 DEF PatchedCluster, Link, Versions
        <4>6. CASE new = Latest(clusters[c]) BY <2>1, <4>5, <4>6
        <4>7. CASE new # Latest(clusters[c])
          <5>1. clusters' = [clusters EXCEPT ![c] = Append(clusters[c], new)]
            BY <4>1, <4>3, <4>7 DEF Store
          <5>2. clusters \in Seq(Seq(Versions)) /\ c \in 1 .. Len(clusters) /\ Len(clusters[c]) \in Nat
            BY <1>2, LatestFacts DEF StepInv, TypeOK, Known
          <5>3. clusters'[c] = Append(clusters[c], new) BY <5>1, <5>2
          <5>4. Latest(Append(clusters[c], new)) = new
            <6> HIDE DEF new
            <6> QED BY <1>2, LatestFacts DEF StepInv, Latest
          <5> QED BY <4>5, <5>3, <5>4
        <4> QED BY <4>6, <4>7
      <3> QED BY <3>1, <3>2
    <2>8. ASSUME NEW r \in Requests, AddFinalizers(r) PROVE credential'[c] = "preset"
      BY <2>3, <2>8 DEF AddFinalizers
    <2>9. ASSUME NEW r \in Requests, Fail(r) PROVE credential'[c] = "preset"
      BY <1>2, <2>3, <2>9 DEF Fail, objects
    <2> QED BY <2>4, <2>5, <2>6, <2>7, <2>8, <2>9, WhoWrites
  <1> QED BY <1>1, <1>2

-----------------------------------------------------------------------------
(* What requests have found out.                                           *)

\* A version that was read is where it was.
LEMMA ReadIsKept ==
    ASSUME StepInv, ClustersAssumption, KeysNext, NEW c \in Known
    PROVE  /\ c \in Known' /\ Len(clusters[c]) <= Len(clusters'[c])
           /\ Len(clusters[c]) \in Nat /\ Len(clusters'[c]) \in Nat
           /\ \A i \in 1 .. Len(clusters[c]) : i \in 1 .. Len(clusters'[c]) /\ clusters'[c][i] = clusters[c][i]
           /\ \A n : NamedOtherwise(c, n) => \E i \in 1 .. Len(clusters'[c]) : clusters'[c][i].name # n
  <1>1. Extends(clusters, clusters') /\ clusters' \in Seq(Seq(Versions)) BY ClustersExtended
  <1>2. c \in 1 .. Len(clusters) /\ Len(clusters) \in Nat /\ Len(clusters') \in Nat
    BY <1>1 DEF Known, StepInv, TypeOK
  <1>3. c \in Known' BY <1>1, <1>2 DEF Known, Extends
  <1>4. clusters'[c] \in Seq(Versions) /\ Len(clusters'[c]) \in Nat
    BY <1>1, <1>3 DEF Known
  <1>5. Len(clusters[c]) \in Nat BY LatestFacts DEF StepInv
  <1>6. /\ Len(clusters[c]) <= Len(clusters'[c])
        /\ \A i \in 1 .. Len(clusters[c]) : clusters'[c][i] = clusters[c][i]
    BY <1>1, <1>2 DEF Extends
  <1> QED BY <1>3, <1>4, <1>5, <1>6 DEF NamedOtherwise

\* A request that does not move, and does not become the writer of
\* credentials, is informed as before.
LEMMA InformedStays ==
    ASSUME StepInv, ClustersAssumption, KeysNext, NEW r \in Requests,
           pc'[r] = pc[r], req'[r] = req[r],
           \A c \in Known' : writer'[c] = r => c \in Known /\ writer[c] = r
    PROVE  Informed(r)'
  <1> DEFINE q == req[r]
  <1>1. Informed(r) BY DEF StepInv, RequestsInformed
  <1>2. q.object \in Known => q.object \in Known' BY ReadIsKept
  <1>3. ASSUME q.object \in Known, q.position \in 1 .. Len(clusters[q.object])
        PROVE  /\ q.position \in 1 .. Len(clusters'[q.object])
               /\ clusters'[q.object][q.position] = clusters[q.object][q.position]
    BY <1>3, ReadIsKept
  <1>4. pc[r] \in {"appear", "ready", "credentials", "validate", "update", "migrate",
                   "finalize", "delete", "assign", "detach"} => q.object \in Known'
    BY <1>1, <1>2 DEF Informed
  <1>5. pc[r] \in {"credentials", "validate", "update", "finalize"} =>
          q.position \in 1 .. Len(clusters'[q.object])
    BY <1>1, <1>3 DEF Informed
  <1>6. pc[r] = "update" /\ clusters'[q.object][q.position].encryption = "off"
          /\ q.patch.encryption = "on" => encKey'[q.object] # "none"
    <2>1. SUFFICES ASSUME pc[r] = "update", clusters'[q.object][q.position].encryption = "off",
                          q.patch.encryption = "on"
                   PROVE  encKey'[q.object] # "none"
      OBVIOUS
    <2>2. q.object \in Known /\ q.position \in 1 .. Len(clusters[q.object])
      BY <1>1, <2>1 DEF Informed
    <2>3. encKey[q.object] # "none" BY <1>1, <1>3, <2>1, <2>2 DEF Informed, Enables, Old
    <2> QED BY <2>2, <2>3, KeysStay
  <1>7. pc[r] = "create" =>
          /\ q.patch.name \in Names
          /\ \A c \in q.seen :
               /\ c \in Known'
               /\ q.padded = "no" => \E i \in 1 .. Len(clusters'[c]) : clusters'[c][i].name # q.patch.name
    BY <1>1, ReadIsKept DEF Informed
  <1>8. pc[r] = "credentials" => q.patch.credentials # "keep" BY <1>1 DEF Informed
  <1>9. \A c \in Known' : writer'[c] = r => /\ pc[r] \in {"validate", "update"} /\ q.object = c
                                            /\ q.patch.credentials # "keep"
    BY <1>1 DEF Informed
  <1> HIDE DEF q
  <1>10. pc'[r] = pc[r] /\ req'[r] = q BY DEF q
  <1> QED BY <1>4, <1>5, <1>6, <1>7, <1>8, <1>9, <1>10 DEF Informed, NamedOtherwise, Enables, Old

\* Only a request that puts credentials becomes their writer.
LEMMA WriterStep ==
    ASSUME StepInv, ClustersAssumption, KeysNext, NEW r \in Requests, ~ PutCredentials(r),
           NEW c \in Known', writer'[c] = r
    PROVE  c \in Known /\ writer[c] = r /\ ~ UpdateCluster(r) /\ ~ Fail(r)
  <1>1. r # "none" /\ r # "failed" BY DEF ClustersAssumption
  <1>2. c \in Known
    <2>1. SUFFICES ASSUME c \notin Known PROVE FALSE OBVIOUS
    <2>2. PICK s \in Requests : CreateCluster(s) BY <2>1, NewIsCreated
    <2> QED BY <1>1, <2>1, <2>2, NewClusterFacts
  <1>3. writer \in Seq(Requests \cup {"none", "failed"}) /\ c \in 1 .. Len(writer)
    BY <1>2 DEF StepInv, TypeOK, PerCluster, Known
  <1>4. ASSUME writer[c] = r, UpdateCluster(r) PROVE FALSE
    <2>1. req[r].object = c BY <1>2, <1>4 DEF StepInv, RequestsInformed, Informed
    <2> QED BY <1>1, <1>3, <1>4, <2>1 DEF UpdateCluster, Settle
  <1>5. ASSUME Fail(r) PROVE FALSE BY <1>1, <1>2, <1>5 DEF Fail
  <1>6. CASE UNCHANGED <<credential, writer, cleanup>> BY <1>6, <1>4, <1>5, <1>2
  <1>7. ASSUME NEW s \in Requests, CreateCluster(s) PROVE writer[c] = r
    <2>1. writer' = Append(writer, "none") BY <1>7 DEF CreateCluster
    <2> QED BY <1>3, <2>1, AppendFacts
  <1>8. ASSUME NEW s \in Requests, PutCredentials(s) PROVE writer[c] = r
    <2>1. s # r BY <1>8
    <2> QED BY <1>3, <1>8, <2>1 DEF PutCredentials
  <1>9. ASSUME NEW s \in Requests, UpdateCluster(s) \/ AddFinalizers(s) \/ Fail(s)
        PROVE  writer[c] = r
    BY <1>1, <1>2, <1>3, <1>9 DEF UpdateCluster, AddFinalizers, Fail, Settle
  <1> QED BY <1>2, <1>6, <1>7, <1>8, <1>9, <1>4, <1>5, WhoWrites

\* A request that is not between its first write and its answer is nobody's
\* writer, and one that is answered no longer is.
LEMMA NotWriter ==
    ASSUME StepInv, ClustersAssumption, KeysNext, NEW r \in Requests, ~ PutCredentials(r),
           pc[r] \notin {"validate", "update"} \/ UpdateCluster(r) \/ Fail(r), NEW c \in Known'
    PROVE  writer'[c] # r
  <1> SUFFICES ASSUME writer'[c] = r PROVE FALSE OBVIOUS
  <1>1. c \in Known /\ writer[c] = r /\ ~ UpdateCluster(r) /\ ~ Fail(r) BY WriterStep
  <1> QED BY <1>1 DEF StepInv, RequestsInformed, Informed

\* Nothing is asked of a request that is answered.
LEMMA AnsweredIsInformed ==
    ASSUME NEW r \in Requests, pc'[r] = "answered", \A c \in Known' : writer'[c] # r
    PROVE  Informed(r)'
  BY DEF Informed

\* A new request.
LEMMA StartsInformed ==
    ASSUME StepInv, ClustersAssumption, KeysNext, NEW r \in Requests, Start(r)
    PROVE  Informed(r)'
  <1>1. pc[r] = "idle" BY DEF Start
  <1>2. ~ PutCredentials(r) BY <1>1 DEF PutCredentials, Go
  <1>3. \A c \in Known' : writer'[c] # r BY <1>1, <1>2, NotWriter
  <1>4. pc \in [Requests -> Steps] /\ req \in [Requests -> RequestData] BY DEF StepInv, TypeOK
  <1>5. UNCHANGED <<objects, ghosts>>
    BY DEF Start, StartCreate, StartPatch, StartMigrate, StartDelete
  <1>6. clusters' = clusters /\ Known' = Known BY <1>5 DEF objects, Known
  <1>7. ASSUME NEW c \in Known, NEW by \in Callers,
               Present(clusters[c], Found(clusters[c], shown[c], by))
        PROVE  Found(clusters[c], shown[c], by) \in 1 .. Len(clusters[c])
    <2>1. shown[c] \in Nat /\ shown[c] <= Len(clusters[c]) /\ Len(clusters[c]) \in Nat
      BY LatestFacts DEF StepInv, TypeOK, PerCluster, Known
    <2> QED BY <1>7, <2>1 DEF Present, Found
  <1>8. ASSUME NEW by \in Callers, NEW n \in Names, NEW padded \in {"yes", "no"},
               NEW k \in Keys \cup {"none"}, StartCreate(r, by, n, padded, k)
        PROVE  Informed(r)'
    <2>4. PICK listed \in Answers :
            /\ ListByName(listed, n, padded) = {}
            /\ Begin(r, "create", [NoRequest EXCEPT !.by = by, !.padded = padded, !.seen = listed,
                                     !.patch = [Silent EXCEPT !.name = n, !.key = k]])
      BY <1>8 DEF StartCreate
    <2>1. ASSUME NEW c \in listed
          PROVE  c \in Known /\ (padded = "no" => NamedOtherwise(c, n))
      <3>1. c \in Known /\ shown[c] \in 1 .. Len(clusters[c])
        <4>1. c \in Known /\ Present(clusters[c], shown[c]) BY <2>1 DEF Answers, Listed
        <4> QED BY <4>1, <1>7 DEF Found, Callers
      <3>2. padded = "no" => clusters[c][shown[c]].name # n
        BY <2>1, <2>4 DEF ListByName
      <3> QED BY <3>1, <3>2 DEF NamedOtherwise
    <2>2. /\ pc'[r] = "create" /\ req'[r].patch.name = n /\ req'[r].seen = listed
          /\ req'[r].padded = padded
      BY <1>4, <2>4 DEF Begin, NoRequest, Silent
    <2>3. \A c \in listed : /\ c \in Known'
                            /\ padded = "no" => NamedOtherwise(c, n)'
      BY <1>6, <2>1 DEF NamedOtherwise
    <2> QED BY <1>3, <2>2, <2>3 DEF Informed
  <1>9. ASSUME NEW by \in Callers, NEW c \in Known, NEW p \in Patches, StartPatch(r, by, c, p)
        PROVE  Informed(r)'
    <2>1. PICK n \in 1 .. Len(clusters[c]) : n = Found(clusters[c], shown[c], by)
      BY <1>7, <1>9 DEF StartPatch
    <2>2. req'[r] = [NoRequest EXCEPT !.by = by, !.object = c, !.position = n, !.patch = p]
      BY <1>4, <1>9, <2>1 DEF StartPatch, Begin
    <2>3. req'[r].object = c /\ req'[r].position = n /\ req'[r].patch = p BY <2>2 DEF NoRequest
    <2>4. pc'[r] = IF p.credentials = "keep" THEN "validate" ELSE "credentials"
      BY <1>4, <1>9 DEF StartPatch, Begin
    <2> QED BY <1>3, <1>6, <2>3, <2>4 DEF Informed
  <1>10. ASSUME NEW by \in Callers, NEW c \in Known, StartMigrate(r, by, c)
         PROVE  Informed(r)'
    <2>1. pc'[r] = "migrate" /\ req'[r].object = c
      BY <1>4, <1>10 DEF StartMigrate, Begin, NoRequest
    <2> QED BY <1>3, <1>6, <2>1 DEF Informed
  <1>11. ASSUME NEW by \in Callers, NEW c \in Known, NEW volumes \in {"yes", "no"},
                StartDelete(r, by, c, volumes)
         PROVE  Informed(r)'
    <2>1. PICK n \in 1 .. Len(clusters[c]) : n = Found(clusters[c], shown[c], by)
      BY <1>7, <1>11 DEF StartDelete
    <2>2. pc'[r] = "finalize" /\ req'[r].object = c /\ req'[r].position = n
      BY <1>4, <1>11, <2>1 DEF StartDelete, Begin, NoRequest
    <2> QED BY <1>3, <1>6, <2>2 DEF Informed
  <1> QED BY <1>8, <1>9, <1>10, <1>11 DEF Start

\* A request about a cluster that goes on.
LEMMA ContinuationsInformed ==
    ASSUME StepInv, ClustersAssumption, KeysNext, NEW r \in Requests, Continue(r)
    PROVE  Informed(r)'
  <1>1. pc \in [Requests -> Steps] /\ req \in [Requests -> RequestData] BY DEF StepInv, TypeOK
  <1>2. Informed(r) BY DEF StepInv, RequestsInformed
  <1>3. CASE CreateCluster(r)
    <2>1. pc'[r] = "appear" /\ req'[r].object = Len(clusters) + 1
      <3>1. req[r] \in RequestData BY <1>1
      <3> QED BY <1>1, <1>3, <3>1 DEF CreateCluster, RequestData
    <2>2. Len(clusters') = Len(clusters) + 1 /\ Len(clusters) \in Nat
      BY <1>3 DEF CreateCluster, StepInv, TypeOK
    <2>3. req'[r].object \in Known' BY <2>1, <2>2 DEF Known
    <2>4. pc[r] = "create" /\ ~ PutCredentials(r) BY <1>3 DEF CreateCluster, PutCredentials, Go
    <2>5. \A c \in Known' : writer'[c] # r BY <2>4, NotWriter
    <2> QED BY <2>1, <2>3, <2>5 DEF Informed
  <1>4. CASE SetUserEmail(r)
    <2>1. pc[r] = "appear" /\ pc'[r] = "ready" /\ req' = req BY <1>1, <1>4 DEF SetUserEmail, Go
    <2>2. req[r].object \in Known' BY <1>2, <2>1, ReadIsKept DEF Informed
    <2>3. \A c \in Known' : writer'[c] # r BY <2>1, NotWriter DEF PutCredentials, Go
    <2> QED BY <2>1, <2>2, <2>3 DEF Informed
  <1>5. CASE PutCredentials(r)
    <2>1. pc[r] = "credentials" /\ pc'[r] = "validate" /\ req' = req BY <1>1, <1>5 DEF PutCredentials, Go
    <2>2. clusters' = clusters /\ Known' = Known BY <1>5 DEF PutCredentials, Known
    <2>3. ASSUME NEW c \in Known', writer'[c] = r PROVE req[r].object = c
      <3>1. writer[c] # r BY <1>2, <2>1, <2>2, <2>3 DEF Informed
      <3>2. writer' = [writer EXCEPT ![req[r].object] = r] BY <1>5 DEF PutCredentials
      <3>3. c \in DOMAIN writer BY <2>2, <2>3 DEF StepInv, TypeOK, PerCluster, Known
      <3> QED BY <2>3, <3>1, <3>2, <3>3
    <2> QED BY <1>2, <2>1, <2>2, <2>3 DEF Informed
  <1>6. CASE HandleEncryption(r)
    <2> DEFINE q == req[r]
    <2>1. pc[r] = "validate" /\ pc'[r] = "update" /\ req'[r] = q BY <1>1, <1>6 DEF HandleEncryption, Go
    <2>2. clusters' = clusters /\ writer' = writer /\ Known' = Known
      BY <1>6 DEF HandleEncryption, Known, ghosts
    <2>3. q.object \in Known /\ q.position \in 1 .. Len(clusters[q.object]) BY <1>2, <2>1 DEF Informed
    <2>4. Enables(q) => encKey'[q.object] # "none"
      <3>1. encKey \in Seq(Keys \cup {"none"}) /\ q.object \in 1 .. Len(encKey)
        BY <2>3 DEF StepInv, TypeOK, PerCluster, Known
      <3>2. Enables(q) => q.patch.key # "none" BY <1>6 DEF HandleEncryption
      <3>3. encKey' = IF Enables(q) /\ encKey[q.object] = "none"
                      THEN [encKey EXCEPT ![q.object] = q.patch.key] ELSE encKey
        BY <1>6 DEF HandleEncryption
      <3> HIDE DEF q
      <3> QED BY <3>1, <3>2, <3>3
    <2>5. \A c \in Known : writer[c] = r => q.object = c /\ q.patch.credentials # "keep"
      BY <1>2 DEF Informed
    <2> HIDE DEF q
    <2> QED BY <2>1, <2>2, <2>3, <2>4, <2>5 DEF Informed, Enables, Old
  <1>7. CASE AddFinalizers(r)
    <2>1. pc[r] = "finalize" /\ pc'[r] = "delete" /\ req' = req BY <1>1, <1>7 DEF AddFinalizers, Go
    <2>2. req[r].object \in Known' BY <1>2, <2>1, ReadIsKept DEF Informed
    <2>3. \A c \in Known' : writer'[c] # r BY <2>1, NotWriter DEF PutCredentials, Go
    <2> QED BY <2>1, <2>2, <2>3 DEF Informed
  <1>8. ASSUME WaitForCluster(r) \/ Migrate(r) \/ Delete(r) PROVE Informed(r)'
    <2>1. pc[r] \in {"ready", "migrate", "delete"} /\ pc'[r] = "answered"
      BY <1>1, <1>8 DEF WaitForCluster, Migrate, Delete, Answer
    <2>2. \A c \in Known' : writer'[c] # r BY <2>1, NotWriter DEF PutCredentials, Go
    <2> QED BY <2>1, <2>2, AnsweredIsInformed
  <1>9. ASSUME UpdateCluster(r) \/ Fail(r) PROVE Informed(r)'
    <2>1. pc'[r] = "answered" BY <1>1, <1>9 DEF UpdateCluster, Fail, Answer
    <2>2. ~ PutCredentials(r) BY <1>1, <2>1 DEF PutCredentials, Go
    <2>3. \A c \in Known' : writer'[c] # r BY <1>9, <2>2, NotWriter
    <2> QED BY <2>1, <2>3, AnsweredIsInformed
  <1> QED BY <1>3, <1>4, <1>5, <1>6, <1>7, <1>8, <1>9 DEF Continue

\* A request about a key.
LEMMA KeyStepsInformed ==
    ASSUME StepInv, ClustersAssumption, KeysNext, NEW r \in Requests, KeyStep(r)
    PROVE  Informed(r)'
  <1>1. pc \in [Requests -> Steps] /\ req \in [Requests -> RequestData] BY DEF StepInv, TypeOK
  <1>2. clusters' = clusters /\ Known' = Known BY KeyStepsLeave DEF objects, Known
  <1>3. pc[r] \in {"idle", "createKey", "assign", "detach"}
    BY ZenonT(60) DEF KeyStep, StartKey, StartAssign, StartDetach, AssignNothing, Read, BeginKey, Begin,
           DeleteUserSSHKey, CreateUserSSHKey, UpdateClusterSSHKey, FailKey, AnswerKey, Answer
  <1>4. \A c \in Known' : writer'[c] # r BY <1>3, NotWriter DEF PutCredentials, Go
  <1>5. ASSUME NEW by \in Callers, NEW n \in KeyNames, StartKey(r, by, n) PROVE pc'[r] = "createKey"
    BY <1>1, <1>5 DEF StartKey, BeginKey, Begin
  <1>6. ASSUME NEW by \in Callers, NEW c \in Known, NEW k \in KnownKeys,
               StartAssign(r, by, c, k) \/ StartDetach(r, by, c, k)
        PROVE  pc'[r] \in {"assign", "detach"} /\ req'[r].object \in Known'
    BY <1>1, <1>2, <1>6 DEF StartAssign, StartDetach, Read, BeginKey, Begin, NoRequest
  <1>7. ASSUME NEW by \in Callers, NEW c \in Known, NEW k \in KnownKeys, AssignNothing(r, by, c, k)
        PROVE  pc'[r] = "answered"
    BY <1>1, <1>7 DEF AssignNothing
  <1>8. ASSUME NEW k \in KnownKeys, DeleteUserSSHKey(r, k) PROVE pc'[r] = "answered"
    BY <1>1, <1>8 DEF DeleteUserSSHKey
  <1>9. ASSUME CreateUserSSHKey(r) \/ UpdateClusterSSHKey(r) \/ FailKey(r) PROVE pc'[r] = "answered"
    BY <1>1, <1>9 DEF CreateUserSSHKey, UpdateClusterSSHKey, FailKey, AnswerKey, Answer
  <1>10. \/ pc'[r] \in {"createKey", "answered"}
         \/ pc'[r] \in {"assign", "detach"} /\ req'[r].object \in Known'
    BY <1>5, <1>6, <1>7, <1>8, <1>9 DEF KeyStep
  <1> QED BY <1>4, <1>10 DEF Informed

\* Every request remains informed, whoever moves.
LEMMA InformedStep ==
    ASSUME StepInv, ClustersAssumption, KeysNext
    PROVE  RequestsInformed'
  <1> SUFFICES ASSUME NEW s \in Requests PROVE Informed(s)' BY DEF RequestsInformed
  <1>1. CASE Start(s) \/ Continue(s) \/ KeyStep(s)
    BY <1>1, StartsInformed, ContinuationsInformed, KeyStepsInformed
  <1>2. CASE ~ (Start(s) \/ Continue(s) \/ KeyStep(s))
    <2>1. pc'[s] = pc[s] /\ req'[s] = req[s]
      <3>1. ASSUME NEW r \in Requests, Start(r) \/ Continue(r) \/ KeyStep(r)
            PROVE  pc'[s] = pc[s] /\ req'[s] = req[s]
        <4>1. r # s BY <1>2, <3>1
        <4>2. RequestStep(r) BY <3>1, StartsMove, ContinuationsMove, KeyStepsMove
        <4> QED BY <4>1, <4>2 DEF RequestStep, StepInv, TypeOK
      <3>2. ASSUME NEW c \in Known, ComeUp(c) \/ Vanish(c) \/ Sync(c) PROVE UNCHANGED <<pc, req>>
        BY <3>2 DEF ComeUp, Vanish, Sync
      <3>3. ASSUME NEW k \in KnownKeys, SyncKey(k) PROVE UNCHANGED <<pc, req>>
        BY <3>3 DEF SyncKey, vars
      <3> QED BY <3>1, <3>2, <3>3 DEF KeysNext, Next
    <2>2. ~ PutCredentials(s) BY <1>2 DEF Continue
    <2>3. \A c \in Known' : writer'[c] = s => c \in Known /\ writer[c] = s BY <2>2, WriterStep
    <2> QED BY <2>1, <2>3, InformedStays
  <1> QED BY <1>1, <1>2

\* Clusters that were created apart have been apart.
LEMMA ApartStep ==
    ASSUME StepInv, CreatedApart, ClustersAssumption, KeysNext
    PROVE  CreatedApart'
  <1> SUFFICES ASSUME NEW y \in Known', NEW x \in origin'[y].seen
               PROVE  /\ x \in Known'
                      /\ origin'[y].padded = "no" =>
                           \E i \in 1 .. Len(clusters'[x]) : clusters'[x][i].name # clusters'[y][1].name
    BY DEF CreatedApart, NamedOtherwise
  <1>1. CASE y \in Known
    <2>1. origin'[y] = origin[y]
      <3>1. origin \in Seq([padded : YesNo, seen : SUBSET Nat]) /\ y \in 1 .. Len(origin)
        BY <1>1 DEF StepInv, TypeOK, PerCluster, Known
      <3>2. ASSUME NEW r \in Requests, CreateCluster(r) PROVE origin'[y] = origin[y]
        <4>1. req[r] \in RequestData BY DEF StepInv, TypeOK
        <4>2. PICK o \in [padded : YesNo, seen : SUBSET Nat] : origin' = Append(origin, o)
          BY <3>2, <4>1 DEF CreateCluster, RequestData
        <4> QED BY <3>1, <4>2, AppendFacts
      <3> QED BY <3>2, ObjectsStepThm DEF ObjectsStep
    <2>2. clusters'[y][1] = clusters[y][1]
      <3>1. 1 \in 1 .. Len(clusters[y]) BY <1>1, LatestFacts DEF StepInv
      <3> QED BY <1>1, <3>1, ReadIsKept
    <2>3. x \in Known /\ (origin[y].padded = "no" => NamedOtherwise(x, clusters[y][1].name))
      BY <1>1, <2>1 DEF CreatedApart
    <2> QED BY <2>1, <2>2, <2>3, ReadIsKept
  <1>2. CASE y \notin Known
    <2>1. PICK r \in Requests : CreateCluster(r) BY <1>2, NewIsCreated
    <2>2. /\ clusters'[y][1] = CreatedCluster(req[r])
          /\ origin'[y] = [padded |-> req[r].padded, seen |-> req[r].seen]
      BY <1>2, <2>1, NewClusterFacts
    <2>3. clusters'[y][1].name = req[r].patch.name BY <2>2 DEF CreatedCluster, NewCluster
    <2>4. x \in req[r].seen BY <2>2
    <2>5. pc[r] = "create" BY <2>1 DEF CreateCluster
    <2>6. x \in Known /\ (req[r].padded = "no" => NamedOtherwise(x, req[r].patch.name))
      BY <2>4, <2>5 DEF StepInv, RequestsInformed, Informed
    <2> QED BY <2>2, <2>3, <2>6, ReadIsKept
  <1> QED BY <1>1, <1>2

-----------------------------------------------------------------------------
(* Keys.                                                                   *)

\* What a step does to the keys there are.
NextKey(k, new) ==
    /\ new.name = Latest(sshKeys[k]).name /\ new.clusters \subseteq Known
    /\ sshKeys' = Grow(sshKeys, k, new)
PutKey(s) == \E k \in KnownKeys, v \in SUBSET Nat : s' = [s EXCEPT ![k] = v]
KeyObjectsStep ==
    /\ UNCHANGED sshKeys \/ \E k \in KnownKeys, new \in KeyVersions : NextKey(k, new)
    /\ \/ UNCHANGED keyShown
       \/ \E k \in KnownKeys :
            keyShown[k] < Len(sshKeys[k]) /\ keyShown' = [keyShown EXCEPT ![k] = keyShown[k] + 1]
    /\ UNCHANGED sshKeys \/ UNCHANGED keyShown
    /\ UNCHANGED keyOrigin
    /\ UNCHANGED assigned \/ PutKey(assigned)
    /\ UNCHANGED misread \/ PutKey(misread)

\* A key has a latest version.
LEMMA LatestKeyFacts ==
    ASSUME KeysTypeOK, NEW k \in KnownKeys
    PROVE  /\ Len(sshKeys[k]) \in Nat \ {0} /\ Latest(sshKeys[k]) \in KeyVersions
           /\ sshKeys[k] \in Seq(KeyVersions) /\ Latest(sshKeys[k]).clusters \subseteq Known
           /\ \A i \in 1 .. Len(sshKeys[k]) : sshKeys[k][i] \in KeyVersions
  <1>1. sshKeys[k] \in Seq(KeyVersions) /\ Len(sshKeys[k]) > 0 BY DEF KeysTypeOK, KnownKeys
  <1>2. Len(sshKeys[k]) \in 1 .. Len(sshKeys[k]) BY <1>1
  <1>3. Latest(sshKeys[k]).clusters \subseteq Known BY <1>2 DEF KeysTypeOK, Latest
  <1> QED BY <1>1, <1>3 DEF Latest

\* The elements of the sequences that go with the keys.
LEMMA KeyElements ==
    ASSUME KeysTypeOK, NEW k \in KnownKeys
    PROVE  /\ assigned[k] \in SUBSET Nat /\ misread[k] \in SUBSET Nat /\ keyShown[k] \in Nat
           /\ Known \subseteq Nat /\ KnownKeys \subseteq Nat
  <1>1. assigned[k] \in SUBSET Nat /\ misread[k] \in SUBSET Nat /\ keyShown[k] \in Nat
    BY DEF KeysTypeOK, PerKey, KnownKeys
  <1> QED BY <1>1 DEF Known, KnownKeys

\* The last version of a key has its name and its clusters.
LEMMA DeleteKeyStep ==
    ASSUME KeysTypeOK, NEW r \in Requests, NEW k \in KnownKeys, DeleteUserSSHKey(r, k)
    PROVE  KeyObjectsStep
  <1> DEFINE old == Latest(sshKeys[k])
             new == [old EXCEPT !.state = "gone"]
  <1>1. old \in KeyVersions /\ old.clusters \subseteq Known BY LatestKeyFacts
  <1>2. new \in KeyVersions /\ new.name = old.name /\ new.clusters \subseteq Known
    BY <1>1 DEF KeyVersions
  <1>3. sshKeys' = Grow(sshKeys, k, new) BY DEF DeleteUserSSHKey, Grow
  <1>4. NextKey(k, new) BY <1>2, <1>3 DEF NextKey
  <1> HIDE DEF new
  <1> QED BY <1>2, <1>4 DEF KeyObjectsStep, DeleteUserSSHKey, keyGhosts

\* UpdateClusterSSHKey with its parameters.
KeyUpdate(r, step, k, c) ==
    LET old == sshKeys[k][key[r].position]
        new == [old EXCEPT !.clusters = WithCluster(step, c, @)]
    IN  /\ key[r].id = k /\ req[r].object = c
        /\ AnswerKey(r, step) /\ Unchanged(r)
        /\ sshKeys' = IF new = old THEN sshKeys
                      ELSE [sshKeys EXCEPT ![k] = Append(@, new)]
        /\ assigned' = [assigned EXCEPT ![k] = WithCluster(step, c, @)]
        /\ misread' = [misread EXCEPT ![k] = @ \ {c}]
        /\ UNCHANGED <<keyShown, keyOrigin>>

\* An assignment that is accepted follows the latest version of the key.
LEMMA UpdateKeyStep ==
    ASSUME KeysTypeOK, NEW r \in Requests, UpdateClusterSSHKey(r)
    PROVE  KeyObjectsStep
  <1>1. PICK step \in {"assign", "detach"}, k \in KnownKeys, c \in Known : KeyUpdate(r, step, k, c)
    BY DEF UpdateClusterSSHKey, KeyUpdate
  <1> DEFINE old == Latest(sshKeys[k])
             cs == WithCluster(step, c, old.clusters)
             new == [old EXCEPT !.clusters = cs]
  <1>2. old \in KeyVersions /\ old.clusters \subseteq Known BY LatestKeyFacts
  <1>3. sshKeys[k][key[r].position] = old BY <1>1 DEF KeyUpdate, Unchanged, Latest
  <1>4. cs \subseteq Known /\ cs \in SUBSET Nat BY <1>2 DEF WithCluster, Known
  <1>5. new \in KeyVersions /\ new.name = old.name /\ new.clusters \subseteq Known
    <2> HIDE DEF cs, old
    <2> QED BY <1>2, <1>4 DEF KeyVersions
  <1>6. new = [old EXCEPT !.clusters = WithCluster(step, c, @)] BY <1>2 DEF KeyVersions
  <1>7. UNCHANGED sshKeys \/ sshKeys' = Grow(sshKeys, k, new) BY <1>1, <1>3, <1>6 DEF KeyUpdate, Grow
  <1>8. UNCHANGED sshKeys \/ NextKey(k, new) BY <1>5, <1>7 DEF NextKey
  <1>9. PutKey(assigned)
    <2>1. WithCluster(step, c, assigned[k]) \in SUBSET Nat
      BY KeyElements DEF WithCluster
    <2> QED BY <1>1, <2>1 DEF KeyUpdate, PutKey
  <1>10. PutKey(misread)
    <2>1. misread[k] \ {c} \in SUBSET Nat BY KeyElements
    <2> QED BY <1>1, <2>1 DEF KeyUpdate, PutKey
  <1> HIDE DEF new
  <1> QED BY <1>1, <1>5, <1>8, <1>9, <1>10 DEF KeyUpdate, KeyObjectsStep

\* An assignment that is found to be there is only recorded.
LEMMA AssignNothingStep ==
    ASSUME KeysTypeOK, NEW r \in Requests, NEW by \in Callers, NEW c \in Known, NEW k \in KnownKeys,
           AssignNothing(r, by, c, k)
    PROVE  KeyObjectsStep
  <1>1. assigned[k] \cup {c} \in SUBSET Nat /\ misread[k] \cup {c} \in SUBSET Nat BY KeyElements
  <1>2. PutKey(assigned) BY <1>1 DEF AssignNothing, PutKey
  <1>3. UNCHANGED misread \/ PutKey(misread) BY <1>1 DEF AssignNothing, PutKey
  <1> QED BY <1>2, <1>3 DEF AssignNothing, KeyObjectsStep, keyObjects

\* A step either creates a key or changes the keys there are.
LEMMA KeyObjectsStepThm ==
    ASSUME KeysTypeOK, KeysNext
    PROVE  (\E r \in Requests : CreateUserSSHKey(r)) \/ KeyObjectsStep
  <1>1. SUFFICES ASSUME ~ \E r \in Requests : CreateUserSSHKey(r) PROVE KeyObjectsStep OBVIOUS
  <1>2. ASSUME UNCHANGED <<keyObjects, keyGhosts>> PROVE KeyObjectsStep
    BY <1>2 DEF keyObjects, keyGhosts, KeyObjectsStep
  <1>3. ASSUME NEW r \in Requests, FailKey(r) PROVE KeyObjectsStep BY <1>2, <1>3 DEF FailKey
  <1>4. ASSUME NEW r \in Requests, NEW by \in Callers, NEW n \in KeyNames, StartKey(r, by, n)
        PROVE  KeyObjectsStep
    BY <1>2, <1>4 DEF StartKey, BeginKey
  <1>5. ASSUME NEW r \in Requests, NEW by \in Callers, NEW c \in Known, NEW k \in KnownKeys,
               StartAssign(r, by, c, k) \/ StartDetach(r, by, c, k)
        PROVE  KeyObjectsStep
    BY <1>2, <1>5 DEF StartAssign, StartDetach, Read, BeginKey
  <1>6. ASSUME NEW k \in KnownKeys, SyncKey(k) PROVE KeyObjectsStep
    BY <1>6 DEF SyncKey, KeyObjectsStep, keyGhosts
  <1>7. ASSUME Next, UNCHANGED keyVars PROVE KeyObjectsStep BY <1>2, <1>7 DEF keyVars
  <1>8. ASSUME NEW r \in Requests, KeyStep(r) PROVE KeyObjectsStep
    BY <1>1, <1>3, <1>4, <1>5, <1>8, DeleteKeyStep, UpdateKeyStep, AssignNothingStep DEF KeyStep
  <1> QED BY <1>6, <1>7, <1>8 DEF KeysNext

\* What a request keeps about a key has its type.
LEMMA KeyDataStep ==
    ASSUME KeysTypeOK, KeysNext
    PROVE  key' \in [Requests -> KeyData]
  <1>1. key \in [Requests -> KeyData] BY DEF KeysTypeOK
  <1>2. NoKey \in KeyData BY DEF NoKey, KeyData
  <1>3. KnownKeys \subseteq Nat BY DEF KnownKeys
  <1>4. ASSUME NEW r \in Requests, NEW by \in Callers, NEW n \in KeyNames, StartKey(r, by, n)
        PROVE  key' \in [Requests -> KeyData]
    <2>1. ListKeys \in SUBSET Nat BY <1>3 DEF ListKeys
    <2>2. [NoKey EXCEPT !.name = n, !.seen = ListKeys] \in KeyData BY <1>2, <2>1 DEF KeyData
    <2> QED BY <1>1, <1>4, <2>2 DEF StartKey, BeginKey
  <1>5. ASSUME NEW r \in Requests, NEW by \in Callers, NEW c \in Known, NEW k \in KnownKeys,
               StartAssign(r, by, c, k) \/ StartDetach(r, by, c, k)
        PROVE  key' \in [Requests -> KeyData]
    <2>1. PICK n \in Nat : n = Found(sshKeys[k], keyShown[k], by)
      BY LatestKeyFacts, KeyElements DEF Found
    <2>2. [NoKey EXCEPT !.id = k, !.position = n] \in KeyData BY <1>2, <1>3 DEF KeyData
    <2>3. key' = [key EXCEPT ![r] = [NoKey EXCEPT !.id = k, !.position = n]]
      BY <1>5, <2>1 DEF StartAssign, StartDetach, Read, BeginKey
    <2> QED BY <1>1, <2>2, <2>3
  <1>6. ASSUME NEW r \in Requests, CreateUserSSHKey(r) \/ UpdateClusterSSHKey(r) \/ FailKey(r)
        PROVE  key' \in [Requests -> KeyData]
    <2>1. key' = [key EXCEPT ![r] = NoKey]
      BY <1>6 DEF CreateUserSSHKey, UpdateClusterSSHKey, FailKey, AnswerKey
    <2> QED BY <1>1, <1>2, <2>1
  <1>7. ASSUME NEW r \in Requests, NEW by \in Callers, NEW c \in Known, NEW k \in KnownKeys,
               AssignNothing(r, by, c, k)
        PROVE  key' = key
    BY <1>7 DEF AssignNothing
  <1>8. ASSUME NEW r \in Requests, NEW k \in KnownKeys, DeleteUserSSHKey(r, k) PROVE key' = key
    BY <1>8 DEF DeleteUserSSHKey
  <1>9. ASSUME NEW k \in KnownKeys, SyncKey(k) PROVE key' = key BY <1>9 DEF SyncKey
  <1>10. ASSUME UNCHANGED keyVars PROVE key' = key BY <1>10 DEF keyVars
  <1>11. ASSUME NEW r \in Requests, KeyStep(r) PROVE key' \in [Requests -> KeyData]
    BY <1>1, <1>4, <1>5, <1>6, <1>7, <1>8, <1>11 DEF KeyStep
  <1> QED BY <1>1, <1>9, <1>10, <1>11 DEF KeysNext

\* What the creation of a key adds.
LEMMA CreateKeyFacts ==
    ASSUME KeysTypeOK, KeysCreatedApart, NEW r \in Requests, CreateUserSSHKey(r)
    PROVE  LET n == Len(sshKeys)
           IN  /\ sshKeys' \in Seq(Seq(KeyVersions)) /\ Len(sshKeys') = n + 1 /\ n \in Nat
               /\ \A k \in KnownKeys : /\ sshKeys'[k] = sshKeys[k] /\ keyShown'[k] = keyShown[k]
                                       /\ keyOrigin'[k] = keyOrigin[k]
                                       /\ assigned'[k] = assigned[k] /\ misread'[k] = misread[k]
               /\ sshKeys'[n + 1] = <<NewKey(key[r].name)>> /\ keyShown'[n + 1] = 0
               /\ keyOrigin'[n + 1] = key[r].seen /\ assigned'[n + 1] = {} /\ misread'[n + 1] = {}
               /\ PerKey(keyShown, Nat)' /\ PerKey(keyOrigin, SUBSET Nat)'
               /\ PerKey(assigned, SUBSET Nat)' /\ PerKey(misread, SUBSET Nat)'
               /\ NewKey(key[r].name) \in KeyVersions /\ KnownKeys' = KnownKeys \cup {n + 1}
  <1> DEFINE n == Len(sshKeys)
  <1>1. sshKeys \in Seq(Seq(KeyVersions)) /\ n \in Nat BY DEF KeysTypeOK
  <1>2. pc[r] = "createKey" BY DEF CreateUserSSHKey, AnswerKey, Answer
  <1>3. key[r].name \in KeyNames BY <1>2 DEF KeysCreatedApart
  <1>4. NewKey(key[r].name) \in KeyVersions BY <1>3 DEF NewKey, KeyVersions
  <1>5. PICK t \in Seq(KeyVersions) : t = <<NewKey(key[r].name)>> BY <1>4, SingletonFacts
  <1>6. sshKeys' = Append(sshKeys, t) BY <1>5 DEF CreateUserSSHKey
  <1>7. /\ sshKeys' \in Seq(Seq(KeyVersions)) /\ Len(sshKeys') = n + 1
        /\ \A k \in 1 .. n : sshKeys'[k] = sshKeys[k]
        /\ sshKeys'[n + 1] = t
    BY <1>1, <1>5, <1>6, AppendFacts
  <1>8. KnownKeys' = KnownKeys \cup {n + 1} BY <1>1, <1>7 DEF KnownKeys
  <1>9. key[r].seen \in SUBSET Nat BY DEF KeysTypeOK, KeyData
  <1>10. /\ keyShown \in Seq(Nat) /\ keyOrigin \in Seq(SUBSET Nat)
         /\ assigned \in Seq(SUBSET Nat) /\ misread \in Seq(SUBSET Nat)
         /\ Len(keyShown) = n /\ Len(keyOrigin) = n /\ Len(assigned) = n /\ Len(misread) = n
    BY DEF KeysTypeOK, PerKey
  <1>11. /\ PerKey(keyShown, Nat)' /\ keyShown'[n + 1] = 0
         /\ \A k \in 1 .. n : keyShown'[k] = keyShown[k]
    BY <1>7, <1>10, AppendFacts DEF CreateUserSSHKey, PerKey
  <1>12. /\ PerKey(keyOrigin, SUBSET Nat)' /\ keyOrigin'[n + 1] = key[r].seen
         /\ \A k \in 1 .. n : keyOrigin'[k] = keyOrigin[k]
    BY <1>7, <1>9, <1>10, AppendFacts DEF CreateUserSSHKey, PerKey
  <1>13. /\ PerKey(assigned, SUBSET Nat)' /\ assigned'[n + 1] = {}
         /\ \A k \in 1 .. n : assigned'[k] = assigned[k]
    BY <1>7, <1>10, AppendFacts DEF CreateUserSSHKey, PerKey
  <1>14. /\ PerKey(misread, SUBSET Nat)' /\ misread'[n + 1] = {}
         /\ \A k \in 1 .. n : misread'[k] = misread[k]
    BY <1>7, <1>10, AppendFacts DEF CreateUserSSHKey, PerKey
  <1>15. KnownKeys = 1 .. n BY DEF KnownKeys
  <1> HIDE DEF n
  <1>16. /\ sshKeys' \in Seq(Seq(KeyVersions)) /\ Len(sshKeys') = n + 1 /\ n \in Nat
         /\ sshKeys'[n + 1] = <<NewKey(key[r].name)>> /\ keyShown'[n + 1] = 0
         /\ keyOrigin'[n + 1] = key[r].seen /\ assigned'[n + 1] = {} /\ misread'[n + 1] = {}
    BY <1>1, <1>5, <1>7, <1>11, <1>12, <1>13, <1>14
  <1>17. \A k \in KnownKeys : /\ sshKeys'[k] = sshKeys[k] /\ keyShown'[k] = keyShown[k]
                              /\ keyOrigin'[k] = keyOrigin[k]
                              /\ assigned'[k] = assigned[k] /\ misread'[k] = misread[k]
    BY <1>7, <1>11, <1>12, <1>13, <1>14, <1>15
  <1> QED BY <1>4, <1>8, <1>11, <1>12, <1>13, <1>14, <1>16, <1>17 DEF n

\* What a step does to one key: nothing, or a version with the same name.
KeyGrows(k, new) ==
    /\ Len(sshKeys'[k]) = Len(sshKeys[k]) + 1
    /\ sshKeys'[k][Len(sshKeys[k]) + 1] = new
    /\ \A i \in 1 .. Len(sshKeys[k]) : sshKeys'[k][i] = sshKeys[k][i]
    /\ \A j \in KnownKeys : j # k => sshKeys'[j] = sshKeys[j]
\* NextKey adds one version to one key and leaves the others alone.
LEMMA KeyGrowth ==
    ASSUME KeysTypeOK, NEW k \in KnownKeys, NEW new \in KeyVersions, NextKey(k, new)
    PROVE  /\ KeyGrows(k, new) /\ Len(sshKeys') = Len(sshKeys)
           /\ sshKeys' \in Seq(Seq(KeyVersions))
  <1>1. sshKeys \in Seq(Seq(KeyVersions)) /\ k \in 1 .. Len(sshKeys) BY DEF KeysTypeOK, KnownKeys
  <1> DEFINE g == Grow(sshKeys, k, new)
  <1>2. /\ g \in Seq(Seq(KeyVersions)) /\ Len(g) = Len(sshKeys)
        /\ Len(g[k]) = Len(sshKeys[k]) + 1 /\ g[k][Len(sshKeys[k]) + 1] = new
        /\ \A i \in 1 .. Len(sshKeys[k]) : g[k][i] = sshKeys[k][i]
        /\ \A d \in 1 .. Len(sshKeys) : d # k => g[d] = sshKeys[d]
    BY <1>1, GrowFacts
  <1>3. sshKeys' = g BY DEF NextKey
  <1> HIDE DEF g
  <1> QED BY <1>2, <1>3 DEF KeyGrows, KnownKeys

\* The induction hypothesis.
Hypothesis ==
    /\ KeysTypeOK /\ RequestsInformed /\ EncryptedHasKey /\ KeysCreatedApart
    /\ AnswersHold

\* The versions of keys are typed, and for clusters that exist.
LEMMA KeyTypesStep ==
    ASSUME Hypothesis, ClustersAssumption, KeysNext
    PROVE  KeysTypeOK'
  <1> DEFINE Right(k) == /\ Len(sshKeys'[k]) > 0 /\ keyShown'[k] <= Len(sshKeys'[k])
                         /\ \A i \in 1 .. Len(sshKeys'[k]) : sshKeys'[k][i].clusters \subseteq Known'
  <1>1. StepInv /\ KeysTypeOK BY DEF Hypothesis, StepInv, KeysTypeOK
  <1>2. TypeOK' BY <1>1, ObjectsStepThm, ObjectTypes, CreateTypes
  <1>3. key' \in [Requests -> KeyData] BY <1>1, KeyDataStep
  <1>4. Known \subseteq Known' BY <1>1, LatestFollows
  <1>5. \A k \in KnownKeys :
          /\ Len(sshKeys[k]) \in Nat \ {0} /\ keyShown[k] \in Nat /\ keyShown[k] <= Len(sshKeys[k])
          /\ \A i \in 1 .. Len(sshKeys[k]) : sshKeys[k][i].clusters \subseteq Known'
    BY <1>1, <1>4, LatestKeyFacts, KeyElements DEF KeysTypeOK
  <1>6. ASSUME NEW r \in Requests, CreateUserSSHKey(r) PROVE KeysTypeOK'
    <2> DEFINE n == Len(sshKeys)
    <2>1. /\ sshKeys' \in Seq(Seq(KeyVersions)) /\ KnownKeys' = KnownKeys \cup {n + 1}
          /\ \A k \in KnownKeys : sshKeys'[k] = sshKeys[k] /\ keyShown'[k] = keyShown[k]
          /\ PerKey(keyShown, Nat)' /\ PerKey(keyOrigin, SUBSET Nat)'
          /\ PerKey(assigned, SUBSET Nat)' /\ PerKey(misread, SUBSET Nat)'
      BY <1>1, <1>6, CreateKeyFacts DEF Hypothesis
    <2>2. /\ sshKeys'[n + 1] = <<NewKey(key[r].name)>> /\ keyShown'[n + 1] = 0
          /\ NewKey(key[r].name) \in KeyVersions
      BY <1>1, <1>6, CreateKeyFacts DEF Hypothesis
    <2>3. /\ Len(sshKeys'[n + 1]) = 1 /\ sshKeys'[n + 1][1] = NewKey(key[r].name)
          /\ keyShown'[n + 1] = 0
      BY <2>2, SingletonFacts
    <2> HIDE DEF n
    <2>4. Right(n + 1) BY <2>3 DEF NewKey
    <2>5. \A k \in KnownKeys : Right(k) BY <1>5, <2>1
    <2>6. \A k \in KnownKeys' : Right(k) BY <2>1, <2>4, <2>5
    <2> QED BY <1>2, <1>3, <2>1, <2>6 DEF KeysTypeOK
  <1>7. CASE KeyObjectsStep
    <2>1. Len(sshKeys') = Len(sshKeys) /\ sshKeys' \in Seq(Seq(KeyVersions))
      BY <1>1, <1>7, KeyGrowth DEF KeyObjectsStep, KeysTypeOK
    <2>2. KnownKeys' = KnownKeys BY <2>1 DEF KnownKeys
    <2>3. ASSUME NEW S, NEW s \in Seq(S), Len(s) = Len(sshKeys), NEW k \in KnownKeys, NEW v \in S
          PROVE  [s EXCEPT ![k] = v] \in Seq(S) /\ Len([s EXCEPT ![k] = v]) = Len(sshKeys)
      BY <2>3, ExceptFacts DEF KnownKeys
    <2>4. PerKey(keyShown, Nat)'
      <3>1. keyShown \in Seq(Nat) /\ Len(keyShown) = Len(sshKeys) BY <1>1 DEF KeysTypeOK, PerKey
      <3>2. ASSUME NEW k \in KnownKeys PROVE keyShown[k] + 1 \in Nat BY <1>5
      <3>3. ASSUME NEW k \in KnownKeys, keyShown' = [keyShown EXCEPT ![k] = keyShown[k] + 1]
            PROVE  PerKey(keyShown, Nat)'
        BY <2>1, <2>3, <3>1, <3>2, <3>3 DEF PerKey
      <3> QED BY <1>7, <2>1, <3>1, <3>3 DEF KeyObjectsStep, PerKey
    <2>5. PerKey(keyOrigin, SUBSET Nat)' BY <1>1, <1>7, <2>1 DEF KeyObjectsStep, KeysTypeOK, PerKey
    <2>6. PerKey(assigned, SUBSET Nat)'
      <3>1. assigned \in Seq(SUBSET Nat) /\ Len(assigned) = Len(sshKeys) BY <1>1 DEF KeysTypeOK, PerKey
      <3>2. CASE UNCHANGED assigned BY <2>1, <3>1, <3>2 DEF PerKey
      <3>3. CASE PutKey(assigned) BY <2>1, <2>3, <3>1, <3>3 DEF PerKey, PutKey
      <3> QED BY <1>7, <3>2, <3>3 DEF KeyObjectsStep
    <2>7. PerKey(misread, SUBSET Nat)'
      <3>1. misread \in Seq(SUBSET Nat) /\ Len(misread) = Len(sshKeys) BY <1>1 DEF KeysTypeOK, PerKey
      <3>2. CASE UNCHANGED misread BY <2>1, <3>1, <3>2 DEF PerKey
      <3>3. CASE PutKey(misread) BY <2>1, <2>3, <3>1, <3>3 DEF PerKey, PutKey
      <3> QED BY <1>7, <3>2, <3>3 DEF KeyObjectsStep
    <2>8. ASSUME NEW k \in KnownKeys PROVE keyShown'[k] <= Len(sshKeys[k])
      <3>1. keyShown \in Seq(Nat) /\ k \in 1 .. Len(keyShown) BY <1>1 DEF KeysTypeOK, PerKey, KnownKeys
      <3>2. ASSUME NEW j \in KnownKeys, keyShown[j] < Len(sshKeys[j]),
                   keyShown' = [keyShown EXCEPT ![j] = keyShown[j] + 1]
            PROVE  keyShown'[k] <= Len(sshKeys[k])
        <4>1. CASE j = k BY <1>5, <3>1, <3>2, <4>1
        <4>2. CASE j # k BY <1>5, <3>1, <3>2, <4>2
        <4> QED BY <4>1, <4>2
      <3> QED BY <1>5, <1>7, <3>2 DEF KeyObjectsStep
    <2>9. ASSUME NEW k \in KnownKeys PROVE Right(k)
      <3>1. CASE UNCHANGED sshKeys BY <1>5, <2>8, <3>1
      <3>2. ASSUME NEW j \in KnownKeys, NEW new \in KeyVersions, NextKey(j, new) PROVE Right(k)
        <4>1. KeyGrows(j, new) /\ new.clusters \subseteq Known'
          BY <1>1, <1>4, <3>2, KeyGrowth DEF NextKey
        <4>2. keyShown'[k] <= Len(sshKeys[k]) /\ Len(sshKeys[k]) \in Nat \ {0}
          BY <1>5, <2>8
        <4>3. keyShown'[k] \in Nat BY <2>2, <2>4 DEF PerKey, KnownKeys
        <4>4. CASE k = j
          <5>1. Len(sshKeys'[k]) = Len(sshKeys[k]) + 1 BY <4>1, <4>4 DEF KeyGrows
          <5>2. ASSUME NEW i \in 1 .. Len(sshKeys[k]) + 1 PROVE sshKeys'[k][i].clusters \subseteq Known'
            <6>1. CASE i = Len(sshKeys[k]) + 1 BY <4>1, <4>4, <6>1 DEF KeyGrows
            <6>2. CASE i \in 1 .. Len(sshKeys[k]) BY <1>5, <4>1, <4>4, <6>2 DEF KeyGrows
            <6> QED BY <4>2, <6>1, <6>2
          <5>3. Len(sshKeys'[k]) > 0 /\ keyShown'[k] <= Len(sshKeys'[k]) BY <4>2, <4>3, <5>1
          <5> QED BY <5>1, <5>2, <5>3
        <4>5. CASE k # j BY <1>5, <2>8, <4>1, <4>5 DEF KeyGrows
        <4> QED BY <4>4, <4>5
      <3> QED BY <1>7, <3>1, <3>2 DEF KeyObjectsStep
    <2> QED BY <1>2, <1>3, <2>1, <2>2, <2>4, <2>5, <2>6, <2>7, <2>9 DEF KeysTypeOK
  <1> QED BY <1>1, <1>6, <1>7, KeyObjectsStepThm

\* The first version of a key stays, and all have its name.
LEMMA NamesStay ==
    ASSUME Hypothesis, KeysNext, NEW k \in KnownKeys
    PROVE  /\ k \in KnownKeys' /\ sshKeys'[k][1] = sshKeys[k][1]
           /\ \A i \in 1 .. Len(sshKeys'[k]) : sshKeys'[k][i].name = sshKeys'[k][1].name
  <1>1. KeysTypeOK /\ KeysCreatedApart BY DEF Hypothesis
  <1>2. Len(sshKeys[k]) \in Nat \ {0} BY <1>1, LatestKeyFacts
  <1>3. \A i \in 1 .. Len(sshKeys[k]) : sshKeys[k][i].name = sshKeys[k][1].name
    BY <1>1 DEF KeysCreatedApart
  <1>4. ASSUME NEW r \in Requests, CreateUserSSHKey(r)
        PROVE  k \in KnownKeys' /\ sshKeys'[k] = sshKeys[k]
    BY <1>1, <1>4, CreateKeyFacts
  <1>5. ASSUME NEW j \in KnownKeys, NEW new \in KeyVersions, NextKey(j, new)
        PROVE  /\ k \in KnownKeys' /\ sshKeys'[k][1] = sshKeys[k][1]
               /\ \A i \in 1 .. Len(sshKeys'[k]) : sshKeys'[k][i].name = sshKeys'[k][1].name
    <2>1. KeyGrows(j, new) /\ Len(sshKeys') = Len(sshKeys) BY <1>1, <1>5, KeyGrowth
    <2>2. k \in KnownKeys' BY <2>1 DEF KnownKeys
    <2>3. CASE k # j BY <1>3, <2>1, <2>2, <2>3 DEF KeyGrows
    <2>4. CASE k = j
      <3>1. /\ Len(sshKeys'[k]) = Len(sshKeys[k]) + 1 /\ sshKeys'[k][Len(sshKeys[k]) + 1] = new
            /\ \A i \in 1 .. Len(sshKeys[k]) : sshKeys'[k][i] = sshKeys[k][i]
        BY <2>1, <2>4 DEF KeyGrows
      <3>2. new.name = sshKeys[k][1].name BY <1>2, <1>3, <1>5, <2>4 DEF NextKey, Latest
      <3>3. sshKeys'[k][1] = sshKeys[k][1] BY <1>2, <3>1
      <3>4. ASSUME NEW i \in 1 .. Len(sshKeys[k]) + 1 PROVE sshKeys'[k][i].name = sshKeys[k][1].name
        BY <1>2, <1>3, <3>1, <3>2
      <3> QED BY <2>2, <3>1, <3>3, <3>4
    <2> QED BY <2>3, <2>4
  <1>6. CASE UNCHANGED sshKeys BY <1>3, <1>6 DEF KnownKeys
  <1>7. CASE KeyObjectsStep BY <1>5, <1>6, <1>7 DEF KeyObjectsStep
  <1> QED BY <1>1, <1>3, <1>4, <1>7, KeyObjectsStepThm

\* Which requests are about to create a key.
LEMMA WhoCreatesKeys ==
    ASSUME Hypothesis, ClustersAssumption, KeysNext, NEW r \in Requests, pc'[r] = "createKey"
    PROVE  \/ pc[r] = "createKey" /\ key'[r] = key[r]
           \/ \E by \in Callers, n \in KeyNames : StartKey(r, by, n)
  <1>1. StepInv BY DEF Hypothesis, KeysTypeOK, StepInv
  <1>2. pc \in [Requests -> Steps] /\ key \in [Requests -> KeyData]
    BY DEF Hypothesis, KeysTypeOK, TypeOK
  <1>3. ASSUME Next, UNCHANGED keyVars PROVE pc[r] = "createKey" /\ key'[r] = key[r]
    <2>1. key' = key BY <1>3 DEF keyVars
    <2>2. ASSUME NEW s \in Requests, Start(s), s = r PROVE FALSE
      BY <1>2, <2>2 DEF Start, StartCreate, StartPatch, StartMigrate, StartDelete, Begin
    <2>3. ASSUME NEW s \in Requests, Continue(s), s = r PROVE FALSE
      BY <1>2, <2>3 DEF Continue, CreateCluster, SetUserEmail, WaitForCluster, PutCredentials,
             HandleEncryption, UpdateCluster, Migrate, AddFinalizers, Delete, Fail, Go, Answer
    <2>4. ASSUME NEW s \in Requests, Start(s) \/ Continue(s), s # r PROVE pc'[r] = pc[r]
      <3>1. RequestStep(s) BY <1>1, <2>4, StartsMove, ContinuationsMove
      <3> QED BY <1>2, <2>4, <3>1 DEF RequestStep
    <2>5. ASSUME NEW c \in Known, ComeUp(c) \/ Vanish(c) \/ Sync(c) PROVE pc'[r] = pc[r]
      BY <2>5 DEF ComeUp, Vanish, Sync
    <2> QED BY <1>3, <2>1, <2>2, <2>3, <2>4, <2>5 DEF Next
  <1>4. ASSUME NEW k \in KnownKeys, SyncKey(k) PROVE pc[r] = "createKey" /\ key'[r] = key[r]
    BY <1>4 DEF SyncKey, vars
  <1>5. ASSUME NEW s \in Requests, KeyStep(s), s # r PROVE pc[r] = "createKey" /\ key'[r] = key[r]
    <2>1. RequestStep(s) BY <1>1, <1>5, KeyStepsMove
    <2>2. pc'[r] = pc[r] BY <1>2, <1>5, <2>1 DEF RequestStep
    <2>3. key' = key \/ \E v : key' = [key EXCEPT ![s] = v]
      BY <1>5, ZenonT(60) DEF KeyStep, StartKey, StartAssign, StartDetach, AssignNothing, Read, BeginKey,
                  DeleteUserSSHKey, CreateUserSSHKey, UpdateClusterSSHKey, FailKey, AnswerKey
    <2> QED BY <1>2, <1>5, <2>2, <2>3
  <1>6. ASSUME KeyStep(r) PROVE \E by \in Callers, n \in KeyNames : StartKey(r, by, n)
    <2>1. ASSUME NEW by \in Callers, NEW c \in Known, NEW k \in KnownKeys,
                 StartAssign(r, by, c, k) \/ AssignNothing(r, by, c, k) \/ StartDetach(r, by, c, k)
          PROVE  FALSE
      BY <1>2, <2>1 DEF StartAssign, StartDetach, AssignNothing, Read, BeginKey, Begin
    <2>2. ASSUME NEW k \in KnownKeys, DeleteUserSSHKey(r, k) PROVE FALSE
      BY <1>2, <2>2 DEF DeleteUserSSHKey
    <2>3. ASSUME CreateUserSSHKey(r) \/ UpdateClusterSSHKey(r) \/ FailKey(r) PROVE FALSE
      BY <1>2, <2>3 DEF CreateUserSSHKey, UpdateClusterSSHKey, FailKey, AnswerKey, Answer
    <2> QED BY <1>6, <2>1, <2>2, <2>3 DEF KeyStep
  <1> QED BY <1>3, <1>4, <1>5, <1>6 DEF KeysNext

\* Keys are created apart from the ones looked at.
LEMMA KeysApartStep ==
    ASSUME Hypothesis, ClustersAssumption, KeysNext
    PROVE  KeysCreatedApart'
  <1>1. KeysTypeOK /\ KeysCreatedApart BY DEF Hypothesis
  <1>2. ASSUME NEW k \in KnownKeys'
        PROVE  /\ \A i \in 1 .. Len(sshKeys'[k]) : sshKeys'[k][i].name = sshKeys'[k][1].name
               /\ \A x \in keyOrigin'[k] : x \in KnownKeys' /\ sshKeys'[x][1].name # sshKeys'[k][1].name
    <2>1. CASE k \in KnownKeys
      <3>1. keyOrigin'[k] = keyOrigin[k]
        <4>1. ASSUME NEW r \in Requests, CreateUserSSHKey(r) PROVE keyOrigin'[k] = keyOrigin[k]
          BY <1>1, <2>1, <4>1, CreateKeyFacts
        <4> QED BY <1>1, <4>1, KeyObjectsStepThm DEF KeyObjectsStep
      <3>2. \A x \in keyOrigin[k] : x \in KnownKeys /\ sshKeys[x][1].name # sshKeys[k][1].name
        BY <1>1, <2>1 DEF KeysCreatedApart
      <3> QED BY <2>1, <3>1, <3>2, NamesStay
    <2>2. CASE k \notin KnownKeys
      <3>1. PICK r \in Requests : CreateUserSSHKey(r)
        <4>1. ASSUME KeyObjectsStep PROVE KnownKeys' = KnownKeys
          <5>1. Len(sshKeys') = Len(sshKeys) BY <1>1, <4>1, KeyGrowth DEF KeyObjectsStep
          <5> QED BY <5>1 DEF KnownKeys
        <4> QED BY <1>1, <2>2, <4>1, KeyObjectsStepThm
      <3> DEFINE n == Len(sshKeys)
      <3>2. /\ KnownKeys' = KnownKeys \cup {n + 1} /\ sshKeys'[n + 1] = <<NewKey(key[r].name)>>
            /\ keyOrigin'[n + 1] = key[r].seen
        BY <1>1, <3>1, CreateKeyFacts
      <3>3. k = n + 1 BY <2>2, <3>2
      <3> HIDE DEF n
      <3>4. Len(sshKeys'[k]) = 1 /\ sshKeys'[k][1].name = key[r].name
        <4>1. sshKeys'[k] = <<NewKey(key[r].name)>> BY <3>2, <3>3
        <4>2. Len(sshKeys'[k]) = 1 /\ sshKeys'[k][1] = NewKey(key[r].name) BY <4>1
        <4> QED BY <4>2 DEF NewKey
      <3>5. pc[r] = "createKey" BY <3>1 DEF CreateUserSSHKey, AnswerKey, Answer
      <3>6. \A x \in key[r].seen : x \in KnownKeys /\ sshKeys[x][1].name # key[r].name
        BY <1>1, <3>5 DEF KeysCreatedApart
      <3>7. \A x \in keyOrigin'[k] : x \in KnownKeys' /\ sshKeys'[x][1].name # sshKeys'[k][1].name
        <4>1. keyOrigin'[k] = key[r].seen BY <3>2, <3>3
        <4>2. \A x \in key[r].seen : x \in KnownKeys' /\ sshKeys'[x][1].name # key[r].name
          BY <3>6, NamesStay
        <4> QED BY <3>4, <4>1, <4>2
      <3>8. \A i \in 1 .. Len(sshKeys'[k]) : i = 1 BY <3>4
      <3> QED BY <3>7, <3>8
    <2> QED BY <2>1, <2>2
  <1>3. ASSUME NEW r \in Requests, pc'[r] = "createKey"
        PROVE  /\ key'[r].name \in KeyNames
               /\ \A x \in key'[r].seen : x \in KnownKeys' /\ sshKeys'[x][1].name # key'[r].name
    <2>1. CASE pc[r] = "createKey" /\ key'[r] = key[r]
      BY <1>1, <2>1, NamesStay DEF KeysCreatedApart
    <2>2. ASSUME NEW by \in Callers, NEW n \in KeyNames, StartKey(r, by, n)
          PROVE  /\ key'[r].name \in KeyNames
                 /\ \A x \in key'[r].seen : x \in KnownKeys' /\ sshKeys'[x][1].name # key'[r].name
      <3>1. key'[r].name = n /\ key'[r].seen = ListKeys
        BY <1>1, <2>2 DEF StartKey, BeginKey, NoKey, KeysTypeOK
      <3>2. ASSUME NEW x \in ListKeys PROVE x \in KnownKeys /\ sshKeys[x][1].name # n
        <4>1. x \in KnownKeys /\ keyShown[x] > 0 BY <3>2 DEF ListKeys, Present
        <4>2. keyShown[x] \in 1 .. Len(sshKeys[x])
          BY <1>1, <4>1, LatestKeyFacts, KeyElements DEF KeysTypeOK
        <4>3. sshKeys[x][keyShown[x]].name # n BY <2>2, <3>2 DEF StartKey
        <4> QED BY <1>1, <4>1, <4>2, <4>3 DEF KeysCreatedApart
      <3> QED BY <3>1, <3>2, NamesStay
    <2> QED BY <1>3, <2>1, <2>2, WhoCreatesKeys
  <1> QED BY <1>2, <1>3 DEF KeysCreatedApart

\* Which steps change the keys or what was answered about them.
LEMMA WhoChangesKeys ==
    ASSUME KeysNext
    PROVE  \/ UNCHANGED <<sshKeys, assigned, misread>>
           \/ \E r \in Requests :
                \/ CreateUserSSHKey(r) \/ UpdateClusterSSHKey(r)
                \/ \E k \in KnownKeys :
                     \/ DeleteUserSSHKey(r, k)
                     \/ \E by \in Callers, c \in Known : AssignNothing(r, by, c, k)
  <1>1. ASSUME NEW r \in Requests, NEW by \in Callers, NEW n \in KeyNames, StartKey(r, by, n)
        PROVE  UNCHANGED <<sshKeys, assigned, misread>>
    BY <1>1 DEF StartKey, BeginKey, keyObjects, keyGhosts
  <1>2. ASSUME NEW r \in Requests, NEW by \in Callers, NEW c \in Known, NEW k \in KnownKeys,
               StartAssign(r, by, c, k) \/ StartDetach(r, by, c, k)
        PROVE  UNCHANGED <<sshKeys, assigned, misread>>
    BY <1>2 DEF StartAssign, StartDetach, Read, BeginKey, keyObjects, keyGhosts
  <1>3. ASSUME NEW r \in Requests, FailKey(r) PROVE UNCHANGED <<sshKeys, assigned, misread>>
    BY <1>3 DEF FailKey, keyObjects, keyGhosts
  <1>4. ASSUME NEW k \in KnownKeys, SyncKey(k) PROVE UNCHANGED <<sshKeys, assigned, misread>>
    BY <1>4 DEF SyncKey, keyGhosts
  <1>5. ASSUME UNCHANGED keyVars PROVE UNCHANGED <<sshKeys, assigned, misread>>
    BY <1>5 DEF keyVars, keyObjects, keyGhosts
  <1> QED BY <1>1, <1>2, <1>3, <1>4, <1>5 DEF KeysNext, KeyStep

\* An Update of a key leaves it as answered.
LEMMA UpdateAnswers ==
    ASSUME KeysTypeOK, AnswersHold, NEW r \in Requests, UpdateClusterSSHKey(r), NEW k \in KnownKeys,
           Stored(sshKeys'[k])
    PROVE  Latest(sshKeys'[k]).clusters = assigned'[k] \ misread'[k]
  <1>1. PICK step \in {"assign", "detach"}, j \in KnownKeys, c \in Known : KeyUpdate(r, step, j, c)
    BY DEF UpdateClusterSSHKey, KeyUpdate
  <1>2. /\ sshKeys \in Seq(Seq(KeyVersions)) /\ k \in 1 .. Len(sshKeys)
        /\ k \in DOMAIN assigned /\ k \in DOMAIN misread
    BY DEF KeysTypeOK, PerKey, KnownKeys
  <1>3. CASE k # j
    <2>1. sshKeys'[k] = sshKeys[k] BY <1>1, <1>2, <1>3 DEF KeyUpdate
    <2>2. assigned'[k] = assigned[k] /\ misread'[k] = misread[k] BY <1>1, <1>2, <1>3 DEF KeyUpdate
    <2> QED BY <2>1, <2>2 DEF AnswersHold
  <1>4. CASE k = j
    <2> DEFINE old == Latest(sshKeys[k])
               cs == WithCluster(step, c, old.clusters)
               new == [old EXCEPT !.clusters = cs]
    <2>1. old \in KeyVersions /\ Len(sshKeys[k]) \in Nat \ {0} /\ sshKeys[k] \in Seq(KeyVersions)
      BY LatestKeyFacts
    <2>2. sshKeys[k][key[r].position] = old /\ Stored(sshKeys[k])
      BY <1>1, <1>4 DEF KeyUpdate, Unchanged, Latest
    <2>3. new = [old EXCEPT !.clusters = WithCluster(step, c, @)] /\ new.clusters = cs
      BY <2>1 DEF KeyVersions
    <2>4. Latest(sshKeys'[k]) = new
      <3>1. CASE new = old BY <1>1, <1>4, <2>2, <2>3, <3>1 DEF KeyUpdate
      <3>2. CASE new # old
        <4>1. sshKeys' = [sshKeys EXCEPT ![k] = Append(sshKeys[k], new)]
          BY <1>1, <1>4, <2>2, <2>3, <3>2 DEF KeyUpdate
        <4> HIDE DEF new
        <4>2. sshKeys'[k] = Append(sshKeys[k], new) BY <1>2, <4>1
        <4> QED BY <2>1, <4>2 DEF Latest
      <3> QED BY <3>1, <3>2
    <2>5. old.clusters = assigned[k] \ misread[k] BY <2>2 DEF AnswersHold
    <2>6. assigned'[k] = WithCluster(step, c, assigned[k]) /\ misread'[k] = misread[k] \ {c}
      BY <1>1, <1>2, <1>4 DEF KeyUpdate
    <2>7. cs = assigned'[k] \ misread'[k]
      <3>1. CASE step = "assign"
        <4>1. cs = old.clusters \cup {c} /\ assigned'[k] = assigned[k] \cup {c}
          BY <2>6, <3>1 DEF WithCluster
        <4> HIDE DEF cs, old
        <4> QED BY <2>5, <2>6, <4>1
      <3>2. CASE step = "detach"
        <4>1. cs = old.clusters \ {c} /\ assigned'[k] = assigned[k] \ {c}
          BY <2>6, <3>2 DEF WithCluster
        <4> HIDE DEF cs, old
        <4> QED BY <2>5, <2>6, <4>1
      <3> QED BY <3>1, <3>2
    <2> QED BY <2>3, <2>4, <2>7
  <1> QED BY <1>3, <1>4

\* Every step leaves the keys as answered.
LEMMA AnswersStep ==
    ASSUME Hypothesis, ClustersAssumption, KeysNext
    PROVE  AnswersHold'
  <1> SUFFICES ASSUME NEW k \in KnownKeys', Stored(sshKeys'[k])
               PROVE  Latest(sshKeys'[k]).clusters = assigned'[k] \ misread'[k]
    BY DEF AnswersHold
  <1>1. KeysTypeOK /\ KeysCreatedApart /\ AnswersHold BY DEF Hypothesis
  <1>2. CASE UNCHANGED <<sshKeys, assigned, misread>> BY <1>1, <1>2 DEF AnswersHold, KnownKeys
  <1>3. ASSUME NEW r \in Requests, CreateUserSSHKey(r)
        PROVE  Latest(sshKeys'[k]).clusters = assigned'[k] \ misread'[k]
    <2> DEFINE n == Len(sshKeys)
    <2>1. /\ KnownKeys' = KnownKeys \cup {n + 1} /\ sshKeys'[n + 1] = <<NewKey(key[r].name)>>
          /\ assigned'[n + 1] = {} /\ misread'[n + 1] = {}
          /\ \A j \in KnownKeys : /\ sshKeys'[j] = sshKeys[j]
                                  /\ assigned'[j] = assigned[j] /\ misread'[j] = misread[j]
      BY <1>1, <1>3, CreateKeyFacts
    <2> HIDE DEF n
    <2>2. CASE k \in KnownKeys BY <1>1, <2>1, <2>2 DEF AnswersHold
    <2>3. CASE k = n + 1
      <3>1. sshKeys'[k] = <<NewKey(key[r].name)>> /\ assigned'[k] = {} /\ misread'[k] = {} BY <2>1, <2>3
      <3>2. Latest(sshKeys'[k]) = NewKey(key[r].name) BY <3>1 DEF Latest
      <3> QED BY <3>1, <3>2 DEF NewKey
    <2> QED BY <2>1, <2>2, <2>3
  <1>4. ASSUME KeyObjectsStep PROVE k \in KnownKeys
    <2>1. Len(sshKeys') = Len(sshKeys) BY <1>1, <1>4, KeyGrowth DEF KeyObjectsStep
    <2> QED BY <2>1 DEF KnownKeys
  <1>5. ASSUME NEW r \in Requests, UpdateClusterSSHKey(r)
        PROVE  Latest(sshKeys'[k]).clusters = assigned'[k] \ misread'[k]
    BY <1>1, <1>4, <1>5, UpdateKeyStep, UpdateAnswers
  <1>6. ASSUME NEW r \in Requests, NEW j \in KnownKeys, DeleteUserSSHKey(r, j)
        PROVE  Latest(sshKeys'[k]).clusters = assigned'[k] \ misread'[k]
    <2>1. k \in KnownKeys BY <1>1, <1>4, <1>6, DeleteKeyStep
    <2>2. sshKeys \in Seq(Seq(KeyVersions)) /\ k \in 1 .. Len(sshKeys)
      BY <1>1, <2>1 DEF KeysTypeOK, KnownKeys
    <2>3. assigned' = assigned /\ misread' = misread BY <1>6 DEF DeleteUserSSHKey, keyGhosts
    <2>4. CASE k # j
      <3>1. sshKeys'[k] = sshKeys[k] BY <1>6, <2>2, <2>4 DEF DeleteUserSSHKey
      <3> QED BY <1>1, <2>1, <2>3, <3>1 DEF AnswersHold
    <2>5. CASE k = j
      <3> DEFINE new == [Latest(sshKeys[k]) EXCEPT !.state = "gone"]
      <3>1. sshKeys' = [sshKeys EXCEPT ![k] = Append(sshKeys[k], new)]
        BY <1>6, <2>5 DEF DeleteUserSSHKey
      <3>2. new.state = "gone" BY <1>1, <2>1, LatestKeyFacts DEF KeyVersions
      <3> HIDE DEF new
      <3>3. sshKeys'[k] = Append(sshKeys[k], new) BY <2>2, <3>1
      <3>4. ~ Stored(sshKeys'[k]) BY <1>1, <2>1, <3>2, <3>3, LatestKeyFacts DEF Stored, Present
      <3> QED BY <3>4
    <2> QED BY <2>4, <2>5
  <1>7. ASSUME NEW r \in Requests, NEW j \in KnownKeys, NEW by \in Callers, NEW c \in Known,
               AssignNothing(r, by, c, j)
        PROVE  Latest(sshKeys'[k]).clusters = assigned'[k] \ misread'[k]
    <2>1. k \in KnownKeys BY <1>1, <1>4, <1>7, AssignNothingStep
    <2>2. sshKeys' = sshKeys BY <1>7 DEF AssignNothing, keyObjects
    <2>3. k \in DOMAIN assigned /\ k \in DOMAIN misread BY <1>1, <2>1 DEF KeysTypeOK, PerKey, KnownKeys
    <2>4. Latest(sshKeys[k]).clusters = assigned[k] \ misread[k] BY <1>1, <2>1, <2>2 DEF AnswersHold
    <2>5. CASE k # j
      <3>1. assigned'[k] = assigned[k] /\ misread'[k] = misread[k] BY <1>7, <2>3, <2>5 DEF AssignNothing
      <3> QED BY <2>2, <2>4, <3>1
    <2>6. CASE k = j
      <3>1. assigned'[k] = assigned[k] \cup {c} BY <1>7, <2>3, <2>6 DEF AssignNothing
      <3>2. CASE c \in Latest(sshKeys[k]).clusters
        <4>1. misread' = misread BY <1>7, <2>6, <3>2 DEF AssignNothing
        <4> QED BY <2>2, <2>4, <3>1, <3>2, <4>1
      <3>3. CASE c \notin Latest(sshKeys[k]).clusters
        <4>1. misread'[k] = misread[k] \cup {c} BY <1>7, <2>3, <2>6, <3>3 DEF AssignNothing
        <4> QED BY <2>2, <2>4, <3>1, <3>3, <4>1
      <3> QED BY <3>2, <3>3
    <2> QED BY <2>5, <2>6
  <1> QED BY <1>2, <1>3, <1>5, <1>6, <1>7, WhoChangesKeys

-----------------------------------------------------------------------------
(* The theorems.                                                           *)

\* What all requests together keep: the types, what requests have found
\* out, and the invariants.
IndInv == Hypothesis /\ CreatedApart /\ CleanupIsKept /\ LinkedHasPresetCredentials

\* It holds initially.
LEMMA InitInv == ASSUME ClustersAssumption PROVE KeysInit => IndInv
  <1> SUFFICES ASSUME KeysInit PROVE IndInv OBVIOUS
  <1>1. PICK n \in Names, m \in Names, e \in {"on", "off"}, k \in Keys :
          LET Running(name, enc) == [NewCluster(name, enc) EXCEPT !.up = "yes", !.owner = "yes"]
          IN  /\ n # m
              /\ clusters = <<<<Running(n, e)>>, <<Running(m, "off")>>>>
              /\ encKey = <<IF e = "on" THEN k ELSE "none", "none">> /\ agreed = encKey
    BY DEF KeysInit, Init
  <1> DEFINE v == [NewCluster(n, e) EXCEPT !.up = "yes", !.owner = "yes"]
             w == [NewCluster(m, "off") EXCEPT !.up = "yes", !.owner = "yes"]
  <1>2. /\ v \in Versions /\ v.name = n /\ v.encryption = e /\ v.state = "live"
        /\ w \in Versions /\ w.name = m /\ w.encryption = "off" /\ w.state = "live"
    BY DEF NewCluster, Versions, YesNo, Links
  <1>3. clusters = <<<<v>>, <<w>>>> BY <1>1
  <1> HIDE DEF v, w
  <1>4. <<v>> \in Seq(Versions) /\ <<w>> \in Seq(Versions) BY <1>2
  <1>5. /\ clusters \in Seq(Seq(Versions)) /\ Len(clusters) = 2
        /\ clusters[1] = <<v>> /\ clusters[2] = <<w>>
        /\ Len(clusters[1]) = 1 /\ Len(clusters[2]) = 1
        /\ clusters[1][1] = v /\ clusters[2][1] = w
    BY <1>3, <1>4
  <1>6. Known = {1, 2} BY <1>5 DEF Known
  <1>7. PICK x \in Keys \cup {"none"} :
          x = (IF e = "on" THEN k ELSE "none") /\ encKey = <<x, "none">> /\ agreed = <<x, "none">>
    BY <1>1
  <1>8. \A c \in Known : Len(clusters[c]) = 1 /\ Latest(clusters[c]) = clusters[c][1]
                          /\ clusters[c][1].state = "live"
    BY <1>2, <1>5, <1>6 DEF Latest
  <1>9. TypeOK
    <2>1. PerCluster(shown, Nat) /\ \A c \in Known : shown[c] = 1
      BY <1>5, <1>6 DEF KeysInit, Init, PerCluster
    <2>2. PerCluster(credential, Credentials \cup {"preset"}) BY <1>5 DEF KeysInit, Init, PerCluster
    <2>3. PerCluster(encKey, Keys \cup {"none"}) /\ PerCluster(agreed, Keys \cup {"none"})
      BY <1>5, <1>7 DEF PerCluster
    <2>4. PerCluster(origin, [padded : YesNo, seen : SUBSET Nat])
      <3>1. /\ [padded |-> "no", seen |-> {}] \in [padded : YesNo, seen : SUBSET Nat]
            /\ [padded |-> "no", seen |-> {1}] \in [padded : YesNo, seen : SUBSET Nat]
        BY DEF YesNo
      <3> QED BY <1>5, <3>1 DEF KeysInit, Init, PerCluster
    <2>5. PerCluster(writer, Requests \cup {"none", "failed"}) BY <1>5 DEF KeysInit, Init, PerCluster
    <2>6. PerCluster(cleanup, YesNo) BY <1>5 DEF KeysInit, Init, PerCluster, YesNo
    <2>7. pc \in [Requests -> Steps] BY DEF KeysInit, Init, Steps
    <2>8. req \in [Requests -> RequestData] BY NoRequestFacts DEF KeysInit, Init
    <2>9. \A c \in Known :
            /\ Len(clusters[c]) > 0 /\ shown[c] <= Len(clusters[c])
            /\ \A i \in 1 .. Len(clusters[c]) : clusters[c][i].state = "gone" => i = Len(clusters[c])
      <3>1. \A i \in 1 .. 1 : i = 1 OBVIOUS
      <3> QED BY <1>8, <2>1, <3>1
    <2> QED BY <1>5, <2>1, <2>2, <2>3, <2>4, <2>5, <2>6, <2>7, <2>8, <2>9 DEF TypeOK
  <1>10. RequestsInformed
    <2> SUFFICES ASSUME NEW r \in Requests PROVE Informed(r) BY DEF RequestsInformed
    <2>1. pc[r] = "idle" BY DEF KeysInit, Init
    <2>2. \A c \in Known : writer[c] = "none" BY <1>6 DEF KeysInit, Init
    <2>3. r # "none" BY DEF ClustersAssumption
    <2> QED BY <2>1, <2>2, <2>3 DEF Informed
  <1>11. EncryptedHasKey
    <2>1. Latest(clusters[1]) = v /\ Latest(clusters[2]) = w BY <1>5 DEF Latest
    <2>2. encKey[1] = x /\ (v.encryption = "on" => x # "none")
      BY <1>2, <1>7 DEF ClustersAssumption
    <2> QED BY <1>2, <1>6, <2>1, <2>2 DEF EncryptedHasKey
  <1>12. CreatedApart
    <2>1. origin[1].seen = {} /\ origin[2].seen = {1} BY DEF KeysInit, Init
    <2>2. NamedOtherwise(1, clusters[2][1].name)
      <3>1. Len(clusters[1]) = 1 /\ clusters[1][1].name = n /\ clusters[2][1].name = m BY <1>2, <1>5
      <3>2. n # m BY <1>1
      <3>3. 1 \in 1 .. Len(clusters[1]) BY <3>1
      <3> QED BY <3>1, <3>2, <3>3 DEF NamedOtherwise
    <2>3. \A y \in Known : y = 1 \/ y = 2 BY <1>6
    <2>4. 1 \in Known BY <1>6
    <2> QED BY <2>1, <2>2, <2>3, <2>4 DEF CreatedApart
  <1>13. CleanupIsKept
    <2>1. \A c \in Known : cleanup[c] = "no" BY <1>6 DEF KeysInit, Init
    <2> QED BY <2>1 DEF CleanupIsKept
  <1>14. LinkedHasPresetCredentials
    <2>1. \A c \in Known : credential[c] = "preset" BY <1>6 DEF KeysInit, Init
    <2> QED BY <2>1 DEF LinkedHasPresetCredentials
  <1>15. PICK kn \in KeyNames : sshKeys = <<<<[NewKey(kn) EXCEPT !.clusters = {1}]>>>> BY DEF KeysInit
  <1> DEFINE u == [NewKey(kn) EXCEPT !.clusters = {1}]
  <1>16. u \in KeyVersions /\ u.clusters = {1} BY DEF NewKey, KeyVersions
  <1>17. sshKeys = <<<<u>>>> BY <1>15
  <1> HIDE DEF u
  <1>18. <<u>> \in Seq(KeyVersions) BY <1>16
  <1>19. /\ sshKeys \in Seq(Seq(KeyVersions)) /\ Len(sshKeys) = 1 /\ sshKeys[1] = <<u>>
         /\ Len(sshKeys[1]) = 1 /\ sshKeys[1][1] = u
    BY <1>17, <1>18
  <1>20. KnownKeys = {1} BY <1>19 DEF KnownKeys
  <1>21. KeysTypeOK
    <2>1. PerKey(keyShown, Nat) /\ keyShown[1] = 1 BY <1>19 DEF KeysInit, PerKey
    <2>2. key \in [Requests -> KeyData] BY DEF KeysInit, NoKey, KeyData
    <2>3. PerKey(keyOrigin, SUBSET Nat) BY <1>19 DEF KeysInit, PerKey
    <2>4. PerKey(assigned, SUBSET Nat) BY <1>19 DEF KeysInit, PerKey
    <2>5. PerKey(misread, SUBSET Nat) BY <1>19 DEF KeysInit, PerKey
    <2>6. \A j \in KnownKeys :
            /\ Len(sshKeys[j]) > 0 /\ keyShown[j] <= Len(sshKeys[j])
            /\ \A i \in 1 .. Len(sshKeys[j]) : sshKeys[j][i].clusters \subseteq Known
      <3>1. {1} \subseteq Known BY <1>6
      <3>2. \A i \in 1 .. 1 : i = 1 OBVIOUS
      <3>3. /\ Len(sshKeys[1]) > 0 /\ keyShown[1] <= Len(sshKeys[1])
            /\ \A i \in 1 .. Len(sshKeys[1]) : sshKeys[1][i].clusters \subseteq Known
        BY <1>16, <1>19, <2>1, <3>1, <3>2
      <3> QED BY <1>20, <3>3
    <2> QED BY <1>9, <1>19, <2>1, <2>2, <2>3, <2>4, <2>5, <2>6 DEF KeysTypeOK
  <1>22. KeysCreatedApart
    <2>1. keyOrigin[1] = {} BY DEF KeysInit
    <2>2. \A r \in Requests : pc[r] = "idle" BY DEF KeysInit, Init
    <2>3. \A i \in 1 .. Len(sshKeys[1]) : i = 1 BY <1>19
    <2> QED BY <1>20, <2>1, <2>2, <2>3 DEF KeysCreatedApart
  <1>23. AnswersHold
    <2>1. assigned[1] = {1} /\ misread[1] = {} BY DEF KeysInit
    <2>2. Latest(sshKeys[1]) = u BY <1>19 DEF Latest
    <2> QED BY <1>16, <1>20, <2>1, <2>2 DEF AnswersHold
  <1> QED BY <1>10, <1>11, <1>12, <1>13, <1>14, <1>21, <1>22, <1>23 DEF IndInv, Hypothesis

\* The invariant is preserved.
LEMMA StepsKeepInv == ASSUME ClustersAssumption PROVE IndInv /\ [KeysNext]_allVars => IndInv'
  <1>1. ASSUME IndInv, KeysNext PROVE IndInv'
    <2>1. StepInv /\ Hypothesis BY <1>1 DEF IndInv, Hypothesis, KeysTypeOK, StepInv
    <2>2. KeysTypeOK' BY <1>1, <2>1, KeyTypesStep
    <2>3. RequestsInformed' BY <1>1, <2>1, InformedStep
    <2>4. EncryptedHasKey' BY <1>1, <2>1, EncryptedStep
    <2>5. KeysCreatedApart' BY <1>1, <2>1, KeysApartStep
    <2>6. AnswersHold' BY <1>1, <2>1, AnswersStep
    <2>7. CreatedApart' BY <1>1, <2>1, ApartStep DEF IndInv
    <2>8. CleanupIsKept' BY <1>1, <2>1, CleanupStep DEF IndInv
    <2>9. LinkedHasPresetCredentials' BY <1>1, <2>1, LinkedStep DEF IndInv
    <2> QED BY <2>2, <2>3, <2>4, <2>5, <2>6, <2>7, <2>8, <2>9 DEF IndInv, Hypothesis
  <1>2. ASSUME IndInv, UNCHANGED allVars PROVE IndInv'
    <2>1. /\ clusters' = clusters /\ shown' = shown /\ credential' = credential /\ encKey' = encKey
          /\ pc' = pc /\ req' = req /\ origin' = origin /\ writer' = writer /\ agreed' = agreed
          /\ cleanup' = cleanup /\ sshKeys' = sshKeys /\ keyShown' = keyShown /\ key' = key
          /\ keyOrigin' = keyOrigin /\ assigned' = assigned /\ misread' = misread
      BY <1>2 DEF allVars, vars, objects, ghosts, keyVars, keyObjects, keyGhosts
    <2>2. Known' = Known /\ KnownKeys' = KnownKeys BY <2>1 DEF Known, KnownKeys
    <2>3. TypeOK'
      BY <1>2, <2>1, <2>2 DEF IndInv, Hypothesis, KeysTypeOK, TypeOK, PerCluster
    <2>4. KeysTypeOK' BY <1>2, <2>1, <2>2, <2>3 DEF IndInv, Hypothesis, KeysTypeOK, PerKey
    <2>5. RequestsInformed'
      <3> SUFFICES ASSUME NEW r \in Requests PROVE Informed(r)' BY DEF RequestsInformed
      <3>1. Informed(r) BY <1>2 DEF IndInv, Hypothesis, RequestsInformed
      <3> QED BY <2>1, <2>2, <3>1 DEF Informed, Enables, Old, NamedOtherwise
    <2>6. EncryptedHasKey' /\ KeysCreatedApart' /\ AnswersHold'
      BY <1>2, <2>1, <2>2 DEF IndInv, Hypothesis, EncryptedHasKey, KeysCreatedApart, AnswersHold
    <2>7. CreatedApart' /\ CleanupIsKept' /\ LinkedHasPresetCredentials'
      BY <1>2, <2>1, <2>2 DEF IndInv, CreatedApart, NamedOtherwise, CleanupIsKept,
                              LinkedHasPresetCredentials
    <2> QED BY <2>4, <2>5, <2>6, <2>7 DEF IndInv, Hypothesis
  <1> QED BY <1>1, <1>2

\* Hence it holds always.
LEMMA InvHolds == ASSUME ClustersAssumption PROVE KeysSpec => []IndInv
  BY InitInv, StepsKeepInv, PTL DEF KeysSpec

\* KeysInv holds for any number of requests, clusters and keys: the keys
\* are for the clusters that the answers of AssignSSHKeyEndpoint and
\* DetachSSHKeyEndpoint have said, and two of them have one name only if
\* CreateEndpoint could not see the older.
THEOREM KeysAreRight == KeysSpec => []KeysInv
  <1>1. IndInv => KeysInv
    <2> SUFFICES ASSUME IndInv PROVE KeysInv OBVIOUS
    <2>1. KeysTypeOK /\ KeysCreatedApart BY DEF IndInv, Hypothesis
    <2>2. KeyNamesClashUnseen
      <3> SUFFICES ASSUME NEW x \in KnownKeys, NEW y \in KnownKeys, x \in keyOrigin[y],
                          Latest(sshKeys[x]).name = Latest(sshKeys[y]).name
                   PROVE  FALSE
        BY DEF KeyNamesClashUnseen
      <3>1. \A k \in KnownKeys : Latest(sshKeys[k]).name = sshKeys[k][1].name
        <4> SUFFICES ASSUME NEW k \in KnownKeys PROVE Latest(sshKeys[k]).name = sshKeys[k][1].name
          OBVIOUS
        <4>1. Len(sshKeys[k]) \in 1 .. Len(sshKeys[k]) BY <2>1, LatestKeyFacts
        <4> QED BY <2>1, <4>1 DEF KeysCreatedApart, Latest
      <3>2. sshKeys[x][1].name # sshKeys[y][1].name BY <2>1 DEF KeysCreatedApart
      <3> QED BY <3>1, <3>2
    <2> QED BY <2>1, <2>2 DEF KeysInv, IndInv, Hypothesis
  <1> QED BY <1>1, ClustersAssumption, InvHolds, PTL

\* NamesClashUnchecked: two clusters of a project have one name only by one
\* of the gaps in the check of CreateEndpoint, or by renaming.
THEOREM NamesAreApart == KeysSpec => []NamesClashUnchecked
  <1>1. IndInv => NamesClashUnchecked
    <2> SUFFICES ASSUME IndInv, NEW x \in Known, NEW y \in Known,
                        Latest(clusters[x]).name = Latest(clusters[y]).name,
                        ~ \E c \in {x, y} : \E i \in 1 .. Len(clusters[c]) :
                            clusters[c][i].name # clusters[c][1].name,
                        origin[y].padded # "yes", x \in origin[y].seen
                 PROVE  FALSE
      BY DEF NamesClashUnchecked
    <2>1. TypeOK /\ CreatedApart BY DEF IndInv, Hypothesis, KeysTypeOK
    <2>2. \A c \in {x, y} : Latest(clusters[c]).name = clusters[c][1].name
      <3> SUFFICES ASSUME NEW c \in {x, y} PROVE Latest(clusters[c]).name = clusters[c][1].name OBVIOUS
      <3>1. Len(clusters[c]) \in 1 .. Len(clusters[c]) BY <2>1, LatestFacts
      <3> QED BY <3>1 DEF Latest
    <2>3. origin[y].padded = "no"
      <3> DEFINE S == [padded : YesNo, seen : SUBSET Nat]
      <3>1. origin \in Seq(S) /\ y \in 1 .. Len(origin) BY <2>1 DEF TypeOK, PerCluster, Known
      <3> HIDE DEF S
      <3>2. origin[y] \in S BY <3>1, ElementFacts
      <3> QED BY <3>2 DEF S, YesNo
    <2>4. NamedOtherwise(x, clusters[y][1].name) BY <2>1, <2>3 DEF CreatedApart
    <2>5. clusters[x][1].name = clusters[y][1].name BY <2>2
    <2> QED BY <2>4, <2>5 DEF NamedOtherwise
  <1> QED BY <1>1, ClustersAssumption, InvHolds, PTL

\* EncryptedHasKey: whatever fails in PatchEndpoint, a cluster whose
\* encryption is enabled has a key in its secret.
THEOREM EncryptionHasItsKey == KeysSpec => []EncryptedHasKey
  <1>1. IndInv => EncryptedHasKey BY DEF IndInv, Hypothesis
  <1> QED BY <1>1, ClustersAssumption, InvHolds, PTL

\* LinkedHasPresetCredentials: a cluster that has kept the link to its preset
\* has its credentials, unless a patch is under way or has failed half-way.
THEOREM LinksAreRight == KeysSpec => []LinkedHasPresetCredentials
  <1>1. IndInv => LinkedHasPresetCredentials BY DEF IndInv
  <1> QED BY <1>1, ClustersAssumption, InvHolds, PTL

\* CleanupIsKept: finalizers that updateAndDeleteCluster added for a request
\* are not removed by any other.
THEOREM CleanupsAreKept == KeysSpec => []CleanupIsKept
  <1>1. IndInv => CleanupIsKept BY DEF IndInv
  <1> QED BY <1>1, ClustersAssumption, InvHolds, PTL

\* ExternalCCMStays: a patch that was made from a version before the
\* migration is refused, and nothing else writes the feature.
THEOREM MigrationsStay == KeysSpec => ExternalCCMStays
  <1>1. IndInv /\ [KeysNext]_allVars =>
          [\A c \in Known : Latest(clusters[c]).ccm = "yes" => Latest(clusters'[c]).ccm = "yes"]_vars
    <2>1. ASSUME IndInv, KeysNext, NEW c \in Known, Latest(clusters[c]).ccm = "yes"
          PROVE  Latest(clusters'[c]).ccm = "yes"
      <3>1. StepInv BY <2>1 DEF IndInv, Hypothesis, KeysTypeOK, StepInv
      <3> QED BY <2>1, <3>1, ClustersAssumption, LatestFollows DEF Follows
    <2> QED BY <2>1 DEF allVars
  <1> QED BY <1>1, ClustersAssumption, InvHolds, PTL DEF KeysSpec, ExternalCCMStays
=============================================================================
