------------------------ MODULE TokenBlacklistProofs ------------------------
(***************************************************************************)
(* Proofs about logging out, for any number of requests, tokens and        *)
(* settings.                                                               *)
(*                                                                         *)
(* First the types, with the fact that no step uses a version it has not   *)
(* found.  Then what a step can do to each of the two objects, whichever   *)
(* action it is (UserStep, SecretStep); from these two lemmas follow the   *)
(* parts of the invariant that speak of the objects, and only the parts    *)
(* that follow a request through its logout look at the actions again.     *)
(***************************************************************************)
EXTENDS TokenBlacklist, TLAPS

\* What appending a version does to the versions of an object.
LEMMA Appended ==
    ASSUME NEW S, NEW log \in Seq(S), NEW x \in S
    PROVE  /\ Append(log, x) \in Seq(S)
           /\ Len(Append(log, x)) = Len(log) + 1
           /\ Append(log, x)[Len(log) + 1] = x
           /\ \A i \in 1 .. Len(log) : Append(log, x)[i] = log[i]
           /\ Len(log) \in Nat
  OBVIOUS

\* An object exists if and only if it has a version.
LEMMA Exists ==
    ASSUME NEW S, NEW log \in Seq(S)
    PROVE  /\ log # <<>> <=> Len(log) > 0
           /\ log # <<>> => Last(log) \in S
  BY DEF Last

\* A version of the user with one field changed is one again.
LEMMA ChangedUser ==
    ASSUME NEW u \in UserVersions
    PROVE  /\ [u EXCEPT !.lastSeen = "set"] \in UserVersions
           /\ [u EXCEPT !.reference = "secret"] \in UserVersions
           /\ \A s \in Settings : [u EXCEPT !.settings = s] \in UserVersions
  BY DEF UserVersions

\* The version a request holds, once it has one.
LEMMA HeldType ==
    ASSUME TypeOK, NEW r \in Requests, HasUser(r)
    PROVE  /\ Held(r) \in UserVersions
           /\ user[r] \in 1 .. Len(users) /\ Len(users) \in Nat
<1>1. user[r] \in 1 .. Len(users) /\ Len(users) \in Nat
  BY DEF TypeOK
<1> QED
  BY <1>1 DEF TypeOK, Held

\* The outcome of an Update that may conflict.
Updated(r, to, onConflict) ==
    /\ users' \in Seq(UserVersions)
    /\ Len(users) \in Nat /\ Len(users') \in {Len(users), Len(users) + 1}
    /\ pc' = [pc EXCEPT ![r] = to] \/ pc' = [pc EXCEPT ![r] = onConflict]
    /\ user' \in [Requests -> 0 .. Len(users')]
    /\ \A q \in Requests : user[q] > 0 => user'[q] > 0

\* Update results in nothing else.
LEMMA UpdateType ==
    ASSUME TypeOK, NEW r \in Requests, NEW from, NEW to \in Steps,
           NEW onConflict \in Steps, NEW new \in UserVersions,
           Update(r, from, to, onConflict, new)
    PROVE  Updated(r, to, onConflict)
<1> USE DEF Updated
<1>1. CASE user[r] = Len(users)
  <2>1. /\ users' = Append(users, new) /\ HoldUser(r, Len(users) + 1)
        /\ pc' = [pc EXCEPT ![r] = to]
    BY <1>1 DEF Update, Goto
  <2>2. users' \in Seq(UserVersions) /\ Len(users') = Len(users) + 1 /\ Len(users) \in Nat
    BY <2>1, Appended DEF TypeOK
  <2> QED
    BY <2>1, <2>2 DEF TypeOK, HoldUser
<1>2. CASE user[r] # Len(users)
  <2>1. users' = users /\ user' = user /\ pc' = [pc EXCEPT ![r] = onConflict]
    BY <1>2 DEF Update, Goto
  <2> QED
    BY <2>1 DEF TypeOK
<1> QED
  BY <1>1, <1>2

\* Nothing exists before the first request.
LEMMA BlacklistInit == Init => BlacklistInv
<1> SUFFICES ASSUME Init PROVE BlacklistInv
  OBVIOUS
<1>1. users = <<>> /\ secrets = <<>> /\ Len(users) = 0 /\ Len(secrets) = 0
  BY DEF Init
<1>2. TypeOK
  BY <1>1 DEF Init, TypeOK, Steps, HasUser, HasSecret
<1>3. /\ ReferenceStays /\ ReferenceIsHeld /\ ReferenceResolves
      /\ AnswersAreEarned /\ LoggedOutStaysBlacklisted /\ SettingsAreKept
  BY <1>1 DEF Init, ReferenceStays, ReferenceIsHeld, ReferenceResolves,
              AnswersAreEarned, LoggedOutStaysBlacklisted, SettingsAreKept
<1> QED
  BY <1>2, <1>3 DEF BlacklistInv

-----------------------------------------------------------------------------
(* Types.                                                                  *)

\* Steps that only read, and move one request on.
LEMMA ReadStepType ==
    ASSUME TypeOK, NEW r \in Requests,
           \/ Verify(r) \/ FindUser(r) \/ CheckBlocked(r) \/ GetUser(r)
           \/ SkipLastSeen(r) \/ SaveUnchanged(r) \/ GetSecret(r) \/ Respond(r) \/ CallFails(r)
    PROVE  TypeOK'
<1>1. /\ users' = users /\ secrets' = secrets /\ caches' = caches
      /\ expired' = expired /\ saved' = saved
  BY DEF Verify, FindUser, CheckBlocked, GetUser, SkipLastSeen, SaveUnchanged, GetSecret,
         Respond, CallFails, clock
<1>2. loggedOut' \subseteq Tokens
  BY BlacklistAssumption
     DEF Verify, FindUser, CheckBlocked, GetUser, SkipLastSeen, SaveUnchanged, GetSecret,
         Respond, CallFails, clock, TypeOK
<1>3. \E step \in Steps : pc' = [pc EXCEPT ![r] = step]
  BY DEF Verify, FindUser, CheckBlocked, GetUser, SkipLastSeen, SaveUnchanged, GetSecret,
         Respond, CallFails, Goto, Steps
<1>4. user' \in [Requests -> 0 .. Len(users)] /\ secret' \in [Requests -> 0 .. Len(secrets)]
  BY DEF Verify, FindUser, CheckBlocked, GetUser, SkipLastSeen, SaveUnchanged, GetSecret,
         Respond, CallFails, HoldUser, HoldSecret, TypeOK
<1>5. \A q \in Requests : HasUser(q)' => user'[q] > 0
  BY DEF Verify, FindUser, CheckBlocked, GetUser, SkipLastSeen, SaveUnchanged, GetSecret,
         Respond, CallFails, HoldUser, HoldSecret, TypeOK, Goto, HasUser, Steps
<1>6. \A q \in Requests : HasSecret(q)' => secret'[q] > 0
  BY DEF Verify, FindUser, CheckBlocked, GetUser, SkipLastSeen, SaveUnchanged, GetSecret,
         Respond, CallFails, HoldUser, HoldSecret, TypeOK, Goto, HasSecret, Steps
<1>7. pc' \in [Requests -> Steps]
  BY <1>3 DEF TypeOK
<1> QED
  BY <1>1, <1>2, <1>4, <1>5, <1>6, <1>7 DEF TypeOK, caches

\* Steps that write the user object.
LEMMA UserWriteType ==
    ASSUME TypeOK, NEW r \in Requests,
           \/ CreateUser(r) \/ SaveUser(r) \/ PatchStatus(r) \/ SetReference(r)
           \/ \E s \in Settings : PatchSettings(r, s)
    PROVE  TypeOK'
<1>1. /\ secrets' = secrets /\ caches' = caches /\ secret' = secret
      /\ expired' = expired /\ loggedOut' = loggedOut
      /\ saved' \in Settings \cup {NoSettings}
  BY DEF CreateUser, SaveUser, PatchStatus, SetReference, PatchSettings, clock, TypeOK
<1> DEFINE Written ==
      /\ users' \in Seq(UserVersions)
      /\ Len(users) \in Nat /\ Len(users') \in {Len(users), Len(users) + 1}
      /\ pc' \in [Requests -> Steps]
      /\ user' \in [Requests -> 0 .. Len(users')]
      /\ \A q \in Requests : HasUser(q)' => user'[q] > 0
      /\ \A q \in Requests : HasSecret(q)' => HasSecret(q)
<1> SUFFICES Written
  BY <1>1 DEF TypeOK, caches
<1>2. CASE CreateUser(r)
  <2>1. CASE users = <<>>
    <3>1. /\ users' = <<NewUser>> /\ NewUser \in UserVersions
          /\ user' = [user EXCEPT ![r] = 1] /\ pc' = [pc EXCEPT ![r] = "save"]
      BY <1>2, <2>1 DEF CreateUser, HoldUser, Goto, NewUser, UserVersions
    <3>2. users' \in Seq(UserVersions) /\ Len(users') = 1 /\ Len(users) = 0
      BY <2>1, <3>1
    <3> QED
      BY <3>1, <3>2 DEF TypeOK, HasUser, HasSecret, Steps
  <2>2. CASE users # <<>>
    <3>1. users' = users /\ user' = user /\ pc' = [pc EXCEPT ![r] = "getUserAgain"]
      BY <1>2, <2>2 DEF CreateUser, Goto
    <3> QED
      BY <3>1 DEF TypeOK, HasUser, HasSecret, Steps
  <2> QED
    BY <2>1, <2>2
<1>3. CASE SaveUser(r)
  <2>1. pc[r] = "save" /\ Update(r, "save", "patchStatus", "endpoint", Held(r))
    BY <1>3 DEF SaveUser, Update, Goto
  <2>2. Held(r) \in UserVersions
    BY <2>1, HeldType DEF HasUser
  <2>3. Updated(r, "patchStatus", "endpoint")
    BY <2>1, <2>2, UpdateType DEF Steps
  <2> QED
    BY <2>1, <2>3 DEF Updated, TypeOK, HasUser, HasSecret, Steps
<1>4. CASE PatchStatus(r)
  <2>1. /\ pc[r] = "patchStatus" /\ pc' = [pc EXCEPT ![r] = "endpoint"]
        /\ users' = Append(users, [Last(users) EXCEPT !.lastSeen = "set"])
        /\ user' = [user EXCEPT ![r] = Len(users) + 1]
    BY <1>4 DEF PatchStatus, Goto, HoldUser
  <2>2. Last(users) \in UserVersions
    <3>1. user[r] \in 1 .. Len(users) /\ Len(users) \in Nat
      BY <2>1 DEF TypeOK, HasUser
    <3> QED
      BY <3>1 DEF TypeOK, Last
  <2>3. /\ users' \in Seq(UserVersions) /\ Len(users') = Len(users) + 1
        /\ Len(users) \in Nat
    BY <2>1, <2>2, ChangedUser, Appended DEF TypeOK
  <2> QED
    BY <2>1, <2>3 DEF TypeOK, HasUser, HasSecret, Steps
<1>5. CASE SetReference(r)
  <2> DEFINE new == [Held(r) EXCEPT !.reference = "secret"]
  <2>1. pc[r] = "setReference" /\ Update(r, "setReference", "updateSecret", "failed", new)
    BY <1>5 DEF SetReference, Update, Goto
  <2>2. new \in UserVersions
    BY <2>1, HeldType, ChangedUser DEF HasUser
  <2> HIDE DEF new
  <2>3. Updated(r, "updateSecret", "failed")
    BY <2>1, <2>2, UpdateType DEF Steps
  <2> QED
    BY <2>1, <2>3 DEF Updated, TypeOK, HasUser, HasSecret, Steps
<1>6. CASE \E s \in Settings : PatchSettings(r, s)
  <2> PICK s \in Settings : PatchSettings(r, s)
    BY <1>6
  <2> DEFINE new == [Held(r) EXCEPT !.settings = s]
  <2>1. pc[r] = "endpoint" /\ Update(r, "endpoint", "done", "failed", new)
    BY DEF PatchSettings, Update, Goto
  <2>2. new \in UserVersions
    BY <2>1, HeldType, ChangedUser DEF HasUser
  <2> HIDE DEF new
  <2>3. Updated(r, "done", "failed")
    BY <2>1, <2>2, UpdateType DEF Steps
  <2> QED
    BY <2>1, <2>3 DEF Updated, TypeOK, HasUser, HasSecret, Steps
<1> QED
  BY <1>2, <1>3, <1>4, <1>5, <1>6

\* Steps that write the secret.
LEMMA SecretWriteType ==
    ASSUME TypeOK, NEW r \in Requests, CreateSecret(r) \/ UpdateSecret(r)
    PROVE  TypeOK'
<1>1. /\ users' = users /\ caches' = caches /\ user' = user
      /\ expired' = expired /\ loggedOut' = loggedOut /\ saved' = saved
  BY DEF CreateSecret, UpdateSecret, clock
<1>2. /\ secrets' \in Seq(SUBSET Tokens)
      /\ Len(secrets) \in Nat /\ Len(secrets') \in {Len(secrets), Len(secrets) + 1}
  <2>1. CASE CreateSecret(r)
    <3>1. secrets' = secrets \/ (secrets = <<>> /\ secrets' = <<{}>>)
      BY <2>1 DEF CreateSecret
    <3>2. {} \in SUBSET Tokens /\ Len(<<{}>>) = 1
      OBVIOUS
    <3>3. <<{}>> \in Seq(SUBSET Tokens)
      BY <3>2
    <3>4. CASE secrets = <<>> /\ secrets' = <<{}>>
      BY <3>2, <3>3, <3>4
    <3>5. CASE secrets' = secrets
      BY <3>5 DEF TypeOK
    <3> QED
      BY <3>1, <3>4, <3>5
  <2>2. CASE UpdateSecret(r)
    <3> DEFINE new == clearExpiredTokens(secrets[secret[r]] \cup {tokenOf[r]})
    <3>1. pc[r] = "updateSecret" /\ (secrets' = secrets \/ secrets' = Append(secrets, new))
      BY <2>2 DEF UpdateSecret, Goto
    <3>2. new \in SUBSET Tokens
      <4>1. secret[r] \in 1 .. Len(secrets)
        BY <3>1 DEF TypeOK, HasSecret
      <4>2. secrets[secret[r]] \in SUBSET Tokens /\ tokenOf[r] \in Tokens
        BY <4>1, BlacklistAssumption DEF TypeOK
      <4> QED
        BY <4>2 DEF clearExpiredTokens
    <3> HIDE DEF new
    <3>3. secrets \in Seq(SUBSET Tokens) /\ Len(secrets) \in Nat
      BY DEF TypeOK
    <3>4. CASE secrets' = secrets
      BY <3>3, <3>4
    <3>5. CASE secrets' = Append(secrets, new)
      <4>1. /\ Append(secrets, new) \in Seq(SUBSET Tokens)
            /\ Len(Append(secrets, new)) = Len(secrets) + 1
        BY <3>2, <3>3, Appended
      <4> QED
        BY <3>3, <3>5, <4>1
    <3> QED
      BY <3>1, <3>4, <3>5
  <2> QED
    BY <2>1, <2>2
<1>3. /\ pc' \in [Requests -> Steps]
      /\ secret' \in [Requests -> 0 .. Len(secrets')]
      /\ \A q \in Requests : HasSecret(q)' => secret'[q] > 0
      /\ \A q \in Requests : HasUser(q)' => HasUser(q)
  <2>1. CASE CreateSecret(r) /\ secrets = <<>>
    <3>1. /\ pc[r] = "createSecret" /\ secret' = [secret EXCEPT ![r] = 1]
          /\ \E to \in {"updateSecret", "setReference"} : pc' = [pc EXCEPT ![r] = to]
      BY <2>1 DEF CreateSecret, Goto, HoldSecret
    <3>2. Len(secrets') = 1 /\ Len(secrets) = 0
      BY <2>1 DEF CreateSecret
    <3> QED
      BY <3>1, <3>2 DEF TypeOK, HasUser, HasSecret, Steps
  <2>2. CASE UpdateSecret(r) \/ (CreateSecret(r) /\ secrets # <<>>)
    <3>1. /\ pc[r] \in {"createSecret", "updateSecret"} /\ secret' = secret
          /\ pc' = [pc EXCEPT ![r] = "failed"]
             \/ (pc[r] = "updateSecret" /\ pc' = [pc EXCEPT ![r] = "respond"])
      BY <2>2 DEF UpdateSecret, CreateSecret, Goto
    <3>2. secret' \in [Requests -> 0 .. Len(secrets')]
      BY <1>2, <3>1 DEF TypeOK
    <3>3. \A q \in Requests : (HasSecret(q)' => HasSecret(q)) /\ (HasUser(q)' => HasUser(q))
      BY <3>1 DEF TypeOK, HasUser, HasSecret
    <3>4. pc' \in [Requests -> Steps]
      BY <3>1 DEF TypeOK, Steps
    <3> QED
      BY <3>1, <3>2, <3>3, <3>4 DEF TypeOK
  <2> QED
    BY <2>1, <2>2
<1> QED
  BY <1>1, <1>2, <1>3 DEF TypeOK, caches

\* Every step preserves the types.
LEMMA TypeStep == TypeOK /\ [Next]_vars => TypeOK'
<1> SUFFICES ASSUME TypeOK, [Next]_vars PROVE TypeOK'
  OBVIOUS
<1>1. ASSUME NEW r \in Requests, Handle(r) PROVE TypeOK'
  BY <1>1, ReadStepType, UserWriteType, SecretWriteType DEF Handle
<1>2. CASE SyncUser \/ SyncSecret
  BY <1>2 DEF SyncUser, SyncSecret, TypeOK, clock, HasUser, HasSecret
<1>3. ASSUME NEW t \in Tokens, Expire(t) PROVE TypeOK'
  BY <1>3 DEF Expire, TypeOK, caches, HasUser, HasSecret
<1>4. CASE UNCHANGED vars
  BY <1>4 DEF vars, TypeOK, HasUser, HasSecret
<1> QED
  BY <1>1, <1>2, <1>3, <1>4 DEF Next

-----------------------------------------------------------------------------
(* What a step can do to the two objects.                                  *)

\* new may follow the latest version of the user: it keeps the reference
\* or sets it when there is a secret, and it keeps the settings or saves
\* others.
Follows(new) ==
    /\ new \in UserVersions
    /\ new.reference = Last(users).reference \/ (new.reference = "secret" /\ secrets # <<>>)
    /\ \/ new.settings = Last(users).settings /\ saved' = saved
       \/ new.settings = saved'

\* An Update that does not conflict changes the latest version.
LEMMA UpdateStep ==
    ASSUME TypeOK, NEW r \in Requests, HasUser(r), NEW from, NEW to, NEW onConflict,
           NEW new, Update(r, from, to, onConflict, new)
    PROVE  \/ users' = users /\ user[r] # Len(users)
           \/ /\ users # <<>> /\ users' = Append(users, new)
              /\ user[r] = Len(users) /\ Held(r) = Last(users)
<1>1. user[r] \in 1 .. Len(users) /\ Len(users) \in Nat
  BY HeldType
<1>2. users # <<>>
  BY <1>1, Exists DEF TypeOK
<1> QED
  BY <1>1, <1>2 DEF Update, Held, Last

\* Whatever a step does to the user object, it appends a version that may
\* follow the latest one, and the first version is a new user's.
LEMMA UserStep ==
    ASSUME TypeOK, [Next]_vars
    PROVE  \/ users' = users /\ saved' = saved
           \/ users = <<>> /\ users' = <<NewUser>> /\ saved' = saved
           \/ users # <<>> /\ \E new : Follows(new) /\ users' = Append(users, new)
<1>1. ASSUME NEW r \in Requests, Handle(r)
      PROVE  \/ users' = users /\ saved' = saved
             \/ users = <<>> /\ users' = <<NewUser>> /\ saved' = saved
             \/ users # <<>> /\ \E new : Follows(new) /\ users' = Append(users, new)
  <2>1. CASE \/ Verify(r) \/ FindUser(r) \/ CheckBlocked(r) \/ GetUser(r)
             \/ SkipLastSeen(r) \/ SaveUnchanged(r) \/ GetSecret(r)
             \/ Respond(r) \/ CallFails(r) \/ CreateSecret(r) \/ UpdateSecret(r)
             \/ CreateUser(r)
    BY <2>1 DEF Verify, FindUser, CheckBlocked, GetUser, SkipLastSeen, SaveUnchanged,
                GetSecret, Respond, CallFails, CreateSecret, UpdateSecret, CreateUser
  <2>2. CASE SaveUser(r)
    <3>1. /\ HasUser(r) /\ saved' = saved
          /\ Update(r, "save", "patchStatus", "endpoint", Held(r))
      BY <2>2 DEF SaveUser, Update, Goto, HasUser
    <3>2. \/ users' = users
          \/ users # <<>> /\ users' = Append(users, Held(r)) /\ Held(r) = Last(users)
      BY <3>1, UpdateStep
    <3>3. Held(r) = Last(users) => Follows(Held(r))
      BY <3>1, HeldType DEF Follows
    <3> QED
      BY <3>1, <3>2, <3>3
  <2>3. CASE PatchStatus(r)
    <3> DEFINE new == [Last(users) EXCEPT !.lastSeen = "set"]
    <3>1. HasUser(r) /\ saved' = saved /\ users' = Append(users, new)
      BY <2>3 DEF PatchStatus, Goto, HasUser
    <3>2. users # <<>> /\ Last(users) \in UserVersions
      BY <3>1, HeldType, Exists DEF TypeOK
    <3>3. /\ new \in UserVersions /\ new.reference = Last(users).reference
          /\ new.settings = Last(users).settings
      BY <3>2, ChangedUser DEF UserVersions
    <3> HIDE DEF new
    <3> QED
      BY <3>1, <3>2, <3>3 DEF Follows
  <2>4. CASE SetReference(r)
    <3> DEFINE new == [Held(r) EXCEPT !.reference = "secret"]
    <3>1. /\ HasUser(r) /\ HasSecret(r) /\ saved' = saved
          /\ Update(r, "setReference", "updateSecret", "failed", new)
      BY <2>4 DEF SetReference, Update, Goto, HasUser, HasSecret
    <3>2. \/ users' = users
          \/ users # <<>> /\ users' = Append(users, new) /\ Held(r) = Last(users)
      BY <3>1, UpdateStep
    <3>3. secrets # <<>>
      <4>1. secret[r] > 0 /\ secret[r] \in 0 .. Len(secrets) /\ Len(secrets) \in Nat
        BY <3>1 DEF TypeOK
      <4> QED
        BY <4>1, Exists DEF TypeOK
    <3>4. /\ new \in UserVersions /\ new.reference = "secret"
          /\ new.settings = Held(r).settings
      BY <3>1, HeldType, ChangedUser DEF UserVersions
    <3> HIDE DEF new
    <3> QED
      BY <3>1, <3>2, <3>3, <3>4 DEF Follows
  <2>5. CASE \E s \in Settings : PatchSettings(r, s)
    <3> PICK s \in Settings : PatchSettings(r, s)
      BY <2>5
    <3> DEFINE new == [Held(r) EXCEPT !.settings = s]
    <3>1. /\ HasUser(r) /\ saved' = IF user[r] = Len(users) THEN s ELSE saved
          /\ Update(r, "endpoint", "done", "failed", new)
      BY DEF PatchSettings, Update, Goto, HasUser
    <3>2. \/ users' = users /\ user[r] # Len(users)
          \/ /\ users # <<>> /\ users' = Append(users, new)
             /\ user[r] = Len(users) /\ Held(r) = Last(users)
      BY <3>1, UpdateStep
    <3>3. /\ new \in UserVersions /\ new.settings = s
          /\ new.reference = Held(r).reference
      BY <3>1, HeldType, ChangedUser DEF UserVersions
    <3> HIDE DEF new
    <3> QED
      BY <3>1, <3>2, <3>3 DEF Follows
  <2> QED
    BY <1>1, <2>1, <2>2, <2>3, <2>4, <2>5 DEF Handle
<1>2. CASE UNCHANGED vars \/ SyncUser \/ SyncSecret \/ \E t \in Tokens : Expire(t)
  BY <1>2 DEF vars, SyncUser, SyncSecret, Expire
<1> QED
  BY <1>1, <1>2 DEF Next

\* Whatever a step does to the secret, it creates it, or a logout that
\* holds the latest version adds its token and drops expired ones.
LEMMA SecretStep ==
    ASSUME TypeOK, [Next]_vars
    PROVE  \/ secrets' = secrets
           \/ secrets = <<>> /\ secrets' = <<{}>>
           \/ /\ secrets # <<>>
              /\ \E r \in Requests :
                    secrets' = Append(secrets,
                        clearExpiredTokens(Last(secrets) \cup {tokenOf[r]}))
<1>1. ASSUME NEW r \in Requests, UpdateSecret(r), secrets' # secrets
      PROVE  /\ secrets # <<>>
             /\ secrets' = Append(secrets,
                    clearExpiredTokens(Last(secrets) \cup {tokenOf[r]}))
  <2>1. secret[r] = Len(secrets) /\ secret[r] > 0 /\ Len(secrets) \in Nat
    BY <1>1 DEF UpdateSecret, Goto, TypeOK, HasSecret
  <2> QED
    BY <1>1, <2>1, Exists DEF UpdateSecret, Last, TypeOK
<1>2. ASSUME NEW r \in Requests, Handle(r), ~UpdateSecret(r)
      PROVE  secrets' = secrets \/ (secrets = <<>> /\ secrets' = <<{}>>)
  BY <1>2 DEF Handle, Verify, FindUser, CheckBlocked, GetUser, SkipLastSeen, SaveUnchanged,
              GetSecret, Respond, CallFails, CreateSecret, CreateUser, SaveUser, PatchStatus,
              SetReference, PatchSettings
<1>3. CASE UNCHANGED vars \/ SyncUser \/ SyncSecret \/ \E t \in Tokens : Expire(t)
  BY <1>3 DEF vars, SyncUser, SyncSecret, Expire
<1> QED
  BY <1>1, <1>2, <1>3 DEF Next

\* Versions, once written, do not change; an object is never removed.
LEMMA VersionsStay ==
    ASSUME TypeOK, [Next]_vars
    PROVE  /\ Len(users) \in Nat /\ Len(users') \in Nat /\ Len(users) <= Len(users')
           /\ \A i \in 1 .. Len(users) : users'[i] = users[i]
           /\ users # <<>> => users' # <<>>
           /\ secrets # <<>> => secrets' # <<>>
<1>1. TypeOK'
  BY TypeStep
<1>2. Len(users) \in Nat /\ Len(users') \in Nat
  BY <1>1 DEF TypeOK
<1>3. Len(users) <= Len(users') /\ \A i \in 1 .. Len(users) : users'[i] = users[i]
  <2>1. CASE users = <<>>
    BY <1>2, <2>1
  <2>2. CASE users # <<>> /\ \E new : Follows(new) /\ users' = Append(users, new)
    BY <2>2, Appended DEF TypeOK, Follows
  <2>3. CASE users' = users
    BY <1>2, <2>3
  <2> QED
    BY <2>1, <2>2, <2>3, UserStep
<1>4. secrets # <<>> => secrets' # <<>>
  <2>1. ASSUME NEW r \in Requests, secrets # <<>>,
               secrets' = Append(secrets, clearExpiredTokens(Last(secrets) \cup {tokenOf[r]}))
        PROVE  secrets' # <<>>
    <3> DEFINE new == clearExpiredTokens(Last(secrets) \cup {tokenOf[r]})
    <3>1. new \in SUBSET Tokens
      BY <2>1, Exists, BlacklistAssumption DEF TypeOK, clearExpiredTokens
    <3> HIDE DEF new
    <3>2. Len(secrets') = Len(secrets) + 1 /\ Len(secrets) \in Nat
      BY <2>1, <3>1, Appended DEF TypeOK, new
    <3> QED
      BY <1>1, <3>2, Exists DEF TypeOK
  <2> QED
    BY <2>1, SecretStep
<1> QED
  BY <1>1, <1>2, <1>3, <1>4, Exists DEF TypeOK

-----------------------------------------------------------------------------
(* The invariant.                                                          *)

\* The parts that speak of the two objects only.
LEMMA ObjectsStep ==
    ASSUME BlacklistInv, [Next]_vars
    PROVE  ReferenceStays' /\ ReferenceResolves' /\ SettingsAreKept'
<1> USE DEF BlacklistInv
<1>1. CASE users' = users /\ saved' = saved
  BY <1>1, VersionsStay DEF ReferenceStays, ReferenceResolves, SettingsAreKept, Last
<1>2. CASE users = <<>> /\ users' = <<NewUser>> /\ saved' = saved
  <2>1. Len(users') = 1 /\ users'[1] = NewUser /\ Last(users)' = NewUser
    BY <1>2 DEF Last
  <2>2. saved = NoSettings
    BY <1>2 DEF SettingsAreKept
  <2> QED
    BY <1>2, <2>1, <2>2 DEF ReferenceStays, ReferenceResolves, SettingsAreKept, NewUser
<1>3. CASE users # <<>> /\ \E new : Follows(new) /\ users' = Append(users, new)
  <2> PICK new : Follows(new) /\ users' = Append(users, new)
    BY <1>3
  <2>1. /\ Len(users') = Len(users) + 1 /\ Len(users) \in Nat /\ Len(users) > 0
        /\ users'[Len(users) + 1] = new
        /\ \A i \in 1 .. Len(users) : users'[i] = users[i]
    <3>1. new \in UserVersions /\ users \in Seq(UserVersions) /\ Len(users) > 0
      BY <1>3, Exists DEF TypeOK, Follows
    <3> QED
      BY <3>1, Appended
  <2>2. Last(users)' = new /\ Last(users) = users[Len(users)]
    BY <2>1 DEF Last
  <2>3. Last(users).reference = "secret" => new.reference = "secret"
    BY DEF Follows
  <2>4. ReferenceStays'
    BY <2>1, <2>2, <2>3 DEF ReferenceStays
  <2>5. ReferenceResolves'
    BY <1>3, <2>2, VersionsStay DEF ReferenceResolves, Follows
  <2>6. SettingsAreKept'
    BY <1>3, <2>2 DEF SettingsAreKept, Follows
  <2> QED
    BY <2>4, <2>5, <2>6
<1> QED
  BY <1>1, <1>2, <1>3, UserStep

\* A token on the blacklist stays there until it expires.
LEMMA BlacklistedStays ==
    ASSUME BlacklistInv, [Next]_vars, NEW t \in Tokens, t \notin expired, Blacklisted(t)
    PROVE  Blacklisted(t)'
<1> USE DEF BlacklistInv
<1>1. users' # <<>> /\ Last(users)'.reference = "secret"
  <2>1. Len(users) > 0 /\ users[Len(users)].reference = "secret"
    BY Exists DEF Blacklisted, Last, TypeOK
  <2>2. users'[Len(users)].reference = "secret"
    BY <2>1, VersionsStay
  <2> QED
    BY <2>1, <2>2, VersionsStay, ObjectsStep DEF ReferenceStays, Last, Blacklisted
<1>2. secrets' # <<>> /\ t \in Last(secrets)'
  <2>1. CASE secrets' = secrets
    BY <2>1 DEF Blacklisted, Last
  <2>2. ASSUME NEW r \in Requests, secrets # <<>>,
               secrets' = Append(secrets, clearExpiredTokens(Last(secrets) \cup {tokenOf[r]}))
        PROVE  t \in Last(secrets)'
    <3> DEFINE new == clearExpiredTokens(Last(secrets) \cup {tokenOf[r]})
    <3>1. new \in SUBSET Tokens /\ t \in new
      BY <2>2, Exists, BlacklistAssumption DEF TypeOK, clearExpiredTokens, Blacklisted
    <3> HIDE DEF new
    <3>2. /\ Len(secrets') = Len(secrets) + 1
          /\ secrets'[Len(secrets) + 1] = new
      BY <2>2, <3>1, Appended DEF TypeOK, new
    <3> QED
      BY <3>1, <3>2 DEF Last
  <2> QED
    BY <2>1, <2>2, SecretStep, VersionsStay DEF Blacklisted
<1> QED
  BY <1>1, <1>2 DEF Blacklisted, Last

\* A request that did not move and holds the same user.
LEMMA OtherRequests ==
    ASSUME TypeOK, NEW r \in Requests, Handle(r), NEW q \in Requests, q # r
    PROVE  pc'[q] = pc[q] /\ user'[q] = user[q]
  BY DEF TypeOK, Handle, Verify, FindUser, CheckBlocked, GetUser, CreateUser,
         SkipLastSeen, SaveUnchanged, SaveUser, PatchStatus, PatchSettings, GetSecret,
         CreateSecret, SetReference, UpdateSecret, Respond, CallFails,
         Update, Goto, HoldUser

\* The part that follows a logout from its reference to its tokens.
LEMMA HeldStep ==
    ASSUME BlacklistInv, [Next]_vars
    PROVE  ReferenceIsHeld'
<1> USE DEF BlacklistInv
<1> SUFFICES ASSUME NEW q \in Requests, pc'[q] \in {"updateSecret", "respond"}
             PROVE  users'[user'[q]].reference = "secret"
  BY DEF ReferenceIsHeld, Held
<1>1. ASSUME HasUser(q), users[user[q]].reference = "secret", user'[q] = user[q]
      PROVE  users'[user'[q]].reference = "secret"
  BY <1>1, HeldType, VersionsStay
<1>2. CASE pc'[q] = pc[q] /\ user'[q] = user[q]
  <2>1. HasUser(q) /\ users[user[q]].reference = "secret"
    BY <1>2 DEF HasUser, ReferenceIsHeld, Held
  <2> QED
    BY <1>1, <1>2, <2>1
<1>3. CASE Handle(q)
  <2>1. CASE GetSecret(q) \/ CreateSecret(q) \/ UpdateSecret(q)
    <3>1. HasUser(q) /\ user' = user
      BY <2>1 DEF GetSecret, CreateSecret, UpdateSecret, Goto, HasUser
    <3>2. users[user[q]].reference = "secret"
      BY <2>1 DEF GetSecret, CreateSecret, UpdateSecret, Goto, Held,
                  ReferenceIsHeld, TypeOK
    <3> QED
      BY <1>1, <3>1, <3>2
  <2>2. CASE SetReference(q)
    <3> DEFINE new == [Held(q) EXCEPT !.reference = "secret"]
    <3>1. /\ HasUser(q) /\ users' = Append(users, new)
          /\ user' = [user EXCEPT ![q] = Len(users) + 1]
      BY <2>2 DEF SetReference, Update, Goto, HasUser, HoldUser, TypeOK
    <3>2. new \in UserVersions /\ new.reference = "secret"
      BY <3>1, HeldType, ChangedUser DEF UserVersions
    <3> HIDE DEF new
    <3>3. users'[Len(users) + 1] = new /\ user'[q] = Len(users) + 1
      BY <3>1, <3>2, Appended DEF TypeOK
    <3> QED
      BY <3>2, <3>3
  <2>3. CASE \/ Verify(q) \/ FindUser(q) \/ CheckBlocked(q) \/ GetUser(q)
             \/ CreateUser(q) \/ SkipLastSeen(q) \/ SaveUnchanged(q)
             \/ SaveUser(q) \/ PatchStatus(q)
             \/ (\E s \in Settings : PatchSettings(q, s)) \/ Respond(q) \/ CallFails(q)
    <3>1. pc'[q] \notin {"updateSecret", "respond"}
      BY <2>3 DEF Verify, FindUser, CheckBlocked, GetUser, CreateUser, SkipLastSeen,
                  SaveUnchanged, SaveUser, PatchStatus, PatchSettings, Respond, CallFails,
                  Update, Goto, TypeOK
    <3> QED
      BY <3>1
  <2> QED
    BY <1>3, <2>1, <2>2, <2>3 DEF Handle
<1>4. CASE \E r \in Requests : r # q /\ Handle(r)
  BY <1>2, <1>4, OtherRequests
<1>5. CASE UNCHANGED vars \/ SyncUser \/ SyncSecret \/ \E t \in Tokens : Expire(t)
  BY <1>2, <1>5 DEF vars, SyncUser, SyncSecret, Expire
<1> QED
  BY <1>3, <1>4, <1>5 DEF Next

\* A logout that has written its token is on the blacklist.
LEMMA EarnedStep ==
    ASSUME BlacklistInv, [Next]_vars
    PROVE  AnswersAreEarned'
<1> USE DEF BlacklistInv
<1> SUFFICES ASSUME NEW q \in Requests, pc'[q] = "respond", tokenOf[q] \notin expired'
             PROVE  Blacklisted(tokenOf[q])'
  BY DEF AnswersAreEarned, Blacklisted
<1>1. tokenOf[q] \in Tokens /\ tokenOf[q] \notin expired
  BY BlacklistAssumption
     DEF Next, vars, Handle, Verify, FindUser, CheckBlocked, GetUser, CreateUser,
         SkipLastSeen, SaveUnchanged, SaveUser, PatchStatus, PatchSettings, GetSecret,
         CreateSecret, SetReference, UpdateSecret, Respond, CallFails,
         SyncUser, SyncSecret, Expire, clock
<1>2. CASE pc[q] = "respond"
  BY <1>1, <1>2, BlacklistedStays DEF AnswersAreEarned
<1>3. CASE UpdateSecret(q)
  <2> DEFINE new == clearExpiredTokens(Last(secrets) \cup {tokenOf[q]})
  <2>1. /\ pc[q] = "updateSecret" /\ secret[q] = Len(secrets) /\ secret[q] > 0
        /\ users' = users /\ user' = user
        /\ secrets' = Append(secrets, new)
    BY <1>3 DEF UpdateSecret, Goto, TypeOK, HasSecret, Last
  <2>2. new \in SUBSET Tokens /\ tokenOf[q] \in new
    <3>1. Last(secrets) \in SUBSET Tokens
      BY <2>1, Exists DEF TypeOK
    <3> QED
      BY <1>1, <3>1 DEF clearExpiredTokens
  <2> HIDE DEF new
  <2>3. /\ Len(secrets') = Len(secrets) + 1 /\ secrets'[Len(secrets) + 1] = new
        /\ Len(secrets) \in Nat
    BY <2>1, <2>2, Appended DEF TypeOK
  <2>4. secrets' # <<>> /\ tokenOf[q] \in Last(secrets)'
    BY <2>2, <2>3 DEF Last
  <2>5. users # <<>> /\ Last(users).reference = "secret"
    <3>1. user[q] \in 1 .. Len(users) /\ Len(users) \in Nat
      BY <2>1, HeldType DEF HasUser
    <3>2. users[user[q]].reference = "secret"
      BY <2>1 DEF ReferenceIsHeld, Held
    <3>3. Len(users) \in 1 .. Len(users) /\ user[q] <= Len(users)
      BY <3>1
    <3> QED
      BY <3>1, <3>2, <3>3, Exists DEF ReferenceStays, Last, TypeOK
  <2> QED
    BY <2>1, <2>4, <2>5 DEF Blacklisted, Last
<1>4. CASE pc[q] # "respond" /\ ~UpdateSecret(q)
  <2>1. ASSUME Handle(q) PROVE pc'[q] # "respond"
    BY <1>4, <2>1
       DEF TypeOK, Handle, Verify, FindUser, CheckBlocked, GetUser, CreateUser,
           SkipLastSeen, SaveUnchanged, SaveUser, PatchStatus, PatchSettings, GetSecret,
           CreateSecret, SetReference, Respond, CallFails, Update, Goto
  <2>2. ASSUME NEW r \in Requests, r # q, Handle(r) PROVE pc'[q] # "respond"
    BY <1>4, <2>2, OtherRequests
  <2>3. CASE UNCHANGED vars \/ SyncUser \/ SyncSecret \/ \E t \in Tokens : Expire(t)
    BY <1>4, <2>3 DEF vars, SyncUser, SyncSecret, Expire
  <2> QED
    BY <2>1, <2>2, <2>3 DEF Next
<1> QED
  BY <1>2, <1>3, <1>4

\* A logout answered with success stays in effect.
LEMMA LoggedOutStep ==
    ASSUME BlacklistInv, [Next]_vars
    PROVE  LoggedOutStaysBlacklisted'
<1> USE DEF BlacklistInv
<1>1. /\ expired \subseteq expired'
      /\ \/ loggedOut' = loggedOut
         \/ \E r \in Requests : pc[r] = "respond" /\ loggedOut' = loggedOut \cup {tokenOf[r]}
  BY DEF Next, vars, Handle, Verify, FindUser, CheckBlocked, GetUser, CreateUser,
         SkipLastSeen, SaveUnchanged, SaveUser, PatchStatus, PatchSettings, GetSecret,
         CreateSecret, SetReference, UpdateSecret, Respond, CallFails,
         SyncUser, SyncSecret, Expire, clock, Goto
<1>2. ASSUME NEW t \in loggedOut', t \notin expired'
      PROVE  Blacklisted(t)'
  <2>1. t \in Tokens /\ t \notin expired
    BY <1>1, <1>2, TypeStep DEF TypeOK
  <2>2. Blacklisted(t)
    BY <1>1, <1>2, <2>1 DEF LoggedOutStaysBlacklisted, AnswersAreEarned
  <2> QED
    BY <2>1, <2>2, BlacklistedStays
<1> QED
  BY <1>2 DEF LoggedOutStaysBlacklisted, Blacklisted

\* The inductive invariant of TokenBlacklist, for any number of requests
\* in flight: the types, the reference that is never lost, and the effect
\* of each logout that was or is about to be answered.
THEOREM BlacklistInvariant == Spec => []BlacklistInv
<1>1. BlacklistInv /\ [Next]_vars => BlacklistInv'
  BY TypeStep, ObjectsStep, HeldStep, EarnedStep, LoggedOutStep DEF BlacklistInv
<1> QED
  BY BlacklistInit, <1>1, PTL DEF Spec

\* No step uses a user or a secret it has not found.
THEOREM BlacklistTypeCorrect == Spec => []TypeOK
<1>1. BlacklistInv => TypeOK
  BY DEF BlacklistInv
<1> QED
  BY BlacklistInvariant, <1>1, PTL

\* A successful logout is not undone by any concurrent request.
THEOREM LogoutIsFinal == Spec => []LoggedOutStaysBlacklisted
<1>1. BlacklistInv => LoggedOutStaysBlacklisted
  BY DEF BlacklistInv
<1> QED
  BY BlacklistInvariant, <1>1, PTL

\* The user never refers to a secret that is not there.
THEOREM ReferenceIsSound == Spec => []ReferenceResolves
<1>1. BlacklistInv => ReferenceResolves
  BY DEF BlacklistInv
<1> QED
  BY BlacklistInvariant, <1>1, PTL

\* No request writes back settings it read before others were saved.
THEOREM NoLostSettings == Spec => []SettingsAreKept
<1>1. BlacklistInv => SettingsAreKept
  BY DEF BlacklistInv
<1> QED
  BY BlacklistInvariant, <1>1, PTL
=============================================================================
