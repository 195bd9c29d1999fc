--------------------------- MODULE TokenBlacklist ---------------------------
(***************************************************************************)
(* Authenticating a request, recording its user and logging out            *)
(* (modules/api/pkg/handler/middleware/middleware.go and                   *)
(* modules/api/pkg/provider/kubernetes/user.go), for one user.             *)
(*                                                                         *)
(* A logout writes two objects, a secret with the refused tokens and the   *)
(* reference to it in the user object, while other requests of the user    *)
(* write the user object too.  Reads are served by an informer cache that  *)
(* lags behind; an Update is refused as a conflict unless it is based on   *)
(* the latest version.                                                     *)
(*                                                                         *)
(* An object is the sequence of its versions, empty while it does not      *)
(* exist.  A resourceVersion is a position in that sequence: a cache, and  *)
(* a request that holds a copy, are positions (0: not found).              *)
(***************************************************************************)
EXTENDS Naturals, Sequences

CONSTANTS
    Requests,   \* HTTP requests of the user
    Tokens,     \* bearer tokens of the user
    tokenOf,    \* the token a request carries
    Settings,   \* values of Spec.Settings
    NoSettings  \* Spec.Settings of a new user

ASSUME BlacklistAssumption ==
    /\ tokenOf \in [Requests -> Tokens]
    /\ NoSettings \notin Settings

VARIABLES
    users,        \* versions of the User object
    secrets,      \* versions of the secret: the tokens it holds
    userCache,    \* version of the user the informer cache has
    secretCache,  \* version of the secret the informer cache has
    pc,           \* the step a request is at
    user,         \* version of the user a request holds
    secret,       \* version of the secret a request holds
    expired,      \* tokens past their expiry
    loggedOut,    \* tokens whose logout was answered with success
    saved         \* the settings saved last

vars == <<users, secrets, userCache, secretCache, pc, user, secret,
          expired, loggedOut, saved>>
caches == <<userCache, secretCache>>
clock == <<expired, loggedOut>>

-----------------------------------------------------------------------------
Last(log) == log[Len(log)]

\* CreateUser: no settings, no tokens reference, never seen.
NewUser == [settings |-> NoSettings, reference |-> "nil", lastSeen |-> "zero"]

Init ==
    /\ users = <<>> /\ secrets = <<>>
    /\ userCache = 0 /\ secretCache = 0
    /\ pc = [r \in Requests |-> "idle"]
    /\ user = [r \in Requests |-> 0]
    /\ secret = [r \in Requests |-> 0]
    /\ expired = {} /\ loggedOut = {}
    /\ saved = NoSettings

Goto(r, from, to) == pc[r] = from /\ pc' = [pc EXCEPT ![r] = to]

\* The request keeps version v of the user or of the secret.
HoldUser(r, v) == user' = [user EXCEPT ![r] = v]
HoldSecret(r, v) == secret' = [secret EXCEPT ![r] = v]

Held(r) == users[user[r]]

\* An Update that overwrites whatever there is.
UpdateBlindly(r, from, to, onConflict, new) ==
    /\ Goto(r, from, to)
    /\ users' = Append(users, new)
    /\ HoldUser(r, Len(users) + 1)

\* client.Update of the user a request holds, to new.
Update(r, from, to, onConflict, new) ==
    IF user[r] = Len(users)
    THEN /\ Goto(r, from, to)
         /\ users' = Append(users, new)
         /\ HoldUser(r, Len(users) + 1)
    ELSE /\ Goto(r, from, onConflict)
         /\ UNCHANGED <<users, user>>

-----------------------------------------------------------------------------
(* TokenVerifier.                                                          *)

\* The token's signature and expiry are good.
Verify(r) ==
    /\ tokenOf[r] \notin expired
    /\ Goto(r, "idle", "findUser")
    /\ UNCHANGED <<users, secrets, caches, user, secret, clock, saved>>

\* checkBlockedTokens: an unknown user, or one without reference, passes.
FindUser(r) ==
    /\ Goto(r, "findUser",
            IF userCache > 0 /\ users[userCache].reference = "secret"
            THEN "checkBlocked" ELSE "getUser")
    /\ UNCHANGED <<users, secrets, caches, user, secret, clock, saved>>

\* GetInvalidatedTokens; a secret that is not found fails the request.
CheckBlocked(r) ==
    /\ Goto(r, "checkBlocked",
            IF secretCache = 0 THEN "failed"
            ELSE IF tokenOf[r] \in secrets[secretCache] THEN "refused" ELSE "getUser")
    /\ UNCHANGED <<users, secrets, caches, user, secret, clock, saved>>

-----------------------------------------------------------------------------
(* UserSaver.                                                              *)

\* UserByEmail, before CreateUser and again after its AlreadyExists.
GetUser(r) ==
    /\ \/ Goto(r, "getUser", IF userCache > 0 THEN "save" ELSE "createUser")
       \/ Goto(r, "getUserAgain", IF userCache > 0 THEN "save" ELSE "failed")
    /\ HoldUser(r, userCache)
    /\ UNCHANGED <<users, secrets, caches, secret, clock, saved>>

CreateUser(r) ==
    /\ IF users = <<>>
       THEN /\ Goto(r, "createUser", "save")
            /\ users' = <<NewUser>>
            /\ HoldUser(r, 1)
       ELSE /\ Goto(r, "createUser", "getUserAgain")
            /\ UNCHANGED <<users, user>>
    /\ UNCHANGED <<secrets, caches, secret, clock, saved>>

\* LastSeen is less than a minute old.
SkipLastSeen(r) ==
    /\ Goto(r, "save", "endpoint")
    /\ Held(r).lastSeen = "set"
    /\ UNCHANGED <<users, secrets, caches, user, secret, clock, saved>>

\* The Update in UpdateUser of an object that already has the token's
\* groups: the API server makes no new version of it.
SaveUnchanged(r) ==
    /\ Goto(r, "save", "patchStatus")
    /\ user[r] = Len(users)
    /\ UNCHANGED <<users, secrets, caches, user, secret, clock, saved>>

\* The Update in UpdateUser, with other groups; a conflict is ignored and
\* the request goes on with the version it read.
SaveUser(r) ==
    /\ Update(r, "save", "patchStatus", "endpoint", Held(r))
    /\ UNCHANGED <<secrets, caches, secret, clock, saved>>

\* The status patch in UpdateUser: it names no version and returns the
\* latest one.
PatchStatus(r) ==
    /\ Goto(r, "patchStatus", "endpoint")
    /\ users' = Append(users, [Last(users) EXCEPT !.lastSeen = "set"])
    /\ HoldUser(r, Len(users) + 1)
    /\ UNCHANGED <<secrets, caches, secret, clock, saved>>

-----------------------------------------------------------------------------
(* Endpoints that write: PatchSettingsEndpoint and LogoutEndpoint.         *)

\* The status patch that follows the Update is empty here.
PatchSettings(r, s) ==
    /\ Update(r, "endpoint", "done", "failed", [Held(r) EXCEPT !.settings = s])
    /\ saved' = IF user[r] = Len(users) THEN s ELSE saved
    /\ UNCHANGED <<secrets, caches, secret, clock>>

\* A secret that is not there is left for later.
GetSecretWithoutCreate(r) ==
    /\ Goto(r, "endpoint",
            IF Held(r).reference = "secret" THEN "updateSecret" ELSE "setReference")
    /\ HoldSecret(r, secretCache)
    /\ UNCHANGED <<users, secrets, caches, user, clock, saved>>

\* ensureTokenBlacklistSecret, in up to three calls.
GetSecret(r) ==
    /\ Goto(r, "endpoint",
            IF secretCache = 0 THEN "createSecret"
            ELSE IF Held(r).reference = "secret" THEN "updateSecret" ELSE "setReference")
    /\ HoldSecret(r, secretCache)
    /\ UNCHANGED <<users, secrets, caches, user, clock, saved>>

\* The cache may lag: AlreadyExists fails the logout.
CreateSecret(r) ==
    /\ IF secrets = <<>>
       THEN /\ Goto(r, "createSecret",
                    IF Held(r).reference = "secret" THEN "updateSecret" ELSE "setReference")
            /\ secrets' = <<{}>>
            /\ HoldSecret(r, 1)
       ELSE /\ Goto(r, "createSecret", "failed")
            /\ UNCHANGED <<secrets, secret>>
    /\ UNCHANGED <<users, caches, user, clock, saved>>

SetReference(r) ==
    /\ Update(r, "setReference", "updateSecret", "failed",
              [Held(r) EXCEPT !.reference = "secret"])
    /\ UNCHANGED <<secrets, caches, secret, clock, saved>>

\* Keeps the expired tokens and drops the others.
clearUnexpiredTokens(tokens) == tokens \cap expired

clearExpiredTokens(tokens) == tokens \ expired

\* The secret is written without its resourceVersion.
UpdateSecretBlindly(r) ==
    /\ Goto(r, "updateSecret", "respond")
    /\ secrets' = Append(secrets,
          clearExpiredTokens(secrets[secret[r]] \cup {tokenOf[r]}))
    /\ UNCHANGED <<users, caches, user, secret, clock, saved>>

\* The rest of InvalidateToken.
UpdateSecret(r) ==
    /\ IF secret[r] = Len(secrets)
       THEN /\ Goto(r, "updateSecret", "respond")
            /\ secrets' = Append(secrets,
                  clearExpiredTokens(secrets[secret[r]] \cup {tokenOf[r]}))
       ELSE /\ Goto(r, "updateSecret", "failed")
            /\ UNCHANGED secrets
    /\ UNCHANGED <<users, caches, user, secret, clock, saved>>

\* The logout is answered with success.
Respond(r) ==
    /\ Goto(r, "respond", "done")
    /\ loggedOut' = loggedOut \cup {tokenOf[r]}
    /\ UNCHANGED <<users, secrets, caches, user, secret, expired, saved>>

\* A call fails, or the server stops: what was written stays.
CallFails(r) ==
    /\ pc[r] \notin {"idle", "refused", "failed", "done"}
    /\ pc' = [pc EXCEPT ![r] = "failed"]
    /\ UNCHANGED <<users, secrets, caches, user, secret, clock, saved>>

-----------------------------------------------------------------------------
(* The informer caches and the clock.                                      *)

SyncUser ==
    /\ userCache < Len(users)
    /\ userCache' = userCache + 1
    /\ UNCHANGED <<users, secrets, secretCache, pc, user, secret, clock, saved>>

SyncSecret ==
    /\ secretCache < Len(secrets)
    /\ secretCache' = secretCache + 1
    /\ UNCHANGED <<users, secrets, userCache, pc, user, secret, clock, saved>>

Expire(t) ==
    /\ t \notin expired
    /\ expired' = expired \cup {t}
    /\ UNCHANGED <<users, secrets, caches, pc, user, secret, loggedOut, saved>>

-----------------------------------------------------------------------------
Handle(r) ==
    \/ Verify(r) \/ FindUser(r) \/ CheckBlocked(r)
    \/ GetUser(r) \/ CreateUser(r) \/ SkipLastSeen(r)
    \/ SaveUnchanged(r) \/ SaveUser(r) \/ PatchStatus(r)
    \/ \E s \in Settings : PatchSettings(r, s)
    \/ GetSecret(r) \/ CreateSecret(r) \/ SetReference(r) \/ UpdateSecret(r)
    \/ Respond(r) \/ CallFails(r)

Next ==
    \/ \E r \in Requests : Handle(r)
    \/ SyncUser \/ SyncSecret
    \/ \E t \in Tokens : Expire(t)

\* The informers' watches deliver what was written.
Fairness == WF_vars(SyncUser) /\ WF_vars(SyncSecret)

Spec == Init /\ [][Next]_vars
FairSpec == Spec /\ Fairness

-----------------------------------------------------------------------------
UserVersions == [settings : Settings \cup {NoSettings}, reference : {"nil", "secret"},
                 lastSeen : {"zero", "set"}]
Steps == {"idle", "findUser", "checkBlocked", "getUser", "getUserAgain",
          "createUser", "save", "patchStatus", "endpoint", "createSecret",
          "setReference", "updateSecret", "respond", "refused", "failed", "done"}

\* A request has looked the user up or created it.
HasUser(r) == pc[r] \in {"save", "patchStatus", "endpoint", "createSecret",
                         "setReference", "updateSecret", "respond"}
HasSecret(r) == pc[r] \in {"setReference", "updateSecret", "respond"}

\* No step uses an object it has not found: the versions held exist.
TypeOK ==
    /\ users \in Seq(UserVersions)
    /\ secrets \in Seq(SUBSET Tokens)
    /\ userCache \in 0 .. Len(users)
    /\ secretCache \in 0 .. Len(secrets)
    /\ pc \in [Requests -> Steps]
    /\ user \in [Requests -> 0 .. Len(users)]
    /\ secret \in [Requests -> 0 .. Len(secrets)]
    /\ \A r \in Requests : HasUser(r) => user[r] > 0
    /\ \A r \in Requests : HasSecret(r) => secret[r] > 0
    /\ expired \subseteq Tokens
    /\ loggedOut \subseteq Tokens
    /\ saved \in Settings \cup {NoSettings}

\* What a request with an up-to-date view is checked against.
Blacklisted(t) ==
    /\ users # <<>> /\ Last(users).reference = "secret"
    /\ secrets # <<>> /\ t \in Last(secrets)

\* A logout that was answered with success is not undone before the token
\* expires, whatever other logouts, settings patches and updates of
\* LastSeen, with their stale copies of both objects, are under way.
LoggedOutStaysBlacklisted == \A t \in loggedOut \ expired : Blacklisted(t)

\* The user never refers to a secret that does not exist, in which case
\* checkBlockedTokens would fail all of the user's requests.
ReferenceResolves ==
    users # <<>> /\ Last(users).reference = "secret" => secrets # <<>>

\* Settings once saved are there until others are saved: neither UserSaver
\* nor a logout writes back a version it read earlier.
SettingsAreKept ==
    saved = IF users = <<>> THEN NoSettings ELSE Last(users).settings

\* Once set, the reference is in every later version of the user.
ReferenceStays ==
    \A i, j \in 1 .. Len(users) :
        i <= j /\ users[i].reference = "secret" => users[j].reference = "secret"

\* A logout only writes tokens once the user it holds refers to them.
ReferenceIsHeld ==
    \A r \in Requests :
        pc[r] \in {"updateSecret", "respond"} => Held(r).reference = "secret"

\* A logout about to be answered with success has had its effect.
AnswersAreEarned ==
    \A r \in Requests :
        pc[r] = "respond" /\ tokenOf[r] \notin expired => Blacklisted(tokenOf[r])

\* The inductive invariant behind the three properties above.
BlacklistInv ==
    /\ TypeOK /\ ReferenceStays /\ ReferenceIsHeld /\ ReferenceResolves
    /\ AnswersAreEarned /\ LoggedOutStaysBlacklisted /\ SettingsAreKept

\* A logout takes effect: in the end checkBlockedTokens, which reads from
\* the caches, refuses the token.
LogoutTakesEffect ==
    \A t \in Tokens :
        <>[](t \in loggedOut \ expired =>
                /\ userCache > 0 /\ users[userCache].reference = "secret"
                /\ secretCache > 0 /\ t \in secrets[secretCache])
=============================================================================
