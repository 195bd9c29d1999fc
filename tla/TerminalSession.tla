--------------------------- MODULE TerminalSession ---------------------------
(***************************************************************************)
(* The token of a user's open terminal connections                         *)
(* (modules/api/pkg/handler/websocket/terminal.go).  Every connection has  *)
(* a goroutine that keeps the OIDC token in the user's kubeconfig secret   *)
(* fresh.  All the user's connections share the secret; the user's logins  *)
(* write it too (modules/api/pkg/handler/common/kubeconfig.go), several at *)
(* a time if the user likes.  The issuer takes every refresh token once    *)
(* and answers with the next one, so a refresh that is not stored leaves a *)
(* secret that nobody can refresh.                                         *)
(*                                                                         *)
(* Time passes in ticks.  A routine that is due acts before the next tick; *)
(* an API call takes less than a tick and may fail.  The resources of the  *)
(* terminal and their expiry are the subject of WebTerminal.               *)
(***************************************************************************)
EXTENDS Integers, FiniteSets

CONSTANTS
    Sessions,                           \* connections of the user
    remainingTokenExpirationTime,       \* durations, in ticks
    minute,                             \* retry while the token is valid
    retry,                              \* the 5 seconds of the other retries
    TokenLife,                          \* life of an id token
    MaxTokens,                          \* bound on the tokens issued
    MaxFaults                           \* bound on failing calls

ASSUME SessionAssumption ==
    /\ {minute, retry, remainingTokenExpirationTime, TokenLife} \subseteq Nat \ {0}
    /\ MaxTokens \in Nat /\ MaxFaults \in Nat

VARIABLES
    conn,     \* where the handler of each connection is
    wait,     \* ticks until the token routine acts
    token,    \* where each token routine is
    copy,     \* the token in the secret as a routine read it to refresh it
    got,      \* the token a routine received and has not stored
    told,     \* what the client was last told of its token
    secret,   \* the token in the kubeconfig secret
    ttl,      \* ticks until each token expires
    current,  \* the last token issued, the only one that can be refreshed
    login,    \* where the login that received a token is
    lost,     \* the current token if its receiver failed before storing it
    displaced,\* the newest token that was stored, if it made way for another
    faults

routine == <<token, copy, got, told>>
issuer == <<ttl, current, lost, displaced>>
vars == <<conn, wait, routine, secret, issuer, login, faults>>

-----------------------------------------------------------------------------
NoToken == 0
Forgotten == -minute - 1  \* longer expired than any property tells apart
Tokens == 1 .. MaxTokens

Max2(a, b) == IF a >= b THEN a ELSE b
Longest == Max2(TokenLife, 2 * minute + retry)

TypeOK ==
    /\ conn \in [Sessions -> {"new", "running", "closed"}]
    /\ wait \in [Sessions -> 0 .. Longest]
    /\ token \in [Sessions -> {"off", "get", "refresh", "update"}]
    /\ copy \in [Sessions -> Tokens \cup {NoToken}]
    /\ got \in [Sessions -> Tokens \cup {NoToken}]
    /\ told \in [Sessions -> {"nothing", "missing", "expired", "valid"}]
    /\ secret \in Tokens \cup {NoToken}
    /\ ttl \in [Tokens -> Forgotten .. TokenLife]
    /\ current \in Tokens \cup {NoToken}
    /\ login \in [Tokens -> {"none", "exchanged", "create", "update"}]
    /\ lost \in Tokens \cup {NoToken}
    /\ displaced \in Tokens \cup {NoToken}
    /\ faults \in 0 .. MaxFaults

Init ==
    /\ conn = [s \in Sessions |-> "new"]
    /\ wait = [s \in Sessions |-> 0]
    /\ token = [s \in Sessions |-> "off"]
    /\ copy = [s \in Sessions |-> NoToken]
    /\ got = [s \in Sessions |-> NoToken]
    /\ told = [s \in Sessions |-> "nothing"]
    /\ secret = NoToken
    /\ ttl = [t \in Tokens |-> Forgotten]
    /\ login = [t \in Tokens |-> "none"]
    /\ current = NoToken /\ lost = NoToken /\ displaced = NoToken
    /\ faults = 0

-----------------------------------------------------------------------------
(* The issuer.                                                             *)

\* A new pair of id and refresh token; the earlier refresh tokens are void.
Issue ==
    /\ current < MaxTokens
    /\ current' = current + 1
    /\ ttl' = [ttl EXCEPT ![current + 1] = TokenLife]
    /\ UNCHANGED displaced

Refuses(t) == t # current \/ current = MaxTokens

\* A token that its receiver does not store.
Lose(t) == lost' = IF t = current THEN t ELSE lost

\* A token is stored in place of another.
Stores(t) ==
    /\ secret' = t
    /\ displaced' = IF t < Max2(secret, displaced) THEN Max2(secret, displaced) ELSE NoToken

-----------------------------------------------------------------------------
(* The user logs in: CreateOIDCKubeconfigSecretEndpoint exchanges the code *)
(* and createKubeconfigSecret writes the secret, whatever it holds.        *)

Exchange ==
    /\ Issue /\ lost' = NoToken
    /\ login' = [login EXCEPT ![current + 1] = "exchanged"]
    /\ UNCHANGED <<conn, wait, routine, secret, faults>>

Answered(t) == login' = [login EXCEPT ![t] = "none"]

\* The probe for the secret.
createKubeconfigSecret(t) ==
    /\ login[t] = "exchanged"
    /\ login' = [login EXCEPT ![t] = IF secret = NoToken THEN "create" ELSE "update"]
    /\ UNCHANGED <<conn, wait, routine, secret, issuer, faults>>

\* Create or Update, as the probe said.  The Update carries no version; either
\* fails if the secret was created or deleted since.
createSecret(t) ==
    /\ login[t] \in {"create", "update"}
    /\ IF login[t] = "create" <=> secret = NoToken
       THEN Stores(t) /\ UNCHANGED lost
       ELSE Lose(t) /\ UNCHANGED <<secret, displaced>>
    /\ Answered(t)
    /\ UNCHANGED <<conn, wait, routine, ttl, current, faults>>

LoginFails(t) ==
    /\ login[t] # "none"
    /\ faults < MaxFaults /\ faults' = faults + 1
    /\ Lose(t)
    /\ Answered(t)
    /\ UNCHANGED <<conn, wait, routine, secret, ttl, current, displaced>>

\* Somebody deletes the secret in the user cluster.
SecretDeleted ==
    /\ secret # NoToken
    /\ faults < MaxFaults /\ faults' = faults + 1
    /\ Stores(NoToken)
    /\ UNCHANGED <<conn, wait, routine, ttl, current, lost, login>>

-----------------------------------------------------------------------------
(* The handler.                                                            *)

\* The secret was there and the pod runs: the routines start and the stream
\* begins.  A connection that still waits for either is "new".
startProcess(s) ==
    /\ conn[s] = "new" /\ secret # NoToken
    /\ conn' = [conn EXCEPT ![s] = "running"]
    /\ token' = [token EXCEPT ![s] = "get"]
    /\ UNCHANGED <<wait, copy, got, told, secret, issuer, login, faults>>

\* The client leaves or the stream ends: the handler returns, which closes
\* the websocket and cancels the context of the routines.  A token that was
\* received and is not stored yet is lost.
Close(s) ==
    /\ conn[s] = "running"
    /\ conn' = [conn EXCEPT ![s] = "closed"]
    /\ told' = [told EXCEPT ![s] = "nothing"]
    /\ Lose(got[s])
    /\ UNCHANGED <<wait, token, copy, got, secret, ttl, current, displaced, login, faults>>

Cancelled(s) == conn[s] = "closed"

-----------------------------------------------------------------------------
(* checkTokenAndRefreshIfNeeded: an endless loop.  SendMessage on a closed *)
(* connection fails and the failure is ignored.                            *)

SendMessage(s, status) ==
    told' = IF Cancelled(s) THEN told ELSE [told EXCEPT ![s] = status]

At(s, step) == token[s] = step /\ wait[s] = 0

\* The next round reads the secret again.
SleepFor(s, n) ==
    /\ token' = [token EXCEPT ![s] = "get"]
    /\ copy' = [copy EXCEPT ![s] = NoToken]
    /\ wait' = [wait EXCEPT ![s] = n]

\* Sleep until remainingTokenExpirationTime before the expiry, or until the
\* expiry when that is past.  A sleep of less than a tick is counted as one.
ValidSleep(until) ==
    Max2(1, IF until > remainingTokenExpirationTime
            THEN until - remainingTokenExpirationTime ELSE until)

TokenIsValid(s, t) ==
    /\ SendMessage(s, "valid")
    /\ SleepFor(s, ValidSleep(ttl[t]))

\* The client is not told.
onFailedUpdatingTokenSilently(s) == SleepFor(s, minute) /\ UNCHANGED told

\* An expired token ends the loop.
onFailedUpdatingTokenReturns(s) ==
    /\ SendMessage(s, "expired")
    /\ token' = [token EXCEPT ![s] = "off"]
    /\ UNCHANGED <<wait, copy>>

\* onFailedUpdatingToken, with the expiry of the token that was read.
onFailedUpdatingToken(s) ==
    IF ttl[copy[s]] <= 0
    THEN SendMessage(s, "expired") /\ SleepFor(s, retry)
    ELSE /\ SleepFor(s, minute + (IF ttl[copy[s]] <= minute THEN ttl[copy[s]] ELSE 0))
         /\ UNCHANGED told

Missing(s) ==
    /\ SendMessage(s, "missing")
    /\ SleepFor(s, retry)

\* The secret as it is now; every call fails once the context is cancelled.
GetSecret(s) ==
    /\ At(s, "get")
    /\ IF Cancelled(s) \/ secret = NoToken
       THEN Missing(s)
       ELSE IF ttl[secret] <= remainingTokenExpirationTime
       THEN /\ copy' = [copy EXCEPT ![s] = secret]
            /\ token' = [token EXCEPT ![s] = "refresh"]
            /\ UNCHANGED <<wait, told>>
       ELSE TokenIsValid(s, secret)
    /\ UNCHANGED <<conn, got, secret, issuer, login, faults>>

GetSecretFails(s) ==
    /\ At(s, "get") /\ ~Cancelled(s)
    /\ faults < MaxFaults /\ faults' = faults + 1
    /\ Missing(s)
    /\ UNCHANGED <<conn, got, secret, issuer, login>>

RefreshAccessToken(s) ==
    /\ At(s, "refresh")
    /\ IF Cancelled(s) \/ Refuses(copy[s])
       THEN onFailedUpdatingToken(s) /\ UNCHANGED <<got, issuer>>
       ELSE /\ Issue /\ lost' = NoToken
            /\ got' = [got EXCEPT ![s] = current']
            /\ token' = [token EXCEPT ![s] = "update"]
            /\ UNCHANGED <<wait, copy, told>>
    /\ UNCHANGED <<conn, secret, login, faults>>

\* The issuer is not reached, or it is and its answer is lost.
RefreshFails(s) ==
    /\ At(s, "refresh") /\ ~Cancelled(s)
    /\ faults < MaxFaults /\ faults' = faults + 1
    /\ onFailedUpdatingToken(s)
    /\ \/ UNCHANGED issuer
       \/ ~Refuses(copy[s]) /\ Issue /\ lost' = current'
    /\ UNCHANGED <<conn, got, secret, login>>

Dropped(s) ==
    /\ onFailedUpdatingToken(s)
    /\ IF Cancelled(s) THEN UNCHANGED lost ELSE Lose(got[s])
    /\ UNCHANGED <<secret, displaced>>

\* The Update carries no version.
UpdateSecretBlindly(s) ==
    /\ At(s, "update")
    /\ secret' = got[s]
    /\ UNCHANGED <<lost, displaced>>
    /\ TokenIsValid(s, got[s])
    /\ got' = [got EXCEPT ![s] = NoToken]
    /\ UNCHANGED <<conn, ttl, current, login, faults>>

\* The Update carries the version that was read.  Every write of the secret
\* stores another token, so the token stands for the version.
UpdateSecret(s) ==
    /\ At(s, "update")
    /\ \/ /\ ~Cancelled(s) /\ secret = copy[s]
          /\ Stores(got[s])
          /\ UNCHANGED lost
          /\ TokenIsValid(s, got[s])
       \/ /\ Cancelled(s) \/ secret # copy[s]
          /\ Dropped(s)
    /\ got' = [got EXCEPT ![s] = NoToken]
    /\ UNCHANGED <<conn, ttl, current, login, faults>>

UpdateFails(s) ==
    /\ At(s, "update") /\ ~Cancelled(s)
    /\ faults < MaxFaults /\ faults' = faults + 1
    /\ Dropped(s)
    /\ got' = [got EXCEPT ![s] = NoToken]
    /\ UNCHANGED <<conn, ttl, current, login>>

TokenStep(s) ==
    \/ GetSecret(s) \/ GetSecretFails(s)
    \/ RefreshAccessToken(s) \/ RefreshFails(s)
    \/ UpdateSecret(s) \/ UpdateFails(s)

-----------------------------------------------------------------------------
Down(n) == Max2(0, n - 1)

Due(s) == token[s] # "off" /\ wait[s] = 0

\* A token nobody holds is never seen again.
LoggingIn == {t \in Tokens : login[t] # "none"}
Held == {secret} \cup LoggingIn \cup {copy[s] : s \in Sessions} \cup {got[s] : s \in Sessions}

Tick ==
    /\ \A s \in Sessions : ~Due(s)
    /\ wait' = [s \in Sessions |-> Down(wait[s])]
    /\ ttl' = [t \in Tokens |-> IF t \in Held THEN Max2(Forgotten, ttl[t] - 1)
                                 ELSE Forgotten]
    /\ UNCHANGED <<conn, routine, secret, current, lost, displaced, login, faults>>

Next ==
    \/ Exchange \/ SecretDeleted
    \/ \E t \in Tokens : createKubeconfigSecret(t) \/ createSecret(t) \/ LoginFails(t)
    \/ Tick
    \/ \E s \in Sessions :
         \/ startProcess(s) \/ Close(s)
         \/ TokenStep(s)

Spec == Init /\ [][Next]_vars

\* Time passes, and the goroutines run.  Clients owe nothing.
FairSpec ==
    /\ Spec
    /\ WF_vars(Tick)
    /\ \A s \in Sessions :
         /\ WF_vars(TokenStep(s))

-----------------------------------------------------------------------------
\* The refresh token the issuer accepts is in the secret, or on its way
\* there.  It is out of reach only if it was in the secret and made way for
\* the token of a login that had begun earlier, or was deleted; or if its
\* receiver failed: a call failed, the secret had changed under it, or its
\* connection closed between the refresh and the Update.  In particular the
\* routine of a connection never writes its token over that of a login, and
\* the routine of a closed connection, which runs forever, takes no token.
StoredTokenIsCurrent ==
    current \in {secret, lost, displaced} \cup LoggingIn \cup {got[s] : s \in Sessions}

\* Tokens are handed on after they were issued, and a routine about to store a
\* token holds a newer one than it read.
TokensInOrder ==
    /\ secret <= current /\ displaced <= current
    /\ displaced # NoToken => secret < displaced
    /\ \A t \in LoggingIn : t <= current
    /\ \A s \in Sessions :
         /\ copy[s] <= current /\ got[s] <= current
         /\ token[s] \in {"refresh", "update"} <=> copy[s] # NoToken
         /\ token[s] = "update" => copy[s] < got[s]
         /\ token[s] # "update" => got[s] = NoToken
         /\ conn[s] = "new" => token[s] = "off"
         /\ conn[s] = "closed" /\ got[s] = current => lost = current

\* The inductive invariant behind TypeOK and StoredTokenIsCurrent.
SessionInv == TypeOK /\ TokensInOrder /\ StoredTokenIsCurrent

\* No client believes in a token that expired more than a minute ago: the
\* sleeps of checkTokenAndRefreshIfNeeded and onFailedUpdatingToken never
\* outlast the token by more.  The exception is a token that a login has
\* stored in place of a newer one, which a routine may still count on.
ToldInTime ==
    \A s \in Sessions :
        conn[s] = "running" /\ secret # NoToken /\ ttl[secret] < -minute
            => told[s] # "valid" \/ displaced # NoToken

\* "check every 5 seconds if the user authenticates again": a client that was
\* told that its token expired is told otherwise once the secret holds a token
\* that can be refreshed.
ExpiredRecovers ==
    \A s \in Sessions :
        conn[s] = "running" /\ told[s] = "expired" /\ secret = current /\ ~Refuses(current)
            ~> conn[s] = "closed" \/ told[s] # "expired"
               \/ secret # current \/ Refuses(current)
=============================================================================
