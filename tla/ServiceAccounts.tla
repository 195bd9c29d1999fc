-------------------------- MODULE ServiceAccounts --------------------------
(***************************************************************************)
(* Service accounts of a project and their tokens                          *)
(* (modules/api/pkg/handler/v1/serviceaccount/sa.go and token.go,          *)
(* modules/api/pkg/provider/kubernetes/sa.go and sa_token.go) and their    *)
(* use for authentication (modules/api/pkg/handler/auth/sa.go).            *)
(*                                                                         *)
(* An account is a User object and a token a Secret; each is the sequence  *)
(* of its versions and an informer cache has a prefix of them.             *)
(* Administrators read through the caches, others from the API server, and *)
(* both list through the caches.  The group of an account is a binding     *)
(* which a controller outside this repository makes from a label that the  *)
(* API sets and the controller removes.                                    *)
(*                                                                         *)
(* A request about a token names an account and a token in its URL, and    *)
(* nothing compares the account with the owner of the token.               *)
(***************************************************************************)
EXTENDS Naturals, Sequences, FiniteSets

CONSTANTS
    Names,        \* names of accounts and of tokens
    Groups,       \* owners, editors, viewers, ...
    Requests,     \* HTTP requests
    MaxAccounts,  \* bound on the accounts created
    MaxTokens,    \* bound on the tokens created
    MaxTime       \* bound on the clock, in seconds

ASSUME AccountsAssumption ==
    /\ {MaxAccounts, MaxTokens, MaxTime} \subseteq Nat
    /\ "none" \notin Names \cup Groups

Callers == {"admin", "member"}

VARIABLES
    accounts,  \* versions of each account, in the order of creation
    tokens,    \* versions of each token
    accShown,  \* how many versions of an account the cache has
    tokShown,  \* the same for a token
    bound,     \* group in the binding of an account
    boundShown,\* the same in the cache
    applying,  \* version of the account the controller works on
    now,       \* seconds
    pc, req,   \* the step a request is at, what it has found out
    promised,  \* group the last answer to an update named
    misread,   \* that update took the group for set, wrongly
    revoked    \* tokens that were replaced or deleted

vars == <<accounts, tokens, accShown, tokShown, bound, boundShown, applying, now,
          pc, req, promised, misread, revoked>>
accountVars == <<accounts, bound, applying, promised, misread>>
tokenVars == <<tokens, revoked>>
cacheVars == <<accShown, tokShown, boundShown>>

-----------------------------------------------------------------------------
NoData == <<0, 0, 0>>

NoRequest == [op |-> "none", by |-> "member", object |-> 0, position |-> 0,
              name |-> "none", group |-> "none", label |-> "none",
              data |-> NoData, seen |-> <<>>]

Accounts == 1 .. Len(accounts)
Tokens == 1 .. Len(tokens)

Latest(versions) == versions[Len(versions)]
Exists(versions, n) == n > 0 /\ versions[n].exists = "yes"
Live(versions) == Exists(versions, Len(versions))

\* The version Get returns: administrators read the cache.
Found(versions, n, by) == IF by = "admin" THEN n ELSE Len(versions)

NewAccount(n, g, seen) == [name |-> n, label |-> g, exists |-> "yes", seen |-> seen]
NewToken(a, n, data, seen) ==
    [owner |-> a, name |-> n, data |-> data, exists |-> "yes", seen |-> seen]

\* Two accounts whose group has been applied, the first with a token.
Init ==
    /\ \E m, n \in Names :
         /\ m # n
         /\ accounts = <<<<NewAccount(m, "none", <<>>)>>, <<NewAccount(n, "none", <<>>)>>>>
         /\ tokens = <<<<NewToken(1, m, <<1, 1, 0>>, <<>>)>>>>
    /\ \E g \in Groups : bound = <<g, g>> /\ boundShown = <<g, g>> /\ promised = <<g, g>>
    /\ accShown = <<1, 1>> /\ tokShown = <<1>>
    /\ applying = <<0, 0>> /\ misread = <<"no", "no">>
    /\ now = 0 /\ revoked = {}
    /\ pc = [r \in Requests |-> "idle"]
    /\ req = [r \in Requests |-> NoRequest]

\* A request has done its reads, or is answered.
Hold(r, held) ==
    /\ pc[r] = "idle" /\ pc' = [pc EXCEPT ![r] = "write"]
    /\ req' = [req EXCEPT ![r] = held]
    /\ UNCHANGED <<accountVars, tokenVars, cacheVars, now>>
Answer(r, op) ==
    /\ pc[r] = "write" /\ req[r].op = op
    /\ pc' = [pc EXCEPT ![r] = "answered"]
    /\ req' = [req EXCEPT ![r] = NoRequest]

-----------------------------------------------------------------------------
(* Accounts.                                                               *)

\* listSA with a name, through the cache for everybody.
ListSA(n) == {a \in Accounts : /\ Exists(accounts[a], accShown[a])
                               /\ accounts[a][accShown[a]].name = n}

\* CreateEndpoint up to the write.
StartCreate(r, by, n, g) ==
    /\ ListSA(n) = {}
    /\ Hold(r, [NoRequest EXCEPT !.op = "create", !.by = by, !.name = n, !.label = g,
                                 !.group = g, !.seen = accShown])

\* The creation without the label.
CreateSAUnlabelled(r) ==
    /\ Answer(r, "create") /\ Len(accounts) < MaxAccounts
    /\ accounts' = Append(accounts, <<NewAccount(req[r].name, "none", req[r].seen)>>)
    /\ accShown' = Append(accShown, 0)
    /\ bound' = Append(bound, "none") /\ boundShown' = Append(boundShown, "none")
    /\ applying' = Append(applying, 0) /\ misread' = Append(misread, "no")
    /\ promised' = Append(promised, req[r].group)
    /\ UNCHANGED <<tokenVars, tokShown, now>>

\* createSA: a random name, so that it is a new object in any case.  The
\* controller will make the binding from the label.
CreateSA(r) ==
    /\ Answer(r, "create") /\ Len(accounts) < MaxAccounts
    /\ accounts' = Append(accounts, <<NewAccount(req[r].name, req[r].label, req[r].seen)>>)
    /\ accShown' = Append(accShown, 0)
    /\ bound' = Append(bound, "none") /\ boundShown' = Append(boundShown, "none")
    /\ applying' = Append(applying, 0) /\ misread' = Append(misread, "no")
    /\ promised' = Append(promised, req[r].group)
    /\ UNCHANGED <<tokenVars, tokShown, now>>

\* UpdateEndpoint up to the write.  A new name must be free.  The label is
\* set only if the group differs from the one in the cached binding.
StartUpdate(r, by, a, n, g) ==
    LET found == Found(accounts[a], accShown[a], by)
        old == accounts[a][found]
    IN  /\ Exists(accounts[a], found)
        /\ n # old.name => ListSA(n) = {}
        /\ boundShown[a] # "none"
        /\ Hold(r, [NoRequest EXCEPT !.op = "update", !.by = by, !.object = a,
                      !.position = found, !.name = n, !.group = g,
                      !.label = IF g = boundShown[a] THEN old.label ELSE g,
                      !.seen = IF n = old.name THEN old.seen ELSE accShown])

\* The group asked for is in the label, or in the binding and no label.
GroupIsSet(a, q) ==
    q.label = q.group \/ (q.label = "none" /\ bound[a] = q.group)

\* updateSA.  The answer names the group that was asked for.  If no label
\* says so, that is right only as long as the binding has it.
UpdateSA(r) ==
    LET q == req[r]
        a == q.object
    IN  /\ Answer(r, "update")
        /\ q.position = Len(accounts[a]) /\ Live(accounts[a])
        /\ accounts' = [accounts EXCEPT ![a] = Append(@, NewAccount(q.name, q.label, q.seen))]
        /\ promised' = [promised EXCEPT ![a] = q.group]
        /\ misread' = [misread EXCEPT ![a] = IF GroupIsSet(a, q) THEN "no" ELSE "yes"]
        /\ UNCHANGED <<bound, applying, tokenVars, cacheVars, now>>

\* DeleteEndpoint: the account is looked up and deleted by name.
DeleteSA(r, by, a) ==
    /\ pc[r] = "idle" /\ pc' = [pc EXCEPT ![r] = "answered"]
    /\ Exists(accounts[a], Found(accounts[a], accShown[a], by)) /\ Live(accounts[a])
    /\ accounts' = [accounts EXCEPT ![a] = Append(@, [Latest(@) EXCEPT !.exists = "no"])]
    /\ UNCHANGED <<req, bound, applying, promised, misread, tokenVars, cacheVars, now>>

-----------------------------------------------------------------------------
(* Tokens.                                                                 *)

TokensOf(a) == {t \in Tokens : tokens[t][1].owner = a /\ Exists(tokens[t], tokShown[t])}

\* What listSAToken looks at: the account's tokens in the cache.  For
\* administrators the name is taken for the ID of a token, and nothing is
\* found by it.
Listed(by, a) ==
    IF by = "admin" THEN <<>>
    ELSE [t \in Tokens |-> IF tokens[t][1].owner = a THEN tokShown[t] ELSE 0]
ListSATokenByID(by, a, n) == {}
ListSAToken(by, a, n) ==
    {t \in TokensOf(a) : by # "admin" /\ tokens[t][tokShown[t]].name = n}

\* tokenGenerator.Generate: the claims, which are the token and the e-mail
\* address of an account, and the time in seconds decide.
Generate(t, a) == <<t, a, now>>

\* CreateTokenEndpoint up to the write.
StartToken(r, by, a, n) ==
    /\ Exists(accounts[a], Found(accounts[a], accShown[a], by))
    /\ ListSAToken(by, a, n) = {}
    /\ Hold(r, [NoRequest EXCEPT !.op = "createToken", !.by = by, !.object = a,
                                 !.name = n, !.seen = Listed(by, a)])

\* genToken without the owner reference.
CreateSATokenUnowned(r) ==
    /\ Answer(r, "createToken") /\ Len(tokens) < MaxTokens
    /\ tokens' = Append(tokens, <<NewToken(0, req[r].name,
                           Generate(Len(tokens) + 1, req[r].object), req[r].seen)>>)
    /\ tokShown' = Append(tokShown, 0)
    /\ UNCHANGED <<accountVars, revoked, accShown, boundShown, now>>

\* createSAToken
CreateSAToken(r) ==
    /\ Answer(r, "createToken") /\ Len(tokens) < MaxTokens
    /\ tokens' = Append(tokens, <<NewToken(req[r].object, req[r].name,
                           Generate(Len(tokens) + 1, req[r].object), req[r].seen)>>)
    /\ tokShown' = Append(tokShown, 0)
    /\ UNCHANGED <<accountVars, revoked, accShown, boundShown, now>>

\* updateEndpoint up to the write, for both UpdateTokenEndpoint, which
\* regenerates the token, and PatchTokenEndpoint, which does not and stops
\* if the name stays.  The account a is the one in the URL: among its tokens
\* a new name is looked up, and its address goes into a new token.
StartTokenUpdate(r, by, a, t, n, regenerate) ==
    LET found == Found(tokens[t], tokShown[t], by)
        old == tokens[t][found]
    IN  /\ Exists(accounts[a], Found(accounts[a], accShown[a], by))
        /\ Exists(tokens[t], found)
        /\ regenerate \/ n # old.name
        /\ n # old.name => ListSAToken(by, a, n) = {}
        /\ Hold(r, [NoRequest EXCEPT !.op = "updateToken", !.by = by, !.object = t,
                      !.position = found, !.name = n,
                      !.data = IF regenerate THEN Generate(t, a) ELSE old.data,
                      !.seen = IF n = old.name THEN old.seen ELSE Listed(by, a)])

Revoke(t, data) == revoked' = revoked \cup ({Latest(tokens[t]).data} \ {data})

\* The Update without the version that was read.
UpdateSATokenBlindly(r) ==
    LET q == req[r]
        t == q.object
    IN  /\ Answer(r, "updateToken")
        /\ Live(tokens[t])
        /\ tokens' = [tokens EXCEPT ![t] =
                         Append(@, NewToken(@[1].owner, q.name, q.data, q.seen))]
        /\ Revoke(t, q.data)
        /\ UNCHANGED <<accountVars, cacheVars, now>>

\* updateSAToken
UpdateSAToken(r) ==
    LET q == req[r]
        t == q.object
    IN  /\ Answer(r, "updateToken")
        /\ q.position = Len(tokens[t]) /\ Live(tokens[t])
        /\ tokens' = [tokens EXCEPT ![t] =
                         Append(@, NewToken(@[1].owner, q.name, q.data, q.seen))]
        /\ Revoke(t, q.data)
        /\ UNCHANGED <<accountVars, cacheVars, now>>

Remove(t) ==
    /\ Live(tokens[t])
    /\ tokens' = [tokens EXCEPT ![t] = Append(@, [Latest(@) EXCEPT !.exists = "no"])]
    /\ Revoke(t, NoData)
    /\ UNCHANGED <<accountVars, cacheVars, now>>

\* DeleteTokenEndpoint, with any account in the URL.
DeleteSAToken(r, by, a, t) ==
    /\ pc[r] = "idle" /\ pc' = [pc EXCEPT ![r] = "answered"]
    /\ Exists(accounts[a], Found(accounts[a], accShown[a], by))
    /\ Remove(t)
    /\ UNCHANGED req

\* Verify with the token's data left out of the comparison.
VerifyById(data) ==
    \E t \in Tokens : Exists(tokens[t], tokShown[t]) /\ data[1] = t

\* Verify: the token is stored, in the cache, as it is presented.
Verify(data) ==
    \E t \in Tokens : Exists(tokens[t], tokShown[t]) /\ tokens[t][tokShown[t]].data = data

\* A conflict, a missing object, missing rights or a failed call.
WriteFails(r) ==
    /\ Answer(r, req[r].op)
    /\ UNCHANGED <<accountVars, tokenVars, cacheVars, now>>

-----------------------------------------------------------------------------
(* The surroundings.                                                       *)

\* The controller makes the binding that a label asks for, and then
\* removes the label, unless the account has changed meanwhile.
ApplyLabel(a) ==
    /\ Live(accounts[a]) /\ Latest(accounts[a]).label # "none"
    /\ applying[a] = 0
    /\ bound' = [bound EXCEPT ![a] = Latest(accounts[a]).label]
    /\ applying' = [applying EXCEPT ![a] = Len(accounts[a])]
    /\ UNCHANGED <<accounts, promised, misread, tokenVars, cacheVars, now, pc, req>>

RemoveLabel(a) ==
    /\ applying[a] # 0
    /\ applying' = [applying EXCEPT ![a] = 0]
    /\ accounts' = IF applying[a] = Len(accounts[a])
                   THEN [accounts EXCEPT ![a] = Append(@, [Latest(@) EXCEPT !.label = "none"])]
                   ELSE accounts
    /\ UNCHANGED <<bound, promised, misread, tokenVars, cacheVars, now, pc, req>>

\* The garbage collector removes the tokens whose owner is gone.
Collect(t) ==
    /\ tokens[t][1].owner \in Accounts /\ ~Live(accounts[tokens[t][1].owner])
    /\ Remove(t)
    /\ UNCHANGED <<pc, req>>

Tick ==
    /\ now < MaxTime /\ now' = now + 1
    /\ UNCHANGED <<accountVars, tokenVars, cacheVars, pc, req>>

\* The informers deliver.
SyncAccount(a) ==
    /\ accShown[a] < Len(accounts[a])
    /\ accShown' = [accShown EXCEPT ![a] = @ + 1]
    /\ UNCHANGED <<accountVars, tokenVars, tokShown, boundShown, now, pc, req>>
SyncToken(t) ==
    /\ tokShown[t] < Len(tokens[t])
    /\ tokShown' = [tokShown EXCEPT ![t] = @ + 1]
    /\ UNCHANGED <<accountVars, tokenVars, accShown, boundShown, now, pc, req>>
SyncBinding(a) ==
    /\ boundShown[a] # bound[a]
    /\ boundShown' = [boundShown EXCEPT ![a] = bound[a]]
    /\ UNCHANGED <<accountVars, tokenVars, accShown, tokShown, now, pc, req>>

Start(r) ==
    /\ pc[r] = "idle"
    /\ \E by \in Callers :
         \/ \E n \in Names, g \in Groups :
              \/ StartCreate(r, by, n, g)
              \/ \E a \in Accounts : StartUpdate(r, by, a, n, g)
         \/ \E a \in Accounts : DeleteSA(r, by, a)
         \/ \E a \in Accounts, n \in Names : StartToken(r, by, a, n)
         \/ \E a \in Accounts, t \in Tokens, n \in Names, regenerate \in BOOLEAN :
              StartTokenUpdate(r, by, a, t, n, regenerate)
         \/ \E a \in Accounts, t \in Tokens : DeleteSAToken(r, by, a, t)

Finish(r) ==
    \/ CreateSA(r) \/ UpdateSA(r) \/ CreateSAToken(r) \/ UpdateSAToken(r)
    \/ WriteFails(r)

Surroundings ==
    \/ \E a \in Accounts : ApplyLabel(a) \/ RemoveLabel(a) \/ SyncAccount(a) \/ SyncBinding(a)
    \/ \E t \in Tokens : Collect(t) \/ SyncToken(t)

Next == Tick \/ Surroundings \/ \E r \in Requests : Start(r) \/ Finish(r)

Spec == Init /\ [][Next]_vars

\* Informers, the controller and the garbage collector keep running.
Fairness == WF_vars(Surroundings)
FairSpec == Spec /\ Fairness
-----------------------------------------------------------------------------
GroupOrNone == Groups \cup {"none"}
AccountVersion == [name : Names, label : GroupOrNone, exists : {"yes", "no"}, seen : Seq(Nat)]
TokenData == Nat \X Nat \X Nat
TokenVersion == [owner : Nat, name : Names, data : TokenData, exists : {"yes", "no"},
                 seen : Seq(Nat)]
Held == [op : {"none", "create", "update", "createToken", "updateToken"}, by : Callers,
         object : Nat, position : Nat, name : Names \cup {"none"}, group : GroupOrNone,
         label : GroupOrNone, data : TokenData, seen : Seq(Nat)]

TypeOK ==
    /\ accounts \in Seq(Seq(AccountVersion)) /\ tokens \in Seq(Seq(TokenVersion))
    /\ accShown \in Seq(Nat) /\ applying \in Seq(Nat) /\ tokShown \in Seq(Nat)
    /\ bound \in Seq(GroupOrNone) /\ boundShown \in Seq(GroupOrNone)
    /\ promised \in Seq(Groups) /\ misread \in Seq({"yes", "no"})
    /\ {Len(accShown), Len(applying), Len(bound), Len(boundShown), Len(promised), Len(misread)}
         = {Len(accounts)}
    /\ \A a \in Accounts : {accShown[a], applying[a]} \subseteq 0 .. Len(accounts[a])
    /\ Len(tokShown) = Len(tokens)
    /\ \A t \in Tokens : tokShown[t] \in 0 .. Len(tokens[t])
    /\ now \in 0 .. MaxTime /\ revoked \subseteq Tokens \X Accounts \X (0 .. now)
    /\ pc \in [Requests -> {"idle", "write", "answered"}]
    /\ req \in [Requests -> Held]

\* Every object has a version, and none after the one that says it is gone.
GoneIsLast(objects) ==
    \A x \in 1 .. Len(objects) :
        /\ Len(objects[x]) > 0
        /\ \A i \in 1 .. Len(objects[x]) - 1 : objects[x][i].exists = "yes"

\* The versions that were looked at did not have the name n.
AccountNameWasFree(n, seen) ==
    \A a \in DOMAIN seen :
        /\ a \in Accounts /\ seen[a] <= Len(accounts[a])
        /\ Exists(accounts[a], seen[a]) => accounts[a][seen[a]].name # n
TokenNameWasFree(n, seen) ==
    \A t \in DOMAIN seen :
        /\ t \in Tokens /\ seen[t] <= Len(tokens[t])
        /\ Exists(tokens[t], seen[t]) => tokens[t][seen[t]].name # n

\* No name was given that was seen in use.
NamesWereFree ==
    /\ \A a \in Accounts : \A i \in 1 .. Len(accounts[a]) :
         AccountNameWasFree(accounts[a][i].name, accounts[a][i].seen)
    /\ \A t \in Tokens : \A i \in 1 .. Len(tokens[t]) :
         TokenNameWasFree(tokens[t][i].name, tokens[t][i].seen)

\* The data of a token names the token, an account and a second that has come.
DataIsOwn ==
    \A t \in Tokens :
        /\ tokens[t][1].owner \in Accounts
        /\ \A i \in 1 .. Len(tokens[t]) : tokens[t][i].data \in {t} \X Accounts \X (0 .. now)

\* In the second i the token t was generated for two accounts.
Switched(t, i) ==
    \E j, k \in 1 .. Len(tokens[t]) :
        /\ tokens[t][j].data[3] = i /\ tokens[t][k].data[3] = i
        /\ tokens[t][j].data[2] # tokens[t][k].data[2]

\* What was revoked is older than what is stored, or it was replaced in its
\* own second, for another account.
RevokedIsOlder ==
    \A data \in revoked : Live(tokens[data[1]]) =>
        \/ data[3] < Latest(tokens[data[1]]).data[3]
        \/ data[3] = Latest(tokens[data[1]]).data[3] /\ Switched(data[1], data[3])

\* The controller is at a version that still stands only if it has bound
\* its group; and the label, or else the binding, has the promised group.
LabelsLead ==
    \A a \in Accounts :
        /\ applying[a] = Len(accounts[a]) =>
             Live(accounts[a]) /\ Latest(accounts[a]).label = bound[a] /\ bound[a] # "none"
        /\ Live(accounts[a]) /\ misread[a] = "no" =>
             promised[a] = IF Latest(accounts[a]).label = "none" THEN bound[a]
                                                                 ELSE Latest(accounts[a]).label

\* A request that is about to write q has read what it goes by.
ReadFirst(q) ==
    /\ q.name \in Names
    /\ q.op = "create" => q.group \in Groups /\ q.label = q.group
    /\ q.op = "update" => /\ q.group \in Groups /\ q.object \in Accounts
                          /\ q.position \in 1 .. Len(accounts[q.object])
    /\ q.op \in {"create", "update"} => AccountNameWasFree(q.name, q.seen)
    /\ q.op = "createToken" => /\ q.object \in Accounts
                               /\ TokenNameWasFree(q.name, q.seen)
    /\ q.op = "updateToken" =>
         /\ q.object \in Tokens /\ q.position \in 1 .. Len(tokens[q.object])
         /\ q.data \in {q.object} \X Accounts \X (tokens[q.object][q.position].data[3] .. now)
         /\ TokenNameWasFree(q.name, q.seen)

RequestsReadFirst == \A r \in Requests : pc[r] = "write" => ReadFirst(req[r])

\* The version in which an object got its present name.
NamedAt(versions) ==
    CHOOSE i \in 1 .. Len(versions) :
        /\ \A j \in i .. Len(versions) : versions[j].name = Latest(versions).name
        /\ i > 1 => versions[i - 1].name # versions[i].name

\* Whoever gave x its name had looked at y with its present name.
SawName(objects, x, y) ==
    LET seen == objects[x][NamedAt(objects[x])].seen
    IN  y \in DOMAIN seen /\ seen[y] >= NamedAt(objects[y])

SameNameUnseen(objects, some) ==
    \A x, y \in some :
        /\ x # y /\ Live(objects[x]) /\ Live(objects[y])
        /\ Latest(objects[x]).name = Latest(objects[y]).name
        => ~SawName(objects, x, y) /\ ~SawName(objects, y, x)

\* Names clash only where the check for a free name did not look.  Two
\* accounts of a project have one name only if neither request that named
\* them could see the other, in the cache, under that name; and so do two
\* tokens of one account, where a look-up for an administrator shows none and
\* one made under the URL of another account shows that account's tokens.
NamesClashUnseen ==
    /\ SameNameUnseen(accounts, Accounts)
    /\ \A a \in Accounts : SameNameUnseen(tokens, {t \in Tokens : tokens[t][1].owner = a})

\* A token that was replaced or deleted is not stored again, neither by a
\* change of its name that was under way nor by another regeneration; only
\* one that was generated for two accounts within one second may be, since
\* the second regeneration for the first of them gives the same token.
RevokedStaysRevoked ==
    \A t \in Tokens :
        Live(tokens[t]) /\ Latest(tokens[t]).data \in revoked
        => Switched(t, Latest(tokens[t]).data[3])

\* Types, and what makes names, groups and revocations safe: versions are
\* only added, a request goes by versions that were there, and the data of a
\* token names the token, an account and the second it was made in.
AccountsInv ==
    /\ TypeOK /\ GoneIsLast(accounts) /\ GoneIsLast(tokens)
    /\ DataIsOwn /\ RevokedIsOlder /\ LabelsLead /\ NamesWereFree /\ RequestsReadFirst

\* "UpdateEndpoint changes the service account group": once no label is
\* pending, the binding has the group the last answer named.
GroupIsApplied ==
    \A a \in Accounts :
        Live(accounts[a]) /\ Latest(accounts[a]).label = "none" => bound[a] = promised[a]

\* That fails only if the update left the label alone because the cached
\* binding already had the group, which was not, or not for long, true.
GroupLostOnlyIfMisread ==
    \A a \in Accounts :
        /\ Live(accounts[a]) /\ Latest(accounts[a]).label = "none"
        /\ misread[a] = "no"
        => bound[a] = promised[a]

\* A revoked token is refused in the end, unless it was made in a second in
\* which its token was generated for two accounts.
RevokedIsRefused ==
    \A t \in 1 .. MaxTokens, a \in 1 .. MaxAccounts, i \in 0 .. MaxTime :
        [](<<t, a, i>> \in revoked => <>[](Verify(<<t, a, i>>) => Switched(t, i)))

\* The tokens of an account go with it, those included that were being
\* created meanwhile and those regenerated under another account's URL: in
\* the end none is accepted that a deleted account owns, and none that
\* carries its address unless another account owns it.
TokensGoWithAccount ==
    \A a \in 1 .. MaxAccounts :
        []((a \in Accounts /\ ~Live(accounts[a])) =>
             <>[](\A t \in Tokens : Exists(tokens[t], tokShown[t]) =>
                    /\ tokens[t][1].owner # a
                    /\ tokens[t][tokShown[t]].data[2] = a => tokens[t][1].owner \in Accounts))
=============================================================================
