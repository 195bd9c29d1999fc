----------------------- MODULE ServiceAccountsProofs -----------------------
(***************************************************************************)
(* Service accounts and their tokens, for any number of requests, names,   *)
(* groups, accounts and tokens.  Versions are only added, and only after a *)
(* live one.  What a request has looked at stays where it was, so that a   *)
(* name, the data of a token or a label that was chosen from it is still   *)
(* right when an Update that names the version is accepted.                *)
(***************************************************************************)
EXTENDS ServiceAccounts, WellFoundedInduction, TLAPS

\* One more element of a sequence.
LEMMA AppendFacts ==
    ASSUME NEW S, NEW s \in Seq(S), NEW e \in S
    PROVE  /\ Append(s, e) \in Seq(S) /\ Len(Append(s, e)) = Len(s) + 1
           /\ \A i \in 1 .. Len(s) : Append(s, e)[i] = s[i]
           /\ Append(s, e)[Len(s) + 1] = e
  OBVIOUS

\* Another element in a place of a sequence.
LEMMA ExceptFacts ==
    ASSUME NEW S, NEW s \in Seq(S), NEW j \in 1 .. Len(s), NEW e \in S
    PROVE  /\ [s EXCEPT ![j] = e] \in Seq(S) /\ Len([s EXCEPT ![j] = e]) = Len(s)
           /\ [s EXCEPT ![j] = e][j] = e
           /\ \A i \in 1 .. Len(s) : i # j => [s EXCEPT ![j] = e][i] = s[i]
  OBVIOUS

\* An element of a sequence.
LEMMA ElementFacts ==
    ASSUME NEW S, NEW s \in Seq(S), NEW i \in 1 .. Len(s)
    PROVE  s[i] \in S /\ Len(s) \in Nat
  OBVIOUS

\* A sequence of one.
LEMMA SingletonFacts ==
    ASSUME NEW S, NEW e \in S
    PROVE  <<e>> \in Seq(S) /\ Len(<<e>>) = 1 /\ <<e>>[1] = e
  OBVIOUS

-----------------------------------------------------------------------------
(* How sequences of versions grow, those of the accounts and those of the  *)
(* tokens.                                                                 *)

\* What was there is still there.
Extends(old, new) ==
    /\ Len(old) <= Len(new)
    /\ \A x \in 1 .. Len(old) :
         /\ Len(old[x]) <= Len(new[x])
         /\ \A i \in 1 .. Len(old[x]) : new[x][i] = old[x][i]

Grow(objects, x, v) == [objects EXCEPT ![x] = Append(objects[x], v)]

\* An object gets another version.
LEMMA GrowFacts ==
    ASSUME NEW S, NEW s \in Seq(Seq(S)), NEW x \in 1 .. Len(s), NEW v \in S
    PROVE  /\ Grow(s, x, v) \in Seq(Seq(S)) /\ Len(Grow(s, x, v)) = Len(s)
           /\ Len(s[x]) \in Nat /\ Len(Grow(s, x, v)[x]) = Len(s[x]) + 1
           /\ Grow(s, x, v)[x][Len(s[x]) + 1] = v
           /\ \A i \in 1 .. Len(s[x]) : Grow(s, x, v)[x][i] = s[x][i]
           /\ \A y \in 1 .. Len(s) : y # x => Grow(s, x, v)[y] = s[y]
           /\ Extends(s, Grow(s, x, v))
  <1> DEFINE t == Append(s[x], v)
  <1>1. s[x] \in Seq(S) /\ Len(s[x]) \in Nat BY ElementFacts
  <1>2. /\ t \in Seq(S) /\ Len(t) = Len(s[x]) + 1 /\ t[Len(s[x]) + 1] = v
        /\ \A i \in 1 .. Len(s[x]) : t[i] = s[x][i]
    BY <1>1, AppendFacts
  <1>3. Grow(s, x, v) = [s EXCEPT ![x] = t] BY DEF Grow
  <1> HIDE DEF t
  <1>4. /\ Grow(s, x, v) \in Seq(Seq(S)) /\ Len(Grow(s, x, v)) = Len(s)
        /\ Grow(s, x, v)[x] = t
        /\ \A y \in 1 .. Len(s) : y # x => Grow(s, x, v)[y] = s[y]
    BY <1>2, <1>3, ExceptFacts
  <1>5. Len(s) \in Nat /\ \A y \in 1 .. Len(s) : Len(s[y]) \in Nat BY ElementFacts
  <1>6. ASSUME NEW y \in 1 .. Len(s)
        PROVE  /\ Len(s[y]) <= Len(Grow(s, x, v)[y])
               /\ \A i \in 1 .. Len(s[y]) : Grow(s, x, v)[y][i] = s[y][i]
    <2>1. CASE y = x BY <2>1, <1>1, <1>2, <1>4
    <2>2. CASE y # x BY <2>2, <1>4, <1>5
    <2> QED BY <2>1, <2>2
  <1>7. Extends(s, Grow(s, x, v)) BY <1>4, <1>5, <1>6 DEF Extends
  <1> QED BY <1>1, <1>2, <1>4, <1>7

\* There is one object more, with one version.
LEMMA CreateFacts ==
    ASSUME NEW S, NEW s \in Seq(Seq(S)), NEW v \in S
    PROVE  /\ Append(s, <<v>>) \in Seq(Seq(S)) /\ Len(Append(s, <<v>>)) = Len(s) + 1
           /\ Len(s) \in Nat /\ Append(s, <<v>>)[Len(s) + 1] = <<v>>
           /\ \A y \in 1 .. Len(s) : Append(s, <<v>>)[y] = s[y]
           /\ Extends(s, Append(s, <<v>>))
  <1>1. <<v>> \in Seq(S) BY SingletonFacts
  <1>2. /\ Append(s, <<v>>) \in Seq(Seq(S)) /\ Len(Append(s, <<v>>)) = Len(s) + 1
        /\ Len(s) \in Nat /\ Append(s, <<v>>)[Len(s) + 1] = <<v>>
        /\ \A y \in 1 .. Len(s) : Append(s, <<v>>)[y] = s[y]
    BY <1>1, AppendFacts
  <1>3. \A y \in 1 .. Len(s) : Len(s[y]) \in Nat BY ElementFacts
  <1>4. Extends(s, Append(s, <<v>>)) BY <1>2, <1>3 DEF Extends
  <1> QED BY <1>2, <1>4

\* Nothing happens to the objects.
LEMMA ExtendsItself ==
    ASSUME NEW S, NEW s \in Seq(Seq(S))
    PROVE  Extends(s, s)
  <1>1. Len(s) \in Nat /\ \A y \in 1 .. Len(s) : Len(s[y]) \in Nat BY ElementFacts
  <1> QED BY <1>1 DEF Extends

\* A new object is not gone, and nothing follows the end of an object.
LEMMA CreateAfterGone ==
    ASSUME NEW S, NEW s \in Seq(Seq(S)), NEW v \in S, GoneIsLast(s)
    PROVE  GoneIsLast(Append(s, <<v>>))
  <1>1. /\ Len(Append(s, <<v>>)) = Len(s) + 1 /\ Len(s) \in Nat
        /\ Append(s, <<v>>)[Len(s) + 1] = <<v>>
        /\ \A y \in 1 .. Len(s) : Append(s, <<v>>)[y] = s[y]
    BY CreateFacts
  <1>2. Len(<<v>>) = 1 BY SingletonFacts
  <1> DEFINE t == Append(s, <<v>>)
  <1> HIDE DEF t
  <1>3. ASSUME NEW x \in 1 .. Len(t)
        PROVE  Len(t[x]) > 0 /\ \A i \in 1 .. Len(t[x]) - 1 : t[x][i].exists = "yes"
    <2>1. CASE x = Len(s) + 1
      <3>1. Len(t[x]) = 1 BY <2>1, <1>1, <1>2 DEF t
      <3> QED BY <3>1
    <2>2. CASE x # Len(s) + 1
      <3>1. x \in 1 .. Len(s) BY <2>2, <1>1 DEF t
      <3>2. t[x] = s[x] BY <3>1, <1>1 DEF t
      <3> QED BY <3>1, <3>2 DEF GoneIsLast
    <2> QED BY <2>1, <2>2
  <1>4. GoneIsLast(t) BY <1>3 DEF GoneIsLast
  <1> QED BY <1>4 DEF t

\* The same for another version of a live object.
LEMMA GrowAfterGone ==
    ASSUME NEW S, NEW s \in Seq(Seq(S)), NEW x \in 1 .. Len(s), NEW v \in S
    PROVE  GoneIsLast(s) /\ Live(s[x]) => GoneIsLast(Grow(s, x, v))
  <1>1. Len(Grow(s, x, v)) = Len(s) BY GrowFacts
  <1>2. Len(s[x]) \in Nat /\ Len(Grow(s, x, v)[x]) = Len(s[x]) + 1 BY GrowFacts
  <1>3. \A i \in 1 .. Len(s[x]) : Grow(s, x, v)[x][i] = s[x][i] BY GrowFacts
  <1>4. \A y \in 1 .. Len(s) : y # x => Grow(s, x, v)[y] = s[y] BY GrowFacts
  <1> DEFINE t == Grow(s, x, v)
  <1>5. /\ Len(t) = Len(s) /\ Len(s[x]) \in Nat /\ Len(t[x]) = Len(s[x]) + 1
        /\ \A i \in 1 .. Len(s[x]) : t[x][i] = s[x][i]
        /\ \A y \in 1 .. Len(s) : y # x => t[y] = s[y]
    BY <1>1, <1>2, <1>3, <1>4
  <1> HIDE DEF t
  <1> HAVE GoneIsLast(s) /\ Live(s[x])
  <1>6. ASSUME NEW y \in 1 .. Len(t)
        PROVE  Len(t[y]) > 0 /\ \A i \in 1 .. Len(t[y]) - 1 : t[y][i].exists = "yes"
    <2>1. CASE y = x
      <3>1. \A i \in 1 .. Len(s[x]) : s[x][i].exists = "yes"
        BY <1>5 DEF GoneIsLast, Live, Exists
      <3> QED BY SMTT(60), <2>1, <3>1, <1>5
    <2>2. CASE y # x BY <2>2, <1>5 DEF GoneIsLast
    <2> QED BY <2>1, <2>2
  <1>7. GoneIsLast(t) BY <1>6 DEF GoneIsLast
  <1> QED BY <1>7 DEF t

-----------------------------------------------------------------------------
(* What a step does to the accounts and to the tokens.                     *)

\* The sequences of versions.
LEMMA VersionFacts ==
    ASSUME AccountsInv
    PROVE  /\ accounts \in Seq(Seq(AccountVersion)) /\ Len(accounts) \in Nat
           /\ tokens \in Seq(Seq(TokenVersion)) /\ Len(tokens) \in Nat
           /\ GoneIsLast(accounts) /\ GoneIsLast(tokens)
  BY DEF AccountsInv, TypeOK

\* The clock.
LEMMA NowFacts ==
    ASSUME AccountsInv
    PROVE  now \in Nat /\ now <= MaxTime /\ MaxTime \in Nat
  BY AccountsAssumption DEF AccountsInv, TypeOK

\* The versions of one account.
LEMMA AccountFacts ==
    ASSUME AccountsInv, NEW a \in Accounts
    PROVE  /\ a \in 1 .. Len(accounts) /\ Len(accounts[a]) \in Nat \ {0}
           /\ \A i \in 1 .. Len(accounts[a]) : accounts[a][i] \in AccountVersion
           /\ Latest(accounts[a]) \in AccountVersion
  <1>1. a \in 1 .. Len(accounts) BY DEF Accounts
  <1>2. accounts[a] \in Seq(AccountVersion) /\ Len(accounts[a]) > 0
    BY <1>1, VersionFacts, ElementFacts DEF GoneIsLast
  <1>3. /\ Len(accounts[a]) \in Nat \ {0}
        /\ \A i \in 1 .. Len(accounts[a]) : accounts[a][i] \in AccountVersion
    BY <1>2, ElementFacts
  <1> QED BY <1>1, <1>3 DEF Latest

\* The versions of one token.
LEMMA TokenFacts ==
    ASSUME AccountsInv, NEW t \in Tokens
    PROVE  /\ t \in 1 .. Len(tokens) /\ Len(tokens[t]) \in Nat \ {0}
           /\ \A i \in 1 .. Len(tokens[t]) : tokens[t][i] \in TokenVersion
           /\ Latest(tokens[t]) \in TokenVersion
           /\ tokens[t][1] \in TokenVersion /\ tokens[t][1].owner \in Accounts
  <1>1. t \in 1 .. Len(tokens) BY DEF Tokens
  <1>2. tokens[t] \in Seq(TokenVersion) /\ Len(tokens[t]) > 0
    BY <1>1, VersionFacts, ElementFacts DEF GoneIsLast
  <1>3. /\ Len(tokens[t]) \in Nat \ {0}
        /\ \A i \in 1 .. Len(tokens[t]) : tokens[t][i] \in TokenVersion
    BY <1>2, ElementFacts
  <1>4. tokens[t][1].owner \in Accounts BY DEF AccountsInv, DataIsOwn
  <1>5. Latest(tokens[t]) \in TokenVersion /\ tokens[t][1] \in TokenVersion
    BY <1>3 DEF Latest
  <1> QED BY <1>1, <1>3, <1>4, <1>5

\* A request that writes has read what it goes by.
LEMMA HeldFacts ==
    ASSUME AccountsInv, NEW r \in Requests, NEW op, Answer(r, op)
    PROVE  req[r] \in Held /\ req[r].op = op /\ ReadFirst(req[r])
  BY DEF AccountsInv, TypeOK, RequestsReadFirst, Answer

\* An account v is created, or a gets the version v.
AddsAccount(v) ==
    /\ v \in AccountVersion /\ accounts' = Append(accounts, <<v>>)
    /\ AccountNameWasFree(v.name, v.seen)
GrowsAccount(a, v) ==
    /\ a \in Accounts /\ v \in AccountVersion /\ accounts' = Grow(accounts, a, v)
    /\ Live(accounts[a]) /\ AccountNameWasFree(v.name, v.seen)

\* A token v is created, or t gets the version v.
AddsToken(v) ==
    /\ v \in TokenVersion /\ tokens' = Append(tokens, <<v>>)
    /\ v.owner \in Accounts /\ v.data = <<Len(tokens) + 1, v.owner, now>>
    /\ TokenNameWasFree(v.name, v.seen)
GrowsToken(t, v) ==
    /\ t \in Tokens /\ v \in TokenVersion /\ tokens' = Grow(tokens, t, v)
    /\ Live(tokens[t]) /\ TokenNameWasFree(v.name, v.seen)
    /\ v.data \in {t} \X Accounts \X (Latest(tokens[t]).data[3] .. now)

\* createSA.
LEMMA CreateSAWrites ==
    ASSUME AccountsInv, NEW r \in Requests, CreateSA(r)
    PROVE  AddsAccount(NewAccount(req[r].name, req[r].label, req[r].seen))
  <1>1. Answer(r, "create") BY DEF CreateSA
  <1>2. req[r] \in Held /\ req[r].op = "create" /\ ReadFirst(req[r]) BY <1>1, HeldFacts
  <1>3. /\ req[r].name \in Names /\ req[r].label \in GroupOrNone /\ req[r].seen \in Seq(Nat)
        /\ AccountNameWasFree(req[r].name, req[r].seen)
    BY <1>2 DEF ReadFirst, Held
  <1> QED BY <1>3 DEF CreateSA, AddsAccount, NewAccount, AccountVersion

\* updateSA.
LEMMA UpdateSAWrites ==
    ASSUME AccountsInv, NEW r \in Requests, UpdateSA(r)
    PROVE  GrowsAccount(req[r].object, NewAccount(req[r].name, req[r].label, req[r].seen))
  <1>1. Answer(r, "update") BY DEF UpdateSA
  <1>2. req[r] \in Held /\ req[r].op = "update" /\ ReadFirst(req[r]) BY <1>1, HeldFacts
  <1>3. /\ req[r].name \in Names /\ req[r].label \in GroupOrNone /\ req[r].seen \in Seq(Nat)
        /\ AccountNameWasFree(req[r].name, req[r].seen) /\ req[r].object \in Accounts
    BY <1>2 DEF ReadFirst, Held
  <1>4. NewAccount(req[r].name, req[r].label, req[r].seen) \in AccountVersion
    BY <1>3 DEF NewAccount, AccountVersion
  <1> QED BY <1>3, <1>4 DEF UpdateSA, GrowsAccount, NewAccount, Grow

\* What was given a name under which nothing was seen keeps it.
LEMMA AccountNameStays ==
    ASSUME AccountsInv, NEW a \in Accounts
    PROVE  AccountNameWasFree(Latest(accounts[a]).name, Latest(accounts[a]).seen)
  <1>1. Len(accounts[a]) \in 1 .. Len(accounts[a]) BY AccountFacts
  <1> QED BY <1>1 DEF AccountsInv, NamesWereFree, Latest

\* The same for a token.
LEMMA TokenNameStays ==
    ASSUME AccountsInv, NEW t \in Tokens
    PROVE  TokenNameWasFree(Latest(tokens[t]).name, Latest(tokens[t]).seen)
  <1>1. Len(tokens[t]) \in 1 .. Len(tokens[t]) BY TokenFacts
  <1> QED BY <1>1 DEF AccountsInv, NamesWereFree, Latest

\* DeleteEndpoint and the controller.
LEMMA DeleteSAWrites ==
    ASSUME AccountsInv, NEW r \in Requests, NEW by \in Callers, NEW a \in Accounts,
           DeleteSA(r, by, a)
    PROVE  GrowsAccount(a, [Latest(accounts[a]) EXCEPT !.exists = "no"])
  <1>1. Latest(accounts[a]) \in AccountVersion BY AccountFacts
  <1>2. AccountNameWasFree(Latest(accounts[a]).name, Latest(accounts[a]).seen)
    BY AccountNameStays
  <1> DEFINE v == [Latest(accounts[a]) EXCEPT !.exists = "no"]
  <1>3. /\ v \in AccountVersion /\ v.name = Latest(accounts[a]).name
        /\ v.seen = Latest(accounts[a]).seen
    BY <1>1 DEF AccountVersion
  <1>4. accounts' = Grow(accounts, a, v) /\ Live(accounts[a]) BY DEF DeleteSA, Grow
  <1> HIDE DEF v
  <1>5. GrowsAccount(a, v) BY <1>2, <1>3, <1>4 DEF GrowsAccount
  <1> QED BY <1>5 DEF v

\* The controller removes a label from a version that still stands.
LEMMA RemoveLabelWrites ==
    ASSUME AccountsInv, NEW a \in Accounts, RemoveLabel(a)
    PROVE  \/ accounts' = accounts /\ applying[a] # Len(accounts[a])
           \/ /\ GrowsAccount(a, [Latest(accounts[a]) EXCEPT !.label = "none"])
              /\ Latest(accounts[a]).label = bound[a]
  <1>1. Latest(accounts[a]) \in AccountVersion BY AccountFacts
  <1>2. AccountNameWasFree(Latest(accounts[a]).name, Latest(accounts[a]).seen)
    BY AccountNameStays
  <1> DEFINE v == [Latest(accounts[a]) EXCEPT !.label = "none"]
  <1>3. /\ v \in AccountVersion /\ v.name = Latest(accounts[a]).name
        /\ v.seen = Latest(accounts[a]).seen
    BY <1>1 DEF AccountVersion, GroupOrNone
  <1>4. CASE applying[a] # Len(accounts[a]) BY <1>4 DEF RemoveLabel
  <1>5. CASE applying[a] = Len(accounts[a])
    <2>1. accounts' = Grow(accounts, a, v) BY <1>5 DEF RemoveLabel, Grow
    <2>2. Live(accounts[a]) /\ Latest(accounts[a]).label = bound[a]
      BY <1>5 DEF AccountsInv, LabelsLead
    <2> HIDE DEF v
    <2>3. GrowsAccount(a, v) BY <1>2, <1>3, <2>1, <2>2 DEF GrowsAccount
    <2> QED BY <2>2, <2>3 DEF v
  <1> QED BY <1>4, <1>5

\* createSAToken.
LEMMA CreateSATokenWrites ==
    ASSUME AccountsInv, NEW r \in Requests, CreateSAToken(r)
    PROVE  AddsToken(NewToken(req[r].object, req[r].name,
                              Generate(Len(tokens) + 1, req[r].object), req[r].seen))
  <1>1. Answer(r, "createToken") BY DEF CreateSAToken
  <1>2. req[r] \in Held /\ req[r].op = "createToken" /\ ReadFirst(req[r]) BY <1>1, HeldFacts
  <1>3. /\ req[r].name \in Names /\ req[r].object \in Nat /\ req[r].seen \in Seq(Nat)
        /\ req[r].object \in Accounts
        /\ TokenNameWasFree(req[r].name, req[r].seen)
    BY <1>2 DEF ReadFirst, Held
  <1>4. Len(tokens) \in Nat /\ now \in Nat
    BY VersionFacts, AccountsAssumption DEF AccountsInv, TypeOK
  <1>5. Generate(Len(tokens) + 1, req[r].object) \in TokenData
    BY <1>3, <1>4 DEF Generate, TokenData
  <1> DEFINE v == NewToken(req[r].object, req[r].name,
                           Generate(Len(tokens) + 1, req[r].object), req[r].seen)
  <1>6. /\ v \in TokenVersion /\ v.owner = req[r].object /\ v.name = req[r].name
        /\ v.seen = req[r].seen /\ v.data = <<Len(tokens) + 1, v.owner, now>>
    BY <1>3, <1>5 DEF NewToken, TokenVersion, Generate
  <1>7. tokens' = Append(tokens, <<v>>) BY DEF CreateSAToken
  <1> HIDE DEF v
  <1>8. AddsToken(v) BY <1>3, <1>6, <1>7 DEF AddsToken
  <1> QED BY <1>8 DEF v

\* updateSAToken: the version it was made from is the latest.
LEMMA UpdateSATokenWrites ==
    ASSUME AccountsInv, NEW r \in Requests, UpdateSAToken(r)
    PROVE  GrowsToken(req[r].object, NewToken(tokens[req[r].object][1].owner, req[r].name,
                                              req[r].data, req[r].seen))
  <1> DEFINE t == req[r].object
             v == NewToken(tokens[t][1].owner, req[r].name, req[r].data, req[r].seen)
  <1>1. Answer(r, "updateToken") BY DEF UpdateSAToken
  <1>2. req[r] \in Held /\ req[r].op = "updateToken" /\ ReadFirst(req[r]) BY <1>1, HeldFacts
  <1>3. /\ req[r].name \in Names /\ t \in Tokens /\ req[r].seen \in Seq(Nat)
        /\ req[r].data \in TokenData
        /\ TokenNameWasFree(req[r].name, req[r].seen)
        /\ req[r].data \in {t} \X Accounts \X (tokens[t][req[r].position].data[3] .. now)
    BY <1>2 DEF ReadFirst, Held
  <1>4. tokens[t][1].owner \in Nat BY <1>3, TokenFacts DEF TokenVersion
  <1>5. v \in TokenVersion /\ v.name = req[r].name /\ v.seen = req[r].seen /\ v.data = req[r].data
    BY <1>3, <1>4 DEF NewToken, TokenVersion
  <1>6. /\ tokens' = Grow(tokens, t, v) /\ Live(tokens[t])
        /\ tokens[t][req[r].position] = Latest(tokens[t])
    BY DEF UpdateSAToken, Grow, Latest
  <1> HIDE DEF v
  <1>7. GrowsToken(t, v) BY <1>3, <1>5, <1>6 DEF GrowsToken
  <1> QED BY <1>7 DEF v

\* DeleteTokenEndpoint and the garbage collector.
LEMMA RemoveWrites ==
    ASSUME AccountsInv, NEW t \in Tokens, Remove(t)
    PROVE  GrowsToken(t, [Latest(tokens[t]) EXCEPT !.exists = "no"])
  <1> DEFINE v == [Latest(tokens[t]) EXCEPT !.exists = "no"]
  <1>1. Latest(tokens[t]) \in TokenVersion /\ Len(tokens[t]) \in 1 .. Len(tokens[t])
    BY TokenFacts
  <1>2. TokenNameWasFree(Latest(tokens[t]).name, Latest(tokens[t]).seen)
    BY TokenNameStays
  <1>3. /\ v \in TokenVersion /\ v.name = Latest(tokens[t]).name
        /\ v.seen = Latest(tokens[t]).seen /\ v.data = Latest(tokens[t]).data
    BY <1>1 DEF TokenVersion
  <1>4. tokens' = Grow(tokens, t, v) /\ Live(tokens[t]) BY DEF Remove, Grow
  <1>5. Latest(tokens[t]).data \in {t} \X Accounts \X (0 .. now)
    BY <1>1 DEF AccountsInv, DataIsOwn, Latest
  <1>6. Latest(tokens[t]).data \in {t} \X Accounts \X (Latest(tokens[t]).data[3] .. now)
    BY <1>5, NowFacts
  <1> HIDE DEF v
  <1>7. GrowsToken(t, v) BY <1>2, <1>3, <1>4, <1>6 DEF GrowsToken
  <1> QED BY <1>7 DEF v

-----------------------------------------------------------------------------
(* The objects after a step.                                               *)

WritesAccounts ==
    accounts' = accounts \/ (\E v : AddsAccount(v)) \/ (\E a, v : GrowsAccount(a, v))
WritesTokens ==
    tokens' = tokens \/ (\E v : AddsToken(v)) \/ (\E t, v : GrowsToken(t, v))

\* A request that starts reads, or deletes at once.
LEMMA HoldsOrDeletes ==
    ASSUME NEW r \in Requests, Start(r)
    PROVE  \/ \E held : Hold(r, held)
           \/ \E by \in Callers : \/ \E a \in Accounts : DeleteSA(r, by, a)
                                  \/ \E a \in Accounts, t \in Tokens : DeleteSAToken(r, by, a, t)
  <1>1. PICK by \in Callers :
           \/ \E n \in Names, g \in Groups :
                \/ StartCreate(r, by, n, g)
                \/ \E a \in Accounts : StartUpdate(r, by, a, n, g)
           \/ \E a \in Accounts : DeleteSA(r, by, a)
           \/ \E a \in Accounts, n \in Names : StartToken(r, by, a, n)
           \/ \E a \in Accounts, t \in Tokens, n \in Names, regenerate \in BOOLEAN :
                StartTokenUpdate(r, by, a, t, n, regenerate)
           \/ \E a \in Accounts, t \in Tokens : DeleteSAToken(r, by, a, t)
    BY DEF Start
  <1>2. ASSUME NEW n, NEW g, StartCreate(r, by, n, g) PROVE \E held : Hold(r, held)
    BY <1>2 DEF StartCreate
  <1>3. ASSUME NEW a, NEW n, NEW g, StartUpdate(r, by, a, n, g) PROVE \E held : Hold(r, held)
    BY <1>3 DEF StartUpdate
  <1>4. ASSUME NEW a, NEW n, StartToken(r, by, a, n) PROVE \E held : Hold(r, held)
    BY <1>4 DEF StartToken
  <1>5. ASSUME NEW a, NEW t, NEW n, NEW regenerate, StartTokenUpdate(r, by, a, t, n, regenerate)
        PROVE  \E held : Hold(r, held)
    BY <1>5 DEF StartTokenUpdate
  <1> QED BY <1>1, <1>2, <1>3, <1>4, <1>5

\* Accounts and tokens change in no other way.
LEMMA StepWrites ==
    ASSUME AccountsInv, [Next]_vars
    PROVE  /\ WritesAccounts /\ WritesTokens
           /\ now' \in Nat /\ now <= now' /\ now' <= MaxTime
  <1>n. now \in Nat /\ now <= MaxTime /\ MaxTime \in Nat
    BY AccountsAssumption DEF AccountsInv, TypeOK
  <1>1. CASE Tick BY <1>1, <1>n DEF Tick, WritesAccounts, WritesTokens, accountVars, tokenVars
  <1>2. ASSUME NEW a \in Accounts, ApplyLabel(a) \/ SyncAccount(a) \/ SyncBinding(a)
        PROVE  accounts' = accounts /\ tokens' = tokens /\ now' = now
    BY <1>2 DEF ApplyLabel, SyncAccount, SyncBinding, accountVars, tokenVars
  <1>3. ASSUME NEW a \in Accounts, RemoveLabel(a)
        PROVE  WritesAccounts /\ tokens' = tokens /\ now' = now
    <2>1. WritesAccounts BY <1>3, RemoveLabelWrites DEF WritesAccounts
    <2> QED BY <1>3, <2>1 DEF RemoveLabel, tokenVars
  <1>4. ASSUME NEW t \in Tokens, Collect(t)
        PROVE  WritesTokens /\ accounts' = accounts /\ now' = now
    <2>1. Remove(t) BY <1>4 DEF Collect
    <2>2. WritesTokens BY <2>1, RemoveWrites DEF WritesTokens
    <2> QED BY <2>1, <2>2 DEF Remove, accountVars
  <1>5. ASSUME NEW t \in Tokens, SyncToken(t)
        PROVE  accounts' = accounts /\ tokens' = tokens /\ now' = now
    BY <1>5 DEF SyncToken, accountVars, tokenVars
  <1>6. ASSUME NEW r \in Requests, Start(r)
        PROVE  WritesAccounts /\ WritesTokens /\ now' = now
    <2>2. ASSUME NEW held, Hold(r, held)
          PROVE  accounts' = accounts /\ tokens' = tokens /\ now' = now
      BY <2>2 DEF Hold, accountVars, tokenVars
    <2>3. ASSUME NEW by \in Callers, NEW a \in Accounts, DeleteSA(r, by, a)
          PROVE  WritesAccounts /\ tokens' = tokens /\ now' = now
      <3>1. WritesAccounts BY <2>3, DeleteSAWrites DEF WritesAccounts
      <3> QED BY <2>3, <3>1 DEF DeleteSA, tokenVars
    <2>4. ASSUME NEW by \in Callers, NEW a \in Accounts, NEW t \in Tokens,
                 DeleteSAToken(r, by, a, t)
          PROVE  WritesTokens /\ accounts' = accounts /\ now' = now
      <3>1. Remove(t) BY <2>4 DEF DeleteSAToken
      <3>2. WritesTokens BY <3>1, RemoveWrites DEF WritesTokens
      <3> QED BY <3>1, <3>2 DEF Remove, accountVars
    <2>5. \/ \E held : Hold(r, held)
          \/ \E by \in Callers : \/ \E a \in Accounts : DeleteSA(r, by, a)
                                 \/ \E a \in Accounts, t \in Tokens : DeleteSAToken(r, by, a, t)
      BY <1>6, HoldsOrDeletes
    <2> QED BY <2>2, <2>3, <2>4, <2>5 DEF WritesAccounts, WritesTokens
  <1>7. ASSUME NEW r \in Requests, Finish(r)
        PROVE  WritesAccounts /\ WritesTokens /\ now' = now
    <2>1. CASE CreateSA(r)
      <3>1. WritesAccounts BY <2>1, CreateSAWrites DEF WritesAccounts
      <3> QED BY <2>1, <3>1 DEF CreateSA, WritesTokens, tokenVars
    <2>2. CASE UpdateSA(r)
      <3>1. WritesAccounts BY <2>2, UpdateSAWrites DEF WritesAccounts
      <3> QED BY <2>2, <3>1 DEF UpdateSA, WritesTokens, tokenVars
    <2>3. CASE CreateSAToken(r)
      <3>1. WritesTokens BY <2>3, CreateSATokenWrites DEF WritesTokens
      <3> QED BY <2>3, <3>1 DEF CreateSAToken, WritesAccounts, accountVars
    <2>4. CASE UpdateSAToken(r)
      <3>1. WritesTokens BY <2>4, UpdateSATokenWrites DEF WritesTokens
      <3> QED BY <2>4, <3>1 DEF UpdateSAToken, WritesAccounts, accountVars
    <2>5. CASE WriteFails(r)
      BY <2>5 DEF WriteFails, WritesAccounts, WritesTokens, accountVars, tokenVars
    <2> QED BY <1>7, <2>1, <2>2, <2>3, <2>4, <2>5 DEF Finish
  <1>8. CASE UNCHANGED vars BY <1>8, <1>n DEF vars, WritesAccounts, WritesTokens
  <1>9. CASE Surroundings
    BY <1>9, <1>2, <1>3, <1>4, <1>5, <1>n DEF Surroundings, WritesAccounts, WritesTokens
  <1> QED BY <1>1, <1>6, <1>7, <1>8, <1>9, <1>n DEF Next

\* The accounts after a step.
LEMMA AccountsAfter ==
    ASSUME AccountsInv, WritesAccounts
    PROVE  /\ accounts' \in Seq(Seq(AccountVersion)) /\ Len(accounts') \in Nat
           /\ GoneIsLast(accounts') /\ Extends(accounts, accounts')
  <1>1. accounts \in Seq(Seq(AccountVersion)) /\ Len(accounts) \in Nat /\ GoneIsLast(accounts)
    BY VersionFacts
  <1>2. CASE accounts' = accounts BY <1>1, <1>2, ExtendsItself
  <1>3. ASSUME NEW v, AddsAccount(v)
        PROVE  /\ accounts' \in Seq(Seq(AccountVersion)) /\ GoneIsLast(accounts')
               /\ Extends(accounts, accounts')
    <2>1. v \in AccountVersion /\ accounts' = Append(accounts, <<v>>) BY <1>3 DEF AddsAccount
    <2> QED BY <1>1, <2>1, CreateFacts, CreateAfterGone
  <1>4. ASSUME NEW a, NEW v, GrowsAccount(a, v)
        PROVE  /\ accounts' \in Seq(Seq(AccountVersion)) /\ GoneIsLast(accounts')
               /\ Extends(accounts, accounts')
    <2>1. /\ v \in AccountVersion /\ accounts' = Grow(accounts, a, v)
          /\ a \in 1 .. Len(accounts) /\ Live(accounts[a])
      BY <1>4 DEF GrowsAccount, Accounts
    <2> QED BY <1>1, <2>1, GrowFacts, GrowAfterGone
  <1>5. accounts' \in Seq(Seq(AccountVersion)) => Len(accounts') \in Nat OBVIOUS
  <1> QED BY <1>1, <1>2, <1>3, <1>4, <1>5 DEF WritesAccounts

\* The tokens after a step.
LEMMA TokensAfter ==
    ASSUME AccountsInv, WritesTokens
    PROVE  /\ tokens' \in Seq(Seq(TokenVersion)) /\ Len(tokens') \in Nat
           /\ GoneIsLast(tokens') /\ Extends(tokens, tokens')
  <1>1. tokens \in Seq(Seq(TokenVersion)) /\ Len(tokens) \in Nat /\ GoneIsLast(tokens)
    BY VersionFacts
  <1>2. CASE tokens' = tokens BY <1>1, <1>2, ExtendsItself
  <1>3. ASSUME NEW v, AddsToken(v)
        PROVE  /\ tokens' \in Seq(Seq(TokenVersion)) /\ GoneIsLast(tokens')
               /\ Extends(tokens, tokens')
    <2>1. v \in TokenVersion /\ tokens' = Append(tokens, <<v>>) BY <1>3 DEF AddsToken
    <2> QED BY <1>1, <2>1, CreateFacts, CreateAfterGone
  <1>4. ASSUME NEW t, NEW v, GrowsToken(t, v)
        PROVE  /\ tokens' \in Seq(Seq(TokenVersion)) /\ GoneIsLast(tokens')
               /\ Extends(tokens, tokens')
    <2>1. /\ v \in TokenVersion /\ tokens' = Grow(tokens, t, v)
          /\ t \in 1 .. Len(tokens) /\ Live(tokens[t])
      BY <1>4 DEF GrowsToken, Tokens
    <2> QED BY <1>1, <2>1, GrowFacts, GrowAfterGone
  <1>5. tokens' \in Seq(Seq(TokenVersion)) => Len(tokens') \in Nat OBVIOUS
  <1> QED BY <1>1, <1>2, <1>3, <1>4, <1>5 DEF WritesTokens

\* An account with another version, and the others.
LEMMA AccountGrows ==
    ASSUME AccountsInv, NEW b, NEW v, GrowsAccount(b, v)
    PROVE  /\ b \in 1 .. Len(accounts) /\ v \in AccountVersion
           /\ Len(accounts') = Len(accounts) /\ Len(accounts[b]) \in Nat
           /\ Len(accounts'[b]) = Len(accounts[b]) + 1
           /\ accounts'[b][Len(accounts[b]) + 1] = v
           /\ \A j \in 1 .. Len(accounts[b]) : accounts'[b][j] = accounts[b][j]
           /\ \A c \in 1 .. Len(accounts) : c # b => accounts'[c] = accounts[c]
           /\ Latest(accounts'[b]) = v
  <1>1. accounts \in Seq(Seq(AccountVersion)) BY VersionFacts
  <1>2. v \in AccountVersion /\ b \in 1 .. Len(accounts) BY DEF GrowsAccount, Accounts
  <1>3. accounts' = Grow(accounts, b, v) BY DEF GrowsAccount
  <1>4. /\ Len(Grow(accounts, b, v)) = Len(accounts) /\ Len(accounts[b]) \in Nat
        /\ Len(Grow(accounts, b, v)[b]) = Len(accounts[b]) + 1
        /\ Grow(accounts, b, v)[b][Len(accounts[b]) + 1] = v
        /\ \A j \in 1 .. Len(accounts[b]) : Grow(accounts, b, v)[b][j] = accounts[b][j]
        /\ \A c \in 1 .. Len(accounts) : c # b => Grow(accounts, b, v)[c] = accounts[c]
    BY <1>1, <1>2, GrowFacts, SMTT(30)
  <1> QED BY <1>2, <1>3, <1>4 DEF Latest

\* A token with another version, and the others.
LEMMA TokenGrows ==
    ASSUME AccountsInv, NEW b, NEW v, GrowsToken(b, v)
    PROVE  /\ b \in 1 .. Len(tokens) /\ v \in TokenVersion
           /\ Len(tokens') = Len(tokens) /\ Len(tokens[b]) \in Nat
           /\ Len(tokens'[b]) = Len(tokens[b]) + 1
           /\ tokens'[b][Len(tokens[b]) + 1] = v
           /\ \A j \in 1 .. Len(tokens[b]) : tokens'[b][j] = tokens[b][j]
           /\ \A c \in 1 .. Len(tokens) : c # b => tokens'[c] = tokens[c]
           /\ Latest(tokens'[b]) = v
  <1>1. tokens \in Seq(Seq(TokenVersion)) BY VersionFacts
  <1>2. v \in TokenVersion /\ b \in 1 .. Len(tokens) BY DEF GrowsToken, Tokens
  <1>3. tokens' = Grow(tokens, b, v) BY DEF GrowsToken
  <1>4. /\ Len(Grow(tokens, b, v)) = Len(tokens) /\ Len(tokens[b]) \in Nat
        /\ Len(Grow(tokens, b, v)[b]) = Len(tokens[b]) + 1
        /\ Grow(tokens, b, v)[b][Len(tokens[b]) + 1] = v
        /\ \A j \in 1 .. Len(tokens[b]) : Grow(tokens, b, v)[b][j] = tokens[b][j]
        /\ \A c \in 1 .. Len(tokens) : c # b => Grow(tokens, b, v)[c] = tokens[c]
    BY <1>1, <1>2, GrowFacts, SMTT(30)
  <1> QED BY <1>2, <1>3, <1>4 DEF Latest

\* AccountNameWasFree and TokenNameWasFree, of any objects.
FreeIn(objects, n, seen) ==
    \A a \in DOMAIN seen :
        /\ a \in 1 .. Len(objects) /\ seen[a] <= Len(objects[a])
        /\ Exists(objects[a], seen[a]) => objects[a][seen[a]].name # n

\* What a request looked at stays as it saw it.
LEMMA FreeStays ==
    ASSUME NEW S, NEW old \in Seq(Seq(S)), NEW new \in Seq(Seq(S)), Extends(old, new),
           NEW n, NEW seen \in Seq(Nat)
    PROVE  FreeIn(old, n, seen) => FreeIn(new, n, seen)
  <1>0. /\ \A a \in 1 .. Len(old) : Len(old[a]) \in Nat
        /\ \A a \in 1 .. Len(new) : Len(new[a]) \in Nat
    BY ElementFacts
  <1> HAVE FreeIn(old, n, seen)
  <1>1. ASSUME NEW a \in DOMAIN seen
        PROVE  /\ a \in 1 .. Len(new) /\ seen[a] <= Len(new[a])
               /\ Exists(new[a], seen[a]) => new[a][seen[a]].name # n
    <2>1. /\ a \in 1 .. Len(old) /\ seen[a] <= Len(old[a]) /\ seen[a] \in Nat
          /\ Exists(old[a], seen[a]) => old[a][seen[a]].name # n
      BY DEF FreeIn
    <2>2. Len(old) \in Nat /\ Len(new) \in Nat /\ Len(old) <= Len(new) BY DEF Extends
    <2>3. a \in 1 .. Len(new) BY <2>1, <2>2
    <2>4. Len(old[a]) \in Nat /\ Len(new[a]) \in Nat BY <2>1, <2>3, <1>0
    <2>5. /\ Len(old[a]) <= Len(new[a])
          /\ \A i \in 1 .. Len(old[a]) : new[a][i] = old[a][i]
      BY <2>1 DEF Extends
    <2>6. seen[a] > 0 => new[a][seen[a]] = old[a][seen[a]] BY <2>1, <2>4, <2>5
    <2> QED BY SMTT(60), <2>1, <2>3, <2>4, <2>5, <2>6 DEF Exists
  <1> QED BY <1>1 DEF FreeIn

-----------------------------------------------------------------------------
(* Names.                                                                  *)

\* Whatever version a step adds, its name was free among the accounts that
\* were looked at.
LEMMA AccountNamesAfter ==
    ASSUME AccountsInv, WritesAccounts
    PROVE  \A a \in 1 .. Len(accounts') : \A i \in 1 .. Len(accounts'[a]) :
             FreeIn(accounts', accounts'[a][i].name, accounts'[a][i].seen)
  <1>1. /\ accounts \in Seq(Seq(AccountVersion)) /\ Len(accounts) \in Nat
        /\ accounts' \in Seq(Seq(AccountVersion)) /\ Len(accounts') \in Nat
        /\ Extends(accounts, accounts')
    BY VersionFacts, AccountsAfter
  <1>2. \A a \in 1 .. Len(accounts) : \A i \in 1 .. Len(accounts[a]) :
          FreeIn(accounts, accounts[a][i].name, accounts[a][i].seen)
    BY DEF AccountsInv, NamesWereFree, AccountNameWasFree, FreeIn, Accounts
  <1>3. \A a \in 1 .. Len(accounts') : accounts'[a] \in Seq(AccountVersion) BY <1>1, ElementFacts
  <1>4. ASSUME NEW a \in 1 .. Len(accounts'), NEW i \in 1 .. Len(accounts'[a])
        PROVE  FreeIn(accounts, accounts'[a][i].name, accounts'[a][i].seen)
    <2>1. CASE accounts' = accounts BY <1>2, <2>1
    <2>2. ASSUME NEW v, AddsAccount(v)
          PROVE  FreeIn(accounts, accounts'[a][i].name, accounts'[a][i].seen)
      <3>1. v \in AccountVersion /\ accounts' = Append(accounts, <<v>>)
        BY <2>2 DEF AddsAccount
      <3>2. FreeIn(accounts, v.name, v.seen)
        BY <2>2 DEF AddsAccount, AccountNameWasFree, FreeIn, Accounts
      <3>3. /\ Len(accounts') = Len(accounts) + 1 /\ accounts'[Len(accounts) + 1] = <<v>>
            /\ \A b \in 1 .. Len(accounts) : accounts'[b] = accounts[b]
        BY <1>1, <3>1, CreateFacts
      <3>4. CASE a = Len(accounts) + 1
        <4>1. accounts'[a] = <<v>> BY <3>3, <3>4
        <4>2. i = 1 BY <4>1
        <4>3. accounts'[a][i] = v BY <4>1, <4>2
        <4> QED BY <3>2, <4>3
      <3>5. CASE a # Len(accounts) + 1
        <4>1. a \in 1 .. Len(accounts) BY <1>1, <3>3, <3>5
        <4> QED BY <1>2, <3>3, <4>1
      <3> QED BY <3>4, <3>5
    <2>3. ASSUME NEW b, NEW v, GrowsAccount(b, v)
          PROVE  FreeIn(accounts, accounts'[a][i].name, accounts'[a][i].seen)
      <3>1. v \in AccountVersion /\ b \in 1 .. Len(accounts) /\ accounts' = Grow(accounts, b, v)
        BY <2>3 DEF GrowsAccount, Accounts
      <3>2. FreeIn(accounts, v.name, v.seen)
        BY <2>3 DEF GrowsAccount, AccountNameWasFree, FreeIn, Accounts
      <3>3. /\ Len(accounts') = Len(accounts) /\ Len(accounts[b]) \in Nat
            /\ Len(accounts'[b]) = Len(accounts[b]) + 1
            /\ accounts'[b][Len(accounts[b]) + 1] = v
            /\ \A j \in 1 .. Len(accounts[b]) : accounts'[b][j] = accounts[b][j]
            /\ \A c \in 1 .. Len(accounts) : c # b => accounts'[c] = accounts[c]
        BY <2>3, AccountGrows
      <3>4. CASE a = b /\ i = Len(accounts[b]) + 1 BY <3>2, <3>3, <3>4
      <3>5. CASE a = b /\ i # Len(accounts[b]) + 1
        <4>1. i \in 1 .. Len(accounts[b]) BY <3>3, <3>5
        <4> QED BY <1>2, <3>1, <3>3, <3>5, <4>1
      <3>6. CASE a # b BY <1>2, <3>3, <3>6
      <3> QED BY <3>4, <3>5, <3>6
    <2> QED BY <2>1, <2>2, <2>3 DEF WritesAccounts
  <1>5. ASSUME NEW a \in 1 .. Len(accounts'), NEW i \in 1 .. Len(accounts'[a])
        PROVE  FreeIn(accounts', accounts'[a][i].name, accounts'[a][i].seen)
    <2>1. accounts'[a][i] \in AccountVersion BY <1>3, ElementFacts
    <2>2. accounts'[a][i].seen \in Seq(Nat) BY <2>1 DEF AccountVersion
    <2> QED BY <1>1, <1>4, <2>2, FreeStays
  <1> QED BY <1>5

\* The first version of a token stays, and so does its owner.
LEMMA OwnerStays ==
    ASSUME AccountsInv, WritesTokens, NEW t \in 1 .. Len(tokens)
    PROVE  t \in 1 .. Len(tokens') /\ tokens'[t][1] = tokens[t][1]
  <1>1. Extends(tokens, tokens') /\ Len(tokens') \in Nat BY TokensAfter
  <1>2. Len(tokens[t]) \in Nat \ {0} /\ Len(tokens) \in Nat BY TokenFacts, VersionFacts DEF Tokens
  <1> QED BY <1>1, <1>2 DEF Extends

\* The versions of the tokens after a step: those that were there, and one
\* whose name was free among the tokens looked at, with its own data.
LEMMA TokenVersionsAfter ==
    ASSUME AccountsInv, WritesTokens,
           NEW t \in 1 .. Len(tokens'), NEW i \in 1 .. Len(tokens'[t])
    PROVE  \/ /\ t \in 1 .. Len(tokens) /\ i \in 1 .. Len(tokens[t])
              /\ tokens'[t][i] = tokens[t][i]
           \/ /\ FreeIn(tokens, tokens'[t][i].name, tokens'[t][i].seen)
              /\ tokens'[t][i].data \in {t} \X Accounts \X (0 .. now)
  <1>1. tokens \in Seq(Seq(TokenVersion)) /\ Len(tokens) \in Nat BY VersionFacts
  <1>n. now \in Nat BY AccountsAssumption DEF AccountsInv, TypeOK
  <1>2. CASE tokens' = tokens BY <1>2
  <1>3. ASSUME NEW v, AddsToken(v)
        PROVE  \/ /\ t \in 1 .. Len(tokens) /\ i \in 1 .. Len(tokens[t])
                  /\ tokens'[t][i] = tokens[t][i]
               \/ /\ FreeIn(tokens, tokens'[t][i].name, tokens'[t][i].seen)
                  /\ tokens'[t][i].data \in {t} \X Accounts \X (0 .. now)
    <2>1. /\ v \in TokenVersion /\ tokens' = Append(tokens, <<v>>) /\ v.owner \in Accounts
          /\ v.data = <<Len(tokens) + 1, v.owner, now>>
      BY <1>3 DEF AddsToken
    <2>2. FreeIn(tokens, v.name, v.seen)
      BY <1>3 DEF AddsToken, TokenNameWasFree, FreeIn, Tokens
    <2>3. /\ Len(tokens') = Len(tokens) + 1 /\ tokens'[Len(tokens) + 1] = <<v>>
          /\ \A b \in 1 .. Len(tokens) : tokens'[b] = tokens[b]
      BY <1>1, <2>1, CreateFacts
    <2>4. CASE t = Len(tokens) + 1
      <3>1. tokens'[t] = <<v>> BY <2>3, <2>4
      <3>2. i = 1 BY <3>1
      <3>3. tokens'[t][i] = v /\ tokens'[t][1] = v BY <3>1, <3>2
      <3>4. v.data \in {t} \X Accounts \X (0 .. now) BY <1>n, <2>1, <2>4
      <3> QED BY <2>2, <3>3, <3>4
    <2>5. CASE t # Len(tokens) + 1
      <3>1. t \in 1 .. Len(tokens) BY <1>1, <2>3, <2>5
      <3> QED BY <2>3, <3>1
    <2> QED BY <2>4, <2>5
  <1>4. ASSUME NEW b, NEW v, GrowsToken(b, v)
        PROVE  \/ /\ t \in 1 .. Len(tokens) /\ i \in 1 .. Len(tokens[t])
                  /\ tokens'[t][i] = tokens[t][i]
               \/ /\ FreeIn(tokens, tokens'[t][i].name, tokens'[t][i].seen)
                  /\ tokens'[t][i].data \in {t} \X Accounts \X (0 .. now)
    <2>1. /\ v \in TokenVersion /\ b \in 1 .. Len(tokens) /\ tokens' = Grow(tokens, b, v)
          /\ v.data \in {b} \X Accounts \X (Latest(tokens[b]).data[3] .. now)
      BY <1>4 DEF GrowsToken, Tokens
    <2>2. FreeIn(tokens, v.name, v.seen)
      BY <1>4 DEF GrowsToken, TokenNameWasFree, FreeIn, Tokens
    <2>3. /\ Len(tokens') = Len(tokens) /\ Len(tokens[b]) \in Nat
          /\ Len(tokens'[b]) = Len(tokens[b]) + 1
          /\ tokens'[b][Len(tokens[b]) + 1] = v
          /\ \A j \in 1 .. Len(tokens[b]) : tokens'[b][j] = tokens[b][j]
          /\ \A c \in 1 .. Len(tokens) : c # b => tokens'[c] = tokens[c]
      BY <1>4, TokenGrows
    <2>4. CASE t = b /\ i = Len(tokens[b]) + 1
      <3>1. Latest(tokens[b]).data \in TokenData
        BY <2>1, TokenFacts DEF Tokens, TokenVersion
      <3>2. Latest(tokens[b]).data[3] \in Nat BY <3>1 DEF TokenData
      <3>3. v.data \in {t} \X Accounts \X (0 .. now) BY <2>1, <2>4, <3>2, <1>n
      <3> QED BY <2>2, <2>3, <2>4, <3>3
    <2>5. CASE t = b /\ i # Len(tokens[b]) + 1
      <3>1. i \in 1 .. Len(tokens[b]) BY <2>3, <2>5
      <3> QED BY <2>1, <2>3, <2>5, <3>1
    <2>6. CASE t # b BY <2>3, <2>6
    <2> QED BY <2>4, <2>5, <2>6
  <1> QED BY <1>2, <1>3, <1>4 DEF WritesTokens

\* Names that were given were free, after a step as well.
LEMMA NamesAfter ==
    ASSUME AccountsInv, WritesAccounts, WritesTokens
    PROVE  NamesWereFree'
  <1>1. /\ tokens \in Seq(Seq(TokenVersion)) /\ GoneIsLast(tokens)
        /\ tokens' \in Seq(Seq(TokenVersion)) /\ Extends(tokens, tokens')
    BY VersionFacts, TokensAfter
  <1>2. \A t \in 1 .. Len(tokens') : tokens'[t] \in Seq(TokenVersion) BY <1>1, ElementFacts
  <1>3. \A t \in 1 .. Len(tokens) : \A i \in 1 .. Len(tokens[t]) :
          FreeIn(tokens, tokens[t][i].name, tokens[t][i].seen)
    BY DEF AccountsInv, NamesWereFree, TokenNameWasFree, FreeIn, Tokens
  <1>4. ASSUME NEW t \in 1 .. Len(tokens'), NEW i \in 1 .. Len(tokens'[t])
        PROVE  FreeIn(tokens', tokens'[t][i].name, tokens'[t][i].seen)
    <2>1. FreeIn(tokens, tokens'[t][i].name, tokens'[t][i].seen)
      BY <1>3, TokenVersionsAfter
    <2>2. tokens'[t][i] \in TokenVersion BY <1>2, ElementFacts
    <2>3. tokens'[t][i].seen \in Seq(Nat) BY <2>2 DEF TokenVersion
    <2> QED BY <1>1, <2>1, <2>3, FreeStays
  <1>5. \A a \in 1 .. Len(accounts') : \A i \in 1 .. Len(accounts'[a]) :
          FreeIn(accounts', accounts'[a][i].name, accounts'[a][i].seen)
    BY AccountNamesAfter
  <1> QED BY <1>4, <1>5
         DEF NamesWereFree, AccountNameWasFree, TokenNameWasFree, FreeIn, Accounts, Tokens

\* The data of a token is its own, after a step as well.
LEMMA DataAfter ==
    ASSUME AccountsInv, [Next]_vars
    PROVE  DataIsOwn'
  <1>1. WritesAccounts /\ WritesTokens /\ now' \in Nat /\ now <= now' BY StepWrites
  <1>2. now \in Nat BY AccountsAssumption DEF AccountsInv, TypeOK
  <1>3. /\ Len(accounts) \in Nat /\ Len(accounts') \in Nat /\ Len(accounts) <= Len(accounts')
        /\ Len(tokens) \in Nat
    BY <1>1, VersionFacts, AccountsAfter DEF Extends
  <1>4. ASSUME NEW t \in 1 .. Len(tokens'), NEW i \in 1 .. Len(tokens'[t])
        PROVE  tokens'[t][i].data \in {t} \X Accounts' \X (0 .. now')
    <2>1. tokens'[t][i].data \in {t} \X Accounts \X (0 .. now)
      BY <1>1, TokenVersionsAfter DEF AccountsInv, DataIsOwn, Tokens
    <2> QED BY <1>1, <1>2, <1>3, <2>1 DEF Accounts
  <1>5. ASSUME NEW t \in 1 .. Len(tokens')
        PROVE  tokens'[t][1].owner \in Accounts'
    <2>1. CASE t \in 1 .. Len(tokens)
      <3>1. tokens'[t][1] = tokens[t][1] BY <1>1, <2>1, OwnerStays
      <3>2. tokens[t][1].owner \in Accounts BY <2>1 DEF AccountsInv, DataIsOwn, Tokens
      <3> QED BY <1>3, <3>1, <3>2 DEF Accounts
    <2>2. CASE t \notin 1 .. Len(tokens)
      <3>1. PICK v : AddsToken(v)
        BY <1>1, <2>2, TokenGrows DEF WritesTokens
      <3>2. v \in TokenVersion /\ tokens' = Append(tokens, <<v>>) /\ v.owner \in Accounts
        BY <3>1 DEF AddsToken
      <3>3. Len(tokens') = Len(tokens) + 1 /\ tokens'[Len(tokens) + 1] = <<v>>
        BY <3>2, VersionFacts, CreateFacts
      <3>4. t = Len(tokens) + 1 BY <1>3, <2>2, <3>3
      <3>5. tokens'[t][1] = v BY <3>3, <3>4
      <3> QED BY <1>3, <3>2, <3>5 DEF Accounts
    <2> QED BY <2>1, <2>2
  <1> QED BY <1>4, <1>5 DEF DataIsOwn, Tokens

-----------------------------------------------------------------------------
(* Requests.                                                               *)

\* What a request has read is still there when it writes.
LEMMA ReadFirstStays ==
    ASSUME AccountsInv, [Next]_vars, NEW q \in Held, ReadFirst(q)
    PROVE  ReadFirst(q)'
  <1>1. WritesAccounts /\ WritesTokens /\ now' \in Nat /\ now <= now' BY StepWrites
  <1>2. /\ accounts \in Seq(Seq(AccountVersion)) /\ Len(accounts) \in Nat
        /\ accounts' \in Seq(Seq(AccountVersion)) /\ Len(accounts') \in Nat
        /\ Extends(accounts, accounts')
    BY <1>1, VersionFacts, AccountsAfter
  <1>3. /\ tokens \in Seq(Seq(TokenVersion)) /\ Len(tokens) \in Nat /\ GoneIsLast(tokens)
        /\ tokens' \in Seq(Seq(TokenVersion)) /\ Len(tokens') \in Nat
        /\ Extends(tokens, tokens')
    BY <1>1, VersionFacts, TokensAfter
  <1>4. q.seen \in Seq(Nat) /\ q.position \in Nat /\ q.object \in Nat BY DEF Held
  <1>5. \A n : AccountNameWasFree(n, q.seen) => FreeIn(accounts', n, q.seen)
    <2>1. \A n : FreeIn(accounts, n, q.seen) => FreeIn(accounts', n, q.seen)
      BY <1>2, <1>4, FreeStays
    <2> QED BY <2>1 DEF AccountNameWasFree, FreeIn, Accounts
  <1>6. \A n : TokenNameWasFree(n, q.seen) => FreeIn(tokens', n, q.seen)
    <2>1. \A n : FreeIn(tokens, n, q.seen) => FreeIn(tokens', n, q.seen)
      BY <1>3, <1>4, FreeStays
    <2> QED BY <2>1 DEF TokenNameWasFree, FreeIn, Tokens
  <1>7. /\ q.op \in {"create", "update"} => FreeIn(accounts', q.name, q.seen)
        /\ q.op \in {"createToken", "updateToken"} => FreeIn(tokens', q.name, q.seen)
    BY <1>5, <1>6 DEF ReadFirst
  <1>8. q.op = "update" => q.object \in Accounts' /\ q.position \in 1 .. Len(accounts'[q.object])
    <2> HAVE q.op = "update"
    <2>1. q.object \in Accounts /\ q.position \in 1 .. Len(accounts[q.object]) BY DEF ReadFirst
    <2>2. q.object \in Accounts' BY <1>2, <2>1 DEF Extends, Accounts
    <2>3. Len(accounts'[q.object]) \in Nat BY <1>2, <2>2, ElementFacts DEF Accounts
    <2>4. Len(accounts[q.object]) \in Nat /\ Len(accounts[q.object]) <= Len(accounts'[q.object])
      BY <1>2, <2>1, AccountFacts DEF Extends, Accounts
    <2> QED BY <2>1, <2>2, <2>3, <2>4
  <1>9. q.op = "createToken" => q.object \in Accounts'
    BY <1>2 DEF ReadFirst, Extends, Accounts
  <1>10. q.op = "updateToken" =>
           /\ q.object \in Tokens' /\ q.position \in 1 .. Len(tokens'[q.object])
           /\ q.data \in {q.object} \X Accounts' \X (tokens'[q.object][q.position].data[3] .. now')
    <2> HAVE q.op = "updateToken"
    <2>1. /\ q.object \in Tokens /\ q.position \in 1 .. Len(tokens[q.object])
          /\ q.data \in {q.object} \X Accounts \X (tokens[q.object][q.position].data[3] .. now)
      BY DEF ReadFirst
    <2>2. q.object \in 1 .. Len(tokens) /\ q.object \in 1 .. Len(tokens')
      BY <1>1, <2>1, OwnerStays DEF Tokens
    <2>3. Len(tokens'[q.object]) \in Nat BY <1>3, <2>2, ElementFacts
    <2>4. /\ Len(tokens[q.object]) \in Nat /\ Len(tokens[q.object]) <= Len(tokens'[q.object])
          /\ tokens'[q.object][q.position] = tokens[q.object][q.position]
      BY <1>3, <2>1, <2>2, TokenFacts DEF Extends
    <2>5. tokens[q.object][q.position].data \in TokenData /\ now \in Nat
      <3>1. tokens[q.object][q.position] \in TokenVersion BY <2>1, TokenFacts
      <3>2. now \in Nat BY AccountsAssumption DEF AccountsInv, TypeOK
      <3> QED BY <3>1, <3>2 DEF TokenVersion
    <2>6. tokens[q.object][q.position].data[3] \in Nat BY <2>5 DEF TokenData
    <2>7. Accounts \subseteq Accounts' BY <1>2 DEF Extends, Accounts
    <2>8. q.data \in {q.object} \X Accounts' \X (tokens[q.object][q.position].data[3] .. now')
      BY <1>1, <2>1, <2>5, <2>6, <2>7
    <2> QED BY <2>1, <2>2, <2>3, <2>4, <2>8 DEF Tokens
  <1>11. /\ q.op \in {"create", "update"} => AccountNameWasFree(q.name, q.seen)'
         /\ q.op \in {"createToken", "updateToken"} => TokenNameWasFree(q.name, q.seen)'
    BY <1>7 DEF AccountNameWasFree, TokenNameWasFree, FreeIn, Accounts, Tokens
  <1> QED BY <1>8, <1>9, <1>10, <1>11 DEF ReadFirst

\* What the caches have of the accounts and the tokens.
LEMMA ShownFacts ==
    ASSUME AccountsInv
    PROVE  /\ accShown \in Seq(Nat) /\ DOMAIN accShown = Accounts
           /\ \A a \in Accounts : accShown[a] \in Nat /\ accShown[a] <= Len(accounts[a])
           /\ tokShown \in Seq(Nat) /\ DOMAIN tokShown = Tokens
           /\ \A t \in Tokens : tokShown[t] \in Nat /\ tokShown[t] <= Len(tokens[t])
  <1>1. /\ accShown \in Seq(Nat) /\ tokShown \in Seq(Nat)
        /\ Len(accShown) = Len(accounts) /\ Len(tokShown) = Len(tokens)
        /\ \A a \in Accounts : accShown[a] \in 0 .. Len(accounts[a])
        /\ \A t \in Tokens : tokShown[t] \in 0 .. Len(tokens[t])
    BY DEF AccountsInv, TypeOK
  <1>2. DOMAIN accShown = Accounts /\ DOMAIN tokShown = Tokens BY <1>1 DEF Accounts, Tokens
  <1>3. \A a \in Accounts : Len(accounts[a]) \in Nat BY AccountFacts
  <1>4. \A t \in Tokens : Len(tokens[t]) \in Nat BY TokenFacts
  <1> QED BY <1>1, <1>2, <1>3, <1>4

\* A name that listSA does not find is free among what it looks at.
LEMMA ListSAFindsNone ==
    ASSUME AccountsInv, NEW n, ListSA(n) = {}
    PROVE  AccountNameWasFree(n, accShown)
  BY ShownFacts DEF ListSA, AccountNameWasFree

\* The same for listSAToken, which looks at nothing for administrators.
LEMMA ListSATokenFindsNone ==
    ASSUME AccountsInv, NEW by, NEW a, NEW n, ListSAToken(by, a, n) = {}
    PROVE  Listed(by, a) \in Seq(Nat) /\ TokenNameWasFree(n, Listed(by, a))
  <1>1. CASE by = "admin" BY <1>1 DEF Listed, TokenNameWasFree
  <1>2. CASE by # "admin"
    <2> DEFINE own == [t \in Tokens |-> IF tokens[t][1].owner = a THEN tokShown[t] ELSE 0]
    <2>1. Listed(by, a) = own BY <1>2 DEF Listed
    <2>2. \A t \in Tokens : tokShown[t] \in Nat /\ tokShown[t] <= Len(tokens[t]) BY ShownFacts
    <2>3. \A t \in Tokens : Len(tokens[t]) \in Nat BY TokenFacts
    <2>4. own \in [1 .. Len(tokens) -> Nat] /\ DOMAIN own = Tokens BY <2>2 DEF Tokens
    <2>5. own \in Seq(Nat) BY <2>4, VersionFacts
    <2>6. \A t \in Tokens : own[t] = IF tokens[t][1].owner = a THEN tokShown[t] ELSE 0 OBVIOUS
    <2> HIDE DEF own
    <2>7. ASSUME NEW t \in Tokens
          PROVE  own[t] <= Len(tokens[t]) /\ (Exists(tokens[t], own[t]) => tokens[t][own[t]].name # n)
      <3>1. CASE tokens[t][1].owner = a
        BY <1>2, <2>2, <2>6, <3>1 DEF ListSAToken, TokensOf
      <3>2. CASE tokens[t][1].owner # a BY <2>3, <2>6, <3>2 DEF Exists
      <3> QED BY <3>1, <3>2
    <2>8. TokenNameWasFree(n, own) BY <2>4, <2>7 DEF TokenNameWasFree
    <2> QED BY <2>1, <2>5, <2>8
  <1> QED BY <1>1, <1>2

\* The version Get returns is there, if it finds the object.
LEMMA FoundFacts ==
    ASSUME NEW versions, Len(versions) \in Nat, NEW n \in Nat, n <= Len(versions), NEW by,
           Exists(versions, Found(versions, n, by))
    PROVE  Found(versions, n, by) \in 1 .. Len(versions)
  BY DEF Exists, Found

\* CreateEndpoint up to the write.
LEMMA StartCreateHolds ==
    ASSUME AccountsInv, NEW r \in Requests, NEW by \in Callers, NEW n \in Names,
           NEW g \in Groups, StartCreate(r, by, n, g)
    PROVE  \E q \in Held : Hold(r, q) /\ ReadFirst(q)
  <1> DEFINE q == [NoRequest EXCEPT !.op = "create", !.by = by, !.name = n, !.label = g,
                                    !.group = g, !.seen = accShown]
  <1>1. AccountNameWasFree(n, accShown) BY ListSAFindsNone DEF StartCreate
  <1>2. /\ q \in Held /\ q.op = "create" /\ q.name = n /\ q.label = g /\ q.group = g
        /\ q.seen = accShown
    BY ShownFacts DEF NoRequest, NoData, Held, TokenData, GroupOrNone
  <1>3. Hold(r, q) BY DEF StartCreate
  <1> HIDE DEF q
  <1>4. ReadFirst(q) BY <1>1, <1>2 DEF ReadFirst
  <1> QED BY <1>2, <1>3, <1>4

\* UpdateEndpoint up to the write.
LEMMA StartUpdateHolds ==
    ASSUME AccountsInv, NEW r \in Requests, NEW by \in Callers, NEW a \in Accounts,
           NEW n \in Names, NEW g \in Groups, StartUpdate(r, by, a, n, g)
    PROVE  \E q \in Held : Hold(r, q) /\ ReadFirst(q)
  <1> DEFINE found == Found(accounts[a], accShown[a], by)
             old == accounts[a][found]
             label == IF g = boundShown[a] THEN old.label ELSE g
             seen == IF n = old.name THEN old.seen ELSE accShown
             q == [NoRequest EXCEPT !.op = "update", !.by = by, !.object = a,
                     !.position = found, !.name = n, !.group = g, !.label = label, !.seen = seen]
  <1>1. Exists(accounts[a], found) /\ (n # old.name => ListSA(n) = {}) /\ Hold(r, q)
    BY DEF StartUpdate
  <1>2. found \in 1 .. Len(accounts[a]) BY <1>1, AccountFacts, ShownFacts, FoundFacts
  <1>3. old \in AccountVersion BY <1>2, AccountFacts
  <1>4. AccountNameWasFree(old.name, old.seen) BY <1>2 DEF AccountsInv, NamesWereFree
  <1>5. n # old.name => AccountNameWasFree(n, accShown) BY <1>1, ListSAFindsNone
  <1>6. accShown \in Seq(Nat) /\ a \in Nat /\ found \in Nat
    BY <1>2, ShownFacts, AccountFacts
  <1> HIDE DEF found, old
  <1>7. AccountNameWasFree(n, seen) /\ seen \in Seq(Nat) /\ label \in GroupOrNone
    BY <1>3, <1>4, <1>5, <1>6 DEF AccountVersion, GroupOrNone
  <1> HIDE DEF label, seen
  <1>8. /\ q \in Held /\ q.op = "update" /\ q.name = n /\ q.group = g /\ q.object = a
        /\ q.position = found /\ q.seen = seen
    BY <1>6, <1>7 DEF NoRequest, NoData, Held, TokenData, GroupOrNone
  <1> HIDE DEF q
  <1>9. ReadFirst(q) BY <1>2, <1>7, <1>8 DEF ReadFirst
  <1> QED BY <1>1, <1>8, <1>9

\* CreateTokenEndpoint up to the write.
LEMMA StartTokenHolds ==
    ASSUME AccountsInv, NEW r \in Requests, NEW by \in Callers, NEW a \in Accounts,
           NEW n \in Names, StartToken(r, by, a, n)
    PROVE  \E q \in Held : Hold(r, q) /\ ReadFirst(q)
  <1> DEFINE q == [NoRequest EXCEPT !.op = "createToken", !.by = by, !.object = a,
                                    !.name = n, !.seen = Listed(by, a)]
  <1>1. Listed(by, a) \in Seq(Nat) /\ TokenNameWasFree(n, Listed(by, a))
    BY ListSATokenFindsNone DEF StartToken
  <1>2. a \in Nat BY AccountFacts
  <1>3. /\ q \in Held /\ q.op = "createToken" /\ q.name = n /\ q.object = a
        /\ q.seen = Listed(by, a)
    BY <1>1, <1>2 DEF NoRequest, NoData, Held, TokenData, GroupOrNone
  <1>4. Hold(r, q) BY DEF StartToken
  <1> HIDE DEF q
  <1>5. ReadFirst(q) BY <1>1, <1>3 DEF ReadFirst
  <1> QED BY <1>3, <1>4, <1>5

\* updateEndpoint of the tokens up to the write.
LEMMA StartTokenUpdateHolds ==
    ASSUME AccountsInv, NEW r \in Requests, NEW by \in Callers, NEW a \in Accounts,
           NEW t \in Tokens, NEW n \in Names, NEW regenerate \in BOOLEAN,
           StartTokenUpdate(r, by, a, t, n, regenerate)
    PROVE  \E q \in Held : Hold(r, q) /\ ReadFirst(q)
  <1> DEFINE found == Found(tokens[t], tokShown[t], by)
             old == tokens[t][found]
             data == IF regenerate THEN Generate(t, a) ELSE old.data
             seen == IF n = old.name THEN old.seen ELSE Listed(by, a)
             q == [NoRequest EXCEPT !.op = "updateToken", !.by = by, !.object = t,
                     !.position = found, !.name = n, !.data = data, !.seen = seen]
  <1>1. /\ Exists(tokens[t], found) /\ (n # old.name => ListSAToken(by, a, n) = {})
        /\ Hold(r, q)
    BY DEF StartTokenUpdate
  <1>2. found \in 1 .. Len(tokens[t]) BY <1>1, TokenFacts, ShownFacts, FoundFacts
  <1>3. old \in TokenVersion BY <1>2, TokenFacts
  <1>4. TokenNameWasFree(old.name, old.seen) BY <1>2 DEF AccountsInv, NamesWereFree
  <1>5. n # old.name => Listed(by, a) \in Seq(Nat) /\ TokenNameWasFree(n, Listed(by, a))
    BY <1>1, ListSATokenFindsNone
  <1>6. t \in Nat /\ found \in Nat /\ now \in Nat BY <1>2, TokenFacts, NowFacts
  <1>7. old.data \in {t} \X Accounts \X (0 .. now) BY <1>2 DEF AccountsInv, DataIsOwn
  <1> HIDE DEF found, old
  <1>8. TokenNameWasFree(n, seen) /\ seen \in Seq(Nat)
    BY <1>3, <1>4, <1>5 DEF TokenVersion
  <1>9. data \in {t} \X Accounts \X (old.data[3] .. now) /\ data \in TokenData
    BY <1>6, <1>7, AccountFacts DEF Generate, TokenData
  <1> HIDE DEF data, seen
  <1>10. /\ q \in Held /\ q.op = "updateToken" /\ q.name = n /\ q.object = t
         /\ q.position = found /\ q.data = data /\ q.seen = seen
    BY <1>6, <1>8, <1>9 DEF NoRequest, NoData, Held, TokenData, GroupOrNone
  <1> HIDE DEF q
  <1>11. ReadFirst(q)
    <2>1. tokens[t][found].data[3] = old.data[3] BY DEF old
    <2> QED BY <1>2, <1>8, <1>9, <1>10, <2>1 DEF ReadFirst
  <1> QED BY <1>1, <1>10, <1>11

\* Every request has read what it goes by, after a step as well.
LEMMA RequestsAfter ==
    ASSUME AccountsInv, [Next]_vars
    PROVE  /\ pc' \in [Requests -> {"idle", "write", "answered"}]
           /\ req' \in [Requests -> Held] /\ RequestsReadFirst'
  <1>1. /\ pc \in [Requests -> {"idle", "write", "answered"}] /\ req \in [Requests -> Held]
        /\ \A o \in Requests : pc[o] = "write" => ReadFirst(req[o])
    BY DEF AccountsInv, TypeOK, RequestsReadFirst
  <1>2. \A q \in Held : ReadFirst(q) => ReadFirst(q)' BY ReadFirstStays
  <1>3. CASE UNCHANGED <<pc, req>>
    <2>1. \A o \in Requests : pc'[o] = "write" => ReadFirst(req[o])' BY <1>1, <1>2, <1>3
    <2> QED BY <1>1, <1>3, <2>1 DEF RequestsReadFirst
  <1>4. ASSUME NEW r \in Requests, NEW q \in Held, Hold(r, q), ReadFirst(q)
        PROVE  /\ pc' \in [Requests -> {"idle", "write", "answered"}]
               /\ req' \in [Requests -> Held] /\ RequestsReadFirst'
    <2>1. pc' = [pc EXCEPT ![r] = "write"] /\ req' = [req EXCEPT ![r] = q] BY <1>4 DEF Hold
    <2>2. /\ pc' \in [Requests -> {"idle", "write", "answered"}]
          /\ req' \in [Requests -> Held]
          /\ req'[r] = q /\ \A o \in Requests : o # r => pc'[o] = pc[o] /\ req'[o] = req[o]
      BY <1>1, <2>1
    <2>3. ReadFirst(q)' BY <1>2, <1>4
    <2>4. ASSUME NEW o \in Requests, pc'[o] = "write" PROVE ReadFirst(req[o])'
      <3>1. CASE o = r
        <4>1. PICK h \in Held : h = req'[o] BY <2>2
        <4>2. h = q BY <3>1, <2>2, <4>1
        <4> QED BY <2>3, <4>1, <4>2
      <3>2. CASE o # r
        <4>1. req'[o] = req[o] /\ pc[o] = "write" BY <2>2, <2>4, <3>2
        <4>2. PICK h \in Held : h = req[o] BY <1>1
        <4>3. ReadFirst(h)' BY <1>1, <1>2, <4>1, <4>2
        <4> QED BY <4>1, <4>2, <4>3
      <3> QED BY <3>1, <3>2
    <2> QED BY <2>2, <2>4 DEF RequestsReadFirst
  <1>5. ASSUME NEW r \in Requests, pc' = [pc EXCEPT ![r] = "answered"],
               req' = req \/ req' = [req EXCEPT ![r] = NoRequest]
        PROVE  /\ pc' \in [Requests -> {"idle", "write", "answered"}]
               /\ req' \in [Requests -> Held] /\ RequestsReadFirst'
    <2>1. NoRequest \in Held BY DEF NoRequest, NoData, Held, TokenData, Callers, GroupOrNone
    <2>2. /\ pc' \in [Requests -> {"idle", "write", "answered"}]
          /\ req' \in [Requests -> Held] /\ pc'[r] = "answered"
          /\ \A o \in Requests : o # r => pc'[o] = pc[o] /\ req'[o] = req[o]
      BY <1>1, <1>5, <2>1
    <2>3. ASSUME NEW o \in Requests, pc'[o] = "write" PROVE ReadFirst(req[o])'
      <3>1. req'[o] = req[o] /\ pc[o] = "write" BY <2>2, <2>3
      <3>2. PICK h \in Held : h = req[o] BY <1>1
      <3>3. ReadFirst(h)' BY <1>1, <1>2, <3>1, <3>2
      <3> QED BY <3>1, <3>2, <3>3
    <2> QED BY <2>2, <2>3 DEF RequestsReadFirst
  <1>6. CASE Tick \/ Surroundings \/ UNCHANGED vars
    <2>1. UNCHANGED <<pc, req>>
      BY <1>6 DEF Tick, Surroundings, ApplyLabel, RemoveLabel, SyncAccount, SyncBinding,
                  Collect, SyncToken, vars
    <2> QED BY <1>3, <2>1
  <1>7. ASSUME NEW r \in Requests, Start(r)
        PROVE  /\ pc' \in [Requests -> {"idle", "write", "answered"}]
               /\ req' \in [Requests -> Held] /\ RequestsReadFirst'
    <2>1. \/ \E q \in Held : Hold(r, q) /\ ReadFirst(q)
          \/ \E by \in Callers : \/ \E a \in Accounts : DeleteSA(r, by, a)
                                 \/ \E a \in Accounts, t \in Tokens : DeleteSAToken(r, by, a, t)
      BY <1>7, StartCreateHolds, StartUpdateHolds, StartTokenHolds, StartTokenUpdateHolds
         DEF Start
    <2>2. CASE \E q \in Held : Hold(r, q) /\ ReadFirst(q) BY <1>4, <2>2
    <2>3. CASE \E by \in Callers : \/ \E a \in Accounts : DeleteSA(r, by, a)
                                   \/ \E a \in Accounts, t \in Tokens : DeleteSAToken(r, by, a, t)
      <3>1. pc' = [pc EXCEPT ![r] = "answered"] /\ req' = req
        BY <2>3 DEF DeleteSA, DeleteSAToken
      <3> QED BY <1>5, <3>1
    <2> QED BY <2>1, <2>2, <2>3
  <1>8. ASSUME NEW r \in Requests, Finish(r)
        PROVE  /\ pc' \in [Requests -> {"idle", "write", "answered"}]
               /\ req' \in [Requests -> Held] /\ RequestsReadFirst'
    <2>1. pc' = [pc EXCEPT ![r] = "answered"] /\ req' = [req EXCEPT ![r] = NoRequest]
      BY <1>8 DEF Finish, CreateSA, UpdateSA, CreateSAToken, UpdateSAToken, WriteFails, Answer
    <2> QED BY <1>5, <2>1
  <1> QED BY <1>6, <1>7, <1>8 DEF Next

-----------------------------------------------------------------------------
(* Revocation.                                                             *)

\* Only updateSAToken and the deletion of a token revoke.
LEMMA RevokedByWhom ==
    ASSUME [Next]_vars
    PROVE  \/ revoked' = revoked /\ (tokens' = tokens \/ \E r \in Requests : CreateSAToken(r))
           \/ \E r \in Requests : UpdateSAToken(r)
           \/ \E t \in Tokens : Remove(t)
  <1>1. CASE Tick \/ UNCHANGED vars BY <1>1 DEF Tick, vars, tokenVars
  <1>2. CASE Surroundings
    BY <1>2 DEF Surroundings, ApplyLabel, RemoveLabel, SyncAccount, SyncBinding, Collect,
                SyncToken, tokenVars
  <1>3. ASSUME NEW r \in Requests, Start(r)
        PROVE  (revoked' = revoked /\ tokens' = tokens) \/ (\E t \in Tokens : Remove(t))
    <2>1. ASSUME NEW q, Hold(r, q) PROVE revoked' = revoked /\ tokens' = tokens
      BY <2>1 DEF Hold, tokenVars
    <2>2. \/ \E q : Hold(r, q)
          \/ \E by \in Callers : \/ \E a \in Accounts : DeleteSA(r, by, a)
                                 \/ \E a \in Accounts, t \in Tokens : DeleteSAToken(r, by, a, t)
      BY <1>3, HoldsOrDeletes
    <2> QED BY <2>1, <2>2 DEF DeleteSA, DeleteSAToken, tokenVars
  <1>4. ASSUME NEW r \in Requests, Finish(r)
        PROVE  \/ revoked' = revoked /\ (tokens' = tokens \/ CreateSAToken(r))
               \/ UpdateSAToken(r)
    <2>1. CreateSAToken(r) => revoked' = revoked BY DEF CreateSAToken
    <2> QED BY <1>4, <2>1 DEF Finish, CreateSA, UpdateSA, WriteFails, tokenVars
  <1> QED BY <1>1, <1>2, <1>3, <1>4 DEF Next

\* What is live was not revoked, unless its token was generated for two
\* accounts in that second.
LEMMA NotRevoked ==
    ASSUME AccountsInv
    PROVE  RevokedStaysRevoked
  <1> SUFFICES ASSUME NEW t \in Tokens, Live(tokens[t]), Latest(tokens[t]).data \in revoked
               PROVE  Switched(t, Latest(tokens[t]).data[3])
    BY DEF RevokedStaysRevoked
  <1>1. PICK d : d = Latest(tokens[t]).data OBVIOUS
  <1>2. d \in {t} \X Accounts \X (0 .. now)
    BY <1>1, TokenFacts DEF AccountsInv, DataIsOwn, Latest
  <1>3. d[1] = t /\ d[3] \in Nat BY <1>2
  <1>4. ~(d[3] < d[3]) BY <1>3
  <1> QED BY <1>1, <1>3, <1>4 DEF AccountsInv, RevokedIsOlder

\* Versions stay, and with them the two that were made in one second.
LEMMA SwitchedStays ==
    ASSUME AccountsInv, WritesTokens, NEW t \in Tokens, NEW i, Switched(t, i)
    PROVE  Switched(t, i)'
  <1>1. Extends(tokens, tokens') /\ Len(tokens') \in Nat /\ tokens' \in Seq(Seq(TokenVersion))
    BY TokensAfter
  <1>2. t \in 1 .. Len(tokens) /\ Len(tokens[t]) \in Nat /\ Len(tokens) \in Nat
    BY TokenFacts, VersionFacts
  <1>3. t \in 1 .. Len(tokens') BY <1>1, <1>2 DEF Extends
  <1>4. Len(tokens'[t]) \in Nat BY <1>1, <1>3, ElementFacts
  <1>5. /\ Len(tokens[t]) <= Len(tokens'[t])
        /\ \A j \in 1 .. Len(tokens[t]) : tokens'[t][j] = tokens[t][j]
    BY <1>1, <1>2 DEF Extends
  <1>6. PICK j \in 1 .. Len(tokens[t]), k \in 1 .. Len(tokens[t]) :
          /\ tokens[t][j].data[3] = i /\ tokens[t][k].data[3] = i
          /\ tokens[t][j].data[2] # tokens[t][k].data[2]
    BY DEF Switched
  <1>7. j \in 1 .. Len(tokens'[t]) /\ k \in 1 .. Len(tokens'[t]) BY <1>2, <1>4, <1>5
  <1>8. tokens'[t][j] = tokens[t][j] /\ tokens'[t][k] = tokens[t][k] BY <1>5
  <1> QED BY <1>6, <1>7, <1>8 DEF Switched

\* What a step revokes is older than what it stores, or of the same second
\* and for another account.
LEMMA RevokedAfter ==
    ASSUME AccountsInv, [Next]_vars
    PROVE  revoked' \subseteq Tokens' \X Accounts' \X (0 .. now') /\ RevokedIsOlder'
  <1>1. /\ WritesAccounts /\ WritesTokens /\ now' \in Nat /\ now <= now' /\ now \in Nat
    BY StepWrites, NowFacts
  <1>2. /\ Len(tokens) \in Nat /\ Len(tokens') \in Nat /\ Len(tokens) <= Len(tokens')
        /\ tokens \in Seq(Seq(TokenVersion))
        /\ Len(accounts) \in Nat /\ Len(accounts') \in Nat /\ Len(accounts) <= Len(accounts')
    BY <1>1, VersionFacts, AccountsAfter, TokensAfter DEF Extends
  <1>3. /\ revoked \subseteq Tokens \X Accounts \X (0 .. now)
        /\ \A d \in revoked : Live(tokens[d[1]]) =>
             \/ d[3] < Latest(tokens[d[1]]).data[3]
             \/ d[3] = Latest(tokens[d[1]]).data[3] /\ Switched(d[1], d[3])
    BY DEF AccountsInv, TypeOK, RevokedIsOlder
  <1>4. Tokens \X Accounts \X (0 .. now) \subseteq Tokens' \X Accounts' \X (0 .. now')
    BY <1>1, <1>2 DEF Tokens, Accounts
  <1>5. \A d \in revoked : d[1] \in Tokens /\ d[3] \in Nat /\ (Switched(d[1], d[3]) => Switched(d[1], d[3])')
    <2> TAKE d \in revoked
    <2>1. d[1] \in Tokens /\ d[3] \in Nat BY <1>1, <1>3
    <2>2. \A t \in Tokens, i \in Nat : Switched(t, i) => Switched(t, i)'
      BY <1>1, SwitchedStays
    <2> QED BY <2>1, <2>2
  <1>6. ASSUME \A t \in Tokens : tokens'[t] = tokens[t], revoked' = revoked
        PROVE  RevokedIsOlder'
    BY <1>3, <1>5, <1>6 DEF RevokedIsOlder
  <1>7. ASSUME NEW t \in Tokens, NEW v, GrowsToken(t, v), NEW data, Revoke(t, data),
               v.exists = "yes" => data = v.data
        PROVE  revoked' \subseteq Tokens' \X Accounts' \X (0 .. now') /\ RevokedIsOlder'
    <2>1. /\ Latest(tokens'[t]) = v /\ Len(tokens'[t]) = Len(tokens[t]) + 1
          /\ Len(tokens[t]) \in Nat /\ tokens'[t][Len(tokens[t]) + 1] = v
          /\ \A j \in 1 .. Len(tokens[t]) : tokens'[t][j] = tokens[t][j]
          /\ \A c \in Tokens : c # t => tokens'[c] = tokens[c]
      BY <1>7, TokenGrows DEF Tokens
    <2>2. v.data \in {t} \X Accounts \X (Latest(tokens[t]).data[3] .. now) /\ Live(tokens[t])
      BY <1>7 DEF GrowsToken
    <2>3. Latest(tokens[t]).data \in {t} \X Accounts \X (0 .. now) /\ Len(tokens[t]) > 0
      BY TokenFacts DEF AccountsInv, DataIsOwn, Latest
    <2>4. revoked' = revoked \cup ({Latest(tokens[t]).data} \ {data}) BY <1>7 DEF Revoke
    <2>5. revoked' \subseteq Tokens \X Accounts \X (0 .. now) BY <1>3, <2>3, <2>4
    <2>6. PICK l : l = Latest(tokens[t]).data OBVIOUS
    <2>7. l \in {t} \X Accounts \X (0 .. now) /\ v.data \in {t} \X Accounts \X (l[3] .. now)
      BY <2>2, <2>3, <2>6
    <2>8. l[3] \in Nat /\ v.data[3] \in Nat /\ l[3] <= v.data[3] BY <1>1, <2>7
    <2>9. l # v.data /\ l[3] = v.data[3] => Switched(t, l[3])'
      <3> HAVE l # v.data /\ l[3] = v.data[3]
      <3>1. l[2] # v.data[2] BY <2>7
      <3>2. tokens'[t][Len(tokens[t])].data = l BY <2>1, <2>3, <2>6 DEF Latest
      <3>3. Len(tokens[t]) \in 1 .. Len(tokens'[t]) /\ Len(tokens[t]) + 1 \in 1 .. Len(tokens'[t])
        BY <2>1, <2>3
      <3> QED BY <2>1, <3>1, <3>2, <3>3 DEF Switched
    <2>10. ASSUME NEW d \in revoked', Live(tokens'[d[1]])
           PROVE  \/ d[3] < Latest(tokens'[d[1]]).data[3]
                  \/ d[3] = Latest(tokens'[d[1]]).data[3] /\ Switched(d[1], d[3])'
      <3>1. d \in Tokens \X Accounts \X (0 .. now) BY <2>5
      <3>2. d[1] \in Tokens /\ d[3] \in Nat BY <1>1, <3>1
      <3>3. CASE d[1] # t
        <4>1. tokens'[d[1]] = tokens[d[1]] /\ d # l BY <2>1, <2>7, <3>2, <3>3
        <4>2. d \in revoked BY <2>4, <2>6, <4>1
        <4> QED BY <1>3, <1>5, <2>10, <4>1, <4>2
      <3>4. CASE d[1] = t
        <4>1. v.exists = "yes" BY <2>1, <2>10, <3>4 DEF Live, Exists
        <4>2. data = v.data BY <1>7, <4>1
        <4>3. CASE d \in revoked
          <5>1. d[3] < l[3] \/ (d[3] = l[3] /\ Switched(t, d[3]))
            BY <1>3, <2>2, <2>6, <3>4, <4>3
          <5>2. d[3] = l[3] /\ Switched(t, d[3]) => Switched(t, d[3])'
            BY <1>1, <3>2, SwitchedStays
          <5>3. \/ d[3] < v.data[3]
                \/ d[3] = v.data[3] /\ Switched(t, d[3])'
            BY <2>8, <3>2, <5>1, <5>2
          <5> QED BY <2>1, <3>4, <5>3
        <4>4. CASE d \notin revoked
          <5>1. d = l /\ l # v.data BY <2>4, <2>6, <4>2, <4>4
          <5>2. d[3] < v.data[3] \/ d[3] = v.data[3] BY <2>8, <5>1
          <5>3. d[3] = v.data[3] => Switched(t, d[3])' BY <2>9, <5>1
          <5> QED BY <2>1, <3>4, <5>2, <5>3
        <4> QED BY <4>3, <4>4
      <3> QED BY <3>3, <3>4
    <2> QED BY <1>4, <2>5, <2>10 DEF RevokedIsOlder
  <1>8. ASSUME NEW r \in Requests, UpdateSAToken(r)
        PROVE  revoked' \subseteq Tokens' \X Accounts' \X (0 .. now') /\ RevokedIsOlder'
    <2>1. PICK t, v : /\ t = req[r].object
                      /\ v = NewToken(tokens[t][1].owner, req[r].name, req[r].data, req[r].seen)
      OBVIOUS
    <2>2. GrowsToken(t, v) BY <1>8, <2>1, UpdateSATokenWrites
    <2>3. v.data = req[r].data BY <2>1 DEF NewToken
    <2>4. Revoke(t, v.data) BY <1>8, <2>1, <2>3 DEF UpdateSAToken
    <2>5. t \in Tokens BY <2>2 DEF GrowsToken
    <2> QED BY <1>7, <2>2, <2>4, <2>5
  <1>9. ASSUME NEW t \in Tokens, Remove(t)
        PROVE  revoked' \subseteq Tokens' \X Accounts' \X (0 .. now') /\ RevokedIsOlder'
    <2>1. PICK v : v = [Latest(tokens[t]) EXCEPT !.exists = "no"] OBVIOUS
    <2>2. GrowsToken(t, v) BY <1>9, <2>1, RemoveWrites
    <2>3. v.exists = "no" BY <2>1, TokenFacts DEF TokenVersion
    <2>4. Revoke(t, NoData) BY <1>9 DEF Remove
    <2> QED BY <1>7, <2>2, <2>3, <2>4
  <1>10. ASSUME NEW r \in Requests, CreateSAToken(r) PROVE \A t \in Tokens : tokens'[t] = tokens[t]
    <2>1. PICK v : AddsToken(v) BY <1>10, CreateSATokenWrites
    <2>2. v \in TokenVersion /\ tokens' = Append(tokens, <<v>>) BY <2>1 DEF AddsToken
    <2> QED BY <1>2, <2>2, CreateFacts DEF Tokens
  <1>11. CASE revoked' = revoked /\ (tokens' = tokens \/ \E r \in Requests : CreateSAToken(r))
    <2>1. \A t \in Tokens : tokens'[t] = tokens[t] BY <1>10, <1>11
    <2> QED BY <1>3, <1>4, <1>6, <1>11, <2>1
  <1> QED BY <1>8, <1>9, <1>11, RevokedByWhom

-----------------------------------------------------------------------------
(* Groups, and what goes with an account or a token.                       *)
AccountTypes ==
    /\ accShown \in Seq(Nat) /\ applying \in Seq(Nat)
    /\ bound \in Seq(GroupOrNone) /\ boundShown \in Seq(GroupOrNone)
    /\ promised \in Seq(Groups) /\ misread \in Seq({"yes", "no"})
    /\ Len(accShown) = Len(accounts) /\ Len(applying) = Len(accounts)
    /\ Len(bound) = Len(accounts) /\ Len(boundShown) = Len(accounts)
    /\ Len(promised) = Len(accounts) /\ Len(misread) = Len(accounts)
    /\ \A a \in 1 .. Len(accounts) : {accShown[a], applying[a]} \subseteq 0 .. Len(accounts[a])
TokenTypes ==
    /\ tokShown \in Seq(Nat) /\ Len(tokShown) = Len(tokens)
    /\ \A t \in 1 .. Len(tokens) : tokShown[t] \in 0 .. Len(tokens[t])

\* They are the corresponding parts of TypeOK.
LEMMA TypesFacts ==
    TypeOK <=> /\ accounts \in Seq(Seq(AccountVersion)) /\ tokens \in Seq(Seq(TokenVersion))
               /\ AccountTypes /\ TokenTypes
               /\ now \in 0 .. MaxTime /\ revoked \subseteq Tokens \X Accounts \X (0 .. now)
               /\ pc \in [Requests -> {"idle", "write", "answered"}]
               /\ req \in [Requests -> Held]
  BY DEF TypeOK, AccountTypes, TokenTypes, Accounts, Tokens

\* Where an account stands with the controller, as in LabelsLead.
Leads(versions, working, group, asked, wrongly) ==
    /\ working = Len(versions) =>
         Live(versions) /\ Latest(versions).label = group /\ group # "none"
    /\ Live(versions) /\ wrongly = "no" =>
         asked = IF Latest(versions).label = "none" THEN group ELSE Latest(versions).label

\* LabelsLead is about each account.
LEMMA LeadsFacts ==
    LabelsLead <=> \A a \in 1 .. Len(accounts) :
                     Leads(accounts[a], applying[a], bound[a], promised[a], misread[a])
  BY DEF LabelsLead, Leads, Accounts

\* createSA: the controller will bind what the label asks for.
LEMMA CreateSALeads ==
    ASSUME AccountsInv, NEW r \in Requests, CreateSA(r)
    PROVE  AccountTypes' /\ LabelsLead'
  <1>1. Answer(r, "create") BY DEF CreateSA
  <1>2. req[r] \in Held /\ req[r].op = "create" /\ ReadFirst(req[r]) BY <1>1, HeldFacts
  <1>3. PICK g \in Groups : g = req[r].group /\ req[r].label = g BY <1>2 DEF ReadFirst
  <1>4. g # "none" BY AccountsAssumption
  <1>5. PICK v : v = NewAccount(req[r].name, req[r].label, req[r].seen) OBVIOUS
  <1>6. AddsAccount(v) BY <1>5, CreateSAWrites
  <1>7. v \in AccountVersion /\ accounts' = Append(accounts, <<v>>) BY <1>6 DEF AddsAccount
  <1>8. PICK n \in Nat : n = Len(accounts) BY VersionFacts
  <1>9. /\ Len(accounts') = n + 1 /\ accounts'[n + 1] = <<v>>
        /\ \A b \in 1 .. n : accounts'[b] = accounts[b]
    BY <1>7, <1>8, VersionFacts, CreateFacts
  <1>10. AccountTypes BY TypesFacts DEF AccountsInv
  <1>11. "none" \in GroupOrNone /\ "no" \in {"yes", "no"} BY DEF GroupOrNone
  <1>12. /\ accShown' = Append(accShown, 0) /\ applying' = Append(applying, 0)
         /\ bound' = Append(bound, "none") /\ boundShown' = Append(boundShown, "none")
         /\ promised' = Append(promised, g) /\ misread' = Append(misread, "no")
    BY <1>3 DEF CreateSA
  <1>13. /\ accShown' \in Seq(Nat) /\ Len(accShown') = n + 1 /\ accShown'[n + 1] = 0
         /\ \A b \in 1 .. n : accShown'[b] = accShown[b]
    BY <1>8, <1>10, <1>12, AppendFacts DEF AccountTypes
  <1>14. /\ applying' \in Seq(Nat) /\ Len(applying') = n + 1 /\ applying'[n + 1] = 0
         /\ \A b \in 1 .. n : applying'[b] = applying[b]
    BY <1>8, <1>10, <1>12, AppendFacts DEF AccountTypes
  <1>15. /\ bound' \in Seq(GroupOrNone) /\ Len(bound') = n + 1
         /\ \A b \in 1 .. n : bound'[b] = bound[b]
    BY SMTT(60), <1>8, <1>10, <1>11, <1>12, AppendFacts DEF AccountTypes
  <1>16. boundShown' \in Seq(GroupOrNone) /\ Len(boundShown') = n + 1
    BY <1>8, <1>10, <1>11, <1>12, AppendFacts DEF AccountTypes
  <1>17. /\ promised' \in Seq(Groups) /\ Len(promised') = n + 1 /\ promised'[n + 1] = g
         /\ \A b \in 1 .. n : promised'[b] = promised[b]
    BY <1>8, <1>10, <1>12, AppendFacts DEF AccountTypes
  <1>18. /\ misread' \in Seq({"yes", "no"}) /\ Len(misread') = n + 1
         /\ \A b \in 1 .. n : misread'[b] = misread[b]
    BY <1>8, <1>10, <1>11, <1>12, AppendFacts DEF AccountTypes
  <1>19. Len(<<v>>) = 1 /\ <<v>>[1] = v BY SingletonFacts
  <1>20. ASSUME NEW b \in 1 .. n + 1
         PROVE  /\ {accShown'[b], applying'[b]} \subseteq 0 .. Len(accounts'[b])
                /\ Leads(accounts'[b], applying'[b], bound'[b], promised'[b], misread'[b])
    <2>1. CASE b \in 1 .. n
      <3>1. Leads(accounts[b], applying[b], bound[b], promised[b], misread[b])
        BY <1>8, <2>1, LeadsFacts DEF AccountsInv
      <3>2. {accShown[b], applying[b]} \subseteq 0 .. Len(accounts[b])
        BY <1>8, <1>10, <2>1 DEF AccountTypes
      <3> QED BY <1>9, <1>13, <1>14, <1>15, <1>17, <1>18, <2>1, <3>1, <3>2
    <2>2. CASE b = n + 1
      <3>1. /\ accounts'[b] = <<v>> /\ applying'[b] = 0 /\ accShown'[b] = 0
            /\ promised'[b] = v.label
        BY <1>3, <1>5, <1>9, <1>13, <1>14, <1>17, <2>2 DEF NewAccount
      <3>2. v.label # "none" BY <1>3, <1>4, <1>5 DEF NewAccount
      <3>3. Latest(<<v>>) = v BY <1>19 DEF Latest
      <3>4. Leads(<<v>>, 0, bound'[b], v.label, misread'[b])
        BY <1>19, <3>2, <3>3 DEF Leads
      <3> QED BY <1>19, <3>1, <3>4
    <2> QED BY <2>1, <2>2
  <1>21. AccountTypes'
    BY <1>9, <1>13, <1>14, <1>15, <1>16, <1>17, <1>18, <1>20 DEF AccountTypes
  <1>22. LabelsLead' BY <1>9, <1>20 DEF LabelsLead, Leads, Accounts
  <1> QED BY <1>21, <1>22

\* An account gets another version.  It suffices that the controller does
\* not take that for the one it works on, and that its label, or else the
\* binding, has the group that is promised.
LEMMA GrowthLeads ==
    ASSUME AccountsInv, NEW a, NEW v, GrowsAccount(a, v),
           UNCHANGED <<accShown, boundShown, bound>>,
           /\ applying' \in Seq(Nat) /\ promised' \in Seq(Groups)
           /\ misread' \in Seq({"yes", "no"}) /\ Len(applying') = Len(accounts)
           /\ Len(promised') = Len(accounts) /\ Len(misread') = Len(accounts)
           /\ applying'[a] \in 0 .. Len(accounts[a]),
           \A b \in 1 .. Len(accounts) : b # a =>
             applying'[b] = applying[b] /\ promised'[b] = promised[b] /\ misread'[b] = misread[b],
           v.exists = "yes" /\ misread'[a] = "no" =>
             promised'[a] = IF v.label = "none" THEN bound[a] ELSE v.label
    PROVE  AccountTypes' /\ LabelsLead'
  <1>1. /\ a \in 1 .. Len(accounts) /\ Len(accounts') = Len(accounts)
        /\ Len(accounts[a]) \in Nat /\ Len(accounts'[a]) = Len(accounts[a]) + 1
        /\ accounts'[a][Len(accounts[a]) + 1] = v /\ Latest(accounts'[a]) = v
        /\ \A c \in 1 .. Len(accounts) : c # a => accounts'[c] = accounts[c]
    BY AccountGrows
  <1>2. AccountTypes BY TypesFacts DEF AccountsInv
  <1>3. ASSUME NEW b \in 1 .. Len(accounts)
        PROVE  /\ {accShown'[b], applying'[b]} \subseteq 0 .. Len(accounts'[b])
               /\ Leads(accounts'[b], applying'[b], bound'[b], promised'[b], misread'[b])
    <2>1. Leads(accounts[b], applying[b], bound[b], promised[b], misread[b])
      BY LeadsFacts DEF AccountsInv
    <2>2. {accShown[b], applying[b]} \subseteq 0 .. Len(accounts[b]) BY <1>2 DEF AccountTypes
    <2>3. CASE b # a BY <1>1, <2>1, <2>2, <2>3
    <2>4. CASE b = a
      <3>1. applying'[b] # Len(accounts'[b]) BY <1>1, <2>4
      <3>2. Live(accounts'[b]) => v.exists = "yes" BY <1>1, <2>4 DEF Live, Exists
      <3>3. Leads(accounts'[b], applying'[b], bound'[b], promised'[b], misread'[b])
        BY <1>1, <2>4, <3>1, <3>2 DEF Leads
      <3>4. {accShown'[b], applying'[b]} \subseteq 0 .. Len(accounts'[b]) BY <1>1, <2>2, <2>4
      <3> QED BY <3>3, <3>4
    <2> QED BY <2>3, <2>4
  <1>4. AccountTypes' BY <1>1, <1>2, <1>3 DEF AccountTypes
  <1>5. LabelsLead' BY <1>1, <1>3 DEF LabelsLead, Leads, Accounts
  <1> QED BY <1>4, <1>5

\* updateSA: the answer is right, or marked as a misreading.
LEMMA UpdateSALeads ==
    ASSUME AccountsInv, NEW r \in Requests, UpdateSA(r)
    PROVE  AccountTypes' /\ LabelsLead'
  <1>1. Answer(r, "update") BY DEF UpdateSA
  <1>2. req[r] \in Held /\ req[r].op = "update" /\ ReadFirst(req[r]) BY <1>1, HeldFacts
  <1>3. PICK a, v, g : /\ a = req[r].object /\ g = req[r].group
                       /\ v = NewAccount(req[r].name, req[r].label, req[r].seen)
    OBVIOUS
  <1>4. GrowsAccount(a, v) /\ g \in Groups /\ g # "none"
    BY <1>2, <1>3, UpdateSAWrites, AccountsAssumption DEF ReadFirst
  <1>5. a \in 1 .. Len(accounts) BY <1>4 DEF GrowsAccount, Accounts
  <1>6. PICK m \in {"yes", "no"} : m = IF GroupIsSet(a, req[r]) THEN "no" ELSE "yes" OBVIOUS
  <1>7. /\ promised' = [promised EXCEPT ![a] = g] /\ misread' = [misread EXCEPT ![a] = m]
        /\ UNCHANGED <<accShown, boundShown, bound, applying>>
    BY <1>3, <1>6 DEF UpdateSA, cacheVars
  <1>8. AccountTypes BY TypesFacts DEF AccountsInv
  <1>9. /\ promised' \in Seq(Groups) /\ Len(promised') = Len(accounts) /\ promised'[a] = g
        /\ \A b \in 1 .. Len(accounts) : b # a => promised'[b] = promised[b]
    BY <1>4, <1>5, <1>7, <1>8, ExceptFacts DEF AccountTypes
  <1>10. /\ misread' \in Seq({"yes", "no"}) /\ Len(misread') = Len(accounts) /\ misread'[a] = m
         /\ \A b \in 1 .. Len(accounts) : b # a => misread'[b] = misread[b]
    BY <1>5, <1>7, <1>8, ExceptFacts DEF AccountTypes
  <1>11. m = "no" => g = IF v.label = "none" THEN bound[a] ELSE v.label
    BY <1>3, <1>4, <1>6 DEF GroupIsSet, NewAccount
  <1>12. /\ applying' \in Seq(Nat) /\ Len(applying') = Len(accounts)
         /\ applying'[a] \in 0 .. Len(accounts[a])
    BY <1>5, <1>7, <1>8 DEF AccountTypes
  <1> QED BY <1>4, <1>7, <1>9, <1>10, <1>11, <1>12, GrowthLeads

\* DeleteEndpoint: nothing is promised of an account that is gone.
LEMMA DeleteSALeads ==
    ASSUME AccountsInv, NEW r \in Requests, NEW by \in Callers, NEW a \in Accounts,
           DeleteSA(r, by, a)
    PROVE  AccountTypes' /\ LabelsLead'
  <1>1. PICK v : v = [Latest(accounts[a]) EXCEPT !.exists = "no"] OBVIOUS
  <1>2. GrowsAccount(a, v) BY <1>1, DeleteSAWrites
  <1>3. v.exists = "no" BY <1>1, AccountFacts DEF AccountVersion
  <1>4. UNCHANGED <<accShown, boundShown, bound, applying, promised, misread>>
    BY DEF DeleteSA, cacheVars
  <1>5. AccountTypes /\ a \in 1 .. Len(accounts) BY TypesFacts DEF AccountsInv, Accounts
  <1>6. /\ applying' \in Seq(Nat) /\ promised' \in Seq(Groups)
        /\ misread' \in Seq({"yes", "no"}) /\ Len(applying') = Len(accounts)
        /\ Len(promised') = Len(accounts) /\ Len(misread') = Len(accounts)
        /\ applying'[a] \in 0 .. Len(accounts[a])
    BY <1>4, <1>5 DEF AccountTypes
  <1> QED BY <1>2, <1>3, <1>4, <1>6, GrowthLeads

\* The controller removes the label it has applied, and no other.
LEMMA RemoveLabelLeads ==
    ASSUME AccountsInv, NEW a \in Accounts, RemoveLabel(a)
    PROVE  AccountTypes' /\ LabelsLead'
  <1>1. AccountTypes /\ a \in 1 .. Len(accounts) /\ Len(accounts[a]) \in Nat \ {0}
    BY TypesFacts, AccountFacts DEF AccountsInv
  <1>2. /\ applying' = [applying EXCEPT ![a] = 0]
        /\ UNCHANGED <<accShown, boundShown, bound, promised, misread>>
    BY DEF RemoveLabel, cacheVars
  <1>3. /\ applying' \in Seq(Nat) /\ Len(applying') = Len(accounts) /\ applying'[a] = 0
        /\ \A b \in 1 .. Len(accounts) : b # a => applying'[b] = applying[b]
    BY <1>1, <1>2, ExceptFacts DEF AccountTypes
  <1>4. Leads(accounts[a], applying[a], bound[a], promised[a], misread[a])
    BY <1>1, LeadsFacts DEF AccountsInv
  <1>5. CASE accounts' = accounts
    <2>1. ASSUME NEW b \in 1 .. Len(accounts)
          PROVE  /\ {accShown'[b], applying'[b]} \subseteq 0 .. Len(accounts'[b])
                 /\ Leads(accounts'[b], applying'[b], bound'[b], promised'[b], misread'[b])
      <3>1. Leads(accounts[b], applying[b], bound[b], promised[b], misread[b])
        BY LeadsFacts DEF AccountsInv
      <3>2. {accShown[b], applying[b]} \subseteq 0 .. Len(accounts[b]) BY <1>1 DEF AccountTypes
      <3>3. CASE b # a BY <1>2, <1>3, <1>5, <3>1, <3>2, <3>3
      <3>4. CASE b = a BY <1>1, <1>2, <1>3, <1>5, <3>1, <3>2, <3>4 DEF Leads
      <3> QED BY <3>3, <3>4
    <2>2. AccountTypes' BY <1>1, <1>2, <1>3, <1>5, <2>1 DEF AccountTypes
    <2>3. LabelsLead' BY <1>5, <2>1 DEF LabelsLead, Leads, Accounts
    <2> QED BY <2>2, <2>3
  <1>6. CASE accounts' # accounts
    <2>1. PICK v : v = [Latest(accounts[a]) EXCEPT !.label = "none"] OBVIOUS
    <2>2. GrowsAccount(a, v) /\ Latest(accounts[a]).label = bound[a]
      BY <1>6, <2>1, RemoveLabelWrites
    <2>3. v.label = "none" /\ v.exists = Latest(accounts[a]).exists
      BY <2>1, AccountFacts DEF AccountVersion
    <2>4. Live(accounts[a]) BY <2>2 DEF GrowsAccount
    <2>5. misread[a] = "no" => promised[a] = bound[a]
      BY <1>4, <2>2, <2>4 DEF Leads
    <2>6. /\ applying' \in Seq(Nat) /\ promised' \in Seq(Groups)
          /\ misread' \in Seq({"yes", "no"}) /\ Len(applying') = Len(accounts)
          /\ Len(promised') = Len(accounts) /\ Len(misread') = Len(accounts)
          /\ applying'[a] \in 0 .. Len(accounts[a])
      BY <1>1, <1>2, <1>3 DEF AccountTypes
    <2> QED BY <1>2, <1>3, <2>2, <2>3, <2>5, <2>6, GrowthLeads
  <1> QED BY <1>5, <1>6

\* The controller binds what a label asks for.
LEMMA ApplyLabelLeads ==
    ASSUME AccountsInv, NEW a \in Accounts, ApplyLabel(a)
    PROVE  AccountTypes' /\ LabelsLead'
  <1>1. AccountTypes /\ a \in 1 .. Len(accounts) /\ Len(accounts[a]) \in Nat \ {0}
    BY TypesFacts, AccountFacts DEF AccountsInv
  <1>2. PICK l, n : l = Latest(accounts[a]).label /\ n = Len(accounts[a]) OBVIOUS
  <1>3. l \in GroupOrNone BY <1>2, AccountFacts DEF AccountVersion
  <1>4. /\ bound' = [bound EXCEPT ![a] = l] /\ applying' = [applying EXCEPT ![a] = n]
        /\ UNCHANGED <<accounts, accShown, boundShown, promised, misread>>
        /\ l # "none" /\ Live(accounts[a])
    BY <1>2 DEF ApplyLabel, cacheVars
  <1>5. /\ bound' \in Seq(GroupOrNone) /\ Len(bound') = Len(accounts) /\ bound'[a] = l
        /\ \A b \in 1 .. Len(accounts) : b # a => bound'[b] = bound[b]
    BY <1>1, <1>3, <1>4, ExceptFacts DEF AccountTypes
  <1>6. /\ applying' \in Seq(Nat) /\ Len(applying') = Len(accounts) /\ applying'[a] = n
        /\ \A b \in 1 .. Len(accounts) : b # a => applying'[b] = applying[b]
    BY <1>1, <1>2, <1>4, ExceptFacts DEF AccountTypes
  <1>7. ASSUME NEW b \in 1 .. Len(accounts)
        PROVE  /\ {accShown[b], applying'[b]} \subseteq 0 .. Len(accounts[b])
               /\ Leads(accounts[b], applying'[b], bound'[b], promised[b], misread[b])
    <2>1. Leads(accounts[b], applying[b], bound[b], promised[b], misread[b])
      BY LeadsFacts DEF AccountsInv
    <2>2. {accShown[b], applying[b]} \subseteq 0 .. Len(accounts[b]) BY <1>1 DEF AccountTypes
    <2>3. CASE b # a BY <1>5, <1>6, <2>1, <2>2, <2>3
    <2>4. CASE b = a BY <1>1, <1>2, <1>4, <1>5, <1>6, <2>1, <2>2, <2>4 DEF Leads
    <2> QED BY <2>3, <2>4
  <1>8. AccountTypes' BY <1>1, <1>4, <1>5, <1>6, <1>7 DEF AccountTypes
  <1>9. LabelsLead' BY <1>4, <1>7 DEF LabelsLead, Leads, Accounts
  <1> QED BY <1>8, <1>9

\* The informers only change what the caches have.
LEMMA SyncLeads ==
    ASSUME AccountsInv, NEW a \in Accounts, SyncAccount(a) \/ SyncBinding(a)
    PROVE  AccountTypes' /\ LabelsLead'
  <1>1. AccountTypes /\ a \in 1 .. Len(accounts) /\ Len(accounts[a]) \in Nat
    BY TypesFacts, AccountFacts DEF AccountsInv
  <1>2. CASE SyncAccount(a)
    <2>1. PICK n \in Nat : n = accShown[a] + 1 /\ n <= Len(accounts[a])
      BY <1>1, <1>2 DEF SyncAccount, AccountTypes
    <2>2. accShown' = [accShown EXCEPT ![a] = n] /\ UNCHANGED <<accountVars, boundShown>>
      BY <1>2, <2>1 DEF SyncAccount
    <2>3. /\ accShown' \in Seq(Nat) /\ Len(accShown') = Len(accounts) /\ accShown'[a] = n
          /\ \A b \in 1 .. Len(accounts) : b # a => accShown'[b] = accShown[b]
      BY <1>1, <2>2, ExceptFacts DEF AccountTypes
    <2>4. ASSUME NEW b \in 1 .. Len(accounts)
          PROVE  {accShown'[b], applying[b]} \subseteq 0 .. Len(accounts[b])
      <3>1. {accShown[b], applying[b]} \subseteq 0 .. Len(accounts[b]) BY <1>1 DEF AccountTypes
      <3>2. CASE b = a BY <1>1, <2>1, <2>3, <3>1, <3>2
      <3>3. CASE b # a BY <2>3, <3>1, <3>3
      <3> QED BY <3>2, <3>3
    <2>5. AccountTypes' BY <1>1, <2>2, <2>3, <2>4 DEF AccountTypes, accountVars
    <2> QED BY <2>2, <2>5 DEF AccountsInv, LabelsLead, accountVars, Accounts
  <1>3. CASE SyncBinding(a)
    <2>1. PICK g \in GroupOrNone : g = bound[a] BY <1>1, ElementFacts DEF AccountTypes
    <2>2. boundShown' = [boundShown EXCEPT ![a] = g] /\ UNCHANGED <<accountVars, accShown>>
      BY <1>3, <2>1 DEF SyncBinding
    <2>3. boundShown' \in Seq(GroupOrNone) /\ Len(boundShown') = Len(accounts)
      BY <1>1, <2>1, <2>2, ExceptFacts DEF AccountTypes
    <2>4. AccountTypes' BY <1>1, <2>2, <2>3 DEF AccountTypes, accountVars
    <2> QED BY <2>2, <2>4 DEF AccountsInv, LabelsLead, accountVars, Accounts
  <1> QED BY <1>2, <1>3

\* Accounts, bindings and labels after a step.
LEMMA GroupsAfter ==
    ASSUME AccountsInv, [Next]_vars
    PROVE  AccountTypes' /\ LabelsLead'
  <1>1. ASSUME UNCHANGED <<accountVars, accShown, boundShown>> PROVE AccountTypes' /\ LabelsLead'
    <2>1. AccountTypes /\ LabelsLead BY TypesFacts DEF AccountsInv
    <2> QED BY <1>1, <2>1 DEF AccountTypes, LabelsLead, accountVars, Accounts
  <1>2. CASE Tick \/ UNCHANGED vars
    BY <1>1, <1>2 DEF Tick, vars, accountVars, cacheVars
  <1>3. ASSUME NEW t \in Tokens, Collect(t) \/ SyncToken(t) PROVE AccountTypes' /\ LabelsLead'
    BY <1>1, <1>3 DEF Collect, Remove, SyncToken, cacheVars
  <1>4. CASE Surroundings
    BY <1>3, <1>4, ApplyLabelLeads, RemoveLabelLeads, SyncLeads DEF Surroundings
  <1>5. ASSUME NEW r \in Requests, Start(r) PROVE AccountTypes' /\ LabelsLead'
    <2>1. \/ \E held : Hold(r, held)
          \/ \E by \in Callers : \/ \E a \in Accounts : DeleteSA(r, by, a)
                                 \/ \E a \in Accounts, t \in Tokens : DeleteSAToken(r, by, a, t)
      BY <1>5, HoldsOrDeletes
    <2>2. ASSUME NEW held, Hold(r, held) PROVE AccountTypes' /\ LabelsLead'
      BY <1>1, <2>2 DEF Hold, cacheVars
    <2>3. ASSUME NEW by \in Callers, NEW a \in Accounts, NEW t \in Tokens,
                 DeleteSAToken(r, by, a, t)
          PROVE  AccountTypes' /\ LabelsLead'
      BY <1>1, <2>3 DEF DeleteSAToken, Remove, cacheVars
    <2> QED BY <2>1, <2>2, <2>3, DeleteSALeads
  <1>6. ASSUME NEW r \in Requests, Finish(r) PROVE AccountTypes' /\ LabelsLead'
    <2>1. CASE CreateSAToken(r) \/ UpdateSAToken(r) \/ WriteFails(r)
      BY <1>1, <2>1 DEF CreateSAToken, UpdateSAToken, WriteFails, cacheVars
    <2> QED BY <1>6, <2>1, CreateSALeads, UpdateSALeads DEF Finish
  <1> QED BY <1>2, <1>4, <1>5, <1>6 DEF Next

\* What the cache has of the tokens, after a step.
LEMMA TokenTypesAfter ==
    ASSUME AccountsInv, [Next]_vars
    PROVE  TokenTypes'
  <1>1. /\ TokenTypes /\ tokens \in Seq(Seq(TokenVersion)) /\ Len(tokens) \in Nat
        /\ \A t \in 1 .. Len(tokens) : Len(tokens[t]) \in Nat
    BY TypesFacts, VersionFacts, TokenFacts DEF AccountsInv, Tokens
  <1>2. ASSUME tokShown' = tokShown, tokens' = tokens \/ \E t, v : GrowsToken(t, v)
        PROVE  TokenTypes'
    <2>1. CASE tokens' = tokens BY <1>1, <1>2, <2>1 DEF TokenTypes
    <2>2. ASSUME NEW t, NEW v, GrowsToken(t, v) PROVE TokenTypes'
      <3>1. /\ Len(tokens') = Len(tokens) /\ Len(tokens'[t]) = Len(tokens[t]) + 1
            /\ t \in 1 .. Len(tokens)
            /\ \A c \in 1 .. Len(tokens) : c # t => tokens'[c] = tokens[c]
        BY <2>2, TokenGrows
      <3>2. ASSUME NEW b \in 1 .. Len(tokens) PROVE tokShown[b] \in 0 .. Len(tokens'[b])
        <4>1. tokShown[b] \in 0 .. Len(tokens[b]) /\ Len(tokens[b]) \in Nat
          BY <1>1 DEF TokenTypes
        <4>2. CASE b = t BY <3>1, <4>1, <4>2
        <4>3. CASE b # t BY <3>1, <4>1, <4>3
        <4> QED BY <4>2, <4>3
      <3> QED BY <1>1, <1>2, <3>1, <3>2 DEF TokenTypes
    <2> QED BY <1>2, <2>1, <2>2
  <1>3. ASSUME NEW t \in Tokens, Remove(t) PROVE TokenTypes'
    BY <1>2, <1>3, RemoveWrites DEF Remove, cacheVars
  <1>4. ASSUME NEW t \in Tokens, SyncToken(t) PROVE TokenTypes'
    <2>1. t \in 1 .. Len(tokens) BY DEF Tokens
    <2>2. PICK n \in Nat : n = tokShown[t] + 1 /\ n <= Len(tokens[t])
      BY <1>1, <1>4, <2>1 DEF SyncToken, TokenTypes
    <2>3. tokShown' = [tokShown EXCEPT ![t] = n] /\ tokens' = tokens
      BY <1>4, <2>2 DEF SyncToken, tokenVars
    <2>4. /\ tokShown' \in Seq(Nat) /\ Len(tokShown') = Len(tokens) /\ tokShown'[t] = n
          /\ \A b \in 1 .. Len(tokens) : b # t => tokShown'[b] = tokShown[b]
      BY <1>1, <2>1, <2>3, ExceptFacts DEF TokenTypes
    <2>5. ASSUME NEW b \in 1 .. Len(tokens) PROVE tokShown'[b] \in 0 .. Len(tokens[b])
      <3>1. CASE b = t BY <1>1, <2>2, <2>4, <3>1
      <3>2. CASE b # t BY <1>1, <2>4, <3>2 DEF TokenTypes
      <3> QED BY <3>1, <3>2
    <2> QED BY <2>3, <2>4, <2>5 DEF TokenTypes
  <1>5. ASSUME NEW r \in Requests, CreateSAToken(r) PROVE TokenTypes'
    <2>1. PICK v : AddsToken(v) BY <1>5, CreateSATokenWrites
    <2>2. v \in TokenVersion /\ tokens' = Append(tokens, <<v>>) BY <2>1 DEF AddsToken
    <2>3. PICK n \in Nat : n = Len(tokens) BY <1>1
    <2>4. /\ Len(tokens') = n + 1 /\ tokens'[n + 1] = <<v>>
          /\ \A b \in 1 .. n : tokens'[b] = tokens[b]
      BY <1>1, <2>2, <2>3, CreateFacts
    <2>5. tokShown' = Append(tokShown, 0) BY <1>5 DEF CreateSAToken
    <2>6. /\ tokShown' \in Seq(Nat) /\ Len(tokShown') = n + 1 /\ tokShown'[n + 1] = 0
          /\ \A b \in 1 .. n : tokShown'[b] = tokShown[b]
      BY <1>1, <2>3, <2>5, AppendFacts DEF TokenTypes
    <2>7. Len(<<v>>) = 1 BY SingletonFacts
    <2>8. ASSUME NEW b \in 1 .. n + 1 PROVE tokShown'[b] \in 0 .. Len(tokens'[b])
      <3>1. CASE b = n + 1 BY <2>4, <2>6, <2>7, <3>1
      <3>2. CASE b \in 1 .. n BY <1>1, <2>3, <2>4, <2>6, <3>2 DEF TokenTypes
      <3> QED BY <3>1, <3>2
    <2> QED BY <2>4, <2>6, <2>8 DEF TokenTypes
  <1>6. CASE Tick \/ UNCHANGED vars BY <1>2, <1>6 DEF Tick, vars, tokenVars, cacheVars
  <1>7. CASE Surroundings
    <2>1. ASSUME NEW a \in Accounts,
                 ApplyLabel(a) \/ RemoveLabel(a) \/ SyncAccount(a) \/ SyncBinding(a)
          PROVE  tokShown' = tokShown /\ tokens' = tokens
      BY <2>1 DEF ApplyLabel, RemoveLabel, SyncAccount, SyncBinding, tokenVars, cacheVars
    <2> QED BY <1>2, <1>3, <1>4, <1>7, <2>1 DEF Surroundings, Collect
  <1>8. ASSUME NEW r \in Requests, Start(r) PROVE TokenTypes'
    <2>1. \/ \E held : Hold(r, held)
          \/ \E by \in Callers : \/ \E a \in Accounts : DeleteSA(r, by, a)
                                 \/ \E a \in Accounts, t \in Tokens : DeleteSAToken(r, by, a, t)
      BY <1>8, HoldsOrDeletes
    <2>2. ASSUME NEW held, Hold(r, held) PROVE tokShown' = tokShown /\ tokens' = tokens
      BY <2>2 DEF Hold, tokenVars, cacheVars
    <2>3. ASSUME NEW by \in Callers, NEW a \in Accounts, DeleteSA(r, by, a)
          PROVE  tokShown' = tokShown /\ tokens' = tokens
      BY <2>3 DEF DeleteSA, tokenVars, cacheVars
    <2> QED BY <1>2, <1>3, <2>1, <2>2, <2>3 DEF DeleteSAToken
  <1>9. ASSUME NEW r \in Requests, Finish(r) PROVE TokenTypes'
    <2>1. CASE CreateSA(r) \/ UpdateSA(r) \/ WriteFails(r)
      BY <1>2, <2>1 DEF CreateSA, UpdateSA, WriteFails, tokenVars, cacheVars
    <2>2. CASE UpdateSAToken(r)
      BY <1>2, <2>2, UpdateSATokenWrites DEF UpdateSAToken, cacheVars
    <2> QED BY <1>5, <1>9, <2>1, <2>2 DEF Finish
  <1> QED BY <1>6, <1>7, <1>8, <1>9 DEF Next

-----------------------------------------------------------------------------
(* The invariant.                                                          *)

\* Two accounts, the token of the first, and nobody at work.
LEMMA AccountsInvInit == Init => AccountsInv
  <1> SUFFICES ASSUME Init PROVE AccountsInv OBVIOUS
  <1>1. PICK m \in Names, n \in Names :
           /\ accounts = <<<<NewAccount(m, "none", <<>>)>>, <<NewAccount(n, "none", <<>>)>>>>
           /\ tokens = <<<<NewToken(1, m, <<1, 1, 0>>, <<>>)>>>>
    BY DEF Init
  <1>2. PICK g \in Groups : bound = <<g, g>> /\ boundShown = <<g, g>> /\ promised = <<g, g>>
    BY DEF Init
  <1>0. <<>> \in Seq(Nat) /\ <<1, 1, 0>> \in TokenData /\ "none" \in GroupOrNone
    BY DEF GroupOrNone, TokenData
  <1>3. PICK u \in AccountVersion : u = NewAccount(m, "none", <<>>)
    <2>1. NewAccount(m, "none", <<>>) \in AccountVersion BY <1>0 DEF NewAccount, AccountVersion
    <2> QED BY <2>1
  <1>4. PICK v \in AccountVersion : v = NewAccount(n, "none", <<>>)
    <2>1. NewAccount(n, "none", <<>>) \in AccountVersion BY <1>0 DEF NewAccount, AccountVersion
    <2> QED BY <2>1
  <1>5. PICK w \in TokenVersion : w = NewToken(1, m, <<1, 1, 0>>, <<>>)
    <2>1. NewToken(1, m, <<1, 1, 0>>, <<>>) \in TokenVersion BY <1>0 DEF NewToken, TokenVersion
    <2> QED BY <2>1
  <1>6. /\ accounts = <<<<u>>, <<v>>>> /\ tokens = <<<<w>>>>
        /\ <<u>> \in Seq(AccountVersion) /\ Len(<<u>>) = 1 /\ <<u>>[1] = u
        /\ <<v>> \in Seq(AccountVersion) /\ Len(<<v>>) = 1 /\ <<v>>[1] = v
        /\ <<w>> \in Seq(TokenVersion) /\ Len(<<w>>) = 1 /\ <<w>>[1] = w
    BY <1>1, <1>3, <1>4, <1>5
  <1>7. /\ accounts \in Seq(Seq(AccountVersion)) /\ Len(accounts) = 2
        /\ accounts[1] = <<u>> /\ accounts[2] = <<v>>
        /\ tokens \in Seq(Seq(TokenVersion)) /\ Len(tokens) = 1 /\ tokens[1] = <<w>>
    <2> DEFINE S == Seq(AccountVersion)
    <2>1. \A x, y \in S : /\ <<x, y>> \in Seq(S) /\ Len(<<x, y>>) = 2
                          /\ <<x, y>>[1] = x /\ <<x, y>>[2] = y
      <3> HIDE DEF S
      <3> QED OBVIOUS
    <2> QED BY <1>6, <2>1, SingletonFacts
  <1>8. Accounts = {1, 2} /\ Tokens = {1} BY <1>7 DEF Accounts, Tokens
  <1>9. /\ u.exists = "yes" /\ u.label = "none" /\ u.seen = <<>>
        /\ v.exists = "yes" /\ v.label = "none" /\ v.seen = <<>>
        /\ w.owner = 1 /\ w.data = <<1, 1, 0>> /\ w.seen = <<>>
    BY <1>3, <1>4, <1>5 DEF NewAccount, NewToken
  <1>10. g \in GroupOrNone BY DEF GroupOrNone
  <1>11. \A a \in Accounts : Len(accounts[a]) = 1 /\ accounts[a][1] \in {u, v}
    BY <1>6, <1>7, <1>8
  <1>12. /\ accShown = <<1, 1>> /\ applying = <<0, 0>> /\ misread = <<"no", "no">>
         /\ tokShown = <<1>> /\ now = 0 /\ revoked = {}
         /\ pc = [r \in Requests |-> "idle"] /\ req = [r \in Requests |-> NoRequest]
    BY DEF Init
  <1>13. AccountTypes
    <2>1. /\ accShown \in Seq(Nat) /\ Len(accShown) = 2 /\ accShown[1] = 1 /\ accShown[2] = 1
          /\ applying \in Seq(Nat) /\ Len(applying) = 2 /\ applying[1] = 0 /\ applying[2] = 0
          /\ misread \in Seq({"yes", "no"}) /\ Len(misread) = 2
      BY <1>12
    <2>2. /\ bound \in Seq(GroupOrNone) /\ Len(bound) = 2
          /\ boundShown \in Seq(GroupOrNone) /\ Len(boundShown) = 2
          /\ promised \in Seq(Groups) /\ Len(promised) = 2
      BY <1>2, <1>10
    <2>3. ASSUME NEW a \in 1 .. Len(accounts)
          PROVE  {accShown[a], applying[a]} \subseteq 0 .. Len(accounts[a])
      <3>1. a \in {1, 2} /\ Len(accounts[a]) = 1 BY <1>7, <1>8, <1>11 DEF Accounts
      <3> QED BY <2>1, <3>1
    <2> QED BY <1>7, <2>1, <2>2, <2>3 DEF AccountTypes
  <1>14. TokenTypes
    <2>1. tokShown \in Seq(Nat) /\ Len(tokShown) = 1 /\ tokShown[1] = 1 BY <1>12
    <2> QED BY <1>6, <1>7, <2>1 DEF TokenTypes
  <1>15. NoRequest \in Held BY DEF NoRequest, NoData, Held, TokenData, Callers, GroupOrNone
  <1>16. TypeOK
    <2>1. now \in 0 .. MaxTime /\ revoked \subseteq Tokens \X Accounts \X (0 .. now)
      BY <1>12, AccountsAssumption
    <2>2. pc \in [Requests -> {"idle", "write", "answered"}] /\ req \in [Requests -> Held]
      BY <1>12, <1>15
    <2> QED BY <1>7, <1>13, <1>14, <2>1, <2>2, TypesFacts
  <1>17. GoneIsLast(accounts) /\ GoneIsLast(tokens)
    <2>1. \A x \in 1 .. Len(accounts) : Len(accounts[x]) = 1 BY <1>11 DEF Accounts
    <2>2. \A x \in 1 .. Len(tokens) : Len(tokens[x]) = 1 BY <1>6, <1>7
    <2>3. ASSUME NEW objects, \A x \in 1 .. Len(objects) : Len(objects[x]) = 1
          PROVE  GoneIsLast(objects)
      <3> SUFFICES ASSUME NEW x \in 1 .. Len(objects)
                   PROVE  /\ Len(objects[x]) > 0
                          /\ \A i \in 1 .. Len(objects[x]) - 1 : objects[x][i].exists = "yes"
        BY DEF GoneIsLast
      <3>1. Len(objects[x]) = 1 BY <2>3
      <3> QED BY <3>1
    <2> QED BY <2>1, <2>2, <2>3
  <1>18. DataIsOwn
    <2>1. tokens[1][1] = w /\ Len(tokens[1]) = 1 BY <1>6, <1>7
    <2>2. <<1, 1, 0>> \in {1} \X Accounts \X (0 .. now) BY <1>8, <1>12
    <2> QED BY <1>8, <1>9, <2>1, <2>2 DEF DataIsOwn
  <1>19. RevokedIsOlder BY <1>12 DEF RevokedIsOlder
  <1>20. NamesWereFree
    <2>1. \A k : AccountNameWasFree(k, <<>>) /\ TokenNameWasFree(k, <<>>)
      BY DEF AccountNameWasFree, TokenNameWasFree
    <2>2. ASSUME NEW a \in Accounts, NEW i \in 1 .. Len(accounts[a])
          PROVE  AccountNameWasFree(accounts[a][i].name, accounts[a][i].seen)
      <3>1. i = 1 /\ accounts[a][1] \in {u, v} BY <1>11
      <3>2. accounts[a][i].seen = <<>> BY <1>9, <3>1
      <3> QED BY <2>1, <3>2
    <2>3. ASSUME NEW t \in Tokens, NEW i \in 1 .. Len(tokens[t])
          PROVE  TokenNameWasFree(tokens[t][i].name, tokens[t][i].seen)
      <3>1. t = 1 /\ i = 1 BY <1>6, <1>7, <1>8
      <3>2. tokens[t][i].seen = <<>> BY <1>6, <1>7, <1>9, <3>1
      <3> QED BY <2>1, <3>2
    <2> QED BY <2>2, <2>3 DEF NamesWereFree
  <1>21. LabelsLead
    <2>1. ASSUME NEW a \in Accounts
          PROVE  applying[a] = 0 /\ bound[a] = g /\ promised[a] = g
      BY <1>2, <1>8, <1>12
    <2>2. ASSUME NEW a \in Accounts
          PROVE  Latest(accounts[a]).label = "none" /\ applying[a] # Len(accounts[a])
      BY <1>9, <1>11, <2>1 DEF Latest
    <2> QED BY <2>1, <2>2 DEF LabelsLead
  <1>22. RequestsReadFirst BY <1>12 DEF RequestsReadFirst
  <1> QED BY <1>16, <1>17, <1>18, <1>19, <1>20, <1>21, <1>22 DEF AccountsInv

\* Every step of a request, of the controller, of the garbage collector and
\* of the informers keeps the invariant.
LEMMA AccountsInvNext == AccountsInv /\ [Next]_vars => AccountsInv'
  <1> SUFFICES ASSUME AccountsInv, [Next]_vars PROVE AccountsInv' OBVIOUS
  <1>1. WritesAccounts /\ WritesTokens /\ now' \in 0 .. MaxTime BY StepWrites, NowFacts
  <1>2. /\ accounts' \in Seq(Seq(AccountVersion)) /\ GoneIsLast(accounts)'
        /\ tokens' \in Seq(Seq(TokenVersion)) /\ GoneIsLast(tokens)'
    BY <1>1, AccountsAfter, TokensAfter
  <1>3. /\ pc' \in [Requests -> {"idle", "write", "answered"}]
        /\ req' \in [Requests -> Held] /\ RequestsReadFirst'
    BY RequestsAfter
  <1>4. revoked' \subseteq Tokens' \X Accounts' \X (0 .. now') /\ RevokedIsOlder' BY RevokedAfter
  <1>5. AccountTypes' /\ LabelsLead' /\ TokenTypes' BY GroupsAfter, TokenTypesAfter
  <1>6. TypeOK'
    <2>1. (/\ accounts \in Seq(Seq(AccountVersion)) /\ tokens \in Seq(Seq(TokenVersion))
           /\ AccountTypes /\ TokenTypes
           /\ now \in 0 .. MaxTime /\ revoked \subseteq Tokens \X Accounts \X (0 .. now)
           /\ pc \in [Requests -> {"idle", "write", "answered"}]
           /\ req \in [Requests -> Held])'
      BY <1>1, <1>2, <1>3, <1>4, <1>5
    <2> QED BY <2>1, TypesFacts, PTL
  <1>7. NamesWereFree' /\ DataIsOwn' BY <1>1, NamesAfter, DataAfter
  <1> QED BY <1>2, <1>3, <1>4, <1>5, <1>6, <1>7 DEF AccountsInv

\* The invariant holds for any number of requests, names and groups.
LEMMA AccountsInvariant == Spec => []AccountsInv
  BY AccountsInvInit, AccountsInvNext, PTL DEF Spec

\* A token that was replaced or deleted is never stored again, unless it was
\* generated for two accounts in the second it is from.
THEOREM RevocationIsFinal == Spec => []RevokedStaysRevoked
  BY NotRevoked, AccountsInvariant, PTL

\* Once no label is pending, the binding has the group that the last answer
\* to an update named, unless that answer was given from a stale binding.
THEOREM GroupLostOnlyByMisreading == Spec => []GroupLostOnlyIfMisread
  <1>1. AccountsInv => GroupLostOnlyIfMisread
    BY DEF AccountsInv, LabelsLead, GroupLostOnlyIfMisread
  <1> QED BY <1>1, AccountsInvariant, PTL

-----------------------------------------------------------------------------
(* Clashing names.                                                         *)

\* A set of natural numbers has a least element.
LEMMA LeastElement ==
    ASSUME NEW S \in SUBSET Nat, S # {}
    PROVE  \E m \in S : \A i \in S : m <= i
  <1> DEFINE R == OpToRel(<, Nat)
  <1>1. IsWellFoundedOn(R, Nat) BY NatLessThanWellFounded
  <1>2. \A i, m \in Nat : i < m => <<i, m>> \in R BY DEF OpToRel
  <1> HIDE DEF R
  <1>3. PICK m \in S : \A i \in S : ~(<<i, m>> \in R) BY <1>1, WFMin
  <1>4. \A i \in S : i \in Nat /\ m \in Nat /\ ~(i < m) BY <1>2, <1>3
  <1> QED BY <1>3, <1>4

\* There is a version in which an object got its present name, and it has
\* kept the name since.
LEMMA NamedAtFacts ==
    ASSUME NEW versions, Len(versions) \in Nat \ {0}
    PROVE  /\ NamedAt(versions) \in 1 .. Len(versions)
           /\ \A j \in NamedAt(versions) .. Len(versions) :
                versions[j].name = Latest(versions).name
  <1> DEFINE P(i) == /\ \A j \in i .. Len(versions) : versions[j].name = Latest(versions).name
                     /\ i > 1 => versions[i - 1].name # versions[i].name
             S == {i \in 1 .. Len(versions) :
                     \A j \in i .. Len(versions) : versions[j].name = Latest(versions).name}
  <1>1. Len(versions) \in S BY DEF Latest
  <1>2. S \in SUBSET Nat /\ S # {} BY <1>1
  <1>3. PICK m \in S : \A i \in S : m <= i
    <2> HIDE DEF S
    <2> QED BY <1>2, LeastElement
  <1>4. m \in 1 .. Len(versions) /\ m \in m .. Len(versions) OBVIOUS
  <1>5. m > 1 => versions[m - 1].name # versions[m].name
    <2> SUFFICES ASSUME m > 1, versions[m - 1].name = versions[m].name PROVE FALSE
      OBVIOUS
    <2>1. versions[m].name = Latest(versions).name BY <1>4
    <2>2. \A j \in m - 1 .. Len(versions) : versions[j].name = Latest(versions).name
      <3> TAKE j \in m - 1 .. Len(versions)
      <3>1. j = m - 1 \/ j \in m .. Len(versions) BY <1>4
      <3> QED BY <2>1, <3>1
    <2>3. m - 1 \in 1 .. Len(versions) BY <1>4
    <2>4. m - 1 \in S BY <2>2, <2>3
    <2>5. m <= m - 1
      <3> HIDE DEF S
      <3> QED BY <1>3, <2>4
    <2> QED BY <1>4, <2>5
  <1>6. P(m) BY <1>5
  <1>7. \E i \in 1 .. Len(versions) : P(i) BY <1>4, <1>6
  <1>8. NamedAt(versions) = CHOOSE i \in 1 .. Len(versions) : P(i) BY DEF NamedAt
  <1> HIDE DEF P
  <1>9. NamedAt(versions) \in 1 .. Len(versions) /\ P(NamedAt(versions)) BY <1>7, <1>8
  <1> QED BY <1>9 DEF P

\* If what was looked at is not found under the present name of y, and y is
\* live, then y got the name later.
LEMMA NotSeen ==
    ASSUME NEW versions, Len(versions) \in Nat \ {0}, Live(versions),
           \A i \in 1 .. Len(versions) - 1 : versions[i].exists = "yes",
           NEW p \in Nat, p <= Len(versions),
           Exists(versions, p) => versions[p].name # Latest(versions).name
    PROVE  ~(p >= NamedAt(versions))
  <1> SUFFICES ASSUME p >= NamedAt(versions) PROVE FALSE OBVIOUS
  <1>1. NamedAt(versions) \in 1 .. Len(versions) BY NamedAtFacts
  <1>2. p \in NamedAt(versions) .. Len(versions) /\ p > 0 BY <1>1
  <1>3. versions[p].name = Latest(versions).name BY <1>2, NamedAtFacts
  <1>4. versions[p].exists = "yes" BY <1>2 DEF Live, Exists
  <1> QED BY <1>2, <1>3, <1>4 DEF Exists

\* Whoever named the account x did not see the account y under that name.
LEMMA AccountNotSeen ==
    ASSUME AccountsInv, NEW x \in Accounts, NEW y \in Accounts, Live(accounts[y]),
           Latest(accounts[x]).name = Latest(accounts[y]).name
    PROVE  ~SawName(accounts, x, y)
  <1>1. PICK k : k = NamedAt(accounts[x]) OBVIOUS
  <1>2. Len(accounts[x]) \in Nat \ {0} /\ Len(accounts[y]) \in Nat \ {0} BY AccountFacts
  <1>3. k \in 1 .. Len(accounts[x]) /\ accounts[x][k].name = Latest(accounts[x]).name
    BY SMTT(60), <1>1, <1>2, NamedAtFacts
  <1>4. PICK seen : seen = accounts[x][k].seen OBVIOUS
  <1>5. accounts[x][k] \in AccountVersion BY <1>3, AccountFacts
  <1>6. seen \in Seq(Nat) BY <1>4, <1>5 DEF AccountVersion
  <1>7. AccountNameWasFree(accounts[x][k].name, seen)
    BY <1>3, <1>4 DEF AccountsInv, NamesWereFree
  <1>8. \A i \in 1 .. Len(accounts[y]) - 1 : accounts[y][i].exists = "yes"
    BY VersionFacts DEF GoneIsLast, Accounts
  <1>9. ASSUME y \in DOMAIN seen PROVE ~(seen[y] >= NamedAt(accounts[y]))
    <2>1. /\ seen[y] \in Nat /\ seen[y] <= Len(accounts[y])
          /\ Exists(accounts[y], seen[y]) => accounts[y][seen[y]].name # Latest(accounts[y]).name
      BY <1>3, <1>6, <1>7, <1>9 DEF AccountNameWasFree
    <2> QED BY <1>2, <1>8, <2>1, NotSeen
  <1> QED BY <1>1, <1>4, <1>9 DEF SawName

\* The same for two tokens.
LEMMA TokenNotSeen ==
    ASSUME AccountsInv, NEW x \in Tokens, NEW y \in Tokens, Live(tokens[y]),
           Latest(tokens[x]).name = Latest(tokens[y]).name
    PROVE  ~SawName(tokens, x, y)
  <1>1. PICK k : k = NamedAt(tokens[x]) OBVIOUS
  <1>2. Len(tokens[x]) \in Nat \ {0} /\ Len(tokens[y]) \in Nat \ {0} BY TokenFacts
  <1>3. k \in 1 .. Len(tokens[x]) /\ tokens[x][k].name = Latest(tokens[x]).name
    BY SMTT(60), <1>1, <1>2, NamedAtFacts
  <1>4. PICK seen : seen = tokens[x][k].seen OBVIOUS
  <1>5. tokens[x][k] \in TokenVersion BY <1>3, TokenFacts
  <1>6. seen \in Seq(Nat) BY <1>4, <1>5 DEF TokenVersion
  <1>7. TokenNameWasFree(tokens[x][k].name, seen)
    BY <1>3, <1>4 DEF AccountsInv, NamesWereFree
  <1>8. \A i \in 1 .. Len(tokens[y]) - 1 : tokens[y][i].exists = "yes"
    BY VersionFacts DEF GoneIsLast, Tokens
  <1>9. ASSUME y \in DOMAIN seen PROVE ~(seen[y] >= NamedAt(tokens[y]))
    <2>1. /\ seen[y] \in Nat /\ seen[y] <= Len(tokens[y])
          /\ Exists(tokens[y], seen[y]) => tokens[y][seen[y]].name # Latest(tokens[y]).name
      BY <1>3, <1>6, <1>7, <1>9 DEF TokenNameWasFree
    <2> QED BY <1>2, <1>8, <2>1, NotSeen
  <1> QED BY <1>1, <1>4, <1>9 DEF SawName

\* Two accounts, or two tokens of an account, have one name only if neither
\* of the requests that named them could see the other under that name.
THEOREM NamesClashOnlyUnseen == Spec => []NamesClashUnseen
  <1>1. AccountsInv => NamesClashUnseen
    <2> SUFFICES ASSUME AccountsInv PROVE NamesClashUnseen OBVIOUS
    <2>1. SameNameUnseen(accounts, Accounts) BY AccountNotSeen DEF SameNameUnseen
    <2>2. ASSUME NEW some \in SUBSET Tokens PROVE SameNameUnseen(tokens, some)
      BY TokenNotSeen DEF SameNameUnseen
    <2> QED BY <2>1, <2>2 DEF NamesClashUnseen
  <1> QED BY <1>1, AccountsInvariant, PTL
=============================================================================
