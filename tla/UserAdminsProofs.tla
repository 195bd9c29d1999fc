-------------------------- MODULE UserAdminsProofs --------------------------
(* Proofs about UserAdmins, for any number of users and requests and any   *)
(* bounds.                                                                 *)
EXTENDS UserAdmins, WellFoundedInduction, TLAPS

\* A set of numbers up to n has a greatest element.
LEMMA GreatestElement ==
    ASSUME NEW n \in Nat, NEW S \in SUBSET (1 .. n), S # {}
    PROVE  \E m \in S : \A i \in S : i <= m
<1> DEFINE T == {k \in Nat : n - k \in S}
<1>1. T \subseteq Nat /\ T # {}
    <2>1. PICK i \in S : TRUE
        OBVIOUS
    <2>2. n - i \in Nat /\ n - (n - i) = i
        OBVIOUS
    <2> QED BY <2>1, <2>2
<1> DEFINE R == OpToRel(<, Nat)
<1>2. IsWellFoundedOn(R, Nat)
    BY NatLessThanWellFounded
<1>3. PICK x \in T : \A y \in T : ~(<<y, x>> \in R)
    <2> HIDE DEF T, R
    <2> QED BY <1>1, <1>2, WFMin
<1>4. \A y \in T : x <= y
    <2>1. \A y \in Nat : y < x => <<y, x>> \in R
        BY <1>1, <1>3 DEF OpToRel
    <2> HIDE DEF R
    <2>2. \A y \in T : y \in Nat /\ ~(y < x)
        BY <1>1, <1>3, <2>1
    <2>3. x \in Nat
        BY <1>1
    <2> HIDE DEF T
    <2> QED BY <2>2, <2>3
<1>5. \A i \in S : n - i \in T /\ i \in Nat
    OBVIOUS
<1>6. \A i \in S : i <= n - x
    BY <1>1, <1>4, <1>5
<1> QED BY <1>6

\* Position finds the latest of a user's versions.
LEMMA PositionFound ==
    ASSUME log \in Seq(Versions), NEW u, NEW n \in 0 .. Len(log)
    PROVE  /\ Position(u, n) \in 0 .. n
           /\ Position(u, n) > 0 => log[Position(u, n)].user = u
           /\ \A j \in (Position(u, n) + 1) .. n : log[j].user # u
<1> DEFINE P(i) == /\ i > 0 => log[i].user = u
                   /\ \A j \in (i + 1) .. n : log[j].user # u
           S == {i \in 1 .. n : log[i].user = u}
<1>1. \E i \in 0 .. n : P(i)
    <2>1. CASE S = {}
        BY <2>1
    <2>2. CASE S # {}
        <3>1. n \in Nat /\ S \in SUBSET (1 .. n)
            OBVIOUS
        <3> HIDE DEF S
        <3>2. PICK m \in S : \A i \in S : i <= m
            BY <2>2, <3>1, GreatestElement
        <3>3. P(m)
            BY <3>2 DEF S
        <3> QED BY <3>1, <3>2, <3>3
    <2> QED BY <2>1, <2>2
<1> QED BY <1>1 DEF Position
-----------------------------------------------------------------------------
(* What a write does to the log.                                           *)

\* The version that is written becomes its user's latest; the positions of
\* all others stay.
LEMMA Appended ==
    ASSUME log \in Seq(Versions), NEW v \in Versions, log' = Append(log, v)
    PROVE  /\ log' \in Seq(Versions)
           /\ Len(log) \in Nat /\ Len(log)' = Len(log) + 1
           /\ \A i \in 1 .. Len(log) : log'[i] = log[i]
           /\ log'[Len(log) + 1] = v
           /\ Latest(v.user)' = Len(log) + 1
           /\ \A u : u # v.user => Latest(u)' = Latest(u)
<1>1. /\ log' \in Seq(Versions)
      /\ Len(log) \in Nat /\ Len(log') = Len(log) + 1
      /\ \A i \in 1 .. Len(log) : log'[i] = log[i]
      /\ log'[Len(log) + 1] = v
    OBVIOUS
<1> DEFINE n == Len(log)
           P(u, i) == /\ i > 0 => log'[i].user = u
                      /\ \A j \in (i + 1) .. (n + 1) : log'[j].user # u
<1>2. \A u : Latest(u)' = CHOOSE i \in 0 .. (n + 1) : P(u, i)
    BY <1>1 DEF Latest, Position
<1>3. Latest(v.user)' = Len(log) + 1
    <2>1. P(v.user, n + 1)
        BY <1>1
    <2>2. \A i \in 0 .. (n + 1) : P(v.user, i) => i = n + 1
        BY <1>1
    <2> HIDE DEF P
    <2> QED BY <1>1, <1>2, <2>1, <2>2
<1>4. ASSUME NEW u, u # v.user
      PROVE  Latest(u)' = Latest(u)
    <2>1. /\ Latest(u) \in 0 .. n
          /\ Latest(u) > 0 => log[Latest(u)].user = u
          /\ \A j \in (Latest(u) + 1) .. n : log[j].user # u
        BY <1>1, PositionFound DEF Latest
    <2>2. Latest(u) \in 0 .. (n + 1) /\ P(u, Latest(u))
        BY <1>1, <1>4, <2>1
    <2>3. \A i \in 0 .. (n + 1) : P(u, i) => i = Latest(u)
        <3> SUFFICES ASSUME NEW i \in 0 .. (n + 1), P(u, i), i # Latest(u)
                     PROVE  FALSE
            OBVIOUS
        <3>1. CASE i < Latest(u)
            BY <1>1, <2>1, <3>1
        <3>2. CASE i > Latest(u)
            BY <1>1, <1>4, <2>1, <3>2
        <3> QED BY <1>1, <2>1, <3>1, <3>2
    <2> HIDE DEF P
    <2> QED BY <1>2, <2>2, <2>3
<1> QED BY <1>1, <1>3, <1>4

\* The administrators after a write.
LEMMA AdminsAfter ==
    ASSUME log \in Seq(Versions), NEW v \in Versions, log' = Append(log, v)
    PROVE  Admins' = IF v.isAdmin THEN Admins \cup {v.user} ELSE Admins \ {v.user}
<1>1. \A u : u # v.user => (u \in Admins' <=> u \in Admins)
    <2> SUFFICES ASSUME NEW u, u # v.user
                 PROVE  u \in Admins' <=> u \in Admins
        OBVIOUS
    <2>1. Latest(u)' = Latest(u) /\ Latest(u) \in 0 .. Len(log)
        BY Appended, PositionFound DEF Latest
    <2>2. Latest(u) > 0 => log'[Latest(u)] = log[Latest(u)]
        BY <2>1, Appended
    <2> QED BY <2>1, <2>2 DEF Admins
<1>2. v.user \in Admins' <=> v.isAdmin
    BY Appended DEF Admins, Versions
<1>3. v.user \in Users
    BY DEF Versions
<1> QED BY <1>1, <1>2, <1>3, Zenon
-----------------------------------------------------------------------------
(* The steps.                                                              *)

\* The invariant holds at the start.
LEMMA InitInv == Init => AdminsInv
<1> SUFFICES ASSUME Init PROVE AdminsInv
    OBVIOUS
<1>1. TypeOK
    <2>1. log \in Seq(Versions) /\ Len(log) = 0 /\ cache \in Positions
        BY DEF Init, Positions
    <2>2. target \in [Requests -> [position : Positions, isAdmin : BOOLEAN]]
        BY <2>1 DEF Init, Positions, NoTarget
    <2>3. crossed \in BOOLEAN /\ lapsed \in BOOLEAN
        BY Zenon DEF Init
    <2>4. /\ pc = [r \in Requests |-> "idle"]
          /\ grants \in 0 .. MaxGrants /\ saves \in 0 .. MaxSaves
          /\ caller \in [Requests -> Positions]
        BY <2>1, AdminsAssumption DEF Init, Positions
    <2> QED BY <2>1, <2>2, <2>3, <2>4 DEF TypeOK
<1>2. RequestsInformed /\ GroupMakesAdmin /\ AdminLeft
    BY DEF Init, RequestsInformed, GroupMakesAdmin, AdminLeft
<1> QED BY <1>1, <1>2 DEF AdminsInv

\* Steps that write nothing.
LEMMA ReadStep ==
    ASSUME AdminsInv, NEW r \in Requests,
           \/ GetCaller(r) \/ ListUsers(r) \/ SkipLastSeen(r) \/ SaveUnchanged(r)
           \/ \E u \in Users, isAdmin \in BOOLEAN : SetAdmin(r, u, isAdmin)
    PROVE  AdminsInv'
<1> USE DEF AdminsInv
<1>0. UNCHANGED <<log, cache, crossed, lapsed>>
    BY DEF GetCaller, ListUsers, SkipLastSeen, SaveUnchanged, SetAdmin
<1>1. (GroupMakesAdmin /\ AdminLeft)'
    BY <1>0 DEF GroupMakesAdmin, AdminLeft, Admins, Latest, Position
<1>2. CASE GetCaller(r)
    <2> DEFINE found == Position(callerOf[r], cache)
    <2>1. /\ found \in 0 .. cache /\ found \in 0 .. Len(log)
          /\ found > 0 => log[found].user = callerOf[r]
        BY PositionFound DEF TypeOK, Positions
    <2>2. /\ caller' = [caller EXCEPT ![r] = found]
          /\ \/ pc' = [pc EXCEPT ![r] = IF found > 0 THEN "save" ELSE "list"]
             \/ pc' = [pc EXCEPT ![r] = IF found > 0 THEN "save" ELSE "failed"]
          /\ UNCHANGED <<target, grants, saves>>
        BY <1>2 DEF GetCaller, Goto, HoldCaller
    <2> HIDE DEF found
    <2>3. TypeOK'
        BY <1>0, <2>1, <2>2 DEF TypeOK, Positions
    <2>4. RequestsInformed'
        BY <1>0, <2>1, <2>2 DEF RequestsInformed, TypeOK
    <2> QED BY <1>1, <2>3, <2>4
<1>3. CASE ListUsers(r)
    <2>1. cache # 0 => log # <<>>
        BY DEF TypeOK, Positions
    <2>2. TypeOK'
        BY <1>0, <1>3 DEF TypeOK, Positions, ListUsers, Goto
    <2>3. RequestsInformed'
        BY <1>0, <1>3, <2>1 DEF RequestsInformed, TypeOK, ListUsers, Goto
    <2> QED BY <1>1, <2>2, <2>3
<1>4. CASE SkipLastSeen(r) \/ SaveUnchanged(r)
    <2>0. /\ pc[r] = "save" /\ UNCHANGED <<caller, target, grants>>
          /\ \/ pc' = [pc EXCEPT ![r] = "endpoint"]
             \/ pc' = [pc EXCEPT ![r] = "patchStatus"]
          /\ saves' \in 0 .. MaxSaves
        BY <1>4, AdminsAssumption DEF TypeOK, SkipLastSeen, SaveUnchanged, Goto
    <2>1. TypeOK'
        BY <1>0, <2>0 DEF TypeOK, Positions
    <2>2. RequestsInformed'
        BY <1>0, <1>4 DEF RequestsInformed, TypeOK, SkipLastSeen, SaveUnchanged, Goto
    <2> QED BY <1>1, <2>1, <2>2
<1>5. ASSUME NEW u \in Users, NEW isAdmin \in BOOLEAN, SetAdmin(r, u, isAdmin)
      PROVE  AdminsInv'
    <2> DEFINE found == Position(u, cache)
               ok == MayChange(r, u) /\ found > 0 /\ (~isAdmin => ~log[found].byGroup)
    <2>1. /\ found \in 0 .. Len(log)
          /\ found > 0 => log[found].user = u
        BY PositionFound DEF TypeOK, Positions
    <2>2. /\ pc[r] = "endpoint"
          /\ UNCHANGED <<grants, saves>>
          /\ \/ /\ ok /\ pc' = [pc EXCEPT ![r] = "update"] /\ caller' = caller
                /\ target' = [target EXCEPT ![r] = [position |-> found, isAdmin |-> isAdmin]]
             \/ /\ pc' = [pc EXCEPT ![r] = "failed"]
                /\ caller' = [caller EXCEPT ![r] = 0]
                /\ target' = [target EXCEPT ![r] = [position |-> 0, isAdmin |-> FALSE]]
        BY <1>5 DEF SetAdmin, Goto, Forget, HoldCaller, NoTarget
    <2>3. ok => found > 0 /\ u # callerOf[r] /\ (log[found].byGroup => isAdmin)
        BY DEF MayChange
    <2> HIDE DEF ok, found
    <2>4. TypeOK'
        <3>1. ASSUME NEW x \in [position : 0 .. Len(log), isAdmin : BOOLEAN], NEW y \in 0 .. Len(log),
                     target' = [target EXCEPT ![r] = x], caller' = [caller EXCEPT ![r] = y],
                     \/ pc' = [pc EXCEPT ![r] = "update"] /\ x.position > 0 /\ y > 0
                     \/ pc' = [pc EXCEPT ![r] = "failed"]
              PROVE  TypeOK'
            BY <1>0, <2>2, <3>1 DEF TypeOK, Positions
        <3>2. 0 \in 0 .. Len(log)
            BY DEF TypeOK
        <3>3. CASE ok /\ pc' = [pc EXCEPT ![r] = "update"]
            <4>1. [position |-> found, isAdmin |-> isAdmin] \in
                      [position : 0 .. Len(log), isAdmin : BOOLEAN]
                BY <2>1
            <4>2. caller' = [caller EXCEPT ![r] = caller[r]] /\ caller[r] \in 0 .. Len(log) /\ caller[r] > 0
                BY <2>2, <3>3 DEF TypeOK, Positions
            <4>3. target' = [target EXCEPT ![r] = [position |-> found, isAdmin |-> isAdmin]]
                BY <2>2, <3>3 DEF TypeOK
            <4> QED BY <2>3, <3>1, <3>3, <4>1, <4>2, <4>3
        <3>4. CASE pc' = [pc EXCEPT ![r] = "failed"]
            <4>1. [position |-> 0, isAdmin |-> FALSE] \in
                      [position : 0 .. Len(log), isAdmin : BOOLEAN]
                BY <3>2
            <4>2. /\ caller' = [caller EXCEPT ![r] = 0]
                  /\ target' = [target EXCEPT ![r] = [position |-> 0, isAdmin |-> FALSE]]
                BY <2>2, <3>4 DEF TypeOK
            <4> QED BY <3>1, <3>2, <3>4, <4>1, <4>2
        <3> QED BY <2>2, <3>3, <3>4
    <2>5. RequestsInformed'
        BY <1>0, <2>1, <2>2, <2>3 DEF RequestsInformed, TypeOK
    <2> QED BY <1>1, <2>4, <2>5
<1> QED BY <1>2, <1>3, <1>4, <1>5

\* A write keeps what every request has found out, if the one that writes
\* moves on to a step that holds for it.
LEMMA WriteKeeps ==
    ASSUME AdminsInv, NEW v \in Versions, log' = Append(log, v), v.byGroup => v.isAdmin
    PROVE  /\ GroupMakesAdmin'
           /\ \A i \in 1 .. Len(log) : log'[i] = log[i]
           /\ log' # <<>> /\ log' \in Seq(Versions)
           /\ Len(log') = Len(log) + 1 /\ Len(log) \in Nat
           /\ log'[Len(log) + 1] = v
BY Appended DEF AdminsInv, TypeOK, GroupMakesAdmin
\* The types after a write by request r, which moves on from step "from".
LEMMA WriteTypes ==
    ASSUME AdminsInv, NEW v \in Versions, log' = Append(log, v), UNCHANGED cache,
           NEW r \in Requests, NEW to \in {"save", "patchStatus", "endpoint", "done"},
           pc' = [pc EXCEPT ![r] = to],
           \/ /\ caller' = [caller EXCEPT ![r] = 0] /\ to = "done"
              /\ target' = [target EXCEPT ![r] = NoTarget]
           \/ /\ caller' = [caller EXCEPT ![r] = Len(log) + 1] /\ v.user = callerOf[r]
              /\ target' = target,
           grants' \in 0 .. MaxGrants, saves' \in 0 .. MaxSaves,
           crossed' \in BOOLEAN, lapsed' \in BOOLEAN
    PROVE  TypeOK' /\ RequestsInformed'
<1>0. /\ log' \in Seq(Versions) /\ log' # <<>>
      /\ Len(log) \in Nat /\ Len(log') = Len(log) + 1
      /\ \A i \in 1 .. Len(log) : log'[i] = log[i]
      /\ log'[Len(log) + 1] = v
    BY Appended, SMTT(60) DEF AdminsInv, TypeOK
<1>1. /\ cache' \in Positions' /\ Positions \subseteq Positions'
      /\ Len(log) + 1 \in Positions' /\ 0 \in Positions'
    BY <1>0 DEF AdminsInv, TypeOK, Positions
<1>2. TypeOK'
    <2>1. target' \in [Requests -> [position : Positions', isAdmin : BOOLEAN]]
        <3>1. NoTarget \in [position : Positions', isAdmin : BOOLEAN]
            BY <1>1 DEF NoTarget
        <3>2. target \in [Requests -> [position : Positions', isAdmin : BOOLEAN]]
            BY <1>1 DEF AdminsInv, TypeOK
        <3> QED BY <3>1, <3>2
    <2>2. caller' \in [Requests -> Positions']
        BY <1>1 DEF AdminsInv, TypeOK
    <2>3. \A q \in Requests :
             /\ pc'[q] \in {"save", "patchStatus", "endpoint", "update"} => caller'[q] > 0
             /\ pc'[q] = "update" => target'[q].position > 0
        BY <1>0 DEF AdminsInv, TypeOK
    <2> QED BY <1>0, <1>1, <2>1, <2>2, <2>3 DEF AdminsInv, TypeOK
<1>3. RequestsInformed'
    <2> SUFFICES ASSUME NEW q \in Requests
                 PROVE  /\ caller'[q] > 0 => log'[caller'[q]].user = callerOf[q]
                        /\ pc'[q] = "update" =>
                             LET old == log'[target'[q].position]
                             IN  old.user # callerOf[q] /\ (old.byGroup => target'[q].isAdmin)
        BY <1>0 DEF RequestsInformed
    <2>1. caller[q] \in 0 .. Len(log) /\ target[q].position \in 0 .. Len(log)
        BY DEF AdminsInv, TypeOK, Positions
    <2>2. caller'[q] > 0 => log'[caller'[q]].user = callerOf[q]
        BY <1>0, <2>1 DEF AdminsInv, TypeOK, RequestsInformed
    <2>3. ASSUME pc'[q] = "update"
          PROVE  LET old == log'[target'[q].position]
                 IN  old.user # callerOf[q] /\ (old.byGroup => target'[q].isAdmin)
        <3>1. pc[q] = "update" /\ target'[q] = target[q] /\ target[q].position > 0
            BY <2>3 DEF AdminsInv, TypeOK
        <3>2. log'[target'[q].position] = log[target[q].position]
            BY <1>0, <2>1, <3>1
        <3> QED BY <3>1, <3>2, Zenon DEF AdminsInv, RequestsInformed
    <2> QED BY <2>2, <2>3
<1> QED BY <1>2, <1>3
\* Creating the caller.
LEMMA CreateStep ==
    ASSUME AdminsInv, NEW r \in Requests, CreateCaller(r)
    PROVE  AdminsInv'
<1>1. CASE Latest(callerOf[r]) # 0
    <2>1. /\ UNCHANGED <<log, cache, caller, target, grants, saves, crossed, lapsed>>
          /\ pc' = [pc EXCEPT ![r] = "getAgain"]
        BY <1>1 DEF CreateCaller, Goto
    <2>2. TypeOK' /\ RequestsInformed'
        BY <2>1 DEF AdminsInv, TypeOK, Positions, RequestsInformed
    <2>3. GroupMakesAdmin' /\ AdminLeft'
        BY <2>1 DEF AdminsInv, GroupMakesAdmin, AdminLeft, Admins, Latest, Position
    <2> QED BY <2>2, <2>3 DEF AdminsInv
<1>2. CASE Latest(callerOf[r]) = 0
    <2> DEFINE elected == pc[r] = "createAdmin"
               v == [user |-> callerOf[r], isAdmin |-> elected,
                     byGroup |-> FALSE, elected |-> elected]
    <2>1. /\ log' = Append(log, v)
          /\ caller' = [caller EXCEPT ![r] = Len(log) + 1]
          /\ pc' = [pc EXCEPT ![r] = "save"]
          /\ pc[r] = "createAdmin" \/ pc[r] = "create"
          /\ UNCHANGED <<cache, target, grants, saves, crossed, lapsed>>
        BY <1>2 DEF CreateCaller, Goto, HoldCaller
    <2>2. /\ v \in Versions /\ v.user = callerOf[r] /\ (v.isAdmin <=> elected)
          /\ ~v.byGroup
        BY AdminsAssumption DEF Versions
    <2> HIDE DEF v, elected
    <2>3. TypeOK' /\ RequestsInformed'
        BY <2>1, <2>2, WriteTypes DEF AdminsInv, TypeOK
    <2>4. GroupMakesAdmin'
        BY <2>1, <2>2, WriteKeeps
    <2>5. Admins' = IF v.isAdmin THEN Admins \cup {callerOf[r]} ELSE Admins \ {callerOf[r]}
        BY <2>1, <2>2, AdminsAfter DEF AdminsInv, TypeOK
    <2>6. AdminLeft'
        <3>1. CASE elected
            BY <2>2, <2>5, <3>1 DEF AdminLeft
        <3>2. CASE ~elected
            <4>1. log # <<>>
                BY <2>1, <3>2 DEF AdminsInv, RequestsInformed, elected
            <4>2. callerOf[r] \notin Admins
                BY <1>2 DEF Admins
            <4> QED BY <2>1, <2>2, <2>5, <3>2, <4>1, <4>2
                    DEF AdminsInv, AdminLeft
        <3> QED BY <3>1, <3>2
    <2> QED BY <2>3, <2>4, <2>6 DEF AdminsInv
<1> QED BY <1>1, <1>2

\* A version of a user with the rights of the latest one changes no rights.
LEMMA SameRights ==
    ASSUME AdminsInv, NEW u \in Users, Latest(u) > 0, log' = Append(log, log[Latest(u)])
    PROVE  /\ Admins' = Admins
           /\ log[Latest(u)] \in Versions /\ log[Latest(u)].user = u
           /\ log[Latest(u)].byGroup => log[Latest(u)].isAdmin
<1>1. Latest(u) \in 1 .. Len(log) /\ log[Latest(u)].user = u
    BY PositionFound DEF AdminsInv, TypeOK, Latest
<1>2. log[Latest(u)] \in Versions
    BY <1>1 DEF AdminsInv, TypeOK
<1>3. Admins' = IF log[Latest(u)].isAdmin THEN Admins \cup {u} ELSE Admins \ {u}
    BY <1>1, <1>2, AdminsAfter DEF AdminsInv, TypeOK
<1>4. u \in Admins <=> log[Latest(u)].isAdmin
    BY <1>1 DEF Admins
<1>5. log[Latest(u)].byGroup => log[Latest(u)].isAdmin
    BY <1>1 DEF AdminsInv, GroupMakesAdmin
<1> QED BY <1>1, <1>2, <1>3, <1>4, <1>5, Zenon

\* A caller that a request holds is known.
LEMMA CallerIsKnown ==
    ASSUME AdminsInv, NEW r \in Requests, caller[r] > 0
    PROVE  callerOf[r] \in Users /\ Latest(callerOf[r]) > 0
<1>1. caller[r] \in 1 .. Len(log) /\ log[caller[r]].user = callerOf[r]
    BY DEF AdminsInv, TypeOK, Positions, RequestsInformed
<1>2. /\ Latest(callerOf[r]) \in 0 .. Len(log)
      /\ \A j \in (Latest(callerOf[r]) + 1) .. Len(log) : log[j].user # callerOf[r]
    BY PositionFound DEF AdminsInv, TypeOK, Latest
<1> QED BY <1>1, <1>2, AdminsAssumption

\* Saving the caller, in both of its writes.
LEMMA SaveStep ==
    ASSUME AdminsInv, NEW r \in Requests, SaveCaller(r) \/ PatchStatus(r)
    PROVE  AdminsInv' /\ Admins' = Admins
<1>1. pc[r] \in {"save", "patchStatus"} /\ caller[r] > 0
      /\ UNCHANGED <<cache, target, grants, crossed, lapsed>> /\ saves' \in 0 .. MaxSaves
    BY AdminsAssumption DEF SaveCaller, PatchStatus, Goto, AdminsInv, TypeOK
<1>2. CASE log' = log
    <2>1. /\ UNCHANGED <<log, caller>>
          /\ pc' = [pc EXCEPT ![r] = "endpoint"]
        <3>1. \A v : Append(log, v) # log
            BY DEF AdminsInv, TypeOK
        <3> QED BY <1>2, <3>1 DEF SaveCaller, PatchStatus, Goto
    <2>2. TypeOK' /\ RequestsInformed'
        BY <1>1, <2>1 DEF AdminsInv, TypeOK, Positions, RequestsInformed
    <2>3. Admins' = Admins
        BY <2>1 DEF Admins, Latest, Position
    <2>4. GroupMakesAdmin' /\ AdminLeft'
        BY <1>1, <2>1, <2>3 DEF AdminsInv, GroupMakesAdmin, AdminLeft
    <2> QED BY <2>2, <2>3, <2>4 DEF AdminsInv
<1>3. CASE log' # log
    <2> DEFINE v == log[Latest(callerOf[r])]
    <2>1. /\ log' = Append(log, v)
          /\ caller' = [caller EXCEPT ![r] = Len(log) + 1]
          /\ \E to \in {"patchStatus", "endpoint"} : pc' = [pc EXCEPT ![r] = to]
        BY <1>3 DEF SaveCaller, PatchStatus, Goto, HoldCaller
    <2>2. /\ Admins' = Admins /\ v \in Versions /\ v.user = callerOf[r]
          /\ v.byGroup => v.isAdmin
        BY <1>1, <2>1, CallerIsKnown, SameRights
    <2>3. crossed' \in BOOLEAN /\ lapsed' \in BOOLEAN /\ grants' \in 0 .. MaxGrants
        BY <1>1 DEF AdminsInv, TypeOK
    <2> HIDE DEF v
    <2>4. TypeOK' /\ RequestsInformed'
        BY <1>1, <2>1, <2>2, <2>3, WriteTypes
    <2>5. GroupMakesAdmin'
        BY <2>1, <2>2, WriteKeeps
    <2>6. log # <<>>
        BY <1>1 DEF AdminsInv, TypeOK, Positions
    <2>7. AdminLeft'
        BY <1>1, <2>2, <2>6 DEF AdminsInv, AdminLeft
    <2> QED BY <2>2, <2>4, <2>5, <2>7 DEF AdminsInv
<1> QED BY <1>2, <1>3
\* The administrators after the Update in SetAdmin that succeeds.
LEMMA UpdatedTarget ==
    ASSUME AdminsInv, NEW r \in Requests, UpdateTarget(r), log' # log
    PROVE  LET t == target[r]
               v == [log[t.position] EXCEPT !.isAdmin = t.isAdmin, !.elected = FALSE]
           IN  /\ pc[r] = "update" /\ pc' = [pc EXCEPT ![r] = "done"]
               /\ log' = Append(log, v) /\ v \in Versions
               /\ v.user # callerOf[r] /\ (v.byGroup => v.isAdmin)
               /\ v.isAdmin = t.isAdmin /\ Latest(v.user) = t.position
               /\ v.byGroup = log[t.position].byGroup
               /\ Admins' = IF t.isAdmin THEN Admins \cup {v.user} ELSE Admins \ {v.user}
               /\ crossed' = (crossed \/ (~t.isAdmin /\ callerOf[r] \notin Admins))
               /\ lapsed' = (lapsed /\ ~t.isAdmin)
<1> DEFINE t == target[r]
           old == log[t.position]
           v == [old EXCEPT !.isAdmin = t.isAdmin, !.elected = FALSE]
<1>1. /\ pc[r] = "update" /\ pc' = [pc EXCEPT ![r] = "done"]
      /\ log' = Append(log, v) /\ t.position = Latest(old.user)
      /\ crossed' = (crossed \/ (~t.isAdmin /\ callerOf[r] \notin Admins))
      /\ lapsed' = (lapsed /\ ~t.isAdmin)
    BY DEF UpdateTarget, Goto
<1>2. t.position \in 1 .. Len(log) /\ t.isAdmin \in BOOLEAN
    BY <1>1 DEF AdminsInv, TypeOK, Positions
<1>3. old \in Versions
    BY <1>2 DEF AdminsInv, TypeOK
<1>4. old.user # callerOf[r] /\ (old.byGroup => t.isAdmin)
    BY <1>1 DEF AdminsInv, RequestsInformed
<1>5. /\ v \in Versions /\ v.user = old.user /\ v.byGroup = old.byGroup
      /\ v.isAdmin = t.isAdmin
    BY <1>2, <1>3 DEF Versions
<1> HIDE DEF v
<1>6. Admins' = IF v.isAdmin THEN Admins \cup {v.user} ELSE Admins \ {v.user}
    BY <1>1, <1>5, AdminsAfter DEF AdminsInv, TypeOK
<1>7. v.byGroup => v.isAdmin
    BY <1>4, <1>5
<1> QED BY <1>1, <1>4, <1>5, <1>6, <1>7 DEF v

\* The Update of an administrator keeps the invariant.
LEMMA UpdateStep ==
    ASSUME AdminsInv, NEW r \in Requests, UpdateTarget(r)
    PROVE  AdminsInv'
<1>0. /\ UNCHANGED <<cache, grants, saves>>
      /\ caller' = [caller EXCEPT ![r] = 0] /\ target' = [target EXCEPT ![r] = NoTarget]
    BY DEF UpdateTarget, Forget, HoldCaller
<1>1. CASE log' = log
    <2>1. pc' = [pc EXCEPT ![r] = "failed"] /\ UNCHANGED <<crossed, lapsed>>
        <3>1. \A v : Append(log, v) # log
            BY DEF AdminsInv, TypeOK
        <3> QED BY <1>1, <3>1 DEF UpdateTarget, Goto
    <2>2. TypeOK' /\ RequestsInformed'
        BY <1>0, <1>1, <2>1 DEF AdminsInv, TypeOK, Positions, RequestsInformed, NoTarget
    <2>3. GroupMakesAdmin' /\ AdminLeft'
        BY <1>1, <2>1 DEF AdminsInv, GroupMakesAdmin, AdminLeft, Admins, Latest, Position
    <2> QED BY <2>2, <2>3 DEF AdminsInv
<1>2. CASE log' # log
    <2> DEFINE t == target[r]
               v == [log[t.position] EXCEPT !.isAdmin = t.isAdmin, !.elected = FALSE]
    <2>1. /\ pc[r] = "update" /\ pc' = [pc EXCEPT ![r] = "done"]
          /\ log' = Append(log, v) /\ v \in Versions
          /\ v.user # callerOf[r] /\ (v.byGroup => v.isAdmin)
          /\ Admins' = IF t.isAdmin THEN Admins \cup {v.user} ELSE Admins \ {v.user}
          /\ crossed' = (crossed \/ (~t.isAdmin /\ callerOf[r] \notin Admins))
          /\ lapsed' = (lapsed /\ ~t.isAdmin)
        BY <1>2, UpdatedTarget
    <2> HIDE DEF v
    <2>2. /\ crossed' \in BOOLEAN /\ lapsed' \in BOOLEAN
          /\ grants' \in 0 .. MaxGrants /\ saves' \in 0 .. MaxSaves
        BY <1>0, <2>1 DEF AdminsInv, TypeOK
    <2>3. TypeOK' /\ RequestsInformed'
        BY <1>0, <2>1, <2>2, WriteTypes
    <2>4. GroupMakesAdmin'
        BY <2>1, WriteKeeps
    <2>5. AdminLeft'
        <3>1. CASE t.isAdmin
            BY <2>1, <3>1 DEF AdminLeft
        <3>2. CASE ~t.isAdmin /\ callerOf[r] \in Admins
            BY <2>1, <3>2 DEF AdminLeft
        <3>3. CASE ~t.isAdmin /\ callerOf[r] \notin Admins
            BY <2>1, <3>3 DEF AdminLeft
        <3> QED BY <3>1, <3>2, <3>3
    <2> QED BY <2>3, <2>4, <2>5 DEF AdminsInv
<1> QED BY <1>1, <1>2

\* A version that is written for a user by the setting keeps what the requests
\* have found out.
LEMMA SettingStep ==
    ASSUME AdminsInv, NEW v \in Versions, log' = Append(log, v), v.byGroup => v.isAdmin,
           grants' \in 0 .. MaxGrants, lapsed' \in BOOLEAN,
           UNCHANGED <<cache, pc, caller, target, saves, crossed>>
    PROVE  TypeOK' /\ RequestsInformed' /\ GroupMakesAdmin'
<1>3. /\ GroupMakesAdmin'
      /\ \A i \in 1 .. Len(log) : log'[i] = log[i]
      /\ log' # <<>> /\ log' \in Seq(Versions)
      /\ Len(log') = Len(log) + 1 /\ Len(log) \in Nat
    BY WriteKeeps
<1>5. TypeOK'
    <2>1. cache' \in Positions' /\ Positions \subseteq Positions'
        BY <1>3 DEF AdminsInv, TypeOK, Positions
    <2>2. target' \in [Requests -> [position : Positions', isAdmin : BOOLEAN]]
        BY <2>1 DEF AdminsInv, TypeOK
    <2>3. caller' \in [Requests -> Positions']
        BY <2>1 DEF AdminsInv, TypeOK
    <2> QED BY <1>3, <2>1, <2>2, <2>3 DEF AdminsInv, TypeOK
<1>6. RequestsInformed'
    <2> SUFFICES ASSUME NEW q \in Requests
                 PROVE  /\ caller'[q] > 0 => log'[caller'[q]].user = callerOf[q]
                        /\ pc'[q] = "update" =>
                             LET old == log'[target'[q].position]
                             IN  old.user # callerOf[q] /\ (old.byGroup => target'[q].isAdmin)
        BY <1>3 DEF RequestsInformed
    <2>1. caller[q] \in 0 .. Len(log) /\ target[q].position \in 0 .. Len(log)
        BY DEF AdminsInv, TypeOK, Positions
    <2>2. caller'[q] > 0 => log'[caller'[q]].user = callerOf[q]
        BY <1>3, <2>1 DEF AdminsInv, RequestsInformed
    <2>3. ASSUME pc'[q] = "update"
          PROVE  LET old == log'[target'[q].position]
                 IN  old.user # callerOf[q] /\ (old.byGroup => target'[q].isAdmin)
        <3>1. pc[q] = "update" /\ target'[q] = target[q] /\ target[q].position > 0
            BY <2>3 DEF AdminsInv, TypeOK
        <3>2. log'[target'[q].position] = log[target[q].position]
            BY <1>3, <2>1, <3>1
        <3> QED BY <3>1, <3>2, Zenon DEF AdminsInv, RequestsInformed
    <2> QED BY <2>2, <2>3
<1> QED BY <1>3, <1>5, <1>6

\* Rights granted by group.
LEMMA GrantStep ==
    ASSUME AdminsInv, NEW u \in Users, GrantByGroup(u)
    PROVE  AdminsInv' /\ Admins' = Admins \cup {u}
<1> DEFINE v == [user |-> u, isAdmin |-> TRUE, byGroup |-> TRUE, elected |-> FALSE]
<1>1. /\ log' = Append(log, v) /\ grants' \in 0 .. MaxGrants
      /\ UNCHANGED <<cache, pc, caller, target, saves, crossed>>
    BY AdminsAssumption DEF GrantByGroup, AdminsInv, TypeOK
<1>2. lapsed' \in BOOLEAN
    BY DEF GrantByGroup
<1>3. v \in Versions /\ v.user = u /\ v.isAdmin
    BY DEF Versions
<1> HIDE DEF v
<1>4. Admins' = Admins \cup {u}
    BY <1>1, <1>3, AdminsAfter DEF AdminsInv, TypeOK
<1>5. TypeOK' /\ RequestsInformed' /\ GroupMakesAdmin'
    BY <1>1, <1>2, <1>3, SettingStep
<1>6. AdminLeft'
    BY <1>4 DEF AdminLeft
<1> QED BY <1>4, <1>5, <1>6 DEF AdminsInv

\* Rights revoked with the group: if they were the last ones, that is noted.
LEMMA RevokeStep ==
    ASSUME AdminsInv, NEW u \in Users, RevokeByGroup(u)
    PROVE  AdminsInv'
<1> DEFINE v == [user |-> u, isAdmin |-> FALSE, byGroup |-> FALSE, elected |-> FALSE]
<1>1. /\ log' = Append(log, v) /\ Latest(u) > 0
      /\ UNCHANGED <<cache, pc, caller, target, grants, saves, crossed>>
      /\ lapsed' = (lapsed \/ Admins = {u})
    BY DEF RevokeByGroup
<1>2. lapsed' \in BOOLEAN /\ grants' \in 0 .. MaxGrants
    BY <1>1 DEF AdminsInv, TypeOK
<1>3. v \in Versions /\ v.user = u /\ ~v.isAdmin /\ ~v.byGroup
    BY DEF Versions
<1> HIDE DEF v
<1>4. Admins' = Admins \ {u}
    BY <1>1, <1>3, AdminsAfter DEF AdminsInv, TypeOK
<1>5. TypeOK' /\ RequestsInformed' /\ GroupMakesAdmin'
    BY <1>1, <1>2, <1>3, SettingStep
<1>6. log # <<>>
    BY <1>1, PositionFound DEF AdminsInv, TypeOK, Latest
<1>7. Admins' = {} => Admins = {} \/ Admins = {u}
    BY <1>4
<1>8. AdminLeft'
    BY <1>1, <1>6, <1>7 DEF AdminsInv, AdminLeft
<1> QED BY <1>5, <1>8 DEF AdminsInv

\* The informer cache moves on, or nothing happens.
LEMMA SyncStep ==
    ASSUME AdminsInv, Sync \/ UNCHANGED vars
    PROVE  AdminsInv' /\ Admins' = Admins
<1>1. /\ UNCHANGED <<log, pc, caller, target, grants, saves, crossed, lapsed>>
      /\ cache' \in Positions
    BY DEF Sync, vars, AdminsInv, TypeOK, Positions
<1>2. TypeOK' /\ RequestsInformed'
    BY <1>1 DEF AdminsInv, TypeOK, Positions, RequestsInformed
<1>3. Admins' = Admins
    BY <1>1 DEF Admins, Latest, Position
<1>4. GroupMakesAdmin' /\ AdminLeft'
    BY <1>1, <1>3 DEF AdminsInv, GroupMakesAdmin, AdminLeft
<1> QED BY <1>2, <1>3, <1>4 DEF AdminsInv

\* Every step keeps the invariant.
LEMMA NextInv == AdminsInv /\ [Next]_vars => AdminsInv'
<1> SUFFICES ASSUME AdminsInv, [Next]_vars PROVE AdminsInv'
    OBVIOUS
<1>1. ASSUME NEW r \in Requests, Handle(r)
      PROVE  AdminsInv'
    BY <1>1, ReadStep, CreateStep, SaveStep, UpdateStep DEF Handle
<1>2. ASSUME NEW u \in Users, GrantByGroup(u) \/ RevokeByGroup(u)
      PROVE  AdminsInv'
    BY <1>2, GrantStep, RevokeStep
<1>3. CASE Sync \/ UNCHANGED vars
    BY <1>3, SyncStep
<1> QED BY <1>1, <1>2, <1>3 DEF Next

-----------------------------------------------------------------------------
\* The invariant holds throughout.
LEMMA InvHolds == Spec => []AdminsInv
<1> QED BY InitInv, NextInv, PTL DEF Spec

\* Once there are users there is an administrator, unless a demotion was
\* written for a caller who had lost the rights since UserSaver read them, or
\* the setting revoked the last ones: the election in CreateUser and the test
\* "can not change own privileges" suffice for the rest, whatever the caches
\* show.
THEOREM AdminIsLeft == Spec => []AdminLeft
<1>1. AdminsInv => AdminLeft
    BY DEF AdminsInv
<1> QED BY <1>1, InvHolds, PTL

\* The write-back of the caller's object by UserSaver changes nobody's
\* rights.
THEOREM SavingIsHarmless == Spec => SavingKeepsRights
<1>1. AdminsInv /\ [Next]_vars =>
         [\A r \in Requests : SaveCaller(r) => Admins' = Admins]_vars
    BY SaveStep
<1> QED BY <1>1, InvHolds, PTL DEF Spec, SavingKeepsRights

\* An administrator by group keeps the rights until the group is removed, although
\* SetAdmin tests for the group on a version from the cache.
THEOREM GroupRightsAreKept == Spec => GroupRightsStay
<1>1. AdminsInv => GroupAdmins \subseteq Admins
    <2> SUFFICES ASSUME AdminsInv, NEW u \in Users, Latest(u) > 0, log[Latest(u)].byGroup
                 PROVE  u \in Admins
        BY DEF GroupAdmins
    <2>1. Latest(u) \in 1 .. Len(log)
        BY PositionFound DEF AdminsInv, TypeOK, Latest
    <2> QED BY <2>1 DEF AdminsInv, GroupMakesAdmin, Admins
<1>2. ASSUME AdminsInv, [Next]_vars
      PROVE  GroupAdmins \subseteq Admins' \/ \E u \in Users : RevokeByGroup(u)
    <2>0. GroupAdmins \subseteq Admins
        BY <1>1, <1>2
    <2>1. ASSUME NEW r \in Requests, Handle(r), log' = log
          PROVE  GroupAdmins \subseteq Admins'
        BY <2>0, <2>1, SMTT(60) DEF Admins, Latest, Position
    <2>2. ASSUME NEW r \in Requests, CreateCaller(r), log' # log
          PROVE  GroupAdmins \subseteq Admins'
        <3> DEFINE elected == pc[r] = "createAdmin"
                   v == [user |-> callerOf[r], isAdmin |-> elected,
                         byGroup |-> FALSE, elected |-> elected]
        <3>1. log' = Append(log, v) /\ Latest(callerOf[r]) = 0
            BY <2>2 DEF CreateCaller
        <3>2. v \in Versions /\ v.user = callerOf[r]
            BY AdminsAssumption DEF Versions
        <3> HIDE DEF v
        <3>3. Admins' = IF v.isAdmin THEN Admins \cup {callerOf[r]} ELSE Admins \ {callerOf[r]}
            BY <1>2, <3>1, <3>2, AdminsAfter DEF AdminsInv, TypeOK
        <3>4. callerOf[r] \notin Admins
            BY <3>1 DEF Admins
        <3> QED BY <2>0, <3>3, <3>4
    <2>3. ASSUME NEW r \in Requests, SaveCaller(r) \/ PatchStatus(r)
          PROVE  GroupAdmins \subseteq Admins'
        BY <1>2, <2>0, <2>3, SaveStep
    <2>4. ASSUME NEW r \in Requests, UpdateTarget(r), log' # log
          PROVE  GroupAdmins \subseteq Admins'
        <3> DEFINE t == target[r]
                   v == [log[t.position] EXCEPT !.isAdmin = t.isAdmin, !.elected = FALSE]
        <3>1. /\ Admins' = IF t.isAdmin THEN Admins \cup {v.user} ELSE Admins \ {v.user}
              /\ (v.byGroup => v.isAdmin) /\ v.isAdmin = t.isAdmin
              /\ Latest(v.user) = t.position /\ v.byGroup = log[t.position].byGroup
            BY <1>2, <2>4, UpdatedTarget
        <3> HIDE DEF v
        <3>2. ~t.isAdmin => v.user \notin GroupAdmins
            BY <3>1 DEF GroupAdmins
        <3> QED BY <2>0, <3>1, <3>2
    <2>5. ASSUME NEW u \in Users, GrantByGroup(u)
          PROVE  GroupAdmins \subseteq Admins'
        BY <1>2, <2>0, <2>5, GrantStep
    <2>6. CASE Sync \/ UNCHANGED vars
        BY <1>2, <2>0, <2>6, SyncStep
    <2>7. ASSUME NEW r \in Requests, Handle(r), log' # log
          PROVE  CreateCaller(r) \/ SaveCaller(r) \/ PatchStatus(r) \/ UpdateTarget(r)
        BY <2>7 DEF Handle, GetCaller, ListUsers, SkipLastSeen, SaveUnchanged, SetAdmin
    <2> QED BY <1>2, <2>1, <2>2, <2>3, <2>4, <2>5, <2>6, <2>7 DEF Next
<1>3. AdminsInv /\ [Next]_vars => [GroupAdmins \subseteq Admins' \/ \E u \in Users : RevokeByGroup(u)]_vars
    BY <1>2
<1> QED BY <1>3, InvHolds, PTL DEF Spec, GroupRightsStay
=============================================================================
