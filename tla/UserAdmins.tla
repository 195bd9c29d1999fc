----------------------------- MODULE UserAdmins -----------------------------
(***************************************************************************)
(* Who is an administrator: the election of the first user                 *)
(* (CreateUser in modules/api/pkg/provider/kubernetes/user.go), changes by *)
(* other administrators (SetAdmin in .../kubernetes/admin.go), and the     *)
(* write-back of the caller's own user object by the UserSaver middleware. *)
(*                                                                         *)
(* All versions of all user objects form one log in the order in which     *)
(* they were written; the informer cache has a prefix of it.  The          *)
(* resourceVersion of an object is the position of its latest entry.       *)
(***************************************************************************)
EXTENDS Naturals, Sequences, FiniteSets

CONSTANTS
    Users,      \* e-mail addresses
    Requests,   \* HTTP requests
    callerOf,   \* the authenticated user of a request
    MaxGrants,  \* bound on the rights granted by group
    MaxSaves    \* bound on the updates of LastSeen

ASSUME AdminsAssumption ==
    /\ callerOf \in [Requests -> Users]
    /\ MaxGrants \in Nat
    /\ MaxSaves \in Nat

VARIABLES
    log,      \* versions of the user objects
    cache,    \* length of the prefix the informer cache has
    pc,       \* the step a request is at
    caller,   \* position of the caller's version a request holds
    target,   \* position of the version SetAdmin is about to replace
                \* and whether it becomes an admin
    grants,   \* grants by group so far
    saves,    \* updates of LastSeen so far
    crossed,  \* a demotion was written for a caller demoted meanwhile
    lapsed    \* the last rights were taken away with a group

vars == <<log, cache, pc, caller, target, grants, saves, crossed, lapsed>>

-----------------------------------------------------------------------------
\* Position of u's latest version among the first n entries, 0 if none.
Position(u, n) ==
    CHOOSE i \in 0 .. n : /\ i > 0 => log[i].user = u
                          /\ \A j \in (i + 1) .. n : log[j].user # u
Latest(u) == Position(u, Len(log))
Admins == {u \in Users : Latest(u) > 0 /\ log[Latest(u)].isAdmin}

NoTarget == [position |-> 0, isAdmin |-> FALSE]

Init ==
    /\ log = <<>> /\ cache = 0
    /\ pc = [r \in Requests |-> "idle"]
    /\ caller = [r \in Requests |-> 0]
    /\ target = [r \in Requests |-> NoTarget]
    /\ grants = 0 /\ saves = 0 /\ crossed = FALSE /\ lapsed = FALSE

Goto(r, from, to) == pc[r] = from /\ pc' = [pc EXCEPT ![r] = to]
HoldCaller(r, position) == caller' = [caller EXCEPT ![r] = position]
\* The answer is sent; nothing of the request is kept.
Forget(r) ==
    /\ HoldCaller(r, 0)
    /\ target' = [target EXCEPT ![r] = NoTarget]

-----------------------------------------------------------------------------
(* UserSaver.                                                              *)

\* UserByEmail, before CreateUser and again after its AlreadyExists.
GetCaller(r) ==
    /\ LET found == Position(callerOf[r], cache)
       IN  /\ \/ Goto(r, "idle", IF found > 0 THEN "save" ELSE "list")
              \/ Goto(r, "getAgain", IF found > 0 THEN "save" ELSE "failed")
           /\ HoldCaller(r, found)
    /\ UNCHANGED <<log, cache, target, grants, saves, crossed, lapsed>>

\* The List in CreateUser: no user at all makes the new one an admin.
ListUsers(r) ==
    /\ Goto(r, "list", IF cache = 0 THEN "createAdmin" ELSE "create")
    /\ UNCHANGED <<log, cache, caller, target, grants, saves, crossed, lapsed>>

CreateCaller(r) ==
    /\ IF Latest(callerOf[r]) = 0
       THEN /\ Goto(r, "createAdmin", "save") \/ Goto(r, "create", "save")
            /\ LET elected == pc[r] = "createAdmin"
               IN  log' = Append(log, [user |-> callerOf[r], isAdmin |-> elected,
                                       byGroup |-> FALSE, elected |-> elected])
            /\ HoldCaller(r, Len(log) + 1)
       ELSE /\ Goto(r, "createAdmin", "getAgain") \/ Goto(r, "create", "getAgain")
            /\ UNCHANGED <<log, caller>>
    /\ UNCHANGED <<cache, target, grants, saves, crossed, lapsed>>

\* LastSeen is less than a minute old.  It is not kept here: a request may
\* save it or not.
SkipLastSeen(r) ==
    /\ Goto(r, "save", "endpoint")
    /\ UNCHANGED <<log, cache, caller, target, grants, saves, crossed, lapsed>>

\* The object is written whatever its version.
SaveCallerBlindly(r) ==
    /\ saves < MaxSaves /\ saves' = saves + 1
    /\ Goto(r, "save", "patchStatus")
    /\ log' = Append(log, log[caller[r]])
    /\ HoldCaller(r, Len(log) + 1)
    /\ UNCHANGED <<cache, target, grants, crossed, lapsed>>

\* The Update in UpdateUser of an object that already has the token's
\* groups: the API server makes no new version of it.
SaveUnchanged(r) ==
    /\ saves < MaxSaves /\ saves' = saves + 1
    /\ caller[r] = Latest(callerOf[r])
    /\ Goto(r, "save", "patchStatus")
    /\ UNCHANGED <<log, cache, caller, target, grants, crossed, lapsed>>

\* The Update in UpdateUser writes the whole object back; a conflict is
\* ignored and the request goes on with the version it read.
SaveCaller(r) ==
    /\ saves < MaxSaves /\ saves' = saves + 1
    /\ IF caller[r] = Latest(callerOf[r])
       THEN /\ Goto(r, "save", "patchStatus")
            /\ log' = Append(log, log[caller[r]])
            /\ HoldCaller(r, Len(log) + 1)
       ELSE /\ Goto(r, "save", "endpoint")
            /\ UNCHANGED <<log, caller>>
    /\ UNCHANGED <<cache, target, grants, crossed, lapsed>>

\* The status patch in UpdateUser: it names no version, leaves the rights
\* alone and returns the latest object.
PatchStatus(r) ==
    /\ Goto(r, "patchStatus", "endpoint")
    /\ log' = Append(log, log[Latest(callerOf[r])])
    /\ HoldCaller(r, Len(log) + 1)
    /\ UNCHANGED <<cache, target, grants, saves, crossed, lapsed>>

-----------------------------------------------------------------------------
(* SetAdminEndpoint.                                                       *)

\* "can not change own privileges" left out.
MayChangeAnyone(r, u) == log[caller[r]].isAdmin

\* The caller's rights are those of the version UserSaver put in the
\* context.
MayChange(r, u) == log[caller[r]].isAdmin /\ u # callerOf[r]

\* SetAdmin up to its Update: rights granted by group are not revoked.
SetAdmin(r, u, isAdmin) ==
    /\ LET found == Position(u, cache)
           ok == /\ MayChange(r, u)
                 /\ found > 0
                 /\ ~isAdmin => ~log[found].byGroup
       IN  \/ /\ ok
              /\ Goto(r, "endpoint", "update")
              /\ target' = [target EXCEPT ![r] = [position |-> found, isAdmin |-> isAdmin]]
              /\ UNCHANGED caller
           \/ ~ok /\ Goto(r, "endpoint", "failed") /\ Forget(r)
    /\ UNCHANGED <<log, cache, grants, saves, crossed, lapsed>>

\* The Update without the version that was read.
UpdateTargetBlindly(r) ==
    /\ LET t == target[r]
       IN  /\ Goto(r, "update", "done")
           /\ log' = Append(log, [log[t.position] EXCEPT !.isAdmin = t.isAdmin,
                                                         !.elected = FALSE])
           /\ crossed' = (crossed \/ (~t.isAdmin /\ callerOf[r] \notin Admins))
           /\ lapsed' = (lapsed /\ ~t.isAdmin)
    /\ Forget(r)
    /\ UNCHANGED <<cache, grants, saves>>

\* The Update in SetAdmin.
UpdateTarget(r) ==
    /\ LET t == target[r]
           u == log[t.position].user
       IN  IF t.position = Latest(u)
           THEN /\ Goto(r, "update", "done")
                /\ log' = Append(log, [log[t.position] EXCEPT !.isAdmin = t.isAdmin,
                                                              !.elected = FALSE])
                /\ crossed' = (crossed \/ (~t.isAdmin /\ callerOf[r] \notin Admins))
                /\ lapsed' = (lapsed /\ ~t.isAdmin)
           ELSE /\ Goto(r, "update", "failed")
                /\ UNCHANGED <<log, crossed, lapsed>>
    /\ Forget(r)
    /\ UNCHANGED <<cache, grants, saves>>

-----------------------------------------------------------------------------
\* The admin groups setting gives a known user the rights.
GrantByGroup(u) ==
    /\ grants < MaxGrants /\ grants' = grants + 1
    /\ Latest(u) > 0
    /\ log' = Append(log, [user |-> u, isAdmin |-> TRUE, byGroup |-> TRUE,
                           elected |-> FALSE])
    /\ lapsed' = FALSE
    /\ UNCHANGED <<cache, pc, caller, target, saves, crossed>>

\* The group is removed from the setting, which is how rights by group are
\* revoked: nothing there asks who else has any.
RevokeByGroup(u) ==
    /\ Latest(u) > 0 /\ log[Latest(u)].byGroup
    /\ log' = Append(log, [user |-> u, isAdmin |-> FALSE, byGroup |-> FALSE,
                           elected |-> FALSE])
    /\ lapsed' = (lapsed \/ Admins = {u})
    /\ UNCHANGED <<cache, pc, caller, target, grants, saves, crossed>>

Sync ==
    /\ cache < Len(log)
    /\ cache' = cache + 1
    /\ UNCHANGED <<log, pc, caller, target, grants, saves, crossed, lapsed>>

Handle(r) ==
    \/ GetCaller(r) \/ ListUsers(r) \/ CreateCaller(r) \/ SkipLastSeen(r)
    \/ SaveUnchanged(r) \/ SaveCaller(r) \/ PatchStatus(r)
    \/ \E u \in Users, isAdmin \in BOOLEAN : pc[r] = "endpoint" /\ SetAdmin(r, u, isAdmin)
    \/ pc[r] = "update" /\ UpdateTarget(r)

Next ==
    \/ \E r \in Requests : Handle(r)
    \/ \E u \in Users : GrantByGroup(u) \/ RevokeByGroup(u)
    \/ Sync

Spec == Init /\ [][Next]_vars

-----------------------------------------------------------------------------
Versions == [user : Users, isAdmin : BOOLEAN, byGroup : BOOLEAN, elected : BOOLEAN]
Positions == 0 .. Len(log)

\* No step uses a version it has not found.
TypeOK ==
    /\ log \in Seq(Versions)
    /\ cache \in Positions
    /\ pc \in [Requests -> {"idle", "list", "createAdmin", "create", "getAgain",
                            "save", "patchStatus", "endpoint", "update",
                            "failed", "done"}]
    /\ caller \in [Requests -> Positions]
    /\ target \in [Requests -> [position : Positions, isAdmin : BOOLEAN]]
    /\ \A r \in Requests :
         /\ pc[r] \in {"save", "patchStatus", "endpoint", "update"} => caller[r] > 0
         /\ pc[r] = "update" => target[r].position > 0
    /\ grants \in 0 .. MaxGrants
    /\ saves \in 0 .. MaxSaves
    /\ crossed \in BOOLEAN /\ lapsed \in BOOLEAN

\* Without an administrator nobody could ever be made one again, except by
\* group.  The election and the ban on changing one's own rights keep one,
\* unless a demotion was written for a caller who had been demoted in
\* between, or the setting took the last rights away.
AdminLeft == log # <<>> /\ Admins = {} => crossed \/ lapsed

\* What a request has found out stays true of the log: a user who is to be
\* created without rights is not the first one, a version held for the caller
\* is one of the caller's, the version about to be replaced is not, and if it
\* is to lose its rights no group had granted them.
RequestsInformed ==
    \A r \in Requests :
        /\ pc[r] = "create" => log # <<>>
        /\ caller[r] > 0 => log[caller[r]].user = callerOf[r]
        /\ pc[r] = "update" =>
             LET old == log[target[r].position]
             IN  old.user # callerOf[r] /\ (old.byGroup => target[r].isAdmin)

\* Whoever has rights by group has them.
GroupMakesAdmin == \A i \in 1 .. Len(log) : log[i].byGroup => log[i].isAdmin

\* The inductive invariant: somebody with rights is left because requests
\* act on versions that exist and are not their caller's own.
AdminsInv == TypeOK /\ RequestsInformed /\ GroupMakesAdmin /\ AdminLeft

\* Saving LastSeen writes the caller's rights back as part of the object,
\* yet never changes who is an administrator, though the rights may have
\* been changed since the caller was read.
SavingKeepsRights == [][\A r \in Requests : SaveCaller(r) => Admins' = Admins]_vars

GroupAdmins == {u \in Users : Latest(u) > 0 /\ log[Latest(u)].byGroup}

\* Rights that a group grants are revoked only with the group: by no request,
\* also not of an administrator who read the user before the grant.
GroupRightsStay ==
    [][GroupAdmins \subseteq Admins' \/ \E u \in Users : RevokeByGroup(u)]_vars

\* "Elect the first user as admin": one user is elected.
OneUserIsElected ==
    Cardinality({log[i].user : i \in {j \in 1 .. Len(log) : log[j].elected}}) <= 1
=============================================================================
