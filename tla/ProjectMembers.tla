--------------------------- MODULE ProjectMembers ---------------------------
(***************************************************************************)
(* Projects and the bindings that make users members of them               *)
(* (modules/api/pkg/handler/v1/project/project.go, .../v1/user/user.go,    *)
(* modules/api/pkg/provider/kubernetes/member.go, project.go).             *)
(*                                                                         *)
(* Bindings have random names: nothing but the handlers' own reads keeps   *)
(* a user from having two in a project.  All versions of all bindings form *)
(* a log; the informer cache, from which memberships and rights are read,  *)
(* has a prefix of it.  A user is authorised by impersonation: the groups  *)
(* come from the cache, the API server decides by them.                    *)
(***************************************************************************)
EXTENDS Naturals, Sequences, FiniteSets

CONSTANTS
    Users,              \* e-mail addresses of people
    ServiceAccounts,    \* e-mail addresses of service accounts
    Admins,             \* people with IsAdmin
    Requests,           \* HTTP requests
    UserProjectsLimit,  \* the setting; 0 is no limit
    MaxProjects         \* bound on the projects created

ASSUME MembersAssumption ==
    /\ Users \cap ServiceAccounts = {}
    /\ Admins \subseteq Users
    /\ UserProjectsLimit \in Nat
    /\ MaxProjects \in Nat \ {0}

Callers == Users \cup ServiceAccounts
Roles == {"owners", "projectmanagers", "viewers"}
\* The RBAC controller lets these change the bindings of a project.
ManagingRoles == {"owners", "projectmanagers"}

VARIABLES
    log,       \* versions of the bindings; role "none" is a deletion
    cache,     \* length of the prefix the informer cache has
    projects,  \* status of each project, in the order of creation
    shown,     \* status of each project in the informer cache
    pc,        \* the step a request is at
    req,       \* what a request wants and has found out
    excused    \* why a project may lack a manager

vars == <<log, cache, projects, shown, pc, req, excused>>

NoRequest == [caller |-> "", op |-> "", project |-> 0, user |-> "", role |-> "",
              binding |-> 0, seen |-> 0, invited |-> {}]

-----------------------------------------------------------------------------
\* Positions of the current versions of the bindings among the first n
\* entries of the log, deleted ones left out.
Bindings(n) ==
    {i \in 1 .. n : /\ log[i].role # "none"
                    /\ \A j \in (i + 1) .. n : log[j].id # log[i].id}
BindingsOf(u, p, n) == {i \in Bindings(n) : log[i].user = u /\ log[i].project = p}

Stored == Len(log)
Existing == Bindings(Stored)
Managers(p) == {log[i].user : i \in {j \in Existing : /\ log[j].project = p
                                                      /\ log[j].role \in ManagingRoles}}

\* getUserBindingRole: the first binding in a list without order.
MappedRoles(u, p) ==
    LET found == BindingsOf(u, p, cache)
    IN  IF found = {} THEN {"none"} ELSE {log[i].role : i \in found}

NextId == Cardinality({log[i].id : i \in 1 .. Stored}) + 1

\* genBinding, or a new version of a binding; seen is how much of the log the
\* request had when it looked.
Write(id, p, u, role, seen) ==
    log' = Append(log, [id |-> id, project |-> p, user |-> u, role |-> role,
                        seen |-> seen])

\* One project with its owner; a service account may have been added to it.
Init ==
    /\ \E u \in Users, robots \in {<<>>} \cup {<<sa>> : sa \in ServiceAccounts} :
         log = [i \in 1 .. 1 + Len(robots) |->
                   [id |-> i, project |-> 1, seen |-> 0,
                    user |-> IF i = 1 THEN u ELSE robots[i - 1],
                    role |-> IF i = 1 THEN "owners" ELSE "projectmanagers"]]
    /\ cache = Stored
    /\ projects = <<"live">> /\ shown = <<"live">>
    /\ pc = [r \in Requests |-> "idle"]
    /\ req = [r \in Requests |-> NoRequest]
    /\ excused = {}

Goto(r, from, to) == pc[r] = from /\ pc' = [pc EXCEPT ![r] = to]
\* The answer is sent; nothing of the request is kept.
Finish(r, from) ==
    /\ Goto(r, from, "answered")
    /\ req' = [req EXCEPT ![r] = NoRequest]

-----------------------------------------------------------------------------
(* Creating a project.                                                     *)

\* What validateUserProjectsLimit counts: every binding of the user among
\* the first n entries is visited and adds all owner bindings the user has
\* in its project.  A project that is gone is skipped.
OwnerPairs(u, n) ==
    {e \in Bindings(n) \X Bindings(n) :
        /\ log[e[1]].user = u /\ log[e[2]].user = u
        /\ log[e[1]].project = log[e[2]].project
        /\ projects[log[e[1]].project] = "live"
        /\ log[e[2]].role = "owners"}
OwnedProjects(u, n) == Cardinality(OwnerPairs(u, n))

\* The comparison with the limit off by one.
BelowOrAtLimit(u) ==
    u \in Admins \/ UserProjectsLimit = 0 \/ OwnedProjects(u, cache) <= UserProjectsLimit

\* validateUserProjectsLimit
BelowLimit(u) ==
    u \in Admins \/ UserProjectsLimit = 0 \/ OwnedProjects(u, cache) < UserProjectsLimit

\* A service account must be a project manager and names the people who
\* will own the project; everybody else creates one for themselves.
MayCreate(c, invited) ==
    IF c \in ServiceAccounts
    THEN /\ invited # {}
         /\ \E i \in Bindings(cache) : log[i].user = c /\ log[i].role = "projectmanagers"
    ELSE invited = {}

\* CreateEndpoint and createProjectByServiceAccount up to the first write.
CheckLimit(r, c, invited) ==
    /\ MayCreate(c, invited)
    /\ BelowLimit(c)
    /\ Goto(r, "idle", "new")
    /\ req' = [req EXCEPT ![r] = [NoRequest EXCEPT !.caller = c, !.op = "create",
                                     !.seen = cache, !.invited = invited]]
    /\ UNCHANGED <<log, cache, projects, shown, excused>>

RefuseCreation(r, c) ==
    /\ MayCreate(c, {})
    /\ ~BelowLimit(c)
    /\ Finish(r, "idle")
    /\ UNCHANGED <<log, cache, projects, shown, excused>>

\* projectProvider.New
NewProject(r) ==
    /\ Len(projects) < MaxProjects
    /\ Goto(r, "new", "bind")
    /\ projects' = Append(projects, "live")
    /\ shown' = Append(shown, "unknown")
    /\ req' = [req EXCEPT ![r].project = Len(projects) + 1]
    /\ UNCHANGED <<log, cache, excused>>

\* The binding of the creator.  A service account goes on with the people
\* it invited, who get its own group.
BindCreator(r) ==
    /\ LET q == req[r]
           sa == q.caller \in ServiceAccounts
       IN  /\ Write(NextId, q.project, q.caller,
                    IF sa THEN "projectmanagers" ELSE "owners", q.seen)
           /\ IF sa THEN Goto(r, "bind", "invite") /\ UNCHANGED req ELSE Finish(r, "bind")
    /\ UNCHANGED <<cache, projects, shown, excused>>

BindInvited(r, u) ==
    /\ u \in req[r].invited
    /\ Write(NextId, req[r].project, u, "projectmanagers", req[r].seen)
    /\ IF req[r].invited = {u}
       THEN Finish(r, "invite")
       ELSE Goto(r, "invite", "invite") /\ req' = [req EXCEPT ![r].invited = @ \ {u}]
    /\ UNCHANGED <<cache, projects, shown, excused>>

\* A call fails or the server stops.  What has been written stays.
CreationFails(r) ==
    /\ Finish(r, "new") \/ Finish(r, "bind") \/ Finish(r, "invite")
    /\ excused' = excused \cup {[project |-> req[r].project, why |-> "unfinished"]}
    /\ UNCHANGED <<log, cache, projects, shown>>

-----------------------------------------------------------------------------
(* Members.                                                                *)

\* Validate and the check of DeleteEndpoint: nobody changes their own
\* membership, administrators may add and edit themselves.
MayChangeAnyone(c, u, op) == TRUE
MayChange(c, u, op) == u # c \/ (c \in Admins /\ op # "delete")

\* GetProject and, for all but administrators, the impersonated Get of the
\* first binding in the list: the project is known, the caller's group may
\* read it, and that binding still exists.
Permitted(c, p) ==
    LET listed == {i \in Bindings(cache) : log[i].project = p /\ log[i].user \in Users}
    IN  /\ shown[p] = "live"
        /\ c \notin Admins =>
             /\ projects[p] = "live"
             /\ MappedRoles(c, p) \cap ManagingRoles # {}
             /\ \/ listed = {}
                \/ \E i \in listed, j \in Existing : log[i].id = log[j].id

\* getMemberList with the user's e-mail: at most the first match is in it.
MemberList(u, p) == BindingsOf(u, p, cache)

Member(r, c, op, p, u, role, binding) ==
    /\ Goto(r, "idle", "write")
    /\ req' = [req EXCEPT ![r] = [NoRequest EXCEPT !.caller = c, !.op = op, !.project = p,
                                     !.user = u, !.role = role, !.binding = binding,
                                     !.seen = cache]]
    /\ UNCHANGED <<log, cache, projects, shown, excused>>

AddUnlisted(r, c, p, u, role) ==
    /\ Permitted(c, p) /\ MayChange(c, u, "add")
    /\ Member(r, c, "add", p, u, role, 0)

\* AddEndpoint up to the write: the user is not a member yet.
Add(r, c, p, u, role) ==
    /\ Permitted(c, p) /\ MayChange(c, u, "add")
    /\ MemberList(u, p) = {}
    /\ Member(r, c, "add", p, u, role, 0)

\* EditEndpoint up to the write, with the binding that List returned.
Edit(r, c, p, u, role) ==
    /\ Permitted(c, p) /\ MayChange(c, u, "edit")
    /\ \E i \in MemberList(u, p) : Member(r, c, "edit", p, u, role, i)

\* DeleteEndpoint up to the write.
Delete(r, c, p, u) ==
    /\ Permitted(c, p) /\ MayChange(c, u, "delete")
    /\ \E i \in MemberList(u, p) : Member(r, c, "delete", p, u, "none", i)

\* The API server takes the write from an administrator, or from a user
\* whose group, read from the cache once more, manages the project.
Authorised(c, p) == c \in Admins \/ MappedRoles(c, p) \cap ManagingRoles # {}

\* An administrator, or someone who has lost the rights meanwhile, may
\* take the last manager away.
Excuse(caller, project) ==
    \E c \in {caller}, p \in {project} :
        excused' = excused \cup
            {e \in [project : {p}, why : {"admin", "crossed"}] :
                /\ Managers(p)' = {}
                /\ IF e.why = "admin" THEN c \in Admins ELSE c \notin Managers(p)}

\* createBinding: a random name, so nothing can collide.
CreateBinding(r) ==
    /\ req[r].op = "add" /\ Authorised(req[r].caller, req[r].project)
    /\ Finish(r, "write")
    /\ Write(NextId, req[r].project, req[r].user, req[r].role, req[r].seen)
    /\ UNCHANGED <<cache, projects, shown, excused>>

\* The current version of the binding a request has found, if it exists.
Current(r) == {i \in Existing : log[i].id = log[req[r].binding].id}

\* The Update without the resource version.
UpdateBindingBlindly(r) ==
    /\ req[r].op = "edit" /\ Authorised(req[r].caller, req[r].project)
    /\ Current(r) # {}
    /\ Finish(r, "write")
    /\ LET b == log[req[r].binding]
       IN  Write(b.id, b.project, b.user, req[r].role, req[r].seen)
    /\ Excuse(req[r].caller, req[r].project)
    /\ UNCHANGED <<cache, projects, shown>>

\* updateBinding: the version that was read must be the current one.
UpdateBinding(r) ==
    /\ req[r].op = "edit" /\ Authorised(req[r].caller, req[r].project)
    /\ req[r].binding \in Current(r)
    /\ Finish(r, "write")
    /\ LET b == log[req[r].binding]
       IN  Write(b.id, b.project, b.user, req[r].role, req[r].seen)
    /\ Excuse(req[r].caller, req[r].project)
    /\ UNCHANGED <<cache, projects, shown>>

\* deleteBinding: by name, whatever the version.
DeleteBinding(r) ==
    /\ req[r].op = "delete" /\ Authorised(req[r].caller, req[r].project)
    /\ Current(r) # {}
    /\ Finish(r, "write")
    /\ LET b == log[req[r].binding]
       IN  Write(b.id, b.project, b.user, "none", req[r].seen)
    /\ Excuse(req[r].caller, req[r].project)
    /\ UNCHANGED <<cache, projects, shown>>

\* A conflict, a missing object, missing rights or a failed call.
WriteFails(r) ==
    /\ Finish(r, "write")
    /\ UNCHANGED <<log, cache, projects, shown, excused>>

-----------------------------------------------------------------------------
\* DeleteEndpoint of projects.  A controller outside this repository
\* removes the bindings later, or keeps them.
DeleteProject(r, c, p) ==
    /\ projects[p] = "live"
    /\ IF c \in Admins THEN shown[p] = "live" ELSE "owners" \in MappedRoles(c, p)
    /\ Finish(r, "idle")
    /\ projects' = [projects EXCEPT ![p] = "deleted"]
    /\ UNCHANGED <<log, cache, shown, excused>>

\* The informers deliver.
SyncBindings ==
    /\ cache < Stored
    /\ cache' = cache + 1
    /\ UNCHANGED <<log, projects, shown, pc, req, excused>>

SyncProject(p) ==
    /\ shown[p] # projects[p]
    /\ shown' = [shown EXCEPT ![p] = projects[p]]
    /\ UNCHANGED <<log, cache, projects, pc, req, excused>>

Known == 1 .. Len(projects)

Ask(r) ==
    /\ pc[r] = "idle"
    /\ \E c \in Callers :
         \/ \E invited \in SUBSET Users : CheckLimit(r, c, invited)
         \/ RefuseCreation(r, c)
         \/ \E p \in Known, u \in Users, role \in Roles :
              Add(r, c, p, u, role) \/ Edit(r, c, p, u, role)
         \/ \E p \in Known, u \in Users : Delete(r, c, p, u)
         \/ \E p \in Known : DeleteProject(r, c, p)

Handle(r) ==
    \/ Ask(r)
    \/ NewProject(r)
    \/ pc[r] = "bind" /\ BindCreator(r)
    \/ \E u \in Users : pc[r] = "invite" /\ BindInvited(r, u)
    \/ CreationFails(r)
    \/ pc[r] = "write" /\ (CreateBinding(r) \/ UpdateBinding(r) \/ DeleteBinding(r))
    \/ WriteFails(r)

Next ==
    \/ \E r \in Requests : Handle(r)
    \/ SyncBindings
    \/ \E p \in Known : SyncProject(p)

Spec == Init /\ [][Next]_vars

-----------------------------------------------------------------------------
Versions == [id : Nat \ {0}, project : Nat \ {0}, user : Callers,
             role : Roles \cup {"none"}, seen : Nat]
RequestData ==
    [caller : Callers \cup {""}, op : {"", "create", "add", "edit", "delete"},
     project : Nat, user : Users \cup {""}, role : Roles \cup {"none", ""},
     binding : Nat, seen : Nat, invited : SUBSET Users]

TypeOK ==
    /\ log \in Seq(Versions)
    /\ \A i \in 1 .. Stored : log[i].project \in Known
    /\ cache \in 0 .. Stored
    /\ projects \in Seq({"live", "deleted"})
    /\ shown \in [Known -> {"live", "deleted", "unknown"}]
    /\ pc \in [Requests -> {"idle", "new", "bind", "invite", "write", "answered"}]
    /\ req \in [Requests -> RequestData]
    /\ excused \subseteq [project : Nat, why : {"unfinished", "admin", "crossed"}]

\* Where a binding was created.
Created(i) == CHOOSE j \in 1 .. i : /\ log[j].id = log[i].id
                                    /\ \A k \in 1 .. (j - 1) : log[k].id # log[i].id

\* A user gets a second binding in a project only from a request that
\* looked before the first one was created, or in a cache that did not
\* show it.  What a request can see it never duplicates, whatever edits,
\* removals and creations of projects come in between.
DuplicatesOnlyUnseen ==
    \A i, j \in Existing :
        /\ log[i].user = log[j].user /\ log[i].project = log[j].project
        /\ log[i].id < log[j].id
        => log[Created(j)].seen < Created(i)

\* Whoever was removed is not brought back by an edit that found the
\* binding before.
RemovedStaysRemoved ==
    \A i, j \in 1 .. Stored :
        i < j /\ log[i].id = log[j].id => log[i].role # "none"

\* Nobody's change of a role is overwritten by an edit made without knowing
\* of it: whoever writes a binding over an earlier version of it had that
\* version in the cache when deciding.  Only removals, by name, go over what
\* they have not seen.
EditsAreSeen ==
    \A i, j \in 1 .. Stored :
        i < j /\ log[i].id = log[j].id /\ log[j].role # "none" => i <= log[j].seen

\* The names in use are the first n, and a binding keeps its user and its
\* project.
NamesCount ==
    /\ \E n \in 0 .. Stored :
         /\ \A i \in 1 .. Stored : log[i].id \in 1 .. n
         /\ \A id \in 1 .. n : \E i \in 1 .. Stored : log[i].id = id
    /\ \A i, j \in 1 .. Stored :
         log[i].id = log[j].id => log[i].user = log[j].user /\ log[i].project = log[j].project

\* What a request that is about to write has found out, and still holds
\* though the log has grown: the project it creates is new to what it saw,
\* the member it adds was none, the binding it changes is another user's.
Informed(r) ==
    LET q == req[r] IN
    /\ pc[r] \in {"new", "bind", "invite", "write"} =>
         q.caller \in Callers /\ q.seen \in 0 .. Stored
    /\ pc[r] \in {"bind", "invite", "write"} => q.project \in Known
    /\ pc[r] \in {"bind", "invite"} =>
         \A i \in 1 .. q.seen : log[i].project # q.project
    /\ pc[r] = "write" =>
         /\ q.user \in Users
         /\ q.user = q.caller => q.caller \in Admins
         /\ q.op \in {"add", "edit"} => q.role \in Roles
         /\ q.op = "add" => BindingsOf(q.user, q.project, q.seen) = {}
         /\ q.op # "add" => /\ q.binding \in 1 .. q.seen
                            /\ log[q.binding].user = q.user
                            /\ log[q.binding].project = q.project
RequestsInformed == \A r \in Requests : Informed(r)

\* The inductive invariant: removals are final and edits are seen, and with
\* it what names and requests keep to.
MembersInv ==
    TypeOK /\ NamesCount /\ RemovedStaysRemoved /\ EditsAreSeen /\ RequestsInformed

\* An existing project has somebody who can manage its members, since
\* nobody can remove or demote themselves, unless an administrator
\* interfered, two managers crossed, or its creation stopped halfway.
ManagerLeft ==
    \A p \in Known :
        projects[p] = "live" /\ Managers(p) = {} =>
            \/ \E e \in excused : e.project = p
            \/ \E r \in Requests : pc[r] = "bind" /\ req[r].project = p

\* A request that goes on was below the limit, and is so in what it saw.
LimitChecked ==
    \A r \in Requests :
        /\ pc[r] \in {"new", "bind"} /\ req[r].caller \in Users \ Admins
        /\ UserProjectsLimit > 0
        => OwnedProjects(req[r].caller, req[r].seen) < UserProjectsLimit

Owned(u) == {p \in Known : /\ projects[p] = "live"
                           /\ \E i \in BindingsOf(u, p, Stored) : log[i].role = "owners"}

\* A request that checked the limit on current bindings, none of which
\* changed before it made its caller the owner, respects the limit.
LimitExceededOnlyByRace ==
    [][\A r \in Requests, u \in Users \ Admins :
         /\ pc[r] = "bind" /\ BindCreator(r)
         /\ req[r].caller = u /\ req[r].seen = Stored
         /\ UserProjectsLimit > 0
         => Cardinality(Owned(u)') <= UserProjectsLimit]_vars

\* "DeleteEndpoint deletes the given user/member from the given project."
RemovedMemberIsOut ==
    [][\A r \in Requests, u \in Users, p \in Known :
         /\ pc[r] = "write" /\ req[r].user = u /\ req[r].project = p
         /\ DeleteBinding(r)
         => BindingsOf(u, p, Stored)' = {}]_vars
=============================================================================
