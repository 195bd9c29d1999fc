------------------------------ MODULE UserWatch ------------------------------
(***************************************************************************)
(* Pushing user changes to browsers: the informer's event handler          *)
(* (modules/api/pkg/watcher/kubernetes/user.go), the publisher it feeds    *)
(* and the websocket writer that subscribes to it                          *)
(* (modules/api/pkg/handler/websocket/user.go).                            *)
(*                                                                         *)
(* The writer of a connection reads the user, sends it, subscribes and     *)
(* installs the close handler: four steps, while the informer delivers     *)
(* events one at a time and the peer may close at any moment.              *)
(*                                                                         *)
(* A subscription is filed under the hash of the e-mail address in the     *)
(* caller's token, as it is spelled there; an event is published under the *)
(* hash of the stored address, which CreateUser turned to lower case.      *)
(* Hashes that collide are left out.                                       *)
(***************************************************************************)
EXTENDS Integers, Sequences, FiniteSets

CONSTANTS
    Emails,       \* e-mail addresses as tokens spell them
    lower,        \* an address in lower case
    Users,        \* the addresses users are stored with
    Clients,      \* websocket connections
    emailOf,      \* the address in the token of a connection
    Settings,     \* what Spec holds besides the groups
    Groups,       \* values of Spec.Groups
    Tombstones,   \* whether the informer may miss a deletion
    MaxChanges,   \* bound on changes of user objects
    MaxFaults     \* bound on look-ups that fail

ASSUME WatchAssumption ==
    /\ Users \subseteq Emails
    /\ lower \in [Emails -> Users]
    /\ \A u \in Users : lower[u] = u
    /\ emailOf \in [Clients -> Emails]
    /\ "absent" \notin Settings   \* no Spec stands for no user
    /\ Tombstones \in BOOLEAN
    /\ MaxChanges \in Nat
    /\ MaxFaults \in Nat

VARIABLES
    store,    \* the user objects as readers see them
    queue,    \* events the informer has not handed to the watcher yet
    cache,    \* userCache of the watcher
    subs,     \* connections with a subscription
    pc,       \* where the writer of a connection is
    conn,     \* state of the connection
    initial,  \* initialUser.Spec of a writer
    shown,    \* the last message a client received
    missed,   \* the last change published since the read came before
              \* Subscribe, or the callback failed for it
    changes,  \* changes so far
    faults    \* failed look-ups so far

vars == <<store, queue, cache, subs, pc, conn, initial, shown, missed, changes, faults>>
objects == <<store, queue, changes, faults>>
writers == <<subs, pc, conn, initial, missed>>

-----------------------------------------------------------------------------
Specs == [settings : Settings, groups : Groups]
Absent == [settings |-> "absent", groups |-> "absent"]
Nothing == [settings |-> "nothing", groups |-> "nothing"]  \* no message yet
Null == [settings |-> "null", groups |-> "null"]           \* JSON null

\* The user UserByEmail finds: it compares addresses without their case.
userOf(c) == lower[emailOf[c]]

Init ==
    /\ store = [u \in Users |-> Absent]
    /\ queue = <<>>
    /\ cache = [u \in Users |-> Absent]
    /\ subs = {}
    /\ pc = [c \in Clients |-> "idle"]
    /\ conn = [c \in Clients |-> "none"]
    /\ initial = [c \in Clients |-> Absent]
    /\ shown = [c \in Clients |-> Nothing]
    /\ missed = [c \in Clients |-> FALSE]
    /\ changes = 0
    /\ faults = 0

-----------------------------------------------------------------------------
(* Changes of user objects, and the informer's notification of each.       *)

Change(u, spec, type) ==
    /\ changes < MaxChanges /\ changes' = changes + 1
    /\ store' = [store EXCEPT ![u] = spec]
    /\ queue' = Append(queue, [type |-> type, user |-> u, spec |-> spec])
    /\ UNCHANGED <<cache, shown, writers, faults>>

AddUser(u, spec) == store[u] = Absent /\ Change(u, spec, "add")

\* Also an update that leaves Spec alone, such as a new Status.LastSeen.
UpdateUser(u, spec) == store[u] # Absent /\ Change(u, spec, "update")

\* A deletion the informer missed is handed over as a tombstone.
DeleteUser(u) ==
    /\ store[u] # Absent
    /\ \/ Change(u, Absent, "delete")
       \/ Tombstones /\ Change(u, Absent, "tombstone")

-----------------------------------------------------------------------------
(* The watcher.                                                            *)

Fault == faults < MaxFaults /\ faults' = faults + 1
Silent == UNCHANGED <<shown, missed, faults>>

\* The path of a subscription is the address as the token spells it.
Subscribers(u) == {c \in subs : emailOf[c] = u}

\* The callback writes to the websocket and only logs an error if that is
\* closed.  The write has no deadline: to a client that does not read it does
\* not return, and the informer's goroutine stands still.
Blocked(clients) == \E c \in clients : conn[c] = "stuck"

\* The groups' bindings in the message are those of initialUser, not those
\* of the user just received.
Message(c, spec) ==
    IF spec = Absent THEN Null ELSE [spec EXCEPT !.groups = initial[c].groups]

\* The callbacks for reached write; those for failed return without a word.
Deliver(u, spec, reached, failed) ==
    /\ shown' = [c \in Clients |-> IF c \in reached THEN Message(c, spec) ELSE shown[c]]
    /\ missed' = [c \in Clients |->
                    /\ c \notin reached
                    /\ \/ missed[c]
                       \/ c \in failed
                       \/ userOf(c) = u /\ pc[c] \in {"read", "sent"}]

\* A watcher that ignores the path.
PublishToAll(u, spec) ==
    /\ Deliver(u, spec, {c \in subs : conn[c] = "open"}, {})
    /\ UNCHANGED faults

\* Every subscriber of the path is called.  The look-up of the bindings may
\* fail, and the callback returns without a message; no look-up is made for
\* a user that is gone.
Publish(u, spec) ==
    \E failed \in SUBSET Subscribers(u) :
        /\ IF failed = {} THEN UNCHANGED faults ELSE spec # Absent /\ Fault
        /\ ~Blocked(Subscribers(u) \ failed)
        /\ Deliver(u, spec, {c \in Subscribers(u) \ failed : conn[c] = "open"}, failed)

\* OnAdd that takes every user for one of the initial list.
OnAddQuietly(e) ==
    /\ e.type = "add"
    /\ Silent
    /\ cache' = [cache EXCEPT ![e.user] = e.spec]

OnAdd(e) ==
    /\ e.type = "add"
    /\ Publish(e.user, e.spec)
    /\ cache' = [cache EXCEPT ![e.user] = e.spec]

\* The cache is refreshed before the comparison.
OnUpdateComparesLate(e) ==
    /\ e.type = "update"
    /\ cache' = [cache EXCEPT ![e.user] = e.spec]
    /\ Silent

\* Published only if Spec differs from the cached one; an uncached user is
\* published and stays uncached.
OnUpdate(e) ==
    /\ e.type = "update"
    /\ IF cache[e.user] = e.spec THEN Silent ELSE Publish(e.user, e.spec)
    /\ cache' = IF cache[e.user] = Absent THEN cache
                ELSE [cache EXCEPT ![e.user] = e.spec]

OnDelete(e) ==
    /\ e.type = "delete"
    /\ Publish(e.user, Absent)
    /\ cache' = [cache EXCEPT ![e.user] = Absent]

\* OnDelete of something that is not a User: a warning is logged.
OnTombstone(e) ==
    /\ e.type = "tombstone"
    /\ Silent /\ UNCHANGED cache

HandleEvent ==
    /\ queue # <<>>
    /\ queue' = Tail(queue)
    /\ LET e == Head(queue)
       IN  OnAdd(e) \/ OnUpdate(e) \/ OnDelete(e) \/ OnTombstone(e)
    /\ UNCHANGED <<store, changes, subs, pc, conn, initial>>

-----------------------------------------------------------------------------
(* A connection: getUserWatchHandler, WriteUser and requestLoggingReader.  *)

Goto(c, from, to) == pc[c] = from /\ pc' = [pc EXCEPT ![c] = to]

Open(c) ==
    /\ conn[c] = "none"
    /\ conn' = [conn EXCEPT ![c] = "open"]
    /\ Goto(c, "idle", "start")
    /\ UNCHANGED <<objects, cache, shown, subs, initial, missed>>

\* UserByEmail and the look-ups of the bindings; without the user, or if one
\* of them fails, the writer gives up for good.
ReadInitial(c) ==
    /\ \/ /\ Goto(c, "start", IF store[userOf(c)] = Absent THEN "gaveUp" ELSE "read")
          /\ initial' = [initial EXCEPT ![c] = store[userOf(c)]]
          /\ UNCHANGED faults
       \/ /\ Goto(c, "start", "gaveUp")
          /\ Fault
          /\ UNCHANGED initial
    /\ UNCHANGED <<store, queue, changes, cache, shown, subs, conn, missed>>

\* WriteMessage fails on a closed connection, and the writer returns.
SendInitial(c) ==
    /\ conn[c] # "stuck"
    /\ Goto(c, "read", IF conn[c] = "open" THEN "sent" ELSE "gaveUp")
    /\ shown' = [shown EXCEPT ![c] = IF conn[c] = "open" THEN initial[c] ELSE @]
    /\ UNCHANGED <<objects, cache, subs, conn, initial, missed>>

Subscribe(c) ==
    /\ Goto(c, "sent", "subscribed")
    /\ subs' = subs \cup {c}
    /\ UNCHANGED <<objects, cache, shown, conn, initial, missed>>

SetCloseHandler(c) ==
    /\ Goto(c, "subscribed", "handlerSet")
    /\ UNCHANGED <<objects, cache, shown, subs, conn, initial, missed>>

\* The reader receives a close frame; unSub runs if the handler is set.
CloseFrame(c) ==
    /\ conn[c] = "open"
    /\ conn' = [conn EXCEPT ![c] = IF pc[c] = "handlerSet" THEN "closed" ELSE "closedEarly"]
    /\ subs' = IF pc[c] = "handlerSet" THEN subs \ {c} ELSE subs
    /\ UNCHANGED <<objects, cache, shown, pc, initial, missed>>

\* The client stops reading, and its window fills; or it reads on.
StopReading(c) ==
    /\ conn[c] = "open"
    /\ conn' = [conn EXCEPT ![c] = "stuck"]
    /\ UNCHANGED <<objects, cache, shown, subs, pc, initial, missed>>
ReadOn(c) ==
    /\ conn[c] = "stuck"
    /\ conn' = [conn EXCEPT ![c] = "open"]
    /\ UNCHANGED <<objects, cache, shown, subs, pc, initial, missed>>

\* The connection breaks: the reader closes it, no close handler runs.
Drop(c) ==
    /\ conn[c] \in {"open", "stuck"}
    /\ conn' = [conn EXCEPT ![c] = "dropped"]
    /\ UNCHANGED <<objects, cache, shown, subs, pc, initial, missed>>

-----------------------------------------------------------------------------
Writer(c) == ReadInitial(c) \/ SendInitial(c) \/ Subscribe(c) \/ SetCloseHandler(c)

Next ==
    \/ \E u \in Users :
         \/ \E spec \in Specs : AddUser(u, spec) \/ UpdateUser(u, spec)
         \/ DeleteUser(u)
    \/ HandleEvent
    \/ \E c \in Clients : Open(c) \/ Writer(c) \/ CloseFrame(c)
                           \/ StopReading(c) \/ ReadOn(c) \/ Drop(c)

\* The informer hands over its events and a writer that has started runs.
\* A blocked write goes on once its client reads, and a client that has read
\* cannot block it again before that: hence the strong fairness.  No look-up
\* has to fail.
Fairness ==
    /\ SF_vars(HandleEvent /\ faults' = faults)
    /\ \A c \in Clients : WF_vars(Writer(c))

Spec == Init /\ [][Next]_vars
FairSpec == Spec /\ Fairness

-----------------------------------------------------------------------------
Objects == Specs \cup {Absent}
Messages == Specs \cup {Nothing, Null}
Events == [type : {"add", "update", "delete", "tombstone"}, user : Users, spec : Objects]

TypeOK ==
    /\ store \in [Users -> Objects]
    /\ queue \in Seq(Events)
    /\ cache \in [Users -> Objects]
    /\ subs \subseteq Clients
    /\ pc \in [Clients -> {"idle", "start", "gaveUp", "read", "sent",
                           "subscribed", "handlerSet"}]
    /\ conn \in [Clients -> {"none", "open", "stuck", "closed", "closedEarly", "dropped"}]
    /\ initial \in [Clients -> Objects]
    /\ shown \in [Clients -> Messages]
    /\ missed \in [Clients -> BOOLEAN]
    /\ changes \in 0 .. MaxChanges
    /\ faults \in 0 .. MaxFaults

\* No event for this user is on its way.
Settled(u) == \A i \in 1 .. Len(queue) : queue[i].user # u

\* What a message about the user shows, apart from group bindings.
Displayed(spec) == IF spec = Absent THEN Null.settings ELSE spec.settings

\* The message describes the stored user.
Current(c) == shown[c].settings = Displayed(store[userOf(c)])

Watching(c) == c \in subs /\ conn[c] = "open"

\* The watcher still caches a user whose deletion came as a tombstone.
DeletionLost(u) == store[u] = Absent /\ cache[u] # Absent

\* The token spells the address as it is stored.
AsStored(c) == emailOf[c] \in Users

\* A subscription that should show the stored user.
Served(c) == Watching(c) /\ AsStored(c) /\ ~missed[c] /\ ~DeletionLost(userOf(c))

\* A client falls behind for four reasons only: the race the code admits to
\* (a change published between the read and the subscription), a callback
\* whose look-up failed, a deletion that came as a tombstone, and an address
\* spelled otherwise than it is stored.  Any other watching client shows the
\* stored user once all events are handled, however reads, sends,
\* subscriptions and events interleave and though the watcher skips events
\* by its cache; and the next push repairs the first two.
StaleOnlyIfMissed ==
    \A c \in Clients :
        Served(c) /\ Settled(userOf(c)) => Current(c)

\* "invoked on each user change": a watching client learns of each change,
\* however its token spells the address.
EachSpellingIsServed ==
    \A c \in Clients :
        (/\ Watching(c) /\ ~missed[c] /\ ~DeletionLost(userOf(c))
         /\ Settled(userOf(c))) => Current(c)

\* OnUpdate never meets a user that is not cached, so its early return,
\* which would leave the user uncached, never runs.
UpdatesAreCached ==
    queue # <<>> /\ Head(queue).type = "update" => cache[Head(queue).user] # Absent

\* The cache, brought up to date with the first n events, holds spec for u.
Recorded(u, n, spec) ==
    \/ \E j \in 1 .. n : /\ queue[j].user = u /\ queue[j].spec = spec
                         /\ \A k \in (j + 1) .. n : queue[k].user # u
    \/ /\ \A k \in 1 .. n : queue[k].user # u
       /\ cache[u] = spec

\* The events end with the user as it is stored.
StoreRecorded == 
    \A u \in Users, spec \in Specs : store[u] = spec => Recorded(u, Len(queue), spec)

\* Every update on its way is of a user that is there by then, and only
\* deletions leave no user.
EventsInOrder ==
    \A i \in 1 .. Len(queue) :
        /\ queue[i].type \in {"add", "update"} <=> queue[i].spec # Absent
        /\ queue[i].type = "update" =>
             \A u \in Users : queue[i].user = u =>
                 \E spec \in Specs : Recorded(u, i - 1, spec)

\* What is displayed is cached, or is about to be published.
Pending(u, value) ==
    \/ value = Displayed(cache[u])
    \/ \E i \in 1 .. Len(queue) : /\ queue[i].user = u /\ queue[i].type # "tombstone"
                                  /\ value = Displayed(queue[i].spec)

\* The cache the watcher skips events by never hides a change: a client that
\* missed nothing shows, or is about to send, what the watcher caches or an
\* event still on its way, so that the next event that differs is pushed.
ShownIsPending ==
    \A c \in Clients : AsStored(c) /\ ~missed[c] =>
        /\ pc[c] = "read" => Pending(userOf(c), Displayed(initial[c]))
        /\ pc[c] \in {"sent", "subscribed", "handlerSet"} /\ conn[c] \in {"open", "stuck"}
             => Pending(userOf(c), shown[c].settings)

\* A writer past its read holds a user; it subscribes after its send, and
\* only the close handler ends the subscription.
WritersInOrder ==
    \A c \in Clients :
        /\ pc[c] \in {"read", "sent", "subscribed", "handlerSet"} => initial[c] \in Specs
        /\ conn[c] = "closed" => pc[c] = "handlerSet"
        /\ c \in subs <=> pc[c] \in {"subscribed", "handlerSet"} /\ conn[c] # "closed"

\* What the watcher and its subscriptions keep to, whatever the interleaving.
WatcherInv ==
    /\ TypeOK /\ EventsInOrder /\ UpdatesAreCached /\ StoreRecorded
    /\ WritersInOrder /\ ShownIsPending

\* The watcher is writing to a client that does not read.
Stalled == queue # <<>> /\ Blocked(Subscribers(Head(queue).user))

\* Subscribers learn of every change: once changes stop, a watching client
\* that missed nothing shows the stored user from some point on, unless a
\* client that never reads holds up the informer's goroutine.  A client that
\* reads on, or is gone, holds up nobody.
PushedEventually ==
    \A c \in Clients : <>[](Stalled \/ (Served(c) => Current(c)))

\* "notifies its subscribers about any changes": the groups shown are the
\* user's groups.
GroupsAreCurrent ==
    \A c \in Clients :
        (/\ Watching(c) /\ AsStored(c) /\ ~missed[c] /\ Settled(userOf(c))
         /\ store[userOf(c)] # Absent) => shown[c].groups = store[userOf(c)].groups
=============================================================================
