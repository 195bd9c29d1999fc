--------------------------- MODULE UserWatchProofs ---------------------------
(* Proofs about UserWatch, for any users, connections and settings and any  *)
(* number of changes.                                                       *)
EXTENDS UserWatch, TLAPS

\* No Spec stands for no user.
LEMMA AbsentIsNoSpec == Absent \notin Specs
BY WatchAssumption DEF Absent, Specs

\* A connection's user is a stored one, whose address it may spell so.
LEMMA UserTypes ==
    ASSUME NEW c \in Clients
    PROVE  userOf(c) \in Users /\ (AsStored(c) => emailOf[c] = userOf(c))
BY WatchAssumption DEF userOf, AsStored

\* What follows from the types of the queue and of an event in it.
LEMMA EventTypes ==
    ASSUME queue \in Seq(Events), NEW i \in 1 .. Len(queue)
    PROVE  /\ queue[i] \in Events /\ queue[i].user \in Users
           /\ queue[i].spec \in Specs \cup {Absent}
           /\ queue[i].type \in {"add", "update", "delete", "tombstone"}
<1>1. queue[i] \in Events
    OBVIOUS
<1> QED BY <1>1 DEF Events, Objects

\* An event is appended to the queue.
LEMMA Pushed ==
    ASSUME queue \in Seq(Events), NEW e \in Events, queue' = Append(queue, e)
    PROVE  /\ queue' \in Seq(Events)
           /\ Len(queue) \in Nat /\ Len(queue') = Len(queue) + 1
           /\ \A i \in 1 .. Len(queue) : queue'[i] = queue[i]
           /\ queue'[Len(queue) + 1] = e
OBVIOUS

\* The first event is handled.
LEMMA Popped ==
    ASSUME queue \in Seq(Events), queue # <<>>, queue' = Tail(queue)
    PROVE  /\ queue' \in Seq(Events)
           /\ Len(queue) \in Nat /\ Len(queue) > 0 /\ Len(queue') = Len(queue) - 1
           /\ \A i \in 1 .. Len(queue') : queue'[i] = queue[i + 1]
           /\ Head(queue) = queue[1]
OBVIOUS

\* What is recorded stays recorded when an event is appended.
LEMMA RecordedKeeps ==
    ASSUME queue \in Seq(Events), NEW e \in Events, queue' = Append(queue, e),
           UNCHANGED cache, NEW u, NEW spec, NEW n \in 0 .. Len(queue), Recorded(u, n, spec)
    PROVE  Recorded(u, n, spec)'
<1>1. /\ Len(queue) \in Nat
      /\ \A i \in 1 .. n : queue'[i] = queue[i]
    BY Pushed
<1> QED BY <1>1 DEF Recorded

\* The cache after an event: only a tombstone leaves it alone.
LEMMA CacheAfter ==
    ASSUME WatcherInv, HandleEvent
    PROVE  cache' = IF queue[1].type = "tombstone" THEN cache
                    ELSE [cache EXCEPT ![queue[1].user] = queue[1].spec]
<1>1. Head(queue) = queue[1] /\ 1 \in 1 .. Len(queue) /\ queue # <<>>
    BY DEF HandleEvent, WatcherInv, TypeOK
<1>2. queue[1].type = "update" => cache[queue[1].user] # Absent
    BY <1>1 DEF WatcherInv, UpdatesAreCached
<1>3. queue[1].type = "delete" => queue[1].spec = Absent
    BY <1>1 DEF WatcherInv, EventsInOrder
<1> QED BY <1>1, <1>2, <1>3 DEF HandleEvent, OnAdd, OnUpdate, OnDelete, OnTombstone

\* What is recorded after the first event stays so when it is handled.
LEMMA RecordedShifts ==
    ASSUME WatcherInv, HandleEvent, NEW u \in Users, NEW spec \in Specs,
           NEW n \in 1 .. Len(queue), Recorded(u, n, spec)
    PROVE  Recorded(u, n - 1, spec)'
<1>1. /\ Len(queue) \in Nat /\ Len(queue) > 0 /\ Len(queue') = Len(queue) - 1
      /\ \A i \in 1 .. Len(queue') : queue'[i] = queue[i + 1]
    BY Popped DEF WatcherInv, TypeOK, HandleEvent
<1>2. cache' = IF queue[1].type = "tombstone" THEN cache
               ELSE [cache EXCEPT ![queue[1].user] = queue[1].spec]
    BY CacheAfter
<1>3. /\ cache \in [Users -> Objects]
      /\ queue[1].type \in {"add", "update"} <=> queue[1].spec # Absent
    BY <1>1 DEF WatcherInv, TypeOK, EventsInOrder
<1>4. CASE \E j \in 1 .. n : /\ queue[j].user = u /\ queue[j].spec = spec
                             /\ \A k \in (j + 1) .. n : queue[k].user # u
    <2>1. PICK j \in 1 .. n : /\ queue[j].user = u /\ queue[j].spec = spec
                              /\ \A k \in (j + 1) .. n : queue[k].user # u
        BY <1>4
    <2>2. \A k \in j .. (n - 1) : queue'[k].user # u
        BY <1>1, <2>1
    <2>3. CASE j = 1
        <3>1. cache'[u] = spec
            BY <1>2, <1>3, <2>1, <2>3, AbsentIsNoSpec
        <3> QED BY <2>2, <2>3, <3>1 DEF Recorded
    <2>4. CASE j # 1
        <3>1. j - 1 \in 1 .. (n - 1) /\ queue'[j - 1] = queue[j]
            BY <1>1, <2>4
        <3>2. \A k \in ((j - 1) + 1) .. (n - 1) : queue'[k].user # u
            BY <2>2
        <3> QED BY <2>1, <3>1, <3>2 DEF Recorded
    <2> QED BY <2>3, <2>4
<1>5. CASE (\A k \in 1 .. n : queue[k].user # u) /\ cache[u] = spec
    <2>1. \A k \in 1 .. (n - 1) : queue'[k].user # u
        BY <1>1, <1>5
    <2>2. cache'[u] = spec
        BY <1>2, <1>3, <1>5
    <2> QED BY <2>1, <2>2 DEF Recorded
<1> QED BY <1>4, <1>5 DEF Recorded

-----------------------------------------------------------------------------
(* The invariant holds initially and is kept by every step.                *)

\* An update whose user is recorded meets a cached user.
LEMMA OrderedAreCached == TypeOK /\ EventsInOrder => UpdatesAreCached
<1> SUFFICES ASSUME TypeOK, EventsInOrder, queue # <<>>, Head(queue).type = "update"
             PROVE  cache[Head(queue).user] # Absent
    BY DEF UpdatesAreCached
<1>1. Head(queue) = queue[1] /\ 1 \in 1 .. Len(queue)
    BY DEF TypeOK
<1>2. queue[1].user \in Users
    BY <1>1, EventTypes DEF TypeOK
<1>3. \E spec \in Specs : Recorded(queue[1].user, 0, spec)
    BY <1>1, <1>2 DEF EventsInOrder
<1> QED BY <1>1, <1>3, AbsentIsNoSpec DEF Recorded

\* The invariant holds at the start.
LEMMA InitInv == Init => WatcherInv
<1> SUFFICES ASSUME Init PROVE WatcherInv
    OBVIOUS
<1>1. TypeOK
    BY WatchAssumption DEF Init, TypeOK, Objects, Messages
<1>2. EventsInOrder /\ WritersInOrder /\ ShownIsPending
    BY DEF Init, EventsInOrder, WritersInOrder, ShownIsPending
<1>3. StoreRecorded
    BY AbsentIsNoSpec DEF Init, StoreRecorded
<1> QED BY <1>1, <1>2, <1>3, OrderedAreCached DEF WatcherInv

\* A user object changes: the event is about what is stored.
LEMMA ChangeStep ==
    ASSUME WatcherInv, NEW u \in Users, NEW spec \in Objects,
           NEW type \in {"add", "update", "delete", "tombstone"}, Change(u, spec, type),
           type \in {"add", "update"} <=> spec # Absent,
           type = "update" => store[u] # Absent
    PROVE  WatcherInv'
<1> DEFINE e == [type |-> type, user |-> u, spec |-> spec]
<1>1. /\ queue' = Append(queue, e) /\ store' = [store EXCEPT ![u] = spec]
      /\ UNCHANGED <<cache, shown, subs, pc, conn, initial, missed, faults>>
    BY DEF Change, writers
<1>2. e \in Events /\ e.type = type /\ e.user = u /\ e.spec = spec
    BY DEF Events
<1> HIDE DEF e
<1>3. /\ queue' \in Seq(Events)
      /\ Len(queue) \in Nat /\ Len(queue') = Len(queue) + 1
      /\ \A i \in 1 .. Len(queue) : queue'[i] = queue[i]
      /\ queue'[Len(queue) + 1] = e
    BY <1>1, <1>2, Pushed DEF WatcherInv, TypeOK
<1>4. TypeOK'
    <2>1. changes' \in 0 .. MaxChanges
        BY WatchAssumption DEF Change, WatcherInv, TypeOK
    <2>2. missed' \in [Clients -> BOOLEAN]
        BY <1>1 DEF WatcherInv, TypeOK
    <2> QED BY <1>1, <1>3, <2>1, <2>2 DEF WatcherInv, TypeOK
<1>5. \A v \in Users, s \in Specs, n \in 0 .. Len(queue) :
         Recorded(v, n, s) => Recorded(v, n, s)'
    BY <1>1, <1>2, RecordedKeeps DEF WatcherInv, TypeOK
<1>6. EventsInOrder'
    <2> SUFFICES ASSUME NEW i \in 1 .. Len(queue')
                 PROVE  /\ queue'[i].type \in {"add", "update"} <=> queue'[i].spec # Absent
                        /\ queue'[i].type = "update" =>
                             \A v \in Users : queue'[i].user = v =>
                                 \E s \in Specs : Recorded(v, i - 1, s)'
        BY DEF EventsInOrder
    <2>1. CASE i \in 1 .. Len(queue)
        <3>1. queue'[i] = queue[i] /\ i - 1 \in 0 .. Len(queue)
            BY <1>3, <2>1
        <3> QED BY <1>5, <2>1, <3>1 DEF WatcherInv, EventsInOrder
    <2>2. CASE i = Len(queue) + 1
        <3>1. queue'[i] = e /\ i - 1 = Len(queue) /\ Len(queue) \in 0 .. Len(queue)
            BY <1>3, <2>2
        <3>2. ASSUME type = "update" PROVE \E s \in Specs : Recorded(u, i - 1, s)'
            <4>1. store[u] \in Specs
                BY <3>2 DEF WatcherInv, TypeOK, Objects
            <4>2. Recorded(u, Len(queue), store[u])
                BY <4>1 DEF WatcherInv, StoreRecorded
            <4> QED BY <1>5, <3>1, <4>1, <4>2
        <3> QED BY <1>2, <3>1, <3>2
    <2> QED BY <1>3, <2>1, <2>2
<1>7. StoreRecorded'
    <2>1. PICK n \in Nat : n = Len(queue)
        BY <1>3
    <2>2. SUFFICES ASSUME NEW v \in Users, NEW s \in Specs, store'[v] = s
                   PROVE  Recorded(v, n + 1, s)'
        BY <1>3, <2>1 DEF StoreRecorded, Recorded
    <2>3. CASE v = u
        <3>1. s = spec
            BY <1>1, <2>2, <2>3 DEF WatcherInv, TypeOK
        <3>2. n + 1 \in 1 .. (n + 1) /\ queue'[n + 1].user = v /\ queue'[n + 1].spec = s
            BY <1>2, <1>3, <2>1, <2>3, <3>1
        <3> QED BY <3>2 DEF Recorded
    <2>4. CASE v # u
        <3>1. store[v] = s
            BY <1>1, <2>2, <2>4 DEF WatcherInv, TypeOK
        <3>2. Recorded(v, n, s)'
            BY <1>5, <2>1, <3>1 DEF WatcherInv, StoreRecorded
        <3>3. queue'[n + 1].user # v
            BY <1>2, <1>3, <2>1, <2>4
        <3> QED BY <3>2, <3>3 DEF Recorded
    <2> QED BY <2>3, <2>4
<1>8. WritersInOrder'
    BY <1>1 DEF WatcherInv, WritersInOrder
<1>9. ShownIsPending'
    BY <1>1, <1>3 DEF WatcherInv, ShownIsPending, Pending
<1>10. UpdatesAreCached'
    BY <1>4, <1>6, <1>8, OrderedAreCached, PTL
<1> QED BY <1>4, <1>6, <1>7, <1>8, <1>9, <1>10 DEF WatcherInv

\* The message for a subscriber, and what it displays.
LEMMA MessageTypes ==
    ASSUME NEW c \in Clients, initial[c] \in Specs, NEW spec \in Objects
    PROVE  Message(c, spec) \in Messages /\ Message(c, spec).settings = Displayed(spec)
<1>1. CASE spec = Absent
    BY <1>1 DEF Message, Messages, Null, Displayed
<1>2. CASE spec # Absent
    <2>1. spec \in Specs
        BY <1>2 DEF Objects
    <2> QED BY <1>2, <2>1 DEF Message, Messages, Specs, Displayed
<1> QED BY <1>1, <1>2

\* An event is published, or it tells nothing new.
LEMMA PublishedOrKnown ==
    ASSUME WatcherInv, HandleEvent
    PROVE  \/ Publish(queue[1].user, queue[1].spec) /\ queue[1].type # "tombstone"
           \/ /\ Silent
              /\ queue[1].type = "tombstone" \/ cache[queue[1].user] = queue[1].spec
<1>1. Head(queue) = queue[1] /\ 1 \in 1 .. Len(queue)
    BY DEF HandleEvent, WatcherInv, TypeOK
<1>2. queue[1].type = "delete" => queue[1].spec = Absent
    BY <1>1 DEF WatcherInv, EventsInOrder
<1> QED BY <1>1, <1>2 DEF HandleEvent, OnAdd, OnUpdate, OnDelete, OnTombstone

\* What publishing does for a connection: it is shown the user or marked as
\* having missed it, and is left alone if the event is about someone else.
LEMMA Published ==
    ASSUME WatcherInv, NEW u \in Users, NEW spec \in Objects, Publish(u, spec),
           UNCHANGED <<subs, pc, conn, initial>>
    PROVE  /\ shown' \in [Clients -> Messages] /\ missed' \in [Clients -> BOOLEAN]
           /\ faults' \in 0 .. MaxFaults
           /\ \A c \in Clients :
                /\ userOf(c) = u /\ pc[c] \in {"read", "sent"} => missed'[c]
                /\ emailOf[c] = u /\ c \in subs /\ ~missed'[c] /\ conn[c] \in {"open", "stuck"}
                     => shown'[c].settings = Displayed(spec)
                /\ emailOf[c] # u => shown'[c] = shown[c]
                /\ emailOf[c] # u /\ userOf(c) # u => missed'[c] = missed[c]
<1>1. PICK failed \in SUBSET Subscribers(u) :
         /\ IF failed = {} THEN UNCHANGED faults ELSE spec # Absent /\ Fault
         /\ ~Blocked(Subscribers(u) \ failed)
         /\ Deliver(u, spec, {c \in Subscribers(u) \ failed : conn[c] = "open"}, failed)
    BY DEF Publish
<1> DEFINE reached == {c \in Subscribers(u) \ failed : conn[c] = "open"}
<1>2. \A c \in reached : /\ c \in subs /\ c \in Clients /\ emailOf[c] = u
                         /\ pc[c] \in {"subscribed", "handlerSet"} /\ initial[c] \in Specs
    BY DEF Subscribers, WatcherInv, TypeOK, WritersInOrder
<1>3. \A c \in reached : Message(c, spec) \in Messages /\ Message(c, spec).settings = Displayed(spec)
    BY <1>2, MessageTypes
<1>4. /\ shown' = [c \in Clients |-> IF c \in reached THEN Message(c, spec) ELSE shown[c]]
      /\ missed' = [c \in Clients |->
                      /\ c \notin reached
                      /\ \/ missed[c]
                         \/ c \in failed
                         \/ userOf(c) = u /\ pc[c] \in {"read", "sent"}]
    BY <1>1 DEF Deliver
<1>5. \A c \in failed : emailOf[c] = u
    BY <1>1 DEF Subscribers
<1>6. \A c \in subs : emailOf[c] = u /\ conn[c] \in {"open", "stuck"} => c \in reached \/ c \in failed
    BY <1>1 DEF Subscribers, Blocked
<1>7. faults' \in 0 .. MaxFaults
    BY <1>1, WatchAssumption DEF Fault, WatcherInv, TypeOK
<1>8. shown \in [Clients -> Messages] /\ missed \in [Clients -> BOOLEAN]
    BY DEF WatcherInv, TypeOK
<1> HIDE DEF reached
<1>9. shown' \in [Clients -> Messages]
    BY <1>3, <1>4, <1>8
<1>10. missed' \in [Clients -> BOOLEAN]
    BY <1>4
<1>11. ASSUME NEW c \in Clients
       PROVE  /\ userOf(c) = u /\ pc[c] \in {"read", "sent"} => missed'[c]
              /\ emailOf[c] = u /\ c \in subs /\ ~missed'[c] /\ conn[c] \in {"open", "stuck"}
                   => shown'[c].settings = Displayed(spec)
              /\ emailOf[c] # u => shown'[c] = shown[c]
              /\ emailOf[c] # u /\ userOf(c) # u => missed'[c] = missed[c]
    <2>1. missed'[c] <=> /\ c \notin reached
                         /\ \/ missed[c]
                            \/ c \in failed
                            \/ userOf(c) = u /\ pc[c] \in {"read", "sent"}
        BY <1>4
    <2>2. userOf(c) = u /\ pc[c] \in {"read", "sent"} => missed'[c]
        BY <1>2, <2>1
    <2>3. emailOf[c] = u /\ c \in subs /\ ~missed'[c] /\ conn[c] \in {"open", "stuck"}
             => shown'[c].settings = Displayed(spec)
        BY <1>3, <1>4, <1>6, <2>1
    <2>4. emailOf[c] # u => shown'[c] = shown[c]
        BY <1>2, <1>4
    <2>5. emailOf[c] # u /\ userOf(c) # u => missed'[c] = missed[c]
        BY <1>2, <1>4, <1>5, <1>8, <2>1
    <2> QED BY <2>2, <2>3, <2>4, <2>5
<1> QED BY <1>7, <1>9, <1>10, <1>11

\* What is pending stays pending if the event is about another user or
\* tells nothing new.
LEMMA PendingShifts ==
    ASSUME WatcherInv, HandleEvent, NEW u \in Users, NEW value, Pending(u, value),
           \/ queue[1].user # u
           \/ queue[1].type = "tombstone"
           \/ cache[u] = queue[1].spec
    PROVE  Pending(u, value)'
<1>1. /\ Len(queue) \in Nat /\ Len(queue) > 0 /\ Len(queue') = Len(queue) - 1
      /\ \A i \in 1 .. Len(queue') : queue'[i] = queue[i + 1]
    BY Popped DEF WatcherInv, TypeOK, HandleEvent
<1>2. cache'[u] = cache[u]
    BY CacheAfter DEF WatcherInv, TypeOK
<1>3. CASE value = Displayed(cache[u])
    BY <1>2, <1>3 DEF Pending
<1>4. CASE \E i \in 1 .. Len(queue) : /\ queue[i].user = u /\ queue[i].type # "tombstone"
                                      /\ value = Displayed(queue[i].spec)
    <2>1. PICK i \in 1 .. Len(queue) : /\ queue[i].user = u /\ queue[i].type # "tombstone"
                                       /\ value = Displayed(queue[i].spec)
        BY <1>4
    <2>2. CASE i = 1
        BY <1>2, <2>1, <2>2 DEF Pending
    <2>3. CASE i # 1
        <3>1. i - 1 \in 1 .. Len(queue') /\ queue'[i - 1] = queue[i]
            BY <1>1, <2>3
        <3> QED BY <2>1, <3>1 DEF Pending
    <2> QED BY <2>2, <2>3
<1> QED BY <1>3, <1>4 DEF Pending

\* Handling the next event keeps the invariant.
LEMMA HandleStep ==
    ASSUME WatcherInv, HandleEvent
    PROVE  WatcherInv'
<1>1. UNCHANGED <<store, changes, subs, pc, conn, initial>>
    BY DEF HandleEvent
<1>2. /\ queue' \in Seq(Events)
      /\ Len(queue) \in Nat /\ Len(queue) > 0 /\ Len(queue') = Len(queue) - 1
      /\ \A i \in 1 .. Len(queue') : queue'[i] = queue[i + 1]
    BY Popped DEF WatcherInv, TypeOK, HandleEvent
<1>3. queue[1].user \in Users /\ queue[1].spec \in Objects
    BY <1>2, EventTypes DEF WatcherInv, TypeOK, Objects
<1>4. TypeOK'
    <2>1. cache' \in [Users -> Objects]
        BY <1>3, CacheAfter DEF WatcherInv, TypeOK
    <2>2. /\ shown' \in [Clients -> Messages] /\ missed' \in [Clients -> BOOLEAN]
          /\ faults' \in 0 .. MaxFaults
        <3>1. CASE Publish(queue[1].user, queue[1].spec)
            BY <1>1, <1>3, <3>1, Published
        <3>2. CASE Silent
            BY <3>2 DEF Silent, WatcherInv, TypeOK
        <3> QED BY <3>1, <3>2, PublishedOrKnown
    <2> QED BY <1>1, <1>2, <2>1, <2>2 DEF WatcherInv, TypeOK
<1>5. EventsInOrder'
    <2> SUFFICES ASSUME NEW i \in 1 .. Len(queue')
                 PROVE  /\ queue'[i].type \in {"add", "update"} <=> queue'[i].spec # Absent
                        /\ queue'[i].type = "update" =>
                             \A v \in Users : queue'[i].user = v =>
                                 \E s \in Specs : Recorded(v, i - 1, s)'
        BY DEF EventsInOrder
    <2>1. queue'[i] = queue[i + 1] /\ i + 1 \in 1 .. Len(queue) /\ i \in 1 .. Len(queue)
        BY <1>2
    <2>2. \A v \in Users, s \in Specs : Recorded(v, i, s) => Recorded(v, i - 1, s)'
        BY <2>1, RecordedShifts
    <2>3. (i + 1) - 1 = i
        OBVIOUS
    <2> QED BY <2>1, <2>2, <2>3 DEF WatcherInv, EventsInOrder
<1>6. StoreRecorded'
    <2>1. PICK n \in 1 .. Len(queue) : n = Len(queue)
        BY <1>2
    <2>2. \A v \in Users, s \in Specs : Recorded(v, n, s) => Recorded(v, n - 1, s)'
        BY RecordedShifts
    <2>3. SUFFICES ASSUME NEW v \in Users, NEW s \in Specs, store'[v] = s
                   PROVE  Recorded(v, n - 1, s)'
        BY <1>2, <2>1 DEF StoreRecorded, Recorded
    <2>4. Recorded(v, n, s)
        BY <1>1, <2>1, <2>3 DEF WatcherInv, StoreRecorded
    <2> QED BY <2>2, <2>4
<1>7. WritersInOrder'
    BY <1>1 DEF WatcherInv, WritersInOrder
<1>8. ShownIsPending'
    <2>1. SUFFICES ASSUME NEW c \in Clients, AsStored(c), ~missed'[c], NEW w,
                          \/ w = Displayed(initial[c]) /\ pc[c] = "read"
                          \/ /\ w = shown'[c].settings
                             /\ pc[c] \in {"sent", "subscribed", "handlerSet"}
                             /\ conn[c] \in {"open", "stuck"}
                   PROVE  Pending(userOf(c), w)'
        BY <1>1 DEF ShownIsPending, Pending
    <2>2. userOf(c) \in Users /\ emailOf[c] = userOf(c)
        BY <2>1, UserTypes
    <2>3. CASE Publish(queue[1].user, queue[1].spec) /\ queue[1].user = userOf(c)
               /\ queue[1].type # "tombstone"
        <3>1. pc[c] \in {"subscribed", "handlerSet"} /\ w = shown'[c].settings
              /\ conn[c] \in {"open", "stuck"}
            BY <1>1, <1>3, <2>1, <2>3, Published
        <3>2. c \in subs
            BY <3>1 DEF WatcherInv, WritersInOrder
        <3>3. w = Displayed(queue[1].spec)
            BY <1>1, <1>3, <2>1, <2>2, <2>3, <3>1, <3>2, Published
        <3>4. cache'[userOf(c)] = queue[1].spec
            BY <2>2, <2>3, CacheAfter DEF WatcherInv, TypeOK
        <3> QED BY <3>3, <3>4 DEF Pending
    <2>4. CASE \/ queue[1].user # userOf(c)
               \/ queue[1].type = "tombstone"
               \/ cache[userOf(c)] = queue[1].spec /\ Silent
        <3>1. ~missed[c] /\ shown'[c] = shown[c]
            <4>1. CASE Silent
                BY <2>1, <4>1 DEF Silent
            <4>2. CASE Publish(queue[1].user, queue[1].spec) /\ queue[1].type # "tombstone"
                BY <1>1, <1>3, <2>1, <2>2, <2>4, <4>2, Published DEF Silent
            <4> QED BY <4>1, <4>2, PublishedOrKnown
        <3>2. Pending(userOf(c), w)
            BY <2>1, <3>1 DEF WatcherInv, ShownIsPending
        <3> QED BY <2>2, <2>4, <3>2, PendingShifts
    <2> QED BY <2>3, <2>4, PublishedOrKnown
<1>9. UpdatesAreCached'
    BY <1>4, <1>5, <1>7, OrderedAreCached, PTL
<1> QED BY <1>4, <1>5, <1>6, <1>7, <1>8, <1>9 DEF WatcherInv

\* A step of a connection leaves the watcher alone.
LEMMA WatcherAlone ==
    ASSUME WatcherInv, UNCHANGED <<store, queue, cache>>
    PROVE  /\ EventsInOrder' /\ StoreRecorded' /\ UpdatesAreCached'
           /\ \A u, value : Pending(u, value) => Pending(u, value)'
BY DEF WatcherInv, EventsInOrder, StoreRecorded, UpdatesAreCached, Recorded, Pending

\* What a reader gets from the store is pending.
LEMMA ReadIsPending ==
    ASSUME WatcherInv, NEW u \in Users, store[u] # Absent
    PROVE  Pending(u, Displayed(store[u]))
<1>1. store[u] \in Specs
    BY DEF WatcherInv, TypeOK, Objects
<1>2. Recorded(u, Len(queue), store[u])
    BY <1>1 DEF WatcherInv, StoreRecorded
<1>3. \A j \in 1 .. Len(queue) : queue[j].spec = store[u] => queue[j].type # "tombstone"
    BY DEF WatcherInv, EventsInOrder
<1> QED BY <1>2, <1>3 DEF Recorded, Pending

\* The writer of a connection.
LEMMA WriterStep ==
    ASSUME WatcherInv, NEW c \in Clients, Writer(c)
    PROVE  WatcherInv'
<1>1. UNCHANGED <<store, queue, cache, changes, conn, missed>>
    BY DEF Writer, ReadInitial, SendInitial, Subscribe, SetCloseHandler, objects
<1>2. /\ EventsInOrder' /\ StoreRecorded' /\ UpdatesAreCached'
      /\ \A u, value : Pending(u, value) => Pending(u, value)'
    BY <1>1, WatcherAlone
<1>3. userOf(c) \in Users /\ store[userOf(c)] \in Objects /\ Absent \notin Specs
    BY UserTypes, AbsentIsNoSpec DEF WatcherInv, TypeOK
<1>4. missed' \in [Clients -> BOOLEAN] /\ faults' \in 0 .. MaxFaults
    BY <1>1, WatchAssumption
       DEF WatcherInv, TypeOK, Writer, ReadInitial, SendInitial, Subscribe, SetCloseHandler, objects, Fault
<1>5. CASE ReadInitial(c)
    <2>1. TypeOK'
        BY <1>1, <1>3, <1>4, <1>5 DEF WatcherInv, TypeOK, ReadInitial, Goto
    <2>2. WritersInOrder'
        BY <1>3, <1>5 DEF WatcherInv, TypeOK, WritersInOrder, ReadInitial, Goto, Objects
    <2>3. ShownIsPending'
        <3>1. store[userOf(c)] # Absent => Pending(userOf(c), Displayed(store[userOf(c)]))
            BY <1>3, ReadIsPending
        <3> QED BY <1>1, <1>2, <1>5, <3>1
                DEF WatcherInv, TypeOK, ShownIsPending, Pending, ReadInitial, Goto
    <2> QED BY <1>2, <2>1, <2>2, <2>3 DEF WatcherInv
<1>6. CASE SendInitial(c)
    <2>1. pc[c] = "read" /\ initial[c] \in Specs /\ Displayed(initial[c]) = initial[c].settings
        BY <1>3, <1>6 DEF WatcherInv, WritersInOrder, SendInitial, Goto, Displayed
    <2>2. TypeOK'
        BY <1>1, <1>4, <1>6, <2>1 DEF WatcherInv, TypeOK, SendInitial, Goto, Messages
    <2>3. WritersInOrder'
        BY <1>6 DEF WatcherInv, TypeOK, WritersInOrder, SendInitial, Goto
    <2>4. ShownIsPending'
        <3>1. AsStored(c) /\ ~missed[c] => Pending(userOf(c), initial[c].settings)
            BY <2>1 DEF WatcherInv, ShownIsPending
        <3>2. /\ pc' = [pc EXCEPT ![c] = IF conn[c] = "open" THEN "sent" ELSE "gaveUp"]
              /\ shown' = [shown EXCEPT ![c] = IF conn[c] = "open" THEN initial[c] ELSE @]
              /\ conn[c] # "stuck" /\ initial' = initial
            BY <1>6 DEF SendInitial, Goto
        <3>3. SUFFICES ASSUME NEW d \in Clients, AsStored(d), ~missed'[d], NEW w,
                              \/ w = Displayed(initial[d]) /\ pc'[d] = "read"
                              \/ /\ w = shown'[d].settings
                                 /\ pc'[d] \in {"sent", "subscribed", "handlerSet"}
                                 /\ conn[d] \in {"open", "stuck"}
                       PROVE  Pending(userOf(d), w)'
            BY SMTT(60), <1>1, <3>2 DEF ShownIsPending, Pending
        <3>4. CASE d = c
            BY <1>1, <1>2, <3>1, <3>2, <3>3, <3>4 DEF WatcherInv, TypeOK
        <3>5. CASE d # c
            BY <1>1, <1>2, <3>2, <3>3, <3>5 DEF WatcherInv, TypeOK, ShownIsPending
        <3> QED BY <3>4, <3>5
    <2> QED BY <1>2, <2>2, <2>3, <2>4 DEF WatcherInv
<1>7. CASE Subscribe(c) \/ SetCloseHandler(c)
    <2>1. TypeOK'
        BY <1>1, <1>4, <1>7 DEF WatcherInv, TypeOK, Subscribe, SetCloseHandler, Goto
    <2>2. WritersInOrder'
        BY <1>7 DEF WatcherInv, TypeOK, WritersInOrder, Subscribe, SetCloseHandler, Goto
    <2>3. ShownIsPending'
        BY <1>1, <1>2, <1>7
           DEF WatcherInv, TypeOK, ShownIsPending, Pending, Subscribe, SetCloseHandler, Goto
    <2> QED BY <1>2, <2>1, <2>2, <2>3 DEF WatcherInv
<1> QED BY <1>5, <1>6, <1>7 DEF Writer

\* The peer of a connection.
LEMMA PeerStep ==
    ASSUME WatcherInv, NEW c \in Clients,
           Open(c) \/ CloseFrame(c) \/ StopReading(c) \/ ReadOn(c) \/ Drop(c)
    PROVE  WatcherInv'
<1> USE DEF Open, CloseFrame, StopReading, ReadOn, Drop
<1>1. UNCHANGED <<store, queue, cache, changes, faults, initial, shown, missed>>
    BY DEF objects
<1>2. /\ EventsInOrder' /\ StoreRecorded' /\ UpdatesAreCached'
      /\ \A u, value : Pending(u, value) => Pending(u, value)'
    BY <1>1, WatcherAlone
<1>3. TypeOK'
    <2>1. missed' \in [Clients -> BOOLEAN]
        BY <1>1 DEF WatcherInv, TypeOK
    <2> QED BY <1>1, <2>1 DEF WatcherInv, TypeOK, Goto
<1>4. WritersInOrder'
    BY <1>1 DEF WatcherInv, TypeOK, WritersInOrder, Goto
<1>5. ShownIsPending'
    BY <1>1, <1>2 DEF WatcherInv, TypeOK, ShownIsPending, Pending, Goto
<1> QED BY <1>2, <1>3, <1>4, <1>5 DEF WatcherInv

\* Every step keeps the invariant.
LEMMA NextInv == WatcherInv /\ [Next]_vars => WatcherInv'
<1> SUFFICES ASSUME WatcherInv, [Next]_vars PROVE WatcherInv'
    OBVIOUS
<1>1. ASSUME NEW u \in Users, NEW spec \in Specs, AddUser(u, spec) \/ UpdateUser(u, spec)
      PROVE  WatcherInv'
    <2>1. PICK type \in {"add", "update"} :
             Change(u, spec, type) /\ (type = "update" => store[u] # Absent)
        BY <1>1 DEF AddUser, UpdateUser
    <2> QED BY <2>1, AbsentIsNoSpec, ChangeStep DEF Objects
<1>2. ASSUME NEW u \in Users, DeleteUser(u)
      PROVE  WatcherInv'
    <2>1. PICK type \in {"delete", "tombstone"} : Change(u, Absent, type)
        BY <1>2 DEF DeleteUser
    <2> QED BY <2>1, ChangeStep DEF Objects
<1>3. CASE UNCHANGED vars
    <2>1. /\ EventsInOrder' /\ StoreRecorded' /\ UpdatesAreCached'
          /\ \A u, value : Pending(u, value) => Pending(u, value)'
        BY <1>3, WatcherAlone DEF vars
    <2>2. TypeOK'
        BY <1>3, Zenon DEF vars, WatcherInv, TypeOK
    <2>3. WritersInOrder'
        BY <1>3 DEF vars, WatcherInv, WritersInOrder
    <2>4. ShownIsPending'
        BY <1>3 DEF vars, WatcherInv, ShownIsPending, Pending
    <2> QED BY <2>1, <2>2, <2>3, <2>4 DEF WatcherInv
<1> QED BY <1>1, <1>2, <1>3, HandleStep, WriterStep, PeerStep DEF Next

-----------------------------------------------------------------------------
(* What the watcher promises.                                              *)

\* The invariant behind both promises: events arrive in the order of the
\* changes, OnUpdate never meets an uncached user, a writer subscribes after
\* its send.
LEMMA WatcherKeepsTrack == Spec => []WatcherInv
BY InitInv, NextInv, PTL DEF Spec

\* Skipping updates by the cache hides no change: a client that missed nothing
\* and whose token spells the address as stored shows what is cached or an
\* event still on its way.
THEOREM CacheHidesNothing == Spec => []ShownIsPending
<1>1. WatcherInv => ShownIsPending
    BY DEF WatcherInv
<1> QED BY <1>1, WatcherKeepsTrack, PTL

\* With nothing under way, a client is behind only for a reason named in Served.
LEMMA SettledIsCurrent == WatcherInv => StaleOnlyIfMissed
<1> SUFFICES ASSUME WatcherInv, NEW c \in Clients, Served(c), Settled(userOf(c))
             PROVE  Current(c)
    BY DEF StaleOnlyIfMissed
<1> DEFINE u == userOf(c)
<1>1. u \in Users /\ store[u] \in Objects
    BY UserTypes DEF WatcherInv, TypeOK
<1>2. shown[c].settings = Displayed(cache[u])
    <2>1. Pending(u, shown[c].settings)
        BY DEF Served, Watching, WatcherInv, WritersInOrder, ShownIsPending
    <2> QED BY <2>1 DEF Pending, Settled
<1>3. store[u] # Absent => store[u] = cache[u]
    <2>1. store[u] # Absent => Recorded(u, Len(queue), store[u])
        BY <1>1 DEF WatcherInv, StoreRecorded, Objects
    <2> QED BY <2>1 DEF Recorded, Settled
<1>4. store[u] = Absent => cache[u] = Absent
    BY DEF Served, DeletionLost
<1> QED BY <1>2, <1>3, <1>4 DEF Current

\* A watching client shows the stored user once the informer's events about
\* it are handled, unless the race before its subscription or a failed
\* look-up made it miss the last push, its deletion came as a tombstone, or
\* its token spells the address otherwise.
THEOREM StaleOnlyByTheRace == Spec => []StaleOnlyIfMissed
BY WatcherKeepsTrack, SettledIsCurrent, PTL
=============================================================================
