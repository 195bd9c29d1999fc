------------------------ MODULE ProjectMembersProofs ------------------------
(* Proofs about ProjectMembers, for any people, service accounts and        *)
(* requests and any number of projects.                                     *)
EXTENDS ProjectMembers, FiniteSetTheorems, WellFoundedInduction, TLAPS

-----------------------------------------------------------------------------
(* Numbers.                                                                *)

\* A set of natural numbers has a least element.
LEMMA LeastElement ==
    ASSUME NEW S \in SUBSET Nat, S # {}
    PROVE  \E m \in S : \A i \in S : m <= i
<1> DEFINE R == OpToRel(<, Nat)
<1>1. IsWellFoundedOn(R, Nat)
    BY NatLessThanWellFounded
<1>2. PICK m \in S : \A i \in S : ~(<<i, m>> \in R)
    <2> HIDE DEF R
    <2> QED BY <1>1, WFMin
<1>3. \A i \in Nat : i < m => <<i, m>> \in R
    BY DEF OpToRel
<1> HIDE DEF R
<1>4. \A i \in S : i \in Nat /\ m \in Nat /\ ~(i < m)
    BY <1>2, <1>3
<1> QED BY <1>2, <1>4

\* A set of numbers up to n has a greatest element.
LEMMA GreatestElement ==
    ASSUME NEW n \in Nat, NEW S \in SUBSET (1 .. n), S # {}
    PROVE  \E m \in S : \A i \in S : i <= m
<1> DEFINE T == {k \in Nat : n - k \in S}
<1>1. T \in SUBSET Nat /\ T # {}
    <2>1. PICK i \in S : TRUE
        OBVIOUS
    <2>2. n - i \in Nat /\ n - (n - i) = i
        OBVIOUS
    <2> QED BY <2>1, <2>2
<1>2. \A i \in S : n - i \in T /\ i \in Nat
    OBVIOUS
<1>3. PICK x \in T : \A y \in T : x <= y
    <2> HIDE DEF T
    <2> QED BY <1>1, LeastElement
<1>4. \A i \in S : i <= n - x
    BY <1>1, <1>2, <1>3
<1> QED BY <1>4

-----------------------------------------------------------------------------
(* The log.                                                                *)

\* A version is appended to the log.
LEMMA Appended ==
    ASSUME log \in Seq(Versions), NEW v \in Versions, log' = Append(log, v)
    PROVE  /\ log' \in Seq(Versions)
           /\ Stored \in Nat /\ Stored' = Stored + 1
           /\ \A i \in 1 .. Stored : log'[i] = log[i]
           /\ log'[Stored + 1] = v
           /\ \A i \in 1 .. Stored : log[i] \in Versions
BY DEF Stored

\* A version takes the place of the one before it.
LEMMA ExistingAfter ==
    ASSUME log \in Seq(Versions), NEW v \in Versions, log' = Append(log, v)
    PROVE  \A i : i \in Existing' <=>
                    \/ i \in Existing /\ log[i].id # v.id
                    \/ i = Stored + 1 /\ v.role # "none"
<1>1. /\ Stored \in Nat /\ Stored' = Stored + 1
      /\ \A i \in 1 .. Stored : log'[i] = log[i]
      /\ log'[Stored + 1] = v
    BY Appended
<1>2. \A i : i \in Existing' <=>
               /\ i \in 1 .. (Stored + 1) /\ log'[i].role # "none"
               /\ \A j \in (i + 1) .. (Stored + 1) : log'[j].id # log'[i].id
    BY <1>1 DEF Existing, Bindings
<1>3. \A i : i \in Existing <=>
               /\ i \in 1 .. Stored /\ log[i].role # "none"
               /\ \A j \in (i + 1) .. Stored : log[j].id # log[i].id
    BY DEF Existing, Bindings
<1>4. ASSUME NEW i \in 1 .. Stored
      PROVE  i \in Existing' <=> i \in Existing /\ log[i].id # v.id
    <2>1. Stored + 1 \in (i + 1) .. (Stored + 1)
        BY <1>1
    <2>2. \A j \in (i + 1) .. Stored : j \in 1 .. Stored /\ j \in (i + 1) .. (Stored + 1)
        BY <1>1
    <2>3. \A j \in (i + 1) .. (Stored + 1) : j = Stored + 1 \/ j \in (i + 1) .. Stored
        BY <1>1
    <2>4. i \in 1 .. (Stored + 1)
        BY <1>1
    <2>5. (\A j \in (i + 1) .. (Stored + 1) : log'[j].id # log[i].id)
            <=> (\A j \in (i + 1) .. Stored : log[j].id # log[i].id) /\ log[i].id # v.id
        BY <1>1, <2>1, <2>2, <2>3
    <2> QED BY <1>1, <1>2, <1>3, <2>4, <2>5, ZenonT(60)
<1>5. Stored + 1 \in Existing' <=> v.role # "none"
    <2>1. Stored + 1 \in 1 .. (Stored + 1) /\ ((Stored + 1) + 1) .. (Stored + 1) = {}
        BY <1>1
    <2> QED BY <1>1, <1>2, <2>1
<1>6. \A i : i \in Existing' \/ i \in Existing => i \in 1 .. Stored \/ i = Stored + 1
    BY <1>1, <1>2, <1>3
<1>7. Stored + 1 \notin Existing
    BY <1>1, <1>3
<1> QED BY <1>4, <1>5, <1>6, <1>7

\* What is existing is in the log.
LEMMA ExistingInLog ==
    ASSUME NEW i \in Existing
    PROVE  i \in 1 .. Stored /\ log[i].role # "none"
BY DEF Existing, Bindings

\* Who manages a project.
LEMMA ManagerIs ==
    \A u, p : u \in Managers(p) <=>
                \E i \in Existing : /\ log[i].project = p /\ log[i].role \in ManagingRoles
                                    /\ log[i].user = u
BY DEF Managers

\* The name of a new binding has not been used.
LEMMA NewName ==
    ASSUME TypeOK, NamesCount
    PROVE  /\ NextId \in Nat \ {0}
           /\ \A i \in 1 .. Stored : log[i].id \in 1 .. (NextId - 1)
           /\ \A id \in 1 .. (NextId - 1) : \E i \in 1 .. Stored : log[i].id = id
           /\ NextId - 1 \in 0 .. Stored
<1>1. PICK n \in 0 .. Stored :
         /\ \A i \in 1 .. Stored : log[i].id \in 1 .. n
         /\ \A id \in 1 .. n : \E i \in 1 .. Stored : log[i].id = id
    BY DEF NamesCount
<1>2. Stored \in Nat /\ n \in Nat
    <2>1. log \in Seq(Versions)
        BY DEF TypeOK
    <2> QED BY <1>1, <2>1 DEF Stored
<1>3. {log[i].id : i \in 1 .. Stored} = 1 .. n
    BY <1>1, <1>2
<1>4. Cardinality(1 .. n) = n
    <2>1. Cardinality(1 .. n) = IF 1 > n THEN 0 ELSE n - 1 + 1
        BY <1>2, FS_Interval
    <2> QED BY <1>2, <2>1
<1>5. NextId = n + 1
    BY <1>3, <1>4 DEF NextId
<1> QED BY <1>1, <1>2, <1>5

-----------------------------------------------------------------------------
(* Where a binding was created.                                            *)

FirstOf(i, j) == /\ j \in 1 .. i /\ log[j].id = log[i].id
                 /\ \A k \in 1 .. (j - 1) : log[k].id # log[i].id
LogOK == log \in Seq(Versions)
CreatedIsFirst == \A i \in 1 .. Stored : FirstOf(i, Created(i))
FirstIsCreated == \A i \in 1 .. Stored, j \in 1 .. Stored : FirstOf(i, j) => Created(i) = j

\* Created finds the version in which a binding was created.
LEMMA CreatedExists == log \in Seq(Versions) => CreatedIsFirst
<1> SUFFICES ASSUME log \in Seq(Versions), NEW i \in 1 .. Stored
             PROVE  FirstOf(i, Created(i))
    BY DEF CreatedIsFirst
<1>1. i \in Nat /\ i > 0
    BY DEF Stored
<1> DEFINE S == {j \in 1 .. i : log[j].id = log[i].id}
<1>2. S \in SUBSET Nat /\ i \in S
    BY <1>1
<1>3. PICK m \in S : \A j \in S : m <= j
    <2> HIDE DEF S
    <2> QED BY <1>2, LeastElement
<1>4. m \in 1 .. i /\ log[m].id = log[i].id
    BY <1>3
<1>5. \A k \in 1 .. (m - 1) : log[k].id # log[i].id
    <2> SUFFICES ASSUME NEW k \in 1 .. (m - 1), log[k].id = log[i].id
                 PROVE  FALSE
        OBVIOUS
    <2>1. k \in S /\ k < m /\ k \in Nat /\ m \in Nat
        BY <1>1, <1>4
    <2> QED BY <1>3, <2>1
<1> QED BY <1>4, <1>5 DEF Created, FirstOf

\* The first version of a binding is the one that Created finds.
LEMMA CreatedUnique == LogOK => FirstIsCreated
<1> SUFFICES ASSUME log \in Seq(Versions), NEW i \in 1 .. Stored, NEW j \in 1 .. Stored,
                    FirstOf(i, j)
             PROVE  Created(i) = j
    BY DEF FirstIsCreated, LogOK
<1>1. i \in Nat /\ j \in Nat
    BY DEF Stored
<1>2. FirstOf(i, Created(i))
    BY CreatedExists DEF CreatedIsFirst
<1>3. Created(i) \in Nat
    BY <1>1, <1>2 DEF FirstOf
<1>4. ~(Created(i) < j) /\ ~(j < Created(i))
    BY <1>1, <1>2, <1>3 DEF FirstOf
<1> QED BY <1>1, <1>3, <1>4

\* A version that is appended does not change where the others began; a
\* new version of a binding begins where the binding does.
LEMMA CreatedAfter ==
    ASSUME log \in Seq(Versions), NEW v \in Versions, log' = Append(log, v)
    PROVE  /\ \A i \in 1 .. Stored : Created(i)' = Created(i)
           /\ \A b \in 1 .. Stored, n \in {Stored + 1} :
                 log[b].id = v.id => Created(n)' = Created(b)
<1>1. /\ log' \in Seq(Versions) /\ Stored \in Nat /\ Stored' = Stored + 1
      /\ \A i \in 1 .. Stored : log'[i] = log[i]
      /\ log'[Stored + 1] = v
    BY Appended
<1>2. FirstIsCreated'
    <2>1. LogOK'
        BY <1>1 DEF LogOK
    <2> QED BY <2>1, CreatedUnique, PTL
<1>3. CreatedIsFirst
    BY CreatedExists
<1>4. ASSUME NEW b \in 1 .. Stored, NEW i \in 1 .. (Stored + 1),
             b <= i, log'[i].id = log[b].id
      PROVE  Created(i)' = Created(b)
    <2>1. PICK c : c = Created(b)
        OBVIOUS
    <2>2. FirstOf(b, c)
        BY <1>3, <2>1 DEF CreatedIsFirst
    <2>3. c \in 1 .. Stored /\ c \in 1 .. i /\ \A k \in 1 .. (c - 1) : k \in 1 .. Stored
        BY <1>1, <1>4, <2>2 DEF FirstOf
    <2>4. FirstOf(i, c)'
        BY <1>1, <1>4, <2>2, <2>3 DEF FirstOf
    <2>5. i \in 1 .. Stored' /\ c \in 1 .. Stored'
        BY <1>1, <2>3
    <2> QED BY <1>2, <2>1, <2>4, <2>5 DEF FirstIsCreated
<1>5. \A i \in 1 .. Stored : i \in 1 .. (Stored + 1) /\ i <= i
    BY <1>1
<1>6. \A b \in 1 .. Stored : b <= Stored + 1 /\ Stored + 1 \in 1 .. (Stored + 1)
    BY <1>1
<1>7. \A i \in 1 .. Stored : Created(i)' = Created(i)
    BY <1>1, <1>4, <1>5
<1>8. \A b \in 1 .. Stored, n \in {Stored + 1} : log[b].id = v.id => Created(n)' = Created(b)
    BY <1>1, <1>4, <1>6
<1> QED BY <1>7, <1>8

\* A version under a new name is where its binding begins.
LEMMA CreatedFresh ==
    ASSUME MembersInv, NEW v \in Versions, log' = Append(log, v), v.id = NextId
    PROVE  \A n \in {Stored + 1} : Created(n)' = n
<1>0. log \in Seq(Versions)
    BY DEF MembersInv, TypeOK
<1>1. /\ log' \in Seq(Versions) /\ Stored \in Nat /\ Stored' = Stored + 1
      /\ \A i \in 1 .. Stored : log'[i] = log[i]
      /\ log'[Stored + 1] = v
    BY <1>0, Appended
<1>2. \A i \in 1 .. Stored : log[i].id \in 1 .. (NextId - 1) /\ NextId \in Nat
    BY NewName DEF MembersInv
<1>3. FirstIsCreated'
    <2>1. LogOK'
        BY <1>1 DEF LogOK
    <2> QED BY <2>1, CreatedUnique, PTL
<1> SUFFICES ASSUME NEW n \in {Stored + 1} PROVE Created(n)' = n
    OBVIOUS
<1>4. n \in 1 .. n /\ \A k \in 1 .. (n - 1) : k \in 1 .. Stored
    BY <1>1
<1>5. FirstOf(n, n)'
    BY <1>1, <1>2, <1>4 DEF FirstOf
<1>6. n \in 1 .. Stored'
    BY <1>1
<1> QED BY <1>3, <1>5, <1>6 DEF FirstIsCreated

\* A binding of somebody whom the first n entries do not show as a member
\* was created after them: had it been there, it would have been shown,
\* for nobody who was removed comes back under the same name.
LEMMA UnseenBefore ==
    ASSUME MembersInv, NEW n \in 0 .. Stored, NEW i \in Existing,
           BindingsOf(log[i].user, log[i].project, n) = {}
    PROVE  n < Created(i)
<1>1. /\ Stored \in Nat /\ n \in Nat /\ log \in Seq(Versions)
      /\ i \in 1 .. Stored /\ i \in Nat /\ log[i].role # "none"
    <2>1. log \in Seq(Versions)
        BY DEF MembersInv, TypeOK
    <2>2. Stored \in Nat
        BY <2>1 DEF Stored
    <2> QED BY <2>1, <2>2, ExistingInLog
<1>2. FirstOf(i, Created(i))
    BY <1>1, CreatedExists DEF CreatedIsFirst
<1>3. Created(i) \in 1 .. i /\ log[Created(i)].id = log[i].id
    BY <1>2 DEF FirstOf
<1> SUFFICES ASSUME Created(i) <= n PROVE FALSE
    BY <1>1, <1>3
<1> DEFINE S == {k \in 1 .. n : log[k].id = log[i].id}
<1>4. S \in SUBSET (1 .. n) /\ S # {}
    BY <1>1, <1>3
<1>5. PICK m \in S : \A k \in S : k <= m
    <2> HIDE DEF S
    <2> QED BY <1>1, <1>4, GreatestElement
<1>6. m \in 1 .. n /\ m \in 1 .. Stored /\ log[m].id = log[i].id
    BY <1>1, <1>5
<1>7. log[m].user = log[i].user /\ log[m].project = log[i].project
    BY <1>1, <1>6 DEF MembersInv, NamesCount
<1>8. m <= i
    <2>1. \A j \in (i + 1) .. Stored : log[j].id # log[i].id
        BY DEF Existing, Bindings
    <2> QED BY <1>1, <1>6, <2>1
<1>9. log[m].role # "none"
    <2>1. CASE m = i
        BY <1>1, <2>1
    <2>2. CASE m < i
        BY <1>1, <1>6, <2>2 DEF MembersInv, RemovedStaysRemoved
    <2> QED BY <1>1, <1>6, <1>8, <2>1, <2>2
<1>10. \A j \in (m + 1) .. n : log[j].id # log[m].id
    <2> SUFFICES ASSUME NEW j \in (m + 1) .. n, log[j].id = log[m].id PROVE FALSE
        OBVIOUS
    <2>1. j \in 1 .. n /\ j > m /\ j \in Nat /\ m \in Nat
        BY <1>1, <1>6
    <2>2. j \in S
        BY <1>6, <2>1
    <2> QED BY <1>5, <2>1, <2>2
<1> QED BY <1>6, <1>7, <1>9, <1>10 DEF BindingsOf, Bindings

-----------------------------------------------------------------------------
(* The two kinds of writes: a new binding for somebody whom the writer had  *)
(* not seen as a member, and a new version of an existing binding.          *)

Fresh(v) == /\ v.id = NextId /\ v.role # "none"
            /\ v.seen \in 0 .. Stored /\ BindingsOf(v.user, v.project, v.seen) = {}
Over(v) == \E b \in Existing : /\ log[b].id = v.id /\ log[b].user = v.user
                               /\ log[b].project = v.project
                               /\ v.role = "none" \/ b <= v.seen

\* A written version keeps the names of bindings in order, and a removed binding
\* removed.
LEMMA NamesAfter ==
    ASSUME MembersInv, NEW v \in Versions, log' = Append(log, v), Fresh(v) \/ Over(v)
    PROVE  NamesCount' /\ RemovedStaysRemoved'
<1>0. log \in Seq(Versions)
    BY DEF MembersInv, TypeOK
<1>1. /\ Stored \in Nat /\ Stored' = Stored + 1
      /\ \A i \in 1 .. Stored : log'[i] = log[i] /\ log[i] \in Versions
      /\ log'[Stored + 1] = v
    BY <1>0, Appended
<1>2. \A i \in 1 .. (Stored + 1) : i \in 1 .. Stored \/ i = Stored + 1
    BY <1>1
<1>3. /\ NextId \in Nat \ {0}
      /\ \A i \in 1 .. Stored : log[i].id \in 1 .. (NextId - 1)
      /\ \A id \in 1 .. (NextId - 1) : \E i \in 1 .. Stored : log[i].id = id
      /\ NextId - 1 \in 0 .. Stored
    BY NewName DEF MembersInv
<1>4. /\ \A i, j \in 1 .. Stored :
            log[i].id = log[j].id => log[i].user = log[j].user /\ log[i].project = log[j].project
      /\ \A i, j \in 1 .. Stored : i < j /\ log[i].id = log[j].id => log[i].role # "none"
    BY DEF MembersInv, NamesCount, RemovedStaysRemoved
<1>5. ASSUME NEW n \in 0 .. (Stored + 1),
             \A i \in 1 .. Stored : log[i].id \in 1 .. n,
             v.id \in 1 .. n,
             \A id \in 1 .. n : id = v.id \/ \E i \in 1 .. Stored : log[i].id = id,
             \A i \in 1 .. Stored : log[i].id = v.id =>
                /\ log[i].user = v.user /\ log[i].project = v.project
                /\ log[i].role # "none"
      PROVE  NamesCount' /\ RemovedStaysRemoved'
    <2>1. \A i \in 1 .. Stored' : log'[i].id \in 1 .. n
        BY <1>1, <1>2, <1>5
    <2>2. \A id \in 1 .. n : \E i \in 1 .. Stored' : log'[i].id = id
        <3>1. Stored + 1 \in 1 .. Stored' /\ \A i \in 1 .. Stored : i \in 1 .. Stored'
            BY <1>1
        <3> QED BY <1>1, <1>5, <3>1, ZenonT(60)
    <2>3. \A i, j \in 1 .. Stored' : log'[i].id = log'[j].id =>
             log'[i].user = log'[j].user /\ log'[i].project = log'[j].project
        <3> SUFFICES ASSUME NEW i \in 1 .. Stored', NEW j \in 1 .. Stored',
                            log'[i].id = log'[j].id
                     PROVE  log'[i].user = log'[j].user /\ log'[i].project = log'[j].project
            OBVIOUS
        <3>1. \A k \in 1 .. Stored' : \/ k \in 1 .. Stored /\ log'[k] = log[k]
                                     \/ log'[k] = v
            BY <1>1, <1>2
        <3>2. CASE i \in 1 .. Stored /\ j \in 1 .. Stored
            BY <1>1, <1>4, <3>2, ZenonT(60)
        <3>3. CASE log'[i] = v
            BY <1>5, <3>1, <3>3
        <3>4. CASE log'[j] = v
            BY <1>5, <3>1, <3>4
        <3> QED BY <3>1, <3>2, <3>3, <3>4
    <2>4. \A i, j \in 1 .. Stored' : i < j /\ log'[i].id = log'[j].id => log'[i].role # "none"
        <3> SUFFICES ASSUME NEW i \in 1 .. Stored', NEW j \in 1 .. Stored',
                            i < j, log'[i].id = log'[j].id
                     PROVE  log'[i].role # "none"
            OBVIOUS
        <3>1. i \in 1 .. Stored /\ j \in 1 .. (Stored + 1)
            BY <1>1
        <3>2. CASE j \in 1 .. Stored
            BY <1>1, <1>4, <3>1, <3>2
        <3>3. CASE j = Stored + 1
            BY <1>1, <1>5, <3>1, <3>3
        <3> QED BY <1>2, <3>1, <3>2, <3>3
    <2> QED BY <1>1, <2>1, <2>2, <2>3, <2>4 DEF NamesCount, RemovedStaysRemoved
<1>6. CASE Fresh(v)
    <2>1. /\ NextId \in 0 .. (Stored + 1)
          /\ \A i \in 1 .. Stored : log[i].id \in 1 .. NextId /\ log[i].id # NextId
          /\ \A id \in 1 .. NextId : id = NextId \/ id \in 1 .. (NextId - 1)
          /\ NextId \in 1 .. NextId
        BY <1>1, <1>3
    <2>2. v.id = NextId
        BY <1>6 DEF Fresh
    <2> QED BY <1>3, <1>5, <2>1, <2>2
<1>7. CASE Over(v)
    <2>1. PICK b \in Existing : /\ log[b].id = v.id /\ log[b].user = v.user
                                /\ log[b].project = v.project
        BY <1>7 DEF Over
    <2>2. /\ b \in 1 .. Stored /\ log[b].role # "none"
          /\ \A j \in (b + 1) .. Stored : log[j].id # log[b].id
        BY DEF Existing, Bindings
    <2>3. \A i \in 1 .. Stored : log[i].id = v.id =>
             /\ log[i].user = v.user /\ log[i].project = v.project /\ log[i].role # "none"
        <3> SUFFICES ASSUME NEW i \in 1 .. Stored, log[i].id = v.id
                     PROVE  /\ log[i].user = v.user /\ log[i].project = v.project
                            /\ log[i].role # "none"
            OBVIOUS
        <3>1. i <= b
            BY <1>1, <2>1, <2>2
        <3>2. i < b => log[i].role # "none"
            BY <1>4, <2>1, <2>2
        <3>3. i = b \/ i < b
            BY <1>1, <2>2, <3>1
        <3> QED BY <1>4, <2>1, <2>2, <3>2, <3>3
    <2>4. NextId - 1 \in 0 .. (Stored + 1) /\ v.id \in 1 .. (NextId - 1)
        BY <1>1, <1>3, <2>1, <2>2
    <2> QED BY <1>3, <1>5, <2>3, <2>4
<1> QED BY <1>6, <1>7

\* A written version is over none that its request had not seen.
LEMMA EditsAfter ==
    ASSUME MembersInv, NEW v \in Versions, log' = Append(log, v), Fresh(v) \/ Over(v)
    PROVE  EditsAreSeen'
<1>0. log \in Seq(Versions)
    BY DEF MembersInv, TypeOK
<1>1. /\ Stored \in Nat /\ Stored' = Stored + 1
      /\ \A i \in 1 .. Stored : log'[i] = log[i] /\ log[i] \in Versions
      /\ log'[Stored + 1] = v
    BY <1>0, Appended
<1>2. \A i \in 1 .. Stored : log[i].id \in 1 .. (NextId - 1) /\ NextId \in Nat
    BY NewName DEF MembersInv
<1> SUFFICES ASSUME NEW i \in 1 .. Stored', NEW j \in 1 .. Stored', i < j,
                    log'[i].id = log'[j].id, log'[j].role # "none"
             PROVE  i <= log'[j].seen
    BY DEF EditsAreSeen
<1>7. /\ j \in 1 .. (Stored + 1) /\ i \in 1 .. Stored /\ i \in Nat
      /\ j \in 1 .. Stored \/ j = Stored + 1
    BY <1>1
<1>3. log'[i] = log[i]
    BY <1>1, <1>7
<1>8. j = Stored + 1 => log'[j] = v
    BY <1>1
<1>4. CASE j \in 1 .. Stored
    BY <1>1, <1>3, <1>4, <1>7 DEF MembersInv, EditsAreSeen
<1>5. CASE j = Stored + 1 /\ Fresh(v)
    <2>1. log[i].id = v.id
        BY <1>3, <1>5, <1>8
    <2> QED BY <1>2, <1>5, <1>7, <2>1 DEF Fresh
<1>6. CASE j = Stored + 1 /\ Over(v)
    <2>1. PICK b \in Existing : log[b].id = v.id /\ b <= v.seen
        BY <1>1, <1>6 DEF Over
    <2>2. b \in 1 .. Stored /\ \A k \in (b + 1) .. Stored : log[k].id # log[b].id
        BY DEF Existing, Bindings
    <2>7. b \in Nat
        BY <1>1, <2>2
    <2>8. log[i].id = v.id
        BY <1>3, <1>6, <1>8
    <2>5. log[i].id = log[b].id /\ b \in Nat
        BY <2>1, <2>7, <2>8
    <2>3. i <= b
        <3>1. ~(i > b)
            BY <1>1, <1>7, <2>2, <2>5
        <3> QED BY <1>7, <2>5, <3>1
    <2>4. v.seen \in Nat
        BY DEF Versions
    <2>6. i <= v.seen
        BY <1>7, <2>1, <2>3, <2>4, <2>5
    <2> QED BY <1>1, <1>6, <2>6
<1> QED BY <1>7, <1>4, <1>5, <1>6

\* A written version adds no second binding that its request could have seen.
LEMMA DuplicatesAfter ==
    ASSUME MembersInv, DuplicatesOnlyUnseen, NEW v \in Versions, log' = Append(log, v),
           Fresh(v) \/ Over(v)
    PROVE  DuplicatesOnlyUnseen'
<1>0. log \in Seq(Versions)
    BY DEF MembersInv, TypeOK
<1>1. /\ Stored \in Nat /\ Stored' = Stored + 1
      /\ \A i \in 1 .. Stored : log'[i] = log[i] /\ log[i] \in Versions
      /\ log'[Stored + 1] = v
    BY <1>0, Appended
<1>2. \A i : i \in Existing' <=>
               \/ i \in Existing /\ log[i].id # v.id
               \/ i = Stored + 1 /\ v.role # "none"
    BY <1>0, ExistingAfter
<1>3. /\ \A i \in 1 .. Stored : Created(i)' = Created(i)
      /\ \A b \in 1 .. Stored, n \in {Stored + 1} : log[b].id = v.id => Created(n)' = Created(b)
    BY <1>0, CreatedAfter
<1>4. \A i \in Existing : i \in 1 .. Stored
    BY ExistingInLog
<1>5. \A i, j \in Existing :
         /\ log[i].user = log[j].user /\ log[i].project = log[j].project
         /\ log[i].id < log[j].id
         => log[Created(j)].seen < Created(i)
    BY DEF DuplicatesOnlyUnseen
<1> SUFFICES ASSUME NEW i \in Existing', NEW j \in Existing',
                    log'[i].user = log'[j].user, log'[i].project = log'[j].project,
                    log'[i].id < log'[j].id
             PROVE  log'[Created(j)'].seen < Created(i)'
    BY DEF DuplicatesOnlyUnseen
<1>10. \A k \in 1 .. Stored : Created(k) \in 1 .. Stored
    <2>1. CreatedIsFirst
        BY <1>0, CreatedExists
    <2>2. \A k \in 1 .. Stored : Created(k) \in 1 .. k
        BY <2>1 DEF CreatedIsFirst, FirstOf
    <2> QED BY <1>1, <2>2
<1>6. CASE i \in Existing /\ j \in Existing
    <2>1. /\ log[Created(j)].seen < Created(i)
          /\ Created(i)' = Created(i) /\ Created(j)' = Created(j)
        BY <1>1, <1>3, <1>4, <1>5, <1>6
    <2>2. log'[Created(j)] = log[Created(j)]
        BY <1>1, <1>4, <1>6, <1>10
    <2> QED BY <2>1, <2>2
<1>7. CASE i \in Existing /\ j = Stored + 1
    <2>1. /\ log[i].user = v.user /\ log[i].project = v.project /\ log[i].id < v.id
          /\ Created(i)' = Created(i) /\ i \in 1 .. Stored
        BY <1>1, <1>3, <1>4, <1>7
    <2>2. CASE Fresh(v)
        <3>1. v.seen \in 0 .. Stored /\ BindingsOf(log[i].user, log[i].project, v.seen) = {}
            BY <2>1, <2>2 DEF Fresh
        <3>2. v.seen < Created(i)
            BY <1>7, <3>1, UnseenBefore
        <3>3. Created(j)' = Stored + 1
            BY <1>0, <1>7, <2>2, CreatedFresh DEF Fresh
        <3> QED BY <1>1, <1>7, <2>1, <3>2, <3>3
    <2>3. CASE Over(v)
        <3>1. Stored + 1 \notin Existing
            BY <1>1, <1>4
        <3>2. v.role # "none"
            BY <1>2, <1>7, <3>1
        <3>3. PICK b \in Existing : /\ log[b].id = v.id /\ log[b].user = v.user
                                    /\ log[b].project = v.project
            BY <2>3, <3>2 DEF Over
        <3>4. log[Created(b)].seen < Created(i)
            BY <1>5, <1>7, <2>1, <3>3
        <3>5. Created(j)' = Created(b) /\ log'[Created(b)] = log[Created(b)]
            BY <1>1, <1>3, <1>4, <1>7, <1>10, <3>3
        <3> QED BY <2>1, <3>4, <3>5
    <2> QED BY <2>2, <2>3
<1>8. CASE i = Stored + 1 /\ j \in Existing
    <2>1. /\ v.user = log[j].user /\ v.project = log[j].project /\ v.id < log[j].id
          /\ j \in 1 .. Stored /\ log'[j] = log[j]
        BY <1>1, <1>4, <1>8
    <2>2. CASE Fresh(v)
        <3>1. log[j].id \in 1 .. (NextId - 1) /\ NextId \in Nat
            BY <2>1, NewName DEF MembersInv
        <3> QED BY <2>1, <2>2, <3>1 DEF Fresh
    <2>3. CASE Over(v)
        <3>1. PICK b \in Existing : /\ log[b].id = v.id /\ log[b].user = v.user
                                    /\ log[b].project = v.project
            BY <2>3 DEF Over
        <3>2. Created(i)' = Created(b)
            BY <1>3, <1>4, <1>8, <3>1
        <3>3. log[Created(j)].seen < Created(b)
            BY <1>5, <1>8, <2>1, <3>1
        <3>4. Created(j)' = Created(j) /\ log'[Created(j)] = log[Created(j)]
            BY <1>1, <1>3, <1>10, <2>1
        <3> QED BY <3>2, <3>3, <3>4
    <2> QED BY <2>2, <2>3
<1>9. CASE i = Stored + 1 /\ j = Stored + 1
    <2>1. v.id < v.id /\ v.id \in Nat
        BY <1>1, <1>9 DEF Versions
    <2> QED BY <2>1
<1> QED BY <1>2, <1>6, <1>7, <1>8, <1>9

-----------------------------------------------------------------------------
(* Requests and managers.                                                  *)

\* The log and the projects only grow.
Grows == /\ Stored \in Nat /\ Stored' \in Nat /\ Stored <= Stored'
         /\ \A i \in 1 .. Stored : log'[i] = log[i]
         /\ Known \subseteq Known'

\* What a request has found out stays true.
LEMMA InformedKept ==
    ASSUME MembersInv, Grows, NEW r \in Requests, pc'[r] = pc[r], req'[r] = req[r]
    PROVE  Informed(r)'
<1>1. /\ Informed(r) /\ Stored \in Nat /\ Stored' \in Nat /\ Stored <= Stored'
      /\ \A i \in 1 .. Stored : log'[i] = log[i]
      /\ Known \subseteq Known'
    BY DEF MembersInv, RequestsInformed, Grows
<1> DEFINE q == req[r]
<1>2. pc[r] \in {"new", "bind", "invite", "write"} =>
         q.caller \in Callers /\ q.seen \in 0 .. Stored /\ q.seen \in 0 .. Stored'
    BY <1>1 DEF Informed
<1>3. pc[r] \in {"bind", "invite", "write"} => q.project \in Known'
    BY <1>1 DEF Informed
<1>4. pc[r] \in {"bind", "invite"} => \A i \in 1 .. q.seen : log'[i].project # q.project
    <2>1. pc[r] \in {"bind", "invite"} => \A i \in 1 .. q.seen : log[i].project # q.project
        BY <1>1 DEF Informed
    <2> QED BY <1>1, <1>2, <2>1
<1>5. pc[r] = "write" => /\ q.user \in Users
                         /\ q.user = q.caller => q.caller \in Admins
                         /\ q.op \in {"add", "edit"} => q.role \in Roles
    BY <1>1 DEF Informed
<1>6. pc[r] = "write" /\ q.op = "add" =>
         {i \in {k \in 1 .. q.seen : /\ log'[k].role # "none"
                                     /\ \A j \in (k + 1) .. q.seen : log'[j].id # log'[k].id} :
            log'[i].user = q.user /\ log'[i].project = q.project} = {}
    <2> SUFFICES ASSUME pc[r] = "write", q.op = "add", NEW i \in 1 .. q.seen,
                        log'[i].role # "none",
                        \A j \in (i + 1) .. q.seen : log'[j].id # log'[i].id,
                        log'[i].user = q.user, log'[i].project = q.project
                 PROVE  FALSE
        OBVIOUS
    <2>1. BindingsOf(q.user, q.project, q.seen) = {}
        BY <1>1 DEF Informed
    <2>2. \A k \in 1 .. q.seen : log'[k] = log[k]
        BY <1>1, <1>2
    <2>3. \A j \in (i + 1) .. q.seen : j \in 1 .. q.seen
        BY <1>1, <1>2
    <2>4. i \in BindingsOf(q.user, q.project, q.seen)
        BY <2>2, <2>3 DEF BindingsOf, Bindings
    <2> QED BY <2>1, <2>4
<1>7. pc[r] = "write" /\ q.op # "add" => /\ q.binding \in 1 .. q.seen
                                         /\ log'[q.binding].user = q.user
                                         /\ log'[q.binding].project = q.project
    <2>1. pc[r] = "write" /\ q.op # "add" => /\ q.binding \in 1 .. q.seen
                                             /\ log[q.binding].user = q.user
                                             /\ log[q.binding].project = q.project
        BY <1>1 DEF Informed
    <2>2. pc[r] = "write" /\ q.op # "add" => log'[q.binding] = log[q.binding]
        BY <1>1, <1>2, <2>1
    <2> QED BY <2>1, <2>2
<1> QED BY <1>2, <1>3, <1>4, <1>5, <1>6, <1>7 DEF Informed, BindingsOf, Bindings

\* A step of one request.
LEMMA InformedAfter ==
    ASSUME MembersInv, Grows, NEW r \in Requests, NEW to, NEW x,
           pc' = [pc EXCEPT ![r] = to], req' = [req EXCEPT ![r] = x], Informed(r)'
    PROVE  RequestsInformed'
<1>1. \A q \in Requests : q # r => pc'[q] = pc[q] /\ req'[q] = req[q]
    BY DEF MembersInv, TypeOK
<1>2. \A q \in Requests : q # r => Informed(q)'
    BY <1>1, InformedKept
<1> QED BY <1>2 DEF RequestsInformed

\* Managers after a write.
LEMMA ManagersAfter ==
    ASSUME MembersInv, NEW v \in Versions, log' = Append(log, v), Fresh(v) \/ Over(v)
    PROVE  /\ v.role \in ManagingRoles => v.user \in Managers(v.project)'
           /\ \A p, u : u \in Managers(p) /\ (Fresh(v) \/ u # v.user \/ p # v.project)
                          => u \in Managers(p)'
<1>0. log \in Seq(Versions)
    BY DEF MembersInv, TypeOK
<1>1. /\ Stored \in Nat /\ Stored' = Stored + 1
      /\ \A i \in 1 .. Stored : log'[i] = log[i] /\ log[i] \in Versions
      /\ log'[Stored + 1] = v
    BY <1>0, Appended
<1>2. \A i : i \in Existing' <=>
               \/ i \in Existing /\ log[i].id # v.id
               \/ i = Stored + 1 /\ v.role # "none"
    BY <1>0, ExistingAfter
<1>3. \A p, u : u \in Managers(p)' <=>
                  \E i \in Existing' : /\ log'[i].project = p /\ log'[i].role \in ManagingRoles
                                       /\ log'[i].user = u
    BY DEF Managers
<1>4. v.role \in ManagingRoles => v.user \in Managers(v.project)'
    <2> SUFFICES ASSUME v.role \in ManagingRoles
                 PROVE  v.user \in Managers(v.project)'
        OBVIOUS
    <2>1. v.role # "none"
        BY DEF ManagingRoles
    <2>2. Stored + 1 \in Existing'
        BY <1>2, <2>1
    <2> QED BY <1>1, <1>3, <2>2
<1>5. ASSUME NEW p, NEW u, u \in Managers(p), Fresh(v) \/ u # v.user \/ p # v.project
      PROVE  u \in Managers(p)'
    <2>1. PICK i \in Existing : /\ log[i].project = p /\ log[i].role \in ManagingRoles
                                /\ log[i].user = u
        BY <1>5, ManagerIs
    <2>2. i \in 1 .. Stored
        BY ExistingInLog
    <2>3. log[i].id # v.id
        <3>1. CASE Fresh(v)
            <4>1. log[i].id \in 1 .. (NextId - 1) /\ NextId \in Nat
                BY <2>2, NewName DEF MembersInv
            <4> QED BY <3>1, <4>1 DEF Fresh
        <3>2. CASE Over(v) /\ (u # v.user \/ p # v.project)
            <4>1. PICK b \in Existing : /\ log[b].id = v.id /\ log[b].user = v.user
                                        /\ log[b].project = v.project
                BY <3>2 DEF Over
            <4>2. b \in 1 .. Stored
                BY ExistingInLog
            <4> QED BY <2>1, <2>2, <3>2, <4>1, <4>2 DEF MembersInv, NamesCount
        <3> QED BY <1>5, <3>1, <3>2
    <2> QED BY <1>1, <1>2, <1>3, <2>1, <2>2, <2>3
<1> QED BY <1>4, <1>5

\* A request that writes a binding keeps the invariant.
LEMMA WriteStep ==
    ASSUME MembersInv, DuplicatesOnlyUnseen, NEW r \in Requests,
           NEW v \in Versions, v.project \in Known, log' = Append(log, v), Fresh(v) \/ Over(v),
           UNCHANGED <<cache, projects, shown>>,
           NEW to \in {"invite", "answered"}, pc' = [pc EXCEPT ![r] = to],
           NEW x \in RequestData, req' = [req EXCEPT ![r] = x],
           excused' \subseteq [project : Nat, why : {"unfinished", "admin", "crossed"}],
           Informed(r)'
    PROVE  MembersInv' /\ DuplicatesOnlyUnseen'
<1>0. log \in Seq(Versions)
    BY DEF MembersInv, TypeOK
<1>1. /\ log' \in Seq(Versions) /\ Stored \in Nat /\ Stored' = Stored + 1
      /\ \A i \in 1 .. Stored : log'[i] = log[i]
      /\ log'[Stored + 1] = v
    BY <1>0, Appended
<1>2. Known' = Known
    BY DEF Known
<1>3. TypeOK'
    <2>1. \A i \in 1 .. Stored' : log'[i].project \in Known'
        <3>1. \A i \in 1 .. Stored' : i \in 1 .. Stored \/ i = Stored + 1
            BY <1>1
        <3> QED BY <1>1, <1>2, <3>1 DEF MembersInv, TypeOK
    <2>2. cache' \in 0 .. Stored'
        BY <1>1 DEF MembersInv, TypeOK
    <2>3. /\ pc' \in [Requests -> {"idle", "new", "bind", "invite", "write", "answered"}]
          /\ req' \in [Requests -> RequestData]
        BY DEF MembersInv, TypeOK
    <2> QED BY <1>1, <1>2, <2>1, <2>2, <2>3 DEF MembersInv, TypeOK
<1>4. RequestsInformed'
    <2>1. Grows
        <3>1. Stored' \in Nat /\ Stored <= Stored'
            BY <1>1
        <3>2. Known \subseteq Known'
            BY <1>2
        <3> QED BY <1>1, <3>1, <3>2 DEF Grows
    <2> QED BY <2>1, InformedAfter
<1>5. NamesCount' /\ RemovedStaysRemoved' /\ EditsAreSeen'
    BY NamesAfter, EditsAfter
<1>6. DuplicatesOnlyUnseen'
    BY DuplicatesAfter
<1> QED BY <1>3, <1>4, <1>5, <1>6 DEF MembersInv

-----------------------------------------------------------------------------
(* One lemma per kind of step.                                             *)

Inv == MembersInv /\ DuplicatesOnlyUnseen /\ ManagerLeft

\* The log does not change.
LEMMA LogAlone ==
    ASSUME MembersInv, DuplicatesOnlyUnseen, UNCHANGED log
    PROVE  /\ NamesCount' /\ RemovedStaysRemoved' /\ EditsAreSeen' /\ DuplicatesOnlyUnseen'
           /\ Stored' = Stored /\ Stored \in Nat
           /\ \A p : Managers(p)' = Managers(p)
<1>1. NamesCount' /\ RemovedStaysRemoved' /\ EditsAreSeen' /\ Stored' = Stored
    BY DEF MembersInv, NamesCount, RemovedStaysRemoved, EditsAreSeen, Stored
<1>2. Existing' = Existing /\ (\A i : Created(i)' = Created(i))
    BY DEF Existing, Bindings, Stored, Created
<1>3. DuplicatesOnlyUnseen' /\ \A p : Managers(p)' = Managers(p)
    BY <1>2 DEF DuplicatesOnlyUnseen, Managers
<1>4. log \in Seq(Versions)
    BY DEF MembersInv, TypeOK
<1> QED BY <1>1, <1>3, <1>4 DEF Stored

\* A step of a request that writes no binding.
LEMMA QuietStep ==
    ASSUME MembersInv, DuplicatesOnlyUnseen, UNCHANGED <<log, cache, excused>>,
           NEW r \in Requests, NEW to \in {"new", "bind", "write", "answered"},
           NEW x \in RequestData,
           pc' = [pc EXCEPT ![r] = to], req' = [req EXCEPT ![r] = x],
           projects' \in Seq({"live", "deleted"}), Known \subseteq Known',
           shown' \in [Known' -> {"live", "deleted", "unknown"}],
           Informed(r)'
    PROVE  MembersInv' /\ DuplicatesOnlyUnseen'
<1>1. /\ NamesCount' /\ RemovedStaysRemoved' /\ EditsAreSeen' /\ DuplicatesOnlyUnseen'
      /\ Stored' = Stored /\ Stored \in Nat
    BY LogAlone
<1>2. TypeOK'
    <2>1. /\ pc' \in [Requests -> {"idle", "new", "bind", "invite", "write", "answered"}]
          /\ req' \in [Requests -> RequestData]
        BY DEF MembersInv, TypeOK
    <2>2. \A i \in 1 .. Stored' : log'[i].project \in Known'
        BY <1>1 DEF MembersInv, TypeOK
    <2> QED BY <1>1, <2>1, <2>2 DEF MembersInv, TypeOK
<1>3. RequestsInformed'
    <2>1. Grows
        BY <1>1 DEF Grows
    <2> QED BY <2>1, InformedAfter
<1> QED BY <1>1, <1>2, <1>3 DEF MembersInv

\* An answered request holds nothing.
LEMMA AnsweredStep ==
    ASSUME TypeOK, NEW r \in Requests, NEW from, Finish(r, from)
    PROVE  /\ pc[r] = from /\ pc' = [pc EXCEPT ![r] = "answered"]
           /\ req' = [req EXCEPT ![r] = NoRequest] /\ NoRequest \in RequestData
           /\ Informed(r)'
<1>1. /\ pc[r] = from /\ pc' = [pc EXCEPT ![r] = "answered"]
      /\ req' = [req EXCEPT ![r] = NoRequest]
    BY DEF Finish, Goto
<1>2. pc'[r] = "answered"
    BY <1>1 DEF TypeOK
<1>3. NoRequest \in RequestData
    BY DEF NoRequest, RequestData
<1> QED BY <1>1, <1>2, <1>3 DEF Informed

\* No project loses its excuse for having no manager.
LEMMA ManagerLeftKept ==
    ASSUME TypeOK, ManagerLeft, NEW r \in Requests, NEW to, NEW x,
           pc' = [pc EXCEPT ![r] = to], req' = [req EXCEPT ![r] = x],
           excused \subseteq excused',
           NEW p \in Known, projects[p] = "live", Managers(p) = {},
           pc[r] # "bind" \/ req[r].project # p
    PROVE  \/ \E e \in excused' : e.project = p
           \/ \E q \in Requests : pc'[q] = "bind" /\ req'[q].project = p
<1>1. CASE \E e \in excused : e.project = p
    BY <1>1
<1>2. CASE \E q \in Requests : pc[q] = "bind" /\ req[q].project = p
    <2>1. PICK q \in Requests : pc[q] = "bind" /\ req[q].project = p
        BY <1>2
    <2>2. q # r
        BY <2>1
    <2>3. pc'[q] = pc[q] /\ req'[q] = req[q]
        BY <2>2 DEF TypeOK
    <2> QED BY <2>1, <2>3
<1> QED BY <1>1, <1>2 DEF ManagerLeft

\* Counting the caller's projects keeps the invariant.
LEMMA CheckLimitStep ==
    ASSUME Inv, NEW r \in Requests, NEW c \in Callers, NEW invited \in SUBSET Users,
           CheckLimit(r, c, invited)
    PROVE  Inv'
<1> DEFINE x == [NoRequest EXCEPT !.caller = c, !.op = "create", !.seen = cache,
                                  !.invited = invited]
<1>1. /\ pc[r] = "idle" /\ pc' = [pc EXCEPT ![r] = "new"] /\ req' = [req EXCEPT ![r] = x]
      /\ UNCHANGED <<log, cache, projects, shown, excused>>
    BY DEF CheckLimit, Goto
<1>2. TypeOK /\ Stored \in Nat /\ Stored' = Stored /\ Known' = Known
    BY <1>1, LogAlone DEF Inv, MembersInv, Known
<1>3. x \in RequestData /\ x.caller = c /\ x.seen = cache
    <2>1. cache \in Nat
        BY <1>2 DEF TypeOK
    <2> QED BY <2>1 DEF NoRequest, RequestData
<1> HIDE DEF x
<1>4. Informed(r)'
    <2>1. pc'[r] = "new" /\ req'[r] = x
        BY <1>1, <1>2 DEF TypeOK
    <2>2. x.caller \in Callers /\ x.seen \in 0 .. Stored'
        BY <1>2, <1>3 DEF TypeOK
    <2> QED BY <2>1, <2>2 DEF Informed
<1>5. MembersInv' /\ DuplicatesOnlyUnseen'
    <2>1. PICK to \in {"new", "bind", "write", "answered"} : pc' = [pc EXCEPT ![r] = to]
        BY <1>1
    <2>2. /\ projects' \in Seq({"live", "deleted"}) /\ Known \subseteq Known'
          /\ shown' \in [Known' -> {"live", "deleted", "unknown"}]
        BY <1>1, <1>2 DEF TypeOK
    <2> QED BY <1>1, <1>3, <1>4, <2>1, <2>2, QuietStep DEF Inv
<1>6. ManagerLeft'
    BY <1>1, <1>2, LogAlone, ManagerLeftKept DEF Inv, MembersInv, ManagerLeft
<1> QED BY <1>5, <1>6 DEF Inv

\* A request that ends without writing a binding keeps the invariant.
LEMMA RefuseStep ==
    ASSUME Inv, NEW r \in Requests, NEW c \in Callers,
           RefuseCreation(r, c) \/ WriteFails(r) \/ \E p \in Known : DeleteProject(r, c, p)
    PROVE  Inv'
<1>1. TypeOK
    BY DEF Inv, MembersInv
<1>2. /\ pc[r] \in {"idle", "write"} /\ pc' = [pc EXCEPT ![r] = "answered"]
      /\ req' = [req EXCEPT ![r] = NoRequest] /\ NoRequest \in RequestData
      /\ Informed(r)'
    BY <1>1, AnsweredStep DEF RefuseCreation, WriteFails, DeleteProject
<1>3. UNCHANGED <<log, cache, shown, excused>>
    BY DEF RefuseCreation, WriteFails, DeleteProject
<1>4. /\ projects' \in Seq({"live", "deleted"}) /\ Known' = Known
      /\ \A p \in Known : projects'[p] = "live" => projects[p] = "live"
    <2>1. CASE UNCHANGED projects
        BY <1>1, <2>1 DEF TypeOK, Known
    <2>2. CASE \E p \in Known : projects' = [projects EXCEPT ![p] = "deleted"]
        BY <1>1, <2>2 DEF TypeOK, Known
    <2> QED BY <2>1, <2>2 DEF RefuseCreation, WriteFails, DeleteProject
<1>5. MembersInv' /\ DuplicatesOnlyUnseen'
    <2>1. PICK to \in {"new", "bind", "write", "answered"} : pc' = [pc EXCEPT ![r] = to]
        BY <1>2
    <2>2. /\ Known \subseteq Known'
          /\ shown' \in [Known' -> {"live", "deleted", "unknown"}]
        BY <1>1, <1>3, <1>4 DEF TypeOK
    <2>3. UNCHANGED <<log, cache, excused>>
        BY <1>3
    <2> QED BY <1>2, <1>4, <2>1, <2>2, <2>3, QuietStep DEF Inv
<1>6. ManagerLeft'
    <2>1. \A p : Managers(p)' = Managers(p)
        BY <1>3, LogAlone DEF Inv
    <2>2. SUFFICES ASSUME NEW p \in Known, projects'[p] = "live", Managers(p)' = {}
                   PROVE  \/ \E e \in excused' : e.project = p
                          \/ \E q \in Requests : pc'[q] = "bind" /\ req'[q].project = p
        BY <1>4 DEF ManagerLeft
    <2>3. projects[p] = "live" /\ Managers(p) = {} /\ pc[r] # "bind" /\ excused \subseteq excused'
        BY <1>2, <1>3, <1>4, <2>1, <2>2
    <2> QED BY <1>1, <1>2, <2>3, ManagerLeftKept DEF Inv
<1> QED BY <1>5, <1>6 DEF Inv

\* A request about a member, with what it has found.
LEMMA MemberStep ==
    ASSUME Inv, NEW r \in Requests, NEW c \in Callers, NEW op \in {"add", "edit", "delete"},
           NEW p \in Known, NEW u \in Users, NEW role \in Roles \cup {"none"},
           NEW binding \in 0 .. cache, MayChange(c, u, op),
           op # "delete" => role \in Roles,
           op = "add" => BindingsOf(u, p, cache) = {},
           op # "add" => /\ binding # 0
                         /\ log[binding].user = u /\ log[binding].project = p,
           Member(r, c, op, p, u, role, binding)
    PROVE  Inv'
<1> DEFINE x == [NoRequest EXCEPT !.caller = c, !.op = op, !.project = p, !.user = u,
                                  !.role = role, !.binding = binding, !.seen = cache]
<1>1. /\ pc[r] = "idle" /\ pc' = [pc EXCEPT ![r] = "write"] /\ req' = [req EXCEPT ![r] = x]
      /\ UNCHANGED <<log, cache, projects, shown, excused>>
    BY DEF Member, Goto
<1>2. TypeOK /\ Stored \in Nat /\ Stored' = Stored /\ Known' = Known
    BY <1>1, LogAlone DEF Inv, MembersInv, Known
<1>3. cache \in 0 .. Stored /\ cache \in Nat /\ binding \in Nat /\ p \in Nat
    BY <1>2 DEF TypeOK, Known
<1>4. /\ x \in RequestData /\ x.caller = c /\ x.op = op /\ x.project = p /\ x.user = u
      /\ x.role = role /\ x.binding = binding /\ x.seen = cache
    BY <1>3 DEF NoRequest, RequestData
<1> HIDE DEF x
<1>5. Informed(r)'
    <2>1. pc'[r] = "write" /\ req'[r] = x
        BY <1>1, <1>2 DEF TypeOK
    <2>2. u = c => c \in Admins
        BY DEF MayChange
    <2>3. op # "add" => binding \in 1 .. Stored
        BY <1>2, <1>3
    <2>4. op = "add" => BindingsOf(u, p, cache)' = {}
        BY <1>1 DEF BindingsOf, Bindings
    <2> QED BY <1>1, <1>2, <1>3, <1>4, <2>1, <2>2, <2>3, <2>4 DEF Informed, BindingsOf, Bindings
<1>6. MembersInv' /\ DuplicatesOnlyUnseen'
    <2>1. PICK to \in {"new", "bind", "write", "answered"} : pc' = [pc EXCEPT ![r] = to]
        BY <1>1
    <2>2. /\ projects' \in Seq({"live", "deleted"}) /\ Known \subseteq Known'
          /\ shown' \in [Known' -> {"live", "deleted", "unknown"}]
        BY <1>1, <1>2 DEF TypeOK
    <2> QED BY <1>1, <1>4, <1>5, <2>1, <2>2, QuietStep DEF Inv
<1>7. ManagerLeft'
    BY <1>1, <1>2, LogAlone, ManagerLeftKept DEF Inv, MembersInv, ManagerLeft
<1> QED BY <1>6, <1>7 DEF Inv

\* Admitting a request on the members keeps the invariant.
LEMMA AskStep ==
    ASSUME Inv, NEW r \in Requests, Ask(r)
    PROVE  Inv'
<1>0. cache \in Nat
    BY DEF Inv, MembersInv, TypeOK
<1>1. PICK c \in Callers :
         \/ \E invited \in SUBSET Users : CheckLimit(r, c, invited)
         \/ RefuseCreation(r, c)
         \/ \E p \in Known, u \in Users, role \in Roles :
              Add(r, c, p, u, role) \/ Edit(r, c, p, u, role)
         \/ \E p \in Known, u \in Users : Delete(r, c, p, u)
         \/ \E p \in Known : DeleteProject(r, c, p)
    BY DEF Ask
<1>2. ASSUME NEW p \in Known, NEW u \in Users, NEW role \in Roles, Add(r, c, p, u, role)
      PROVE  Inv'
    <2>1. PICK op \in {"add", "edit", "delete"} : op = "add"
        OBVIOUS
    <2>2. PICK binding \in 0 .. cache : binding = 0
        BY <1>0
    <2>3. /\ MayChange(c, u, op) /\ BindingsOf(u, p, cache) = {}
          /\ Member(r, c, op, p, u, role, binding)
        BY <1>2, <2>1, <2>2 DEF Add, MemberList
    <2> QED BY <2>1, <2>3, MemberStep
<1>3. ASSUME NEW p \in Known, NEW u \in Users, NEW role \in Roles \cup {"none"},
             NEW op \in {"edit", "delete"}, op = "edit" => role \in Roles,
             MayChange(c, u, op), NEW i \in MemberList(u, p), Member(r, c, op, p, u, role, i)
      PROVE  Inv'
    <2>1. i \in 0 .. cache /\ i # 0 /\ log[i].user = u /\ log[i].project = p
        BY <1>0 DEF MemberList, BindingsOf, Bindings
    <2> QED BY <1>3, <2>1, MemberStep
<1>4. ASSUME NEW p \in Known, NEW u \in Users, NEW role \in Roles, Edit(r, c, p, u, role)
      PROVE  Inv'
    <2>1. PICK op \in {"edit", "delete"} : op = "edit"
        OBVIOUS
    <2> QED BY <1>3, <1>4, <2>1 DEF Edit
<1>5. ASSUME NEW p \in Known, NEW u \in Users, Delete(r, c, p, u)
      PROVE  Inv'
    <2>1. PICK op \in {"edit", "delete"} : op = "delete"
        OBVIOUS
    <2>2. PICK role \in Roles \cup {"none"} : role = "none"
        OBVIOUS
    <2> QED BY <1>3, <1>5, <2>1, <2>2 DEF Delete
<1> QED BY <1>1, <1>2, <1>4, <1>5, CheckLimitStep, RefuseStep

\* A request learns the name of its project, or has invited somebody.
LEMMA RequestChanges ==
    ASSUME NEW q \in RequestData
    PROVE  /\ \A n \in Nat : LET x == [q EXCEPT !.project = n]
                            IN  /\ x \in RequestData /\ x.project = n
                                /\ x.caller = q.caller /\ x.seen = q.seen
           /\ \A u : LET x == [q EXCEPT !.invited = @ \ {u}]
                     IN  /\ x \in RequestData /\ x.project = q.project
                         /\ x.caller = q.caller /\ x.seen = q.seen
BY DEF RequestData

\* Creating the project object keeps the invariant.
LEMMA NewProjectStep ==
    ASSUME Inv, NEW r \in Requests, NewProject(r)
    PROVE  Inv'
<1>1. PICK n \in Nat : n = Len(projects)
    BY DEF Inv, MembersInv, TypeOK
<1> DEFINE x == [req[r] EXCEPT !.project = n + 1]
<1>2. /\ pc[r] = "new" /\ pc' = [pc EXCEPT ![r] = "bind"] /\ req' = [req EXCEPT ![r] = x]
      /\ projects' = Append(projects, "live") /\ shown' = Append(shown, "unknown")
      /\ UNCHANGED <<log, cache, excused>>
    BY <1>1 DEF NewProject, Goto
<1>3. TypeOK /\ Stored \in Nat /\ Stored' = Stored
    BY <1>2, LogAlone DEF Inv, MembersInv
<1>4. /\ projects' \in Seq({"live", "deleted"}) /\ Known = 1 .. n /\ Known' = 1 .. (n + 1)
      /\ Known \subseteq Known'
      /\ \A p \in Known : projects'[p] = projects[p]
    BY <1>1, <1>2, <1>3 DEF TypeOK, Known
<1>5. shown' \in [Known' -> {"live", "deleted", "unknown"}]
    <2>1. shown \in [1 .. n -> {"live", "deleted", "unknown"}]
        BY <1>3, <1>4 DEF TypeOK
    <2>2. shown \in Seq({"live", "deleted", "unknown"}) /\ Len(shown) = n
        BY <2>1
    <2>3. shown' \in Seq({"live", "deleted", "unknown"}) /\ Len(shown') = n + 1
        BY <1>2, <2>2
    <2>4. shown' \in [1 .. (n + 1) -> {"live", "deleted", "unknown"}]
        BY <2>3
    <2> QED BY <1>4, <2>4
<1>6. x \in RequestData /\ x.project = n + 1 /\ x.caller = req[r].caller /\ x.seen = req[r].seen
    <2>1. req[r] \in RequestData
        BY <1>3 DEF TypeOK
    <2> QED BY <2>1, RequestChanges
<1> HIDE DEF x
<1>7. Informed(r)'
    <2>1. pc'[r] = "bind" /\ req'[r] = x
        BY <1>2, <1>3 DEF TypeOK
    <2>2. x.caller \in Callers /\ x.seen \in 0 .. Stored
        BY <1>2, <1>6 DEF Inv, MembersInv, RequestsInformed, Informed
    <2>3. \A i \in 1 .. Stored : log[i].project # n + 1
        BY <1>3, <1>4 DEF TypeOK
    <2>4. \A i \in 1 .. x.seen : log'[i].project # x.project
        BY <1>2, <1>3, <1>6, <2>2, <2>3
    <2>5. x.project \in Known'
        BY <1>4, <1>6
    <2> QED BY <1>3, <2>1, <2>2, <2>4, <2>5 DEF Informed
<1>8. MembersInv' /\ DuplicatesOnlyUnseen'
    <2>1. PICK to \in {"new", "bind", "write", "answered"} : pc' = [pc EXCEPT ![r] = to]
        BY <1>2
    <2>2. req' = [req EXCEPT ![r] = x] /\ UNCHANGED <<log, cache, excused>>
        BY <1>2
    <2> QED BY <1>4, <1>5, <1>6, <1>7, <2>1, <2>2, QuietStep DEF Inv
<1>9. ManagerLeft'
    <2>1. \A p : Managers(p)' = Managers(p)
        BY <1>2, LogAlone DEF Inv
    <2>2. SUFFICES ASSUME NEW p \in Known', projects'[p] = "live", Managers(p)' = {}
                   PROVE  \/ \E e \in excused' : e.project = p
                          \/ \E q \in Requests : pc'[q] = "bind" /\ req'[q].project = p
        BY DEF ManagerLeft
    <2>3. CASE p = n + 1
        <3>1. pc'[r] = "bind" /\ req'[r] = x
            BY <1>2, <1>3 DEF TypeOK
        <3> QED BY <1>6, <2>3, <3>1
    <2>4. CASE p \in Known
        <3>1. projects[p] = "live" /\ Managers(p) = {} /\ pc[r] # "bind"
              /\ excused \subseteq excused'
            BY <1>2, <1>4, <2>1, <2>2, <2>4
        <3>2. pc' = [pc EXCEPT ![r] = "bind"] /\ req' = [req EXCEPT ![r] = x]
            BY <1>2
        <3> QED BY <1>3, <2>4, <3>1, <3>2, ManagerLeftKept DEF Inv
    <2> QED BY <1>4, <2>3, <2>4
<1> QED BY <1>8, <1>9 DEF Inv

\* Nobody is a member of a project that is new to what a request saw.
LEMMA NobodyInNewProject ==
    ASSUME NEW n, NEW p, \A i \in 1 .. n : log[i].project # p
    PROVE  \A u : BindingsOf(u, p, n) = {}
BY DEF BindingsOf, Bindings

\* A new binding takes no manager away.
LEMMA FreshKeepsManagers ==
    ASSUME Inv, NEW r \in Requests, NEW v \in Versions, log' = Append(log, v), Fresh(v),
           UNCHANGED <<projects, excused>>, NEW to, NEW x,
           pc' = [pc EXCEPT ![r] = to], req' = [req EXCEPT ![r] = x],
           pc[r] = "bind" => v.project = req[r].project /\ v.role \in ManagingRoles
    PROVE  ManagerLeft'
<1>1. /\ v.role \in ManagingRoles => v.user \in Managers(v.project)'
      /\ \A p, u : u \in Managers(p) => u \in Managers(p)'
    BY ManagersAfter DEF Inv
<1>2. Known' = Known
    BY DEF Known
<1>3. SUFFICES ASSUME NEW p \in Known, projects[p] = "live", Managers(p)' = {}
               PROVE  \/ \E e \in excused' : e.project = p
                      \/ \E q \in Requests : pc'[q] = "bind" /\ req'[q].project = p
    BY <1>2 DEF ManagerLeft
<1>4. Managers(p) = {} /\ (pc[r] # "bind" \/ req[r].project # p)
    BY <1>1, <1>3
<1>5. TypeOK /\ ManagerLeft /\ excused \subseteq excused'
    BY DEF Inv, MembersInv
<1> QED BY <1>3, <1>4, <1>5, ManagerLeftKept

\* Binding the creator of a project keeps the invariant.
LEMMA BindCreatorStep ==
    ASSUME Inv, NEW r \in Requests, pc[r] = "bind", BindCreator(r)
    PROVE  Inv'
<1> DEFINE q == req[r]
           sa == q.caller \in ServiceAccounts
           v == [id |-> NextId, project |-> q.project, user |-> q.caller,
                 role |-> IF sa THEN "projectmanagers" ELSE "owners", seen |-> q.seen]
<1>1. /\ log' = Append(log, v) /\ UNCHANGED <<cache, projects, shown, excused>>
      /\ IF sa THEN Goto(r, "bind", "invite") /\ UNCHANGED req ELSE Finish(r, "bind")
    BY DEF BindCreator, Write
<1>2. /\ TypeOK /\ NamesCount /\ NextId \in Nat \ {0}
      /\ q.caller \in Callers /\ q.seen \in 0 .. Stored /\ q.project \in Known
      /\ \A i \in 1 .. q.seen : log[i].project # q.project
    BY NewName DEF Inv, MembersInv, RequestsInformed, Informed
<1>3. q \in RequestData /\ q.project \in Nat \ {0} /\ q.seen \in Nat
    <2>1. q \in RequestData /\ Len(projects) \in Nat
        BY <1>2 DEF TypeOK
    <2>2. q.project \in Nat \ {0}
        BY <1>2, <2>1 DEF Known
    <2>3. q.seen \in Nat
        BY <2>1 DEF RequestData
    <2> QED BY <2>1, <2>2, <2>3
<1>4. /\ v \in Versions /\ v.id = NextId /\ v.project = q.project /\ v.user = q.caller
      /\ v.seen = q.seen /\ v.role \in ManagingRoles /\ v.role # "none"
    BY <1>2, <1>3 DEF Versions, ManagingRoles, Roles
<1> HIDE DEF v
<1>5. Fresh(v)
    <2>1. \A u : BindingsOf(u, q.project, q.seen) = {}
        BY <1>2, NobodyInNewProject
    <2> QED BY <1>2, <1>4, <2>1 DEF Fresh
<1>6. PICK to \in {"invite", "answered"}, x \in RequestData :
         pc' = [pc EXCEPT ![r] = to] /\ req' = [req EXCEPT ![r] = x] /\ Informed(r)'
    <2>1. CASE sa
        <3>1. pc' = [pc EXCEPT ![r] = "invite"] /\ req' = req /\ req' = [req EXCEPT ![r] = q]
            BY <1>1, <1>2, <2>1 DEF Goto, TypeOK
        <3>2. pc'[r] = "invite" /\ req'[r] = q
            BY <1>2, <3>1 DEF TypeOK
        <3>3. /\ Stored \in Nat /\ Stored' = Stored + 1 /\ Known' = Known
              /\ \A i \in 1 .. Stored : log'[i] = log[i]
            BY <1>1, <1>2, <1>4, Appended DEF TypeOK, Known
        <3>4. q.seen \in 0 .. Stored' /\ \A i \in 1 .. q.seen : log'[i].project # q.project
            BY <1>2, <3>3
        <3>5. Informed(r)'
            BY <1>2, <3>2, <3>3, <3>4 DEF Informed
        <3> QED BY <1>3, <3>1, <3>5
    <2>2. CASE ~sa
        BY <1>1, <1>2, <2>2, AnsweredStep
    <2> QED BY <2>1, <2>2
<1>7. v.project \in Known
    BY <1>2, <1>4
<1>8. excused' \subseteq [project : Nat, why : {"unfinished", "admin", "crossed"}]
    BY <1>1, <1>2 DEF TypeOK
<1>9. MembersInv' /\ DuplicatesOnlyUnseen'
    BY <1>1, <1>4, <1>5, <1>6, <1>7, <1>8, WriteStep DEF Inv
<1>10. ManagerLeft'
    BY <1>1, <1>4, <1>5, <1>6, FreshKeepsManagers
<1> QED BY <1>9, <1>10 DEF Inv

\* Binding an invited user keeps the invariant.
LEMMA BindInvitedStep ==
    ASSUME Inv, NEW r \in Requests, pc[r] = "invite", NEW u \in Users, BindInvited(r, u)
    PROVE  Inv'
<1> DEFINE q == req[r]
           v == [id |-> NextId, project |-> q.project, user |-> u,
                 role |-> "projectmanagers", seen |-> q.seen]
           less == [q EXCEPT !.invited = @ \ {u}]
<1>1. /\ log' = Append(log, v) /\ UNCHANGED <<cache, projects, shown, excused>>
      /\ IF req[r].invited = {u}
         THEN Finish(r, "invite")
         ELSE pc' = [pc EXCEPT ![r] = "invite"] /\ req' = [req EXCEPT ![r] = less]
    BY DEF BindInvited, Write, Goto
<1>2. /\ TypeOK /\ NamesCount /\ NextId \in Nat \ {0}
      /\ q.caller \in Callers /\ q.seen \in 0 .. Stored /\ q.project \in Known
      /\ \A i \in 1 .. q.seen : log[i].project # q.project
    BY NewName DEF Inv, MembersInv, RequestsInformed, Informed
<1>3. q \in RequestData /\ q.project \in Nat \ {0} /\ q.seen \in Nat
    <2>1. q \in RequestData /\ Len(projects) \in Nat
        BY <1>2 DEF TypeOK
    <2>2. q.project \in Nat \ {0}
        BY <1>2, <2>1 DEF Known
    <2>3. q.seen \in Nat
        BY <2>1 DEF RequestData
    <2> QED BY <2>1, <2>2, <2>3
<1>4. /\ v \in Versions /\ v.id = NextId /\ v.project = q.project /\ v.user = u
      /\ v.seen = q.seen /\ v.role # "none"
    BY <1>2, <1>3 DEF Versions, Roles, Callers
<1>5. /\ less \in RequestData /\ less.project = q.project /\ less.caller = q.caller
      /\ less.seen = q.seen
    BY <1>3, RequestChanges
<1> HIDE DEF v, less
<1>6. Fresh(v)
    <2>1. \A w : BindingsOf(w, q.project, q.seen) = {}
        BY <1>2, NobodyInNewProject
    <2> QED BY <1>2, <1>4, <2>1 DEF Fresh
<1>7. PICK to \in {"invite", "answered"}, x \in RequestData :
         pc' = [pc EXCEPT ![r] = to] /\ req' = [req EXCEPT ![r] = x] /\ Informed(r)'
    <2>1. CASE req[r].invited # {u}
        <3>1. pc' = [pc EXCEPT ![r] = "invite"] /\ req' = [req EXCEPT ![r] = less]
            BY <1>1, <2>1
        <3>2. pc'[r] = "invite" /\ req'[r] = less
            BY <1>2, <3>1 DEF TypeOK
        <3>3. /\ Stored \in Nat /\ Stored' = Stored + 1 /\ Known' = Known
              /\ \A i \in 1 .. Stored : log'[i] = log[i]
            BY <1>1, <1>2, <1>4, Appended DEF TypeOK, Known
        <3>4. q.seen \in 0 .. Stored' /\ \A i \in 1 .. q.seen : log'[i].project # q.project
            BY <1>2, <3>3
        <3>5. Informed(r)'
            BY <1>2, <1>5, <3>2, <3>3, <3>4 DEF Informed
        <3> QED BY <1>5, <3>1, <3>5
    <2>2. CASE req[r].invited = {u}
        BY <1>1, <1>2, <2>2, AnsweredStep
    <2> QED BY <2>1, <2>2
<1>8. v.project \in Known
    BY <1>2, <1>4
<1>9. excused' \subseteq [project : Nat, why : {"unfinished", "admin", "crossed"}]
    BY <1>1, <1>2 DEF TypeOK
<1>10. MembersInv' /\ DuplicatesOnlyUnseen'
    BY <1>1, <1>4, <1>6, <1>7, <1>8, <1>9, WriteStep DEF Inv
<1>11. ManagerLeft'
    BY <1>1, <1>4, <1>6, <1>7, FreshKeepsManagers
<1> QED BY <1>10, <1>11 DEF Inv

\* A creation that fails half way keeps the invariant.
LEMMA CreationFailsStep ==
    ASSUME Inv, NEW r \in Requests, CreationFails(r)
    PROVE  Inv'
<1> DEFINE e == [project |-> req[r].project, why |-> "unfinished"]
<1>1. TypeOK
    BY DEF Inv, MembersInv
<1>2. /\ pc' = [pc EXCEPT ![r] = "answered"]
      /\ req' = [req EXCEPT ![r] = NoRequest] /\ NoRequest \in RequestData
      /\ Informed(r)'
    BY <1>1, AnsweredStep DEF CreationFails
<1>3. excused' = excused \cup {e} /\ UNCHANGED <<log, cache, projects, shown>>
    BY DEF CreationFails
<1>4. e \in [project : Nat, why : {"unfinished", "admin", "crossed"}] /\ e.project = req[r].project
    <2>1. req[r] \in RequestData
        BY <1>1 DEF TypeOK
    <2> QED BY <2>1 DEF RequestData
<1> HIDE DEF e
<1>5. /\ NamesCount' /\ RemovedStaysRemoved' /\ EditsAreSeen' /\ DuplicatesOnlyUnseen'
      /\ Stored' = Stored /\ Stored \in Nat /\ Known' = Known
      /\ \A p : Managers(p)' = Managers(p)
    BY <1>3, LogAlone DEF Inv, Known
<1>6. TypeOK'
    <2>1. /\ pc' \in [Requests -> {"idle", "new", "bind", "invite", "write", "answered"}]
          /\ req' \in [Requests -> RequestData]
        BY <1>1, <1>2 DEF TypeOK
    <2>2. excused' \subseteq [project : Nat, why : {"unfinished", "admin", "crossed"}]
        BY <1>1, <1>3, <1>4 DEF TypeOK
    <2> QED BY <1>1, <1>3, <1>5, <2>1, <2>2 DEF TypeOK
<1>7. RequestsInformed'
    <2>1. Grows
        BY <1>3, <1>5 DEF Grows
    <2> QED BY <1>2, <2>1, InformedAfter DEF Inv
<1>8. ManagerLeft'
    <2>1. SUFFICES ASSUME NEW p \in Known, projects[p] = "live", Managers(p) = {}
                   PROVE  \/ \E f \in excused' : f.project = p
                          \/ \E q \in Requests : pc'[q] = "bind" /\ req'[q].project = p
        BY <1>3, <1>5 DEF ManagerLeft
    <2>2. CASE req[r].project = p
        BY <1>3, <1>4, <2>2
    <2>3. CASE req[r].project # p
        <3>1. excused \subseteq excused' /\ ManagerLeft
            BY <1>3 DEF Inv
        <3> QED BY <1>1, <1>2, <2>1, <2>3, <3>1, ManagerLeftKept
    <2> QED BY <2>2, <2>3
<1> QED BY <1>5, <1>6, <1>7, <1>8 DEF Inv, MembersInv

\* Adding a member keeps the invariant.
LEMMA CreateBindingStep ==
    ASSUME Inv, NEW r \in Requests, CreateBinding(r)
    PROVE  Inv'
<1> DEFINE q == req[r]
           v == [id |-> NextId, project |-> q.project, user |-> q.user,
                 role |-> q.role, seen |-> q.seen]
<1>1. /\ log' = Append(log, v) /\ UNCHANGED <<cache, projects, shown, excused>>
      /\ q.op = "add" /\ Finish(r, "write")
    BY DEF CreateBinding, Write
<1>2. TypeOK /\ NamesCount /\ NextId \in Nat \ {0}
    BY NewName DEF Inv, MembersInv
<1>3. /\ pc[r] = "write" /\ pc' = [pc EXCEPT ![r] = "answered"]
      /\ req' = [req EXCEPT ![r] = NoRequest] /\ NoRequest \in RequestData
      /\ Informed(r)'
    BY <1>1, <1>2, AnsweredStep
<1>4. /\ q.user \in Users /\ q.role \in Roles /\ q.seen \in 0 .. Stored /\ q.project \in Known
      /\ BindingsOf(q.user, q.project, q.seen) = {}
    BY <1>1, <1>3 DEF Inv, MembersInv, RequestsInformed, Informed
<1>5. q.project \in Nat \ {0} /\ q.seen \in Nat
    <2>1. q \in RequestData /\ Len(projects) \in Nat
        BY <1>2 DEF TypeOK
    <2>2. q.project \in Nat \ {0}
        BY <1>4, <2>1 DEF Known
    <2>3. q.seen \in Nat
        BY <2>1 DEF RequestData
    <2> QED BY <2>2, <2>3
<1>6. /\ v \in Versions /\ v.id = NextId /\ v.project = q.project /\ v.user = q.user
      /\ v.seen = q.seen /\ v.role # "none"
    BY <1>2, <1>4, <1>5 DEF Versions, Roles, Callers
<1> HIDE DEF v
<1>7. Fresh(v)
    BY <1>4, <1>6 DEF Fresh
<1>8. PICK to \in {"invite", "answered"} : pc' = [pc EXCEPT ![r] = to]
    BY <1>3
<1>9. v.project \in Known
    BY <1>4, <1>6
<1>10. excused' \subseteq [project : Nat, why : {"unfinished", "admin", "crossed"}]
    BY <1>1, <1>2 DEF TypeOK
<1>11. MembersInv' /\ DuplicatesOnlyUnseen'
    BY <1>1, <1>3, <1>6, <1>7, <1>8, <1>9, <1>10, WriteStep DEF Inv
<1>12. ManagerLeft'
    BY <1>1, <1>3, <1>6, <1>7, FreshKeepsManagers
<1> QED BY <1>11, <1>12 DEF Inv

\* A caller who manages the project and changes another member still
\* manages it afterwards; everybody else leaves an excuse.
LEMMA OverKeepsManagers ==
    ASSUME Inv, NEW r \in Requests, NEW v \in Versions, log' = Append(log, v), Over(v),
           v.user = req[r].user, v.project = req[r].project,
           Excuse(req[r].caller, req[r].project), UNCHANGED projects,
           pc[r] = "write", NEW to, NEW x,
           pc' = [pc EXCEPT ![r] = to], req' = [req EXCEPT ![r] = x]
    PROVE  ManagerLeft'
<1> DEFINE c == req[r].caller
<1>1. \A p, u : u \in Managers(p) /\ (u # v.user \/ p # v.project) => u \in Managers(p)'
    BY ManagersAfter DEF Inv
<1>2. Known' = Known
    BY DEF Known
<1>3. TypeOK /\ ManagerLeft /\ (v.user = c => c \in Admins)
    BY DEF Inv, MembersInv, RequestsInformed, Informed
<1>4. excused' = excused \cup
         {e \in [project : {v.project}, why : {"admin", "crossed"}] :
             /\ Managers(v.project)' = {}
             /\ IF e.why = "admin" THEN c \in Admins ELSE c \notin Managers(v.project)}
    BY DEF Excuse
<1>5. SUFFICES ASSUME NEW p \in Known, projects[p] = "live", Managers(p)' = {}
               PROVE  \/ \E e \in excused' : e.project = p
                      \/ \E q \in Requests : pc'[q] = "bind" /\ req'[q].project = p
    BY <1>2 DEF ManagerLeft
<1>6. CASE p = v.project
    <2>1. c \in Admins \/ c \notin Managers(p)
        BY <1>1, <1>3, <1>5
    <2>2. PICK why \in {"admin", "crossed"} :
             IF why = "admin" THEN c \in Admins ELSE c \notin Managers(p)
        BY <2>1
    <2>3. [project |-> p, why |-> why] \in excused'
        BY <1>4, <1>5, <1>6, <2>2
    <2> QED BY <2>3
<1>7. CASE p # v.project
    <2>1. Managers(p) = {} /\ excused \subseteq excused'
        BY <1>1, <1>4, <1>5, <1>7
    <2> QED BY <1>3, <1>5, <2>1, ManagerLeftKept
<1> QED BY <1>6, <1>7

\* Changing or removing a member keeps the invariant.
LEMMA ChangeBindingStep ==
    ASSUME Inv, NEW r \in Requests, UpdateBinding(r) \/ DeleteBinding(r)
    PROVE  Inv'
<1> DEFINE q == req[r]
           b == log[q.binding]
           role == IF q.op = "edit" THEN q.role ELSE "none"
           v == [id |-> b.id, project |-> b.project, user |-> b.user,
                 role |-> role, seen |-> q.seen]
<1>1. /\ log' = Append(log, v) /\ UNCHANGED <<cache, projects, shown>>
      /\ q.op # "add" /\ Finish(r, "write") /\ Excuse(q.caller, q.project)
      /\ Current(r) # {} /\ (q.op = "edit" => q.binding \in Current(r))
    BY DEF UpdateBinding, DeleteBinding, Write
<1>2. TypeOK /\ NamesCount
    BY DEF Inv, MembersInv
<1>3. /\ pc[r] = "write" /\ pc' = [pc EXCEPT ![r] = "answered"]
      /\ req' = [req EXCEPT ![r] = NoRequest] /\ NoRequest \in RequestData
      /\ Informed(r)'
    BY <1>1, <1>2, AnsweredStep
<1>0. Stored \in Nat
    BY <1>2 DEF TypeOK, Stored
<1>4. /\ q.project \in Known /\ q.seen \in 0 .. Stored /\ q.binding \in 1 .. q.seen
      /\ b.user = q.user /\ b.project = q.project /\ role \in Roles \cup {"none"}
      /\ q.binding \in 1 .. Stored
    BY <1>0, <1>1, <1>3 DEF Inv, MembersInv, RequestsInformed, Informed
<1>5. b \in Versions
    BY <1>2, <1>4 DEF TypeOK, Stored
<1>6. /\ v \in Versions /\ v.id = b.id /\ v.project = b.project /\ v.user = b.user
      /\ v.seen = q.seen /\ v.role = role
    BY <1>0, <1>4, <1>5 DEF Versions
<1> HIDE DEF v
<1>7. Over(v)
    <2>1. PICK i \in Existing : log[i].id = b.id /\ (q.op = "edit" => i = q.binding)
        BY <1>1 DEF Current
    <2>2. i \in 1 .. Stored
        BY ExistingInLog
    <2>3. log[i].user = b.user /\ log[i].project = b.project
        BY <1>2, <1>4, <2>1, <2>2 DEF NamesCount
    <2>4. role = "none" \/ i <= q.seen
        BY <1>0, <1>4, <2>1
    <2> QED BY <1>6, <2>1, <2>3, <2>4 DEF Over
<1>8. PICK to \in {"invite", "answered"} : pc' = [pc EXCEPT ![r] = to]
    BY <1>3
<1>9. v.project \in Known
    BY <1>4, <1>6
<1>10. excused' \subseteq [project : Nat, why : {"unfinished", "admin", "crossed"}]
    <2>1. q.project \in Nat
        BY <1>2, <1>4 DEF TypeOK, Known
    <2>2. PICK S \in SUBSET [project : {q.project}, why : {"admin", "crossed"}] :
             excused' = excused \cup S
        BY <1>1 DEF Excuse
    <2> QED BY <1>2, <2>1, <2>2 DEF TypeOK
<1>11. MembersInv' /\ DuplicatesOnlyUnseen'
    BY <1>1, <1>3, <1>6, <1>7, <1>8, <1>9, <1>10, WriteStep DEF Inv
<1>12. ManagerLeft'
    BY <1>1, <1>3, <1>4, <1>6, <1>7, OverKeepsManagers
<1> QED BY <1>11, <1>12 DEF Inv

\* The informers deliver, or nothing happens.
LEMMA SyncStep ==
    ASSUME Inv, SyncBindings \/ (\E p \in Known : SyncProject(p)) \/ UNCHANGED vars
    PROVE  Inv'
<1>1. UNCHANGED <<log, projects, pc, req, excused>>
    BY DEF SyncBindings, SyncProject, vars
<1>2. /\ NamesCount' /\ RemovedStaysRemoved' /\ EditsAreSeen' /\ DuplicatesOnlyUnseen'
      /\ Stored' = Stored /\ Stored \in Nat /\ Known' = Known
      /\ \A p : Managers(p)' = Managers(p)
    BY <1>1, LogAlone DEF Inv, Known
<1>3. cache' \in 0 .. Stored'
    BY <1>2 DEF Inv, MembersInv, TypeOK, SyncBindings, SyncProject, vars
<1>4. shown' \in [Known' -> {"live", "deleted", "unknown"}]
    <2>1. \A p \in Known : projects[p] \in {"live", "deleted"}
        BY DEF Inv, MembersInv, TypeOK, Known
    <2> QED BY <1>2, <2>1 DEF Inv, MembersInv, TypeOK, SyncBindings, SyncProject, vars
<1>5. TypeOK'
    BY <1>1, <1>2, <1>3, <1>4 DEF Inv, MembersInv, TypeOK
<1>6. RequestsInformed'
    <2>1. Grows
        BY <1>1, <1>2 DEF Grows
    <2> QED BY <1>1, <2>1, InformedKept DEF Inv, RequestsInformed
<1>7. ManagerLeft'
    BY <1>1, <1>2 DEF Inv, ManagerLeft
<1> QED BY <1>2, <1>5, <1>6, <1>7 DEF Inv, MembersInv

-----------------------------------------------------------------------------
\* The first project and its owner satisfy the invariant.
LEMMA InitInv == Init => Inv
<1> SUFFICES ASSUME Init PROVE Inv
    OBVIOUS
<1>1. PICK u \in Users, robots \in {<<>>} \cup {<<sa>> : sa \in ServiceAccounts} :
         log = [i \in 1 .. 1 + Len(robots) |->
                   [id |-> i, project |-> 1, seen |-> 0,
                    user |-> IF i = 1 THEN u ELSE robots[i - 1],
                    role |-> IF i = 1 THEN "owners" ELSE "projectmanagers"]]
    BY DEF Init
<1>2. PICK n \in 1 .. 2 :
         /\ log = [i \in 1 .. n |-> log[i]]
         /\ \A i \in 1 .. n :
              /\ log[i] \in Versions /\ log[i].id = i /\ log[i].project = 1
              /\ log[i].role # "none"
         /\ log[1].user = u /\ log[1].role = "owners"
    <2>1. CASE robots = <<>>
        <3>1. Len(robots) = 0
            BY <2>1
        <3> QED BY <1>1, <3>1 DEF Versions, Callers, Roles
    <2>2. CASE robots # <<>>
        <3>1. PICK sa \in ServiceAccounts : robots = <<sa>>
            BY <2>2
        <3>2. Len(robots) = 1 /\ robots[1] = sa
            BY <3>1
        <3> QED BY <1>1, <3>2 DEF Versions, Callers, Roles
    <2> QED BY <2>1, <2>2
<1>3. log \in Seq(Versions) /\ Stored = n /\ n \in Nat
    BY <1>2 DEF Stored
<1>4. /\ cache = n /\ projects = <<"live">> /\ shown = <<"live">>
      /\ pc = [r \in Requests |-> "idle"] /\ req = [r \in Requests |-> NoRequest]
      /\ excused = {}
    BY <1>3 DEF Init
<1>5. Known = {1} /\ projects \in Seq({"live", "deleted"})
    BY <1>4 DEF Known
<1>6. TypeOK
    <2>1. NoRequest \in RequestData
        BY DEF NoRequest, RequestData
    <2>2. shown \in [{1} -> {"live", "deleted", "unknown"}]
        BY <1>4
    <2> QED BY <1>2, <1>3, <1>4, <1>5, <2>1, <2>2 DEF TypeOK
<1>7. NamesCount /\ RemovedStaysRemoved /\ EditsAreSeen
    BY <1>2, <1>3 DEF NamesCount, RemovedStaysRemoved, EditsAreSeen
<1>8. RequestsInformed
    BY <1>4 DEF RequestsInformed, Informed
<1>9. DuplicatesOnlyUnseen
    <2> SUFFICES ASSUME NEW i \in Existing, NEW j \in Existing
                 PROVE  log[Created(j)].seen < Created(i)
        BY DEF DuplicatesOnlyUnseen
    <2>1. i \in 1 .. n /\ j \in 1 .. n
        BY <1>3, ExistingInLog
    <2>3. Created(i) \in 1 .. i /\ Created(j) \in 1 .. j
        BY <1>3, <2>1, CreatedExists DEF CreatedIsFirst, FirstOf
    <2>4. Created(j) \in 1 .. n
        BY <1>3, <2>1, <2>3
    <2>2. log[Created(j)].seen = 0
        BY <1>1, <2>4, <1>2
    <2> QED BY <2>1, <2>2, <2>3
<1>10. ManagerLeft
    <2>1. 1 \in Existing
        BY <1>2, <1>3 DEF Existing, Bindings
    <2>2. u \in Managers(1)
        BY <1>2, <1>3, <2>1, ManagerIs DEF ManagingRoles
    <2> QED BY <1>5, <2>2 DEF ManagerLeft
<1> QED BY <1>6, <1>7, <1>8, <1>9, <1>10 DEF Inv, MembersInv

\* Every step keeps the invariant.
LEMMA NextInv == Inv /\ [Next]_vars => Inv'
<1> SUFFICES ASSUME Inv, [Next]_vars PROVE Inv'
    OBVIOUS
<1>1. ASSUME NEW r \in Requests, Handle(r) PROVE Inv'
    <2>1. CASE WriteFails(r)
        <3>1. pc[r] = "write"
            BY <2>1 DEF WriteFails, Finish, Goto
        <3>2. req[r].caller \in Callers
            BY <3>1 DEF Inv, MembersInv, RequestsInformed, Informed
        <3> QED BY <2>1, <3>2, RefuseStep
    <2>2. CASE Ask(r) \/ NewProject(r)
        BY <2>2, AskStep, NewProjectStep
    <2>3. CASE CreationFails(r)
        BY <2>3, CreationFailsStep
    <2>4. CASE pc[r] = "bind" /\ BindCreator(r)
        BY <2>4, BindCreatorStep
    <2>5. CASE \E u \in Users : pc[r] = "invite" /\ BindInvited(r, u)
        BY <2>5, BindInvitedStep
    <2>6. CASE CreateBinding(r) \/ UpdateBinding(r) \/ DeleteBinding(r)
        BY <2>6, CreateBindingStep, ChangeBindingStep
    <2> QED BY <1>1, <2>1, <2>2, <2>3, <2>4, <2>5, <2>6 DEF Handle
<1> QED BY <1>1, SyncStep DEF Next

\* The invariant holds throughout.
LEMMA InvHolds == Spec => []Inv
BY InitInv, NextInv, PTL DEF Spec

-----------------------------------------------------------------------------
(* What the bindings of a project keep to.                                 *)

\* Names are never used twice, a binding stays with its user and project, a
\* removal is final though edits and removals use what they read before,
\* and what a request found out before its write is still so.
THEOREM BindingsAreKept == Spec => []MembersInv
BY InvHolds, PTL DEF Inv

\* updateBinding never goes over a change of a role that its request did not
\* have in the cache: the Update names the version that the List returned.
THEOREM EditsOverwriteNothingUnseen == Spec => []EditsAreSeen
<1>1. Inv => EditsAreSeen
    BY DEF Inv, MembersInv
<1> QED BY <1>1, InvHolds, PTL

\* A user has a second binding in a project only from a request that had
\* looked before the first one was created.
THEOREM DuplicatesAreUnseen == Spec => []DuplicatesOnlyUnseen
BY InvHolds, PTL DEF Inv

\* A live project has a manager, unless an administrator interfered, two
\* managers crossed or its creation stopped.
THEOREM ManagersAreLeft == Spec => []ManagerLeft
BY InvHolds, PTL DEF Inv

-----------------------------------------------------------------------------
(* The limit on the projects of a user.                                    *)

\* What validateUserProjectsLimit counts is finite.
LEMMA PairsAreFinite ==
    ASSUME NEW u, NEW n \in Nat
    PROVE  IsFiniteSet(OwnerPairs(u, n)) /\ OwnedProjects(u, n) \in Nat
<1>1. IsFiniteSet(1 .. n)
    BY FS_Interval
<1>2. Bindings(n) \in SUBSET (1 .. n)
    BY DEF Bindings
<1>3. IsFiniteSet(Bindings(n))
    BY <1>1, <1>2, FS_Subset
<1>4. IsFiniteSet(Bindings(n) \X Bindings(n))
    BY <1>3, FS_Product
<1>5. OwnerPairs(u, n) \in SUBSET (Bindings(n) \X Bindings(n))
    BY DEF OwnerPairs
<1>6. IsFiniteSet(OwnerPairs(u, n))
    BY <1>4, <1>5, FS_Subset
<1> QED BY <1>6, FS_CardinalityType DEF OwnedProjects

CountsAreNumbers == \A u, n : n \in Nat => OwnedProjects(u, n) \in Nat
\* The same for all users and prefixes of the log, as one formula.
LEMMA CountsHold == CountsAreNumbers
BY PairsAreFinite DEF CountsAreNumbers

\* In what a request saw, the count can only drop.
LEMMA CountDrops ==
    ASSUME MembersInv, Grows, NEW u, NEW n \in 0 .. Stored,
           \A p \in Known : projects'[p] = "live" => projects[p] = "live"
    PROVE  OwnedProjects(u, n)' <= OwnedProjects(u, n)
<1>1. /\ \A i \in 1 .. n : i \in 1 .. Stored /\ log'[i] = log[i] /\ log[i].project \in Known
      /\ n \in Nat
    BY DEF Grows, MembersInv, TypeOK
<1>2. Bindings(n)' = Bindings(n) /\ Bindings(n) \subseteq 1 .. n
    <2>1. \A i \in 1 .. n : \A j \in (i + 1) .. n : j \in 1 .. n
        BY <1>1
    <2> QED BY <1>1, <2>1 DEF Bindings
<1>3. OwnerPairs(u, n)' \in SUBSET OwnerPairs(u, n)
    BY <1>1, <1>2 DEF OwnerPairs
<1>4. IsFiniteSet(OwnerPairs(u, n))
    BY <1>1, PairsAreFinite
<1>5. Cardinality(OwnerPairs(u, n)') <= Cardinality(OwnerPairs(u, n))
    BY <1>3, <1>4, FS_Subset
<1> QED BY <1>5 DEF OwnedProjects

\* A step of a request: only CheckLimit starts a creation, and until the
\* creator is bound nothing of the request changes but the project.
LEMMA CreationStep ==
    ASSUME Inv, NEW r \in Requests, Handle(r)
    PROVE  /\ \A q \in Requests : q # r => pc'[q] = pc[q] /\ req'[q] = req[q]
           /\ pc'[r] \in {"new", "bind"} =>
                \/ \E c \in Callers, invited \in SUBSET Users : CheckLimit(r, c, invited)
                \/ /\ pc[r] = "new" /\ req'[r].caller = req[r].caller
                   /\ req'[r].seen = req[r].seen
<1>0. TypeOK /\ req[r] \in RequestData
    BY DEF Inv, MembersInv, TypeOK
<1>1. CASE \E c \in Callers, invited \in SUBSET Users : CheckLimit(r, c, invited)
    BY <1>0, <1>1 DEF CheckLimit, Goto, TypeOK
<1>2. CASE NewProject(r)
    <2>0. PICK n \in Nat : n = Len(projects) + 1
        BY <1>0 DEF TypeOK
    <2>1. req' = [req EXCEPT ![r].project = n]
        BY <1>2, <2>0 DEF NewProject
    <2>2. req'[r] = [req[r] EXCEPT !.project = n]
        BY <1>0, <2>1 DEF TypeOK
    <2>3. req'[r].caller = req[r].caller /\ req'[r].seen = req[r].seen
        BY <1>0, <2>2, RequestChanges
    <2> QED BY <1>0, <1>2, <2>1, <2>3 DEF NewProject, Goto, TypeOK
<1>3. CASE \E from : Finish(r, from)
    BY <1>0, <1>3 DEF Finish, Goto, TypeOK
<1>4. CASE \E c, op, p, u, role, binding : Member(r, c, op, p, u, role, binding)
    BY <1>0, <1>4 DEF Member, Goto, TypeOK
<1>5. CASE \E from, x : Goto(r, from, "invite") /\ req' = [req EXCEPT ![r] = x]
    BY <1>0, <1>5 DEF Goto, TypeOK
<1>6. CASE Ask(r)
    BY <1>1, <1>3, <1>4, <1>6 DEF Ask, RefuseCreation, DeleteProject, Add, Edit, Delete
<1>7. CASE BindCreator(r)
    <2>1. req = [req EXCEPT ![r] = req[r]]
        BY <1>0 DEF TypeOK
    <2> QED BY <1>3, <1>5, <1>7, <2>1 DEF BindCreator
<1>8. CASE \E u \in Users : BindInvited(r, u)
    BY <1>3, <1>5, <1>8 DEF BindInvited
<1> QED BY <1>2, <1>3, <1>6, <1>7, <1>8
        DEF Handle, CreationFails, CreateBinding, UpdateBinding, DeleteBinding, WriteFails

\* The log grows and projects do not come back.
LEMMA NextGrows ==
    ASSUME Inv, [Next]_vars
    PROVE  Grows /\ \A p \in Known : projects'[p] = "live" => projects[p] = "live"
<1>0. log \in Seq(Versions) /\ projects \in Seq({"live", "deleted"})
    BY DEF Inv, MembersInv, TypeOK
<1> DEFINE LogStep == log' = log \/ \E x : log' = Append(log, x)
           ProjectStep == \/ projects' = projects
                          \/ projects' = Append(projects, "live")
                          \/ \E p \in Known : projects' = [projects EXCEPT ![p] = "deleted"]
<1>1. LogStep
    <2>1. ASSUME NEW r \in Requests, Ask(r) PROVE LogStep
        BY <2>1, ZenonT(60) DEF Ask, CheckLimit, RefuseCreation, Add, Edit, Delete, Member, DeleteProject
    <2>2. ASSUME NEW r \in Requests, Handle(r), ~Ask(r) PROVE LogStep
        BY <2>2 DEF Handle, NewProject, BindCreator, BindInvited, CreationFails,
                    CreateBinding, UpdateBinding, DeleteBinding, WriteFails, Write
    <2> QED BY <2>1, <2>2 DEF Next, SyncBindings, SyncProject, vars
<1>2. ProjectStep
    <2>1. ASSUME NEW r \in Requests, Ask(r) PROVE ProjectStep
        BY <2>1, ZenonT(60) DEF Ask, CheckLimit, RefuseCreation, Add, Edit, Delete, Member, DeleteProject
    <2>2. ASSUME NEW r \in Requests, Handle(r), ~Ask(r) PROVE ProjectStep
        BY <2>2 DEF Handle, NewProject, BindCreator, BindInvited, CreationFails,
                    CreateBinding, UpdateBinding, DeleteBinding, WriteFails
    <2> QED BY <2>1, <2>2 DEF Next, SyncBindings, SyncProject, vars
<1>3. /\ Stored \in Nat /\ Stored' \in Nat /\ Stored <= Stored'
      /\ \A i \in 1 .. Stored : log'[i] = log[i]
    BY <1>0, <1>1 DEF Stored
<1>4. /\ Known \subseteq Known'
      /\ \A p \in Known : projects'[p] = "live" => projects[p] = "live"
    BY <1>0, <1>2 DEF Known
<1> QED BY <1>3, <1>4 DEF Grows

\* Every step keeps the limit checked for the requests that create a project.
LEMMA LimitStep == Inv /\ LimitChecked /\ [Next]_vars => LimitChecked'
<1> SUFFICES ASSUME Inv, LimitChecked, [Next]_vars, NEW r \in Requests,
                    pc'[r] \in {"new", "bind"}, req'[r].caller \in Users \ Admins,
                    UserProjectsLimit > 0, NEW c, c = req'[r].caller, NEW n, n = req'[r].seen
             PROVE  OwnedProjects(c, n)' < UserProjectsLimit
    BY DEF LimitChecked, OwnedProjects, OwnerPairs, Bindings
<1>1. n \in 0 .. Stored /\ OwnedProjects(c, n) < UserProjectsLimit /\ c \in Users \ Admins
    <2>1. CASE pc[r] \in {"new", "bind"} /\ c = req[r].caller /\ n = req[r].seen
        BY <2>1 DEF LimitChecked, Inv, MembersInv, RequestsInformed, Informed
    <2>2. CASE \E d \in Callers, invited \in SUBSET Users : CheckLimit(r, d, invited)
        <3>1. PICK d \in Callers, invited \in SUBSET Users : CheckLimit(r, d, invited)
            BY <2>2
        <3>2. req'[r] = [NoRequest EXCEPT !.caller = d, !.op = "create", !.seen = cache,
                                          !.invited = invited]
            BY <3>1 DEF CheckLimit, Inv, MembersInv, TypeOK
        <3>3. d = c /\ n = cache
            BY <3>2 DEF NoRequest
        <3> QED BY <3>1, <3>3 DEF CheckLimit, BelowLimit, Inv, MembersInv, TypeOK
    <2>3. CASE \E q \in Requests : Handle(q)
        BY <2>1, <2>2, <2>3, CreationStep
    <2>4. CASE ~\E q \in Requests : Handle(q)
        <3>1. UNCHANGED <<pc, req>>
            BY <2>4 DEF Next, SyncBindings, SyncProject, vars
        <3> QED BY <2>1, <3>1
    <2> QED BY <2>3, <2>4
<1>2. OwnedProjects(c, n)' <= OwnedProjects(c, n)
    BY <1>1, NextGrows, CountDrops DEF Inv
<1>3. /\ OwnedProjects(c, n) \in Nat /\ OwnedProjects(c, n)' \in Nat
      /\ UserProjectsLimit \in Nat
    <2>1. n \in Nat
        BY <1>1, NextGrows DEF Grows
    <2>2. CountsAreNumbers'
        BY CountsHold, PTL
    <2> QED BY <2>1, <2>2, CountsHold, MembersAssumption DEF CountsAreNumbers
<1> QED BY <1>1, <1>2, <1>3

\* Every project a user owns is counted at least once.
LEMMA OwnedAreCounted ==
    ASSUME MembersInv, NEW u
    PROVE  IsFiniteSet(Owned(u)) /\ Cardinality(Owned(u)) <= OwnedProjects(u, Stored)
<1>1. log \in Seq(Versions)
    BY DEF MembersInv, TypeOK
<1>2. Stored \in Nat
    BY <1>1 DEF Stored
<1> DEFINE Mine(p) == {i \in BindingsOf(u, p, Stored) : log[i].role = "owners"}
           f == [p \in Owned(u) |-> <<CHOOSE i \in Mine(p) : TRUE, CHOOSE i \in Mine(p) : TRUE>>]
<1>3. ASSUME NEW p \in Owned(u)
      PROVE  /\ \E i \in Mine(p) : f[p] = <<i, i>>
             /\ projects[p] = "live"
    <2>1. Mine(p) # {} /\ projects[p] = "live"
        BY DEF Owned
    <2>2. (CHOOSE i \in Mine(p) : TRUE) \in Mine(p)
        <3> HIDE DEF Mine
        <3> QED BY <2>1
    <2> QED BY <2>1, <2>2
<1>4. \A p : \A i \in Mine(p) : /\ i \in Bindings(Stored) /\ log[i].user = u
                                /\ log[i].project = p /\ log[i].role = "owners"
    BY DEF BindingsOf
<1> HIDE DEF Mine, f
<1>5. \A p \in Owned(u) : f[p] \in OwnerPairs(u, Stored) /\ log[f[p][1]].project = p
    <2> SUFFICES ASSUME NEW p \in Owned(u)
                 PROVE  f[p] \in OwnerPairs(u, Stored) /\ log[f[p][1]].project = p
        OBVIOUS
    <2>1. PICK i \in Mine(p) : f[p] = <<i, i>>
        BY <1>3
    <2>2. /\ i \in Bindings(Stored) /\ log[i].user = u
          /\ log[i].project = p /\ log[i].role = "owners" /\ projects[p] = "live"
        BY <1>3, <1>4
    <2>3. f[p] \in Bindings(Stored) \X Bindings(Stored) /\ f[p][1] = i /\ f[p][2] = i
        BY <2>1, <2>2
    <2>4. f[p] \in OwnerPairs(u, Stored)
        BY <2>2, <2>3 DEF OwnerPairs
    <2> QED BY <2>2, <2>3, <2>4
<1>6. f \in [Owned(u) -> OwnerPairs(u, Stored)]
    <2>1. f = [p \in Owned(u) |-> f[p]]
        BY DEF f
    <2> QED BY <1>5, <2>1
<1>7. f \in Injection(Owned(u), OwnerPairs(u, Stored))
    BY <1>5, <1>6 DEF Injection, IsInjective
<1>8. IsFiniteSet(OwnerPairs(u, Stored))
    BY <1>2, PairsAreFinite
<1> QED BY <1>7, <1>8, FS_Injection DEF OwnedProjects

\* Binding the creator adds the new project and no other.
LEMMA OwnedAfterBind ==
    ASSUME Inv, NEW r \in Requests, BindCreator(r), NEW u
    PROVE  Owned(u)' \subseteq Owned(u) \cup {req[r].project}
<1>1. PICK v : /\ log' = Append(log, v) /\ v.project = req[r].project
               /\ projects' = projects
    BY DEF BindCreator, Write
<1>2. log \in Seq(Versions)
    BY DEF Inv, MembersInv, TypeOK
<1>3. /\ Stored \in Nat /\ Stored' = Stored + 1
      /\ \A i \in 1 .. Stored : log'[i] = log[i]
      /\ log'[Stored + 1] = v
    BY <1>1, <1>2 DEF Stored
<1> SUFFICES ASSUME NEW p \in Owned(u)', p # req[r].project
             PROVE  p \in Owned(u)
    OBVIOUS
<1>4. PICK i \in 1 .. Stored' :
         /\ log'[i].role = "owners" /\ log'[i].user = u /\ log'[i].project = p
         /\ \A j \in (i + 1) .. Stored' : log'[j].id # log'[i].id
    BY DEF Owned, BindingsOf, Bindings
<1>5. i \in 1 .. Stored /\ log'[i] = log[i]
    <2>1. i # Stored + 1
        BY <1>1, <1>3, <1>4
    <2>2. i \in 1 .. Stored
        BY <1>3, <2>1
    <2> QED BY <1>3, <2>2
<1>6. \A j \in (i + 1) .. Stored : j \in (i + 1) .. Stored' /\ log'[j] = log[j]
    BY <1>3, <1>5
<1>7. i \in BindingsOf(u, p, Stored)
    BY <1>4, <1>5, <1>6 DEF BindingsOf, Bindings
<1>8. p \in Known /\ projects[p] = "live"
    BY <1>1 DEF Owned, Known
<1> QED BY <1>4, <1>5, <1>7, <1>8 DEF Owned

LimitStepOK ==
    \A r \in Requests, u \in Users \ Admins :
         /\ pc[r] = "bind" /\ BindCreator(r)
         /\ req[r].caller = u /\ req[r].seen = Stored
         /\ UserProjectsLimit > 0
         => Cardinality(Owned(u)') <= UserProjectsLimit

\* A creation that missed nothing leaves its caller within the limit.
LEMMA LimitKept == Inv /\ LimitChecked => LimitStepOK
<1> SUFFICES ASSUME Inv, LimitChecked, NEW r \in Requests, NEW u \in Users \ Admins,
                    pc[r] = "bind", BindCreator(r), req[r].caller = u,
                    req[r].seen = Stored, UserProjectsLimit > 0
             PROVE  Cardinality(Owned(u)') <= UserProjectsLimit
    BY DEF LimitStepOK
<1> DEFINE S == Owned(u)
           p == req[r].project
<1>1. OwnedProjects(u, Stored) < UserProjectsLimit
    BY DEF LimitChecked
<1>2. IsFiniteSet(S) /\ Cardinality(S) <= OwnedProjects(u, Stored)
    BY OwnedAreCounted DEF Inv
<1>3. Owned(u)' \in SUBSET (S \cup {p})
    BY OwnedAfterBind
<1>4. Cardinality(S) \in Nat
    BY <1>2, FS_CardinalityType
<1> HIDE DEF S, p
<1>5. IsFiniteSet(S \cup {p}) /\ Cardinality(S \cup {p}) <= Cardinality(S) + 1
    BY <1>2, <1>4, FS_AddElement, SMTT(60)
<1>6. IsFiniteSet(Owned(u)') /\ Cardinality(Owned(u)') <= Cardinality(S \cup {p})
    BY <1>3, <1>5, FS_Subset
<1>7. OwnedProjects(u, Stored) \in Nat
    <2>1. log \in Seq(Versions)
        BY DEF Inv, MembersInv, TypeOK
    <2>2. Stored \in Nat
        BY <2>1 DEF Stored
    <2> QED BY <2>2, CountsHold DEF CountsAreNumbers
<1>8. Cardinality(S \cup {p}) \in Nat /\ Cardinality(Owned(u)') \in Nat
    BY <1>5, <1>6, FS_CardinalityType
<1> QED BY <1>1, <1>2, <1>4, <1>5, <1>6, <1>7, <1>8, MembersAssumption

\* A request that checked the limit on current bindings, none of which
\* changed before it bound its caller, respects the limit: whatever other
\* requests do in between, projects that come and go included.
THEOREM LimitIsKept == Spec => LimitExceededOnlyByRace
<1>1. Init => LimitChecked
    BY DEF Init, LimitChecked
<1>2. Inv /\ LimitChecked => [LimitStepOK]_vars
    BY LimitKept
<1>3. Spec => [](Inv /\ LimitChecked)
    BY <1>1, InitInv, NextInv, LimitStep, PTL DEF Spec
<1>4. Spec => [][LimitStepOK]_vars
    BY <1>2, <1>3, PTL
<1> QED BY <1>4 DEF LimitExceededOnlyByRace, LimitStepOK
=============================================================================
