-------------------------- MODULE PresenceHub_proofs --------------------------
(***************************************************************************)
(* Proofs about PresenceHub, for any number of accounts, sockets and        *)
(* leases.                                                                 *)
(***************************************************************************)
EXTENDS PresenceHub, FiniteSetTheorems, TLAPS

-----------------------------------------------------------------------------
(* The sockets of an account *)

\* A socket that opens or closes changes the sockets of its own account only.
LEMMA OfOthers ==
    ASSUME HubAssumption, NEW conns \in SUBSET Conns, NEW c \in Conns, NEW u \in Users, u # Owner[c]
    PROVE  Of(u, conns \cup {c}) = Of(u, conns) /\ Of(u, conns \ {c}) = Of(u, conns)
BY DEF Of, HubAssumption

\* Opening one more socket adds it to those of its account.
LEMMA OfMore ==
    ASSUME HubAssumption, NEW conns \in SUBSET Conns, NEW c \in Conns
    PROVE  Of(Owner[c], conns \cup {c}) = Of(Owner[c], conns) \cup {c}
BY DEF Of, HubAssumption

\* Closing one takes it from them.
LEMMA OfLess ==
    ASSUME HubAssumption, NEW conns \in SUBSET Conns, NEW c \in Conns
    PROVE  Of(Owner[c], conns \ {c}) = Of(Owner[c], conns) \ {c}
BY DEF Of, HubAssumption

\* Closing all sockets of one account leaves it none, and the others theirs.
LEMMA OfDisconnected ==
    ASSUME HubAssumption, NEW conns \in SUBSET Conns, NEW u \in Users, NEW v \in Users
    PROVE  Of(v, conns \ Of(u, conns)) = IF v = u THEN {} ELSE Of(v, conns)
BY DEF Of, HubAssumption

\* The sockets of an account can be counted.
LEMMA OfCounts ==
    ASSUME HubAssumption, NEW conns \in SUBSET Conns, NEW u \in Users
    PROVE  /\ IsFiniteSet(Of(u, conns))
           /\ Cardinality(Of(u, conns)) \in Nat
           /\ Cardinality(Of(u, conns)) = 0 <=> Of(u, conns) = {}
<1>1. Of(u, conns) \in SUBSET Conns
  BY DEF Of, HubAssumption
<1>2. IsFiniteSet(Of(u, conns))
  BY <1>1, FS_Subset DEF HubAssumption
<1> QED
  BY <1>2, FS_CardinalityType, FS_EmptySet

\* One socket more or less is one more or less to count.
LEMMA OfStep ==
    ASSUME HubAssumption, NEW conns \in SUBSET Conns, NEW c \in Conns
    PROVE  /\ c \notin conns =>
                Cardinality(Of(Owner[c], conns \cup {c})) = Cardinality(Of(Owner[c], conns)) + 1
           /\ c \in conns =>
                Cardinality(Of(Owner[c], conns \ {c})) = Cardinality(Of(Owner[c], conns)) - 1
<1>1. Owner[c] \in Users
  BY DEF HubAssumption
<1>2. IsFiniteSet(Of(Owner[c], conns))
  BY <1>1, OfCounts
<1>3. c \in Of(Owner[c], conns) <=> c \in conns
  BY DEF Of, HubAssumption
<1>4. ASSUME c \notin conns
      PROVE  Cardinality(Of(Owner[c], conns \cup {c})) = Cardinality(Of(Owner[c], conns)) + 1
  <2>1. Cardinality(Of(Owner[c], conns) \cup {c}) = Cardinality(Of(Owner[c], conns)) + 1
    BY <1>2, <1>3, <1>4, FS_AddElement
  <2> QED
    BY <2>1, OfMore
<1>5. ASSUME c \in conns
      PROVE  Cardinality(Of(Owner[c], conns \ {c})) = Cardinality(Of(Owner[c], conns)) - 1
  <2>1. Cardinality(Of(Owner[c], conns) \ {c}) = Cardinality(Of(Owner[c], conns)) - 1
    BY <1>2, <1>3, <1>5, FS_RemoveElement
  <2> QED
    BY <2>1, OfLess
<1> QED
  BY <1>4, <1>5

\* The badge of an account is that of one of its sockets, and no other socket
\* has a better one.
LEMMA BestKindBest ==
    ASSUME HubAssumption, NEW conns \in SUBSET Conns, NEW u \in Users, Of(u, conns) # {}
    PROVE  /\ BestKind(u, conns) \in {Priority[c] : c \in Of(u, conns)}
           /\ \A c \in Of(u, conns) : Priority[c] <= BestKind(u, conns)
<1> DEFINE ranks == {Priority[c] : c \in Of(u, conns)}
<1>1. ranks \subseteq 1..3 /\ ranks # {}
  BY DEF Of, HubAssumption
<1>2. \E p \in ranks : \A q \in ranks : q <= p
  <2>1. CASE 3 \in ranks
    BY <1>1, <2>1
  <2>2. CASE 3 \notin ranks /\ 2 \in ranks
    BY <1>1, <2>2
  <2>3. CASE 3 \notin ranks /\ 2 \notin ranks
    BY <1>1, <2>3
  <2> QED
    BY <2>1, <2>2, <2>3
<1>3. \E p \in ranks : \A c \in Of(u, conns) : Priority[c] <= p
  BY <1>2
<1> QED
  BY <1>3 DEF BestKind

\* The badge of an account is a badge.
LEMMA BestKindType ==
    ASSUME HubAssumption, NEW conns \in SUBSET Conns, NEW u \in Users
    PROVE  BestKind(u, conns) \in 0..3
<1>1. CASE Of(u, conns) = {}
  BY <1>1 DEF BestKind
<1>2. CASE Of(u, conns) # {}
  BY <1>2, BestKindBest DEF Of, HubAssumption
<1> QED
  BY <1>1, <1>2

-----------------------------------------------------------------------------
(* Type correctness *)

\* A snapshot is well typed.
LEMMA SnapshotType ==
    ASSUME HubAssumption, TypeOK
    PROVE  Snapshot \in Snapshots
<1>1. \A u \in Users : Status(u) \in Statuses
  BY DEF Status, Statuses
<1>2. Unlisted \in Shown
  BY DEF Unlisted, Shown, Statuses
<1> QED
  BY <1>1, <1>2 DEF Snapshot, Snapshots, Shown, TypeOK

\* The initial state, a server just started, is well typed.
LEMMA TypeInit ==
    ASSUME HubAssumption, Init
    PROVE  TypeOK
<1>1. /\ phase \in [Conns -> {"idle", "arriving", "open"}]
      /\ device \in [Conns -> Statuses]
      /\ buffer \in [Conns -> Snapshots \cup {None}]
      /\ seen \in [Conns -> Snapshots \cup {None}]
  BY DEF Init, Statuses
<1>2. counts \in [Users -> Nat] /\ kinds \in [Users -> 0..3] /\ leases \in [Users -> 0..MaxLeases]
  BY DEF Init, HubAssumption
<1>3. /\ read \in [Conns -> BOOLEAN]
      /\ setting \in [Users -> BOOLEAN]
      /\ fixedAway \in [Users -> BOOLEAN]
      /\ owed \in BOOLEAN
  BY DEF Init
<1>4. clients \subseteq Conns /\ jobs \subseteq Jobs
  BY DEF Init
<1> QED
  BY <1>1, <1>2, <1>3, <1>4 DEF TypeOK

\* Closing sockets keeps them well typed.
LEMMA DiscardType ==
    ASSUME TypeOK, NEW gone \in SUBSET Conns, Discard(gone)
    PROVE  /\ phase' \in [Conns -> {"idle", "arriving", "open"}]
           /\ clients' \subseteq Conns
           /\ device' \in [Conns -> Statuses]
           /\ buffer' \in [Conns -> Snapshots \cup {None}]
           /\ seen' \in [Conns -> Snapshots \cup {None}]
BY DEF TypeOK, Discard, Statuses

\* Every step of a socket keeps the types, and so does every broadcast.
LEMMA TypeSockets ==
    ASSUME HubAssumption, TypeOK, Sockets
    PROVE  TypeOK'
<1>1. ASSUME NEW c \in Conns, Authenticate(c)
      PROVE  TypeOK'
  BY <1>1 DEF Authenticate, TypeOK, HubAssumption, hub, feed
<1>2. ASSUME NEW c \in Conns, Register(c)
      PROVE  TypeOK'
  <2>1. clients' \in SUBSET Conns /\ Owner[c] \in Users
    BY <1>2 DEF Register, TypeOK, HubAssumption
  <2>2. BestKind(Owner[c], clients') \in 0..3
    BY <2>1, BestKindType
  <2> QED
    BY <1>2, <2>1, <2>2 DEF Register, TypeOK
<1>3. ASSUME NEW c \in Conns, Unregister(c)
      PROVE  TypeOK'
  <2>1. clients \ {c} \in SUBSET Conns /\ Owner[c] \in Users
    BY DEF TypeOK, HubAssumption
  <2>2. BestKind(Owner[c], clients \ {c}) \in 0..3
    BY <2>1, BestKindType
  <2>3. kinds' \in [Users -> 0..3]
    BY <1>3, <2>1, <2>2 DEF Unregister, TypeOK
  <2>4. leases' \in [Users -> 0..MaxLeases]
    BY <1>3, <2>1 DEF Unregister, TypeOK, HubAssumption
  <2>5. Discard({c})
    BY <1>3 DEF Unregister
  <2> QED
    BY <1>3, <2>3, <2>4, <2>5, DiscardType DEF Unregister, TypeOK
<1>4. ASSUME NEW c \in Conns, WritePresence(c)
      PROVE  TypeOK'
  BY <1>4 DEF WritePresence, TypeOK, hub
<1>5. ASSUME NEW c \in Conns, NEW s \in Statuses, SetDeviceStatus(c, s)
      PROVE  TypeOK'
  BY <1>5 DEF SetDeviceStatus, TypeOK
<1>6. CASE BroadcastPresence
  BY <1>6, SnapshotType DEF BroadcastPresence, Refill, TypeOK, hub
<1>7. ASSUME NEW u \in Users, Expire(u)
      PROVE  TypeOK'
  <2>1. leases' \in [Users -> 0..MaxLeases]
    BY <1>7 DEF Expire, TypeOK, HubAssumption
  <2>2. CASE counts[u] <= 1
    <3>1. Drop(u)
      BY <1>7, <2>2 DEF Expire
    <3>2. counts' \in [Users -> Nat] /\ kinds' \in [Users -> 0..3] /\ fixedAway' \in [Users -> BOOLEAN]
      BY <3>1 DEF Drop, TypeOK
    <3> QED
      BY <1>7, <2>1, <3>2 DEF Expire, TypeOK
  <2>3. CASE ~(counts[u] <= 1)
    <3>1. counts[u] - 1 \in Nat
      BY <2>3 DEF TypeOK
    <3> QED
      BY <1>7, <2>1, <2>3, <3>1 DEF Expire, TypeOK
  <2> QED
    BY <2>2, <2>3
<1> QED
  BY <1>1, <1>2, <1>3, <1>4, <1>5, <1>6, <1>7 DEF Sockets

\* Every step of an account handler keeps the types.
LEMMA TypeAccounts ==
    ASSUME HubAssumption, TypeOK, Accounts
    PROVE  TypeOK'
<1>1. ASSUME NEW u \in Users, RevokeSessions(u)
      PROVE  TypeOK'
  <2>1. [op |-> "disconnect", user |-> u, value |-> FALSE] \in Jobs
    BY DEF Jobs
  <2> QED
    BY <1>1, <2>1 DEF RevokeSessions, TypeOK, hub, feed
<1>2. ASSUME NEW u \in Users, NEW b \in BOOLEAN, UpdateStatus(u, b)
      PROVE  TypeOK'
  <2>1. [op |-> "setFixedAway", user |-> u, value |-> b] \in Jobs
    BY DEF Jobs
  <2> QED
    BY <1>2, <2>1 DEF UpdateStatus, TypeOK, hub, feed
<1>3. ASSUME NEW j \in jobs, SetUserFixedAway(j)
      PROVE  TypeOK'
  <2>1. j.user \in Users /\ j.value \in BOOLEAN
    BY DEF TypeOK, Jobs
  <2> QED
    BY <1>3, <2>1 DEF SetUserFixedAway, TypeOK
<1>4. ASSUME NEW j \in jobs, DisconnectUser(j)
      PROVE  TypeOK'
  <2>1. j.user \in Users
    BY DEF TypeOK, Jobs
  <2>2. Of(j.user, clients) \in SUBSET Conns
    BY DEF Of, TypeOK
  <2>3. counts' \in [Users -> Nat] /\ kinds' \in [Users -> 0..3] /\ fixedAway' \in [Users -> BOOLEAN]
    BY <1>4, <2>1 DEF DisconnectUser, Drop, TypeOK
  <2>4. Discard(Of(j.user, clients))
    BY <1>4 DEF DisconnectUser
  <2> QED
    BY <1>4, <2>2, <2>3, <2>4, DiscardType DEF DisconnectUser, TypeOK
<1> QED
  BY <1>1, <1>2, <1>3, <1>4 DEF Accounts

\* Every step keeps the types.
LEMMA TypeNext ==
    ASSUME HubAssumption, TypeOK, [Next]_vars
    PROVE  TypeOK'
<1>1. CASE UNCHANGED vars
  BY <1>1 DEF vars, TypeOK
<1> QED
  BY <1>1, TypeSockets, TypeAccounts DEF Next

\* The hub is well typed in every reachable state.
THEOREM TypeCorrect == ASSUME HubAssumption PROVE Spec => []TypeOK
<1>1. Init => TypeOK
  BY TypeInit
<1>2. TypeOK /\ [Next]_vars => TypeOK'
  BY TypeNext
<1> QED
  BY <1>1, <1>2, PTL DEF Spec

-----------------------------------------------------------------------------
(* Leases *)

\* The hub's clients are the sockets that are open: a socket that arrives is
\* none of them yet.
Tracked == clients = {c \in Conns : phase[c] = "open"}

\* What the lease count of an account should be.
Held(u) == Cardinality(Of(u, clients)) + leases[u]

\* No lease is counted twice; revocation may forget some.
CountsBounded == \A u \in Users : counts[u] <= Held(u)

\* Nobody disconnects the sockets of an account whose sessions last.
Unrevoked == \A j \in jobs : j.op # "disconnect"

\* The steps that open or close no socket and end no lease.
Quiet == UNCHANGED <<clients, counts, kinds, leases>>

\* What an account should hold is a number.
LEMMA HeldType ==
    ASSUME HubAssumption, TypeOK, NEW u \in Users
    PROVE  /\ Cardinality(Of(u, clients)) \in Nat
           /\ leases[u] \in Nat
           /\ counts[u] \in Nat
           /\ Held(u) \in Nat
<1>1. Cardinality(Of(u, clients)) \in Nat
  BY OfCounts DEF TypeOK
<1>2. leases[u] \in Nat /\ counts[u] \in Nat
  BY DEF TypeOK, HubAssumption
<1> QED
  BY <1>1, <1>2 DEF Held

\* A step is a quiet one, or one of the four that open, close and expire.
LEMMA QuietSteps ==
    ASSUME Next
    PROVE  \/ Quiet
           \/ \E c \in Conns : Register(c) \/ Unregister(c)
           \/ \E u \in Users : Expire(u)
           \/ \E j \in jobs : DisconnectUser(j)
<1>1. ASSUME NEW c \in Conns, Authenticate(c) \/ WritePresence(c)
      PROVE  Quiet
  BY <1>1 DEF Authenticate, WritePresence, Quiet, hub
<1>2. ASSUME NEW c \in Conns, NEW s \in Statuses, SetDeviceStatus(c, s)
      PROVE  Quiet
  BY <1>2 DEF SetDeviceStatus, Quiet
<1>3. ASSUME BroadcastPresence
      PROVE  Quiet
  BY <1>3 DEF BroadcastPresence, Quiet, hub
<1>4. ASSUME NEW u \in Users, NEW b \in BOOLEAN, RevokeSessions(u) \/ UpdateStatus(u, b)
      PROVE  Quiet
  BY <1>4 DEF RevokeSessions, UpdateStatus, Quiet, hub
<1>5. ASSUME NEW j \in jobs, SetUserFixedAway(j)
      PROVE  Quiet
  BY <1>5 DEF SetUserFixedAway, Quiet
<1> QED
  BY <1>1, <1>2, <1>3, <1>4, <1>5 DEF Next, Sockets, Accounts

\* The open sockets are the clients, whatever comes.
LEMMA TrackedNext ==
    ASSUME HubAssumption, TypeOK, Tracked, [Next]_vars
    PROVE  Tracked'
<1>1. ASSUME NEW c \in Conns, Authenticate(c)
      PROVE  Tracked'
  BY <1>1 DEF Authenticate, Tracked, TypeOK, hub
<1>2. ASSUME NEW c \in Conns, Register(c)
      PROVE  Tracked'
  BY <1>2 DEF Register, Tracked, TypeOK
<1>3. ASSUME NEW gone \in SUBSET Conns, Discard(gone)
      PROVE  Tracked'
  BY <1>3 DEF Discard, Tracked, TypeOK
<1>4. ASSUME NEW c \in Conns, Unregister(c)
      PROVE  Tracked'
  BY <1>3, <1>4 DEF Unregister
<1>5. ASSUME NEW j \in jobs, DisconnectUser(j)
      PROVE  Tracked'
  BY <1>3, <1>5 DEF DisconnectUser, Of, TypeOK
<1>6. CASE UNCHANGED <<phase, clients>>
  BY <1>6 DEF Tracked
<1>7. ASSUME Sockets
      PROVE  Tracked'
  <2>1. ASSUME NEW c \in Conns, NEW s \in Statuses, WritePresence(c) \/ SetDeviceStatus(c, s)
        PROVE  UNCHANGED <<phase, clients>>
    BY <2>1 DEF WritePresence, SetDeviceStatus, hub
  <2>2. ASSUME NEW u \in Users, Expire(u)
        PROVE  UNCHANGED <<phase, clients>>
    BY <2>2 DEF Expire
  <2>3. ASSUME BroadcastPresence
        PROVE  UNCHANGED <<phase, clients>>
    BY <2>3 DEF BroadcastPresence, hub
  <2>4. "online" \in Statuses
    BY DEF Statuses
  <2> QED
    BY <1>1, <1>2, <1>4, <1>6, <1>7, <2>1, <2>2, <2>3, <2>4 DEF Sockets
<1>8. ASSUME Accounts
      PROVE  Tracked'
  <2>1. ASSUME NEW u \in Users, NEW b \in BOOLEAN, RevokeSessions(u) \/ UpdateStatus(u, b)
        PROVE  UNCHANGED <<phase, clients>>
    BY <2>1 DEF RevokeSessions, UpdateStatus, hub
  <2>2. ASSUME NEW j \in jobs, SetUserFixedAway(j)
        PROVE  UNCHANGED <<phase, clients>>
    BY <2>2 DEF SetUserFixedAway
  <2> QED
    BY <1>5, <1>6, <1>8, <2>1, <2>2 DEF Accounts
<1>9. CASE UNCHANGED vars
  BY <1>6, <1>9 DEF vars
<1> QED
  BY <1>7, <1>8, <1>9 DEF Next

\* A socket that opens: its account holds one more, and counts one more.
LEMMA RegisterHolds ==
    ASSUME HubAssumption, TypeOK, Tracked, NEW c \in Conns, Register(c), NEW u \in Users
    PROVE  /\ Held(u)' = IF u = Owner[c] THEN Held(u) + 1 ELSE Held(u)
           /\ counts'[u] = IF u = Owner[c] THEN counts[u] + 1 ELSE counts[u]
<1>1. c \notin clients /\ clients \in SUBSET Conns /\ Owner[c] \in Users
  BY DEF Register, Tracked, TypeOK, HubAssumption
<1>2. clients' = clients \cup {c} /\ leases' = leases
  BY DEF Register
<1>3. counts'[u] = IF u = Owner[c] THEN counts[u] + 1 ELSE counts[u]
  BY <1>1 DEF Register, TypeOK
<1>4. CASE u = Owner[c]
  <2>1. Cardinality(Of(u, clients')) = Cardinality(Of(u, clients)) + 1
    BY <1>1, <1>2, <1>4, OfStep
  <2> QED
    BY <1>2, <1>3, <1>4, <2>1, HeldType DEF Held, Of
<1>5. CASE u # Owner[c]
  <2>1. Of(u, clients') = Of(u, clients)
    BY <1>1, <1>2, <1>5, OfOthers
  <2> QED
    BY <1>2, <1>3, <1>5, <2>1 DEF Held, Of
<1> QED
  BY <1>4, <1>5

\* A socket that closes: its account holds a lease in its place.
LEMMA UnregisterHolds ==
    ASSUME HubAssumption, TypeOK, NEW c \in Conns, Unregister(c), NEW u \in Users
    PROVE  Held(u)' = Held(u) /\ counts' = counts
<1>1. c \in clients /\ clients \in SUBSET Conns /\ Owner[c] \in Users
  BY DEF Unregister, TypeOK, HubAssumption
<1>2. clients' = clients \ {c} /\ counts' = counts
  BY DEF Unregister, Discard
<1>3. leases'[u] = IF u = Owner[c] THEN leases[u] + 1 ELSE leases[u]
  BY <1>1 DEF Unregister, TypeOK
<1>4. CASE u = Owner[c]
  <2>1. Cardinality(Of(u, clients')) = Cardinality(Of(u, clients)) - 1
    BY <1>1, <1>2, <1>4, OfStep
  <2> QED
    BY <1>2, <1>3, <1>4, <2>1, HeldType DEF Held, Of
<1>5. CASE u # Owner[c]
  <2>1. Of(u, clients') = Of(u, clients)
    BY <1>1, <1>2, <1>5, OfOthers
  <2> QED
    BY <1>2, <1>3, <1>5, <2>1 DEF Held, Of
<1> QED
  BY <1>4, <1>5

\* A lease that ends: its account holds one less, and counts one less if it
\* counted any.
LEMMA ExpireHolds ==
    ASSUME HubAssumption, TypeOK, NEW v \in Users, Expire(v), NEW u \in Users
    PROVE  /\ Held(u)' = IF u = v THEN Held(u) - 1 ELSE Held(u)
           /\ counts'[u] = IF u # v THEN counts[u]
                           ELSE IF counts[u] <= 1 THEN 0 ELSE counts[u] - 1
           /\ Held(v) >= 1
<1>1. clients' = clients /\ leases[v] > 0
  BY DEF Expire
<1>2. leases'[u] = IF u = v THEN leases[u] - 1 ELSE leases[u]
  BY DEF Expire, TypeOK
<1>3. counts'[u] = IF u # v THEN counts[u]
                   ELSE IF counts[u] <= 1 THEN 0 ELSE counts[u] - 1
  BY DEF Expire, Drop, TypeOK
<1> QED
  BY <1>1, <1>2, <1>3, HeldType DEF Held, Of

\* A disconnected account counts nothing; the others hold and count as before.
LEMMA DisconnectHolds ==
    ASSUME HubAssumption, TypeOK, NEW j \in jobs, DisconnectUser(j), NEW u \in Users
    PROVE  /\ u # j.user => Held(u)' = Held(u)
           /\ counts'[u] = IF u = j.user THEN 0 ELSE counts[u]
           /\ Held(u)' \in Nat
<1>1. j.user \in Users /\ clients \in SUBSET Conns
  BY DEF TypeOK, Jobs
<1>2. clients' = clients \ Of(j.user, clients) /\ leases' = leases
  BY DEF DisconnectUser, Discard
<1>3. Of(u, clients') = IF u = j.user THEN {} ELSE Of(u, clients)
  BY <1>1, <1>2, OfDisconnected
<1>4. counts'[u] = IF u = j.user THEN 0 ELSE counts[u]
  BY <1>1 DEF DisconnectUser, Drop, TypeOK
<1>5. CASE u = j.user
  <2>1. Cardinality(Of(u, clients')) = 0
    BY <1>3, <1>5, FS_EmptySet
  <2>2. Held(u)' = 0 + leases[u]
    BY <1>2, <2>1 DEF Held
  <2>3. leases[u] \in Nat
    BY HeldType
  <2> QED
    BY <1>4, <1>5, <2>2, <2>3
<1>6. CASE u # j.user
  BY <1>2, <1>3, <1>4, <1>6, HeldType DEF Held, Of
<1> QED
  BY <1>5, <1>6

\* A quiet step holds and counts as before.
LEMMA QuietHolds ==
    ASSUME Quiet, NEW u \in Users
    PROVE  Held(u)' = Held(u) /\ counts'[u] = counts[u]
BY DEF Quiet, Held, Of

\* No step counts a lease twice.
LEMMA CountsBoundedNext ==
    ASSUME HubAssumption, TypeOK, Tracked, CountsBounded, [Next]_vars
    PROVE  CountsBounded'
<1> SUFFICES ASSUME NEW u \in Users
             PROVE  counts'[u] <= Held(u)'
  BY DEF CountsBounded
<1>1. counts[u] <= Held(u) /\ counts[u] \in Nat /\ Held(u) \in Nat
  BY HeldType DEF CountsBounded
<1>2. ASSUME Quiet
      PROVE  counts'[u] <= Held(u)'
  BY <1>1, <1>2, QuietHolds
<1>3. ASSUME NEW c \in Conns, Register(c)
      PROVE  counts'[u] <= Held(u)'
  BY <1>1, <1>3, RegisterHolds
<1>4. ASSUME NEW c \in Conns, Unregister(c)
      PROVE  counts'[u] <= Held(u)'
  BY <1>1, <1>4, UnregisterHolds
<1>5. ASSUME NEW v \in Users, Expire(v)
      PROVE  counts'[u] <= Held(u)'
  BY <1>1, <1>5, ExpireHolds
<1>6. ASSUME NEW j \in jobs, DisconnectUser(j)
      PROVE  counts'[u] <= Held(u)'
  BY <1>1, <1>6, DisconnectHolds
<1>7. CASE UNCHANGED vars
  BY <1>2, <1>7 DEF vars, Quiet
<1> QED
  BY <1>2, <1>3, <1>4, <1>5, <1>6, <1>7, QuietSteps

\* Without revocation, no step loses a lease either.
LEMMA LeasesCountedNext ==
    ASSUME HubAssumption, TypeOK, Tracked, LeasesCounted, Unrevoked, [Next]_vars
    PROVE  LeasesCounted'
<1> SUFFICES ASSUME NEW u \in Users
             PROVE  counts'[u] = Held(u)'
  BY DEF LeasesCounted, Held
<1>1. counts[u] = Held(u) /\ counts[u] \in Nat /\ Held(u) \in Nat
  BY HeldType DEF LeasesCounted, Held
<1>2. ASSUME Quiet
      PROVE  counts'[u] = Held(u)'
  BY <1>1, <1>2, QuietHolds
<1>3. ASSUME NEW c \in Conns, Register(c)
      PROVE  counts'[u] = Held(u)'
  BY <1>1, <1>3, RegisterHolds
<1>4. ASSUME NEW c \in Conns, Unregister(c)
      PROVE  counts'[u] = Held(u)'
  BY <1>1, <1>4, UnregisterHolds
<1>5. ASSUME NEW v \in Users, Expire(v)
      PROVE  counts'[u] = Held(u)'
  BY <1>1, <1>5, ExpireHolds
<1>6. \A j \in jobs : ~DisconnectUser(j)
  BY DEF Unrevoked, DisconnectUser
<1>7. CASE UNCHANGED vars
  BY <1>2, <1>7 DEF vars, Quiet
<1> QED
  BY <1>2, <1>3, <1>4, <1>5, <1>6, <1>7, QuietSteps

\* Without "revoke" no handler is going to disconnect an account.
LEMMA UnrevokedNext ==
    ASSUME "revoke" \notin Scope, Unrevoked, [Next]_vars
    PROVE  Unrevoked'
<1>1. \A u \in Users : ~RevokeSessions(u)
  BY DEF RevokeSessions
<1>2. ASSUME NEW u \in Users, NEW b \in BOOLEAN, UpdateStatus(u, b)
      PROVE  Unrevoked'
  BY <1>2 DEF UpdateStatus, Unrevoked
<1>3. ASSUME NEW j \in jobs, SetUserFixedAway(j) \/ DisconnectUser(j)
      PROVE  Unrevoked'
  BY <1>3 DEF SetUserFixedAway, DisconnectUser, Unrevoked
<1>4. CASE jobs' = jobs
  BY <1>4 DEF Unrevoked
<1>5. Sockets => jobs' = jobs
  BY DEF Sockets, Authenticate, Register, Unregister, WritePresence, SetDeviceStatus,
         BroadcastPresence, Expire
<1>6. UNCHANGED vars => jobs' = jobs
  BY DEF vars
<1> QED
  BY <1>1, <1>2, <1>3, <1>4, <1>5, <1>6 DEF Next, Accounts

-----------------------------------------------------------------------------
(* Badges *)

\* The badge depends on the account's own sockets only.
LEMMA BestKindSame ==
    ASSUME NEW u, NEW conns, NEW others, Of(u, conns) = Of(u, others)
    PROVE  BestKind(u, conns) = BestKind(u, others)
BY DEF BestKind

\* Every step leaves each connected account the badge of its best socket.
LEMMA BadgeIsBestNext ==
    ASSUME HubAssumption, TypeOK, BadgeIsBest, [Next]_vars
    PROVE  BadgeIsBest'
<1> SUFFICES ASSUME NEW u \in Users, counts'[u] > 0, Of(u, clients') # {}
             PROVE  kinds'[u] = BestKind(u, clients')
  BY DEF BadgeIsBest
<1>1. ASSUME counts[u] > 0, kinds'[u] = kinds[u], Of(u, clients') = Of(u, clients)
      PROVE  kinds'[u] = BestKind(u, clients')
  BY <1>1, BestKindSame DEF BadgeIsBest
<1>2. ASSUME Quiet
      PROVE  kinds'[u] = BestKind(u, clients')
  BY <1>1, <1>2 DEF Quiet
<1>3. ASSUME NEW c \in Conns, Register(c)
      PROVE  kinds'[u] = BestKind(u, clients')
  <2>1. clients' = clients \cup {c} /\ clients \in SUBSET Conns
    BY <1>3 DEF Register, TypeOK
  <2>2. CASE u = Owner[c]
    BY <1>3, <2>2 DEF Register, TypeOK
  <2>3. CASE u # Owner[c]
    <3>1. Of(u, clients') = Of(u, clients)
      BY <2>1, <2>3, OfOthers
    <3>2. counts'[u] = counts[u] /\ kinds'[u] = kinds[u]
      BY <1>3, <2>3 DEF Register, TypeOK
    <3> QED
      BY <1>1, <3>1, <3>2
  <2> QED
    BY <2>2, <2>3
<1>4. ASSUME NEW c \in Conns, Unregister(c)
      PROVE  kinds'[u] = BestKind(u, clients')
  <2>1. clients' = clients \ {c} /\ clients \in SUBSET Conns /\ counts' = counts
    BY <1>4 DEF Unregister, Discard, TypeOK
  <2>2. CASE u = Owner[c]
    <3>1. Of(Owner[c], clients \ {c}) # {}
      BY <2>1, <2>2
    <3>2. kinds' = [kinds EXCEPT ![u] = BestKind(u, clients')]
      BY <1>4, <2>1, <2>2, <3>1 DEF Unregister
    <3> QED
      BY <3>2 DEF TypeOK
  <2>3. CASE u # Owner[c]
    <3>1. Of(u, clients') = Of(u, clients)
      BY <2>1, <2>3, OfOthers
    <3>2. kinds'[u] = kinds[u]
      BY <1>4, <2>3 DEF Unregister, TypeOK
    <3> QED
      BY <1>1, <2>1, <3>1, <3>2
  <2> QED
    BY <2>2, <2>3
<1>5. ASSUME NEW v \in Users, Expire(v)
      PROVE  kinds'[u] = BestKind(u, clients')
  <2>1. clients' = clients
    BY <1>5 DEF Expire
  <2>2. CASE u = v
    <3>1. ~(counts[u] <= 1)
      BY <1>5, <2>2 DEF Expire, Drop, TypeOK
    <3>2. kinds' = kinds /\ counts[u] > 0
      BY <1>5, <2>2, <3>1 DEF Expire, TypeOK
    <3> QED
      BY <1>1, <2>1, <3>2
  <2>3. CASE u # v
    <3>1. kinds'[u] = kinds[u] /\ counts'[u] = counts[u]
      BY <1>5, <2>3 DEF Expire, Drop, TypeOK
    <3> QED
      BY <1>1, <2>1, <3>1
  <2> QED
    BY <2>2, <2>3
<1>6. ASSUME NEW j \in jobs, DisconnectUser(j)
      PROVE  kinds'[u] = BestKind(u, clients')
  <2>1. j.user \in Users /\ clients \in SUBSET Conns
    BY DEF TypeOK, Jobs
  <2>2. clients' = clients \ Of(j.user, clients)
    BY <1>6 DEF DisconnectUser, Discard
  <2>3. u # j.user /\ Of(u, clients') = Of(u, clients)
    BY <2>1, <2>2, OfDisconnected
  <2>4. kinds'[u] = kinds[u] /\ counts'[u] = counts[u]
    BY <1>6, <2>3 DEF DisconnectUser, Drop, TypeOK
  <2> QED
    BY <1>1, <2>3, <2>4
<1>7. CASE UNCHANGED vars
  BY <1>2, <1>7 DEF vars, Quiet
<1> QED
  BY <1>2, <1>3, <1>4, <1>5, <1>6, <1>7, QuietSteps

-----------------------------------------------------------------------------
(* The lists the clients have *)

\* No broadcast is owed and no lease runs: the lists should be current.
Settled == ~owed /\ \A u \in Users : leases[u] = 0

\* A snapshot is never the empty buffer, for the hub that makes one has accounts.
LEMMA SnapshotIsOne ==
    ASSUME Users # {}
    PROVE  Snapshot # None
BY DEF Snapshot, None

\* A snapshot depends on these variables only.
LEMMA SnapshotSame ==
    ASSUME UNCHANGED <<clients, counts, kinds, fixedAway, device>>
    PROVE  Snapshot' = Snapshot
BY DEF Snapshot, Status, Of

\* A step that changes nothing that is shown, no list and no client keeps the
\* lists current.
LEMMA ListsKept ==
    ASSUME ListsAreCurrent, Settled, UNCHANGED <<clients, counts, kinds, fixedAway, device>>,
           \A c \in clients : Newest(c)' = Newest(c)
    PROVE  \A c \in clients' : Newest(c)' = Snapshot'
BY SnapshotSame DEF ListsAreCurrent, Settled

\* The lists are current once all has settled: a step that changes what is
\* shown owes a broadcast or begins a lease, and the end of a lease owes one.
LEMMA ListsAreCurrentNext ==
    ASSUME HubAssumption, TypeOK, ListsAreCurrent, [Next]_vars
    PROVE  ListsAreCurrent'
<1> SUFFICES ASSUME Settled'
             PROVE  \A c \in clients' : Newest(c)' = Snapshot'
  BY DEF ListsAreCurrent, Settled
<1>1. ASSUME UNCHANGED <<clients, counts, kinds, fixedAway, device, leases, owed, buffer, seen>>
      PROVE  \A c \in clients' : Newest(c)' = Snapshot'
  BY <1>1, ListsKept DEF Settled, Newest
<1>2. ASSUME NEW c \in Conns, Authenticate(c)
      PROVE  \A d \in clients' : Newest(d)' = Snapshot'
  BY <1>1, <1>2 DEF Authenticate, hub, feed
<1>3. ASSUME NEW c \in Conns
      PROVE  ~Register(c) /\ \A s \in Statuses : ~SetDeviceStatus(c, s)
  BY <1>3 DEF Register, SetDeviceStatus, Settled
<1>4. ASSUME NEW c \in Conns
      PROVE  ~Unregister(c)
  <2>1. ASSUME Unregister(c)
        PROVE  FALSE
    <3>1. leases'[Owner[c]] = leases[Owner[c]] + 1 /\ leases[Owner[c]] \in Nat /\ Owner[c] \in Users
      BY <2>1 DEF Unregister, TypeOK, HubAssumption
    <3> QED
      BY <3>1 DEF Settled
  <2> QED
    BY <2>1
<1>5. ASSUME NEW c \in Conns, WritePresence(c)
      PROVE  \A d \in clients' : Newest(d)' = Snapshot'
  <2>1. \A d \in clients : Newest(d)' = Newest(d)
    BY <1>5 DEF WritePresence, Newest, TypeOK
  <2> QED
    BY <1>5, <2>1, ListsKept DEF WritePresence, Settled, hub
<1>6. ASSUME BroadcastPresence
      PROVE  \A c \in clients' : Newest(c)' = Snapshot'
  <2>1. Snapshot' = Snapshot /\ clients' = clients
    BY <1>6, SnapshotSame DEF BroadcastPresence, hub
  <2>2. ASSUME NEW c \in clients
        PROVE  Newest(c)' = Snapshot
    <3>1. c \in Conns /\ Users # {}
      BY DEF TypeOK, HubAssumption
    <3>2. buffer'[c] = Snapshot
      BY <1>6, <3>1 DEF BroadcastPresence, Refill
    <3> QED
      BY <3>1, <3>2, SnapshotIsOne DEF Newest
  <2> QED
    BY <2>1, <2>2
<1>7. \A u \in Users : ~Expire(u)
  BY DEF Expire, Settled
<1>8. ASSUME NEW u \in Users, NEW b \in BOOLEAN, RevokeSessions(u) \/ UpdateStatus(u, b)
      PROVE  \A c \in clients' : Newest(c)' = Snapshot'
  BY <1>1, <1>8 DEF RevokeSessions, UpdateStatus, hub, feed
<1>9. \A j \in jobs : ~SetUserFixedAway(j) /\ ~DisconnectUser(j)
  BY DEF SetUserFixedAway, DisconnectUser, Settled
<1>10. CASE UNCHANGED vars
  BY <1>1, <1>10 DEF vars
<1>11. CASE Sockets
  BY <1>2, <1>3, <1>4, <1>5, <1>6, <1>7, <1>11 DEF Sockets
<1>12. CASE Accounts
  BY <1>8, <1>9, <1>12 DEF Accounts
<1> QED
  BY <1>10, <1>11, <1>12 DEF Next

-----------------------------------------------------------------------------
(* The theorems *)

\* In the server just started no socket is open, nothing is counted or shown
\* and no handler is at work.
LEMMA HubInit ==
    ASSUME HubAssumption, Init
    PROVE  Tracked /\ CountsBounded /\ HubAgrees /\ Unrevoked
<1>1. Tracked /\ Unrevoked /\ BadgeIsBest /\ ListsAreCurrent
  BY DEF Init, Tracked, Unrevoked, BadgeIsBest, ListsAreCurrent
<1>2. ASSUME NEW u \in Users
      PROVE  counts[u] = Held(u) /\ Held(u) = 0
  <2>1. Of(u, clients) = {}
    BY DEF Init, Of
  <2>2. Cardinality(Of(u, clients)) = 0
    BY <2>1, FS_EmptySet
  <2> QED
    BY <2>2 DEF Init, Held
<1>3. LeasesCounted
  BY <1>2 DEF LeasesCounted, Held
<1>4. CountsBounded
  BY <1>2 DEF CountsBounded
<1> QED
  BY <1>1, <1>3, <1>4 DEF HubAgrees

\* No lease is counted twice, so a count needs something to count.
LEMMA BoundedHasNoGhosts ==
    ASSUME HubAssumption, TypeOK, CountsBounded
    PROVE  NoGhosts
<1> SUFFICES ASSUME NEW u \in Users, counts[u] > 0, Of(u, clients) = {}
             PROVE  leases[u] > 0
  BY DEF NoGhosts
<1>1. Cardinality(Of(u, clients)) = 0
  BY FS_EmptySet
<1>2. counts[u] <= Held(u) /\ leases[u] \in Nat /\ counts[u] \in Nat
  BY HeldType DEF CountsBounded
<1> QED
  BY <1>1, <1>2 DEF Held

\* No account is shown online without a socket or a running lease, in whatever
\* order its sockets close, its leases end and its sessions are revoked.
THEOREM GhostsNever == ASSUME HubAssumption PROVE Spec => []NoGhosts
<1> DEFINE Inv == TypeOK /\ Tracked /\ CountsBounded
<1>1. Init => Inv
  BY TypeInit, HubInit
<1>2. Inv /\ [Next]_vars => Inv'
  BY TypeNext, TrackedNext, CountsBoundedNext
<1>3. Inv => NoGhosts
  BY BoundedHasNoGhosts
<1> QED
  BY <1>1, <1>2, <1>3, PTL DEF Spec

\* As long as no session is revoked, no lease is lost, the badge is the best
\* socket's, and the lists are current whenever nothing is on its way.
THEOREM HubAlwaysAgrees ==
    ASSUME HubAssumption, "revoke" \notin Scope
    PROVE  Spec => []HubAgrees
<1> DEFINE Inv == TypeOK /\ Tracked /\ Unrevoked /\ HubAgrees
<1>1. Init => Inv
  BY TypeInit, HubInit
<1>2. Inv /\ [Next]_vars => Inv'
  BY TypeNext, TrackedNext, UnrevokedNext, LeasesCountedNext, BadgeIsBestNext,
     ListsAreCurrentNext DEF HubAgrees
<1>3. Inv => HubAgrees
  OBVIOUS
<1> QED
  BY <1>1, <1>2, <1>3, PTL DEF Spec

\* Badges and lists are right also when sessions are revoked.
THEOREM ShownIsRight == ASSUME HubAssumption PROVE Spec => [](BadgeIsBest /\ ListsAreCurrent)
<1> DEFINE Inv == TypeOK /\ BadgeIsBest /\ ListsAreCurrent
<1>1. Init => Inv
  BY TypeInit, HubInit DEF HubAgrees
<1>2. Inv /\ [Next]_vars => Inv'
  BY TypeNext, BadgeIsBestNext, ListsAreCurrentNext
<1>3. Inv => BadgeIsBest /\ ListsAreCurrent
  OBVIOUS
<1> QED
  BY <1>1, <1>2, <1>3, PTL DEF Spec

\* A client counts for its account while every lease is counted.
LEMMA CountedIsOnline ==
    ASSUME HubAssumption, TypeOK, LeasesCounted
    PROVE  ConnectedIsOnline
<1> SUFFICES ASSUME NEW c \in clients
             PROVE  counts[Owner[c]] > 0
  BY DEF ConnectedIsOnline
<1>1. Owner[c] \in Users /\ clients \in SUBSET Conns
  BY DEF TypeOK, HubAssumption
<1>2. Of(Owner[c], clients) # {}
  BY DEF Of
<1>3. /\ Cardinality(Of(Owner[c], clients)) \in Nat
      /\ Cardinality(Of(Owner[c], clients)) # 0
      /\ leases[Owner[c]] \in Nat
  BY <1>1, <1>2, OfCounts, HeldType
<1> QED
  BY <1>1, <1>3 DEF LeasesCounted

\* Revocation is all that takes a connected account offline: without it the
\* account stays online while any of its sockets is open (product-spec.md).
THEOREM ConnectedStayOnline ==
    ASSUME HubAssumption, "revoke" \notin Scope
    PROVE  Spec => []ConnectedIsOnline
<1>1. Spec => []HubAgrees
  BY HubAlwaysAgrees
<1>2. Spec => []TypeOK
  BY TypeCorrect
<1>3. TypeOK /\ HubAgrees => ConnectedIsOnline
  BY CountedIsOnline DEF HubAgrees
<1> QED
  BY <1>1, <1>2, <1>3, PTL
=============================================================================
