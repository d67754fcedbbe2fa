----------------------------- MODULE PresenceHub -----------------------------
(***************************************************************************)
(* Who is online and how they are shown: the presence half of              *)
(* internal/httpapi/hub.go, with the WebSocket handler that registers and  *)
(* unregisters connections and the account handlers that reach the hub.    *)
(*                                                                         *)
(* A handler that changes the store first and the hub afterwards is two    *)
(* steps; so is a change of the hub and the presence broadcast that        *)
(* follows it, because h.mu is released in between.  All users here share  *)
(* a guild: who may see whom is in GuildFeed.                              *)
(*                                                                         *)
(* An operator named X_Fault is X with a plausible mistake in it, unused.  *)
(***************************************************************************)
EXTENDS Integers, FiniteSets

CONSTANTS
    Users,     \* accounts
    Conns,     \* sockets; the name of one that has closed is used again
    Owner,     \* Owner[c] is the account of c
    Priority,  \* Priority[c] ranks c's client kind: 3 electron, 2 android, 1 web
    MaxLeases, \* bound: leases of one account that run at the same time
    Scope      \* what an instance exercises, a subset of:
               \*   "revoke"   sessions are revoked (reset, suspension, deletion)
               \*   "setting"  users change their fixed-away setting
               \*   "device"   devices report their status

HubAssumption ==
    /\ IsFiniteSet(Conns)
    /\ Owner \in [Conns -> Users]
    /\ Priority \in [Conns -> 1..3]
    /\ MaxLeases \in Nat
    /\ Scope \subseteq {"revoke", "setting", "device"}

Statuses == {"online", "away"}

\* How one account is shown in a list of online clients.
Shown == [listed : BOOLEAN, kind : 0..3, status : Statuses]
Unlisted == [listed |-> FALSE, kind |-> 0, status |-> "online"]
Snapshots == [Users -> Shown]
None == <<>>

Jobs == [op : {"disconnect"}, user : Users, value : {FALSE}]
        \cup [op : {"setFixedAway"}, user : Users, value : BOOLEAN]

VARIABLES
    phase,      \* of a socket: "idle", "arriving" (authenticated), "open"
    read,       \* read[c] is the fixed-away setting c's request was authenticated with
    setting,    \* store: the account's fixed-away setting
    clients,    \* h.clients
    counts,     \* h.counts
    kinds,      \* h.kinds, 0 when absent
    fixedAway,  \* h.fixedAway
    device,     \* c.deviceStatus
    leases,     \* leases[u]: closed sockets of u whose expire is still to run
    jobs,       \* handlers that have changed the store and not yet the hub
    owed,       \* a handler has changed the hub and not yet broadcast presence
    buffer,     \* c.presence: the snapshot not yet written, or none
    seen        \* the last snapshot written to the client

hub == <<clients, counts, kinds, fixedAway, device, leases>>
feed == <<owed, buffer, seen>>
vars == <<phase, read, setting, clients, counts, kinds, fixedAway, device,
          leases, jobs, owed, buffer, seen>>

TypeOK ==
    /\ phase \in [Conns -> {"idle", "arriving", "open"}]
    /\ read \in [Conns -> BOOLEAN]
    /\ setting \in [Users -> BOOLEAN]
    /\ clients \subseteq Conns
    /\ counts \in [Users -> Nat]
    /\ kinds \in [Users -> 0..3]
    /\ fixedAway \in [Users -> BOOLEAN]
    /\ device \in [Conns -> Statuses]
    /\ leases \in [Users -> 0..MaxLeases]
    /\ jobs \subseteq Jobs
    /\ owed \in BOOLEAN
    /\ buffer \in [Conns -> Snapshots \cup {None}]
    /\ seen \in [Conns -> Snapshots \cup {None}]

Init ==
    /\ phase = [c \in Conns |-> "idle"]
    /\ read = [c \in Conns |-> FALSE]
    /\ setting = [u \in Users |-> FALSE]
    /\ clients = {} /\ jobs = {}
    /\ leases = [u \in Users |-> 0]
    /\ counts = [u \in Users |-> 0]
    /\ kinds = [u \in Users |-> 0]
    /\ fixedAway = [u \in Users |-> FALSE]
    /\ device = [c \in Conns |-> "online"]
    /\ owed = FALSE
    /\ buffer = [c \in Conns |-> None]
    /\ seen = [c \in Conns |-> None]

-----------------------------------------------------------------------------
(* What the hub shows *)

Of(u, conns) == {c \in conns : Owner[c] = u}

\* effectiveKindForUserLocked, 0 when u has no connection.
BestKind(u, conns) ==
    IF Of(u, conns) = {} THEN 0
    ELSE CHOOSE p \in {Priority[c] : c \in Of(u, conns)} :
           \A c \in Of(u, conns) : Priority[c] <= p

\* Fixed away overrides the devices; they make the user away only together.
Status(u) ==
    IF \/ fixedAway[u]
       \/ Of(u, clients) # {} /\ \A c \in Of(u, clients) : device[c] = "away"
      THEN "away" ELSE "online"

Snapshot ==
    [u \in Users |-> IF counts[u] > 0
                       THEN [listed |-> TRUE, kind |-> kinds[u], status |-> Status(u)]
                       ELSE Unlisted]

-----------------------------------------------------------------------------
(* Connections *)

\* The request is authenticated: the session is valid and the account is read.
Authenticate(c) ==
    /\ phase[c] = "idle"
    /\ phase' = [phase EXCEPT ![c] = "arriving"]
    /\ read' = [read EXCEPT ![c] = setting[Owner[c]]]
    /\ UNCHANGED <<setting, hub, jobs, feed>>

Register(c) ==
    LET u == Owner[c]
    IN  /\ phase[c] = "arriving"
        /\ phase' = [phase EXCEPT ![c] = "open"]
        /\ clients' = clients \cup {c}
        /\ counts' = [counts EXCEPT ![u] = @ + 1]
        /\ fixedAway' = [fixedAway EXCEPT ![u] = read[c]]
        /\ kinds' = [kinds EXCEPT ![u] = BestKind(u, clients')]
        /\ read' = [read EXCEPT ![c] = FALSE]
        /\ owed' = TRUE
        /\ UNCHANGED <<setting, device, leases, jobs, buffer, seen>>

\* The sockets are gone: the next ones to bear these names start afresh.
Discard(gone) ==
    /\ phase' = [c \in Conns |-> IF c \in gone THEN "idle" ELSE phase[c]]
    /\ clients' = clients \ gone
    /\ device' = [c \in Conns |-> IF c \in gone THEN "online" ELSE device[c]]
    /\ buffer' = [c \in Conns |-> IF c \in gone THEN None ELSE buffer[c]]
    /\ seen' = [c \in Conns |-> IF c \in gone THEN None ELSE seen[c]]

\* unregister up to the unlock.  expire follows at once after a graceful close
\* and when the lease has run out after a lost connection: in both cases other
\* handlers may come first, and the broadcast comes with expire only.
Unregister(c) ==
    LET u == Owner[c]
        rest == clients \ {c}
    IN  /\ c \in clients /\ leases[u] < MaxLeases
        /\ Discard({c})
        /\ kinds' = IF Of(u, rest) # {} THEN [kinds EXCEPT ![u] = BestKind(u, rest)] ELSE kinds
        /\ leases' = [leases EXCEPT ![u] = @ + 1]
        /\ UNCHANGED <<read, setting, counts, fixedAway, jobs, owed>>

\* The account is no longer online.
Drop(u) ==
    /\ counts' = [counts EXCEPT ![u] = 0]
    /\ kinds' = [kinds EXCEPT ![u] = 0]
    /\ fixedAway' = [fixedAway EXCEPT ![u] = FALSE]

Expire_Quiet(u) ==
    /\ leases[u] > 0
    /\ leases' = [leases EXCEPT ![u] = @ - 1]
    /\ IF counts[u] <= 1 THEN Drop(u)
                         ELSE counts' = [counts EXCEPT ![u] = @ - 1]
                              /\ UNCHANGED <<kinds, fixedAway>>
    /\ UNCHANGED <<phase, read, setting, clients, device, jobs, feed>>

Expire_OneLeft(u) ==
    /\ leases[u] > 0
    /\ leases' = [leases EXCEPT ![u] = @ - 1]
    /\ IF counts[u] <= 1 THEN UNCHANGED <<counts, kinds, fixedAway>>
                         ELSE counts' = [counts EXCEPT ![u] = @ - 1]
                              /\ UNCHANGED <<kinds, fixedAway>>
    /\ owed' = TRUE
    /\ UNCHANGED <<phase, read, setting, clients, device, jobs, buffer, seen>>

Expire(u) ==
    /\ leases[u] > 0
    /\ leases' = [leases EXCEPT ![u] = @ - 1]
    /\ IF counts[u] <= 1
         THEN Drop(u)
         ELSE counts' = [counts EXCEPT ![u] = @ - 1] /\ UNCHANGED <<kinds, fixedAway>>
    /\ owed' = TRUE
    /\ UNCHANGED <<phase, read, setting, clients, device, jobs, buffer, seen>>

SetDeviceStatus(c, status) ==
    /\ "device" \in Scope
    /\ c \in clients
    /\ device' = [device EXCEPT ![c] = status]
    /\ owed' = TRUE
    /\ UNCHANGED <<phase, read, setting, clients, counts, kinds, fixedAway, leases, jobs,
                   buffer, seen>>

-----------------------------------------------------------------------------
(* Account handlers: the store first, the hub later *)

\* handleUpdateMyStatus.
UpdateStatus(u, value) ==
    /\ "setting" \in Scope
    /\ setting[u] # value
    /\ \A j \in jobs : j.op = "setFixedAway" => j.user # u
    /\ setting' = [setting EXCEPT ![u] = value]
    /\ jobs' = jobs \cup {[op |-> "setFixedAway", user |-> u, value |-> value]}
    /\ UNCHANGED <<phase, read, hub, feed>>

\* Password reset, suspension and deletion delete the account's sessions; a
\* request that has been authenticated already goes on.
RevokeSessions(u) ==
    /\ "revoke" \in Scope
    /\ \A j \in jobs : j.op = "disconnect" => j.user # u
    /\ jobs' = jobs \cup {[op |-> "disconnect", user |-> u, value |-> FALSE]}
    /\ UNCHANGED <<phase, read, setting, hub, feed>>

SetUserFixedAway(j) ==
    /\ j.op = "setFixedAway"
    /\ jobs' = jobs \ {j}
    /\ fixedAway' = [fixedAway EXCEPT ![j.user] = j.value]
    /\ owed' = TRUE
    /\ UNCHANGED <<phase, read, setting, clients, counts, kinds, device, leases, buffer, seen>>

DisconnectUser_KeepsCount(j) ==
    /\ j.op = "disconnect"
    /\ jobs' = jobs \ {j}
    /\ Discard(Of(j.user, clients))
    /\ owed' = TRUE
    /\ UNCHANGED <<read, setting, leases, counts, kinds, fixedAway>>

\* Expires that are scheduled already stay scheduled.
DisconnectUser(j) ==
    /\ j.op = "disconnect"
    /\ jobs' = jobs \ {j}
    /\ Discard(Of(j.user, clients))
    /\ Drop(j.user)
    /\ owed' = TRUE
    /\ UNCHANGED <<read, setting, leases>>

-----------------------------------------------------------------------------
(* The presence feed *)

Newest(c) == IF buffer[c] # None THEN buffer[c] ELSE seen[c]

\* A full buffer gives way to the newer snapshot.
Refill_KeepsOld(c) == IF buffer[c] # None THEN buffer[c] ELSE Snapshot
Refill(c) == Snapshot

\* A handler that owes a broadcast, or the 15 s ticker.
BroadcastPresence ==
    /\ owed' = FALSE
    /\ buffer' = [c \in Conns |-> IF c \in clients THEN Refill(c) ELSE buffer[c]]
    /\ UNCHANGED <<phase, read, setting, hub, jobs, seen>>

\* writeWebSocket takes the buffered snapshot.
WritePresence(c) ==
    /\ c \in clients /\ buffer[c] # None
    /\ seen' = [seen EXCEPT ![c] = buffer[c]]
    /\ buffer' = [buffer EXCEPT ![c] = None]
    /\ UNCHANGED <<phase, read, setting, hub, jobs, owed>>

-----------------------------------------------------------------------------
Sockets ==
    \/ \E c \in Conns :
          \/ Authenticate(c) \/ Register(c) \/ Unregister(c) \/ WritePresence(c)
          \/ \E s \in Statuses : SetDeviceStatus(c, s)
    \/ BroadcastPresence
    \/ \E u \in Users : Expire(u)

Accounts ==
    \/ \E u \in Users : RevokeSessions(u) \/ \E b \in BOOLEAN : UpdateStatus(u, b)
    \/ \E j \in jobs : SetUserFixedAway(j) \/ DisconnectUser(j)

Next == Sockets \/ Accounts

Spec == Init /\ [][Next]_vars

\* Timers fire and handlers finish, broadcast included; the 15 s ticker, which
\* would hide a forgotten broadcast, is not counted on.
FairSpec ==
    /\ Spec
    /\ \A c \in Conns : WF_vars(WritePresence(c)) /\ WF_vars(Register(c))
    /\ \A u \in Users : WF_vars(Expire(u))
    /\ WF_vars(\E j \in jobs : SetUserFixedAway(j) \/ DisconnectUser(j))
    /\ WF_vars(owed /\ BroadcastPresence)

-----------------------------------------------------------------------------
(* Properties *)

\* The lease count of an account is the number of its sockets that are open or
\* whose expire is to come: no order of closing, losing and reopening sockets
\* loses or duplicates one.  (Revocation breaks it: see ConnectedIsOnline.)
LeasesCounted ==
    \A u \in Users :
        counts[u] = Cardinality(Of(u, clients)) + leases[u]

\* An account is never shown online without a socket or a running lease, also
\* when a revocation has come in between.
NoGhosts ==
    \A u \in Users : counts[u] > 0 => Of(u, clients) # {} \/ leases[u] > 0

\* The badge of an account with open sockets is that of the best of them.
BadgeIsBest ==
    \A u \in Users :
        counts[u] > 0 /\ Of(u, clients) # {} => kinds[u] = BestKind(u, clients)

\* When no broadcast is owed and no lease runs, the newest list that each client
\* has or will be written is the present one: the single-place buffer never
\* keeps an old list, and no handler forgets to broadcast.
ListsAreCurrent ==
    ~owed /\ (\A u \in Users : leases[u] = 0) => \A c \in clients : Newest(c) = Snapshot

\* Leases, badges and lists together, as long as no session is revoked.
HubAgrees == LeasesCounted /\ BadgeIsBest /\ ListsAreCurrent

\* An account whose last socket has gone is offline in the end, unless it comes
\* back.
Deserted(u) == Of(u, clients) = {}
Offline(u) == counts[u] = 0
GoesOffline == \A u \in Users : Deserted(u) ~> Offline(u) \/ ~Deserted(u)

\* The absence of an account reaches every client: none goes on showing it for
\* ever.
Shows(c, u) == c \in clients /\ seen[c] # None /\ seen[c][u].listed

AbsenceIsSeen ==
    \A u \in Users, c \in Conns : <>[]Offline(u) => []<>~Shows(c, u)

\* product-spec.md, presence: while any of its sockets is open the account
\* stays online.
ConnectedIsOnline == \A c \in clients : counts[Owner[c]] > 0
=============================================================================
