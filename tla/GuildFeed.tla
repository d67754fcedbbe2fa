------------------------------ MODULE GuildFeed ------------------------------
(***************************************************************************)
(* Which sockets hear a guild: the subscription half of                    *)
(* internal/httpapi/hub.go, the part of handleWebSocket that builds a      *)
(* socket's subscriptions, and the guild handlers, which change the store  *)
(* first and the hub afterwards.                                           *)
(*                                                                         *)
(* In Go a guild set is a map, and h.memberships[u] may be the very map    *)
(* that one of u's sockets holds as c.guilds.  Here "sets" is the heap of  *)
(* these maps: a socket names the one it holds, an account names the one   *)
(* AddUserGuild makes when it finds none, and "memberships" refers to them. *)
(***************************************************************************)
EXTENDS Naturals, Sequences, FiniteSets

CONSTANTS
    Users,    \* accounts
    Conns,    \* sockets; a name is used again when nothing of the old one is left
    Owner,    \* Owner[c] is the account of c
    Guilds,
    None,     \* no map: a nil h.memberships[u]
    Cap,      \* capacity of a socket's send queue (64 in the code)
    Overlap,  \* whether handlers and handshakes may overlap
    Scope     \* what an instance exercises, a subset of:
              \*   "revoke"   sessions are revoked (reset, suspension, deletion)
              \*   "fail"     the store fails a handshake

FeedAssumption ==
    /\ Users \cap Conns = {} /\ None \notin Users \cup Conns
    /\ Owner \in [Conns -> Users]
    /\ Cap \in Nat \ {0}
    /\ Overlap \in BOOLEAN
    /\ Scope \subseteq {"revoke", "fail"}

Events == [type : {"guild_added", "guild_removed", "published"}, guild : Guilds]
Event(type, g) == [type |-> type, guild |-> g]

Jobs == [op : {"add", "remove", "publish"}, user : Users, guild : Guilds]
        \cup [op : {"removeGuild"}, user : {None}, guild : Guilds]

VARIABLES
    member,       \* store: member[u] is the set of guilds u is an active member of
    live,         \* store: the guilds that have not been deleted
    phase,        \* of a socket: "idle", "listed" (guilds read), "open"
    clients,      \* h.clients
    counts,       \* h.counts
    stopped,      \* sockets whose done channel is closed
    leases,       \* closed sockets whose expire is still to run
    sets,         \* the guild maps
    memberships,  \* h.memberships: which map, or None
    queue,        \* c.send
    missed,       \* sockets that an event was dropped for
    jobs,         \* handlers that have changed the store and not yet the hub
    unlisted,     \* history: sockets whose guilds the store did not tell
    forgotten     \* history: accounts whose entry was not begun by a socket with its
                  \* guilds, or was dropped with a socket open

store == <<member, live>>
vars == <<member, live, phase, clients, counts, stopped, leases, sets, memberships, queue,
          missed, jobs, unlisted, forgotten>>
presence == <<counts, unlisted, forgotten>>

TypeOK ==
    /\ member \in [Users -> SUBSET Guilds]
    /\ live \subseteq Guilds
    /\ phase \in [Conns -> {"idle", "listed", "open"}]
    /\ clients \subseteq Conns /\ stopped \subseteq Conns /\ leases \subseteq Conns
    /\ counts \in [Users -> Nat]
    /\ unlisted \subseteq Conns /\ forgotten \subseteq Users
    /\ sets \in [Conns \cup Users -> SUBSET Guilds]
    /\ memberships \in [Users -> Conns \cup Users \cup {None}]
    /\ queue \in [Conns -> Seq(Events)]
    /\ \A c \in Conns : Len(queue[c]) <= Cap
    /\ missed \subseteq Conns
    /\ jobs \subseteq Jobs

Init ==
    /\ member = [u \in Users |-> {}]
    /\ live = Guilds
    /\ phase = [c \in Conns |-> "idle"]
    /\ clients = {} /\ stopped = {} /\ leases = {} /\ missed = {} /\ jobs = {}
    /\ counts = [u \in Users |-> 0]
    /\ unlisted = {} /\ forgotten = {}
    /\ sets = [x \in Conns \cup Users |-> {}]
    /\ memberships = [u \in Users |-> None]
    /\ queue = [c \in Conns |-> <<>>]

-----------------------------------------------------------------------------
Of(u, conns) == {c \in conns : Owner[c] = u}
Subscribers(g) == {c \in clients : g \in sets[c]}

\* h.memberships[u] as a set of guilds.
Belongs(u) == IF memberships[u] = None THEN {} ELSE sets[memberships[u]]

\* Offer event e to each socket of a set; a full queue drops it and stops the
\* socket.
Offer_DropsOnly(to, e) ==
    LET full == {c \in to : Len(queue[c]) >= Cap}
    IN  /\ queue' = [c \in Conns |-> IF c \in to \ full THEN Append(queue[c], e) ELSE queue[c]]
        /\ missed' = missed \cup full
        /\ UNCHANGED stopped

Offer(to, e) ==
    LET full == {c \in to : Len(queue[c]) >= Cap}
    IN  /\ queue' = [c \in Conns |-> IF c \in to \ full THEN Append(queue[c], e) ELSE queue[c]]
        /\ missed' = missed \cup full
        /\ stopped' = stopped \cup full

-----------------------------------------------------------------------------
(* Sockets *)

\* handleWebSocket reads the account's guilds.  The new socket gets a map of
\* its own.
Handshake(c) ==
    /\ phase[c] = "idle" /\ c \notin leases /\ memberships[Owner[c]] # c
    /\ Overlap \/ jobs = {}
    /\ phase' = [phase EXCEPT ![c] = "listed"]
    /\ UNCHANGED <<store, clients, counts, stopped, leases, memberships, queue, missed, jobs,
                   forgotten>>

ListGuilds(c) ==
    /\ Handshake(c)
    /\ sets' = [sets EXCEPT ![c] = member[Owner[c]]]
    /\ unlisted' = unlisted \ {c}

\* When the store fails, the socket goes on with the empty map of newClient.
ListGuildsFails(c) ==
    /\ "fail" \in Scope /\ Handshake(c)
    /\ sets' = [sets EXCEPT ![c] = {}]
    /\ unlisted' = unlisted \cup {c}

\* register: a socket with guilds lends its map to h.memberships.
Register(c) ==
    LET u == Owner[c]
    IN  /\ phase[c] = "listed"
        /\ phase' = [phase EXCEPT ![c] = "open"]
        /\ clients' = clients \cup {c}
        /\ counts' = [counts EXCEPT ![u] = @ + 1]
        /\ memberships' = IF sets[c] # {} THEN [memberships EXCEPT ![u] = c] ELSE memberships
        /\ forgotten' = IF c \notin unlisted THEN forgotten \ {u}
                        ELSE IF counts[u] = 0 THEN forgotten \cup {u} ELSE forgotten
        /\ UNCHANGED <<store, stopped, leases, sets, queue, missed, jobs, unlisted>>

\* The sockets of a set are no longer the hub's.
Closed(conns) ==
    /\ phase' = [c \in Conns |-> IF c \in conns THEN "idle" ELSE phase[c]]
    /\ clients' = clients \ conns
    /\ stopped' = stopped \ conns
    /\ missed' = missed \ conns
    /\ queue' = [c \in Conns |-> IF c \in conns THEN <<>> ELSE queue[c]]

\* The socket closes: the client goes, the network fails, or the writer has
\* seen the closed done channel.
Unregister(c) ==
    /\ c \in clients
    /\ Closed({c})
    /\ leases' = leases \cup {c}
    /\ UNCHANGED <<store, sets, memberships, jobs, presence>>

\* The hub forgets an account: its count and its entry, neither its leases nor
\* the sockets it still has.
Forget(u, left) ==
    /\ counts' = [counts EXCEPT ![u] = 0]
    /\ memberships' = [memberships EXCEPT ![u] = None]
    /\ forgotten' = IF left = {} THEN forgotten \ {u} ELSE forgotten \cup {u}

\* A lease ends; the last that is counted takes the account's entry along.
Expire_Uncounted(c) ==
    LET u == Owner[c]
    IN  /\ c \in leases
        /\ leases' = leases \ {c}
        /\ Forget(u, Of(u, clients))
        /\ UNCHANGED <<store, phase, clients, stopped, sets, queue, missed, jobs, unlisted>>

Expire(c) ==
    LET u == Owner[c]
    IN  /\ c \in leases
        /\ leases' = leases \ {c}
        /\ IF counts[u] <= 1 THEN Forget(u, Of(u, clients))
           ELSE /\ counts' = [counts EXCEPT ![u] = @ - 1]
                /\ UNCHANGED <<memberships, forgotten>>
        /\ UNCHANGED <<store, phase, clients, stopped, sets, queue, missed, jobs, unlisted>>

\* DisconnectUser: an administrator's handler revokes the account's sessions.
\* Its sockets are out of the hub before they close, and leave no lease.
DisconnectUser(u) ==
    /\ "revoke" \in Scope
    /\ Closed(Of(u, clients))
    /\ Forget(u, {})
    /\ UNCHANGED <<store, leases, sets, jobs, unlisted>>

\* writeWebSocket takes one event; it may still do so after the stop.
WriteEvent(c) ==
    /\ c \in clients /\ queue[c] # <<>>
    /\ queue' = [queue EXCEPT ![c] = Tail(@)]
    /\ UNCHANGED <<store, phase, clients, stopped, leases, sets, memberships, missed, jobs, presence>>

-----------------------------------------------------------------------------
(* Guild handlers: the store *)

\* Without Overlap a handler starts when the others, and the handshakes, are
\* over.
MayStart == Overlap \/ (jobs = {} /\ \A c \in Conns : phase[c] # "listed")

\* The member is added, a ban is lifted or runs out, the owner's guild is made.
AddMember(u, g) ==
    /\ MayStart
    /\ g \in live \ member[u]
    /\ member' = [member EXCEPT ![u] = @ \cup {g}]
    /\ jobs' = jobs \cup {[op |-> "add", user |-> u, guild |-> g]}
    /\ UNCHANGED <<live, phase, clients, stopped, leases, sets, memberships, queue, missed,
                   presence>>

\* The member leaves, is removed or is banned.
RemoveMember(u, g) ==
    /\ MayStart
    /\ g \in member[u]
    /\ member' = [member EXCEPT ![u] = @ \ {g}]
    /\ jobs' = jobs \cup {[op |-> "remove", user |-> u, guild |-> g]}
    /\ UNCHANGED <<live, phase, clients, stopped, leases, sets, memberships, queue, missed,
                   presence>>

DeleteGuild(g) ==
    /\ MayStart
    /\ g \in live
    /\ live' = live \ {g}
    /\ member' = [u \in Users |-> member[u] \ {g}]
    /\ jobs' = jobs \cup {[op |-> "removeGuild", user |-> None, guild |-> g]}
    /\ UNCHANGED <<phase, clients, stopped, leases, sets, memberships, queue, missed, presence>>

-----------------------------------------------------------------------------
(* Guild handlers: the hub *)

\* The handler's next step, if any, is to tell the guild.
Then(j, next) == jobs' = (jobs \ {j}) \cup next
Told(j) == {[j EXCEPT !.op = "publish"]}

AddUserGuild_ConnsOnly(j) ==
    /\ j.op = "add"
    /\ sets' = [x \in Conns \cup Users |->
                  IF x \in Of(j.user, clients) THEN sets[x] \cup {j.guild} ELSE sets[x]]
    /\ Offer(Of(j.user, clients), Event("guild_added", j.guild))
    /\ \E next \in {{}, Told(j)} : Then(j, next)
    /\ UNCHANGED <<store, phase, clients, leases, memberships, presence>>

\* Platform handlers stop here, those of a guild go on to tell it.
AddUserGuild(j) ==
    LET u == j.user
        map == IF memberships[u] = None THEN u ELSE memberships[u]
        fresh == IF memberships[u] = None THEN [sets EXCEPT ![u] = {}] ELSE sets
    IN  /\ j.op = "add"
        /\ memberships' = [memberships EXCEPT ![u] = map]
        /\ sets' = [x \in Conns \cup Users |->
                      IF x = map \/ x \in Of(u, clients) THEN fresh[x] \cup {j.guild}
                                                       ELSE fresh[x]]
        /\ Offer(Of(u, clients), Event("guild_added", j.guild))
        /\ \E next \in {{}, Told(j)} : Then(j, next)
        /\ UNCHANGED <<store, phase, clients, leases, presence>>

RemoveUserGuild(j) ==
    LET held == Of(j.user, clients) \cup {memberships[j.user]}
    IN  /\ j.op = "remove"
        /\ sets' = [x \in Conns \cup Users |->
                      IF x \in held THEN sets[x] \ {j.guild} ELSE sets[x]]
        /\ Offer(Of(j.user, clients), Event("guild_removed", j.guild))
        /\ Then(j, Told(j))
        /\ UNCHANGED <<store, phase, clients, leases, memberships, presence>>

\* The memberships lose the guild first, with the map of every socket they
\* refer to; the sockets that still have it afterwards are told.
RemoveGuild(j) ==
    LET lent == {memberships[u] : u \in Users} \ {None}
        without == [x \in Conns \cup Users |->
                      IF x \in lent THEN sets[x] \ {j.guild} ELSE sets[x]]
        told == {c \in clients : j.guild \in without[c]}
    IN  /\ j.op = "removeGuild"
        /\ memberships' = [u \in Users |->
                             IF memberships[u] # None /\ without[memberships[u]] = {}
                               THEN None ELSE memberships[u]]
        /\ sets' = [x \in Conns \cup Users |->
                      IF x \in told THEN without[x] \ {j.guild} ELSE without[x]]
        /\ Offer(told, Event("guild_removed", j.guild))
        /\ Then(j, {})
        /\ UNCHANGED <<store, phase, clients, leases, presence>>

\* BroadcastGuild at the end of a handler.
TellGuild(j) ==
    /\ j.op = "publish"
    /\ Offer(Subscribers(j.guild), Event("published", j.guild))
    /\ Then(j, {})
    /\ UNCHANGED <<store, phase, clients, leases, sets, memberships, presence>>

\* BroadcastGuild for a message, a channel, a voice snapshot.
Publish(g) ==
    /\ g \in live
    /\ Offer(Subscribers(g), Event("published", g))
    /\ UNCHANGED <<store, phase, clients, leases, sets, memberships, jobs, presence>>

-----------------------------------------------------------------------------
Sockets == \E c \in Conns :
    \/ ListGuilds(c) \/ ListGuildsFails(c) \/ Register(c)
    \/ Unregister(c) \/ Expire(c) \/ WriteEvent(c)

Handlers ==
    \/ \E u \in Users, g \in Guilds : AddMember(u, g) \/ RemoveMember(u, g)
    \/ \E g \in Guilds : DeleteGuild(g) \/ Publish(g)
    \/ \E u \in Users : DisconnectUser(u)
    \/ \E j \in jobs : AddUserGuild(j) \/ RemoveUserGuild(j) \/ RemoveGuild(j) \/ TellGuild(j)

Next == Sockets \/ Handlers

Spec == Init /\ [][Next]_vars

\* The writer of a stopped socket closes it; Go's select is random, so it does
\* not pick queued events for ever.
CloseStopped(c) == c \in stopped /\ Unregister(c)

FairSpec == Spec /\ \A c \in Conns : WF_vars(CloseStopped(c)) /\ WF_vars(Expire(c))

-----------------------------------------------------------------------------
(* Properties *)

\* Between handlers no socket holds a guild its account is not in, and each
\* holds all that the account is in, unless the store failed its handshake.  The
\* entry that presence goes by has no guild too many either, and for an account
\* that is counted online or has a socket it has them all, whichever map it
\* shares and however sockets have come and gone, with two exceptions: the
\* account came online by a socket whose handshake the store failed, or an expire
\* of before a DisconnectUser has dropped the entry of a later socket.
\* (Overlapping handlers break it: see the README.)
SubscriptionsMatch ==
    jobs = {} =>
        /\ \A c \in clients : /\ sets[c] \subseteq member[Owner[c]]
                              /\ c \notin unlisted => sets[c] = member[Owner[c]]
        /\ \A u \in Users :
            /\ Belongs(u) \subseteq member[u]
            /\ (counts[u] > 0 \/ Of(u, clients) # {}) /\ u \notin forgotten =>
                    Belongs(u) = member[u]

\* A socket that an event was dropped for is closed in the end, so that the
\* client reloads: it is never left open with a gap.
HasGap(c) == c \in missed
GapsClose == \A c \in Conns : HasGap(c) ~> ~HasGap(c)

\* hub.go, RemoveGuild: every connected member is sent guild_removed.
DeletionIsTold ==
    [][\A g \in Guilds : \A c \in clients :
          g \in sets[c] /\ g \notin sets'[c] /\ c \in clients' =>
              \/ c \in stopped'
              \/ \E i \in DOMAIN queue'[c] : queue'[c][i] = Event("guild_removed", g)]_vars
=============================================================================
