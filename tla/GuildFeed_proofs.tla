--------------------------- MODULE GuildFeed_proofs ---------------------------
(***************************************************************************)
(* Proofs about GuildFeed, for any number of accounts, sockets and guilds   *)
(* and any capacity of the queues.                                         *)
(***************************************************************************)
EXTENDS GuildFeed, TLAPS

-----------------------------------------------------------------------------
(* Type correctness *)

\* An event of a guild is an event.
LEMMA EventType ==
    ASSUME NEW type \in {"guild_added", "guild_removed", "published"}, NEW g \in Guilds
    PROVE  Event(type, g) \in Events
BY DEF Event, Events

\* An offer fills no queue beyond its capacity.
LEMMA OfferType ==
    ASSUME FeedAssumption, TypeOK, NEW to \in SUBSET Conns, NEW e \in Events, Offer(to, e)
    PROVE  /\ queue' \in [Conns -> Seq(Events)]
           /\ \A c \in Conns : Len(queue'[c]) <= Cap
           /\ missed' \subseteq Conns
           /\ stopped' \subseteq Conns
<1> DEFINE full == {c \in to : Len(queue[c]) >= Cap}
<1>1. queue' = [c \in Conns |-> IF c \in to \ full THEN Append(queue[c], e) ELSE queue[c]]
  BY DEF Offer
<1>2. \A c \in Conns : queue[c] \in Seq(Events) /\ Len(queue[c]) \in Nat /\ Len(queue[c]) <= Cap
  BY DEF TypeOK
<1>3. ASSUME NEW c \in Conns
      PROVE  /\ Append(queue[c], e) \in Seq(Events)
             /\ Len(Append(queue[c], e)) = Len(queue[c]) + 1
  BY <1>2
<1>4. ASSUME NEW c \in Conns, c \in to \ full
      PROVE  Len(queue[c]) + 1 <= Cap
  <2>1. ~(Len(queue[c]) >= Cap)
    BY <1>4
  <2> QED
    BY <1>2, <2>1 DEF FeedAssumption
<1>5. queue' \in [Conns -> Seq(Events)]
  BY <1>1, <1>2, <1>3
<1>6. ASSUME NEW c \in Conns
      PROVE  Len(queue'[c]) <= Cap
  BY <1>1, <1>2, <1>3, <1>4
<1>7. missed' \subseteq Conns /\ stopped' \subseteq Conns
  BY DEF Offer, TypeOK
<1> QED
  BY <1>5, <1>6, <1>7

\* A socket's own subscribers and those of a guild are sockets.
LEMMA OfType ==
    ASSUME TypeOK
    PROVE  /\ \A u : Of(u, clients) \in SUBSET Conns
           /\ \A g : Subscribers(g) \in SUBSET Conns
BY DEF Of, Subscribers, TypeOK

\* A handler's next step is a job of the hub's.
LEMMA ThenType ==
    ASSUME TypeOK, NEW j \in jobs, j.op \in {"add", "remove"}
    PROVE  /\ Told(j) \subseteq Jobs
           /\ \A next \in {{}, Told(j)} : Then(j, next) => jobs' \subseteq Jobs
<1>1. j \in [op : {"add", "remove", "publish"}, user : Users, guild : Guilds]
  BY DEF TypeOK, Jobs
<1>2. [j EXCEPT !.op = "publish"] \in Jobs
  BY <1>1 DEF Jobs
<1> QED
  BY <1>2 DEF Told, Then, TypeOK

\* The initial state, a server just started, is well typed.
LEMMA TypeInit ==
    ASSUME FeedAssumption, Init
    PROVE  TypeOK
<1>1. queue \in [Conns -> Seq(Events)] /\ \A c \in Conns : Len(queue[c]) <= Cap
  <2>1. <<>> \in Seq(Events) /\ Len(<<>>) = 0 /\ Cap \in Nat
    BY DEF FeedAssumption
  <2> QED
    BY <2>1 DEF Init
<1> QED
  BY <1>1 DEF Init, TypeOK

\* What a closed socket leaves behind.
LEMMA ClosedType ==
    ASSUME FeedAssumption, TypeOK, NEW conns \in SUBSET Conns, Closed(conns)
    PROVE  /\ phase' \in [Conns -> {"idle", "listed", "open"}]
           /\ clients' \subseteq Conns /\ stopped' \subseteq Conns /\ missed' \subseteq Conns
           /\ queue' \in [Conns -> Seq(Events)]
           /\ \A c \in Conns : Len(queue'[c]) <= Cap
<1>1. <<>> \in Seq(Events) /\ Len(<<>>) = 0 /\ Cap \in Nat
  BY DEF FeedAssumption
<1> QED
  BY <1>1 DEF Closed, TypeOK

\* What the hub keeps of an account it forgets.
LEMMA ForgetType ==
    ASSUME TypeOK, NEW u \in Users, NEW left, Forget(u, left)
    PROVE  /\ counts' \in [Users -> Nat] /\ forgotten' \subseteq Users
           /\ memberships' \in [Users -> Conns \cup Users \cup {None}]
BY DEF Forget, TypeOK

\* A socket that joins counts once more.
LEMMA TypeRegister ==
    ASSUME FeedAssumption, TypeOK, NEW c \in Conns, Register(c)
    PROVE  TypeOK'
<1>1. Owner[c] \in Users
  BY DEF FeedAssumption
<1>2. counts' \in [Users -> Nat]
  BY <1>1 DEF Register, TypeOK
<1>3. memberships' \in [Users -> Conns \cup Users \cup {None}]
  BY <1>1 DEF Register, TypeOK
<1>4. forgotten' \subseteq Users
  BY <1>1 DEF Register, TypeOK
<1> QED
  BY <1>2, <1>3, <1>4 DEF Register, TypeOK, store

\* A lease that ends counts no less than zero.
LEMMA TypeExpire ==
    ASSUME FeedAssumption, TypeOK, NEW c \in Conns, Expire(c)
    PROVE  TypeOK'
<1> DEFINE u == Owner[c]
<1>1. u \in Users /\ counts[u] \in Nat
  BY DEF FeedAssumption, TypeOK
<1>2. /\ counts' \in [Users -> Nat] /\ forgotten' \subseteq Users
      /\ memberships' \in [Users -> Conns \cup Users \cup {None}]
  <2>1. CASE counts[u] <= 1
    BY <1>1, <2>1, ForgetType DEF Expire
  <2>2. CASE ~(counts[u] <= 1)
    <3>1. counts[u] - 1 \in Nat /\ counts' = [counts EXCEPT ![u] = counts[u] - 1]
      BY <1>1, <2>2 DEF Expire
    <3> QED
      BY <2>2, <3>1 DEF Expire, TypeOK
  <2> QED
    BY <2>1, <2>2
<1> QED
  BY <1>2 DEF Expire, TypeOK, store

\* Every step of a socket keeps the types.
LEMMA TypeSockets ==
    ASSUME FeedAssumption, TypeOK, Sockets
    PROVE  TypeOK'
<1> PICK c \in Conns :
        \/ ListGuilds(c) \/ ListGuildsFails(c) \/ Register(c)
        \/ Unregister(c) \/ Expire(c) \/ WriteEvent(c)
  BY DEF Sockets
<1>1. Owner[c] \in Users
  BY DEF FeedAssumption
<1>2. CASE ListGuilds(c) \/ ListGuildsFails(c)
  <2>1. sets' \in [Conns \cup Users -> SUBSET Guilds] /\ unlisted' \subseteq Conns
    BY <1>1, <1>2 DEF ListGuilds, ListGuildsFails, TypeOK
  <2>2. Handshake(c)
    BY <1>2 DEF ListGuilds, ListGuildsFails
  <2> QED
    BY <2>1, <2>2 DEF Handshake, TypeOK, store
<1>3. CASE Unregister(c)
  <2>1. Closed({c})
    BY <1>3 DEF Unregister
  <2> QED
    BY <1>3, <2>1, ClosedType DEF Unregister, TypeOK, store, presence
<1>4. CASE WriteEvent(c)
  <2>1. queue[c] \in Seq(Events) /\ queue[c] # <<>> /\ Len(queue[c]) <= Cap
    BY <1>4 DEF WriteEvent, TypeOK
  <2>2. Tail(queue[c]) \in Seq(Events) /\ Len(Tail(queue[c])) <= Cap
    BY <2>1 DEF FeedAssumption
  <2>3. queue' \in [Conns -> Seq(Events)] /\ \A d \in Conns : Len(queue'[d]) <= Cap
    BY <1>4, <2>2 DEF WriteEvent, TypeOK
  <2> QED
    BY <1>4, <2>3 DEF WriteEvent, TypeOK, store, presence
<1> QED
  BY <1>2, <1>3, <1>4, TypeRegister, TypeExpire

\* Every change of a membership in the store keeps the types.
LEMMA TypeStore ==
    ASSUME TypeOK, NEW u \in Users, NEW g \in Guilds,
           AddMember(u, g) \/ RemoveMember(u, g)
    PROVE  TypeOK'
<1>1. CASE AddMember(u, g)
  <2>1. [op |-> "add", user |-> u, guild |-> g] \in Jobs
    BY DEF Jobs
  <2> QED
    BY <1>1, <2>1 DEF AddMember, TypeOK, presence
<1>2. CASE RemoveMember(u, g)
  <2>1. [op |-> "remove", user |-> u, guild |-> g] \in Jobs
    BY DEF Jobs
  <2> QED
    BY <1>2, <2>1 DEF RemoveMember, TypeOK, presence
<1> QED
  BY <1>1, <1>2

\* Every step of a handler on the hub keeps the types.
LEMMA TypeHub ==
    ASSUME FeedAssumption, TypeOK, NEW j \in jobs,
           AddUserGuild(j) \/ RemoveUserGuild(j) \/ RemoveGuild(j) \/ TellGuild(j)
    PROVE  TypeOK'
<1>1. j.guild \in Guilds /\ (j.op # "removeGuild" => j.user \in Users)
  BY DEF TypeOK, Jobs
<1>2. CASE AddUserGuild(j)
  <2>1. j.op = "add" /\ j.user \in Users
    BY <1>1, <1>2 DEF AddUserGuild
  <2>2. jobs' \subseteq Jobs
    BY <1>2, <2>1, ThenType DEF AddUserGuild
  <2>3. memberships' \in [Users -> Conns \cup Users \cup {None}]
    BY <1>2, <2>1 DEF AddUserGuild, TypeOK
  <2>4. sets' \in [Conns \cup Users -> SUBSET Guilds]
    BY <1>1, <1>2 DEF AddUserGuild, TypeOK
  <2>5. Offer(Of(j.user, clients), Event("guild_added", j.guild))
    BY <1>2 DEF AddUserGuild
  <2> QED
    BY <1>1, <1>2, <2>2, <2>3, <2>4, <2>5, OfType, OfferType, EventType
       DEF AddUserGuild, TypeOK, store, presence
<1>3. CASE RemoveUserGuild(j)
  <2>1. jobs' \subseteq Jobs
    BY <1>3, ThenType DEF RemoveUserGuild
  <2>2. sets' \in [Conns \cup Users -> SUBSET Guilds]
    BY <1>3 DEF RemoveUserGuild, TypeOK
  <2>3. Offer(Of(j.user, clients), Event("guild_removed", j.guild))
    BY <1>3 DEF RemoveUserGuild
  <2> QED
    BY <1>1, <1>3, <2>1, <2>2, <2>3, OfType, OfferType, EventType
       DEF RemoveUserGuild, TypeOK, store, presence
<1>4. CASE RemoveGuild(j)
  <2>1. jobs' \subseteq Jobs
    BY <1>4 DEF RemoveGuild, Then, TypeOK
  <2>2. sets' \in [Conns \cup Users -> SUBSET Guilds]
    BY <1>4 DEF RemoveGuild, TypeOK
  <2>3. memberships' \in [Users -> Conns \cup Users \cup {None}]
    BY <1>4 DEF RemoveGuild, TypeOK
  <2>4. PICK told \in SUBSET Conns : Offer(told, Event("guild_removed", j.guild))
    BY <1>4 DEF RemoveGuild, TypeOK
  <2> QED
    BY <1>1, <1>4, <2>1, <2>2, <2>3, <2>4, OfferType, EventType DEF RemoveGuild, TypeOK, store, presence
<1>5. CASE TellGuild(j)
  <2>1. jobs' \subseteq Jobs
    BY <1>5 DEF TellGuild, Then, TypeOK
  <2>2. Offer(Subscribers(j.guild), Event("published", j.guild))
    BY <1>5 DEF TellGuild
  <2> QED
    BY <1>1, <1>5, <2>1, <2>2, OfType, OfferType, EventType DEF TellGuild, TypeOK, store, presence
<1> QED
  BY <1>2, <1>3, <1>4, <1>5

\* So does the deletion of a guild.
LEMMA TypeDelete ==
    ASSUME TypeOK, NEW g \in Guilds, DeleteGuild(g)
    PROVE  TypeOK'
<1>1. [op |-> "removeGuild", user |-> None, guild |-> g] \in Jobs
  BY DEF Jobs
<1> QED
  BY <1>1 DEF DeleteGuild, TypeOK, presence

\* And a broadcast to a guild.
LEMMA TypePublish ==
    ASSUME FeedAssumption, TypeOK, NEW g \in Guilds, Publish(g)
    PROVE  TypeOK'
<1>1. Offer(Subscribers(g), Event("published", g))
  BY DEF Publish
<1> QED
  BY <1>1, OfType, OfferType, EventType DEF Publish, TypeOK, store, presence

\* And the revocation of an account's sessions.
LEMMA TypeDisconnect ==
    ASSUME FeedAssumption, TypeOK, NEW u \in Users, DisconnectUser(u)
    PROVE  TypeOK'
<1>1. Closed(Of(u, clients)) /\ Forget(u, {})
  BY DEF DisconnectUser
<1> QED
  BY <1>1, OfType, ClosedType, ForgetType DEF DisconnectUser, TypeOK, store

\* Every step keeps the types.
LEMMA TypeNext ==
    ASSUME FeedAssumption, TypeOK, [Next]_vars
    PROVE  TypeOK'
<1>1. CASE UNCHANGED vars
  BY <1>1 DEF vars, TypeOK
<1>2. CASE Handlers
  BY <1>2, TypeStore, TypeDelete, TypeHub, TypePublish, TypeDisconnect DEF Handlers
<1> QED
  BY <1>1, <1>2, TypeSockets DEF Next

\* The feed is well typed in every reachable state: no queue is longer than its
\* capacity, and no account refers to a map that is not one.
THEOREM TypeCorrect == ASSUME FeedAssumption PROVE Spec => []TypeOK
<1>1. Init => TypeOK
  BY TypeInit
<1>2. TypeOK /\ [Next]_vars => TypeOK'
  BY TypeNext
<1> QED
  BY <1>1, <1>2, PTL DEF Spec

-----------------------------------------------------------------------------
(* The inductive invariant *)

\* The guilds of account u that a handler has changed in the store and not yet
\* in the hub.
Pending(u) ==
    {j.guild : j \in {i \in jobs : \/ i.op = "removeGuild"
                                   \/ i.op \in {"add", "remove"} /\ i.user = u}}

\* A set of guilds has no guild of account u too many, and none too few when it
\* is to be whole, pending guilds aside.
Fits(u, s, whole) ==
    /\ s \ Pending(u) \subseteq member[u]
    /\ whole => member[u] \ Pending(u) \subseteq s

\* The same when nothing is pending.
Exact(u, s, whole) == s \subseteq member[u] /\ (whole => s = member[u])

\* The hub counts the account, and has its entry from a socket with its guilds.
Whole(u) == counts[u] > 0 /\ u \notin forgotten

\* The hub's clients are the sockets that are open.
Tracked == clients = {c \in Conns : phase[c] = "open"}

\* An account refers to its own map or to that of one of its sockets.
OwnMaps ==
    \A u \in Users :
        /\ memberships[u] \in Conns => Owner[memberships[u]] = u
        /\ memberships[u] \in Users => memberships[u] = u

\* Handlers and handshakes take turns.
OneAtATime ==
    /\ \A i, j \in jobs : i = j
    /\ jobs # {} => \A c \in Conns : phase[c] # "listed"

\* What a handler is about to tell the hub is what the store says.
JobsTrue ==
    \A j \in jobs :
        /\ j.op = "add" => j.guild \in member[j.user]
        /\ j.op = "remove" => j.guild \notin member[j.user]
        /\ j.op = "removeGuild" => \A u \in Users : j.guild \notin member[u]

\* The guilds a handshake has read are still the account's.
ListedCurrent ==
    \A c \in Conns : phase[c] = "listed" =>
        sets[c] = IF c \in unlisted THEN {} ELSE member[Owner[c]]

\* A socket's guilds are right, and whole if the store has told them.
SocketsFit == \A c \in clients : Fits(Owner[c], sets[c], c \notin unlisted)

\* An account's entry is right, and whole while the hub counts the account.
EntriesFit == \A u \in Users : Fits(u, Belongs(u), Whole(u))

\* An account with a socket is counted, unless the hub has forgotten it.
Counted == \A c \in clients : Owner[c] \notin forgotten => counts[Owner[c]] > 0

FeedInv ==
    /\ Tracked /\ OwnMaps /\ OneAtATime /\ JobsTrue
    /\ ListedCurrent /\ SocketsFit /\ EntriesFit /\ Counted

\* Nothing is pending when no handler is between, or only one that tells.
LEMMA NonePending ==
    ASSUME \A j \in jobs : j.op = "publish"
    PROVE  \A u : Pending(u) = {}
BY DEF Pending

\* While one handler is between, only the guild it is about is pending.
LEMMA OnePending ==
    ASSUME NEW j \in jobs, \A i, k \in jobs : i = k
    PROVE  \A u : Pending(u) = IF \/ j.op = "removeGuild"
                                  \/ j.op \in {"add", "remove"} /\ j.user = u
                                 THEN {j.guild} ELSE {}
<1>1. jobs = {j}
  OBVIOUS
<1> QED
  BY <1>1 DEF Pending

\* A socket whose account has nothing pending holds just what it should, and so
\* does the account's entry.
LEMMA SocketsExact ==
    ASSUME FeedInv, NEW c \in clients, Pending(Owner[c]) = {}
    PROVE  Exact(Owner[c], sets[c], c \notin unlisted)
BY DEF FeedInv, SocketsFit, Fits, Exact

LEMMA EntriesExact ==
    ASSUME FeedInv, NEW u \in Users, Pending(u) = {}
    PROVE  Exact(u, Belongs(u), Whole(u))
BY DEF FeedInv, EntriesFit, Fits, Exact

\* With nothing pending the invariant is what a reader expects of the feed.
LEMMA InvMatches ==
    ASSUME FeedAssumption, TypeOK, FeedInv
    PROVE  SubscriptionsMatch
<1> SUFFICES ASSUME jobs = {}
             PROVE  /\ \A c \in clients : /\ sets[c] \subseteq member[Owner[c]]
                                          /\ c \notin unlisted => sets[c] = member[Owner[c]]
                    /\ \A u \in Users :
                        /\ Belongs(u) \subseteq member[u]
                        /\ (counts[u] > 0 \/ Of(u, clients) # {}) /\ u \notin forgotten =>
                                Belongs(u) = member[u]
  BY DEF SubscriptionsMatch
<1>1. \A u : Pending(u) = {}
  BY NonePending
<1>2. \A c \in clients : Exact(Owner[c], sets[c], c \notin unlisted)
  BY <1>1, SocketsExact
<1>3. \A u \in Users : Exact(u, Belongs(u), Whole(u))
  BY <1>1, EntriesExact
<1>4. \A u \in Users : Of(u, clients) # {} /\ u \notin forgotten => counts[u] > 0
  BY DEF Of, FeedInv, Counted
<1> QED
  BY <1>2, <1>3, <1>4 DEF Exact, Whole

\* In the server just started nobody belongs to a guild, and no socket is open.
LEMMA InvInit ==
    ASSUME FeedAssumption, Init
    PROVE  FeedInv
<1>1. \A u \in Users : Belongs(u) = {} /\ ~Whole(u)
  BY DEF Init, Belongs, Whole
<1>2. OwnMaps
  BY DEF Init, OwnMaps, FeedAssumption
<1>3. Tracked /\ OneAtATime /\ JobsTrue /\ ListedCurrent /\ SocketsFit /\ Counted
  BY DEF Init, Tracked, OneAtATime, JobsTrue, ListedCurrent, SocketsFit, Counted
<1> QED
  BY <1>1, <1>2, <1>3 DEF FeedInv, EntriesFit, Fits

-----------------------------------------------------------------------------
(* Steps of sockets *)

\* A step that leaves sockets, maps, memberships and handlers alone.
LEMMA InvKept ==
    ASSUME FeedInv,
           UNCHANGED <<member, phase, clients, sets, memberships, jobs, counts, unlisted, forgotten>>
    PROVE  FeedInv'
BY DEF FeedInv, Tracked, OwnMaps, OneAtATime, JobsTrue, ListedCurrent, SocketsFit,
       EntriesFit, Counted, Fits, Whole, Pending, Belongs

\* A step that changes nothing an account's entry hangs on keeps it right.
LEMMA EntryKept ==
    ASSUME FeedInv, NEW u \in Users, UNCHANGED <<member, jobs>>, Belongs(u)' = Belongs(u),
           Whole(u)' => Whole(u)
    PROVE  Fits(u, Belongs(u), Whole(u))'
<1>1. Pending(u)' = Pending(u) /\ member'[u] = member[u]
  BY DEF Pending
<1>2. Fits(u, Belongs(u), Whole(u))
  BY DEF FeedInv, EntriesFit
<1> QED
  BY <1>1, <1>2 DEF Fits

\* So does a step that empties the entry of an account it no longer counts.
LEMMA EntryDropped ==
    ASSUME NEW u \in Users, Belongs(u)' = {}, ~Whole(u)'
    PROVE  Fits(u, Belongs(u), Whole(u))'
BY DEF Fits

\* The guilds of a new socket go to a map that nobody uses.
LEMMA InvList ==
    ASSUME FeedAssumption, ~Overlap, TypeOK, FeedInv, NEW c \in Conns,
           ListGuilds(c) \/ ListGuildsFails(c)
    PROVE  FeedInv'
<1> DEFINE guilds == IF ListGuilds(c) THEN member[Owner[c]] ELSE {}
<1>1. /\ UNCHANGED <<member, clients, memberships, jobs, counts, forgotten>> /\ jobs = {}
      /\ phase[c] = "idle" /\ phase' = [phase EXCEPT ![c] = "listed"]
      /\ memberships[Owner[c]] # c
  BY DEF ListGuilds, ListGuildsFails, Handshake, store
<1>2. sets' = [sets EXCEPT ![c] = guilds]
  BY DEF ListGuilds, ListGuildsFails
<1>3. /\ \A d \in Conns : d # c => (d \in unlisted' <=> d \in unlisted)
      /\ guilds = IF c \in unlisted' THEN {} ELSE member[Owner[c]]
  BY DEF ListGuilds, ListGuildsFails
<1> HIDE DEF guilds
<1>4. c \notin clients /\ clients \subseteq Conns /\ \A d \in clients : sets'[d] = sets[d]
  BY <1>1, <1>2 DEF FeedInv, Tracked, TypeOK
<1>5. \A u \in Users : memberships[u] # c
  BY <1>1 DEF FeedInv, OwnMaps
<1>6. \A u \in Users : Belongs(u)' = Belongs(u) /\ Whole(u)' = Whole(u)
  BY <1>1, <1>2, <1>5 DEF Belongs, Whole, TypeOK
<1>7. \A u : Pending(u)' = Pending(u)
  BY <1>1 DEF Pending
<1>8. Tracked' /\ OwnMaps' /\ OneAtATime' /\ JobsTrue' /\ Counted'
  BY <1>1 DEF FeedInv, Tracked, OwnMaps, OneAtATime, JobsTrue, Counted, TypeOK
<1>9. ListedCurrent'
  BY <1>1, <1>2, <1>3 DEF FeedInv, ListedCurrent, TypeOK
<1>10. SocketsFit'
  BY <1>1, <1>3, <1>4, <1>7 DEF FeedInv, SocketsFit, Fits
<1>11. EntriesFit'
  BY <1>1, <1>6, EntryKept DEF EntriesFit
<1> QED
  BY <1>8, <1>9, <1>10, <1>11 DEF FeedInv

\* A socket with guilds lends its map.  One without finds its account's entry
\* empty, or has not been told the guilds: then the entry stays as it was.
LEMMA InvRegister ==
    ASSUME FeedAssumption, TypeOK, FeedInv, NEW c \in Conns, Register(c)
    PROVE  FeedInv'
<1> DEFINE u == Owner[c]
<1>1. /\ UNCHANGED <<member, sets, jobs, unlisted>> /\ clients' = clients \cup {c}
      /\ phase[c] = "listed" /\ phase' = [phase EXCEPT ![c] = "open"]
      /\ u \in Users /\ counts[u] \in Nat
  BY DEF Register, store, FeedAssumption, TypeOK
<1>2. jobs = {} /\ sets[c] = IF c \in unlisted THEN {} ELSE member[u]
  BY <1>1 DEF FeedInv, OneAtATime, ListedCurrent
<1>3. (\A v : Pending(v) = {}) /\ (\A v : Pending(v)' = {})
  BY <1>1, <1>2 DEF Pending
<1>4. /\ counts'[u] = counts[u] + 1
      /\ \A v \in Users : v # u => /\ counts'[v] = counts[v]
                                   /\ v \in forgotten' <=> v \in forgotten
  BY <1>1 DEF Register, TypeOK
<1>5. ASSUME NEW v \in Users, v # u
      PROVE  Belongs(v)' = Belongs(v) /\ Whole(v)' = Whole(v)
  BY <1>1, <1>4, <1>5 DEF Register, Belongs, Whole, TypeOK
<1>6. Exact(u, Belongs(u), Whole(u))
  BY <1>1, <1>3, EntriesExact
<1>7. Fits(u, Belongs(u), Whole(u))'
  <2>1. CASE sets[c] # {}
    <3>1. memberships'[u] = c /\ c # None
      BY <1>1, <2>1 DEF Register, TypeOK, FeedAssumption
    <3>2. Belongs(u)' = member[u]
      BY <1>1, <1>2, <2>1, <3>1 DEF Belongs
    <3> QED
      BY <1>1, <3>2 DEF Fits
  <2>2. CASE sets[c] = {}
    <3>1. Belongs(u)' = Belongs(u)
      BY <1>1, <2>2 DEF Register, Belongs
    <3>2. CASE c \notin unlisted
      BY <1>1, <1>2, <1>6, <2>2, <3>1, <3>2 DEF Exact, Fits
    <3>3. CASE c \in unlisted
      <4>1. Whole(u)' => Whole(u)
        BY <1>1, <1>4, <3>3 DEF Register, Whole
      <4> QED
        BY <1>1, <3>1, <4>1, EntryKept
    <3> QED
      BY <3>2, <3>3
  <2> QED
    BY <2>1, <2>2
<1>8. Tracked' /\ OneAtATime' /\ JobsTrue' /\ ListedCurrent'
  BY <1>1, <1>2 DEF FeedInv, Tracked, OneAtATime, JobsTrue, ListedCurrent, TypeOK
<1>9. OwnMaps'
  BY <1>1 DEF Register, FeedInv, OwnMaps, TypeOK, FeedAssumption
<1>10. SocketsFit'
  <2>1. ASSUME NEW d \in clients'
        PROVE  Exact(Owner[d], sets[d], d \notin unlisted)
    <3>1. CASE d = c
      BY <1>2, <3>1 DEF Exact
    <3>2. CASE d # c
      BY <1>1, <1>3, <3>2, SocketsExact
    <3> QED
      BY <3>1, <3>2
  <2> QED
    BY <1>1, <1>3, <2>1 DEF SocketsFit, Fits, Exact
<1>11. EntriesFit'
  BY <1>1, <1>5, <1>7, EntryKept DEF EntriesFit
<1>12. Counted'
  <2>1. ASSUME NEW d \in clients', Owner[d] \notin forgotten'
        PROVE  counts'[Owner[d]] > 0
    <3>1. CASE Owner[d] = u
      BY <1>1, <1>4, <3>1
    <3>2. CASE Owner[d] # u
      <4>1. d \in clients /\ Owner[d] \in Users
        BY <1>1, <3>2 DEF TypeOK, FeedAssumption
      <4> QED
        BY <1>4, <2>1, <3>2, <4>1 DEF FeedInv, Counted
    <3> QED
      BY <3>1, <3>2
  <2> QED
    BY <2>1 DEF Counted
<1> QED
  BY <1>8, <1>9, <1>10, <1>11, <1>12 DEF FeedInv

\* Sockets that close leave the other sockets and the handlers as they were.
LEMMA InvClosed ==
    ASSUME TypeOK, FeedInv, NEW conns \in SUBSET clients, Closed(conns),
           UNCHANGED <<member, sets, jobs, unlisted>>
    PROVE  /\ Tracked' /\ OneAtATime' /\ JobsTrue' /\ ListedCurrent' /\ SocketsFit'
           /\ clients' = clients \ conns
<1>1. /\ clients' = clients \ conns
      /\ phase' = [c \in Conns |-> IF c \in conns THEN "idle" ELSE phase[c]]
  BY DEF Closed
<1>2. Tracked' /\ OneAtATime' /\ JobsTrue' /\ ListedCurrent'
  BY <1>1 DEF FeedInv, Tracked, OneAtATime, JobsTrue, ListedCurrent
<1>3. SocketsFit'
  BY <1>1 DEF FeedInv, SocketsFit, Fits, Pending
<1> QED
  BY <1>1, <1>2, <1>3

\* A socket that closes leaves its map to its account.
LEMMA InvUnregister ==
    ASSUME TypeOK, FeedInv, NEW c \in Conns, Unregister(c)
    PROVE  FeedInv'
<1>1. /\ UNCHANGED <<member, sets, memberships, jobs, counts, unlisted, forgotten>>
      /\ Closed({c}) /\ {c} \in SUBSET clients
  BY DEF Unregister, store, presence
<1>2. /\ Tracked' /\ OneAtATime' /\ JobsTrue' /\ ListedCurrent' /\ SocketsFit'
      /\ clients' = clients \ {c}
  BY <1>1, InvClosed
<1>3. OwnMaps'
  BY <1>1 DEF FeedInv, OwnMaps
<1>4. \A u : Belongs(u)' = Belongs(u) /\ Whole(u)' = Whole(u)
  BY <1>1 DEF Belongs, Whole
<1>5. EntriesFit'
  BY <1>1, <1>4, EntryKept DEF EntriesFit
<1>6. Counted'
  BY <1>1, <1>2 DEF FeedInv, Counted
<1> QED
  BY <1>2, <1>3, <1>5, <1>6 DEF FeedInv

\* An account that is forgotten has an empty entry, and the others have theirs.
LEMMA InvForget ==
    ASSUME FeedAssumption, TypeOK, FeedInv, NEW u \in Users, NEW left, Forget(u, left),
           UNCHANGED <<member, sets, jobs>>,
           clients' \subseteq clients, (\E c \in clients' : Owner[c] = u) => left # {}
    PROVE  OwnMaps' /\ EntriesFit' /\ Counted'
<1>1. /\ counts' = [counts EXCEPT ![u] = 0]
      /\ memberships' = [memberships EXCEPT ![u] = None]
      /\ \A v \in Users : v # u => (v \in forgotten' <=> v \in forgotten)
      /\ left # {} => u \in forgotten'
  BY DEF Forget
<1>2. Belongs(u)' = {} /\ ~Whole(u)'
  BY <1>1 DEF Belongs, Whole, TypeOK
<1>3. ASSUME NEW v \in Users, v # u
      PROVE  Belongs(v)' = Belongs(v) /\ Whole(v)' = Whole(v)
  BY <1>1, <1>3 DEF Belongs, Whole, TypeOK
<1>4. OwnMaps'
  BY <1>1 DEF FeedInv, OwnMaps, TypeOK, FeedAssumption
<1>5. EntriesFit'
  BY <1>2, <1>3, EntryKept, EntryDropped DEF EntriesFit
<1>6. ASSUME NEW c \in clients', Owner[c] \notin forgotten'
      PROVE  counts'[Owner[c]] > 0
  <2>1. c \in clients /\ Owner[c] \in Users /\ Owner[c] # u
    BY <1>1, <1>6 DEF TypeOK, FeedAssumption
  <2> QED
    BY <1>1, <1>6, <2>1 DEF FeedInv, Counted, TypeOK
<1>7. Counted'
  BY <1>6 DEF Counted
<1> QED
  BY <1>4, <1>5, <1>7

\* The last lease that is counted takes the account's entry along, also one that
\* belongs to a socket of after a revocation: that account is then forgotten.
LEMMA InvExpire ==
    ASSUME FeedAssumption, TypeOK, FeedInv, NEW c \in Conns, Expire(c)
    PROVE  FeedInv'
<1> DEFINE u == Owner[c]
<1>1. UNCHANGED <<member, phase, clients, sets, jobs, unlisted>> /\ u \in Users
  BY DEF Expire, store, FeedAssumption
<1>2. Tracked' /\ OneAtATime' /\ JobsTrue' /\ ListedCurrent' /\ SocketsFit'
  BY <1>1 DEF FeedInv, Tracked, OneAtATime, JobsTrue, ListedCurrent, SocketsFit, Fits, Pending
<1>3. CASE counts[u] <= 1
  <2>1. Forget(u, Of(u, clients))
    BY <1>3 DEF Expire
  <2>2. (\E d \in clients' : Owner[d] = u) => Of(u, clients) # {}
    BY <1>1 DEF Of
  <2>3. OwnMaps' /\ EntriesFit' /\ Counted'
    BY <1>1, <2>1, <2>2, InvForget
  <2> QED
    BY <1>2, <2>3 DEF FeedInv
<1>4. CASE ~(counts[u] <= 1)
  <2>1. /\ counts' = [counts EXCEPT ![u] = counts[u] - 1]
        /\ UNCHANGED <<memberships, forgotten>>
    BY <1>4 DEF Expire
  <2>2. counts[u] \in Nat /\ counts[u] > 1 /\ counts'[u] = counts[u] - 1 /\ counts'[u] > 0
    BY <1>1, <1>4, <2>1 DEF TypeOK
  <2>3. \A v \in Users : v # u => counts'[v] = counts[v]
    BY <2>1 DEF TypeOK
  <2>4. \A v \in Users : Belongs(v)' = Belongs(v) /\ (Whole(v)' => Whole(v))
    BY <1>1, <2>1, <2>2, <2>3 DEF Belongs, Whole
  <2>5. OwnMaps'
    BY <2>1 DEF FeedInv, OwnMaps
  <2>6. EntriesFit'
    BY <1>1, <2>4, EntryKept DEF EntriesFit
  <2>7. \A d \in clients : Owner[d] \in Users
    BY DEF TypeOK, FeedAssumption
  <2>8. Counted'
    BY <1>1, <2>1, <2>2, <2>3, <2>7 DEF FeedInv, Counted
  <2> QED
    BY <1>2, <2>5, <2>6, <2>8 DEF FeedInv
<1> QED
  BY <1>3, <1>4

\* A revocation leaves the account neither a socket nor an entry.
LEMMA InvDisconnect ==
    ASSUME FeedAssumption, TypeOK, FeedInv, NEW u \in Users, DisconnectUser(u)
    PROVE  FeedInv'
<1>1. /\ UNCHANGED <<member, sets, jobs, unlisted>>
      /\ Closed(Of(u, clients)) /\ Of(u, clients) \in SUBSET clients /\ Forget(u, {})
  BY DEF DisconnectUser, store, Of
<1>2. /\ Tracked' /\ OneAtATime' /\ JobsTrue' /\ ListedCurrent' /\ SocketsFit'
      /\ clients' = clients \ Of(u, clients)
  BY <1>1, InvClosed
<1>3. clients' \subseteq clients /\ ~(\E c \in clients' : Owner[c] = u)
  BY <1>2 DEF Of
<1>4. OwnMaps' /\ EntriesFit' /\ Counted'
  BY <1>1, <1>3, InvForget
<1> QED
  BY <1>2, <1>4 DEF FeedInv

\* Every step of a socket keeps the invariant.
LEMMA InvSockets ==
    ASSUME FeedAssumption, ~Overlap, TypeOK, FeedInv, Sockets
    PROVE  FeedInv'
<1> PICK c \in Conns :
        \/ ListGuilds(c) \/ ListGuildsFails(c) \/ Register(c)
        \/ Unregister(c) \/ Expire(c) \/ WriteEvent(c)
  BY DEF Sockets
<1>1. WriteEvent(c) => FeedInv'
  BY InvKept DEF WriteEvent, store, presence
<1> QED
  BY <1>1, InvList, InvRegister, InvUnregister, InvExpire

-----------------------------------------------------------------------------
(* Steps of handlers *)

\* A handler that begins and changes memberships in the guild it leaves pending
\* only keeps the invariant.
LEMMA InvBegin ==
    ASSUME FeedAssumption, ~Overlap, TypeOK, FeedInv, NEW j \in Jobs,
           MayStart, jobs' = jobs \cup {j}, UNCHANGED <<phase, clients, sets, memberships, presence>>,
           JobsTrue', \A u \in Users : member'[u] \ Pending(u)' = member[u] \ Pending(u)'
    PROVE  FeedInv'
<1>1. jobs = {} /\ \A c \in Conns : phase[c] # "listed"
  BY DEF MayStart
<1>2. \A u : Pending(u) = {}
  BY <1>1, NonePending
<1>3. jobs' = {j}
  BY <1>1
<1>4. \A u : Belongs(u)' = Belongs(u) /\ Whole(u)' = Whole(u)
  BY DEF Belongs, Whole, presence
<1>5. Tracked' /\ OwnMaps' /\ OneAtATime' /\ ListedCurrent' /\ Counted'
  BY <1>1, <1>3 DEF FeedInv, Tracked, OwnMaps, OneAtATime, ListedCurrent, Counted, presence
<1>6. ASSUME NEW u \in Users, NEW s, NEW whole, Exact(u, s, whole)
      PROVE  Fits(u, s, whole)'
  <2>1. member'[u] \ Pending(u)' = member[u] \ Pending(u)'
    OBVIOUS
  <2> QED
    BY <1>6, <2>1 DEF Exact, Fits
<1>7. ASSUME NEW c \in clients
      PROVE  Fits(Owner[c], sets[c], c \notin unlisted)'
  <2>1. Owner[c] \in Users /\ Exact(Owner[c], sets[c], c \notin unlisted)
    BY <1>2, SocketsExact DEF TypeOK, FeedAssumption
  <2> DEFINE whole == c \notin unlisted
  <2>2. Fits(Owner[c], sets[c], whole)'
    <3> HIDE DEF whole
    <3>1. UNCHANGED <<sets, whole>>
      BY DEF presence, whole
    <3> QED
      BY <1>6, <2>1, <3>1 DEF whole
  <2> QED
    BY <2>2
<1>8. SocketsFit'
  BY <1>7 DEF SocketsFit
<1>9. ASSUME NEW u \in Users
      PROVE  Fits(u, Belongs(u), Whole(u))'
  <2>1. Exact(u, Belongs(u), Whole(u))
    BY <1>2, EntriesExact
  <2> QED
    BY <1>4, <1>6, <2>1 DEF Fits
<1>10. EntriesFit'
  BY <1>9 DEF EntriesFit
<1> QED
  BY <1>5, <1>8, <1>10 DEF FeedInv

\* A change of a membership leaves just the changed guild pending.
LEMMA InvMember ==
    ASSUME FeedAssumption, ~Overlap, TypeOK, FeedInv, NEW u \in Users, NEW g \in Guilds,
           AddMember(u, g) \/ RemoveMember(u, g)
    PROVE  FeedInv'
<1> DEFINE op == IF AddMember(u, g) THEN "add" ELSE "remove"
           j == [op |-> op, user |-> u, guild |-> g]
<1>1. /\ MayStart /\ jobs = {} /\ op \in {"add", "remove"}
      /\ UNCHANGED <<phase, clients, sets, memberships, presence>>
  BY DEF AddMember, RemoveMember, MayStart
<1>2. j \in Jobs
  BY <1>1 DEF Jobs
<1>3. jobs' = jobs \cup {j} /\ (op = "add" <=> AddMember(u, g))
  BY DEF AddMember, RemoveMember
<1>4. /\ op = "add" => member' = [member EXCEPT ![u] = @ \cup {g}]
      /\ op = "remove" => member' = [member EXCEPT ![u] = @ \ {g}]
  BY DEF AddMember, RemoveMember
<1>5. jobs' = {j} /\ j.op = op /\ j.user = u /\ j.guild = g
  BY <1>1, <1>3
<1>6. JobsTrue'
  BY <1>1, <1>4, <1>5 DEF JobsTrue, TypeOK
<1>7. Pending(u)' = {g}
  BY <1>1, <1>5 DEF Pending
<1>8. ASSUME NEW v \in Users
      PROVE  member'[v] \ Pending(v)' = member[v] \ Pending(v)'
  <2>1. CASE v = u
    BY <1>1, <1>4, <1>7, <2>1 DEF TypeOK
  <2>2. CASE v # u
    BY <1>1, <1>4, <2>2 DEF TypeOK
  <2> QED
    BY <2>1, <2>2
<1> QED
  BY <1>1, <1>2, <1>3, <1>6, <1>8, InvBegin

\* A guild that has been deleted is pending for everybody.
LEMMA InvDelete ==
    ASSUME FeedAssumption, ~Overlap, TypeOK, FeedInv, NEW g \in Guilds, DeleteGuild(g)
    PROVE  FeedInv'
<1> DEFINE j == [op |-> "removeGuild", user |-> None, guild |-> g]
<1>1. /\ MayStart /\ jobs = {} /\ jobs' = jobs \cup {j}
      /\ UNCHANGED <<phase, clients, sets, memberships, presence>>
      /\ member' = [u \in Users |-> member[u] \ {g}]
  BY DEF DeleteGuild, MayStart
<1>2. j \in Jobs
  BY DEF Jobs
<1>3. jobs' = {j} /\ j.op = "removeGuild" /\ j.guild = g
  BY <1>1
<1>4. JobsTrue'
  BY <1>1, <1>3 DEF JobsTrue
<1>5. \A u : Pending(u)' = {g}
  BY <1>3 DEF Pending
<1>6. \A u \in Users : member'[u] \ Pending(u)' = member[u] \ Pending(u)'
  BY <1>1, <1>5
<1> QED
  BY <1>1, <1>2, <1>4, <1>6, InvBegin

\* The hub has been told: what is left of the handler, if anything, only tells
\* the guild, and everything agrees with the store.
LEMMA InvEnd ==
    ASSUME FeedAssumption, TypeOK, FeedInv, NEW j \in jobs,
           jobs' \in {{}, Told(j)}, UNCHANGED <<member, phase, clients, presence>>, OwnMaps',
           \A c \in clients : Exact(Owner[c], sets'[c], c \notin unlisted),
           \A u \in Users : Exact(u, Belongs(u)', Whole(u))
    PROVE  FeedInv'
<1>1. \A i \in jobs' : i.op = "publish"
  <2>1. j \in [op : {"add", "remove", "publish"}, user : Users, guild : Guilds]
        \/ j \in [op : {"removeGuild"}, user : {None}, guild : Guilds]
    BY DEF TypeOK, Jobs
  <2>2. [j EXCEPT !.op = "publish"].op = "publish"
    BY <2>1
  <2> QED
    BY <2>2 DEF Told
<1>2. \A u : Pending(u)' = {}
  BY <1>1 DEF Pending
<1>3. \A c \in Conns : phase[c] # "listed"
  BY DEF FeedInv, OneAtATime
<1>4. OneAtATime'
  BY <1>3 DEF OneAtATime, Told
<1>5. JobsTrue'
  BY <1>1 DEF JobsTrue
<1>6. Tracked' /\ ListedCurrent' /\ Counted'
  BY <1>3 DEF FeedInv, Tracked, ListedCurrent, Counted, presence
<1>7. SocketsFit'
  BY <1>2 DEF SocketsFit, Fits, Exact, presence
<1>8. \A u : Whole(u)' = Whole(u)
  BY DEF Whole, presence
<1>9. EntriesFit'
  BY <1>2, <1>8 DEF EntriesFit, Fits, Exact
<1> QED
  BY <1>4, <1>5, <1>6, <1>7, <1>9 DEF FeedInv

\* Two accounts share no map, and none refers to the other's sockets.
LEMMA MapsApart ==
    ASSUME FeedAssumption, TypeOK, FeedInv, NEW u \in Users, NEW v \in Users, u # v,
           memberships[v] # None
    PROVE  memberships[v] \notin Of(u, clients) \cup {memberships[u]}
<1>1. memberships[v] \in Conns \cup Users
  BY DEF TypeOK
<1>2. CASE memberships[v] \in Conns
  <2>1. Owner[memberships[v]] = v
    BY <1>2 DEF FeedInv, OwnMaps
  <2> QED
    BY <1>2, <2>1 DEF FeedInv, OwnMaps, Of
<1>3. CASE memberships[v] \in Users
  <2>1. memberships[v] = v
    BY <1>3 DEF FeedInv, OwnMaps
  <2>2. v \notin clients
    BY DEF TypeOK, FeedAssumption
  <2> QED
    BY <2>1, <2>2 DEF FeedInv, OwnMaps, Of
<1> QED
  BY <1>1, <1>2, <1>3

\* What a handler about one member has pending, and for whom.
LEMMA MemberPending ==
    ASSUME FeedInv, NEW j \in jobs, j.op \in {"add", "remove"}
    PROVE  /\ Pending(j.user) = {j.guild}
           /\ \A v : v # j.user => Pending(v) = {}
BY OnePending DEF FeedInv, OneAtATime

\* A member who is added: the guild goes to every map the account has a part in.
LEMMA InvAdd ==
    ASSUME FeedAssumption, TypeOK, FeedInv, NEW j \in jobs, AddUserGuild(j)
    PROVE  FeedInv'
<1> DEFINE u == j.user
           g == j.guild
           map == IF memberships[u] = None THEN u ELSE memberships[u]
           fresh == IF memberships[u] = None THEN [sets EXCEPT ![u] = {}] ELSE sets
<1>1. j.op = "add" /\ u \in Users /\ g \in member[u]
  BY DEF AddUserGuild, TypeOK, Jobs, FeedInv, JobsTrue
<1>2. Pending(u) = {g} /\ \A v : v # u => Pending(v) = {}
  BY <1>1, MemberPending
<1>3. /\ memberships' = [memberships EXCEPT ![u] = map]
      /\ sets' = [x \in Conns \cup Users |->
                    IF x = map \/ x \in Of(u, clients) THEN fresh[x] \cup {g} ELSE fresh[x]]
      /\ UNCHANGED <<member, phase, clients, presence>>
  BY DEF AddUserGuild, store
<1>4. jobs' \in {{}, Told(j)}
  BY <1>1 DEF AddUserGuild, Then, FeedInv, OneAtATime
<1>5. map \in Conns \cup Users /\ map # None /\ u \notin Conns
  BY <1>1 DEF TypeOK, FeedAssumption
<1>6. \A x \in Conns \cup Users : x # u => fresh[x] = sets[x]
  BY DEF TypeOK
<1>7. OwnMaps'
  BY <1>1, <1>3, <1>5 DEF FeedInv, OwnMaps, TypeOK, FeedAssumption
<1>8. ASSUME NEW v \in Users, v # u
      PROVE  /\ Belongs(v)' = Belongs(v)
             /\ \A c \in Of(v, clients) : sets'[c] = sets[c]
  <2>1. memberships'[v] = memberships[v] /\ memberships[v] \in Conns \cup Users \cup {None}
    BY <1>3, <1>8 DEF TypeOK
  <2>2. memberships[v] # map /\ memberships[v] # u
    BY <1>1, <1>5, <1>8 DEF FeedInv, OwnMaps, FeedAssumption, TypeOK
  <2>3. memberships[v] # None => memberships[v] \notin Of(u, clients)
    BY <1>8, <2>1 DEF FeedInv, OwnMaps, Of, TypeOK
  <2>4. memberships[v] # None => sets'[memberships[v]] = sets[memberships[v]]
    BY <1>3, <1>6, <2>1, <2>2, <2>3
  <2>5. ASSUME NEW c \in Of(v, clients)
        PROVE  sets'[c] = sets[c]
    <3>1. c \in Conns /\ Owner[c] = v /\ c # u
      BY <1>5 DEF Of, TypeOK
    <3>2. c # map /\ c \notin Of(u, clients)
      BY <1>1, <1>8, <3>1 DEF FeedInv, OwnMaps, Of
    <3> QED
      BY <1>3, <1>6, <3>1, <3>2
  <2> QED
    BY <2>1, <2>4, <2>5 DEF Belongs
<1>9. Belongs(u)' = Belongs(u) \cup {g}
  <2>1. memberships'[u] = map /\ sets'[map] = fresh[map] \cup {g}
    BY <1>1, <1>3, <1>5 DEF TypeOK
  <2>2. fresh[map] = Belongs(u)
    BY <1>1 DEF Belongs, TypeOK
  <2> QED
    BY <1>5, <2>1, <2>2 DEF Belongs
<1>10. ASSUME NEW c \in clients
       PROVE  Exact(Owner[c], sets'[c], c \notin unlisted)
  <2>1. c \in Conns /\ Owner[c] \in Users /\ c \in Of(Owner[c], clients)
    BY DEF Of, TypeOK, FeedAssumption
  <2>2. CASE Owner[c] = u
    <3>1. sets'[c] = sets[c] \cup {g}
      BY <1>3, <1>5, <1>6, <2>1, <2>2
    <3>2. Fits(u, sets[c], c \notin unlisted)
      BY <2>2 DEF FeedInv, SocketsFit
    <3> QED
      BY <1>1, <1>2, <2>2, <3>1, <3>2 DEF Fits, Exact
  <2>3. CASE Owner[c] # u
    BY <1>2, <1>8, <2>1, <2>3, SocketsExact
  <2> QED
    BY <2>2, <2>3
<1>11. ASSUME NEW v \in Users
       PROVE  Exact(v, Belongs(v)', Whole(v))
  <2>1. Fits(v, Belongs(v), Whole(v))
    BY DEF FeedInv, EntriesFit
  <2>2. CASE v = u
    BY <1>1, <1>2, <1>9, <2>1, <2>2 DEF Fits, Exact
  <2>3. CASE v # u
    BY <1>2, <1>8, <2>3, EntriesExact
  <2> QED
    BY <2>2, <2>3
<1> QED
  BY <1>3, <1>4, <1>7, <1>10, <1>11, InvEnd

\* A member who is removed: the guild leaves every map the account has a part in.
LEMMA InvRemove ==
    ASSUME FeedAssumption, TypeOK, FeedInv, NEW j \in jobs, RemoveUserGuild(j)
    PROVE  FeedInv'
<1> DEFINE u == j.user
           g == j.guild
           held == Of(u, clients) \cup {memberships[u]}
<1>1. j.op = "remove" /\ u \in Users /\ g \notin member[u]
  BY DEF RemoveUserGuild, TypeOK, Jobs, FeedInv, JobsTrue
<1>2. Pending(u) = {g} /\ \A v : v # u => Pending(v) = {}
  BY <1>1, MemberPending
<1>3. /\ sets' = [x \in Conns \cup Users |-> IF x \in held THEN sets[x] \ {g} ELSE sets[x]]
      /\ UNCHANGED <<member, phase, clients, memberships, presence>>
  BY DEF RemoveUserGuild, store
<1>4. jobs' \in {{}, Told(j)}
  BY <1>1 DEF RemoveUserGuild, Then, FeedInv, OneAtATime
<1>5. OwnMaps'
  BY <1>3 DEF FeedInv, OwnMaps
<1>6. ASSUME NEW v \in Users, v # u
      PROVE  /\ Belongs(v)' = Belongs(v)
             /\ \A c \in Of(v, clients) : sets'[c] = sets[c]
  <2>1. memberships[v] \in Conns \cup Users \cup {None} /\ memberships[u] \in Conns \cup Users \cup {None}
    BY <1>1 DEF TypeOK
  <2>2. memberships[v] # None => memberships[v] \notin held
    BY <1>1, <1>6, MapsApart
  <2>3. memberships[v] # None => sets'[memberships[v]] = sets[memberships[v]]
    BY <1>3, <2>1, <2>2
  <2>4. ASSUME NEW c \in Of(v, clients)
        PROVE  sets'[c] = sets[c]
    <3>1. c \in Conns /\ Owner[c] = v
      BY DEF Of, TypeOK
    <3>2. c \notin held
      BY <1>1, <1>6, <2>1, <3>1 DEF FeedInv, OwnMaps, Of, FeedAssumption
    <3> QED
      BY <1>3, <3>1, <3>2
  <2> QED
    BY <1>3, <2>3, <2>4 DEF Belongs
<1>7. Belongs(u)' = Belongs(u) \ {g}
  <2>1. memberships[u] # None => sets'[memberships[u]] = sets[memberships[u]] \ {g}
    BY <1>1, <1>3 DEF TypeOK
  <2> QED
    BY <1>3, <2>1 DEF Belongs
<1>8. ASSUME NEW c \in clients
      PROVE  Exact(Owner[c], sets'[c], c \notin unlisted)
  <2>1. c \in Conns /\ Owner[c] \in Users /\ c \in Of(Owner[c], clients)
    BY DEF Of, TypeOK, FeedAssumption
  <2>2. CASE Owner[c] = u
    <3>1. sets'[c] = sets[c] \ {g}
      BY <1>3, <2>1, <2>2
    <3>2. Fits(u, sets[c], c \notin unlisted)
      BY <2>2 DEF FeedInv, SocketsFit
    <3> QED
      BY <1>1, <1>2, <2>2, <3>1, <3>2 DEF Fits, Exact
  <2>3. CASE Owner[c] # u
    BY <1>2, <1>6, <2>1, <2>3, SocketsExact
  <2> QED
    BY <2>2, <2>3
<1>9. ASSUME NEW v \in Users
      PROVE  Exact(v, Belongs(v)', Whole(v))
  <2>1. Fits(v, Belongs(v), Whole(v))
    BY DEF FeedInv, EntriesFit
  <2>2. CASE v = u
    BY <1>1, <1>2, <1>7, <2>1, <2>2 DEF Fits, Exact
  <2>3. CASE v # u
    BY <1>2, <1>6, <2>3, EntriesExact
  <2> QED
    BY <2>2, <2>3
<1> QED
  BY <1>3, <1>4, <1>5, <1>8, <1>9, InvEnd

\* A guild that is removed leaves every map in use: those the accounts refer to
\* first, then those only a socket holds.
LEMMA InvRemoveGuild ==
    ASSUME FeedAssumption, TypeOK, FeedInv, NEW j \in jobs, RemoveGuild(j)
    PROVE  FeedInv'
<1> DEFINE g == j.guild
           lent == {memberships[u] : u \in Users} \ {None}
           without == [x \in Conns \cup Users |-> IF x \in lent THEN sets[x] \ {g} ELSE sets[x]]
           told == {c \in clients : g \in without[c]}
<1>1. j.op = "removeGuild" /\ \A u \in Users : g \notin member[u]
  BY DEF RemoveGuild, FeedInv, JobsTrue
<1>2. \A u : Pending(u) = {g}
  BY <1>1, OnePending DEF FeedInv, OneAtATime
<1>3. /\ memberships' = [u \in Users |->
                           IF memberships[u] # None /\ without[memberships[u]] = {}
                             THEN None ELSE memberships[u]]
      /\ sets' = [x \in Conns \cup Users |->
                    IF x \in told THEN without[x] \ {g} ELSE without[x]]
      /\ UNCHANGED <<member, phase, clients, presence>>
  BY DEF RemoveGuild, store
<1>4. jobs' \in {{}, Told(j)}
  BY DEF RemoveGuild, Then, FeedInv, OneAtATime
<1>5. OwnMaps'
  BY <1>3 DEF FeedInv, OwnMaps, TypeOK, FeedAssumption
<1>6. ASSUME NEW c \in clients
      PROVE  sets'[c] = sets[c] \ {g}
  <2>1. c \in Conns \cup Users
    BY DEF TypeOK
  <2> QED
    BY <1>3, <2>1
<1>7. ASSUME NEW u \in Users
      PROVE  Belongs(u)' = Belongs(u) \ {g}
  <2>1. CASE memberships[u] = None
    BY <1>3, <2>1 DEF Belongs
  <2>2. CASE memberships[u] # None
    <3>1. memberships[u] \in Conns \cup Users /\ memberships[u] \in lent
      BY <2>2 DEF TypeOK
    <3>2. without[memberships[u]] = sets[memberships[u]] \ {g}
      BY <3>1
    <3>3. sets'[memberships[u]] = sets[memberships[u]] \ {g}
      BY <1>3, <3>1, <3>2
    <3>4. memberships'[u] = IF sets[memberships[u]] \ {g} = {} THEN None ELSE memberships[u]
      BY <1>3, <2>2, <3>2
    <3> QED
      BY <2>2, <3>3, <3>4 DEF Belongs
  <2> QED
    BY <2>1, <2>2
<1>8. ASSUME NEW c \in clients
      PROVE  Exact(Owner[c], sets'[c], c \notin unlisted)
  <2>1. Owner[c] \in Users /\ Fits(Owner[c], sets[c], c \notin unlisted)
    BY DEF TypeOK, FeedAssumption, FeedInv, SocketsFit
  <2>2. Pending(Owner[c]) = {g} /\ g \notin member[Owner[c]] /\ sets'[c] = sets[c] \ {g}
    BY <1>1, <1>2, <1>6, <2>1
  <2> QED
    BY <2>1, <2>2 DEF Fits, Exact
<1>9. ASSUME NEW u \in Users
      PROVE  Exact(u, Belongs(u)', Whole(u))
  <2>1. Fits(u, Belongs(u), Whole(u))
    BY DEF FeedInv, EntriesFit
  <2> QED
    BY <1>1, <1>2, <1>7, <2>1 DEF Fits, Exact
<1> QED
  BY <1>3, <1>4, <1>5, <1>8, <1>9, InvEnd

\* Telling the guild ends a handler that has nothing pending.
LEMMA InvTell ==
    ASSUME FeedAssumption, TypeOK, FeedInv, NEW j \in jobs, TellGuild(j)
    PROVE  FeedInv'
<1>1. j.op = "publish" /\ UNCHANGED <<member, phase, clients, sets, memberships, presence>>
  BY DEF TellGuild, store
<1>2. \A u : Pending(u) = {}
  BY <1>1, OnePending DEF FeedInv, OneAtATime
<1>3. jobs' \in {{}, Told(j)}
  BY DEF TellGuild, Then, FeedInv, OneAtATime
<1>4. OwnMaps' /\ \A u : Belongs(u)' = Belongs(u)
  BY <1>1 DEF FeedInv, OwnMaps, Belongs
<1>5. \A c \in clients : Exact(Owner[c], sets'[c], c \notin unlisted)
  BY <1>1, <1>2, SocketsExact
<1>6. \A u \in Users : Exact(u, Belongs(u)', Whole(u))
  BY <1>2, <1>4, EntriesExact
<1> QED
  BY <1>1, <1>3, <1>4, <1>5, <1>6, InvEnd

\* Every step keeps the invariant.
LEMMA InvNext ==
    ASSUME FeedAssumption, ~Overlap, TypeOK, FeedInv, [Next]_vars
    PROVE  FeedInv'
<1>1. CASE UNCHANGED vars
  BY <1>1, InvKept DEF vars
<1>2. ASSUME NEW g \in Guilds, Publish(g)
      PROVE  FeedInv'
  BY <1>2, InvKept DEF Publish, store, presence
<1>3. CASE Handlers
  BY <1>2, <1>3, InvMember, InvDelete, InvAdd, InvRemove, InvRemoveGuild, InvTell,
     InvDisconnect DEF Handlers
<1> QED
  BY <1>1, <1>3, InvSockets DEF Next

-----------------------------------------------------------------------------
(* The theorem *)

\* Between handlers that take turns, no socket hears a guild its account is not
\* in, and it hears all the account is in unless the store failed its handshake;
\* the entry that presence goes by is right in the same way, and whole for an
\* account that is counted or has a socket, unless it came online by a failed
\* handshake, or an expire of before a revocation has dropped the entry.  This
\* holds whichever map is shared and whatever has been opened, closed, revoked,
\* joined, left and deleted before.
THEOREM SubscriptionsAlwaysMatch ==
    ASSUME FeedAssumption, ~Overlap
    PROVE  Spec => []SubscriptionsMatch
<1> DEFINE Inv == TypeOK /\ FeedInv
<1>1. Init => Inv
  BY TypeInit, InvInit
<1>2. Inv /\ [Next]_vars => Inv'
  BY TypeNext, InvNext
<1>3. Inv => SubscriptionsMatch
  BY InvMatches
<1> QED
  BY <1>1, <1>2, <1>3, PTL DEF Spec
=============================================================================
