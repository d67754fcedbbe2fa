------------------------------ MODULE ClientSync ------------------------------
(***************************************************************************)
(* How a page keeps up with its guild: web/src/stores/app-socket.ts and     *)
(* the bootstraps of web/src/stores/app.ts.  The page shows one guild, read *)
(* by HTTP and kept current by the events of one WebSocket; every answer    *)
(* may come after the user, an event or a new connection changed what it    *)
(* was asked for.                                                           *)
(*                                                                         *)
(* A guild's channels, members and rooms are one number, counted up by the  *)
(* server at each change: an event carries the number, a bootstrap reads    *)
(* it.  The messages of a channel are ChannelMessages; how the server       *)
(* orders its events is GuildFeed, here they come in order.                 *)
(***************************************************************************)
EXTENDS Naturals, Sequences

CONSTANTS
    Guilds,          \* guild numbers, in the order of the account's list
    Attempts,        \* rounds of synchronizeSocket (8 in the code)
    MaxChanges,      \* bound: changes of guilds, memberships and sessions
    MaxActs,         \* bound: what the user does
    MaxUpsets,       \* bound: lost connections and failed requests
    MaxConnections   \* bound: connections opened

ClientSyncAssumption ==
    /\ Guilds \subseteq Nat \ {0} /\ Guilds # {}
    /\ Attempts \in Nat \ {0}
    /\ {MaxChanges, MaxActs, MaxUpsets, MaxConnections} \subseteq Nat

VARIABLES
    page,    \* the stores and the socket of the page
    server,  \* guilds' numbers, the account's memberships, whether its session is
             \* valid, and the connection it was revoked on
    feed,    \* events sent to the connection and not handled yet
    calls,   \* bootstraps and synchronizations under way
    spent,   \* bounds: changes, acts and upsets so far
    behind   \* history: the page missed something its next synchronization repairs

syncVars == <<page, server, feed, calls, spent, behind>>

NoGuild == 0
Nothing == [guild |-> NoGuild, rev |-> 0]
First(set) == IF set = {} THEN NoGuild ELSE CHOOSE g \in set : \A h \in set : g <= h

\* An asynchronous function waiting for an answer; read says that the server
\* has read what it asked for, late that an event overtook the answer.
Call(kind, at) ==
    [kind |-> kind, at |-> at, read |-> FALSE, joined |-> {}, data |-> Nothing, late |-> FALSE,
     guild |-> NoGuild, version |-> 0, conn |-> 0, attempt |-> 0, activity |-> 0]

Init ==
    /\ server \in [rev : {[g \in Guilds |-> 0]}, joined : {Guilds, {First(Guilds)}},
                   session : BOOLEAN, revoked : {0}]
    /\ \E saved \in Guilds \cup {NoGuild} : \* the guild this page showed last
         page = [user |-> FALSE, guilds |-> {}, active |-> saved, shown |-> Nothing, version |-> 0,
                 socket |-> "none", conn |-> 0, sync |-> FALSE, activity |-> 0,
                 status |-> "offline", timer |-> FALSE, stuck |-> FALSE]
    /\ feed = <<>>
    /\ calls = {Call("boot", "account")}
    /\ spent = [changes |-> 0, acts |-> 0, upsets |-> 0]
    /\ behind = FALSE

TypeOK ==
    /\ page.guilds \subseteq Guilds /\ page.active \in Guilds \cup {NoGuild}
    /\ page.socket \in {"none", "connecting", "open"}
    /\ page.status \in {"offline", "connecting", "online"}
    /\ page.sync => page.socket = "open"
    /\ page.timer => page.socket = "none"
    /\ page.socket # "open" => feed = <<>>

-----------------------------------------------------------------------------
(* What runs between two awaits: functions of the page. *)

StopSocket(p) ==
    [p EXCEPT !.socket = "none", !.sync = FALSE, !.status = "offline", !.timer = FALSE,
              !.stuck = FALSE]

ConnectSocket(p) ==
    IF ~p.user THEN StopSocket(p)
    ELSE [StopSocket(p) EXCEPT !.socket = "connecting", !.conn = @ + 1, !.status = "connecting"]

ClearGuildState(p) == [p EXCEPT !.shown = Nothing]

\* The account's answer: the active guild stays if it is still joined.
TakeGuilds(p, joined) ==
    [p EXCEPT !.user = TRUE, !.guilds = joined,
              !.active = IF @ \in joined THEN @ ELSE First(joined)]

Boot == Call("boot", "account")
Load(p, g) == [Call("load", "guild") EXCEPT !.guild = g, !.version = p.version]
Sync(p, attempt) ==
    [Call("sync", "account") EXCEPT !.conn = p.conn, !.attempt = attempt, !.activity = p.activity]

\* Every answer read by now and taken later is late.
Overtaken(set) == {[c EXCEPT !.late = c.read /\ c.kind \notin {"sync", "logout"}] : c \in set}

\* loadGuildBootstrap up to its request.
LoadGuild(p, g) == [p EXCEPT !.version = @ + 1, !.active = g]

StillWanted(p, c) == p.version = c.version /\ p.active = c.guild

\* The answer brings the user along, even to a page that has none by then.
ApplyBootstrap(p, c) == [p EXCEPT !.user = TRUE, !.shown = c.data]

SameActivity(p, c) == p.activity = c.activity

\* WebSocket.close refuses the codes 1008 and 1012 with an exception: the
\* connection stays, and nothing starts another one.
CloseRefused(p) == [p EXCEPT !.sync = FALSE, !.stuck = p.socket # "none"]

SyncFails(p, c, status) ==
    IF status \in {401, 403} THEN CloseRefused([p EXCEPT !.user = FALSE])
    ELSE IF p.conn = c.conn /\ p.socket = "open" THEN CloseRefused(p)
    ELSE [p EXCEPT !.sync = FALSE]

SyncEnds(p) == [p EXCEPT !.sync = FALSE, !.status = "online"]

-----------------------------------------------------------------------------
(* Actions of the page. *)

Open(c) == c \in calls /\ page.conn = c.conn /\ page.socket = "open"
Answered(c) == c \in calls /\ c.read
Replace(c, new) == calls' = (calls \ {c}) \cup new
Becomes(p) == page' = p /\ feed' = IF p.socket = "open" THEN feed ELSE <<>>
Spend(what) == spent' = [spent EXCEPT ![what] = @ + 1]

Opened ==
    LET p == [page EXCEPT !.socket = "open", !.sync = TRUE, !.activity = 0] IN
    /\ page.socket = "connecting" /\ server.session
    /\ Becomes(p) /\ calls' = calls \cup {Sync(p, 1)}
    /\ UNCHANGED <<server, spent, behind>>

\* onclose; a connection the server revoked is closed with 1008.
Closed(p, code) ==
    [p EXCEPT !.socket = "none", !.sync = FALSE, !.status = "offline", !.stuck = FALSE,
              !.user = @ /\ code # 1008, !.timer = p.user /\ code # 1008]

Revoked == page.socket = "open" /\ server.revoked = page.conn

Disconnected ==
    /\ page.socket # "none"
    /\ Becomes(Closed(page, IF Revoked THEN 1008 ELSE 1006))
    /\ IF Revoked \/ (page.socket = "connecting" /\ ~server.session) THEN UNCHANGED spent
       ELSE spent.upsets < MaxUpsets /\ Spend("upsets")
    /\ UNCHANGED <<server, calls, behind>>

ReconnectDue ==
    /\ page.timer /\ page.conn < MaxConnections
    /\ Becomes(ConnectSocket(page))
    /\ UNCHANGED <<server, calls, spent, behind>>

\* Another round of synchronizeSocket, or the end of its rounds.
Again(c) ==
    IF c.attempt = Attempts THEN Becomes(CloseRefused(page)) /\ Replace(c, {})
    ELSE UNCHANGED <<page, feed>> /\ Replace(c, {Sync(page, c.attempt + 1)})

SyncAccount(c) ==
    /\ Answered(c) /\ c.kind = "sync" /\ c.at = "account"
    /\ IF ~Open(c) THEN UNCHANGED <<page, feed, behind>> /\ Replace(c, {})
       ELSE IF ~SameActivity(page, c) THEN Again(c) /\ UNCHANGED behind
       ELSE LET p == TakeGuilds(page, c.joined) IN
            IF p.active = NoGuild
            THEN /\ Becomes(SyncEnds(ClearGuildState(p))) /\ behind' = (behind /\ ~page.sync)
                 /\ calls' = Overtaken(calls \ {c})
            ELSE /\ Becomes([p EXCEPT !.version = @ + 1]) /\ UNCHANGED behind
                 /\ calls' = Overtaken(calls \ {c}) \cup
                      {[c EXCEPT !.at = "guild", !.read = FALSE, !.joined = {}, !.guild = p.active, !.version = page.version + 1]}
    /\ UNCHANGED <<server, spent>>

SyncGuild(c) ==
    /\ Answered(c) /\ c.kind = "sync" /\ c.at = "guild"
    /\ IF ~Open(c) THEN UNCHANGED <<page, feed, behind>> /\ Replace(c, {})
       ELSE IF ~SameActivity(page, c) \/ ~StillWanted(page, c) THEN Again(c) /\ UNCHANGED behind
       ELSE LET p == ApplyBootstrap(page, c) IN
            \/ /\ Becomes(p) /\ UNCHANGED behind
               /\ Replace(c, {[c EXCEPT !.at = "messages", !.read = FALSE, !.data = Nothing]})
            \/ \* a guild without a text channel
               Becomes(SyncEnds(p)) /\ Replace(c, {}) /\ behind' = (behind /\ ~page.sync)
    /\ UNCHANGED <<server, spent>>

SyncMessages(c) ==
    /\ Answered(c) /\ c.kind = "sync" /\ c.at = "messages"
    /\ IF ~Open(c) THEN UNCHANGED <<page, feed, behind>> /\ Replace(c, {})
       ELSE IF ~SameActivity(page, c) \/ ~StillWanted(page, c) THEN Again(c) /\ UNCHANGED behind
       ELSE Becomes(SyncEnds(page)) /\ Replace(c, {}) /\ behind' = (behind /\ ~page.sync)
    /\ UNCHANGED <<server, spent>>

OfGuild(c) == c.at \in {"guild", "messages"}

\* The server refuses: no session, or no member of the guild.
Refused(c) == ~server.session \/ (OfGuild(c) /\ c.guild \notin server.joined)

\* Who is no member is told 404, who is banned or a platform's admin 403.
Statuses(c) == IF ~server.session THEN {401} ELSE IF Refused(c) THEN {403, 404} ELSE {500}

\* A request of a synchronization fails; a guild that is no longer wanted is
\* tried again, any other failure ends the synchronization - of whichever
\* connection is synchronizing by then.
SyncRequestFails(c) ==
    /\ c \in calls /\ c.kind = "sync"
    /\ IF Refused(c) THEN UNCHANGED spent ELSE spent.upsets < MaxUpsets /\ Spend("upsets")
    /\ IF c.at = "guild" /\ ~Open(c) THEN UNCHANGED <<page, feed>> /\ Replace(c, {})
       ELSE IF c.at = "guild" /\ (~SameActivity(page, c) \/ ~StillWanted(page, c)) THEN Again(c)
       ELSE (\E status \in Statuses(c) : Becomes(SyncFails(page, c, status))) /\ Replace(c, {})
    /\ behind' = (behind \/ (page.sync /\ ~page'.sync))
    /\ UNCHANGED server

\* bootstrap after the account's answer.
BootAccount(c) ==
    /\ Answered(c) /\ c.kind = "boot"
    /\ LET p == TakeGuilds(page, c.joined) IN
       IF p.active = NoGuild
       THEN /\ Becomes(LET q == ClearGuildState(p) IN IF q.socket = "none" THEN ConnectSocket(q) ELSE q)
            /\ Replace(c, {})
       ELSE LET q == LoadGuild(p, p.active) IN
            Becomes(q) /\ Replace(c, {[Load(q, q.active) EXCEPT !.kind = "bootload"]})
    /\ behind' = (behind \/ c.late)
    /\ UNCHANGED <<server, spent>>

GuildLoaded(c) ==
    /\ Answered(c) /\ c.kind \in {"load", "bootload"}
    /\ LET p == IF StillWanted(page, c) THEN ApplyBootstrap(page, c) ELSE page IN
       Becomes(IF c.kind = "bootload" /\ p.socket = "none" THEN ConnectSocket(p) ELSE p)
    /\ Replace(c, {})
    /\ behind' = (behind \/ (StillWanted(page, c) /\ c.late))
    /\ UNCHANGED <<server, spent>>

LoadFails(c) ==
    /\ c \in calls /\ c.kind \notin {"sync", "logout"}
    /\ IF Refused(c) THEN UNCHANGED spent ELSE spent.upsets < MaxUpsets /\ Spend("upsets")
    /\ Replace(c, {}) /\ behind' = TRUE
    /\ UNCHANGED <<page, server, feed>>

-----------------------------------------------------------------------------
(* Events of the WebSocket. *)

HandledPage(p, e) ==
    IF e.kind = "revoked" THEN [StopSocket(p) EXCEPT !.user = FALSE]
    ELSE IF e.kind = "removed"
         THEN [p EXCEPT !.guilds = @ \ {e.guild}, !.active = IF @ = e.guild THEN NoGuild ELSE @]
    ELSE IF e.kind = "changed" /\ p.active = e.guild /\ p.shown.guild = e.guild
         THEN [p EXCEPT !.shown.rev = e.rev]
    ELSE p

StartsBootstrap(p, e) == e.kind = "added" \/ (e.kind = "removed" /\ p.active = e.guild)

\* While the connection synchronizes, an event only counts as activity.
Received(p, e) == IF p.sync THEN [p EXCEPT !.activity = @ + 1] ELSE HandledPage(p, e)

OnMessage ==
    /\ page.socket = "open" /\ feed # <<>>
    /\ LET e == Head(feed)
           p == Received(page, e) IN
       /\ page' = p /\ feed' = IF p.socket = "open" THEN Tail(feed) ELSE <<>>
       /\ calls' = Overtaken(calls) \cup IF ~page.sync /\ StartsBootstrap(page, e) THEN {Boot} ELSE {}
    /\ UNCHANGED <<server, spent, behind>>

-----------------------------------------------------------------------------
(* What the user does. *)

Acts == spent.acts < MaxActs /\ Spend("acts")

SelectGuild(g) ==
    LET p == LoadGuild(ClearGuildState(page), g) IN
    /\ page.user /\ g \in page.guilds /\ g # page.active /\ Acts
    /\ Becomes(p) /\ calls' = calls \cup {Load(p, g)}
    /\ UNCHANGED <<server, behind>>

Login ==
    /\ ~page.user /\ Acts
    /\ server' = [server EXCEPT !.session = TRUE]
    /\ Becomes([page EXCEPT !.user = TRUE]) /\ calls' = calls \cup {Boot}
    /\ UNCHANGED behind

Logout ==
    /\ page.user /\ Acts /\ \A c \in calls : c.kind # "logout"
    /\ calls' = calls \cup {Call("logout", "session")}
    /\ UNCHANGED <<page, server, feed, behind>>

\* handleLogout ends the session and tells no connection of it.
SessionDeleted(c) ==
    /\ c \in calls /\ c.kind = "logout" /\ ~c.read /\ server.session
    /\ server' = [server EXCEPT !.session = FALSE]
    /\ Replace(c, {[c EXCEPT !.read = TRUE]})
    /\ UNCHANGED <<page, feed, spent, behind>>

\* Whether the request succeeded or not, the page forgets the account.
LoggedOut(c) ==
    /\ c \in calls /\ c.kind = "logout"
    /\ IF c.read \/ ~server.session THEN UNCHANGED spent ELSE spent.upsets < MaxUpsets /\ Spend("upsets")
    /\ Becomes(ClearGuildState([StopSocket(page) EXCEPT !.user = FALSE, !.guilds = {}, !.active = NoGuild]))
    /\ Replace(c, {})
    /\ UNCHANGED <<server, behind>>

\* closeSocketForPageExit and reconnectSocketAfterRestore.
PageHidden ==
    /\ page.socket # "none" /\ Acts
    /\ Becomes(StopSocket(page))
    /\ UNCHANGED <<server, calls, behind>>

PageShown ==
    /\ page.user /\ page.socket = "none" /\ page.conn < MaxConnections
    /\ Becomes(ConnectSocket(page))
    /\ UNCHANGED <<server, calls, spent, behind>>

-----------------------------------------------------------------------------
(* The server: it reads what a request asks for and answers later. *)

Read(c) ==
    /\ c \in calls /\ ~c.read /\ ~Refused(c) /\ c.kind # "logout"
    /\ Replace(c, {[c EXCEPT !.read = TRUE,
                             !.joined = IF c.at = "account" THEN server.joined ELSE @,
                             !.data = IF c.at = "guild" THEN [guild |-> c.guild, rev |-> server.rev[c.guild]] ELSE @]})
    /\ UNCHANGED <<page, server, feed, spent, behind>>

Sends(e) == feed' = IF page.socket = "open" /\ ~Revoked THEN Append(feed, e) ELSE feed
Event(kind, g, rev) == [kind |-> kind, guild |-> g, rev |-> rev]

Changes == spent.changes < MaxChanges /\ Spend("changes")

GuildChanges(g) ==
    /\ g \in server.joined /\ server.session /\ Changes
    /\ server' = [server EXCEPT !.rev[g] = @ + 1]
    /\ Sends(Event("changed", g, server.rev[g] + 1))
    /\ UNCHANGED <<page, calls, behind>>

Joins(g) ==
    /\ g \notin server.joined /\ server.session /\ Changes
    /\ server' = [server EXCEPT !.joined = @ \cup {g}]
    /\ Sends(Event("added", g, 0))
    /\ UNCHANGED <<page, calls, behind>>

Leaves(g) ==
    /\ g \in server.joined /\ server.session /\ Changes
    /\ server' = [server EXCEPT !.joined = @ \ {g}]
    /\ Sends(Event("removed", g, 0))
    /\ UNCHANGED <<page, calls, behind>>

SessionEnds ==
    /\ server.session /\ Changes
    /\ server' = [server EXCEPT !.session = FALSE, !.revoked = IF page.socket = "open" THEN page.conn ELSE @]
    /\ Sends(Event("revoked", NoGuild, 0))
    /\ UNCHANGED <<page, calls, behind>>

-----------------------------------------------------------------------------
Answer(c) ==
    \/ Read(c) \/ SyncAccount(c) \/ SyncGuild(c) \/ SyncMessages(c)
    \/ BootAccount(c) \/ GuildLoaded(c) \/ SyncRequestFails(c) \/ LoadFails(c)
    \/ SessionDeleted(c) \/ LoggedOut(c)

Next ==
    \/ Opened \/ Disconnected \/ ReconnectDue \/ OnMessage
    \/ \E c \in calls : Answer(c)
    \/ \E g \in Guilds : SelectGuild(g) \/ GuildChanges(g) \/ Joins(g) \/ Leaves(g)
    \/ Login \/ Logout \/ PageHidden \/ PageShown
    \/ SessionEnds

Spec == Init /\ [][Next]_syncVars

\* Answers and events arrive, a connection opens or is refused, a timer fires.
Fairness ==
    /\ WF_syncVars(\E c \in calls : Answer(c)) /\ WF_syncVars(OnMessage)
    /\ WF_syncVars(Opened) /\ WF_syncVars(ReconnectDue)

FairSpec == Spec /\ Fairness

-----------------------------------------------------------------------------
\* An online page with nothing under way shows its active guild as the server
\* has it and lists the guilds the account belongs to: no answer for a guild
\* left since, no answer older than an event already handled
\* (app-socket.ts:80-106, app.ts:103).
ShownAgrees ==
    page.status = "online" /\ page.user /\ calls = {} /\ feed = <<>> /\ ~behind =>
        /\ page.guilds = server.joined
        /\ page.shown.guild = page.active
        /\ page.active # NoGuild => page.active \in server.joined /\ page.shown.rev = server.rev[page.active]

\* A page that was connected comes online again while its session is valid,
\* unless the user hid it or its synchronization ended in a close the browser
\* refuses (app-socket.ts:62-111).
WasConnected == page.user /\ server.session /\ page.conn > 0
IsOnlineAgain ==
    \/ page.status = "online" \/ ~page.user \/ ~server.session \/ page.stuck
    \/ page.conn = MaxConnections \/ spent.acts > 0
ComesOnline == WasConnected ~> IsOnlineAgain

\* A connection lost while the session is valid is tried again until the page
\* is online, whatever went wrong (architecture.md:38).
LostIsRetried ==
    (page.user /\ server.session /\ page.socket = "open") ~>
        (page.status = "online" \/ ~page.user \/ ~server.session \/ page.socket = "none")
=============================================================================
