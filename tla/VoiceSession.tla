----------------------------- MODULE VoiceSession -----------------------------
(***************************************************************************)
(* The voice channel connection of one browser: join, leave and the LiveKit *)
(* handlers of web/src/stores/voice-session.ts, the panel and the watchers  *)
(* of AppShell.vue that call them.                                          *)
(*                                                                         *)
(* join and leave are async functions that overlap: each one under way is a *)
(* record with the place it waits at.  The store's fields are one record;   *)
(* what runs between two awaits is a function of it.  What the other stores *)
(* do meanwhile is only that they answer or fail (their own machines are    *)
(* MuteDeafen, MicrophonePublish and VoiceDevices).  An operator named      *)
(* X_Fault is X with a plausible mistake in it, unused.                     *)
(***************************************************************************)
EXTENDS Naturals, FiniteSets

CONSTANTS
    Channels,    \* voice channels of the guild
    MaxJoins,    \* bound: joins begun
    MaxLeaves,   \* bound: leaves begun
    MaxFaults    \* bound: failures, drops, reconnects, removals

VoiceSessionAssumption ==
    MaxJoins \in Nat /\ MaxLeaves \in Nat /\ MaxFaults \in Nat /\ 0 \notin Channels

VARIABLES
    store,    \* the fields of the store
    joins,    \* joins under way
    leaves,   \* leaves under way
    removal,  \* a moderator's removal: its event and LiveKit's drop under way
    used,     \* bounds: joins, leaves and upsets so far
    raced     \* history: one of the overlaps the code does not survive

vsVars == <<store, joins, leaves, removal, used, raced>>

Nothing == 0

Removing == removal.state # "no"

SessionStatuses == {"idle", "connecting", "connected", "reconnecting", "error"}

SessionInit ==
    /\ store = [status |-> "idle", channel |-> Nothing, room |-> Nothing, session |-> 0,
                rooms |-> {}, contexts |-> {}, held |-> Nothing,
                ended |-> Nothing, listed |-> Nothing]
    /\ joins = {} /\ leaves = {}
    /\ removal = [state |-> "no"]
    /\ used = [joins |-> 0, leaves |-> 0, upsets |-> 0]
    /\ raced = FALSE

Connections == [id : Nat, channel : Channels, up : BOOLEAN]

Stores ==
    [status : SessionStatuses, channel : Channels \cup {Nothing}, room : Nat, session : Nat,
     rooms : SUBSET Connections, contexts : SUBSET Nat, held : Nat,
     ended : Channels \cup {Nothing}, listed : Nat]

JoinCalls ==
    [id : 1..MaxJoins, channel : Channels, session : Nat,
     at : {"leaving", "token", "connect", "preferences", "refresh", "failed"}]

Leaves ==
    [id : 1..(MaxLeaves + MaxJoins), target : Nat, was : BOOLEAN, notify : BOOLEAN,
     join : 0..MaxJoins, at : {"audio", "contexts", "post"}]

Removals ==
    [state : {"no"}] \cup
    [state : {"clean", "past"}, channel : Channels, event : BOOLEAN, drop : BOOLEAN,
     room : Nat, told : Nat]

\* store.rooms are the rooms not disconnected, store.listed is the room whose
\* participants are shown, store.ended the channel of the session that ended
\* last, while a moderator's removal may still be about it.
SessionTypeOK ==
    /\ store \in Stores /\ joins \subseteq JoinCalls /\ leaves \subseteq Leaves
    /\ removal \in Removals
    /\ used \in [joins : 0..MaxJoins, leaves : 0..MaxLeaves, upsets : 0..MaxFaults]
    /\ raced \in BOOLEAN

-----------------------------------------------------------------------------
(* What runs between two awaits. *)

Upset == used.upsets < MaxFaults /\ used' = [used EXCEPT !.upsets = @ + 1]

DestroyContexts(s) == [s EXCEPT !.contexts = @ \ {s.held}, !.held = Nothing]

\* clearConnectedChannelSummary
Cleared(s, status) == [s EXCEPT !.channel = Nothing, !.status = status]

RememberEnded(s) == [s EXCEPT !.ended = IF s.channel = Nothing THEN @ ELSE s.channel]

Disconnected(s, room) == [s EXCEPT !.rooms = {r \in @ : r.id # room}]

\* join from the end of its leave to the request of the token.
Begins(s, j) ==
    [DestroyContexts(s) EXCEPT !.session = @ + 1, !.ended = Nothing, !.status = "connecting",
                               !.channel = j.channel]

Goes(j, at) == joins' = (joins \ {j}) \cup {[j EXCEPT !.at = at]}
Returns(j) == joins' = joins \ {j}

\* syncParticipants shows who is in the room that is held.
Synced(s) == IF s.room = Nothing THEN s ELSE [s EXCEPT !.listed = s.room]

-----------------------------------------------------------------------------
(* join *)

StartLeave(join, notify) ==
    leaves' = leaves \cup {[id |-> used.leaves + used.joins + 1, target |-> store.room, was |-> FALSE,
                            notify |-> notify, join |-> join, at |-> "audio"]}

\* VoiceChannel's row is disabled while connecting.  A second join while one
\* still waits for its leave, or while a leave is finishing, is not refused.
Join(channel) ==
    /\ used.joins < MaxJoins
    /\ store.status # "connecting" /\ ~(store.room # Nothing /\ store.channel = channel)
    /\ LET j == [id |-> used.joins + 1, channel |-> channel, session |-> store.session + 1,
                 at |-> "token"] IN
       IF store.room = Nothing
       THEN store' = Begins(store, j) /\ joins' = joins \cup {j} /\ UNCHANGED leaves
       ELSE /\ joins' = joins \cup {[j EXCEPT !.at = "leaving"]}
            /\ StartLeave(j.id, TRUE)
            /\ store' = RememberEnded(store)
    /\ used' = [used EXCEPT !.joins = @ + 1]
    /\ raced' = (raced \/ \E l \in leaves : l.at # "post")
    /\ removal' = [removal EXCEPT !.state = IF @ = "clean" THEN "past" ELSE @]

NewRoom(j) ==
    [store EXCEPT !.room = j.id, !.rooms = @ \cup {[id |-> j.id, channel |-> j.channel, up |-> FALSE]},
                  !.held = j.id, !.contexts = @ \cup {j.id}]

JoinTokenAnswered(j) ==
    /\ j.at = "token"
    /\ IF j.session # store.session THEN Returns(j) /\ UNCHANGED <<store, raced>>
       ELSE /\ Goes(j, "connect")
            /\ store' = NewRoom(j)
            /\ raced' = (raced \/ leaves # {})
    /\ UNCHANGED <<leaves, removal, used>>

Current(j) == j.session = store.session /\ store.room = j.id

RoomConnected(j) ==
    /\ j.at = "connect" /\ \E r \in store.rooms : r.id = j.id
    /\ LET s == [store EXCEPT !.rooms = {IF r.id = j.id THEN [r EXCEPT !.up = TRUE] ELSE r : r \in @}] IN
        store' = IF Current(j) THEN Synced(s) ELSE s
    /\ IF Current(j) THEN Goes(j, "preferences") ELSE Returns(j)
    /\ UNCHANGED <<leaves, removal, used, raced>>

\* refreshDevices and applyConnectionPreferences.
PreferencesApplied(j) ==
    /\ j.at = "preferences"
    /\ IF Current(j)
       THEN store' = [store EXCEPT !.status = "connected"] /\ Goes(j, "refresh")
       ELSE Returns(j) /\ UNCHANGED store
    /\ UNCHANGED <<leaves, removal, used, raced>>

\* The last refresh of the devices is not followed by a check of the session.
Refreshed(j) ==
    /\ j.at = "refresh"
    /\ store' = Synced(store) /\ Returns(j)
    /\ UNCHANGED <<leaves, removal, used, raced>>

\* The catch of join.  A room that is disconnected fails to connect.
AttemptFails(j) ==
    /\ j.at \in {"token", "connect", "preferences"}
    /\ IF j.at = "connect" /\ \A r \in store.rooms : r.id # j.id THEN UNCHANGED used ELSE Upset
    /\ IF j.session # store.session THEN Returns(j) /\ UNCHANGED store
       ELSE /\ store' = DestroyContexts(Disconnected([store EXCEPT !.room = Nothing], store.room))
            /\ Goes(j, "failed")
    /\ UNCHANGED <<leaves, removal, raced>>

JoinFailed_KeepsStatus(j) ==
    /\ j.at = "failed"
    /\ store' = Cleared(store, store.status) /\ Returns(j)
    /\ raced' = (raced \/ j.session # store.session)
    /\ UNCHANGED <<leaves, removal, used>>

\* Its contexts closed: nothing is checked again.
JoinFailed(j) ==
    /\ j.at = "failed"
    /\ store' = Cleared(store, "error") /\ Returns(j)
    /\ raced' = (raced \/ j.session # store.session)
    /\ UNCHANGED <<leaves, removal, used>>

-----------------------------------------------------------------------------
(* leave *)

\* The user's button and the watchers of AppShell need a connection; the watcher
\* of the memberships does not tell the guild.
Leave(notify) ==
    /\ used.leaves < MaxLeaves /\ store.status \in {"connecting", "connected", "reconnecting"}
    /\ StartLeave(0, notify)
    /\ store' = RememberEnded(store)
    /\ used' = [used EXCEPT !.leaves = @ + 1]
    /\ removal' = [removal EXCEPT !.state = IF @ = "clean" THEN "past" ELSE @]
    /\ UNCHANGED <<joins, raced>>

Waits(l, at) == leaves' = (leaves \ {l}) \cup {[l EXCEPT !.at = at]}

\* The application's audio is stopped: the room is given up if it is still the
\* one the leave began with.
AudioStopped(l) ==
    /\ l.at = "audio"
    /\ LET was == l.target # Nothing /\ store.room = l.target
           s == [store EXCEPT !.session = @ + 1] IN
        /\ store' = DestroyContexts(IF was THEN Disconnected([s EXCEPT !.room = Nothing], l.target) ELSE s)
        /\ leaves' = (leaves \ {l}) \cup {[l EXCEPT !.at = "contexts", !.was = was]}
    /\ UNCHANGED <<joins, removal, used, raced>>

\* Who waited for this leave goes on with its join.
LeaveEnds(s, l, ok) ==
    LET waiting == {j \in joins : j.id = l.join} IN
    IF ~ok \/ waiting = {} THEN store' = s /\ joins' = joins \ waiting /\ UNCHANGED raced
    ELSE LET j == CHOOSE x \in waiting : TRUE IN
         /\ store' = Begins(s, j)
         /\ joins' = (joins \ {j}) \cup {[j EXCEPT !.at = "token", !.session = s.session + 1]}
         /\ raced' = (raced \/ s.room # Nothing \/ \E o \in leaves \ {l} : o.at # "post")

ContextsClosed_KeepsSummary(l) ==
    /\ l.at = "contexts"
    /\ LET s == [store EXCEPT !.status = "idle", !.listed = Nothing] IN
        IF l.was /\ l.notify THEN Waits(l, "post") /\ store' = s /\ UNCHANGED <<joins, raced>>
        ELSE leaves' = leaves \ {l} /\ LeaveEnds(s, l, TRUE)
    /\ UNCHANGED <<removal, used>>

ContextsClosed(l) ==
    /\ l.at = "contexts"
    /\ LET s == [Cleared(store, "idle") EXCEPT !.listed = Nothing] IN
        IF l.was /\ l.notify THEN Waits(l, "post") /\ store' = s /\ UNCHANGED <<joins, raced>>
        ELSE leaves' = leaves \ {l} /\ LeaveEnds(s, l, TRUE)
    /\ UNCHANGED <<removal, used>>

LeavePosted(l, ok) ==
    /\ l.at = "post"
    /\ IF ok THEN UNCHANGED used ELSE Upset
    /\ leaves' = leaves \ {l}
    /\ LeaveEnds(store, l, ok)
    /\ UNCHANGED removal

-----------------------------------------------------------------------------
(* LiveKit's events, bound to the room they are of. *)

Dropped(s, r) ==
    IF s.room # r.id THEN Disconnected(s, r.id)
    ELSE DestroyContexts(Cleared([RememberEnded(Disconnected(s, r.id)) EXCEPT
            !.session = @ + 1, !.room = Nothing, !.listed = Nothing], "idle"))

RoomDrops(r) ==
    /\ r.up /\ Upset
    /\ store' = Dropped(store, r)
    /\ UNCHANGED <<joins, leaves, removal, raced>>

\* The handler does not ask whether the room is still the one that is held.
RoomReconnects(r) ==
    /\ r.up /\ Upset
    /\ store' = [store EXCEPT !.status = "reconnecting"]
    /\ raced' = (raced \/ store.room # r.id)
    /\ UNCHANGED <<joins, leaves, removal>>

Reconnected(r) ==
    /\ r.up /\ store.status = "reconnecting"
    /\ store' = IF store.room = r.id THEN Synced([store EXCEPT !.status = "connected"]) ELSE store
    /\ UNCHANGED <<joins, leaves, removal, used, raced>>

\* Who is in the room, their tracks and what they say changes.
ParticipantsChange(r) ==
    /\ r.up
    /\ store' = IF store.room = r.id THEN Synced(store) ELSE store
    /\ UNCHANGED <<joins, leaves, removal, used, raced>>

\* A moderator removes this user: the server sends an event and has LiveKit
\* drop the connection.
ModeratorRemoves(r) ==
    /\ r.up /\ removal.state = "no" /\ Upset
    /\ removal' = [state |-> IF Current([session |-> store.session, id |-> r.id])
                                /\ leaves = {} /\ joins = {} THEN "clean" ELSE "past",
                   channel |-> r.channel, event |-> TRUE, drop |-> TRUE, room |-> r.id, told |-> 0]
    /\ UNCHANGED <<store, joins, leaves, raced>>

RemovalDrops ==
    /\ Removing /\ removal.drop
    /\ removal' = [removal EXCEPT !.drop = FALSE]
    /\ store' = LET mine == {r \in store.rooms : r.id = removal.room} IN
                IF mine = {} THEN store ELSE Dropped(store, CHOOSE r \in mine : TRUE)
    /\ UNCHANGED <<joins, leaves, used, raced>>

\* handleModeratorDisconnect
Matches(s, channel) == channel \in {s.channel, s.ended}

RemovalTold ==
    /\ Removing /\ removal.event
    /\ removal' = [removal EXCEPT !.event = FALSE,
                                  !.told = @ + IF Matches(store, removal.channel) THEN 1 ELSE 0]
    /\ store' = IF Matches(store, removal.channel) THEN [store EXCEPT !.ended = Nothing] ELSE store
    /\ UNCHANGED <<joins, leaves, used, raced>>

\* The five seconds in which a removal may be about the session that ended.
EndedForgotten ==
    /\ store.ended # Nothing /\ store.room = Nothing
    /\ store' = [store EXCEPT !.ended = Nothing]
    /\ removal' = [removal EXCEPT !.state = IF @ = "clean" THEN "past" ELSE @]
    /\ UNCHANGED <<joins, leaves, used, raced>>

-----------------------------------------------------------------------------
Answers ==
    \/ \E j \in joins : JoinTokenAnswered(j) \/ RoomConnected(j) \/ PreferencesApplied(j)
                        \/ Refreshed(j) \/ AttemptFails(j) \/ JoinFailed(j)
    \/ \E l \in leaves : AudioStopped(l) \/ ContextsClosed(l) \/ \E ok \in BOOLEAN : LeavePosted(l, ok)

LiveKit ==
    \/ \E r \in store.rooms : RoomDrops(r) \/ RoomReconnects(r) \/ Reconnected(r)
                               \/ ParticipantsChange(r) \/ ModeratorRemoves(r)
    \/ RemovalDrops \/ RemovalTold \/ EndedForgotten

UserActs == (\E c \in Channels : Join(c)) \/ (\E notify \in BOOLEAN : Leave(notify))

SessionNext == Answers \/ LiveKit \/ UserActs

SessionSpec == SessionInit /\ [][SessionNext]_vsVars

\* Requests and LiveKit answer or fail; the user and LiveKit need do no more.
SessionFairSpec == SessionSpec /\ WF_vsVars(Answers)

-----------------------------------------------------------------------------
(* Properties. *)

AtRest == joins = {} /\ leaves = {}

\* No way through the overlapping joins, leaves, failures and drops leaves a
\* LiveKit connection or an audio context open that the store does not hold,
\* but for the overlaps that "raced" records.
NothingLeftOpen ==
    ~raced => /\ \A r \in store.rooms : r.id = store.room
              /\ store.contexts = IF store.held = Nothing THEN {} ELSE {store.held}
              /\ store.held = store.room

\* With no join or leave under way the panel and the connection agree: a room
\* in the channel shown, with its participants, or none of them.
PanelAgrees ==
    (AtRest /\ ~raced) =>
        IF store.status \in {"connected", "reconnecting"}
        THEN /\ store.listed = store.room
             /\ \E r \in store.rooms : r.id = store.room /\ r.up /\ r.channel = store.channel
        ELSE store.room = Nothing /\ store.channel = Nothing

\* A moderator's removal is told once when the user has done nothing since,
\* whichever of the event and the lost connection comes first.
RemovalToldOnce ==
    Removing =>
        /\ removal.told <= 1
        /\ (removal.state = "clean" /\ ~removal.event /\ ~raced) => removal.told = 1

\* Panel, connection and audio contexts agree, and a removal is told once.
SessionAgrees == SessionTypeOK /\ NothingLeftOpen /\ PanelAgrees /\ RemovalToldOnce

\* A connection attempt does not last for ever: it ends connected, failed, or
\* given up.
Connecting == store.status = "connecting"
AttemptsEnd == Connecting ~> ~Connecting

=============================================================================
