----------------------------- MODULE VoiceRooms ------------------------------
(***************************************************************************)
(* Who is in which voice channel: the channel half of                      *)
(* internal/media/livekit.go, with the reconciler of                       *)
(* internal/httpapi/reconcile.go and the handlers that delete channels and *)
(* remove participants.                                                    *)
(*                                                                         *)
(* Every token has a generation of its own.  The target of an account is   *)
(* the channel and generation of its latest token; the rooms are what the  *)
(* server believes, the connections what LiveKit has.  Functions are cut   *)
(* where they release s.mu; LiveKit is external.                           *)
(*                                                                         *)
(* An operator named X_Fault is X with a plausible mistake in it, unused.  *)
(***************************************************************************)
EXTENDS Naturals, FiniteSets

CONSTANTS
    Users,
    Channels,   \* the voice channels that may ever exist
    GuildOf,    \* the guild of a channel
    None,       \* no channel (id 0), or no guild
    MaxGen,     \* bound: tokens ever issued
    MaxIncidents, \* bound: incidents, the steps that are not an account's own moves
    Scope         \* the incidents an instance has, a subset of:
                  \*   "moderate"   participants are removed by handlers
                  \*   "delete"     channels are deleted
                  \*   "reconnect"  a client connects again with the same token
                  \*   "expire"     tokens outlive their TTL
                  \*   "lose"       webhooks and removals are lost
                  \*   "fail"       signing fails, the reconciler's requests fail
                  \*   "restart"    the server process is restarted

ASSUME VoiceAssumption ==
    /\ None \notin Channels
    /\ DOMAIN GuildOf = Channels /\ \A ch \in Channels : GuildOf[ch] # None
    /\ MaxGen \in Nat /\ MaxIncidents \in Nat
    /\ Scope \subseteq {"moderate", "delete", "reconnect", "expire", "lose", "fail", "restart"}

Guilds == {GuildOf[ch] : ch \in Channels}

\* Who is in a room, by the generation of the connection, 0 for nobody.
Occupancy == [Users -> 0..MaxGen]
Empty == [u \in Users |-> 0]
Vacant == [ch \in Channels |-> Empty]

\* A target without a channel refuses every token until its TTL has passed.
NoTarget == [channel |-> None, gen |-> 0]
Targets == [channel : Channels \cup {None}, gen : 1..MaxGen] \cup {NoTarget}

Tokens == [user : Users, channel : Channels, gen : 1..MaxGen]
Mints == [user : Users, channel : Channels, gen : 1..MaxGen, previous : Targets]
Hooks == [event : {"joined", "left"}, channel : Channels, user : Users, gen : 1..MaxGen]
         \cup [event : {"finished"}, channel : Channels, user : {None}, gen : {0}]
Kicks == [user : Users, channel : Channels]

\* A handler that has checked where u is, and is to remove u from there.
Removals == [user : Users, guild : Guilds]
Expulsions == [user : Users, channel : Channels, gen : 1..MaxGen, recorded : 1..MaxGen,
               sent : BOOLEAN]

Reconciliations == [at : {"idle", "reading", "pruning"}, revised : BOOLEAN, valid : SUBSET Channels,
                    targets : [Users -> Targets], unread : SUBSET Channels,
                    observed : [Channels -> Occupancy]]
Idle == [at |-> "idle", revised |-> FALSE, valid |-> {},
         targets |-> [u \in Users |-> NoTarget], unread |-> {}, observed |-> Vacant]

VARIABLES
    live,        \* store: the voice channels
    targets,     \* s.targets
    rooms,       \* s.rooms
    generation,  \* s.generation
    stale,       \* generations at or below it are past their TTL
    mints,       \* token requests that have released the lock
    removals,    \* RemoveParticipantFromGuild between its check and its removal
    expulsions,  \* RemoveParticipantFromChannel between its two critical sections
    reconcile,   \* the running reconciliation
    kicks,       \* RemoveParticipant requests on their way to LiveKit
    closing,     \* DeleteRoom requests on their way to LiveKit
    tokens,      \* tokens handed to clients
    conn,        \* LiveKit: conn[ch][u] is the generation u is connected with
    open,        \* LiveKit: the rooms that exist
    hooks,       \* LiveKit: webhooks on their way to the server
    incidents    \* history: how many incidents there were

pending == <<mints, removals, expulsions>>
livekit == <<conn, open, hooks>>
vars == <<live, targets, rooms, generation, stale, mints, removals, expulsions, reconcile,
          kicks, closing, tokens, conn, open, hooks, incidents>>

TypeOK ==
    /\ live \subseteq Channels
    /\ targets \in [Users -> Targets]
    /\ rooms \in [Channels -> Occupancy]
    /\ generation \in 0..MaxGen /\ stale \in 0..generation
    /\ mints \subseteq Mints
    /\ removals \subseteq Removals
    /\ expulsions \subseteq Expulsions
    /\ reconcile \in Reconciliations
    /\ kicks \subseteq Kicks /\ closing \subseteq Channels
    /\ tokens \subseteq Tokens
    /\ conn \in [Channels -> Occupancy]
    /\ open \subseteq Channels
    /\ hooks \subseteq Hooks
    /\ incidents \in 0..MaxIncidents

Init ==
    /\ live = Channels
    /\ targets = [u \in Users |-> NoTarget]
    /\ rooms = Vacant
    /\ generation = 0 /\ stale = 0
    /\ mints = {} /\ removals = {} /\ expulsions = {} /\ kicks = {} /\ closing = {}
    /\ reconcile = Idle
    /\ tokens = {} /\ conn = Vacant /\ open = {} /\ hooks = {}
    /\ incidents = 0

-----------------------------------------------------------------------------
Incident(kind) == kind \in Scope /\ incidents < MaxIncidents /\ incidents' = incidents + 1

\* s.revision++: the running Refresh will find its snapshot outdated, so that
\* what it has read does not matter any more.
Outdated_Ignored(r) == r
Outdated(r) == IF r.at = "reading"
                 THEN [Idle EXCEPT !.at = "reading", !.revised = TRUE, !.valid = r.valid] ELSE r
Revise == reconcile' = Outdated(reconcile)

Valid(t) == t.gen > stale

\* A target accepts newer generations, and its own in its room.
Accepts(t, ch, gen) ==
    /\ t.channel # None
    /\ gen >= t.gen
    /\ gen = t.gen => ch = t.channel

Kick(u, ch) == [user |-> u, channel |-> ch]

\* The target without its channel; one past its TTL is dropped.
Revoked_ForgetsToken(t) == [t EXCEPT !.gen = 0]
Revoked(t) == IF Valid(t) THEN [t EXCEPT !.channel = None] ELSE NoTarget

-----------------------------------------------------------------------------
(* Tokens *)

\* joinCredentials up to the unlock.  handleGuildVoiceToken has found the
\* channel in the store before; it may be gone by now.
JoinCredentials(u, ch) ==
    LET previous == targets[u]
    IN  /\ generation < MaxGen
        /\ ch \in live \/ "delete" \in Scope
        /\ generation' = generation + 1
        /\ targets' = [targets EXCEPT ![u] = [channel |-> ch, gen |-> generation']]
        /\ mints' = mints \cup {[user |-> u, channel |-> ch, gen |-> generation',
                                 previous |-> previous]}
        /\ kicks' = IF previous.channel \notin {None, ch}
                      THEN kicks \cup {Kick(u, previous.channel)} ELSE kicks
        /\ Revise
        /\ UNCHANGED <<live, rooms, stale, removals, expulsions, closing, tokens, livekit, incidents>>

\* The token is signed when the removal from the previous room has returned.
IssueToken(m) ==
    /\ Kick(m.user, m.previous.channel) \notin kicks
    /\ mints' = mints \ {m}
    /\ tokens' = tokens \cup {[user |-> m.user, channel |-> m.channel, gen |-> m.gen]}
    /\ UNCHANGED <<live, targets, rooms, generation, stale, removals, expulsions, reconcile,
                   kicks, closing, livekit, incidents>>

\* Signing failed: the previous target comes back, if the target is still ours.
TokenFails(m) ==
    /\ Incident("fail")
    /\ Kick(m.user, m.previous.channel) \notin kicks
    /\ mints' = mints \ {m}
    /\ IF targets[m.user].gen = m.gen
         THEN targets' = [targets EXCEPT ![m.user] =
                            IF m.previous.channel = None THEN NoTarget ELSE m.previous] /\ Revise
         ELSE UNCHANGED <<targets, reconcile>>
    /\ UNCHANGED <<live, rooms, generation, stale, removals, expulsions, kicks, closing,
                   tokens, livekit>>

\* Fifteen minutes pass: what was on its way has arrived.
Expire ==
    /\ Incident("expire")
    /\ mints = {} /\ removals = {} /\ expulsions = {} /\ kicks = {} /\ closing = {} /\ hooks = {}
    /\ stale # generation
    /\ stale' = generation
    /\ UNCHANGED <<live, targets, rooms, generation, pending, reconcile, kicks, closing,
                   tokens, livekit>>

-----------------------------------------------------------------------------
(* Removals *)

\* RemoveParticipant's critical section, and its requests to LiveKit.
RemoveParticipant(u) ==
    LET t == targets[u]
    IN  /\ rooms' = [ch \in Channels |-> [rooms[ch] EXCEPT ![u] = 0]]
        /\ targets' = [targets EXCEPT ![u] = Revoked(t)]
        /\ IF t.channel # None
             THEN kicks' = kicks \cup {Kick(u, t.channel)} /\ Revise
             ELSE UNCHANGED <<kicks, reconcile>>

\* An account is suspended, reset or deleted.
RemoveFromVoice(u) ==
    /\ Incident("moderate")
    /\ RemoveParticipant(u)
    /\ UNCHANGED <<live, generation, stale, pending, closing, tokens, livekit>>

\* currentTarget: the target's channel, or else a room the account is in that
\* some target names.
Located(u, ch) ==
    IF targets[u].channel # None
      THEN ch = targets[u].channel
      ELSE rooms[ch][u] # 0 /\ \E v \in Users : targets[v].channel = ch

\* The account leaves the channel, leaves the guild, or is removed from it:
\* RemoveParticipantFromGuild finds it in the guild under one lock ...
CheckGuild(u, ch) ==
    /\ Incident("moderate")
    /\ Located(u, ch)
    /\ removals' = removals \cup {[user |-> u, guild |-> GuildOf[ch]]}
    /\ UNCHANGED <<live, targets, rooms, generation, stale, mints, expulsions, reconcile,
                   kicks, closing, tokens, livekit>>

\* ... and removes it, from wherever it is by then, under the next.
RemoveFromGuild(r) ==
    /\ removals' = removals \ {r}
    /\ RemoveParticipant(r.user)
    /\ UNCHANGED <<live, generation, stale, mints, expulsions, closing, tokens, livekit, incidents>>

\* RemoveParticipantFromChannel checks under one lock, asks LiveKit without
\* it, and forgets the connection under another.
ExpelCheck(u, ch) ==
    /\ Incident("moderate")
    /\ targets[u].channel = ch /\ rooms[ch][u] # 0
    /\ expulsions' = expulsions \cup {[user |-> u, channel |-> ch, gen |-> targets[u].gen,
                                       recorded |-> rooms[ch][u], sent |-> FALSE]}
    /\ UNCHANGED <<live, targets, rooms, generation, stale, mints, removals, reconcile,
                   kicks, closing, tokens, livekit>>

\* LiveKit removes whoever has the identity; nobody is an error, which ends
\* the request.
ExpelSend(e) ==
    /\ ~e.sent
    /\ IF conn[e.channel][e.user] # 0
         THEN /\ expulsions' = (expulsions \ {e}) \cup {[e EXCEPT !.sent = TRUE]}
              /\ conn' = [conn EXCEPT ![e.channel][e.user] = 0]
              /\ hooks' = hooks \cup {[event |-> "left", channel |-> e.channel, user |-> e.user,
                                       gen |-> conn[e.channel][e.user]]}
         ELSE /\ expulsions' = expulsions \ {e}
              /\ UNCHANGED <<conn, hooks>>
    /\ UNCHANGED <<live, targets, rooms, generation, stale, mints, removals, reconcile,
                   kicks, closing, tokens, open, incidents>>

\* Only the connection that was checked is forgotten.
SameConnection(e) == targets[e.user].channel = e.channel /\ targets[e.user].gen = e.gen

ExpelForget(e) ==
    /\ e.sent
    /\ expulsions' = expulsions \ {e}
    /\ LET ours == SameConnection(e)
           recorded == rooms[e.channel][e.user] = e.recorded
       IN  /\ targets' = IF ours THEN [targets EXCEPT ![e.user] = Revoked(@)] ELSE targets
           /\ rooms' = IF recorded THEN [rooms EXCEPT ![e.channel][e.user] = 0] ELSE rooms
           /\ IF ours \/ recorded THEN Revise ELSE UNCHANGED reconcile
    /\ UNCHANGED <<live, generation, stale, mints, removals, kicks, closing, tokens, livekit, incidents>>

-----------------------------------------------------------------------------
(* Channels *)

\* DeleteGuildRoom: the room is forgotten and nobody may come back to it.
DeleteGuildRooms(chs) ==
    /\ rooms' = [ch \in Channels |-> IF ch \in chs THEN Empty ELSE rooms[ch]]
    /\ targets' = [u \in Users |-> IF targets[u].channel \in chs
                                     THEN [targets[u] EXCEPT !.channel = None] ELSE targets[u]]
    /\ closing' = closing \cup chs

\* The handler deletes the channel in the store, then its room.  A token
\* request that has found the channel before may still come.
DeleteChannel(ch) ==
    /\ Incident("delete")
    /\ ch \in live
    /\ live' = live \ {ch}
    /\ DeleteGuildRooms({ch})
    /\ Revise
    /\ UNCHANGED <<generation, stale, pending, kicks, tokens, livekit>>

-----------------------------------------------------------------------------
(* Webhooks *)

\* participant_joined: a valid target may refuse; otherwise the account is
\* recorded here, no longer in its target's room, and removed from there.
Joined(h) ==
    LET t == targets[h.user]
        elsewhere == t.channel \notin {None, h.channel}
        recorded == [rooms EXCEPT ![h.channel][h.user] = h.gen]
    IN  IF Valid(t) /\ ~Accepts(t, h.channel, h.gen)
          THEN /\ kicks' = kicks \cup {Kick(h.user, h.channel)}
               /\ UNCHANGED <<targets, rooms, reconcile>>
          ELSE /\ rooms' = IF elsewhere THEN [recorded EXCEPT ![t.channel][h.user] = 0] ELSE recorded
               /\ targets' = IF h.gen >= t.gen
                               THEN [targets EXCEPT ![h.user] = [channel |-> h.channel, gen |-> h.gen]]
                               ELSE targets
               /\ kicks' = IF elsewhere THEN kicks \cup {Kick(h.user, t.channel)} ELSE kicks
               /\ Revise

\* participant_left of another connection than the one recorded is ignored.
Matches(h) == rooms[h.channel][h.user] = h.gen

Left(h) ==
    /\ IF Matches(h)
         THEN rooms' = [rooms EXCEPT ![h.channel][h.user] = 0] /\ Revise
         ELSE UNCHANGED <<rooms, reconcile>>
    /\ UNCHANGED <<targets, kicks>>

Finished(h) ==
    /\ rooms' = [rooms EXCEPT ![h.channel] = Empty]
    /\ Revise
    /\ UNCHANGED <<targets, kicks>>

DeliverWebhook(h) ==
    /\ CASE h.event = "joined"   -> Joined(h)
         [] h.event = "left"     -> Left(h)
         [] h.event = "finished" -> Finished(h)
    /\ hooks' = hooks \ {h}
    /\ UNCHANGED <<live, generation, stale, pending, closing, tokens, conn, open, incidents>>

-----------------------------------------------------------------------------
(* Reconciliation: one runs at a time *)

\* ListChannels, then snapshotState and ListRooms.
ReconcileBegin ==
    /\ reconcile.at = "idle"
    /\ reconcile' = [at |-> "reading", revised |-> FALSE, valid |-> live, targets |-> targets,
                     unread |-> open, observed |-> Vacant]
    /\ UNCHANGED <<live, targets, rooms, generation, stale, pending, kicks, closing, tokens, livekit, incidents>>

\* ListParticipants of one room.
ReconcileRead(ch) ==
    /\ ch \in reconcile.unread
    /\ reconcile' = [reconcile EXCEPT !.unread = @ \ {ch}, !.observed[ch] = conn[ch]]
    /\ UNCHANGED <<live, targets, rooms, generation, stale, pending, kicks, closing, tokens, livekit, incidents>>

\* The places an account was observed at that its valid target accepts ...
Observed(u) == {ch \in Channels : reconcile.observed[ch][u] # 0}
Admissible_Any(u) == Observed(u)
Admissible(u) ==
    LET t == reconcile.targets[u]
    IN  {ch \in Observed(u) : Valid(t) => Accepts(t, ch, reconcile.observed[ch][u])}

\* ... and of these the one with the newest token.
Newest(u) == {ch \in Admissible(u) : \A d \in Admissible(u) :
                 reconcile.observed[d][u] <= reconcile.observed[ch][u]}

\* What Refresh found: who is recorded, the targets, and who has to go.
Recorded(ch, u) == IF ch \in Newest(u) THEN reconcile.observed[ch][u] ELSE 0

Retargeted(u) ==
    LET kept == IF Valid(reconcile.targets[u]) THEN reconcile.targets[u] ELSE NoTarget
        newer == {ch \in Newest(u) : reconcile.observed[ch][u] > kept.gen}
    IN  IF newer = {} THEN kept
        ELSE CHOOSE t \in Targets : \E ch \in newer :
                t = [channel |-> ch, gen |-> reconcile.observed[ch][u]]

Unwanted_OnlyOlder(u) == Admissible(u) \ Newest(u)
Unwanted(u) == Observed(u) \ Newest(u)

\* replaceSnapshot and the removals: all or nothing.
ReconcileApply ==
    /\ reconcile.at = "reading" /\ reconcile.unread = {}
    /\ reconcile' = [Idle EXCEPT !.at = "pruning", !.valid = reconcile.valid]
    /\ IF reconcile.revised
         THEN UNCHANGED <<targets, rooms, kicks>>
         ELSE /\ rooms' = [ch \in Channels |-> [u \in Users |-> Recorded(ch, u)]]
              /\ targets' = [u \in Users |-> Retargeted(u)]
              /\ kicks' = kicks \cup {k \in Kicks : k.channel \in Unwanted(k.user)}
    /\ UNCHANGED <<live, generation, stale, pending, closing, tokens, livekit, incidents>>

\* A request to LiveKit fails: nothing is changed, and nothing pruned.
ReconcileFail ==
    /\ Incident("fail")
    /\ reconcile.at = "reading"
    /\ reconcile' = Idle
    /\ UNCHANGED <<live, targets, rooms, generation, stale, pending, kicks, closing, tokens, livekit>>

\* DeleteRoomsExcept, with the channels listed at the beginning: rooms of
\* other channels, as long as some target tells their guild.
Orphans == {ch \in Channels \ reconcile.valid :
              rooms[ch] # Empty /\ \E u \in Users : targets[u].channel = ch}

ReconcilePrune ==
    /\ reconcile.at = "pruning"
    /\ reconcile' = Idle
    /\ DeleteGuildRooms(Orphans)
    /\ UNCHANGED <<live, generation, stale, pending, kicks, tokens, livekit, incidents>>

-----------------------------------------------------------------------------
(* LiveKit and the clients' connections to it: external *)

Hook(event, ch, u, gen) == [event |-> event, channel |-> ch, user |-> u, gen |-> gen]

\* A second connection of one identity to a room replaces the first.
Connect(t) ==
    LET old == conn[t.channel][t.user]
    IN  /\ t.gen > stale
        /\ old # t.gen
        /\ conn' = [conn EXCEPT ![t.channel][t.user] = t.gen]
        /\ open' = open \cup {t.channel}
        /\ hooks' = hooks \cup {Hook("joined", t.channel, t.user, t.gen)} \cup
                      (IF old = 0 THEN {} ELSE {Hook("left", t.channel, t.user, old)})
        /\ \/ tokens' = tokens \ {t} /\ UNCHANGED incidents
           \/ Incident("reconnect") /\ UNCHANGED tokens
        /\ UNCHANGED <<live, targets, rooms, generation, stale, pending, reconcile, kicks, closing>>

\* The connections of these users to the room end.
Drop(ch, us) ==
    /\ conn' = [conn EXCEPT ![ch] = [u \in Users |-> IF u \in us THEN 0 ELSE @[u]]]
    /\ hooks' = hooks \cup {Hook("left", ch, u, conn[ch][u]) : u \in {v \in us : conn[ch][v] # 0}}

Disconnect(ch, u) ==
    /\ conn[ch][u] # 0
    /\ Drop(ch, {u})
    /\ UNCHANGED <<live, targets, rooms, generation, stale, pending, reconcile, kicks, closing,
                   tokens, open, incidents>>

KickArrives(k) ==
    /\ kicks' = kicks \ {k}
    /\ Drop(k.channel, {k.user})
    /\ UNCHANGED <<live, targets, rooms, generation, stale, pending, reconcile, closing, tokens, open, incidents>>

CloseRoom(ch) ==
    /\ ch \in open
    /\ conn[ch] = Empty
    /\ open' = open \ {ch}
    /\ hooks' = hooks \cup {Hook("finished", ch, None, 0)}
    /\ UNCHANGED <<live, targets, rooms, generation, stale, pending, reconcile, kicks, closing,
                   tokens, conn, incidents>>

\* DeleteRoom removes the participants and the room.
DeleteRoomArrives(ch) ==
    /\ closing' = closing \ {ch}
    /\ Drop(ch, Users)
    /\ UNCHANGED <<live, targets, rooms, generation, stale, pending, reconcile, kicks, tokens, open, incidents>>

Lose ==
    /\ Incident("lose")
    /\ \/ \E h \in hooks : hooks' = hooks \ {h} /\ UNCHANGED <<kicks, closing>>
       \/ \E k \in kicks : kicks' = kicks \ {k} /\ UNCHANGED <<hooks, closing>>
       \/ \E ch \in closing : closing' = closing \ {ch} /\ UNCHANGED <<hooks, kicks>>
    /\ UNCHANGED <<live, targets, rooms, generation, stale, pending, reconcile, tokens, conn, open>>

\* Targets and rooms are memory only; generations come from the clock.
Restart ==
    /\ Incident("restart")
    /\ targets' = [u \in Users |-> NoTarget]
    /\ rooms' = Vacant
    /\ mints' = {} /\ removals' = {} /\ expulsions' = {} /\ kicks' = {} /\ closing' = {}
    /\ reconcile' = Idle
    /\ UNCHANGED <<live, generation, stale, tokens, livekit>>

-----------------------------------------------------------------------------
Handlers ==
    \/ \E u \in Users, ch \in Channels : JoinCredentials(u, ch)
    \/ \E u \in Users, ch \in Channels : CheckGuild(u, ch)
    \/ \E u \in Users, ch \in Channels : ExpelCheck(u, ch)
    \/ \E m \in mints : IssueToken(m)
    \/ \E m \in mints : TokenFails(m)
    \/ \E u \in Users : RemoveFromVoice(u)
    \/ \E r \in removals : RemoveFromGuild(r)
    \/ \E e \in expulsions : ExpelSend(e)
    \/ \E e \in expulsions : ExpelForget(e)
    \/ \E ch \in Channels : DeleteChannel(ch)
    \/ \E h \in hooks : DeliverWebhook(h)

Reconciler ==
    \/ ReconcileBegin \/ ReconcileApply \/ ReconcileFail \/ ReconcilePrune
    \/ \E ch \in Channels : ReconcileRead(ch)

Environment ==
    \/ \E t \in tokens : Connect(t)
    \/ \E ch \in Channels : CloseRoom(ch)
    \/ \E ch \in Channels, u \in Users : Disconnect(ch, u)
    \/ \E k \in kicks : KickArrives(k)
    \/ \E ch \in closing : DeleteRoomArrives(ch)
    \/ Lose \/ Expire \/ Restart

Next == Handlers \/ Reconciler \/ Environment

Spec == Init /\ [][Next]_vars

\* What is on its way arrives or is lost, and handlers go on: a step of one of
\* them is enough, because an account's own moves are finite.
InFlight ==
    \/ \E h \in hooks : DeliverWebhook(h)
    \/ \E k \in kicks : KickArrives(k)
    \/ \E ch \in closing : DeleteRoomArrives(ch)
    \/ \E m \in mints : IssueToken(m)
    \/ \E r \in removals : RemoveFromGuild(r)
    \/ \E e \in expulsions : ExpelSend(e) \/ ExpelForget(e)

\* The reconciliation ticker keeps coming; failed rounds are incidents.
Round ==
    \/ ReconcileBegin \/ ReconcileApply \/ ReconcilePrune
    \/ \E ch \in Channels : ReconcileRead(ch)

Fairness == WF_vars(InFlight) /\ WF_vars(Round)

FairSpec == Spec /\ Fairness

-----------------------------------------------------------------------------
(* Properties *)

\* While a token of an account is in force, nobody is recorded with a token it
\* has replaced, whichever of webhook, Refresh and handler comes late
\* (livekit.go:352-429).
AdmitsOnlyCurrent ==
    \A u \in Users, ch \in Channels :
        Valid(targets[u]) /\ rooms'[ch][u] \notin {0, rooms[ch][u]}
            => Accepts(targets[u], ch, rooms'[ch][u])
OnlyCurrentAdmitted == [][AdmitsOnlyCurrent]_vars

\* An account removed from voice stays barred until it gets a newer token or
\* the TTL of the old one is over: a Refresh that read the world before the
\* removal does not bring the old target back (livekit.go:177-208).  A token
\* request that fails restores what it found, and a restart forgets.
Barred(u) == Valid(targets[u]) /\ targets[u].channel = None
KeepsBarred ==
    \A u \in Users : Barred(u) =>
        \/ Barred(u)' \/ ~Valid(targets[u])' \/ targets'[u].gen > targets[u].gen
        \/ Restart \/ \E m \in mints : TokenFails(m)
RevocationHolds == [][KeepsBarred]_vars

\* However tokens, connections, removals and webhooks cross or get lost, the
\* rooms come to rest, until something new happens: the server lists who
\* LiveKit has, an account is in one channel only, and nobody is in the room of
\* a deleted channel, also when a handler that had found it before issued the
\* token (reconcile.go:24-60, livekit.go:352-429).
InTwoRooms == \E u \in Users, ch, other \in Channels :
                 ch # other /\ conn[ch][u] # 0 /\ conn[other][u] # 0
DeletedOccupied == \E ch \in Channels \ live : conn[ch] # Empty
Settled == rooms = conn /\ ~InTwoRooms /\ ~DeletedOccupied
RoomsSettle == []<>Settled
=============================================================================
