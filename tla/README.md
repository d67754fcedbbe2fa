# Celery Web Speak: models and proofs

Celery Web Speak is a self-hosted voice and text chat server: one Go process
(`internal/`), a SQLite store, a LiveKit server that carries the media, and a Vue
client (`web/`). These TLA+ modules model the parts of server and client whose
correctness is a matter of the order of events. TLC checks them on small
instances; TLAPS proves central results about calls (in the server and in the
browser), voice rooms, presence, the guild feed, online time, the voice session and
playback for every value of the constants.

## Contents

1. The system and its hard behaviours
2. Modules and how they correspond to the code
3. Runs: questions, bounds, results
4. Fairness
5. Proofs
6. Where code and documents disagree
7. Not modelled, and what is left of the plan

## 1. The system

### The server

All coordination is in memory, in two objects, each with one mutex. Everything
else asks them or is told by them.

**Media service** (`internal/media`, `s.mu`)

- State: `calls`, `callTargets` (whose token for which call is the latest),
  `targets` and `rooms` (the same for voice channels: the latest token of an
  account, and who is recorded where), a `revision` that every change moves, a
  `generation` for tokens.
- Operations: the seven call requests of `call_api.go`; tokens for calls and
  channels; the removals used by moderation, leaving and deletion;
  `ApplyWebhook`; `Refresh`, which reads LiveKit for seconds without the lock
  and replaces everything at once if the revision has not moved;
  `DeleteRoomsExcept`.
- Hard: nearly every function releases the lock before it talks to LiveKit or to
  the clients. A signal, a removal, a token signature or an eviction happens
  *after* the state change it belongs to, and any other handler may come in
  between. Webhooks are lost, late and out of order. A ring timer races the
  users. A restart forgets everything while tokens stay valid for 15 minutes.
- Correct when: an account is in one live call at most; a call has one outcome,
  its users are told of that one and of whom it was with; nobody is in a room
  without the latest token for it; what ends leaves the memory; a `Refresh`
  undoes nothing.

**Hub** (`internal/httpapi/hub.go`, `h.mu`)

- State: open sockets with their send queue, presence buffer, device status and
  guild set; per account a lease count, a badge, the fixed-away setting, the
  guilds, an online interval.
- Operations: `register`, `unregister` (a clean close ends the lease, a broken
  one keeps it for a while), `expire`, the status changes, `DisconnectUser`,
  `AddUserGuild`, `RemoveUserGuild`, `RemoveGuild`, the broadcasts, the flush of
  online time.
- Hard: handlers change the store first and the hub afterwards, and nothing
  orders two of them; a lease outlives its socket; the guild set of a socket is a
  Go map that the account's entry may share; queues are bounded; time is kept in
  nanoseconds and written in whole seconds.
- Correct when: the lease count is exact, absence becomes visible, nobody is a
  ghost; every socket hears the guilds the store has it in; a socket that missed
  an event is closed; online time is neither invented nor lost beyond a bound.

**Tickers** (`cmd/server/main.go`): the voice reconciler (`reconcile.go`), the
presence broadcaster, the guild membership reconciler, the two flushers.

**Store** (`internal/store`): SQL transactions through one writer. It decides who
exists, who belongs to which guild, who may call whom, and is never asked under
one of the two mutexes.

### The client

Everything runs on one thread, but across `await`s: an event, a click or another
answer may come between a request and the assignments that follow its answer.
The code's defence is always of one kind, a number compared after the `await`
(a session, a revision, a version, an operation, a generation), or an object
compared by identity. Where a comparison is missing or compares the wrong thing,
an old answer is applied to a new state.

| component | state | operations | what is hard, and when it is right |
|---|---|---|---|
| call (`voice-call.ts`, `call-signal.ts`) | phase, call id, LiveKit room, session number | click, signal, answer, room event | signal and answer cross; right when overlay, room and microphone belong to the call the server knows |
| synchronization (`app-socket.ts`, `app.ts`) | socket, status, activity and version numbers, the shown guild | connect, retry, snapshot, event, guild switch | a snapshot is overtaken by events; right when the page shows what the server has and a lost socket comes back |
| messages (`app.ts`, `ChatPane.vue`) | list, read state, cursor | load, earlier page, mark read, events | pages, events and read marks in any order; right when no message is twice, lost or counted wrongly |
| own account (`app.ts`) | `app.user` | save, event, resync | optimistic values against late answers |
| voice session (`voice-session.ts`) | status, channel, room, contexts, session number | join, leave, removal, reconnect | joins and leaves overlap; right when panel, connection and contexts agree |
| playback (`voice-session.ts`, `voice-participant-volume.ts`, `audio/`) | rows, gains, monitors, balance | track events, settings, polls | several stores of one volume |
| audio context (`VoiceAudioContextController.ts`) | resume promise, retry | resume, interaction, destroy | the browser suspends when it likes |
| devices (`voice-devices.ts`) | queued reason, bindings | round, choice, join | hardware changes during a round |
| mute, deafen, mode (`voice-mute-deafen.ts`) | preferences, revision, pending report | toggle, guild mute, overlay, reconnect | a failed toggle rolls back over what came in between |
| application audio (`voice-application-audio.ts`) | session, snapshot, pipeline, track | start, pause, stop, snapshot, port | a desktop process, a room and a user, each of whom may end it |
| microphone (`MicrophonePublishOrchestrator.ts`, `-PipelineProcessor.ts`) | revision, queue, fallback, nodes | declare, begin and end a session | a call superseded in LiveKit; two suppressors at once |
| speech and presence (`SpeechDetectionEngine.ts`, `-Lifecycle.ts`, `voice-presence.ts`, `presence-activity.ts`, reminder) | capture, tracker, status | start, fail, retry, frame, timer | a start given up while it is awaited; who is away |
| sounds (`application-sounds/`) | slots, route, loop | settings, play, loop, sink changes | two stores written one after the other; a context that sleeps |
| call permissions (`call-permissions.ts`) | list, search, card | read, set, lift | reads answered after writes |
| composer, commands (`ChatPane.vue`, `mention-autocomplete.ts`, `slash-commands.ts`) | text, mentions, draft | edit, insert, send, switch | spans have to follow the text; an answer arrives in another channel |
| overlay (`voice-overlay.ts`, `poke-prompt.ts`) | signature, timers, floor | push, show, configure | deferred pushes to a window that opens late |
| shell (`AppShell.vue`) | menus, card, dialogs | open, close, leave, switch | what is open is about something that has gone |

### How the parts talk

| from | to | how |
|---|---|---|
| client | media service | HTTP: calls, tokens, leave, disconnect |
| media service | client | `CallSignaler` → hub → socket, after the unlock |
| media service | LiveKit | RemoveParticipant, DeleteRoom, ListRooms, ListParticipants |
| LiveKit | media service | webhooks; unordered, may be lost |
| handlers | hub | add, remove, disconnect, broadcast; after the store was changed |
| hub | store | online seconds |
| hub | client | the socket: ordered, bounded, closed when it overflows |
| client stores | each other | watchers and calls: the session drives microphone, devices, mute; the call drives sounds and the channel's deafening |
| client | desktop shell | application audio snapshots and ports; the overlay's states |

## 2. Modules

Server:

| module | models | code |
|---|---|---|
| `CallLedger` | what the calls promise: each takes its phases once and in order, and rings only while nobody in it is engaged | abstract |
| `CallCoordinator` | calls, the call half of `Refresh`, LiveKit's side of a call room | media/call.go, livekit.go |
| `VoiceRooms` | voice channels: the other half of `livekit.go`, the reconciler | livekit.go, reconcile.go, guild_api.go |
| `PresenceHub` | connections, leases, badges, statuses, revocation, the presence feed | hub.go, websocket.go, admin.go, auth.go |
| `GuildFeed` | subscriptions, shared maps, send queues, membership handlers | hub.go, guild_api.go |
| `OnlineTime` | online intervals, flushes, settlements | hub.go |

Client, under `web/src`:

| module | models | code |
|---|---|---|
| `CallClient` | one browser's calls against a server that crosses, loses and refuses | stores/voice-call.ts, call-signal.ts, call-experience.ts |
| `ClientSync` | login, socket, retries, snapshots, guild switches | stores/app-socket.ts, app.ts |
| `ChannelMessages` | the messages and read marks of a channel | stores/app.ts, components/ChatPane.vue |
| `OwnAccount` | the signed-in account: optimistic saves, events, resyncs | stores/app.ts, internal/httpapi/auth.go |
| `VoiceSession` | joins, leaves, removals and reconnects of a voice channel | stores/voice-session.ts |
| `RemotePlayback` | volumes, mutes, balance, who is shown speaking | voice-session.ts, voice-participant-volume.ts, audio/ |
| `PlaybackRecovery` | the audio context a room is mixed in | audio/VoiceAudioContextController.ts |
| `MutedReminder` | telling somebody that they speak while muted | audio/MutedSpeakingReminder*.ts |
| `VoiceDevices` | device rounds, rebinding, choices | stores/voice-devices.ts |
| `MuteDeafen` | mute, deafen, transmission mode, reports to the server | stores/voice-mute-deafen.ts |
| `ApplicationAudio` | the shared sound of an application | stores/voice-application-audio.ts |
| `MicrophonePipeline` | the graph behind a published microphone, as functions | audio/MicrophonePipelineProcessor.ts |
| `MicrophonePublish` | the orchestrator, over `MicrophonePipeline` | audio/MicrophonePublishOrchestrator.ts |
| `SpeechDetection` | the engine's capture and its lifecycle | audio/SpeechDetectionEngine.ts, -Lifecycle.ts |
| `OwnPresence` | online or away, as the browser decides and declares it | stores/voice-presence.ts, presence-activity.ts |
| `SoundSlot`, `SoundRoute`, `SoundPlayback` | a sound's settings, its output, its plays and loops | application-sounds/core.ts, web-audio.ts |
| `CallPermissions` | the blocks a page shows | stores/call-permissions.ts |
| `Composer`, `SlashCommands` | what is written, mentioned, sent and answered | components/ChatPane.vue, mention-autocomplete.ts, slash-commands.ts |
| `VoiceOverlay` | what the overlay window is told | stores/voice-overlay.ts, poke-prompt.ts |
| `AppShell` | menus, card, dialogs, leaving a guild | components/AppShell.vue |

Instances and proofs: `MCCallCoordinator`, `MCPresenceHub` and `MCGuildFeed` hold the constants a configuration cannot write
down. `MCServerSafety`, `MCServerLiveness`, `MCVoiceRooms`, `MCClientSafety` and
`MCClientLiveness` are suites (below). `CallCoordinator_proofs`,
`CallClient_proofs`, `VoiceRooms_proofs`, `PresenceHub_proofs`,
`GuildFeed_proofs`, `OnlineTime_proofs`, `VoiceSession_proofs` and
`VoiceControls_proofs` (of `MuteDeafen` and `PlaybackRecovery`) hold the theorems.

### Conventions

- On the server an action is the code between two points at which a lock is taken
  or an answer is awaited. What a handler still has to do after its unlock is an
  element of a set (`tails`, `mints`, `jobs`, `kicks`, `expulsions`, ...) that a
  later action takes out; nothing orders the elements.
- On the client an action is what runs from one `await` to the next. A call under
  way is a record with the place it waits at (`at`, `stage`, `pc`) and what it
  captured; the handler's part is a function from the store's record to the next.
- Instead of a counter that would only grow, a record keeps what the comparison
  after the `await` will find (`late`, `same`, `latest`, `fresh`), set by the
  action that would have moved the counter. Optional values are sets of at most
  one member.
- `excused`, `raced`, `crossed`, `clash`, `missed`, `stale`, `behind`, `unlisted`,
  `forgotten` are histories. Each names a crossing the code does not survive
  (section 6) in the action that commits it, so that a property can say that
  nothing else goes wrong, or what state the crossing leaves.
- What may vary between instances is a member of `Scope`; every bound is a
  constant named `Max...`.
- An operator named `X_Fault`, for instance `Busy_RingingOnly`, is `X` with a
  plausible mistake in it. No specification uses it; it is there to see that the
  properties notice the mistake.

### The suites

Components that share no state would each need a run of their own, although they
ask the same question. A suite runs them in turn: the variable `scene` is chosen
in the initial state and says which component a behaviour is of, the slots `x1`,
`x2`, ... hold that component's variables (`INSTANCE ... WITH`), the others hold
0. A property of a suite is the conjunction of its components' properties, each
under `scene = "..." =>`; since `scene` never changes this says exactly what the
separate runs would say. `Bounds` has TLC evaluate the components' assumptions.

Each suite extends a component instead of instantiating it: `MCServerSafety`
`CallCoordinator`, `MCServerLiveness` `OnlineTime`, `MCVoiceRooms` `VoiceRooms`,
`MCClientSafety` `PlaybackRecovery` and `MuteDeafen`, `MCClientLiveness`
`CallClient` and `VoiceSession`. The variables of one that is extended stay as they began while another has the turn, so
that its properties are checked as they are, the same formulas its theorems state.
(Names that two of them would share, like `Init`, carry the component's name in
`VoiceSession`: `SessionInit`, `SessionNext`, ...)

### CallCoordinator

- `calls[c]` is an entry of `s.calls`, ids in order of dialling; a call that has
  been deleted is `NoCall` again, and `c <= dialled` tells it from one that was
  never dialled. `participants[u]` is the token generation `u` is recorded with.
- `callTargets` and `generation` are the fields of that name. Generations come
  from the clock, so a restart does not repeat one (`nextGenerationLocked`).
- `tails` are the deferred emits and evictions. `Finish` is the terminal
  transition; `EndRinging`, `HangUpCall`, `TimeoutCall` use it. `RunTail` emits
  one signal, looking the peer up *then*, as `emitCallEvent` does, or evicts.
- `Transition` is `transitionCallParticipants`, for webhooks and `Refresh` alike.
- `refresh` is the running `Refresh`: its snapshot, what it has read, and whether
  a revision has come in between, after which its data no longer matter and are
  dropped from the state. (`revision` itself would only grow; `Revise` keeps what
  `replaceSnapshot` asks of it.)
- `conn`, `tokens`, `hooks`, `kicks` are LiveKit and are external.
- A client asks for things it knows of (`Knows`): it answers calls it was invited
  to, and uses ids it was given.

### VoiceRooms

- `targets[u]` is the latest token of an account: channel and generation, or no
  channel after a removal (`ChannelID = 0`), which refuses every token until its
  15 minutes are over (`stale`). `rooms[ch][u]` is the generation recorded.
- `joinCredentials` is `JoinCredentials` up to the unlock, then `IssueToken` when
  the removal from the previous room has returned, or `TokenFails`.
- `RemoveParticipantFromGuild` is `CheckGuild` and `RemoveFromGuild`, because its
  check and its removal take the lock separately;
  `RemoveParticipantFromChannel` is `ExpelCheck`, `ExpelSend`, `ExpelForget`.
- `reconcile` is the one running round of `reconcileVoiceRooms`:
  `ReconcileBegin`, a `ReconcileRead` per room, `ReconcileApply` (all or nothing),
  `ReconcilePrune` with the channels listed at the beginning.
- Connections, webhooks and requests on their way are LiveKit's; requests and
  webhooks may be lost, and webhooks are not ordered.
- What is not an account's own move (a removal, a deletion, a loss, a restart,
  ...) is an incident; an instance bounds how many there are.

### PresenceHub

- `phase[c]` follows `handleWebSocket` from authentication to `register`, with
  what it has read (`read`). `counts` is the code's lease count; `leases[u]`
  counts the `expire`s that broken connections have scheduled.
- `jobs` are handlers that have changed the store and not yet the hub; `owed`
  says that some handler has still to broadcast presence.
- `buffer` and `seen` are the one-place snapshot channel of a socket and the list
  its client was last written.

### GuildFeed

- `sets` is the heap of guild maps and `memberships[u]` refers to one of them, or
  to none: `register` lends the socket's map to the account, and `AddUserGuild`
  makes one if there is none. This sharing is the point of the module.
- A handshake is `Handshake`, then `ListGuilds` or, when the store fails,
  `ListGuildsFails`, which registers the socket with no guilds as
  `websocket.go:62-75` does (`unlisted`).
- `counts` and `leases` are the hub's: the last `expire` of an account forgets its
  entry. `DisconnectUser` closes the account's sockets, forgets entry and count and
  leaves its leases, so that an `expire` of before may drop the entry of a socket
  that has come back (`forgotten`).
- `queue` is the bounded send queue; a socket that overflows is `stopped`;
  `missed` records which sockets an event was dropped for.
- `Overlap` says whether two handlers, or a handler and a handshake, overlap.

### OnlineTime

- Time advances by ticks, `PerSecond` to the second. `online[u]` is the interval
  (`since`, `accum`); `stored` are the seconds in the database.
- `spent`, `settled`, `crashes`, `unwritten`, `leaked` are history: how long the
  account was really online, and how often each kind of loss has occurred.
  `unwritten` are the seconds of failed writes, which `LossBounded` grants to the
  code; that the next flush should write them is `FlushRetried` (section 6).
  `leaked` is the time after `FlushOnlineTime` at shutdown, when sockets still live.

### CallClient

- `client` holds the refs of `voice-call.ts` and what `call-experience.ts` derives
  from them; `HandleSignal` is the watcher of the socket's signals, with the
  signals that arrive while `startCall` waits (`pending`).
- A request is sent, answered by the server's half (`ServerStarts`, `ServerActs`)
  and handled (`StartAnswered`, `ActAnswered`), or lost on the way there or back.
- `joinRoom` is `TokenAnswered`, `ConnectAnswered`, `MicrophoneApplied` and their
  failures; a join remembers the session it is of. `EndSession` closes the room
  and the contexts; `CallTerminalMessage` decides what the user is told.
- `calls` is the server as seen from one account (`CallCoordinator` has it in
  full): the peer accepts, ends or vanishes when it likes.
- `crossed` says whether an answer has been handled for a call the store had left:
  `"over"` when an accept was answered after the end of its own call, which makes
  the idle store active with no call (`voice-call.ts:229-234`), `"other"` when
  another call was shown, or when a blocked call's rejection was refused because
  the call had been accepted. The properties say of `"over"` what it leaves
  (`Stranded` in the proof); `"other"` they leave out.

### ClientSync, ChannelMessages, OwnAccount

- In `ClientSync` a guild's content is one number that the server counts up. A
  `load` is `selectGuild`, guarded by the guild version and the active guild, a
  `boot` is the account's bootstrap, a `sync` is `synchronizeSocket` with its
  rounds (`Attempts`) and the activity number that an event moves.
- A membership that ended is refused with 404, a ban or a platform administrator's
  with 403, a missing session with 401 (`Statuses`); the page treats 401 and 403
  alike. `handleLogout` ends the session and tells no connection (`SessionDeleted`);
  the page forgets the account whether its request succeeded or not (`LoggedOut`).
- `CloseRefused` is `connection.close(1012)`, which a browser refuses (section 6).
- In `ChannelMessages` a list is a set of numbers, so that an order is not
  modelled twice; `PageSize` and `Retention` are the code's limits, small.
  `Created`, `Deleted`, `Cleared` are the event handlers, `Trim` the cut.
- `OwnAccount` has three settings that stand for the three ways the code treats
  one: shown before it is saved, shown after, and left out of the JSON when empty.

### VoiceSession, MuteDeafen, MicrophonePublish, VoiceDevices

- In `VoiceSession` every join and leave under way is a record; `Current` is the
  code's test after each `await` (session and room). `contexts` are the audio
  contexts that exist, `held` the ones the store names. `removal` is a moderator's
  removal, whose event and whose drop of the room race each other.
- In `MuteDeafen` the loop of `reconcileConnectedPreferences` is `Head` and what
  follows it; `RollBack` is the catch branch of a toggle. A report to the
  server is queued (`QueueSync`) and posted; who waits for it waits for the
  reports of the session it was queued in (`waits`). A transport may be lost while
  the room is still being joined (`broken`). `excused` becomes true at what the code
  does not repair (`Unrepaired`, `LastRound`, and the crossings of section 6).
- `MicrophonePublish` has one thread per running call, with its place; `Running`
  says that JavaScript is between two awaits. The pipeline is a record of
  `MicrophonePipeline`, whose methods are applied to it. `fallback` is the
  republication with the system's suppression, which runs beside the queue.
- In `VoiceDevices` a device's identity is apart from its entry, because
  "default" is an entry whose hardware changes. `Notify`, `Flush` and
  `MergeQueuedReason` are the queue of rounds.

### ApplicationAudio, RemotePlayback, PlaybackRecovery, MutedReminder

- `ApplicationAudio`: `desk` is the desktop program, `wire` its snapshots and
  ports on their way, `live` what LiveKit has published. `Cleanup` is the tail all
  ends share. The desktop program may refuse whatever it is asked (`DeskRefuses`);
  a session it has refused to stop goes on being captured (`desk.kept`). The room
  may refuse to unpublish a track (`Unpublished`), which then stays there (`stuck`).
- `RemotePlayback`: volume is a small number, balance a number of steps, so that
  the gain given to LiveKit is a whole number that can be compared.
- `PlaybackRecovery` has both users of the controller, a channel and a call, which
  differ in what they ask for and in whether a switch calls `startAudio` beside it.
- `MutedReminder` counts time in frames; `frames` is the history a reminder is
  judged by.

### SpeechDetection, OwnPresence, sounds

- A capture stands for a stream, a context and nodes; `held` and `lost` tell those
  the engine's fields name from those it has forgotten. `starts` are the
  `startCapture`s under way, each with its operation; `clash` says that two of one
  operation were under way together, `excused` that a call of `start` was given up
  to a start that does not fit. The worker may die from when it is ready, also
  while its context resumes and when its capture is lost.
- `OwnPresence` has the tracker's timer and utterances, the setting the account
  stores, and what was last told to the server.
- `SoundSlot` queues operations on two stores that fail separately; `SoundRoute`
  queues wishes for an output, if the browser can route at all (`routable`);
  `SoundPlayback` counts time in units of the rate limit, and learns of a call and
  of what it deafens by two watchers (`CallChanges`, `FollowPlayback`).

### CallPermissions, Composer, SlashCommands, VoiceOverlay, AppShell

- `CallPermissions` numbers blocks, so that an old answer can be told from a new
  one; the card, the list and a search are three readings of one block.
- `Composer`'s text is a sequence over four characters, because mentions are
  spans of it: `RealignPendingMentions` keeps, shifts or drops them at an edit, and
  the draft stores both.
- `SlashCommands` works by words. `VoiceOverlay` pushes whole states, urgent ones
  at once; `floor` keeps old prompts from being told again. `AppShell` keeps of
  each menu and dialog what it is about.

## 3. Runs

Instances are small because the hazards are: each needs two or three steps of two
actors, on one call, one account, one guild or one store.

| run | instance | what it shows |
|---|---|---|
| `ServerSafety` | dialling: 3 users, 2 calls, expiry and restarts; observing: 2 of them, 1 call, 2 tokens, `Refresh`, lost webhooks, at most two webhooks on their way at once; hub: 1 account, 2 sockets of different kinds, 3 leases | nobody is in two live calls; ends are told once and name the peer; `CallLedger` is implemented; nobody is in a ringing call's room and no ended call stays with an empty one; a stale `Refresh` restores nothing; only current tokens are admitted; an active call ends as disconnected only for a departure; leases, badge and presence lists are exact |
| `ServerLiveness` | hub: 2 accounts, revocation, 2 leases; calls: 2 users, 1 call, 1 token, losses; feed: 1 account, 2 sockets, 2 guilds, queues of one; time: 2 ticks a second, flush every 3, 7 ticks, failed writes, crashes | ringing stops and ended calls go although webhooks are lost; who has gone becomes offline and everyone sees it; a socket with a gap is closed; no time is invented, and the loss has the stated bound |
| `VoiceListing` | rooms: 1 account, 2 channels in 2 guilds, 2 tokens, one incident in a behaviour, of any kind; feed: 1 account, 2 sockets, 2 guilds, revocation, leases, failed handshakes | no replaced token is recorded and no removal undone; the listing comes to agree with LiveKit, an account in two channels ends up in one, a deleted channel's room empties; sockets and entries hold the store's guilds although they share maps |
| `ClientSafety` | nineteen scenes, bounds in `MCClientSafety`; the constraint `Few` limits how much of its bounds a scene uses in one behaviour | when nothing is on its way, devices, mute and deafen, shared and heard audio, page, texts, speech detection, sounds and overlay are what user and server said last |
| `ClientLiveness` | calls: 1 browser, 2 calls, 2 of clicks, toggles and failures; microphone: 2 calls, 1 session, 1 failure; session: 2 channels, 2 joins, 2 of leaves and failures, one leave at most; muting: 2 attempts, 1 toggle, 1 session, 1 failure; socket: 1 guild, 2 attempts, 1 change, 1 failure, 3 connections | the overlay comes to show what the server knows, one room and one pair of contexts at most, ends are told to whoever waited, a call that is over is left; the publication settles as declared; panel, connection and contexts agree; every toggle and every attempt to connect ends; a lost socket comes back |
| `CallPeerLost`, `HubStaleLease`, `FeedDeletion`, `FlushRetry`, `CallStranded`, `ClientSyncStuck`, `SpeechRetry` | violated | section 6 |

What the client's properties are about, by scene:

| property | scenes |
|---|---|
| `DevicesFollow` | devices |
| `SharingAgrees` | application audio |
| `PreferencesHold` | mute, deafen and mode, with two toggles, one session, one failure, two rounds |
| `HeardAgrees` | the balance and volumes of the others |
| `SoundComesBack` | the audio context |
| `ShownAgrees` | the guild shown, call blocks, the shell, the own account |
| `TextAgrees` | messages, composer, slash commands |
| `SpeechAgrees` | speech detection, own presence, the muted reminder |
| `SoundsAgree` | slots, route, plays and loops |
| `OverlayAgrees` | the overlay window |

Bounds. `MaxCalls`, `MaxGen`, `MaxLeases`, `MaxTime`, `MaxSockets`, `MaxIncidents`,
`MaxActs`, `MaxEvents`, `MaxUpsets`, `Cap` and the like cut what would grow for
ever. The behaviours of interest are within them: a second token is enough to
make the first an old one, and three users and two calls are what a double
engagement takes; a queue of one place overflows as one of 64 does; three ticks
between flushes with two to the second leave every kind of remainder (that a
remainder stays below a second for other values is in the formula,
`PerSecond - 1`, and is proved). On the client one failure (`MaxUpsets`) beside two
operations gives every pair of "an answer that comes too late" and "what came in
between". In `VoiceListing` a behaviour has one incident in all, of any kind
(`MaxIncidents = 1`); two incidents of one behaviour are outside the run, and inside
the theorems, which are about any number; `RoomsSettle` alone is known for one only. A
constraint (`Few`, and in `MCServerSafety` two webhooks at once) cuts states with
more than it says, and nothing below. Where it cuts most, in the scenes of calls,
session and muting, the safety properties it is about are proved for every bound;
what the run adds there is their liveness and that the formulas are as meant.

`CallCoordinator` is run without tokens and with three users ("dialling"), or with
tokens and with two ("observing"): dialling is decided by calls alone, and admission
by one call's tokens, so neither scene hides a case of the other's properties.

Deadlock is not checked: each of these systems may come to rest when the bounded
calls, clicks, tokens or ticks are used up and everybody has left.

The feed runs without overlapping handlers because `SubscriptionsMatch` is false
with them (section 6); the run says what the shared maps do when sockets are
revoked, expire and fail their handshake, not what concurrent handlers do.

## 4. Fairness

Fairness is assumed only for what the program or its environment does by itself,
never for users, and never for what is counted as a failure.

- `CallCoordinator.FairSpec`: the Go scheduler runs timers, handlers and their
  tails; LiveKit delivers what it does not lose; the reconciler's ticker keeps
  coming, and its requests do not fail for ever (strong fairness of reading and
  applying); a client that is told the call has ended disconnects
  (`endSession`). Without the last an ended call with somebody in its room would
  wait for that client, which is what the code does.
- `VoiceRooms.FairSpec`: weak fairness of "something that is on its way moves"
  and of the reconciliation round. Losses and failures are incidents, of which
  there are finitely many, so weak fairness says enough.
- `PresenceHub.FairSpec`: timers, handlers, the broadcast a handler owes, the
  writers. The 15-second ticker is *not* counted on: it would hide a handler that
  forgets to broadcast.
- `GuildFeed.FairSpec`: the writer of a stopped socket notices it (Go's `select`
  picks at random among ready cases), and leases run out. It is assumed of the
  feed in `ServerLiveness`; the feed in `VoiceListing` needs none.
- `CallClient`: requests get an answer or an error, a join goes on, watchers run
  and signals are delivered: the event loop and the timeouts of `fetch` and
  LiveKit.
- `ClientSync`: answers come, messages are delivered, a socket opens or fails, and
  the 2.5-second timer of `app-socket.ts` fires.
- `MicrophonePublish`, `VoiceSession`, `MuteDeafen`: what waits at an `await` is
  resumed, and LiveKit, the browser and the server answer, well or badly.

In a suite each of these is stated for the variables of the component and the
scene it belongs to, so that it says nothing in the others.

## 5. Proofs

Eight modules hold theorems; they are about any number of users, calls, channels,
guilds, tokens, sockets, incidents and events.

| module | theorem | says |
|---|---|---|
| `CallCoordinator_proofs` | `TypeCorrect` | `Spec => []TypeOK` |
| | `OneLiveCall` | `Spec => []OneLiveCallPerUser` |
| | `RefreshCurrent` | `Spec => []SnapshotCurrent` |
| | `CoordinatorImplementsLedger` | `Spec => ImplementsLedger`, that is `Ledger!Spec` |
| | `OutcomesTold` | `Spec => []OutcomesAreTold` |
| | `RoomsFollowCalls` | `Spec => []RoomFollowsCall` |
| | `CurrentTokensAdmitted` | `Spec => OnlyCurrentTokensAdmitted` |
| | `DeparturesDisconnect` | `Spec => OnlyDeparturesDisconnect` |
| `CallClient_proofs` | `TypeCorrect` | `Spec => []TypeOK` |
| | `NoRoomIsLeft` | `Spec => []NoRoomLeft` |
| | `MicrophoneFollows` | `Spec => []MicrophoneAsPreferred` |
| | `CallsAgree` | `Spec => []CallAgrees` |
| | `EndsTold` | `Spec => []EndsAreTold` |
| `VoiceRooms_proofs` | `TypeCorrect` | `Spec => []TypeOK` |
| | `ReplacedStayOut` | `Spec => OnlyCurrentAdmitted` |
| | `RemovalsHold` | `Spec => RevocationHolds` |
| `PresenceHub_proofs` | `TypeCorrect` | `Spec => []TypeOK` |
| | `GhostsNever` | `Spec => []NoGhosts` |
| | `ShownIsRight` | `Spec => [](BadgeIsBest /\ ListsAreCurrent)` |
| | `HubAlwaysAgrees` | `Spec => []HubAgrees`, without revocation |
| | `ConnectedStayOnline` | `Spec => []ConnectedIsOnline`, without revocation |
| `GuildFeed_proofs` | `TypeCorrect` | `Spec => []TypeOK` |
| | `SubscriptionsAlwaysMatch` | `Spec => []SubscriptionsMatch`, when handlers take turns |
| `OnlineTime_proofs` | `TimeIsAccounted` | `Spec => []TimeAccounted` |
| `VoiceSession_proofs` | `SessionAlwaysAgrees` | `Spec => []SessionAgrees` |
| `VoiceControls_proofs` | `PreferencesAlwaysHold` | `Spec => []PreferencesHold` |
| | `SoundReturns` | `RecoverySpec => []SoundComesBack` |

The assumptions are the named ones of the modules: `CoordinatorAssumption`
(nobody's id is not a user, the bounds are natural numbers), `CallClientAssumption`
(the bounds are natural numbers), `VoiceAssumption`
(every channel has a guild, "no channel" is none, the bounds are natural numbers),
`TimeAssumption` (at least one tick to the second and to the interval),
`HubAssumption` (finitely many sockets, each of an account and of a known kind of
client), `FeedAssumption` (accounts, sockets and "no map" are different things, a
queue has room for one event), `VoiceSessionAssumption` ("no channel" is none,
the bounds are natural numbers), `MuteDeafenAssumption` (a reconciliation has at
least one round, the bounds are natural numbers); `SoundReturns` needs none.

**One live call.** `OneLiveCallPerUser` is not inductive. `Refresh` replaces all
calls by what it copied earlier, so the copy has to be tied to the present: as
long as no revision has come in between, each copied call is the present one or
gone (`SnapshotCurrent`). And dialling takes a fresh id, so ids beyond `dialled`
must be unused (`UndialledAbsent`). The inductive invariant is

    CallInvariant == TypeOK /\ SnapshotCurrent /\ UndialledAbsent /\ OneLiveCallPerUser

The argument goes through one relation. `Follows` says how a call entry may
change in a step other than dialling: it keeps its parties, and its state moves
from ringing to active, ended or nothing, from active to ended or nothing, from
ended to nothing. `StepFollows` shows that every action but `StartCall` makes
every call follow; with it the live calls of an account can only become fewer,
so `OneLiveCallPerUser` is kept. `StartCallKeeps` shows that dialling adds a
ringing call only when neither party is in a live one: the callee by
`busyLocked`, the caller by `callerBusyElsewhereLocked`, which looks at outgoing
and incoming calls by different rules, and yet suffices. `ChangesRevise` and
`SnapshotStep` show that whatever changes a call or a target moves the revision.
`LedgerStep` maps each step to one of `CallLedger` or to a stutter.

**Outcomes.** `OutcomesAreTold` joins two claims: no call is told two different
ends, and a terminal signal of a call that never ran names the peer although the
peer is looked up only when the signal goes out. The first follows from
`ToldOnce`: among the signals sent and those still held by handlers the terminal
ones agree, and there is none while the call is open. `Tells` says which
signals a step may produce, `StepTells` that every action keeps to it,
`StaysClosed` that a closed call does not open again. The second needs to know
that nobody can empty the room of such a call under the handler's hands. That is
`NoRoomYet`: while a call is unanswered (ringing, ended other than by hanging up,
or not dialled) nobody is recorded in its room, connected to it, holds a token for
it or is named in a running `Refresh`. So no webhook can evict it, and the handler
that holds the signal has the call to itself until the signal is out. The
invariant is

    PeerInvariant == CallInvariant /\ NoRoomYet /\ Numbered /\ RingingHeld
                     /\ Forgotten /\ Pending /\ RingingSignalsNamePeer

Its complement is finding `CallPeerLost`: for a call that *did* run the claim is
false. `EndedEmptyIsBeingEvicted` is inductive by itself: what empties an ended
call (`TransitionEmpties`) leaves an eviction among the tails, and a tail that
goes has evicted (`RunTailEvicts`).

**Admission.** `OnlyCurrentTokensAdmitted` and `OnlyDeparturesDisconnect` are about
steps, so the work is in the invariant before the step. Both recordings, by webhook
and by `Refresh`, go through `Transition`; `TransitionAdmits` says that it records
only whom the targets it is given allow. A webhook gives it the present targets.
`Refresh` gives it the ones it read seconds ago, so they must still be the present
ones, or have expired since (`TargetsCurrent`, which needs that generations and
expiry only grow, `GenerationsGrow`). For the ends of active calls `TransitionEnds`
says that it disconnects only a call that loses a recorded participant. That this is
a departure somebody saw needs three facts more: webhooks carry generations that were
issued, never the 0 that stands for "absent" (`GenerationsIssued`); a `Refresh` has
every call that is not over (`SnapshotWhole`), or an active one would vanish with no
participant missing; and what a hang-up leaves to do is new (`ToldOnce`), so that the
step that hangs up shows among the tails.

    DepartureInvariant == CallInvariant /\ ToldOnce /\ GenerationsIssued /\ SnapshotWhole

An earlier form of the property claimed that the party who left had been recorded.
The proof failed, and TLC showed why with a third token: a webhook of a connection
the call never recorded ends it too. `DepartureSeen` says what the code does.

**Call client.** `CallAgrees` and `EndsAreTold` compare a browser at rest with the
server, so the invariant has to say, for every moment before, what is still under way
from one to the other.

    Typed /\ ServerFits /\ RoomInvariant /\ StrandedInvariant /\ TellingInvariant

`ServerFits` is about what travels: only the last call is live, a signal that waits
(on the wire, or kept while a call is being started) holds of its call and goes on
holding, signals come in the order of their calls, and a request under way is one this
browser could have made. `RoomInvariant` says, as long as no answer has crossed a signal, that the room, its join and its AudioContext belong to the
active call of the store, and that a microphone which is not as preferred has a
request queued that will make it so. `StrandedInvariant` says what holds after an
accept was answered when its own call was over, and for good: the store is active,
with no call, no room and no context, and no join or request under way is of its
session (finding `CallStranded`). `TellingInvariant` says that what the overlay
shows is the state of its call, or that the change is under way, as a signal or as a
request the server has carried out; that each invitation by somebody else for a live
call is shown or under way; that the answer to a call being started, and every signal
about it, arrives before the user can be told anything false; and that the toast is
the one for the end of the call shown last. A failed request or a lost signal ends
that part (`FailuresLost`), as it does in the two properties.

What arrives while a call is being started is replayed, in order, when its answer
comes. The replay is a recursive function over the kept signals; its lemmas are proved
by taking the least index at which they would fail, since the induction theorems of
the library take an operator and cannot be used here. Each replayed signal keeps a
local form of the invariant, in which what is behind it is applied and what is before
it is still under way.

Two things came out of these proofs. `TypeOK` could not be proved until the failing
branch of a microphone request was that of a failed join (`JoinFails`), which a first
form of the model had left out. And `MicrophoneAsPreferred` holds only as long as no
crossing was `"other"`, because such an answer leaves a room to which the preference
no longer applies.

**Voice rooms.** The same two ideas for channels, where a target may also say "in no
channel" (a removal). `LinksIssued` and `BeliefsIssued` say that whatever carries a
generation, on LiveKit's side and on the server's, carries one that was issued; so a
new token is newer than every copy of an old one. `SnapshotCurrent` ties the targets
a `Refresh` read to the present ones.

    VoiceInvariant == TypeOK /\ LinksIssued /\ BeliefsIssued /\ SnapshotCurrent

`StepRetargets` says how a step may change a target (a newer generation, a removal,
an expiry, the roll back of a failed token, a restart); `StepRecords` how somebody
comes to be recorded (a webhook or a whole reconciliation). `ReplacedStayOut` and
`RemovalsHold` follow from the invariant and one of the two.

**Presence.** `counts[u]` is kept by hand, so the question is whether it counts
anything. `Held(u)` is what it should count: the open sockets of the account and
the closed ones whose `expire` is still to come. `RegisterHolds`,
`UnregisterHolds`, `ExpireHolds` and `DisconnectHolds` say how each step moves both
numbers; a socket that registers must not be a client already, which is `Tracked`
(the clients are the open sockets).

    NoGhosts:   TypeOK /\ Tracked /\ CountsBounded           (counts[u] <= Held(u))
    HubAgrees:  TypeOK /\ Tracked /\ Unrevoked /\ HubAgrees   (counts[u] = Held(u))

With revocation only the inequality survives: `DisconnectUser` forgets the count
and leaves the scheduled expires behind, which is finding `HubStaleLease`.
`ConnectedStayOnline` is its complement: where no session is revoked, what the
product specification claims is true, so that revocation is the whole cause.
`ListsAreCurrent` is inductive by itself. Every step that changes what is shown
either owes a broadcast or begins a lease, and the end of a lease owes one; so when
neither is left, the last thing that touched the one-place buffers was a broadcast
of the present state or a write of it.

**Guild feed.** A socket's map and its account's entry may be one object, and the
store is ahead of both while a handler is between. `Pending(u)` are the guilds such
a handler is about; `SocketsFit` and `EntriesFit` say that no map has a guild too many
but for those, and that it has them all where it can: a socket unless the store failed
its handshake, an entry while the hub counts the account and has not lost the entry
under it (`Whole`). An entry of an account without sockets may lack guilds
(`AddUserGuild` makes it from nothing), and so may one that a socket without guilds
has left as it found it (`unlisted`). `Counted` is why a socket that is open has a
whole entry: it is counted, unless an `expire` of before a revocation has taken its
account's count to zero (`forgotten`). `OwnMaps` says that nobody refers to another
account's map.

    FeedInv == Tracked /\ OwnMaps /\ OneAtATime /\ JobsTrue
               /\ ListedCurrent /\ SocketsFit /\ EntriesFit /\ Counted

The hypothesis `~Overlap` is needed: with overlapping handlers the property is
false (section 6). `TypeCorrect` does without it.

**Online time.** The two bounds are inductive only together with what relates the
clock, the intervals and the history: `Held` (before the shutdown an account has an
interval exactly while it has a socket), `Recent` (a flush is never overdue, and no
interval is owed more than the time since it and a remainder) and `Closing` (after
the final flush what is missing in the store is what the history counts as lost).

    IInv == Typed /\ Held /\ Recent /\ Closing /\ NeverOvercredited /\ LossBounded

**Voice session.** `SessionAgrees` speaks of a store at rest, so the invariant has
to say what each join and leave under way still owes. `Numbered` keeps joins apart
by their numbers and their sessions: that no two that have begun share a session is
what the store's counter is for, and makes `Current` the test it is meant to be.
The rest holds as long as `raced` records none of the overlaps of section 6: the
join of the session waits in no room, with no leave about to clear the panel
(`Awaiting`); a leave under way has its room still to give up, or there is none
(`Leaving`); the room held is that of the session's join (`Connects`), in the
channel shown, and its participants are listed once it is up (`RoomFits`); a status
the room does not bear out is still to be changed by somebody (`StatusFits`).
`RemovalFits` says that a removal nobody has told of finds the channel it is about,
as the one shown or as the one that ended last.

    SessionInvariant == TypeOK /\ Numbered /\ RemovalFits /\ NothingLeftOpen
                        /\ (~raced => Awaiting /\ Leaving /\ Connects
                                       /\ RoomFits /\ StatusFits)

The first form of `RemovalFits`, the test of `handleModeratorDisconnect` itself,
was not inductive: a later drop of another channel would overwrite the one that is
remembered. It is the channel shown, or there is no room.

**Mute and deafen.** `PreferencesHold` speaks of a moment when nothing is on its way;
the invariant says for every other moment who will still do what is missing.

    Good(v, calls, ~excused)  ==  Sound /\ (~excused => Ready /\ Fits)

The revision decides. A round of `reconcileConnectedPreferences` that remembers the
present revision has seen the present preferences (`Current`) and acts on them
(`RoundFits`); one that remembers another, or has not begun, starts over when it comes
back (`Owes`). `Fits` says that unless somebody owes all of it, each part is as
preferred or a current round has the step that sets it still before it: the microphone
while one waits for `startAudio`, what is shown until the shared audio is paused, the
shared audio until the microphone has answered, the report until it is queued. For the
report, `ToldLast` is what the server will have been told when the one on its way and
the one that waits for it have gone. `Sound` has what holds even then when something
went wrong: types, which calls may wait where, what a status says of the room
(`SessionFits`), and that a session has at most one report on its way (`PostsFit`).

    Sound  ==  Typed /\ SessionFits /\ PostsFit
    Ready  ==  ShareEnds /\ RoundsFit
    Fits   ==  nobody Owes => MicrophoneFits /\ ModeFits /\ ShownFits /\ ShareFits /\ ToldFits

Every answer is proved in two parts: what the segment of the call does to state and
call (`HeadFits`, `AudioStartedFits`, `QueuedFits`, ...), and where it lands, that is, whether the
call goes on, is over or has failed (`Landing`, `ReturnedFits`, `ThrownFits`).

The proof changed the model. With the bounds of the run `PreferencesHold` was true of
its first form, and it is false of it with larger ones, as TLC then confirmed: a
display changes after the wait for the shared audio although the session is another
(`voice-mute-deafen.ts:320-323`), and the last round of a join, or its connection,
fails while a sharing goes on (`voice-session.ts:353-366`). Both are crossings the
code does not repair, and `excused` now names them.

**Playback.** `SoundComesBack` needs `DeafUntilAnswered`: a switch that undeafens a
channel shows the preference only when its call has answered, so that until then
no sound is owed.

Only model-checked: the modules of the client other than `CallClient`,
`VoiceSession`, `MuteDeafen` and `PlaybackRecovery`; and all liveness, `RoomsSettle` and
`ActiveEnds` among it: the prover has rules neither for fairness nor for ENABLED.

## 6. Where code and documents disagree

With a run:

- `CallPeerLost`: `call_end` may go out with no peer, because a webhook empties
  and deletes the call between the unlock and the emit. ADR-0032 says that
  eviction comes after the emit so that the peer can be resolved.
- `HubStaleLease`: the `expire` of an earlier broken connection survives
  `DisconnectUser` and takes the account offline while a new socket is open. The
  product specification says that an account is online while a socket is.
- `FeedDeletion`: `RemoveGuild` deletes the guild from the shared map in its first
  loop and then finds nothing to tell in its second. Its comment says that it
  sends `guild_removed`.
- `FlushRetry`: the periodic flush takes the whole seconds off an open interval
  whatever the write has answered (`hub.go:406-407`), so that a failed write loses
  them. The comment at `hub.go:430-433` says that the next flush retries.
- `CallStranded`: `accept()` sets the store active when its request is answered
  (`voice-call.ts:229-234`) though the end of the call was handled meanwhile. The
  overlay then shows a call that `hangup()` cannot end, having no id, and signals of
  others are dropped (412): the deafening of the channel stays. `CONTEXT.md:259` says
  that it is lifted by itself.
- `ClientSyncStuck`: when a snapshot fails on an open socket, the client closes
  the socket with code 1012 (`app-socket.ts:111-119`; 1008 in the other branch).
  Browsers take 1000 and 3000 to 4999 from a page and throw at any other, so the
  socket stays open, the page stays disconnected and no retry is scheduled.
  `docs/architecture.md:38` says that the client reconnects every 2.5 seconds.
- `SpeechRetry`: an engine that fails while it captures (`SpeechDetectionEngine.ts:208`)
  keeps `activeDeviceId`, and `start` (`:74`) returns at once for the active device:
  the retry at a change of devices, which `SpeechDetectionLifecycle.ts:17-18` and
  ADR-0024 announce, does nothing.

Without a run, met while modelling the server:

- `RemoveParticipantFromGuild` may remove an account from another guild's channel
  when it moves between the check and the removal. Its comment excludes that.
- A store error at a handshake registers the socket with no guilds
  (`websocket.go:62-75`): it stays connected, online and deaf. An `expire` of before a
  `DisconnectUser` drops the guilds' entry under a socket that has come back
  (`hub.go:203-212`), the same lease as in `HubStaleLease`.
- A handshake authenticated before a revocation registers after it; one that
  read the fixed-away setting before a change puts the old value back.
- Membership handlers that overlap each other or a handshake may leave a former
  member subscribed, or a member unsubscribed, until the next connection.
- `DeleteRoomsExcept` uses a channel list read before `Refresh`, so that the room
  of a channel created in between can be deleted.
- A failed token request deletes a revocation it found. Signing does not fail in
  practice; `RevocationHolds` excepts it.

And while modelling the client; each is in the model, as a crossing that a history
(`excused`, `raced`, `behind`, `stale`, `missed`) names or as a behaviour the
properties do not exclude:

- `voice-call.ts`: an answer that is handled while another call is shown ends or
  joins that one (229-277); a blocked call's rejection that is refused because the
  call was accepted meanwhile ends it here only (251-258); an invitation beside a
  call that the store still shows is dropped (412). These are the crossing `"other"`,
  and the properties leave them out; an accept answered after the end of its own call
  is `"over"`, which they do not leave out.
- `SpeechDetectionEngine.ts`: the end of any start clears `startPromise` whoever's it
  is by then (83-85), so that two captures of one operation are opened and one is
  lost with the microphone held; the comment at 45-47 says that it prevents concurrent
  captures (`clash`). A `start` that finds another device's under way returns that one's
  promise (70-85), and a change that finds one under way or open does not look whether
  it fits, although the comment (70-71) has a change restart the capture (`excused`). The
  worker of a superseded start is terminated while `ready` is awaited: the start may
  never end, and every later `start` returns its promise.
- `presence-activity.ts`, `voice-presence.ts`: a setting chosen, logged out of or stored
  elsewhere while an earlier one is still posted, an event that contradicts the post
  under way, a post that failed after it was stored, and a failure that rolls back to
  another setting than the account's, leave setting and server apart; an engine that
  fails while "away" is shown changes what is shown and tells nobody.
- `voice-session.ts:575-576`: a microphone track that takes the place of a balanced one
  is played without the balance until the next adjustment.
- `voice-session.ts`: a second join while a switch's leave is being posted
  (275-278); a join while a leave closes its contexts is wiped (383-387); what
  follows `refreshDevices` is not guarded (348-352); a failed join keeps the
  participants' states, and an application's audio shared while it was under way
  (353-366); the `Reconnecting` handler does not ask which
  room it is of (520-523).
- `voice-mute-deafen.ts`: the roll back of a toggle happens although the session
  has changed (192-195); `setCallChannelDeafen` moves no revision (273); a late
  report overwrites what the server said (371); after the wait for the shared audio
  the session is not compared again (320, 335); and a
  reconciliation that no toggle began fails, or gives up after its sixth round, and
  nobody repeats it. An undeafening asks for a resume
  while it is still deafened (325-332).
- `voice-devices.ts`: a choice begins while a round rebinds (273-294); a device
  changes while a join is still being bound to what it was (479-505).
- `voice-application-audio.ts`: the tail of a stop takes the pipeline and session of
  a start begun since (216-228, 329-344); a start that awaits its publication (141)
  or a pause that awaits its mute (175-178) does not look again; a republication
  remembers `wasPaused` from before (243), and overlaps with what is under way. These
  are `excused`. A stop the desktop program refuses is swallowed (154, 225): it goes on
  capturing while nothing is shown as shared, although `background-audio-design.md:254`
  has the listed cases stop the sharing and release the target. A track the room
  refuses to unpublish (143, 337) stays in it. `SharingAgrees` says that nothing else is
  left.
- `app-socket.ts`, `app.ts`: the failure of an old connection's snapshot ends the
  synchronization of the new one (`app-socket.ts:113`); a guild's 403 logs the user
  out (114); the answers of a first load and of a guild switch are not compared with
  the events that came meanwhile (`app.ts:89-103`).
- Messages (`app.ts`): an earlier page brings back what was deleted or cleared while
  it was awaited, or leaves a gap in a list replaced meanwhile (263-268); read marks
  are answered out of order (280); a read mark that outruns an event makes the event
  look handled (441).
- Own account: an empty text is left out of the JSON, so that a client that merges
  the answer keeps the old one; a failure after `app.user` was replaced
  (`app.ts:329`) is not rolled back; of two overlapping failures the second restores
  what the first had wished.
- `MicrophonePublishOrchestrator.ts`: a superseded declaration loses what a later
  one does not repeat.
- `application-sounds/core.ts:684-685`: the loop's period does not ask
  whether the context runs, so that iterations that waited for it are heard at once.
- `call-permissions.ts`: a list or search overtaken by a write is dropped and not
  asked again (152, 276); a write is compared with no later one (214-219), and a
  block set from a ringing call does not refresh the list (240-242). `voice-call.ts:163`: the call's context is not retried; `:244-256`:
  blocking the caller of a call that has ended is reported as half done.
- `AppShell.vue`: the leave dialog outlives its guild (163-165, 600-622), a guild's
  administration opens although another was asked for since (338-359), opening
  a second card never calls the first one's `onClose` (486-499), a voice channel
  deleted while another guild is shown is not left (134-136).
- `OverlayApp.vue:31-38`: the answer of `getState` may overwrite a newer state.

## 7. Not modelled, and what is left

Not modelled at all:

- *Voice time* (`media/voice_time.go`): a tick over the listing that `VoiceRooms`
  has, into SQL. What it should credit while an account is listed twice is said
  neither by a document nor by a test, so that there is nothing to check it against.
- *Accounts and sessions, guild store* (`internal/store`): SQL transactions on one
  writer, hence sequential; their results are inputs of the models.
- *Pokes and limits*: a sliding window under one mutex, sequential and covered by
  its unit tests.
- *Images, changelog, configuration*: pure input and output.
- *The other user interface*: rendering. Its clicks are inputs of the models.
- *Deployment and tests*.

Left out of what is modelled:

- Calls: participants of generation 0, which only tokens of old releases make;
  `RemoveCallParticipant`, which nothing calls; the durations and volumes shown.
- Voice rooms: rooms of the old naming, publish permission, names, the deafened
  attribute, the creation of channels.
- Hub and feed: who may see whom (all users share a guild), exclusions of a
  broadcast, ownership transfer, typing indicators.
- Client: wording, layout and scrolling; the platform administration pages and
  uploads; the registration of shortcuts; the order of the participant list; how
  a level is measured (signal processing; what is *decided* from it is modelled);
  cooldowns of one-shot sounds; the expiry of timed blocks; the overlay window.

- Devices: browsers whose outputs cannot be selected.

Hazards without a property: two that the code loses by design of its order
(`websocket.go:60`, `membership_reconcile.go:41`) and one against its comment
(`livekit.go:291`), all three behaviours of the models but with no run of their own;
one that needs the creation of channels (`reconcile.go:55`); one that differs in
wording only (`voice-call.ts:244`); the second join of `voice-session.ts:275`, which
the model has and `SessionAgrees` leaves out (`raced`). Nor does a
property speak of an active call in which nobody was ever recorded, because nobody
came or the webhooks were lost: neither `Refresh` nor the expiry ends it
(`livekit.go:398-404`), only a party's hang-up or a restart.

What is worth adding next: the creation of channels in `VoiceRooms`, with pruning
and voice time over it; guild roles and bans with an expiry; a presence register
for `PresenceHub` and a mailbox without gaps for `GuildFeed` with `ClientSync`, as
abstract specifications; a proof of the agreement of the microphone's publication.
