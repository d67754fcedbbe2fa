------------------------------ MODULE MuteDeafen ------------------------------
(***************************************************************************)
(* Mute, deafen and transmission mode of one browser's voice channel:       *)
(* web/src/stores/voice-mute-deafen.ts and the transmission mode of         *)
(* voice-session.ts.  Preferences change at once; what is connected follows *)
(* by "reconcile" loops, which overlap each other, a leave and the reports  *)
(* to the server.                                                           *)
(*                                                                         *)
(* v is the module's state with the part of the session it reads; a call    *)
(* under way is a record with the place it waits at.  The orchestrator of   *)
(* the microphone is only the last state it was asked for: that it gets     *)
(* there is MicrophonePublish.  A room is named by its session.             *)
(***************************************************************************)
EXTENDS Naturals, FiniteSets

CONSTANTS
    Attempts,     \* rounds of a reconciliation (6 in the code)
    MaxActs,      \* bound: toggles, guild mutes, call overlays, reconnections
    MaxSessions,  \* bound: joins
    MaxUpsets     \* bound: failed answers

ASSUME MuteDeafenAssumption ==
    Attempts \in Nat \ {0} /\ MaxActs \in Nat /\ MaxSessions \in Nat /\ MaxUpsets \in Nat

VARIABLES
    v,        \* preferences, what is shown, the connection
    calls,    \* calls of the module under way
    spent,    \* bounds: acts and upsets so far
    excused   \* history: an overlap or a failure the code does not repair

mdVars == <<v, calls, spent, excused>>

Modes == {"voice-activity", "continuous"}
Kinds == {"mute", "deafen", "mode", "guild", "overlay", "recovered", "join"}

Idle ==
    [mic |-> TRUE, deaf |-> FALSE, mode |-> "voice-activity", overlay |-> FALSE,
     muted |-> FALSE, deafened |-> FALSE, guildMuted |-> FALSE, changing |-> {},
     syncError |-> FALSE, revision |-> 0,
     room |-> 0, session |-> 0, status |-> "idle", broken |-> FALSE, ruled |-> FALSE,
     asked |-> FALSE, askedMode |-> "voice-activity", share |-> "off",
     pending |-> {}, flushing |-> 0, posts |-> {}, told |-> FALSE]

\* What an undisturbed join leaves.
Joined == [Idle EXCEPT !.room = 1, !.session = 1, !.status = "connected", !.asked = TRUE]

Init ==
    /\ v \in {Idle, Joined}
    /\ calls = {}
    /\ spent = [acts |-> 0, upsets |-> 0]
    /\ excused = FALSE

TypeOK ==
    /\ v.mic \in BOOLEAN /\ v.deaf \in BOOLEAN /\ v.mode \in Modes /\ v.overlay \in BOOLEAN
    /\ v.changing \subseteq {"mute", "deafen", "mode"}
    /\ v.share \in {"off", "playing", "paused"}
    /\ v.pending \in {{}, {TRUE}, {FALSE}}
    /\ v.room \in {0, v.session}
    /\ v.status \in {"idle", "error", "connecting", "reconnecting", "connected"}
    /\ \A k \in v.changing : Cardinality({c \in calls : c.kind = k}) = 1
    /\ \A c \in calls : c.kind \in Kinds /\ c.session <= v.session /\ c.tries <= Attempts

-----------------------------------------------------------------------------
(* What runs between two awaits: functions of the state and the call. *)

EffectiveDeafened(w) == w.deaf \/ w.overlay

ShouldEnableMicrophone(w) == w.mic /\ ~EffectiveDeafened(w) /\ ~w.guildMuted

SetMicrophone(w, on) == [w EXCEPT !.mic = on, !.revision = @ + 1]
SetDeafened(w, on) == [w EXCEPT !.deaf = on, !.revision = @ + 1]
SetMode(w, mode) == [w EXCEPT !.mode = mode, !.revision = @ + 1]

SyncIdle(w) ==
    IF w.room # 0 THEN w
    ELSE [w EXCEPT !.deafened = EffectiveDeafened(w), !.muted = EffectiveDeafened(w) \/ ~w.mic]

\* connectionReset
Reset(w) == SyncIdle([w EXCEPT !.pending = {}, !.syncError = FALSE, !.guildMuted = FALSE])

\* queueDeafenedSync and the start of flushDeafenedSync: at most one report of
\* a session is on its way, a later value waits for it.
QueueSync(w, value) ==
    IF w.room = 0 THEN w
    ELSE IF w.flushing = w.session THEN [w EXCEPT !.pending = {value}]
    ELSE [w EXCEPT !.pending = {}, !.flushing = w.session,
                   !.posts = @ \cup {[session |-> w.session, value |-> value]}]

Live(w, c) == c.session = w.session /\ w.room = c.session

\* A call and the state after a segment of it.
With(w, c) == [w |-> w, c |-> c]
At(w, c, place) == With(w, [c EXCEPT !.at = place])

\* The head of reconcileConnectedPreferences' loop.
Head(w, c) ==
    LET d == [c EXCEPT !.revision = w.revision, !.tries = @ + 1, !.deaf = EffectiveDeafened(w),
                       !.mic = ShouldEnableMicrophone(w)] IN
    IF c.tries = Attempts THEN At(w, c, "thrown")
    ELSE IF ~Live(w, c) THEN At(w, c, "returned")
    ELSE IF d.deaf THEN At([w EXCEPT !.asked = FALSE], d, "microphone")
    ELSE At(w, d, "audio")

\* After startAudio.
AudioStarted(w, c) ==
    IF ~Live(w, c) THEN At(w, c, "returned")
    ELSE At([w EXCEPT !.asked = c.mic, !.askedMode = w.mode], c, "microphone")

\* The call waits for the report of the session that is current now.
Reports(w, c, value, place) == At(QueueSync(w, value), [c EXCEPT !.waits = w.room], place)

Queued(w, c) == Reports(w, [c EXCEPT !.deaf = FALSE, !.mic = FALSE], c.deaf, "sync")

Deafens(w, c) == Queued([w EXCEPT !.deafened = TRUE, !.muted = TRUE], c)

\* After applyMicrophoneState.
MicrophoneApplied(w, c) ==
    IF ~Live(w, c) THEN At(w, c, "returned")
    ELSE IF c.deaf
         THEN IF w.share = "playing" THEN At([w EXCEPT !.share = "paused"], c, "pause") ELSE Deafens(w, c)
    ELSE LET s == [w EXCEPT !.deafened = FALSE, !.muted = ~c.mic] IN
         IF w.share = "paused" THEN At([s EXCEPT !.share = "playing"], c, "resume") ELSE Queued(s, c)

\* After the report of this round.
SyncDone(w, c) == IF c.revision = w.revision THEN At(w, c, "returned") ELSE Head(w, c)

-----------------------------------------------------------------------------
(* What the callers of reconcile do when it returns or throws. *)

Done(w, c) == At([w EXCEPT !.changing = @ \ {c.kind}], c, "done")

\* userToggledMute and userToggledDeafen put the preferences back and reconcile
\* again; only the second asks first whether the session is still the same.
RollBack(w, c) ==
    LET back == IF c.kind = "mute" THEN SetDeafened(SetMicrophone(w, c.back.mic), c.back.deaf)
                ELSE SetDeafened(w, c.back.deaf)
        r == Head(back, [c EXCEPT !.tries = 0, !.again = TRUE]) IN
    IF r.c.at = "returned" THEN Done(r.w, r.c) ELSE r

Thrown(w, c) ==
    CASE c.kind \in {"mute", "deafen"} ->
            IF c.again \/ (c.kind = "deafen" /\ ~Live(w, c)) THEN Done(w, c) ELSE RollBack(w, c)
      [] c.kind = "join" ->
            IF c.session # w.session THEN Done(w, c)
            ELSE Done(Reset([w EXCEPT !.room = 0, !.status = "error", !.broken = FALSE, !.asked = FALSE]), c)
      [] OTHER -> Done(w, c)

Returned_StillChanging(w, c) ==
    IF ~Live(w, c) THEN At(w, c, "done")
    ELSE IF c.kind # "join" THEN Done(w, c)
    ELSE Reports(w, c, EffectiveDeafened(w), "last-sync")

\* applyConnectionPreferences reports once more and starts over when a
\* preference changed meanwhile.
Returned(w, c) ==
    IF c.kind # "join" \/ ~Live(w, c) THEN Done(w, c)
    ELSE Reports(w, c, EffectiveDeafened(w), "last-sync")

JoinRound(w, c) ==
    IF c.round = Attempts THEN Thrown(w, c)
    ELSE At(w, [c EXCEPT !.round = @ + 1, !.outer = w.revision, !.tries = 0], "devices")

JoinSynced(w, c) ==
    IF ~Live(w, c) THEN Done(w, c)
    ELSE IF c.outer = w.revision THEN Done([w EXCEPT !.status = "connected"], c)
    ELSE JoinRound(w, c)

Proceed(r) ==
    CASE r.c.at = "returned" -> Returned(r.w, r.c)
      [] r.c.at = "thrown"   -> Thrown(r.w, r.c)
      [] OTHER               -> r

-----------------------------------------------------------------------------
(* Actions. *)

Act == spent.acts < MaxActs /\ spent' = [spent EXCEPT !.acts = @ + 1]
Fails(ok) == IF ok THEN UNCHANGED spent
             ELSE spent.upsets < MaxUpsets /\ spent' = [spent EXCEPT !.upsets = @ + 1]

Call(kind) ==
    [id |-> CHOOSE i \in 0..(MaxActs + MaxSessions) : \A c \in calls : c.id # i, kind |-> kind, session |-> v.session,
     at |-> "start", revision |-> 0, outer |-> 0, deaf |-> FALSE, mic |-> FALSE, tries |-> 0, round |-> 0,
     waits |-> 0, again |-> FALSE,
     back |-> [mic |-> v.mic, deaf |-> v.deaf, mode |-> v.mode]]

\* A revision that no call remembers is as good as none.
Kept(w, remembering) == IF remembering = {} THEN [w EXCEPT !.revision = 0] ELSE w

\* A call goes on from one await to the next.
Goes(c, r) ==
    LET p == Proceed(r)
        rest == (calls \ {c}) \cup (IF p.c.at = "done" THEN {} ELSE {p.c}) IN
    /\ v' = Kept(p.w, rest)
    /\ calls' = rest

Begin(r) == Goes(r.c, r)

Reconciling == {c \in calls : c.session = v.session}

Connected(w) == w.room # 0 /\ w.status # "connecting"

\* A toggle of the user: with no connection only what is shown changes.
Toggle(kind, w) ==
    /\ v.changing \cap {"mute", "deafen"} = {} /\ Act
    /\ IF Connected(v)
       THEN Begin(Head([w EXCEPT !.changing = @ \cup {kind}], Call(kind)))
       ELSE /\ v' = Kept([w EXCEPT !.deafened = w.deaf, !.muted = w.deaf \/ ~w.mic], calls)
            /\ UNCHANGED calls
    /\ UNCHANGED excused

UserToggledMute ==
    Toggle("mute", IF v.deaf THEN SetMicrophone(SetDeafened(v, FALSE), TRUE) ELSE SetMicrophone(v, ~v.mic))

UserToggledDeafen == Toggle("deafen", SetDeafened(v, ~v.deaf))

\* toggleTransmissionMode asks the microphone itself, beside any reconciliation.
ToggleTransmissionMode ==
    /\ v.changing = {} /\ Act
    /\ LET w == SetMode(v, CHOOSE m \in Modes : m # v.mode) IN
       IF v.status = "connected" /\ ~v.muted /\ ~v.deafened /\ ~v.guildMuted
       THEN /\ v' = [w EXCEPT !.changing = @ \cup {"mode"}, !.askedMode = w.mode]
            /\ calls' = calls \cup {[Call("mode") EXCEPT !.at = "mode"]}
       ELSE v' = Kept(w, calls) /\ UNCHANGED calls
    /\ UNCHANGED excused

\* A moderator mutes or unmutes the user, or the guild is shown again.
GuildMuteChanged_NoRevision(value) ==
    /\ v.status # "idle" /\ v.status # "error" /\ Act
    /\ LET w == [v EXCEPT !.ruled = value, !.guildMuted = value] IN
       IF v.room = 0 THEN v' = Kept(SyncIdle(w), calls) /\ UNCHANGED calls
       ELSE IF value THEN Begin(At([w EXCEPT !.share = "off"], Call("guild"), "stop"))
       ELSE Begin(Head(w, Call("guild")))
    /\ UNCHANGED excused

GuildMuteChanged(value) ==
    /\ v.status # "idle" /\ v.status # "error" /\ Act
    /\ LET w == [v EXCEPT !.ruled = value, !.guildMuted = value,
                          !.revision = @ + IF v.guildMuted # value THEN 1 ELSE 0] IN
       IF v.room = 0 THEN v' = Kept(SyncIdle(w), calls) /\ UNCHANGED calls
       ELSE IF value THEN Begin(At([w EXCEPT !.share = "off"], Call("guild"), "stop"))
       ELSE Begin(Head(w, Call("guild")))
    /\ UNCHANGED excused

\* A 1:1 call begins or ends: setCallChannelDeafen counts no revision, so a
\* reconciliation under way does not learn of it.
SetCallChannelDeafen(active) ==
    /\ v.overlay # active /\ Act
    /\ LET w == [v EXCEPT !.overlay = active] IN
       IF Connected(v) THEN Begin(Head(w, Call("overlay"))) ELSE v' = SyncIdle(w) /\ UNCHANGED calls
    /\ excused' = (excused \/ Reconciling # {})

\* LiveKit lost its transport, while the room is being joined as well.
Reconnecting ==
    /\ v.room # 0 /\ ~v.broken /\ (\A c \in calls : c.at # "connect") /\ Act
    /\ v' = [v EXCEPT !.broken = TRUE, !.status = "reconnecting"]
    /\ UNCHANGED <<calls, excused>>

\* LiveKit has it again: the preferences are applied anew.
TransportRecovered ==
    /\ v.broken
    /\ Begin(Head([v EXCEPT !.broken = FALSE, !.status = "connected"], Call("recovered")))
    /\ UNCHANGED <<spent, excused>>

\* Sharing an application's audio is for who is neither deafened nor muted by
\* the guild (ApplicationMedia).
Share ==
    /\ v.status = "connected" /\ v.share = "off" /\ ~v.deafened /\ ~v.ruled /\ Act
    /\ v' = [v EXCEPT !.share = "playing"]
    /\ UNCHANGED <<calls, excused>>

\* The websocket is online again: retryDeafenedSync.
SocketOnline ==
    /\ v.syncError /\ Act
    /\ v' = QueueSync(v, v.deafened)
    /\ UNCHANGED <<calls, excused>>

-----------------------------------------------------------------------------
(* The session, as far as this module sees it (VoiceSession has the rest). *)

JoinBegins ==
    /\ v.status \in {"idle", "error"} /\ v.session < 2 * MaxSessions
    /\ v' = [Reset([v EXCEPT !.session = @ + 1, !.status = "connecting"])
                EXCEPT !.guildMuted = v.ruled, !.told = v.deaf]
    /\ UNCHANGED <<calls, spent, excused>>

RoomCreated ==
    /\ v.status = "connecting" /\ v.room = 0
    /\ v' = [v EXCEPT !.room = v.session]
    /\ calls' = calls \cup {[Call("join") EXCEPT !.at = "connect"]}
    /\ UNCHANGED <<spent, excused>>

\* leave and the lost connection.
Leave ==
    /\ v.status \in {"connecting", "reconnecting", "connected"}
    /\ v' = Reset([v EXCEPT !.session = @ + 1, !.room = 0, !.status = "idle", !.broken = FALSE,
                            !.asked = FALSE, !.share = "off"])
    /\ UNCHANGED <<calls, spent, excused>>

-----------------------------------------------------------------------------
(* Answers. *)

\* A failure nobody repairs: of a reconciliation no toggle began, of the one
\* that puts preferences back, one told to a later session, or of a join during
\* which a sharing began, which goes on without it (voice-session.ts:354-366).
Unrepaired(w, c) ==
    \/ c.kind \in {"guild", "overlay", "recovered"} \/ c.again
    \/ c.kind = "mute" /\ ~Live(w, c)
    \/ c.kind = "join" /\ w.share # "off"

\* nextRoom.connect
RoomConnects(c, ok) ==
    /\ c.at = "connect" /\ Fails(ok)
    /\ Goes(c, IF ~Live(v, c) THEN Done(v, c) ELSE IF ok THEN JoinRound(v, c) ELSE Thrown(v, c))
    /\ excused' = (excused \/ (~ok /\ Unrepaired(v, c)))

DevicesApplied(c) ==
    /\ c.at = "devices"
    /\ Goes(c, IF Live(v, c) THEN Head(v, c) ELSE At(v, c, "returned"))
    /\ UNCHANGED <<spent, excused>>

AudioAnswered(c, ok) ==
    /\ c.at = "audio" /\ Fails(ok)
    /\ Goes(c, IF ok THEN AudioStarted(v, c) ELSE At(v, c, "thrown"))
    /\ excused' = (excused \/ (~ok /\ Unrepaired(v, c)))

MicrophoneAnswered(c, ok) ==
    /\ c.at = "microphone" /\ Fails(ok)
    /\ Goes(c, IF ok THEN MicrophoneApplied(v, c) ELSE At(v, c, "thrown"))
    /\ excused' = (excused \/ (~ok /\ Unrepaired(v, c)))

ShareAnswered(c) ==
    /\ c.at \in {"pause", "resume", "stop"}
    /\ Goes(c, CASE c.at = "pause" -> Deafens(v, c) [] c.at = "resume" -> Queued(v, c) [] OTHER -> Head(v, c))
    /\ excused' = (excused \/ (c.at # "stop" /\ v.room # 0 /\ ~Live(v, c)))
    /\ UNCHANGED spent

\* Who waits for the reports goes on as soon as they end, before anything else.
Released(c) == c.at \in {"sync", "last-sync"} /\ \A p \in v.posts : p.session # c.waits

\* It starts over once too often.
LastRound(w, c) ==
    \/ c.at = "sync" /\ c.tries = Attempts /\ c.revision # w.revision
    \/ c.at = "last-sync" /\ c.round = Attempts /\ c.outer # w.revision

SyncAnswered(c) ==
    /\ Released(c)
    /\ Goes(c, IF c.at = "sync" THEN SyncDone(v, c) ELSE JoinSynced(v, c))
    /\ excused' = (excused \/ (LastRound(v, c) /\ Unrepaired(v, c)))
    /\ UNCHANGED spent

\* The microphone took the mode, or not: the preference is put back.
ModeAnswered(c, ok) ==
    /\ c.at = "mode" /\ Fails(ok)
    /\ LET back == SetMode(v, c.back.mode) IN
       Goes(c, IF ok \/ ~Live(v, c) THEN Done(v, c)
               ELSE At([back EXCEPT !.askedMode = back.mode], c, "mode-back"))
    /\ UNCHANGED excused

ModeBackAnswered(c, ok) ==
    /\ c.at = "mode-back" /\ Fails(ok)
    /\ Goes(c, Done([v EXCEPT !.muted = IF ok THEN @ ELSE ~v.asked], c))
    /\ excused' = (excused \/ ~ok)

\* The report of flushDeafenedSync is answered; the value that waits goes next.
\* One answered when its session is over changes nothing but the server.
Posted(p, ok) ==
    /\ Fails(ok)
    /\ \E told \in IF ok THEN {p.value} ELSE {p.value, v.told} :
        LET freed == [v EXCEPT !.posts = @ \ {p}, !.told = told,
                               !.flushing = IF @ = p.session THEN 0 ELSE @]
            noted == [freed EXCEPT !.syncError = ~ok, !.pending = IF ok THEN @ ELSE {v.deafened}] IN
        v' = IF p.session # v.session THEN freed
             ELSE IF ok /\ v.pending # {} THEN QueueSync(noted, CHOOSE x \in v.pending : TRUE)
             ELSE noted
    /\ excused' = (excused \/ p.session # v.session)
    /\ UNCHANGED calls

-----------------------------------------------------------------------------
Answers ==
    \/ \E c \in calls : DevicesApplied(c) \/ ShareAnswered(c)
    \/ \E c \in calls, ok \in BOOLEAN : AudioAnswered(c, ok) \/ MicrophoneAnswered(c, ok)
                                        \/ RoomConnects(c, ok) \/ ModeAnswered(c, ok) \/ ModeBackAnswered(c, ok)
    \/ \E p \in v.posts, ok \in BOOLEAN : Posted(p, ok)

Events ==
    \/ JoinBegins \/ RoomCreated \/ Leave \/ Reconnecting
    \/ UserToggledMute \/ UserToggledDeafen \/ ToggleTransmissionMode \/ TransportRecovered
    \/ Share \/ SocketOnline
    \/ \E value \in BOOLEAN : GuildMuteChanged(value) \/ SetCallChannelDeafen(value)

Turn(A) == (\A c \in calls : ~Released(c)) /\ A

Next == (\E c \in calls : SyncAnswered(c)) \/ Turn(Answers) \/ Turn(Events)

Spec == Init /\ [][Next]_mdVars

\* Audio, microphone, devices and requests answer.
FairSpec == Spec /\ WF_mdVars((\E c \in calls : SyncAnswered(c)) \/ Turn(Answers))

-----------------------------------------------------------------------------
(* Properties. *)

AtRest == calls = {} /\ v.posts = {}

\* However toggles, guild mutes, reconnections, failures and rejoins overlap,
\* when all is answered the connection does what the preferences say: the
\* microphone, its mode, what is shown, the shared audio, and what the server
\* was told, or an error says that it was not.
PreferencesHold ==
    (AtRest /\ v.status = "connected" /\ ~excused) =>
        /\ v.deafened = EffectiveDeafened(v)
        /\ v.muted = ~ShouldEnableMicrophone(v)
        /\ v.asked = ShouldEnableMicrophone(v)
        /\ v.asked => v.askedMode = v.mode
        /\ v.guildMuted = v.ruled
        /\ v.share = "playing" => ~v.deafened /\ ~v.ruled
        /\ v.syncError \/ v.told = v.deafened

\* A toggle comes to an end: the buttons do not stay disabled.
Toggling == v.changing # {}
TogglesEnd == Toggling ~> ~Toggling

=============================================================================
