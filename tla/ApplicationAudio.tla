---------------------------- MODULE ApplicationAudio ----------------------------
(***************************************************************************)
(* An application's sound shared with a voice channel:                      *)
(* web/src/stores/voice-application-audio.ts.  The desktop program captures *)
(* and tells of itself by snapshots and one PCM port for a session; the     *)
(* module publishes what comes over the port in the room.  Its calls        *)
(* overlap with each other, with the snapshots and with the voice session.  *)
(*                                                                         *)
(* A room is named by the number of its join, a pipeline and its track by   *)
(* the number of the start that made it.  Optional values are sets of at    *)
(* most one member.                                                         *)
(***************************************************************************)
EXTENDS Naturals, FiniteSets

CONSTANTS
    MaxStarts,   \* bound: calls of startApplicationAudio
    MaxActs,     \* bound: other calls
    MaxRooms,    \* bound: rooms joined
    MaxUpsets    \* bound: failures, captures that end by themselves

ApplicationAudioAssumption ==
    \A m \in {MaxStarts, MaxActs, MaxRooms, MaxUpsets} : m \in Nat

VARIABLES
    a,        \* the module's state with the part of the session it reads
    calls,    \* calls of the module under way
    desk,     \* the desktop program: its session, and the latest snapshot;
              \* history: the session it refused to stop
    wire,     \* snapshots and ports on their way
    live,     \* tracks published in LiveKit's room
    spent,    \* bounds
    excused   \* history: an overlap the code does not repair

aaVars == <<a, calls, desk, wire, live, spent, excused>>

States == {"idle", "selecting", "starting", "playing", "paused", "stopping", "error"}

NoSnapshot == [session |-> {}, revision |-> 0, state |-> "idle", cancelled |-> FALSE]

Init ==
    /\ a = [state |-> "idle", operating |-> FALSE, session |-> {}, revision |-> 0, generation |-> 0,
            pipeline |-> {}, publication |-> {}, auto |-> FALSE, pending |-> {}, waiter |-> {}, granted |-> {},
            room |-> 0, joins |-> 0, connected |-> FALSE, muted |-> FALSE, deafened |-> FALSE]
    /\ calls = {} /\ live = {}
    /\ desk = [session |-> 0, sessions |-> 0, snapshot |-> NoSnapshot, kept |-> 0]
    /\ wire = [snapshots |-> {}, ports |-> {}]
    /\ spent = [starts |-> 0, acts |-> 0, upsets |-> 0]
    /\ excused = FALSE

TypeOK ==
    /\ a.state \in States /\ a.operating \in BOOLEAN
    /\ \A f \in {a.session, a.publication, a.pending, a.waiter, a.granted, a.pipeline} : Cardinality(f) <= 1
    /\ a.operating => \E c \in calls : c.kind \in {"start", "pause", "resume"}
    /\ desk.session \in 0..desk.sessions
    /\ \A t \in live : t.room = a.room

-----------------------------------------------------------------------------
(* What runs between two awaits: functions of the state and the call.  A call *)
(* waits at a place; "cleanup" is a part of several.                        *)

With(w, c) == [w |-> w, c |-> c, begun |-> {}]
At(w, c, place) == With(w, [c EXCEPT !.at = place])

Fresh(kind) ==
    [kind |-> kind, at |-> "begin", generation |-> a.generation, session |-> {}, room |-> a.room, pipeline |-> 0,
     publication |-> {}, reply |-> {}, after |-> "done", auto |-> FALSE, turn |-> 0]

\* A call ends; a leave goes on to close the room.
Ends(w, c) ==
    At([w EXCEPT !.operating = IF c.kind \in {"start", "pause", "resume"} THEN FALSE ELSE @], c,
       IF c.kind = "leave" THEN "left" ELSE "done")

\* cleanupApplicationAudioMedia, its three parts.
CleanupEnds(w, c) ==
    LET s == [w EXCEPT !.session = {}, !.auto = FALSE] IN
    CASE c.after = "idle" -> Ends([s EXCEPT !.state = "idle"], c)
      [] c.after = "stop" /\ c.session # {} -> At(s, c, "ask stop")
      [] c.after = "stop" -> Ends([s EXCEPT !.state = "idle"], c)
      [] OTHER -> Ends(s, c)

CleanupPipeline(w, c) ==
    LET s == [w EXCEPT !.pipeline = {}] IN
    IF w.pipeline = {} THEN CleanupEnds(s, c) ELSE At(s, c, "destroy")

Cleanup(w, c, after) ==
    LET s == [w EXCEPT !.waiter = {}, !.pending = {}, !.publication = {}]
        d == [c EXCEPT !.after = after, !.publication = w.publication] IN
    IF c.room # 0 /\ w.publication # {} THEN At(s, d, "unpublish") ELSE CleanupPipeline(s, d)

\* stopApplicationAudio
Stop(w, c) ==
    LET s == [w EXCEPT !.generation = @ + 1] IN
    IF w.session = {} /\ w.pipeline = {} /\ w.publication = {} THEN Ends(s, c)
    ELSE Cleanup([s EXCEPT !.state = "stopping", !.auto = FALSE], [c EXCEPT !.session = w.session, !.room = w.room],
                 "stop")

\* The catch of startApplicationAudio.
Failed(w, c) ==
    LET session == IF c.session # {} THEN c.session ELSE w.session IN
    IF session # {} THEN At(w, [c EXCEPT !.session = session], "ask stop") ELSE Cleanup(w, c, "idle")

\* applyApplicationAudioSnapshot: an old one, one of another session, or one
\* nobody asked for is dropped.
Ignored(w, n) ==
    \/ n.revision < w.revision
    \/ w.session # {} /\ n.session # {} /\ n.session # w.session
    \/ w.session = {} /\ n.session # {} /\ w.state \notin {"selecting", "starting"}

Applied(w, n) ==
    IF Ignored(w, n) THEN With(w, Fresh("snapshot"))
    ELSE LET s == [w EXCEPT !.revision = n.revision, !.state = n.state,
                            !.session = IF n.session # {} THEN n.session ELSE @]
             sync(m) == IF \E t \in live : t.track \in s.publication /\ t.muted # m
                        THEN {[Fresh("sync") EXCEPT !.at = IF m THEN "mute" ELSE "unmute", !.publication = s.publication]}
                        ELSE {}
             gone == Cleanup(s, Fresh("snapshot"), "done") IN
         CASE n.state \in {"playing", "paused"} ->
                 [With(s, Fresh("snapshot")) EXCEPT !.begun = sync(n.state = "paused")]
           [] n.state = "error" \/ (n.state = "idle" /\ s.session # {}) ->
                 [With([gone.w EXCEPT !.state = "idle"], Fresh("snapshot")) EXCEPT
                     !.begun = IF gone.c.at = "done" THEN {} ELSE {gone.c}]
           [] OTHER -> With(s, Fresh("snapshot"))

\* The rest of a call, with what the snapshot it was answered began.
Then(r, c, Rest(_, _)) == LET t == Rest(r.w, c) IN [t EXCEPT !.begun = @ \cup r.begun]

\* waitForApplicationAudioPort
AwaitPort(w, c) ==
    IF w.pending # {} /\ w.pending = c.session
    THEN At([w EXCEPT !.pending = {}, !.granted = c.session], c, "port")
    ELSE At([w EXCEPT !.pending = {}, !.waiter = c.session], c, "port")

\* After bridge.start().
Started(w, c, n) ==
    LET d == [c EXCEPT !.session = n.session]
        r == Applied(w, n)
        session == IF n.session # {} THEN n.session ELSE r.w.session
        rest(s, e) ==
            IF n.cancelled \/ (n.state = "idle" /\ n.session = {}) THEN Cleanup(s, e, "idle")
            ELSE IF session = {} \/ n.state \notin {"starting", "playing", "paused"} THEN Failed(s, e)
            ELSE AwaitPort([s EXCEPT !.session = session, !.state = n.state],
                           [e EXCEPT !.session = session, !.reply = {n}])
    IN IF c.generation # w.generation \/ w.muted THEN Failed(w, d) ELSE Then(r, d, rest)

\* The port is there, or waiting for it ended.
Ported(w, c, ok) ==
    LET s == [w EXCEPT !.granted = {}] IN
    IF ~ok \/ c.generation # w.generation \/ w.pipeline # {c.pipeline} \/ w.room # c.room \/ w.muted
    THEN Failed(s, c) ELSE At(s, c, "publish")

StartPublished_RoomOnly(w, c) ==
    IF w.room # c.room THEN At(w, c, "undo")
    ELSE LET s == [w EXCEPT !.publication = {c.pipeline}] IN
         IF \E n \in c.reply : n.state = "paused" THEN At(s, c, "mute") ELSE Ends(s, c)

StartPublished(w, c) ==
    IF w.room # c.room \/ w.session # c.session THEN At(w, c, "undo")
    ELSE LET s == [w EXCEPT !.publication = {c.pipeline}] IN
         IF \E n \in c.reply : n.state = "paused" THEN At(s, c, "mute") ELSE Ends(s, c)

\* After bridge.pause() and bridge.resume().
Paused(w, c, n) ==
    IF w.session # c.session \/ c.generation # w.generation THEN Ends(w, c)
    ELSE LET toggled(s, d) ==
                IF s.publication = {} THEN
                     Ends([s EXCEPT !.state = IF c.kind = "pause" THEN "paused" ELSE "playing",
                                    !.auto = c.kind = "pause" /\ c.auto], d)
                ELSE At(s, [d EXCEPT !.publication = s.publication],
                        IF c.kind = "pause" THEN "mute" ELSE "unmute") IN
         Then(Applied(w, n), c, toggled)

\* The desktop program refused.
NotPaused(w, c) ==
    IF c.kind = "pause" /\ c.auto THEN Stop(w, c)
    ELSE Ends([w EXCEPT !.auto = IF c.kind = "resume" /\ c.auto THEN FALSE ELSE @], c)

\* After the track was muted or unmuted.
Muted(w, c) ==
    CASE c.kind = "pause"  -> Ends([w EXCEPT !.state = "paused", !.auto = c.auto], c)
      [] c.kind = "resume" -> Ends([w EXCEPT !.state = "playing", !.auto = FALSE], c)
      [] c.kind = "start"  -> Ends(w, c)
      [] OTHER -> At(w, c, "done")

-----------------------------------------------------------------------------
(* Calls. *)

May(what, bound) == spent[what] < bound
Spend(what) == spent' = [spent EXCEPT ![what] = @ + 1]
Fails(ok) == IF ok THEN UNCHANGED spent ELSE May("upsets", MaxUpsets) /\ Spend("upsets")

\* Muting a track waits for the mutings before it.
Mutes(c) == c.at \in {"mute", "unmute"}
Queue(S) ==
    LET turn == Cardinality({c.turn : c \in {d \in calls : Mutes(d)}}) + 1 IN
    {IF Mutes(c) THEN [c EXCEPT !.turn = turn] ELSE c : c \in S}

Goes(c, r) ==
    /\ a' = r.w
    /\ calls' = (calls \ {c}) \cup Queue(r.begun \cup (IF r.c.at = "done" THEN {} ELSE {r.c}))

Start ==
    /\ ~a.operating /\ a.session = {}
    /\ a.room # 0 /\ a.connected /\ ~a.muted /\ ~a.deafened
    /\ May("starts", MaxStarts) /\ Spend("starts")
    /\ LET n == spent.starts + 1 IN
       /\ a' = [a EXCEPT !.generation = @ + 1, !.operating = TRUE, !.state = "selecting", !.pipeline = {n}]
       /\ calls' = calls \cup {[Fresh("start") EXCEPT !.at = "initialize", !.generation = @ + 1, !.pipeline = n]}
    \* The tail of a stop under way would take the new sharing for its own.
    /\ excused' = (excused \/ calls # {})
    /\ UNCHANGED <<desk, wire, live>>

\* The user pauses and goes on; deafening does so by itself (MuteDeafen).
Toggle(kind, auto) ==
    /\ a.session # {} /\ ~a.operating /\ a.state = (IF kind = "pause" THEN "playing" ELSE "paused")
    /\ kind = "resume" /\ auto => a.auto
    /\ auto => a.connected
    /\ May("acts", MaxActs) /\ Spend("acts")
    /\ a' = [a EXCEPT !.operating = TRUE, !.deafened = IF auto THEN kind = "pause" ELSE @]
    /\ calls' = calls \cup {[Fresh(kind) EXCEPT !.at = IF kind = "pause" THEN "ask pause" ELSE "ask resume", !.session = a.session, !.auto = auto]}
    /\ excused' = (excused \/ \E c \in calls : c.kind = "republish")
    /\ UNCHANGED <<desk, wire, live>>

\* The button, disabled while something changes.
UserStops ==
    /\ ~a.operating /\ a.state \in {"playing", "paused"}
    /\ May("acts", MaxActs) /\ Spend("acts")
    /\ Goes([at |-> "none"], Stop(a, Fresh("stop")))
    /\ UNCHANGED <<desk, wire, live, excused>>

\* A moderator mutes the account: guildMuteChanged stops the sharing.
GuildMutes ==
    /\ a.room # 0 /\ ~a.muted /\ May("acts", MaxActs) /\ Spend("acts")
    /\ Goes([at |-> "none"], Stop([a EXCEPT !.muted = TRUE], Fresh("stop")))
    /\ UNCHANGED <<desk, wire, live, excused>>

\* The channel's settings changed: republishBackgroundAudio.  It asks first
\* whether the sharing is paused, and forgets what changes meanwhile.
Republish ==
    /\ a.room # 0 /\ a.publication # {} /\ May("acts", MaxActs) /\ Spend("acts")
    /\ calls' = calls \cup {[Fresh("republish") EXCEPT !.at = "unpublish", !.publication = a.publication,
                                !.auto = a.state = "paused"]}
    /\ excused' = (excused \/ calls # {})
    /\ UNCHANGED <<a, desk, wire, live>>

-----------------------------------------------------------------------------
(* Answers. *)

\* A cleanup forgets the session last, after its awaits: a call that goes on
\* meanwhile takes the sharing for whole; and no call asks again after the
\* track was muted.
Overtaken(c) ==
    /\ c.kind \in {"start", "pause", "resume", "republish"}
    /\ c.kind = "start" => a.session = c.session
    /\ \/ \E e \in calls \ {c} : e.at \in {"unpublish", "destroy"}
       \/ c.at \in {"mute", "unmute"} /\ (c.generation # a.generation \/ a.session = {})
       \/ c.at = "publish" /\ a.pipeline = {}

Initialized(c, ok) ==
    /\ c.at = "initialize" /\ Fails(ok)
    /\ Goes(c, IF ok /\ c.generation = a.generation THEN At(a, c, "ask start") ELSE Failed(a, c))
    /\ UNCHANGED <<desk, wire, live, excused>>

Snapshot(session, state, cancelled) ==
    [session |-> session, revision |-> desk.snapshot.revision + 1, state |-> state, cancelled |-> cancelled]

\* The desktop program, whose messages arrive in the order it sends them: asked to start it lets the user choose, which the user
\* may cancel; what is not of its session it does not do.
DeskAsked(c, chosen) ==
    /\ c.at \in {"ask start", "ask pause", "ask resume", "ask stop"}
    /\ LET mine == c.session = {desk.session}
           n == IF c.at = "ask start"
                THEN IF chosen THEN Snapshot({desk.sessions + 1}, "playing", FALSE) ELSE Snapshot({}, "idle", TRUE)
                ELSE IF c.at = "ask stop" THEN Snapshot({}, "idle", FALSE)
                ELSE Snapshot(c.session, IF c.at = "ask pause" THEN "paused" ELSE "playing", FALSE)
       IN /\ chosen \/ c.at = "ask start"
          /\ IF chosen THEN UNCHANGED spent ELSE Fails(FALSE)
          /\ IF c.at = "ask start" \/ mine
             THEN /\ desk' = [desk EXCEPT !.session = IF n.session = {} THEN 0 ELSE CHOOSE s \in n.session : TRUE,
                                           !.sessions = @ + (IF c.at = "ask start" /\ chosen THEN 1 ELSE 0),
                                           !.snapshot = n]
                  /\ wire' = [snapshots |-> wire.snapshots \cup {n},
                              ports |-> wire.ports \cup IF c.at = "ask start" THEN n.session ELSE {}]
             ELSE UNCHANGED <<desk, wire>>
          /\ calls' = (calls \ {c}) \cup
                {[c EXCEPT !.at = "answer", !.after = c.at, !.reply = IF c.at = "ask start" \/ mine THEN {n} ELSE {}]}
    /\ UNCHANGED <<a, live, excused>>

\* The desktop program rejects the call and does nothing.
DeskRefuses(c) ==
    /\ c.at \in {"ask start", "ask pause", "ask resume", "ask stop"} /\ Fails(FALSE)
    /\ desk' = [desk EXCEPT !.kept = IF c.at = "ask stop" /\ c.session = {desk.session} THEN desk.session ELSE @]
    /\ calls' = (calls \ {c}) \cup {[c EXCEPT !.at = "answer", !.after = c.at, !.reply = {}]}
    /\ UNCHANGED <<a, wire, live, excused>>

\* The application is closed, or its capture fails.
SourceExits ==
    /\ desk.session # 0 /\ Fails(FALSE)
    /\ LET n == Snapshot({desk.session}, "error", FALSE) IN
       /\ desk' = [desk EXCEPT !.session = 0, !.snapshot = [n EXCEPT !.session = {}, !.state = "idle"]]
       /\ wire' = [wire EXCEPT !.snapshots = @ \cup {n}]
    /\ UNCHANGED <<a, calls, live, excused>>

Answered(c) ==
    /\ c.at = "answer" /\ \A n \in c.reply, o \in wire.snapshots : n.revision <= o.revision
    /\ LET n == CHOOSE n \in c.reply : TRUE IN
       Goes(c, CASE c.after = "ask start" -> IF c.reply = {} THEN Failed(a, c)
                                             ELSE Started(a, [c EXCEPT !.after = "done"], n)
                 [] c.after = "ask stop"  ->
                       IF c.kind = "start" THEN Cleanup(a, c, "idle") ELSE Ends([a EXCEPT !.state = "idle"], c)
                 [] c.reply = {} -> NotPaused(a, c)
                 [] OTHER -> Paused(a, c, n))
    /\ excused' = (excused \/ Overtaken(c))
    /\ UNCHANGED <<desk, wire, live, spent>>

SnapshotTold(n) ==
    /\ n \in wire.snapshots /\ \A o \in wire.snapshots : n.revision <= o.revision
    /\ \A c \in calls : c.at = "answer" => \A o \in c.reply : n.revision <= o.revision
    /\ wire' = [wire EXCEPT !.snapshots = @ \ {n}]
    /\ Goes([at |-> "none"], [Applied(a, n) EXCEPT !.c.at = "done"])
    /\ UNCHANGED <<desk, live, spent, excused>>

\* handleApplicationAudioPcmPort
PortArrives(s) ==
    /\ s \in wire.ports
    /\ wire' = [wire EXCEPT !.ports = @ \ {s}]
    /\ a' = IF a.waiter = {s} THEN [a EXCEPT !.waiter = {}, !.granted = {s}]
            ELSE IF a.session = {s} \/ (a.session = {} /\ a.state \in {"selecting", "starting"})
            THEN [a EXCEPT !.pending = {s}]
            ELSE a
    /\ UNCHANGED <<calls, desk, live, spent, excused>>

\* The waiter has its port, was rejected, or its time is over.
PortAwaited(c, late) ==
    /\ c.at = "port"
    /\ IF late THEN a.waiter = c.session /\ Fails(FALSE) ELSE a.waiter # c.session /\ UNCHANGED spent
    /\ Goes(c, Ported([a EXCEPT !.waiter = IF late THEN {} ELSE @], c, a.granted = c.session))
    /\ UNCHANGED <<desk, wire, live, excused>>

\* A track goes out in the room, unless the room is gone.
Published(c, ok) ==
    /\ c.at = "publish" /\ Fails(ok)
    /\ LET track == IF c.kind = "start" THEN {c.pipeline} ELSE c.publication
           stale == c.generation # a.generation \/ a.room # c.room IN
       /\ live' = live \cup IF ok /\ a.room = c.room THEN {[room |-> c.room, track |-> t, muted |-> FALSE, stuck |-> FALSE] : t \in track}
                            ELSE {}
       /\ IF c.kind = "start"
          THEN Goes(c, IF ok THEN StartPublished(a, c) ELSE Failed(a, c))
          ELSE Goes(c, IF ~ok THEN Stop(a, c)
                       ELSE IF stale THEN At(a, c, "undo")
                       ELSE IF c.auto THEN At([a EXCEPT !.publication = track], c, "mute")
                       ELSE At([a EXCEPT !.publication = track], c, "done"))
    /\ excused' = (excused \/ (ok /\ a.room = c.room /\ Overtaken(c)))
    /\ UNCHANGED <<desk, wire>>

\* unpublishTrack, in a cleanup, before publishing again, or as the undoing of
\* a publication that came too late.  Its refusal, which may leave the track in
\* the room, is swallowed, but stops a sharing that was to be published again.
Unpublished(c, ok) ==
    /\ c.at \in {"unpublish", "undo"} /\ Fails(ok)
    /\ LET mine == {t \in live : t.room = c.room /\ t.track \in
                                   (IF c.kind = "start" THEN {c.pipeline} ELSE c.publication)}
       IN live' = (live \ mine) \cup IF ok THEN {} ELSE {[t EXCEPT !.stuck = TRUE] : t \in mine}
    /\ Goes(c, IF c.at = "undo" THEN (IF c.kind = "start" THEN Failed(a, c) ELSE At(a, c, "done"))
               ELSE IF c.kind # "republish" \/ c.after # "done" THEN CleanupPipeline(a, c)
               ELSE IF ~ok THEN Stop(a, c)
               ELSE IF c.generation # a.generation \/ a.room # c.room THEN At(a, c, "done")
               ELSE At(a, c, "publish"))
    /\ UNCHANGED <<desk, wire, excused>>

Destroyed(c) ==
    /\ c.at = "destroy"
    /\ Goes(c, CleanupEnds(a, c))
    /\ UNCHANGED <<desk, wire, live, spent, excused>>

TrackMuted(c) ==
    /\ Mutes(c) /\ \A e \in calls : Mutes(e) => c.turn <= e.turn
    /\ live' = {IF t.track \in (IF c.kind = "start" THEN {c.pipeline} ELSE c.publication)
                THEN [t EXCEPT !.muted = c.at = "mute"] ELSE t : t \in live}
    /\ LET r == Muted(a, c) IN
       /\ a' = r.w
       /\ calls' = {IF Mutes(e) /\ \A f \in calls \ {c} : Mutes(f) => f.turn > c.turn
                    THEN [e EXCEPT !.turn = @ - 1] ELSE e : e \in calls \ {c}}
                   \cup (IF r.c.at = "done" THEN {} ELSE {r.c})
    /\ excused' = (excused \/ Overtaken(c))
    /\ UNCHANGED <<desk, wire, spent>>

-----------------------------------------------------------------------------
(* The voice session (VoiceSession has the rest). *)

Joins ==
    /\ a.room = 0 /\ a.joins < MaxRooms
    /\ a' = [a EXCEPT !.joins = @ + 1, !.room = a.joins + 1, !.connected = TRUE, !.deafened = FALSE, !.muted = FALSE]
    /\ UNCHANGED <<calls, desk, wire, live, spent, excused>>

\* leave waits for the stop, then closes the room; a lost room is gone at once.
Leaves ==
    /\ a.room # 0 /\ \A c \in calls : c.kind # "leave"
    /\ Goes([at |-> "none"], Stop(a, Fresh("leave")))
    /\ UNCHANGED <<desk, wire, live, spent, excused>>

Left(c) ==
    /\ c.at = "left"
    /\ calls' = calls \ {c}
    /\ IF a.room = c.room
       THEN a' = [a EXCEPT !.room = 0, !.connected = FALSE] /\ live' = {}
       ELSE UNCHANGED <<a, live>>
    /\ UNCHANGED <<desk, wire, spent, excused>>

Drops ==
    /\ a.room # 0 /\ Fails(FALSE)
    /\ LET r == Stop(a, Fresh("stop")) IN
       Goes([at |-> "none"], [r EXCEPT !.w.room = 0, !.w.connected = FALSE])
    /\ live' = {}
    /\ UNCHANGED <<desk, wire, excused>>

-----------------------------------------------------------------------------
Answers ==
    \/ \E c \in calls : Answered(c) \/ DeskRefuses(c) \/ Destroyed(c) \/ TrackMuted(c) \/ Left(c)
    \/ \E c \in calls, ok \in BOOLEAN : \/ Initialized(c, ok) \/ DeskAsked(c, ok) \/ Published(c, ok) \/ Unpublished(c, ok)
                                        \/ PortAwaited(c, ~ok)
    \/ \E n \in wire.snapshots : SnapshotTold(n)
    \/ \E s \in wire.ports : PortArrives(s)

Acts ==
    \/ Start \/ UserStops \/ GuildMutes \/ Republish \/ Joins \/ Leaves \/ Drops \/ SourceExits
    \/ \E kind \in {"pause", "resume"}, auto \in BOOLEAN : Toggle(kind, auto)

Next == Answers \/ Acts

Spec == Init /\ [][Next]_aaVars

-----------------------------------------------------------------------------
(* Properties. *)

AtRest == calls = {} /\ wire.snapshots = {} /\ wire.ports = {}

\* However calls, snapshots, ports and the voice session overlap, when all is
\* answered either nothing is shared: nothing is held, and nothing captured or
\* published but what the desktop program refused to stop and the room to
\* unpublish; or what is shown is what the desktop program captures and the
\* room hears.
SharingAgrees ==
    LET heard == {t \in live : ~t.stuck} IN
    (AtRest /\ ~excused) =>
        /\ ~a.operating /\ a.waiter = {} /\ a.granted = {}
        /\ IF a.session = {}
           THEN /\ a.state = "idle" /\ a.pipeline = {} /\ a.publication = {}
                /\ heard = {} /\ desk.session \in {0, desk.kept}
           ELSE /\ a.session = {desk.session} /\ a.state = desk.snapshot.state
                /\ a.publication = a.pipeline
                /\ \E t \in heard : heard = {t} /\ {t.track} = a.pipeline /\ t.muted = (a.state = "paused")

=============================================================================
