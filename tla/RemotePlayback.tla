---------------------------- MODULE RemotePlayback ----------------------------
(***************************************************************************)
(* How loud the others of a voice channel are heard, and who is shown to    *)
(* speak: web/src/stores/voice-session.ts (attachTrack, syncParticipants)   *)
(* with voice-participant-volume.ts, audio/TrackActivityMonitor.ts and      *)
(* audio/VoiceBalanceController.ts.                                         *)
(*                                                                         *)
(* A participant's settings are stored; the rows of the list, the two       *)
(* monitors, the balance and the gains LiveKit was given are each brought   *)
(* up to date by events of their own.  A volume is a small number, a        *)
(* correction of the balance a number of steps of 6 dB, so that gains are   *)
(* whole: twice the product of both volumes and the correction.             *)
(***************************************************************************)
EXTENDS Naturals, Integers, FiniteSets

CONSTANTS
    Users,        \* the others
    Hold,         \* polls for which a voice is shown after it was heard
    MaxEvents     \* bound: changes of the room and the settings

RemotePlaybackAssumption == IsFiniteSet(Users) /\ {Hold, MaxEvents} \subseteq Nat

VARIABLES
    peer,       \* the room: who is there, with which tracks
    store,      \* stored per participant: volumes and mutes
    rows,       \* participantStates, {} for somebody who is not listed
    gain,       \* the volumes given to LiveKit
    voices,     \* microphoneActivity's tracks, {} for none
    music,      \* backgroundAudioActivity's
    balance,    \* VoiceBalanceController's
    set,        \* joined, deafened, output volume, whether balancing is on
    unapplied,  \* deafening ends, the volumes are not applied yet
    events,     \* bound
    excused     \* history: a track that replaced a balanced one

rpVars == <<peer, store, rows, gain, voices, music, balance, set, unapplied, events, excused>>

DefaultVolume == 1
Volumes == {1, 2}
MaxGain == 6
Least(a, b) == IF a <= b THEN a ELSE b

Absent == [here |-> FALSE, mic |-> 0, muted |-> FALSE, bg |-> 0]
Stored == [volume |-> DefaultVolume, muted |-> FALSE, bgVolume |-> DefaultVolume, bgMuted |-> FALSE]
NewGain == [mic |-> 2, bg |-> 2]

Init ==
    /\ peer = [u \in Users |-> Absent]
    /\ store = [u \in Users |-> Stored]
    /\ rows = [u \in Users |-> {}] /\ gain = [u \in Users |-> NewGain]
    /\ voices = [u \in Users |-> {}] /\ music = [u \in Users |-> {}] /\ balance = [u \in Users |-> {}]
    /\ set = [joined |-> FALSE, deafened |-> FALSE, output |-> DefaultVolume, balancing |-> FALSE]
    /\ unapplied = FALSE /\ events = 0 /\ excused = {}

TypeOK ==
    /\ \A u \in Users :
         /\ peer[u].mic \in 0 .. 2 /\ peer[u].bg \in 0 .. 1
         /\ gain[u].mic \in 0 .. MaxGain /\ gain[u].bg \in 0 .. MaxGain
         /\ \A m \in voices[u] \cup music[u] : m.hold \in 0 .. Hold /\ m.track # 0
         /\ \A b \in balance[u] : b.db \in -1 .. 1
         /\ \A c \in {rows[u], voices[u], music[u], balance[u]} : Cardinality(c) <= 1
    /\ excused \subseteq Users

-----------------------------------------------------------------------------
(* Gains. *)

\* estimateVoiceBalanceGain: down at once, up by steps, frozen in silence.
Estimate(db, level) ==
    CASE level = "loud" -> -1
      [] level = "soft" -> Least(db + 1, 1)
      [] OTHER -> db

\* balanceGainLinearOf, doubled.
Linear(b) == IF \E x \in b : x.db = -1 THEN 1 ELSE IF \E x \in b : x.db = 1 THEN 4 ELSE 2

\* composeMicrophoneGain and its like for the background audio.
Composed(u, st, s, b) ==
    [mic |-> IF s.deafened \/ st[u].muted THEN 0 ELSE Least(st[u].volume * s.output * Linear(b[u]), MaxGain),
     bg |-> IF s.deafened \/ st[u].bgMuted THEN 0 ELSE Least(2 * st[u].bgVolume * s.output, MaxGain)]

\* applyVolume, for those of us who are in the room.
Applied(us, st, s, b) ==
    [u \in Users |-> IF u \in us /\ s.joined /\ peer[u].here THEN Composed(u, st, s, b) ELSE gain[u]]

Listed(rs) == {u \in Users : rs[u] # {}}

-----------------------------------------------------------------------------
(* syncParticipants. *)

Active(m) == \E t \in m : t.active

\* toVoiceParticipant: a row as it is first written, from the monitors as they are.
Row(u, st) ==
    [speaking |-> Active(voices[u]), sharing |-> Active(music[u]), volume |-> st[u].volume, muted |-> st[u].muted,
     bgVolume |-> st[u].bgVolume, bgMuted |-> st[u].bgMuted]

Track(t, muted) == [track |-> t, muted |-> muted, active |-> FALSE, hold |-> 0]

\* TrackActivityMonitor.sync: a track that is gone or another is dropped.
Kept(m, t) == {x \in m : x.track = t}
Monitored(m, t, muted) ==
    IF t = 0 THEN {}
    ELSE IF Kept(m, t) = {} THEN {Track(t, muted)}
    ELSE {[x EXCEPT !.muted = muted, !.active = @ /\ ~muted] : x \in m}

\* Its callbacks: rows learn what has changed.
Told(old, new, shown) ==
    IF Active(old) /\ ~Active(new) THEN FALSE ELSE shown

\* VoiceBalanceController.sync
Balanced(b, t, on) ==
    IF t = 0 \/ ~on THEN {}
    ELSE IF \E x \in b : x.track = t THEN b ELSE {[track |-> t, db |-> 0]}

\* The whole of it, for the room p, the store st and the settings s.
Sync(p, st, s) ==
    LET vs == [u \in Users |-> Monitored(voices[u], p[u].mic, p[u].muted)]
        ms == [u \in Users |-> Monitored(music[u], p[u].bg, FALSE)] IN
    /\ voices' = vs /\ music' = ms
    /\ rows' = [u \in Users |-> IF ~p[u].here THEN {}
                                ELSE {[Row(u, st) EXCEPT !.speaking = Told(voices[u], vs[u], @),
                                                         !.sharing = Told(music[u], ms[u], @)]}]
    /\ balance' = [u \in Users |-> Balanced(balance[u], p[u].mic, s.balancing)]

Event == events < MaxEvents /\ events' = events + 1

-----------------------------------------------------------------------------
(* The room.  Its members and tracks change, then its event is handled. *)

Join ==
    /\ ~set.joined /\ Event
    /\ set' = [set EXCEPT !.joined = TRUE]
    /\ \E others \in SUBSET Users : LET p == [u \in Users |-> [Absent EXCEPT !.here = u \in others]] IN
         peer' = p /\ Sync(p, store, set)
    /\ gain' = [u \in Users |-> NewGain] /\ excused' = {}
    /\ UNCHANGED <<store, unapplied>>

\* leave, or a lost connection: the monitors are destroyed.
Leave ==
    /\ set.joined /\ Event
    /\ set' = [set EXCEPT !.joined = FALSE] /\ unapplied' = FALSE
    /\ peer' = [u \in Users |-> Absent]
    /\ rows' = [u \in Users |-> {}]
    /\ voices' = [u \in Users |-> {}] /\ music' = [u \in Users |-> {}] /\ balance' = [u \in Users |-> {}]
    /\ UNCHANGED <<store, gain, excused>>

Happens(u, to) ==
    /\ set.joined /\ Event
    /\ peer' = [peer EXCEPT ![u] = to]
    /\ Sync([peer EXCEPT ![u] = to], store, set)
    /\ UNCHANGED <<store, set, unapplied>>

Connects(u) ==
    /\ ~peer[u].here /\ Happens(u, [Absent EXCEPT !.here = TRUE])
    /\ gain' = [gain EXCEPT ![u] = NewGain] /\ excused' = excused \ {u}

Disconnects(u) == peer[u].here /\ Happens(u, Absent) /\ UNCHANGED <<gain, excused>>

\* attachTrack: the volume is applied before the participants are looked at.
Attached_Quiet(u) == gain
Attached(u) == Applied({u}, store, set, balance)

AttachMicrophone(u) ==
    \E t \in {1, 2} \ {peer[u].mic} :
        /\ peer[u].here /\ Happens(u, [peer[u] EXCEPT !.mic = t, !.muted = FALSE])
        /\ gain' = Attached(u)
        /\ excused' = IF Linear(balance[u]) # 2 THEN excused \cup {u} ELSE excused \ {u}

AttachBackground(u) ==
    /\ peer[u].here /\ peer[u].bg = 0 /\ Happens(u, [peer[u] EXCEPT !.bg = 1])
    /\ gain' = Attached(u)
    /\ excused' = excused \ {u}

\* detachTrack
Detach(u) ==
    /\ \/ peer[u].mic # 0 /\ Happens(u, [peer[u] EXCEPT !.mic = 0, !.muted = FALSE])
       \/ peer[u].bg # 0 /\ Happens(u, [peer[u] EXCEPT !.bg = 0])
    /\ UNCHANGED <<gain, excused>>

\* TrackMuted, TrackUnmuted
Mutes(u) ==
    /\ peer[u].mic # 0 /\ Happens(u, [peer[u] EXCEPT !.muted = ~@])
    /\ UNCHANGED <<gain, excused>>

-----------------------------------------------------------------------------
(* The monitors' timers. *)

Polled(m, sounds) ==
    {[x EXCEPT !.active = (sounds /\ ~x.muted) \/ x.hold > 0,
               !.hold = IF sounds /\ ~x.muted THEN Hold ELSE IF @ = 0 THEN 0 ELSE @ - 1] : x \in m}

\* The row of a listed participant is told when the track's activity changes.
PollVoices ==
    \E sounding \in SUBSET {u \in Users : voices[u] # {}} :
        LET now == [u \in Users |-> Polled(voices[u], u \in sounding)] IN
        /\ voices' = now
        /\ rows' = [u \in Users |-> {[r EXCEPT !.speaking = IF Active(now[u]) # Active(voices[u]) THEN Active(now[u])
                                                            ELSE @] : r \in rows[u]}]
        /\ UNCHANGED <<peer, store, gain, music, balance, set, unapplied, events, excused>>

PollMusic ==
    \E sounding \in SUBSET {u \in Users : music[u] # {}} :
        LET now == [u \in Users |-> Polled(music[u], u \in sounding)] IN
        /\ music' = now
        /\ rows' = [u \in Users |-> {[r EXCEPT !.sharing = IF Active(now[u]) # Active(music[u]) THEN Active(now[u])
                                                           ELSE @] : r \in rows[u]}]
        /\ UNCHANGED <<peer, store, gain, voices, balance, set, unapplied, events, excused>>

\* The balance's poll, one participant at a time: a correction that changes is
\* applied at once.
PollBalance(u) ==
    \E x \in balance[u], level \in {"loud", "soft"} :
        LET db == Estimate(x.db, level)
            now == [balance EXCEPT ![u] = {[x EXCEPT !.db = db]}] IN
        /\ db # x.db
        /\ balance' = now
        /\ gain' = Applied({u}, store, set, now) /\ excused' = excused \ {u}
        /\ UNCHANGED <<peer, store, rows, voices, music, set, unapplied, events>>

-----------------------------------------------------------------------------
(* The settings. *)

\* setParticipantTrackVolume and toggleParticipantTrackMuted, for a listed
\* participant; the reset is a volume of 1.
Adjust(u) ==
    /\ rows[u] # {} /\ Event
    /\ \E r \in rows[u] :
         \E to \in {[r EXCEPT !.volume = v] : v \in Volumes} \cup {[r EXCEPT !.bgVolume = v] : v \in Volumes}
                   \cup {[r EXCEPT !.muted = ~@], [r EXCEPT !.bgMuted = ~@]} :
            LET st == [store EXCEPT ![u] = [volume |-> to.volume, muted |-> to.muted,
                                            bgVolume |-> to.bgVolume, bgMuted |-> to.bgMuted]] IN
            /\ rows' = [rows EXCEPT ![u] = {to}]
            /\ store' = st
            /\ gain' = Applied({u}, st, set, balance)
    /\ excused' = excused \ {u}
    /\ UNCHANGED <<peer, voices, music, balance, set, unapplied>>

\* applyAllVolumes, for the listed participants.
ApplyAll(s, b) == gain' = Applied(Listed(rows), store, s, b) /\ excused' = excused \ Listed(rows)

SetOutputVolume ==
    /\ Event
    /\ \E v \in Volumes \ {set.output} : LET s == [set EXCEPT !.output = v] IN set' = s /\ ApplyAll(s, balance)
    /\ UNCHANGED <<peer, store, rows, voices, music, balance, unapplied>>

\* setAutoVoiceBalance; outside a channel there is nobody to look at.
SetAutoVoiceBalance ==
    /\ Event
    /\ LET s == [set EXCEPT !.balancing = ~@] IN
         /\ set' = s
         /\ IF set.joined THEN Sync(peer, store, s) ELSE UNCHANGED <<rows, voices, music, balance>>
         /\ ApplyAll(s, balance')
    /\ UNCHANGED <<peer, store, unapplied>>

\* reconcileConnectedPreferences: deafening applies the volumes at once, its end
\* may wait for the shared audio to resume.
Deafen ==
    /\ set.joined /\ ~set.deafened /\ ~unapplied /\ Event
    /\ LET s == [set EXCEPT !.deafened = TRUE] IN set' = s /\ ApplyAll(s, balance)
    /\ UNCHANGED <<peer, store, rows, voices, music, balance, unapplied>>

Undeafen ==
    /\ set.joined /\ set.deafened /\ Event
    /\ set' = [set EXCEPT !.deafened = FALSE] /\ unapplied' = TRUE
    /\ UNCHANGED <<peer, store, rows, gain, voices, music, balance, excused>>

UndeafenApplied ==
    /\ unapplied /\ unapplied' = FALSE /\ ApplyAll(set, balance)
    /\ UNCHANGED <<peer, store, rows, voices, music, balance, set, events>>

Next ==
    \/ Join \/ Leave \/ PollVoices \/ PollMusic
    \/ SetOutputVolume \/ SetAutoVoiceBalance \/ Deafen \/ Undeafen \/ UndeafenApplied
    \/ \E u \in Users : \/ Connects(u) \/ Disconnects(u) \/ AttachMicrophone(u) \/ AttachBackground(u)
                        \/ Detach(u) \/ Mutes(u) \/ PollBalance(u) \/ Adjust(u)

Spec == Init /\ [][Next]_rpVars

-----------------------------------------------------------------------------
(* Properties. *)

\* Every track is played at the volume the stored settings, the output volume,
\* the balance and deafening give now, in whatever order they changed and the
\* track came, but for a track that took the place of a balanced one
\* (voice-session.ts:575-576) and while deafening ends.
HeardAsSet ==
    ~unapplied =>
        \A u \in Users : LET c == Composed(u, store, set, balance) IN
            /\ peer[u].mic # 0 /\ u \notin excused => gain[u].mic = c.mic
            /\ peer[u].bg # 0 => gain[u].bg = c.bg

\* A row shows somebody of the room, speaking or sharing exactly while their
\* track is found active, with the settings that are stored; and nothing is
\* watched that is not in the room (voice-session.ts:584-641).
ShownAsMonitored ==
    \A u \in Users :
        /\ rows[u] # {} <=> peer[u].here
        /\ \A r \in rows[u] :
             /\ r.speaking = Active(voices[u]) /\ r.sharing = Active(music[u])
             /\ r.volume = store[u].volume /\ r.muted = store[u].muted
             /\ r.bgVolume = store[u].bgVolume /\ r.bgMuted = store[u].bgMuted
        /\ {x.track : x \in voices[u]} = {peer[u].mic} \ {0} /\ {x.track : x \in music[u]} = {peer[u].bg} \ {0}
        /\ {x.track : x \in balance[u]} = IF set.balancing THEN {peer[u].mic} \ {0} ELSE {}

PlaybackAgrees == HeardAsSet /\ ShownAsMonitored
=============================================================================
