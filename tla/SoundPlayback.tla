----------------------------- MODULE SoundPlayback -----------------------------
(***************************************************************************)
(* Which notification sounds are played, and when: createApplicationSounds  *)
(* in web/src/application-sounds/core.ts (signal, loop, stopLoop, the       *)
(* playback policy, the preview) over the audio context of web-audio.ts,    *)
(* driven by the phases of a call (call-experience.ts).                     *)
(*                                                                         *)
(* A sound to play waits until the context runs.  A browser resumes a       *)
(* context only after an interaction: what was played before that is heard  *)
(* then.  Time is counted in units of the rate limit; a sound lasts one or  *)
(* two units, and a loop leaves one unit of silence.                        *)
(***************************************************************************)
EXTENDS Naturals

CONSTANTS
    MaxTime,      \* bound: the clock
    MaxChanges,   \* bound: changes of the settings and of the call
    MaxSignals    \* bound: sounds asked for otherwise

SoundPlaybackAssumption == MaxTime \in Nat /\ MaxChanges \in Nat /\ MaxSignals \in Nat

\* The slots a call and a departure use; the others are like these.
Slots == {"ringing", "ringback", "connect", "end", "leave"}

VARIABLES
    settings,   \* master.enabled, whether its volume is above 0, the slots
    playback,   \* deafened and channelDeafened
    call,       \* the phase of the call
    loop,       \* loopGeneration, loopTimer and the timers that are armed
    sounds,     \* those whose play awaits the context, those that sound, lastPlayedAt
    context,    \* "none", "suspended" or "running"
    now,
    spent       \* bounds, and whether a sound had to wait

spVars == <<settings, playback, call, loop, sounds, context, now, spent>>

Gap == 1
Interval == 1

Init ==
    /\ settings = [enabled |-> TRUE, loud |-> TRUE, on |-> [s \in Slots |-> TRUE], lasts |-> [s \in Slots |-> 1]]
    /\ playback = [deafened |-> FALSE, channelDeafened |-> FALSE]
    /\ call = "idle"
    /\ loop = [generation |-> 0, timer |-> {}, armed |-> {}]
    /\ sounds = [waiting |-> {}, heard |-> {}, last |-> [s \in Slots |-> {}]]
    /\ context \in {"none", "suspended", "running"}
    /\ now = 0
    /\ spent = [changes |-> 0, signals |-> 0]

TypeOK ==
    /\ loop.timer \subseteq loop.armed
    /\ \A t \in loop.armed : t.slot \in Slots /\ t.at >= now
    /\ \A s \in sounds.waiting : s.asked <= now
    /\ \A s \in sounds.heard : s.until > now
    /\ sounds.waiting # {} => context = "suspended"

-----------------------------------------------------------------------------
(* Playing. *)

\* The deafening that lasts only while a call does silences the sounds of the
\* channel, never those of the call.
SilencedOnlyByGlobalDeafen(slot) == slot \in {"ringing", "ringback", "connect", "end"}

MasterAudible == settings.enabled /\ settings.loud

Audible(slot, p) ==
    /\ MasterAudible /\ settings.on[slot]
    /\ ~(p.deafened \/ (~SilencedOnlyByGlobalDeafen(slot) /\ p.channelDeafened))

\* A sound of a loop carries the loop's generation, which starts at one.
NoLoop == 0

\* playSelected and runningContext: without a context it fails, a suspended one
\* is waited for.
Sound(slot, of) == [slot |-> slot, of |-> of, lasts |-> settings.lasts[slot], asked |-> now]
Heard(sound) ==
    [slot |-> sound.slot, of |-> sound.of, asked |-> sound.asked, late |-> context # "running", until |-> now + sound.lasts]

Plays(x, sound) ==
    CASE context = "none" -> x
      [] context = "suspended" -> [x EXCEPT !.waiting = @ \cup {sound}]
      [] OTHER -> [x EXCEPT !.heard = @ \cup {Heard(sound)}]

\* signal: with the policy, and at most one sound of a slot in an interval; the
\* sounds of one's own departure are not limited.
Bypasses(occurrence) == occurrence \in {"voice-self-left", "voice-moderator-disconnected"}

SlotOf(occurrence) ==
    CASE occurrence = "call-connected" -> "connect" [] occurrence = "call-ended" -> "end" [] OTHER -> "leave"

Signalled(x, occurrence, p) ==
    LET slot == SlotOf(occurrence) IN
    IF Audible(slot, p) /\ (Bypasses(occurrence) \/ \A t \in x.last[slot] : now - t >= Interval)
    THEN Plays([x EXCEPT !.last[slot] = {now}], Sound(slot, NoLoop)) ELSE x

\* stopLoop
StopLoop(l) == [generation |-> l.generation + 1, timer |-> {}, armed |-> l.armed \ l.timer]

\* playLoopIteration: the sound now, if the policy allows it, and the next
\* iteration when it has ended.
Armed(l, slot) ==
    LET t == [slot |-> slot, generation |-> l.generation, at |-> now + settings.lasts[slot] + Gap]
    IN  [l EXCEPT !.timer = {t}, !.armed = @ \cup {t}]

Iterated(x, l, slot, p) == IF Audible(slot, p) THEN Plays(x, Sound(slot, l.generation)) ELSE x

-----------------------------------------------------------------------------
(* What happens. *)

\* The statuses of the call: from "idle" a late answer to an accepted call makes
\* it active as well.
NextPhases(phase) ==
    CASE phase = "idle" -> {"outgoing", "ringing", "active"} [] phase \in {"outgoing", "ringing"} -> {"active", "idle"}
      [] OTHER -> {"idle"}

LoopSlot(phase) == IF phase = "outgoing" THEN "ringback" ELSE "ringing"
Rings(phase) == phase \in {"outgoing", "ringing"}

\* setCallChannelDeafen: the sounds hear of it when they are next synchronized.
DeafensChannel(phase) == phase \in {"outgoing", "active"}

\* The phases of a call and their sounds: useCallExperience, loop.
CallChanges ==
    \E phase \in NextPhases(call) :
        /\ spent.changes < MaxChanges /\ spent' = [spent EXCEPT !.changes = @ + 1]
        /\ call' = phase
        /\ loop' = IF Rings(phase) THEN Armed(StopLoop(loop), LoopSlot(phase)) ELSE StopLoop(loop)
        /\ sounds' = CASE Rings(phase) -> Iterated(sounds, loop', LoopSlot(phase), playback)
                       [] phase = "active" -> Signalled(sounds, "call-connected", playback)
                       [] call = "active" -> Signalled(sounds, "call-ended", playback)
                       [] OTHER -> sounds
        /\ UNCHANGED <<settings, playback, context, now>>

Signal ==
    \E occurrence \in {"voice-participant-left", "voice-self-left", "voice-moderator-disconnected"} :
        /\ spent.signals < MaxSignals /\ spent' = [spent EXCEPT !.signals = @ + 1]
        /\ sounds' = Signalled(sounds, occurrence, playback)
        /\ UNCHANGED <<settings, playback, call, loop, context, now>>

\* preview: heard in spite of the deafening.
Preview ==
    \E slot \in Slots :
        /\ MasterAudible
        /\ spent.signals < MaxSignals /\ spent' = [spent EXCEPT !.signals = @ + 1]
        /\ sounds' = Plays(sounds, Sound(slot, NoLoop))
        /\ UNCHANGED <<settings, playback, call, loop, context, now>>

\* The timer of the loop; one of an older generation does nothing.
LoopTimer ==
    \E t \in loop.armed :
        /\ t.at = now
        /\ LET l == [loop EXCEPT !.armed = @ \ {t}] IN
           IF t.generation = loop.generation
           THEN loop' = Armed(l, t.slot) /\ sounds' = Iterated(sounds, l, t.slot, playback)
           ELSE loop' = l /\ UNCHANGED sounds
        /\ UNCHANGED <<settings, playback, call, context, now, spent>>

Change(new, old) == new # old /\ spent.changes < MaxChanges /\ spent' = [spent EXCEPT !.changes = @ + 1]

\* The master switch, its volume, the switch and the sound of a slot.
SettingsChange ==
    /\ \/ settings' = [settings EXCEPT !.enabled = ~@]
       \/ settings' = [settings EXCEPT !.loud = ~@]
       \/ \E s \in {"ringing", "ringback"} :
            \/ settings' = [settings EXCEPT !.on[s] = ~@]
            \/ settings' = [settings EXCEPT !.lasts[s] = 3 - @]
    /\ Change(settings', settings)
    /\ UNCHANGED <<playback, call, loop, sounds, context, now>>

\* followPlayback, at the next synchronization: with the user's deafening, and
\* that of the channel by the call.
FollowPlayback ==
    /\ \E deafened \in BOOLEAN :
         playback' = [deafened |-> deafened, channelDeafened |-> DeafensChannel(call)]
    /\ Change(playback', playback)
    /\ UNCHANGED <<settings, call, loop, sounds, context, now>>

\* handleInteraction: the context is created, and runs from now on.
Interaction ==
    /\ context # "running"
    /\ context' = "running"
    /\ sounds' = [sounds EXCEPT !.waiting = {}, !.heard = @ \cup {Heard(s) : s \in sounds.waiting}]
    /\ UNCHANGED <<settings, playback, call, loop, now, spent>>

\* decode creates the context before any interaction.
Decode ==
    /\ context = "none" /\ context' = "suspended"
    /\ UNCHANGED <<settings, playback, call, loop, sounds, now, spent>>

Tick ==
    /\ now < MaxTime
    /\ \A t \in loop.armed : t.at > now
    /\ now' = now + 1
    /\ sounds' = [sounds EXCEPT !.heard = {s \in @ : s.until > now + 1}]
    /\ UNCHANGED <<settings, playback, call, loop, context, spent>>

Next ==
    \/ CallChanges \/ Signal \/ Preview \/ LoopTimer \/ SettingsChange \/ FollowPlayback
    \/ Interaction \/ Decode \/ Tick

Spec == Init /\ [][Next]_spVars

-----------------------------------------------------------------------------
(* Properties. *)

\* Two iterations of one loop that sound at once.
Overlap(s, t) == s # t /\ s.of = t.of /\ s.of # NoLoop

\* A loop rings exactly while the call does, with the sound of its phase, through
\* every change of the policy, and no iteration sounds over another unless it
\* had to wait for the context (core.ts:243-283, 684-693; call-experience.ts:21-34).
LoopFollowsCall ==
    /\ {t.slot : t \in loop.armed} = IF Rings(call) THEN {LoopSlot(call)} ELSE {}
    /\ \A t, u \in loop.armed : t = u
    /\ \A s, t \in sounds.heard : Overlap(s, t) => s.late \/ t.late
=============================================================================
