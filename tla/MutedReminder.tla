---------------------------- MODULE MutedReminder ----------------------------
(***************************************************************************)
(* Telling somebody that they speak while muted:                           *)
(* web/src/audio/MutedSpeakingReminderState.ts and -Monitor.ts, with the   *)
(* gate and the bubble of web/src/stores/voice-session.ts.                 *)
(*                                                                         *)
(* The monitor hears every frame the speech detection makes, whether the   *)
(* gate is open or not; opening the gate starts its machine afresh.  Time  *)
(* is counted in frames, and goes on without them for the bubble.          *)
(***************************************************************************)
EXTENDS Naturals, Sequences, FiniteSets

CONSTANTS
    Conditions,                       \* what the gate asks for
    ArmDelay, Trigger, Rearm, Cooldown, \* the machine's times, in frames
    Bubble,                           \* how long the bubble is shown
    MaxFrames, MaxFlips               \* bounds

MutedReminderAssumption ==
    {ArmDelay, Trigger, Rearm, Cooldown, Bubble, MaxFrames, MaxFlips} \subseteq Nat \ {0}

VARIABLES
    machine,    \* MutedSpeakingReminderState
    missing,    \* the gate's conditions that do not hold
    bubble,     \* frames the bubble is still shown: mutedSpeakingReminderTimer
    frames,     \* history: what was heard since the machine was reset
    reminded,   \* history: the frames of it that made a reminder
    flips       \* bound

mrVars == <<machine, missing, bubble, frames, reminded, flips>>

\* reset; a reminder that was never made is long ago.
Reset == [elapsed |-> 0, speech |-> 0, silence |-> 0, utterance |-> FALSE, last |-> {}]

Init ==
    /\ machine = Reset /\ missing \in {{c} : c \in Conditions} \cup {{}}
    /\ bubble = 0 /\ frames = <<>> /\ reminded = {} /\ flips = 0

TypeOK ==
    /\ machine.elapsed = Len(frames) /\ machine.last \subseteq 1 .. MaxFrames
    /\ machine.speech \in 0 .. MaxFrames /\ machine.silence \in 0 .. Rearm
    /\ missing \subseteq Conditions /\ bubble \in 0 .. Bubble
    /\ reminded \subseteq 1 .. Len(frames)

-----------------------------------------------------------------------------
(* The machine. *)

Open(m) == m = {}

Spoke(m) ==
    LET s == [m EXCEPT !.silence = 0, !.speech = @ + 1]
        fires == /\ ~s.utterance /\ s.speech >= Trigger
                 /\ \A l \in s.last : s.elapsed - l >= Cooldown
    IN  IF fires THEN <<TRUE, [s EXCEPT !.utterance = TRUE, !.last = {s.elapsed}]>> ELSE <<FALSE, s>>

Paused(m) ==
    LET s == [m EXCEPT !.speech = 0]
        q == s.silence + 1
    IN  IF ~s.utterance THEN s
        ELSE IF q >= Rearm THEN [s EXCEPT !.utterance = FALSE, !.silence = 0] ELSE [s EXCEPT !.silence = q]

\* process: whether to remind, and the machine after the frame.
Process(m, speaking) ==
    LET t == [m EXCEPT !.elapsed = @ + 1]
    IN  CASE t.elapsed <= ArmDelay -> <<FALSE, t>>
          [] speaking -> Spoke(t)
          [] OTHER -> <<FALSE, Paused(t)>>

Passes(b) == IF b = 0 THEN 0 ELSE b - 1

\* A frame of the engine: showMutedSpeakingReminder asks the gate again.
Frame(speaking) ==
    /\ Len(frames) < MaxFrames
    /\ LET p == Process(machine, speaking)
       IN  /\ machine' = p[2]
           /\ frames' = Append(frames, speaking)
           /\ reminded' = reminded \cup (IF p[1] THEN {Len(frames')} ELSE {})
           /\ bubble' = IF p[1] /\ Open(missing) THEN Bubble ELSE Passes(bubble)
    /\ UNCHANGED <<missing, flips>>

\* Time goes by while the engine captures nothing.
Silence ==
    /\ bubble > 0 /\ bubble' = bubble - 1
    /\ UNCHANGED <<machine, missing, frames, reminded, flips>>

\* A condition begins or ceases to hold; the watch is synchronous.
Flips(c) ==
    /\ flips < MaxFlips /\ flips' = flips + 1
    /\ missing' = IF c \in missing THEN missing \ {c} ELSE missing \cup {c}
    /\ IF Open(missing') /\ ~Open(missing)
         THEN machine' = Reset /\ frames' = <<>> /\ reminded' = {}
         ELSE UNCHANGED <<machine, frames, reminded>>
    /\ bubble' = IF Open(missing') THEN bubble ELSE 0

Next ==
    \/ \E speaking \in BOOLEAN : Frame(speaking)
    \/ Silence
    \/ \E c \in Conditions : Flips(c)

Spec == Init /\ [][Next]_mrVars

-----------------------------------------------------------------------------
(* Properties. *)

\* What the machine is for, said of all that was heard: a frame reminds when
\* Trigger frames of uninterrupted speech end with it, none of them before
\* the machine was armed, Cooldown has passed since the last reminder, and
\* Rearm frames of silence in a row have parted the two utterances.
Deserved(i) ==
    /\ i > ArmDelay + Trigger - 1
    /\ \A k \in (i - Trigger + 1) .. i : frames[k]
    /\ \A r \in reminded : r < i =>
         /\ i - r >= Cooldown
         /\ \E k \in r + 1 .. i - Rearm : \A j \in k .. k + Rearm - 1 : ~frames[j]

\* Reminders are made exactly when they are deserved, and the bubble is only
\* seen while the gate is open, after a reminder of this opening.
RemindersAreDeserved ==
    /\ \A i \in DOMAIN frames : i \in reminded <=> Deserved(i)
    /\ bubble > 0 => Open(missing) /\ \E r \in reminded : bubble <= Bubble - (Len(frames) - r)
=============================================================================
