--------------------------- MODULE PlaybackRecovery ---------------------------
(***************************************************************************)
(* The audio context a room is mixed in, which the browser suspends when it *)
(* likes: web/src/audio/VoiceAudioContextController.ts, made for a channel  *)
(* by voice-session.ts and for a call by voice-call.ts, with the contexts   *)
(* of voiceAudioContexts.ts.                                                *)
(*                                                                         *)
(* The controller hears of a change of state by an event of its own, tries  *)
(* to resume through LiveKit's startAudio, and when that leaves the context *)
(* suspended waits for the next click or key.  The mute switches call       *)
(* startAudio beside it.                                                    *)
(***************************************************************************)
EXTENDS Naturals

CONSTANT MaxEvents    \* bound: what the browser and the user do

PlaybackRecoveryAssumption == MaxEvents \in Nat

VARIABLES
    kind,       \* whose room: "channel" or "call"
    context,    \* context.state, "none" when no context could be made
    told,       \* a statechange event is on its way
    attempt,    \* resumePromise
    retry,      \* interactionRetryInstalled
    destroyed,  \* destroyed
    status,     \* status: "connecting", "connected", "reconnecting", "idle"
    deafened,   \* what shouldResume asks for
    direct,     \* calls of startAudio the mute switches wait for, {} or one
    silent,     \* history: sound was allowed again, the context did not run
    events      \* bound

rcVars == <<kind, context, told, attempt, retry, destroyed, status, deafened, direct, silent, events>>

States == {"running", "suspended", "interrupted", "closed", "none"}

RecoveryTypeOK ==
    /\ kind \in {"channel", "call"} /\ context \in States
    /\ {told, attempt, retry, destroyed, deafened, silent} \subseteq BOOLEAN
    /\ status \in {"connecting", "connected", "reconnecting", "idle"}
    /\ direct \in {{}, {"undeafen"}, {"unmute"}}

-----------------------------------------------------------------------------
(* The contexts. *)

\* createAudioContextWithOptions: at 48 kHz, else at the device's rate; a
\* browser that can do neither mixes without one, and without a controller.
Made == context' \in {"running", "suspended", "none"}

\* A room is being entered: its controller listens to a new context.
Fresh ==
    /\ Made
    /\ told' = FALSE /\ attempt' = FALSE /\ retry' = FALSE /\ destroyed' = FALSE
    /\ status' = "connecting" /\ direct' = {} /\ silent' = FALSE

RecoveryInit ==
    /\ kind \in {"channel", "call"} /\ deafened \in BOOLEAN
    /\ context = "closed" /\ told = FALSE /\ attempt = FALSE /\ retry = FALSE
    /\ destroyed = TRUE /\ status = "idle" /\ direct = {} /\ silent = FALSE /\ events = 0

Spend == events < MaxEvents /\ events' = events + 1

-----------------------------------------------------------------------------
(* The controller. *)

Exists == ~destroyed /\ context # "none"

\* shouldResume: a call is active before its room is connected.
Wanted(st, d) == ~d /\ (st = "connected" \/ (kind = "call" /\ st # "idle"))

\* resumeIfNeeded
Resumes(st, d) == Exists /\ context = "suspended" /\ Wanted(st, d)
ResumeIfNeeded(st, d) == attempt' = (attempt \/ Resumes(st, d))

\* handleStateChange
StateChanged ==
    /\ told /\ told' = FALSE
    /\ IF context = "running"
         THEN retry' = FALSE /\ silent' = FALSE /\ UNCHANGED attempt
         ELSE /\ ResumeIfNeeded(status, deafened) /\ UNCHANGED retry
              /\ silent' = (silent /\ ~attempt')
    /\ UNCHANGED <<kind, context, destroyed, status, deafened, direct, events>>

\* startAudio answers: it may have resumed the context, and it gives up on
\* one that stays suspended without an error.
StartsAudio ==
    \/ UNCHANGED <<context, told>>
    \/ /\ context \in {"suspended", "interrupted"} /\ context' = "running"
       /\ told' = ~destroyed

\* The attempt is over: still suspended, the next interaction tries again.
AttemptEnds_Waits ==
    /\ attempt /\ attempt' = FALSE /\ StartsAudio
    /\ UNCHANGED <<kind, retry, destroyed, status, deafened, direct, silent, events>>

AttemptEnds ==
    /\ attempt /\ attempt' = FALSE /\ StartsAudio
    /\ retry' = (retry \/ (Exists /\ Wanted(status, deafened) /\ context' = "suspended"))
    /\ UNCHANGED <<kind, destroyed, status, deafened, direct, silent, events>>

\* handleInteraction
Interaction ==
    /\ retry /\ retry' = FALSE
    /\ ResumeIfNeeded(status, deafened)
    /\ UNCHANGED <<kind, context, told, destroyed, status, deafened, direct, silent, events>>

\* The browser suspends, interrupts or resumes the context.
BrowserChanges ==
    /\ Spend /\ Exists
    /\ context' \in {"running", "suspended", "interrupted"} \ {context} /\ told' = TRUE
    /\ UNCHANGED <<kind, attempt, retry, destroyed, status, deafened, direct, silent>>

-----------------------------------------------------------------------------
(* The room. *)

Enter ==
    /\ Spend /\ status = "idle" /\ destroyed
    /\ Fresh /\ UNCHANGED <<kind, deafened>>

\* The room is entered, or entered again after it was lost.
RoomEntered ==
    /\ status \in {"connecting", "reconnecting"}
    /\ kind = "channel" => direct = {}
    /\ status' = "connected"
    /\ ResumeIfNeeded("connected", deafened) /\ silent' = (silent /\ ~attempt')
    /\ UNCHANGED <<kind, context, told, retry, destroyed, deafened, direct, events>>

RoomLost ==
    /\ Spend /\ kind = "channel" /\ status = "connected" /\ status' = "reconnecting"
    /\ UNCHANGED <<kind, context, told, attempt, retry, destroyed, deafened, direct, silent>>

\* leave, hang-up or a drop: the room is forgotten, what waits for it gives
\* up and the preference is shown; then the controller stops listening and
\* the context is closed.
RoomLeft ==
    /\ status # "idle" /\ status' = "idle" /\ direct' = {}
    /\ deafened' = (deafened /\ "undeafen" \notin direct)
    /\ UNCHANGED <<kind, context, told, attempt, retry, destroyed, silent, events>>

Destroy ==
    /\ status = "idle" /\ ~destroyed
    /\ destroyed' = TRUE /\ context' = "closed" /\ told' = FALSE /\ retry' = FALSE
    /\ UNCHANGED <<kind, attempt, status, deafened, direct, silent, events>>

-----------------------------------------------------------------------------
(* The switches. *)

Deafen ==
    /\ Spend /\ ~deafened /\ deafened' = TRUE
    /\ kind = "channel" => direct = {}
    /\ UNCHANGED <<kind, context, told, attempt, retry, destroyed, status, direct, silent>>

\* ensureRunning, and startAudioIfNeeded where there is no controller; a
\* channel that is still being entered starts nothing.
Rests == IF kind = "channel" THEN {"idle", "connecting"} ELSE {"idle"}
Starts(why) == direct' = IF context = "running" \/ status \in Rests THEN {} ELSE {why}

\* A channel is undeafened when startAudio has answered; a call at once.
Undeafen ==
    /\ Spend /\ deafened /\ direct = {}
    /\ Starts("undeafen")
    /\ deafened' = (direct' # {} /\ kind = "channel")
    /\ UNCHANGED <<kind, context, told, attempt, retry, destroyed, status, silent>>

\* The microphone is switched on: the channel's room is started as well.
Unmute ==
    /\ Spend /\ kind = "channel" /\ ~deafened /\ direct = {} /\ status \notin Rests
    /\ Starts("unmute")
    /\ IF direct' = {} THEN ResumeIfNeeded(status, FALSE) ELSE UNCHANGED attempt
    /\ UNCHANGED <<kind, context, told, retry, destroyed, status, deafened, silent>>

\* It answered: resumeAudioContext is asked while still deafened.
DirectAnswered ==
    /\ direct # {} /\ direct' = {} /\ StartsAudio
    /\ attempt' = (attempt \/ (/\ kind = "channel" /\ Exists
                               /\ context' = "suspended" /\ Wanted(status, deafened)))
    /\ deafened' = (deafened /\ kind = "call")
    /\ silent' = (context' = "suspended" /\ ~attempt' /\ ~retry)
    /\ UNCHANGED <<kind, retry, destroyed, status, events>>

\* It was refused: the preference is put back.
DirectRefused ==
    /\ direct # {} /\ direct' = {}
    /\ silent' = (silent \/ (kind = "call" /\ context = "suspended" /\ ~attempt /\ ~retry))
    /\ UNCHANGED <<kind, context, told, attempt, retry, destroyed, status, deafened, events>>

RecoveryNext ==
    \/ StateChanged \/ AttemptEnds \/ Interaction \/ BrowserChanges
    \/ Enter \/ RoomEntered \/ RoomLost \/ RoomLeft \/ Destroy
    \/ Deafen \/ Undeafen \/ Unmute \/ DirectAnswered \/ DirectRefused

RecoverySpec == RecoveryInit /\ [][RecoveryNext]_rcVars

-----------------------------------------------------------------------------
(* Properties. *)

\* Sound comes back: in a connected room that is to be heard, a suspended
\* context is being resumed or the next click or key resumes it, unless it
\* was undeafened while the context would not run, whose one call of
\* startAudio nobody repeats; a context that was closed has no listener.
SoundComesBack ==
    /\ (Exists /\ status = "connected" /\ Wanted(status, deafened) /\ context = "suspended")
         => attempt \/ retry \/ told \/ silent \/ (kind = "call" /\ direct # {})
    /\ destroyed => ~retry /\ context = "closed"
=============================================================================
