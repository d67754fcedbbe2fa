-------------------------- MODULE MicrophonePublish --------------------------
(***************************************************************************)
(* The orchestrator of one voice connection's microphone,                  *)
(* web/src/audio/MicrophonePublishOrchestrator.ts.  Callers declare a      *)
(* state (enabled or not, a noise suppression, a transmission mode, a      *)
(* forced republication) and the orchestrator calls LiveKit until the      *)
(* published track is in that state.  Calls are queued; a newer call or    *)
(* the end of the session makes the running one give up at its next await. *)
(* When RNNoise turns out to be impossible, a republication with the       *)
(* system's suppression runs beside the queue.                             *)
(*                                                                         *)
(* JavaScript runs to the next await without interruption: Running(t) says *)
(* that thread t is between two awaits, and nothing else moves meanwhile,  *)
(* nor before the queue, once free, has taken its next call (a microtask). *)
(* A thread waits for one LiveKit call at a time, in its field "call".     *)
(***************************************************************************)
EXTENDS MicrophonePipeline, Sequences

CONSTANTS
    MaxCalls,     \* bound: calls of applyMicrophoneState
    MaxSessions,  \* bound: sessions joined
    MaxFailures,  \* bound: LiveKit calls and RNNoise builds that fail
    Scope         \* what an instance exercises: "noise", "mode", "force",
                  \* "failure" (of LiveKit), "closing" (of the context)

PublishAssumption ==
    /\ MaxCalls \in Nat /\ MaxSessions \in Nat /\ MaxFailures \in Nat
    /\ Scope \subseteq {"noise", "mode", "force", "failure", "closing"}

VARIABLES
    prefs,     \* the preferences read through the options' getters
    context,   \* the capture AudioContext: "none", "plain" or "rnnoise" (48 kHz)
    session,   \* how often a session was begun or ended
    joined,    \* target is set
    revision,  \* how often applyMicrophoneState was called
    queue,     \* the calls not begun
    threads,   \* the call in progress, and the fallback's republication
    applied,   \* appliedTransmissionMode
    fallback,  \* rnnoiseFallback
    mic,       \* LiveKit's microphone publication of the session
    pipe,      \* the processor
    failures,  \* bound
    declared   \* history: the last "enabled" declared in this session, and whether
               \* since then anything failed, a call came while another was running,
               \* or a call came while the fallback was republishing

vars == <<prefs, context, session, joined, revision, queue, threads, applied,
          fallback, mic, pipe, failures, declared>>

Options == {"rnnoise", "system"}
Modes == {"activity", "continuous"}
Unsaid == "unsaid"
Threads == {"queue", "fallback"}
Calls == {"none", "stop", "restart", "enable", "disable", "unpublish", "publish",
          "restore", "attach", "build"}

Requests == [enabled : {"on", "off", Unsaid}, ns : Options \cup {Unsaid},
             mode : Modes \cup {Unsaid}, force : BOOLEAN]
Says == [enabled |-> Unsaid, ns |-> Unsaid, mode |-> Unsaid, force |-> FALSE]

\* A thread: where it goes on, the call it waits for, and its local variables:
\* capture is captureOptions.noiseSuppression, back the place after attachPath.
Idle == [pc |-> "idle", call |-> "none", rev |-> 0, sess |-> 0, req |-> Says,
         mode |-> "activity", capture |-> FALSE, existing |-> FALSE,
         unpublished |-> FALSE, back |-> "idle", gen |-> 0, blocked |-> FALSE]
NothingDeclared == [enabled |-> Unsaid, failed |-> FALSE, overlapped |-> FALSE, crossed |-> FALSE]
Unpublished == [pub |-> FALSE, on |-> FALSE, ns |-> FALSE, dtx |-> "activity", proc |-> FALSE]

MicOn == mic.pub /\ mic.on   \* isMicrophoneEnabled

Running(t) == threads[t].pc # "idle" /\ threads[t].call = "none"
MayBegin == queue # <<>> /\ threads["queue"].pc = "idle" /\ \A t \in Threads : ~Running(t)

\* The task is over, its microtasks included: other tasks may run.
Yielded == (\A t \in Threads : ~Running(t)) /\ ~MayBegin

Quiet == queue = <<>> /\ pipe.builds = {} /\ \A t \in Threads : threads[t].pc = "idle"

TypeOK ==
    /\ prefs \in [ns : Options, mode : Modes]
    /\ context \in {"none", "plain", "rnnoise"}
    /\ session \in Nat /\ joined \in BOOLEAN /\ revision \in 0..MaxCalls
    /\ queue \in Seq([rev : 1..MaxCalls, req : Requests])
    /\ \A t \in Threads : threads[t].call \in Calls /\ threads[t].req \in Requests
    /\ applied \in Modes \cup {Unsaid} /\ fallback \in BOOLEAN
    /\ mic \in [pub : BOOLEAN, on : BOOLEAN, ns : BOOLEAN, dtx : Modes, proc : BOOLEAN]
    /\ pipe \in Pipelines
    /\ failures \in 0..MaxFailures
    /\ declared \in [enabled : {"on", "off", Unsaid}, failed : BOOLEAN,
                     overlapped : BOOLEAN, crossed : BOOLEAN]

Init ==
    /\ prefs \in [ns : Options, mode : {"activity"}]
    /\ context = "none" /\ session = 0 /\ joined = FALSE
    /\ revision = 0 /\ queue = <<>>
    /\ threads = [t \in Threads |-> Idle]
    /\ applied = Unsaid /\ fallback = FALSE
    /\ mic = Unpublished
    /\ pipe = NewPipeline(prefs.ns, TRUE)
    /\ failures = 0
    /\ declared = NothingDeclared

-----------------------------------------------------------------------------
(* Sessions. *)

\* beginSession, with the context made for the room: joining has invalidated
\* the orchestrator before, as leaving does.
BeginSession ==
    /\ Yielded /\ ~joined /\ session < 2 * MaxSessions
    /\ session' = session + 1 /\ joined' = TRUE
    /\ context' \in {"none", "plain", "rnnoise"}
    /\ applied' = Unsaid /\ fallback' = FALSE
    /\ mic' = Unpublished
    /\ declared' = [NothingDeclared EXCEPT !.overlapped = ~Quiet,
                                           !.crossed = threads["fallback"].pc # "idle"]
    /\ UNCHANGED <<prefs, revision, queue, threads, pipe, failures>>

\* endSession; LiveKit stops the room's tracks, which destroys the processor.
EndSession ==
    /\ Yielded /\ joined
    /\ session' = session + 1 /\ joined' = FALSE
    /\ context' = "none"
    /\ applied' = Unsaid /\ fallback' = FALSE
    /\ mic' = Unpublished
    /\ pipe' = IF mic.proc THEN Disconnect(pipe) ELSE pipe
    /\ declared' = NothingDeclared
    /\ UNCHANGED <<prefs, revision, queue, threads, failures>>

\* The browser closes the context under the session.
ContextClosed ==
    /\ Yielded /\ "closing" \in Scope /\ joined /\ context # "none"
    /\ context' = "none"
    /\ UNCHANGED <<prefs, session, joined, revision, queue, threads, applied, fallback,
                   mic, pipe, failures, declared>>

-----------------------------------------------------------------------------
(* Calls. *)

ApplyMicrophoneState(req) ==
    /\ Yielded /\ revision < MaxCalls
    /\ revision' = revision + 1
    /\ queue' = Append(queue, [rev |-> revision + 1, req |-> req])
    /\ declared' = [declared EXCEPT
                       !.enabled = IF req.enabled = Unsaid \/ ~joined THEN @ ELSE req.enabled,
                       !.overlapped = @ \/ ~Quiet,
                       !.crossed = @ \/ threads["fallback"].pc # "idle"]
    /\ UNCHANGED <<context, session, joined, threads, applied, fallback, mic, pipe, failures>>

\* The mute and deafen module: mute, or unmute with the preferred mode.
SetMuted(on) ==
    /\ ApplyMicrophoneState(IF on THEN [Says EXCEPT !.enabled = "off"]
                            ELSE [Says EXCEPT !.enabled = "on", !.mode = prefs.mode])
    /\ UNCHANGED prefs

\* Only an unmuted microphone is told of a mode or of the channel's settings.
Unmuted == joined /\ declared.enabled = "on"

SetNoiseOption(option) ==
    /\ "noise" \in Scope
    /\ prefs' = [prefs EXCEPT !.ns = option]
    /\ ApplyMicrophoneState([Says EXCEPT !.ns = option])

SetMode(m) ==
    /\ "mode" \in Scope /\ m # prefs.mode
    /\ prefs' = [prefs EXCEPT !.mode = m]
    /\ IF Unmuted THEN ApplyMicrophoneState([Says EXCEPT !.mode = m])
       ELSE /\ Yielded
            /\ UNCHANGED <<context, session, joined, revision, queue, threads, applied,
                           fallback, mic, pipe, failures, declared>>

ForceRepublish ==
    /\ "force" \in Scope /\ Unmuted
    /\ ApplyMicrophoneState([Says EXCEPT !.force = TRUE])
    /\ UNCHANGED prefs

\* The queue takes its next call: one that is no longer the newest is dropped.
Begin ==
    /\ MayBegin
    /\ LET c == Head(queue) IN
        threads' = IF c.rev # revision THEN threads
                   ELSE [threads EXCEPT !["queue"] =
                            [Idle EXCEPT !.pc = "tearDown", !.rev = c.rev, !.sess = session,
                                         !.req = c.req,
                                         !.mode = IF c.req.mode = Unsaid THEN prefs.mode
                                                  ELSE c.req.mode]]
    /\ queue' = Tail(queue)
    /\ UNCHANGED <<prefs, context, session, joined, revision, applied, fallback, mic, pipe,
                   failures, declared>>

-----------------------------------------------------------------------------
(* One thread between two awaits. *)

IsCurrent_AnySession(t) == threads[t].rev = revision
IsCurrent(t) ==
    /\ threads[t].rev = revision /\ threads[t].sess = session
    /\ joined

\* buildCaptureOptions().noiseSuppression; an override is the fallback thread's.
WebRtcNoiseSuppression == prefs.ns = "system" \/ context # "rnnoise"
CaptureOptions(t) ==
    t = "fallback" \/ (prefs.ns = "rnnoise" /\ fallback) \/ WebRtcNoiseSuppression

Goto(t, pc) == [threads EXCEPT ![t].pc = pc]
\* LiveKit lets one restart or processor change of a track wait for another.
Locking == {"restart", "attach"}
Await(t, call, pc) ==
    [threads EXCEPT ![t].pc = pc, ![t].call = call,
                    ![t].blocked = call \in Locking /\ \E u \in Threads \ {t} : threads[u].call \in Locking]
Same == UNCHANGED <<prefs, context, session, joined, revision, queue, failures, declared>>

At(t, pc) == Running(t) /\ threads[t].pc = pc

\* processor.setNoiseSuppression, and the wait for the node if one is built.
SuppressThen(t, pc) ==
    LET p == SetNoiseSuppression(pipe, threads[t].req.ns) IN
    /\ pipe' = p
    /\ threads' = IF Awaited(p) = NoGeneration THEN Goto(t, pc)
                  ELSE [Await(t, "build", pc) EXCEPT ![t].gen = Awaited(p)]

TearDown_RnnoiseFirst(t) ==
    /\ At(t, "tearDown")
    /\ LET ns == threads[t].req.ns IN
        IF ns = Unsaid THEN threads' = Goto(t, IF joined THEN "enable" ELSE "end") /\ UNCHANGED pipe
        ELSE SuppressThen(t, IF joined THEN "enable" ELSE "end")
    /\ fallback' = (fallback /\ ~(joined /\ threads[t].req.ns = "rnnoise"))
    /\ UNCHANGED <<mic, applied>> /\ Same

\* applyDiff up to the enabled path: without a target only the processor's
\* option is set; a suppression other than RNNoise tears the node down first.
TearDown(t) ==
    /\ At(t, "tearDown")
    /\ LET ns == threads[t].req.ns IN
        \/ /\ ~joined /\ ns # Unsaid
           /\ SuppressThen(t, "end") /\ UNCHANGED fallback
        \/ /\ ~joined /\ ns = Unsaid
           /\ threads' = Goto(t, "end") /\ UNCHANGED <<pipe, fallback>>
        \/ /\ joined /\ ns = "system"
           /\ SuppressThen(t, "enable") /\ UNCHANGED fallback
        \/ /\ joined /\ ns # "system"
           /\ fallback' = (fallback /\ ns # "rnnoise")
           /\ threads' = Goto(t, "enable") /\ UNCHANGED pipe
    /\ UNCHANGED <<mic, applied>> /\ Same

\* setEnabledPath: nothing to do; or the call, after the capture is detached
\* from an unavailable context and rebuilt with the constraints it needs now.
Enable(t) ==
    /\ At(t, "enable")
    /\ LET on == threads[t].req.enabled = "on" IN
        threads' = IF threads[t].req.enabled = Unsaid \/ MicOn = on THEN Goto(t, "republish")
                   ELSE [(IF on /\ mic.pub /\ context = "none" /\ mic.proc
                          THEN Await(t, "stop", "enableRestart") ELSE Goto(t, "enableRestart"))
                         EXCEPT ![t].capture = on /\ CaptureOptions(t),
                                ![t].existing = on /\ mic.pub]
    /\ UNCHANGED <<pipe, mic, applied, fallback>> /\ Same

EnableRestart(t) ==
    /\ At(t, "enableRestart")
    /\ threads' = IF threads[t].existing /\ mic.ns # threads[t].capture
                  THEN Await(t, "restart", "enableCall") ELSE Goto(t, "enableCall")
    /\ UNCHANGED <<pipe, mic, applied, fallback>> /\ Same

EnableCall(t) ==
    /\ At(t, "enableCall")
    /\ IF threads[t].req.enabled = "on"
       THEN /\ pipe' = SetCaptureNoiseSuppression(pipe, threads[t].capture)
            /\ threads' = Await(t, "enable", "enabled")
       ELSE threads' = Await(t, "disable", "enabled") /\ UNCHANGED pipe
    /\ UNCHANGED <<mic, applied, fallback>> /\ Same

Enabled(t) ==
    /\ At(t, "enabled")
    /\ applied' = IF threads[t].req.enabled = "on" /\ ~threads[t].existing
                  THEN threads[t].mode ELSE applied
    /\ threads' = Goto(t, "republish")
    /\ UNCHANGED <<pipe, mic, fallback>> /\ Same

\* applyDiff's decision to republish an enabled microphone.
MustRepublish(t) ==
    LET r == threads[t].req IN
    /\ \/ r.mode # Unsaid /\ r.mode # applied
       \/ r.ns # Unsaid
       \/ r.force
    /\ MicOn

RepublishEntry(t, pc) ==
    [(IF mic.pub /\ context = "none" /\ mic.proc THEN Await(t, "stop", pc) ELSE Goto(t, pc))
     EXCEPT ![t].capture = CaptureOptions(t), ![t].existing = mic.pub,
            ![t].unpublished = FALSE]

Republish(t) ==
    /\ At(t, "republish")
    /\ threads' = IF t = "fallback" \/ MustRepublish(t) THEN RepublishEntry(t, "recapture")
                  ELSE Goto(t, "mount")
    /\ UNCHANGED <<pipe, mic, applied, fallback>> /\ Same

\* republishPath: the capture is rebuilt first, or, when the track has been
\* disabled meanwhile, switched off and on.
Recapture(t) ==
    /\ At(t, "recapture")
    /\ pipe' = SetCaptureNoiseSuppression(pipe, threads[t].capture)
    /\ threads' = IF threads[t].existing /\ MicOn THEN Await(t, "restart", "reattach")
                  ELSE Await(t, "disable", "reenable")
    /\ UNCHANGED <<mic, applied, fallback>> /\ Same

Reenable(t) ==
    /\ At(t, "reenable")
    /\ threads' = Await(t, "enable", "reenabled")
    /\ UNCHANGED <<pipe, mic, applied, fallback>> /\ Same

Reenabled(t) ==
    /\ At(t, "reenabled")
    /\ applied' = threads[t].mode
    /\ threads' = [Goto(t, "attach") EXCEPT ![t].back = "mount"]
    /\ UNCHANGED <<pipe, mic, fallback>> /\ Same

Reattach(t) ==
    /\ At(t, "reattach")
    /\ threads' = [Goto(t, "attach") EXCEPT ![t].back = "unpublish"]
    /\ UNCHANGED <<pipe, mic, applied, fallback>> /\ Same

Unpublish(t) ==
    /\ At(t, "unpublish")
    /\ threads' = [Await(t, "unpublish", "publish") EXCEPT ![t].unpublished = TRUE]
    /\ UNCHANGED <<pipe, mic, applied, fallback>> /\ Same

Publish(t) ==
    /\ At(t, "publish")
    /\ threads' = Await(t, "publish", "published")
    /\ UNCHANGED <<pipe, mic, applied, fallback>> /\ Same

Published(t) ==
    /\ At(t, "published")
    /\ applied' = threads[t].mode
    /\ threads' = Goto(t, "mount")
    /\ UNCHANGED <<pipe, mic, fallback>> /\ Same

\* applyDiff after the republication: an enabled microphone gets the processor
\* if it has none, and RNNoise is built last.
Mount(t) ==
    /\ At(t, "mount")
    /\ threads' = IF t = "queue" /\ threads[t].req.enabled = "on"
                  THEN [Goto(t, "attach") EXCEPT ![t].back = "suppress"]
                  ELSE Goto(t, "suppress")
    /\ UNCHANGED <<pipe, mic, applied, fallback>> /\ Same

Suppress(t) ==
    /\ At(t, "suppress")
    /\ IF t = "queue" /\ threads[t].req.ns # Unsaid THEN SuppressThen(t, "end")
       ELSE threads' = Goto(t, "end") /\ UNCHANGED pipe
    /\ UNCHANGED <<mic, applied, fallback>> /\ Same

\* attachPath: the processor goes on the track; without a context the track is
\* detached from it and captured again under the constraints that remain.
Attach(t) ==
    /\ At(t, "attach")
    /\ LET back == threads[t].back IN
        \/ /\ context = "none" /\ MicOn
           /\ threads' = IF mic.proc THEN Await(t, "stop", "attachRestart")
                         ELSE Goto(t, "attachRestart")
           /\ UNCHANGED pipe
        \/ /\ context # "none" /\ mic.pub /\ ~mic.proc
           /\ pipe' = SetCaptureNoiseSuppression(pipe, CaptureOptions("queue"))
           /\ threads' = Await(t, "attach", back)
        \/ /\ IF context = "none" THEN ~MicOn ELSE ~mic.pub \/ mic.proc
           /\ threads' = Goto(t, back) /\ UNCHANGED pipe
    /\ UNCHANGED <<mic, applied, fallback>> /\ Same

AttachRestart(t) ==
    /\ At(t, "attachRestart")
    /\ threads' = IF mic.ns # CaptureOptions("queue")
                  THEN [Await(t, "restart", threads[t].back)
                        EXCEPT ![t].capture = CaptureOptions("queue")]
                  ELSE Goto(t, threads[t].back)
    /\ UNCHANGED <<pipe, mic, applied, fallback>> /\ Same

\* republishPath's catch: a live microphone is restored before the error goes on.
Recover(t) ==
    /\ At(t, "recover")
    /\ threads' = IF MicOn THEN Goto(t, "end")
                  ELSE IF threads[t].unpublished /\ threads[t].existing
                  THEN IF mic.pub THEN [Goto(t, "attach") EXCEPT ![t].back = "end"]
                       ELSE Await(t, "restore", "recovered")
                  ELSE Await(t, "enable", "recovered")
    /\ UNCHANGED <<pipe, mic, applied, fallback>> /\ Same

Recovered(t) ==
    /\ At(t, "recovered")
    /\ threads' = [Goto(t, "attach") EXCEPT ![t].back = "end"]
    /\ UNCHANGED <<pipe, mic, applied, fallback>> /\ Same

InRepublication(t) ==
    \/ threads[t].pc \in {"recapture", "reattach", "unpublish", "publish", "published",
                         "reenable", "reenabled", "mount"}
    \/ threads[t].pc = "attachRestart" /\ threads[t].back \in {"unpublish", "mount"}

\* The thread ends; a fallback's end is what its build was waiting for.
EndFallback(p, t) ==
    IF t # "fallback" THEN p
    ELSE LET b == CHOOSE x \in p.builds : x.stage = "unavailable" /\ x.gen = threads[t].gen
         IN EndBuild(p, b)

End(t) ==
    /\ At(t, "end")
    /\ threads' = [threads EXCEPT ![t] = Idle]
    /\ pipe' = EndFallback(pipe, t)
    /\ UNCHANGED <<mic, applied, fallback>> /\ Same

Step(t) ==
    \/ TearDown(t) \/ Enable(t) \/ EnableRestart(t) \/ EnableCall(t) \/ Enabled(t)
    \/ Republish(t) \/ Recapture(t) \/ Reenable(t) \/ Reenabled(t) \/ Reattach(t)
    \/ Unpublish(t) \/ Publish(t) \/ Published(t) \/ Mount(t) \/ Suppress(t)
    \/ Attach(t) \/ AttachRestart(t) \/ Recover(t) \/ Recovered(t) \/ End(t)

-----------------------------------------------------------------------------
(* LiveKit answers the thread, which goes on only if it is current. *)

Resume(t, pc) ==
    [u \in Threads |->
        IF u # t THEN [threads[u] EXCEPT !.blocked = @ /\ threads[t].call \notin Locking]
        ELSE [threads[t] EXCEPT !.call = "none", !.pc = IF IsCurrent(t) THEN pc ELSE "end"]]

\* Only the room of the session has a publication to change.
Done(t) ==
    LET call == threads[t].call
        ns == threads[t].capture
        mode == threads[t].mode IN
    IF ~joined \/ threads[t].sess # session THEN mic
    ELSE CASE call = "stop"      -> [mic EXCEPT !.proc = FALSE]
           [] call = "restart"   -> [mic EXCEPT !.ns = ns]
           [] call = "enable"    -> IF mic.pub THEN [mic EXCEPT !.on = TRUE]
                                    ELSE [pub |-> TRUE, on |-> TRUE, ns |-> ns, dtx |-> mode,
                                          proc |-> FALSE]
           [] call = "disable"   -> [mic EXCEPT !.on = FALSE]
           [] call = "unpublish" -> [mic EXCEPT !.pub = FALSE]
           [] call = "publish"   -> [mic EXCEPT !.pub = TRUE, !.on = TRUE, !.dtx = mode]
           [] call = "restore"   -> [mic EXCEPT !.pub = TRUE, !.on = TRUE]
           [] call = "attach"    -> [mic EXCEPT !.proc = TRUE]

\* What the call does to the processor: LiveKit initialises, restarts and
\* destroys it; on a track of an old room only a late setProcessor does.
Processed(t) ==
    LET call == threads[t].call
        live == joined /\ threads[t].sess = session IN
    IF call = "attach" \/ (call = "restart" /\ live /\ mic.proc) THEN Connect(pipe)
    ELSE IF call = "stop" /\ live THEN Disconnect(pipe) ELSE pipe

Completes(t) ==
    /\ Yielded /\ threads[t].call \notin {"none", "build"} /\ ~threads[t].blocked
    /\ mic' = Done(t)
    /\ pipe' = Processed(t)
    /\ threads' = Resume(t, threads[t].pc)
    /\ UNCHANGED <<applied, fallback>> /\ Same

Fails(t) ==
    /\ Yielded /\ threads[t].call \notin {"none", "build"} /\ ~threads[t].blocked
    /\ "failure" \in Scope /\ failures < MaxFailures
    /\ failures' = failures + 1
    /\ declared' = [declared EXCEPT !.failed = TRUE]
    /\ threads' = Resume(t, IF InRepublication(t) THEN "recover" ELSE "end")
    /\ UNCHANGED <<prefs, context, session, joined, revision, queue, applied, fallback,
                   mic, pipe>>

\* The promise of the node that setNoiseSuppression waits for is settled.
BuildSettled(t) ==
    /\ Yielded /\ threads[t].call = "build"
    /\ \A b \in pipe.builds : b.gen # threads[t].gen
    /\ threads' = Resume(t, threads[t].pc)
    /\ UNCHANGED <<mic, pipe, applied, fallback>> /\ Same

Reporter == IF joined THEN session ELSE 0

\* A build advances.  RNNoise needs a context at 48 kHz; loading the binary or
\* creating the node may fail all the same.
Build(b, ok) ==
    /\ Yielded /\ b.stage # "unavailable"
    /\ IF ok THEN context = "rnnoise" \/ b.stage = "load" ELSE failures < MaxFailures \/ context # "rnnoise"
    /\ failures' = IF ~ok /\ context = "rnnoise" THEN failures + 1 ELSE failures
    /\ pipe' = IF b.stage = "load" THEN Loaded(pipe, b, ok /\ context = "rnnoise", Reporter)
               ELSE Created(pipe, b, ok, Reporter)
    /\ UNCHANGED <<prefs, context, session, joined, revision, queue, threads, applied,
                   fallback, mic, declared>>

\* handleRnnoiseUnavailable's timer: if graph and session are still those of
\* the report and RNNoise is still wanted on a live microphone, the fallback
\* thread republishes with the system's suppression.  (One at a time.)
FallbackTimer(b) ==
    /\ Yielded /\ b.stage = "unavailable" /\ threads["fallback"].pc = "idle"
    /\ IF /\ IsGenerationActive(pipe, b.gen)
          /\ joined /\ b.sess = session
          /\ prefs.ns = "rnnoise" /\ MicOn
       THEN /\ fallback' = TRUE
            /\ threads' = [threads EXCEPT !["fallback"] =
                              [Idle EXCEPT !.pc = "republish", !.rev = revision,
                                           !.sess = session, !.gen = b.gen,
                                           !.mode = prefs.mode]]
            /\ UNCHANGED pipe
       ELSE pipe' = EndBuild(pipe, b) /\ UNCHANGED <<fallback, threads>>
    /\ declared' = [declared EXCEPT !.overlapped = @ \/ threads["queue"].pc # "idle"]
    /\ UNCHANGED <<prefs, context, session, joined, revision, queue, failures, mic, applied>>

-----------------------------------------------------------------------------
Declare ==
    \/ \E on \in BOOLEAN : SetMuted(on)
    \/ \E option \in Options : SetNoiseOption(option)
    \/ \E m \in Modes : SetMode(m)
    \/ ForceRepublish

Answers ==
    \/ \E t \in Threads : Completes(t) \/ BuildSettled(t)
    \/ \E b \in pipe.builds : FallbackTimer(b) \/ \E ok \in BOOLEAN : Build(b, ok)

Next ==
    \/ BeginSession \/ EndSession \/ ContextClosed
    \/ Declare \/ Begin
    \/ \E t \in Threads : Step(t) \/ Fails(t)
    \/ Answers

Spec == Init /\ [][Next]_vars

\* The thread runs; LiveKit, the loader and the timers answer in the end.
FairSpec == Spec /\ WF_vars(Begin) /\ WF_vars(\E t \in Threads : Step(t)) /\ WF_vars(Answers)

-----------------------------------------------------------------------------
(* Properties. *)

\* The browser's suppression and RNNoise never work on one sound: whenever the
\* microphone is heard and not being captured anew, a track captured with the
\* browser's suppression has no RNNoise node in its path.  (A call that comes
\* while the fallback has the track unpublished finds no track to capture anew
\* and can break this; such calls are left out.)
NeverTwoSuppressors ==
    (Yielded /\ ~declared.crossed /\ MicOn /\ mic.proc /\ mic.ns /\ \A t \in Threads : threads[t].call # "restart")
        => ~Suppressing(pipe)

\* A node that has been created is in the graph, under flags that want it
\* there, or has been destroyed, however late it came.
NoStrayNode ==
    /\ pipe.alive = IF pipe.node THEN 1 ELSE 0
    /\ pipe.node => pipe.graph /\ pipe.allowed /\ pipe.option = "rnnoise"

\* Only the newest call, in the session it was begun in, asks LiveKit for
\* anything: a call that was superseded or whose room was left falls silent.
AsksWhenCurrent ==
    \A t \in Threads :
        (threads[t].call = "none" /\ threads'[t].call \notin {"none", "build"})
            => threads[t].rev = revision /\ threads[t].sess = session /\ joined

OnlyCurrentCalls == [][AsksWhenCurrent]_vars

\* When all is quiet, nothing has failed and no call came while another was
\* running, the microphone is as declared, in the preferred mode, and under
\* exactly one suppressor.
SettledAsDeclared ==
    (Quiet /\ joined /\ ~declared.failed /\ ~declared.overlapped /\ declared.enabled # Unsaid)
        => /\ MicOn = (declared.enabled = "on")
           /\ MicOn => /\ mic.dtx = prefs.mode
                       /\ context # "none" => mic.proc
                       /\ mic.ns # Suppressing(pipe)

\* Every call is answered in the end: a call that waits for RNNoise waits for
\* the fallback too, which must not wait for the call.
Pending == queue # <<>> \/ threads["queue"].pc # "idle"
CallsEnd == Pending ~> ~Pending

=============================================================================
