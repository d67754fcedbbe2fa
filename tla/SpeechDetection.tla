---------------------------- MODULE SpeechDetection ----------------------------
(***************************************************************************)
(* The always-on speech detection engine of a browser and the lifecycle     *)
(* that drives it: web/src/audio/SpeechDetectionEngine.ts and               *)
(* SpeechDetectionLifecycle.ts.  The engine opens one capture of the        *)
(* microphone in several awaits; the lifecycle starts, restarts and stops   *)
(* it when the account, the permission, the input device or its routing     *)
(* generation changes, whatever start is still under way.                   *)
(*                                                                         *)
(* A capture stands for the stream with its context, worker and nodes;      *)
(* `held' is the one the engine's fields name, `lost' those it opened and   *)
(* no longer names.                                                         *)
(***************************************************************************)
EXTENDS Naturals, FiniteSets

CONSTANTS
    Devices,      \* input devices, numbers from 1
    MaxChanges,   \* bound: changes of what is wanted, and events that only sync
    MaxFailures   \* bound: failed starts and dying workers

SpeechDetectionAssumption ==
    Devices \subseteq Nat \ {0} /\ MaxChanges \in Nat /\ MaxFailures \in Nat

VARIABLES
    want,     \* [active, device, generation]: login with permission, what to follow
    e,        \* the engine; history: clash, two starts of one operation were
              \* under way together
    l,        \* the lifecycle: failed, the generation last synced ({} none)
    starts,   \* startCapture calls under way
    spent,    \* bounds
    excused   \* history: a start was given up to one that does not fit

sdVars == <<want, e, l, starts, spent, excused>>

Init ==
    /\ want = [active |-> FALSE, device |-> CHOOSE d \in Devices : TRUE, generation |-> 0]
    /\ e = [operation |-> 0, failed |-> FALSE, device |-> 0, promise |-> 0, last |-> 0,
            held |-> {}, lost |-> {}, clash |-> FALSE]
    /\ l = [failed |-> FALSE, generation |-> {}]
    /\ starts = {}
    /\ spent = [changes |-> 0, failures |-> 0]
    /\ excused = FALSE

Captures == [device : Devices, generation : 0 .. MaxChanges, id : Nat]

TypeOK ==
    /\ want.device \in Devices /\ want.active \in BOOLEAN
    /\ e.device \in Devices \cup {0}
    /\ e.held \cup e.lost \subseteq Captures /\ Cardinality(e.held) <= 1
    /\ \A s \in starts : s.operation <= e.operation /\ s.at \in {"stream", "loading", "resume"}
    /\ e.promise # 0 => \E s \in starts : s.id = e.promise

-----------------------------------------------------------------------------
(* The engine's functions between two awaits: an engine, the calls under way. *)

With(x, ss) == [x |-> x, ss |-> ss]

Release(x) == [x EXCEPT !.held = {}]

Supersede(x) == Release([x EXCEPT !.operation = @ + 1])

StopEngine(x) == [Supersede(x) EXCEPT !.device = 0]

\* The call is the engine's startPromise; kind says how its end clears that.
\* A start's end clears it whoever's it is by then (83-85), so a second call of
\* the same operation can begin: they clash.
StartCapture(x, ss, kind, device) ==
    LET s == [id |-> x.last + 1, kind |-> kind, operation |-> x.operation, device |-> device,
              generation |-> want'.generation, at |-> "stream"] IN
    With([x EXCEPT !.last = @ + 1, !.promise = s.id,
                   !.clash = @ \/ \E t \in ss : t.operation = x.operation],
         ss \cup {s})

Start(x, ss, device) ==
    IF x.device = device \/ x.failed \/ x.promise # 0 THEN With(x, ss)
    ELSE StartCapture(IF x.device # 0 THEN Supersede(x) ELSE x, ss, "start", device)

Restart(x, ss, device) ==
    IF x.failed THEN With(x, ss)
    ELSE StartCapture(StopEngine(x), ss, "restart", device)

\* fail, and the lifecycle's listener.
Fail(x, m) ==
    IF x.failed THEN <<x, m>> ELSE <<Supersede([x EXCEPT !.failed = TRUE]), [m EXCEPT !.failed = TRUE]>>

-----------------------------------------------------------------------------
(* The lifecycle. *)

Retry(x, ss, device) == Start([x EXCEPT !.failed = FALSE], ss, device)

\* What the lifecycle asks for: the engine and its calls afterwards.
Asked(w) ==
    IF ~w.active THEN With(StopEngine(e), starts)
    ELSE IF l.failed THEN Retry(e, starts, w.device)
    ELSE IF l.generation \notin {{}, {w.generation}} THEN Restart(e, starts, w.device)
    ELSE Start(e, starts, w.device)

\* What is open or on its way is what is wanted.
Fits(x, ss, w) ==
    \/ \E c \in x.held : c.device = w.device /\ c.generation = w.generation
    \/ \E s \in ss : s.id = x.promise /\ s.device = w.device
                     /\ s.operation = x.operation /\ s.generation = w.generation

\* sync: after every change of what it reads, also one that changes nothing.
Sync ==
    LET a == Asked(want') IN
    /\ e' = a.x /\ starts' = a.ss
    /\ l' = IF ~want'.active THEN [l EXCEPT !.generation = {}]
            ELSE IF l.failed THEN l
            ELSE [l EXCEPT !.generation = {want'.generation}]
    /\ excused' = (excused \/ (want'.active /\ ~a.x.failed /\ ~Fits(a.x, a.ss, want')))

-----------------------------------------------------------------------------
(* Actions. *)

Change(w) ==
    /\ spent.changes < MaxChanges
    /\ spent' = [spent EXCEPT !.changes = @ + 1]
    /\ want' = w
    /\ Sync

\* Login with the permission granted; logout or the permission taken away.
Activate == ~want.active /\ Change([want EXCEPT !.active = TRUE])
Deactivate == want.active /\ Change([want EXCEPT !.active = FALSE])

\* followInputDeviceId: another device chosen, a channel joined or left.
Follow == \E d \in Devices \ {want.device} : Change([want EXCEPT !.device = d])

\* inputRoutingGeneration: the input was bound anew.
Rebound == Change([want EXCEPT !.generation = @ + 1])

\* The watched getter reads the account: an update of it syncs as well.
AccountUpdated == Change(want)

\* The page becomes visible, or the device list changes.
RetryEvent ==
    /\ want.active /\ l.failed
    /\ spent.changes < MaxChanges
    /\ spent' = [spent EXCEPT !.changes = @ + 1]
    /\ LET a == Retry(e, starts, want.device) IN
       /\ want' = want /\ e' = a.x /\ starts' = a.ss
       /\ excused' = (excused \/ ~Fits(a.x, a.ss, want))
    /\ UNCHANGED l

\* The end of a start; a restart's clears the promise only when it is its own.
Finish(x, s) ==
    /\ starts' = starts \ {s}
    /\ e' = IF s.kind = "start" \/ x.promise = s.id THEN [x EXCEPT !.promise = 0] ELSE x

Current_Always(s) == TRUE
Current(s) == s.operation = e.operation

Capture(s) == [device |-> s.device, generation |-> s.generation, id |-> s.id]

\* getUserMedia answers; a superseded start stops the stream it was given.
Opened ==
    \E s \in starts :
        /\ s.at = "stream"
        /\ IF Current(s)
           THEN /\ e' = [e EXCEPT !.held = {Capture(s)}, !.lost = @ \cup e.held]
                /\ starts' = (starts \ {s}) \cup {[s EXCEPT !.at = "loading"]}
           ELSE Finish(e, s)
        /\ UNCHANGED <<want, l, spent, excused>>

\* The worklet module and the worker are loaded: the same check after each.  The
\* worker of a superseded start is terminated and may never answer: nothing
\* makes such a start end.
Loaded ==
    \E s \in starts :
        /\ s.at = "loading"
        /\ IF Current(s)
           THEN starts' = (starts \ {s}) \cup {[s EXCEPT !.at = "resume"]} /\ UNCHANGED e
           ELSE Finish(e, s)
        /\ UNCHANGED <<want, l, spent, excused>>

\* The context runs.  There is no check here: a superseded start, whose context
\* is being closed, may still see it running.
Running ==
    \E s \in starts :
        /\ s.at = "resume"
        /\ \/ Finish([e EXCEPT !.device = s.device], s)
           \/ ~Current(s) /\ Finish(e, s)
        /\ UNCHANGED <<want, l, spent, excused>>

\* Any step of a start throws.
StartFails ==
    \E s \in starts :
        /\ spent.failures < MaxFailures
        /\ spent' = [spent EXCEPT !.failures = @ + 1]
        /\ LET f == IF Current(s) THEN Fail(e, l) ELSE <<e, l>> IN Finish(f[1], s) /\ l' = f[2]
        /\ UNCHANGED <<want, excused>>

\* The worker of a capture reports an error once it is ready: while the context
\* resumes, while the engine listens, or when the engine has lost it.
WorkerDies ==
    /\ \E c \in e.held \cup e.lost : \A s \in starts : Capture(s) = c => s.at = "resume"
    /\ spent.failures < MaxFailures
    /\ spent' = [spent EXCEPT !.failures = @ + 1]
    /\ LET f == Fail(e, l) IN e' = f[1] /\ l' = f[2]
    /\ UNCHANGED <<want, starts, excused>>

Next ==
    \/ Activate \/ Deactivate \/ Follow \/ Rebound \/ AccountUpdated \/ RetryEvent
    \/ Opened \/ Loaded \/ Running \/ StartFails \/ WorkerDies

Spec == Init /\ [][Next]_sdVars

-----------------------------------------------------------------------------
(* Properties. *)

\* The engine loses a capture, open and no longer named, only when two starts
\* of one operation clash; nothing it names is open once the account or the
\* permission is gone; and when no start is under way the engine listens to the
\* wanted device as it is routed now, unless two starts have clashed or a call
\* was given up to one under way, or already open, that does not fit
\* (SpeechDetectionEngine.ts:70-118, SpeechDetectionLifecycle.ts:46-62).  A
\* superseded start that still sets activeDeviceId (186-188) does no harm of
\* its own.  The clash is what the engine's comment (45-47) says startPromise
\* prevents, and the misfit what start's (70-71) says restarts the capture.
CaptureFollows ==
    /\ e.lost # {} => e.clash
    /\ ~want.active => e.held = {}
    /\ starts = {} /\ want.active /\ ~e.failed /\ ~excused /\ ~e.clash =>
          \E c \in e.held : c.device = want.device /\ c.generation = want.generation

\* "The engine stays down after a failure and is retried on an environment
\* event" (SpeechDetectionLifecycle.ts:17-20): after a retry the engine is
\* failed again, starting or listening.
RetryRestarts ==
    [][RetryEvent => e'.failed \/ starts' # {} \/ e'.held # {}]_sdVars
=============================================================================
