------------------------------- MODULE SoundRoute ------------------------------
(***************************************************************************)
(* The output of the notification sounds: BrowserApplicationSoundAudio-     *)
(* Adapter in web/src/application-sounds/web-audio.ts.  The audio context   *)
(* is created late, the wished device may change at any time, and setSinkId *)
(* answers later: the wishes are applied one after the other in a queue,    *)
(* each only while it is the newest.                                        *)
(*                                                                         *)
(* A device is a number: 0 the browser's own choice (''), 1 the system's    *)
(* default, which names hardware that may change, the others hardware.  A   *)
(* sink keeps the hardware its name stood for when it was bound.            *)
(***************************************************************************)
EXTENDS Naturals, Sequences

CONSTANTS
    Hardware,     \* devices, numbers above 1
    MaxWishes,    \* bound: changes of the wish or of the system's default
    MaxFailures,  \* bound: calls of setSinkId that are refused
    MaxContexts   \* bound: contexts created

SoundRouteAssumption ==
    /\ Hardware \subseteq Nat \ {0, 1} /\ Hardware # {}
    /\ MaxWishes \in Nat /\ MaxFailures \in Nat /\ MaxContexts \in Nat

Browser == 0
System == 1
Devices == {Browser, System} \cup Hardware

VARIABLES
    default,   \* the hardware the system's default is, whether its change is still to be
               \* told, and whether the browser can route the sounds (setSinkId)
    wish,      \* outputDeviceId and routeRevision
    context,   \* the live context, {} for none
    sinks,     \* the sink of each context created
    applied,   \* appliedOutputDeviceId, {} for null
    queue,     \* routes that wait: routeQueue, and queuedRoute
    run,       \* the route under way
    spent,     \* bounds
    excused    \* history: what a refusal or a superseded route left behind

srVars == <<default, wish, context, sinks, applied, queue, run, spent, excused>>

Contexts == 1..Len(sinks)

Init ==
    /\ \E h \in Hardware, can \in BOOLEAN : default = [is |-> h, untold |-> FALSE, routable |-> can]
    /\ wish = [device |-> Browser, revision |-> 0]
    /\ context = {} /\ sinks = <<>> /\ applied = {}
    /\ queue = [waits |-> <<>>, newest |-> {}]
    /\ run = {}
    /\ spent = [wishes |-> 0, failures |-> 0]
    /\ excused = [refused |-> FALSE, unmarked |-> FALSE]

TypeOK ==
    /\ default.is \in Hardware /\ wish.device \in Devices /\ wish.revision <= MaxWishes
    /\ context \subseteq Contexts /\ Len(sinks) <= MaxContexts
    /\ \A c \in Contexts : sinks[c].device \in Devices
    /\ applied \subseteq Devices
    /\ \A r \in run : r.at \in {"leave", "bind", "fallback"} /\ r.context \in Contexts

Route(c, revision) == [context |-> c, revision |-> revision, at |-> "leave", target |-> Browser]

\* enqueueOutputRoute
EnqueueOutputRoute(q, c, revision) ==
    IF q.newest = {<<c, revision>>} THEN q
    ELSE [waits |-> Append(q.waits, Route(c, revision)), newest |-> {<<c, revision>>}]

DefaultChanges ==
    /\ spent.wishes < MaxWishes /\ spent' = [spent EXCEPT !.wishes = @ + 1]
    /\ \E h \in Hardware \ {default.is} : default' = [default EXCEPT !.is = h, !.untold = TRUE]
    /\ UNCHANGED <<wish, context, sinks, applied, queue, run, excused>>

\* followOutput: another device, or a newer generation of the same, which a
\* change of the default or any other rebinding of the voice raises.
FollowOutput ==
    \E d \in Devices \ {Browser} :
        /\ \/ d = wish.device /\ default.untold /\ UNCHANGED spent
           \/ /\ spent.wishes < MaxWishes
              /\ spent' = [spent EXCEPT !.wishes = @ + 1]
        /\ default' = [default EXCEPT !.untold = FALSE]
        /\ wish' = [device |-> d, revision |-> wish.revision + 1]
        /\ queue' = IF context = {} THEN queue
                    ELSE EnqueueOutputRoute(queue, CHOOSE c \in context : TRUE, wish.revision + 1)
        /\ excused' = [excused EXCEPT !.refused = FALSE]
        /\ UNCHANGED <<context, sinks, applied, run>>

\* getOrCreateContext, at the first interaction or the first sound to decode.
GetOrCreateContext ==
    /\ context = {} /\ Len(sinks) < MaxContexts
    /\ sinks' = Append(sinks, [device |-> Browser, of |-> Browser])
    /\ context' = {Len(sinks')}
    /\ applied' = {}
    /\ queue' = EnqueueOutputRoute([queue EXCEPT !.newest = {}], Len(sinks'), wish.revision)
    /\ excused' = [refused |-> FALSE, unmarked |-> FALSE]
    /\ UNCHANGED <<default, wish, run, spent>>

Dispose ==
    /\ context # {}
    /\ context' = {} /\ applied' = {}
    /\ UNCHANGED <<default, wish, sinks, queue, run, spent, excused>>

Current(r) == context = {r.context} /\ r.revision = wish.revision

\* The next route begins, where the browser can route.  A device that is already applied is left first: its
\* name may stand for other hardware now, and setSinkId does nothing for the
\* name it has.
FirstStep(target) == IF applied = {target} THEN "leave" ELSE "bind"

Begin ==
    /\ run = {} /\ queue.waits # <<>>
    /\ LET r == Head(queue.waits) IN
       run' = IF Current(r) /\ default.routable THEN {[r EXCEPT !.target = wish.device, !.at = FirstStep(wish.device)]} ELSE {}
    /\ queue' = [queue EXCEPT !.waits = Tail(@)]
    /\ UNCHANGED <<default, wish, context, sinks, applied, spent, excused>>

\* setSinkId: nothing for the name the sink has.
SetSinkId(s, d) ==
    IF s.device = d THEN s ELSE [device |-> d, of |-> IF d = System THEN default.is ELSE d]

Sets(r, d) == context = {r.context} /\ sinks' = [sinks EXCEPT ![r.context] = SetSinkId(@, d)] /\ UNCHANGED spent

\* A device that is not there is refused, and so is a context that was closed.
Refused(r) ==
    /\ IF context = {r.context}
       THEN spent.failures < MaxFailures /\ spent' = [spent EXCEPT !.failures = @ + 1]
       ELSE UNCHANGED spent
    /\ UNCHANGED sinks

\* markApplied
MarkApplied(r, d) == applied' = IF Current(r) THEN d ELSE applied

Left ==
    \E r \in run :
        /\ r.at = "leave"
        /\ \/ Sets(r, Browser) /\ run' = IF Current(r) THEN {[r EXCEPT !.at = "bind"]} ELSE {}
           \/ Refused(r) /\ run' = {[r EXCEPT !.at = "fallback"]}
        /\ UNCHANGED <<default, wish, context, applied, queue, excused>>

Bound ==
    \E r \in run :
        /\ r.at = "bind"
        /\ \/ /\ Sets(r, r.target) /\ run' = {} /\ MarkApplied(r, {r.target})
              /\ excused' = [excused EXCEPT !.unmarked =
                     IF sinks' # sinks THEN ~Current(r) ELSE @]
           \/ Refused(r) /\ run' = {[r EXCEPT !.at = "fallback"]} /\ UNCHANGED <<applied, excused>>
        /\ UNCHANGED <<default, wish, context, queue>>

FellBack ==
    \E r \in run :
        /\ r.at = "fallback"
        /\ \/ /\ Sets(r, Browser) /\ MarkApplied(r, {Browser})
              /\ excused' = [excused EXCEPT !.refused = Current(r)]
           \/ /\ Refused(r) /\ MarkApplied(r, {})
              /\ excused' = [refused |-> Current(r), unmarked |-> TRUE]
        /\ run' = {}
        /\ UNCHANGED <<default, wish, context, queue>>

Next ==
    DefaultChanges \/ FollowOutput \/ GetOrCreateContext \/ Dispose \/ Begin \/ Left \/ Bound \/ FellBack

Spec == Init /\ [][Next]_srVars

-----------------------------------------------------------------------------
(* Properties. *)

\* Where sounds can be routed and no route is under way they come out of the wished device, and of
\* the hardware the system's default now is, once its change was told.  A
\* refused device excuses the fallback until the next wish; the hardware is
\* excused after a route that bound it was superseded before it was noted, and
\* after the fallback was refused as well (web-audio.ts:101-147).
SoundsGoWhereWished ==
    (default.routable /\ run = {} /\ queue.waits = <<>> /\ ~excused.refused) =>
        \A c \in context :
            /\ sinks[c].device = wish.device
            /\ (wish.device = System /\ ~default.untold /\ ~excused.unmarked) => sinks[c].of = default.is
=============================================================================
