------------------------------ MODULE VoiceDevices ------------------------------
(***************************************************************************)
(* The devices of one browser: web/src/stores/voice-devices.ts.  Devices    *)
(* come and go, the system's default becomes another one, tracks end; the   *)
(* module lists the devices again and binds the connections (the channel's  *)
(* and a call's) to the ones they should use, beside the user's own choice  *)
(* and the joins.                                                           *)
(*                                                                         *)
(* A device is a number, Default the entry "default".  A connection is      *)
(* bound, for each kind, to a device and to what the default meant then.    *)
(***************************************************************************)
EXTENDS Naturals, FiniteSets

CONSTANTS
    Devices,         \* devices of each kind besides the default
    MaxConnections,  \* bound: connections opened
    MaxChanges,      \* bound: changes of the devices
    MaxChoices,      \* bound: choices of the user
    MaxUpsets        \* bound: failures

Default == 0

VoiceDevicesAssumption ==
    /\ Devices \subseteq Nat \ {Default}
    /\ \A m \in {MaxConnections, MaxChanges, MaxChoices, MaxUpsets} : m \in Nat

VARIABLES
    world,    \* the devices there are
    conns,    \* LiveKit connections
    d,        \* the module's state
    joining,  \* applications of the preferred devices under way
    news,     \* events of the browser on their way
    done,     \* bounds
    missed    \* history: an overlap the code does not repair

dvVars == <<world, conns, d, joining, news, done, missed>>

Kinds == {"input", "output"}
Each(x) == [k \in Kinds |-> x]
None == "none"

Init ==
    /\ world = Each([present |-> Devices, identity |-> 1])
    /\ conns = {} /\ joining = {} /\ news = {}
    /\ d = [listed |-> world, preferred |-> Each(Default), active |-> Each({}),
            snapshot |-> Each({1}), stops |-> 0,
            changing |-> None, queued |-> None, refresh |-> {}, choice |-> {}]
    /\ done = [connections |-> 0, changes |-> 0, choices |-> 0, upsets |-> 0]
    /\ missed = FALSE

\* active and snapshot are sets of at most one member: empty before the first.
TypeOK ==
    /\ d.changing \in Kinds \cup {None} /\ d.queued \in {"devicechange", "ended", "freeze", None}
    /\ \A k \in Kinds : /\ d.preferred[k] \in Devices \cup {Default}
                        /\ Cardinality(d.active[k]) <= 1 /\ Cardinality(d.snapshot[k]) <= 1
    /\ Cardinality(d.refresh) <= 1 /\ Cardinality(d.choice) <= 1
    /\ (d.choice = {}) = (d.changing = None)
    /\ \A c \in conns : c.id \in 1..MaxConnections

-----------------------------------------------------------------------------
(* The devices that should be used. *)

Spend(what) == [done EXCEPT ![what] = @ + 1]
May(what, bound) == done[what] < bound

Only(S) == CHOOSE x \in S : TRUE

Bind(device, k) ==
    [device |-> device, heard |-> IF device = Default THEN world[k].identity ELSE device]

Current(c) == \E x \in conns : x.id = c.id

Ready == {c \in conns : c.ready}

\* buildVoiceDeviceOptions: the default is always offered.
Available(w, k) == w.listed[k].present \cup {Default}

ResolvedPreferred(w, k) == IF w.preferred[k] \in Available(w, k) THEN w.preferred[k] ELSE Default

\* followInputDeviceId and followOutputDeviceId: what is shown as in use.
Follow(w, k) ==
    IF conns # {} /\ w.active[k] # {} THEN Only(w.active[k]) ELSE ResolvedPreferred(w, k)

\* A session that fell back to the default stays there.
TargetFor(w, k) ==
    IF conns # {} /\ w.active[k] = {Default} THEN Default ELSE ResolvedPreferred(w, k)

ShouldRebind(w, k, reason) ==
    LET target == TargetFor(w, k)
        identity == w.listed[k].identity IN
    \/ reason = "ended"
    \/ Ready # {} /\ w.active[k] # {target}
    \/ target = Default /\ (identity = 0 \/ (w.snapshot[k] # {} /\ w.snapshot[k] # {identity}))

Snapshot(w, k) ==
    IF w.listed[k].identity = 0 THEN w ELSE [w EXCEPT !.snapshot[k] = {w.listed[k].identity}]

-----------------------------------------------------------------------------
(* notifyDeviceWorldMayHaveChanged and the round it starts. *)

MergeQueuedReason(current, next) == IF "ended" \in {current, next} THEN "ended" ELSE next

ShouldIgnoreEnded(w) == w.stops > 0 \/ w.refresh # {}

Notify(w, reason) ==
    IF reason = "ended" /\ ShouldIgnoreEnded(w) THEN w
    ELSE IF w.changing # None \/ w.refresh # {} THEN [w EXCEPT !.queued = MergeQueuedReason(@, reason)]
    ELSE [w EXCEPT !.refresh = {[at |-> "list", reason |-> reason]}]

Flush(w) ==
    IF w.queued = None \/ w.changing # None THEN w
    ELSE Notify([w EXCEPT !.queued = None], w.queued)

\* The round ends: a change that came meanwhile starts the next one.
RoundEnds(w) == Flush([w EXCEPT !.refresh = {}])

Rebinding(w, k, reason) ==
    [w EXCEPT !.refresh = {[at |-> "switch", reason |-> reason, kind |-> k, todo |-> {c.id : c \in Ready},
                            any |-> Ready # {}, target |-> TargetFor(w, k)]}]

OutputRound(w, reason) ==
    IF ShouldRebind(w, "output", reason) THEN Rebinding(w, "output", reason)
    ELSE RoundEnds(Snapshot(w, "output"))

InputRound(w, reason) ==
    IF ShouldRebind(w, "input", reason) THEN Rebinding(w, "input", reason)
    ELSE OutputRound(Snapshot(w, "input"), reason)

\* All connections are bound: applyAutoRebind after its loop.
KindBound(w, r) ==
    LET s == Snapshot([w EXCEPT !.active[r.kind] = IF r.any THEN {r.target} ELSE @], r.kind) IN
    IF r.kind = "input" THEN OutputRound(s, r.reason) ELSE RoundEnds(s)

\* The rounds that wait for nothing go on at once.
Rounded(w) ==
    LET ends(r) == r.at = "switch" /\ {c \in conns : c.id \in r.todo} = {}
        once(s) == IF s.refresh # {} /\ ends(Only(s.refresh)) THEN KindBound(s, Only(s.refresh)) ELSE s
    IN once(once(w))

-----------------------------------------------------------------------------
(* Events of the browser. *)

Notified(reason) ==
    /\ reason \in news
    /\ news' = news \ {reason}
    /\ d' = Notify(d, reason)
    /\ UNCHANGED <<world, conns, joining, done, missed>>

\* Devices come and go or the default becomes another: the browser says so,
\* and the track of a device that went ends.  A room that is not ready yet is
\* not bound again when its default becomes another.  (A default that comes back
\* before the next list is not told from one that stayed, and left out: each new
\* one is another.)
WorldChanges(k, present, identity) ==
    /\ May("changes", MaxChanges) /\ done' = Spend("changes")
    /\ [present |-> present, identity |-> identity] # world[k]
    /\ world' = [world EXCEPT ![k] = [present |-> present, identity |-> identity]]
    /\ news' = news \cup {"devicechange"} \cup
               IF k = "input" /\ \E c \in conns : c.bound[k].device \notin present \cup {Default}
               THEN {"ended"} ELSE {}
    /\ missed' = (missed \/ (joining # {} /\ identity # world[k].identity))
    /\ UNCHANGED <<conns, d, joining>>

\* The page was frozen and goes on.
Resumed ==
    /\ May("changes", MaxChanges) /\ done' = Spend("changes")
    /\ news' = news \cup {"freeze"}
    /\ UNCHANGED <<world, conns, d, joining, missed>>

-----------------------------------------------------------------------------
(* The rounds. *)

\* Both lists are read; one that fails is empty.
ListAnswered(ok) ==
    /\ \E r \in d.refresh :
        /\ r.at = "list"
        /\ d' = Rounded(InputRound([d EXCEPT !.listed = IF ok THEN world
                                        ELSE Each([present |-> {}, identity |-> 0])], r.reason))
    /\ IF ok THEN UNCHANGED done ELSE May("upsets", MaxUpsets) /\ done' = Spend("upsets")
    /\ missed' = (missed \/ ~ok \/ joining # {})
    /\ UNCHANGED <<world, conns, joining, news>>

Rebound(c, k, device) ==
    conns' = {IF x.id = c.id THEN [x EXCEPT !.bound[k] = Bind(device, k)] ELSE x : x \in conns}

\* The track that is replaced may tell that it ended: within the round that is
\* ignored, within the user's choice it waits for the choice to end.
Replaced(w, k, told) == IF k = "input" /\ told THEN Notify(w, "ended") ELSE w

NextOf(todo) == CHOOSE c \in conns : c.id \in todo /\ \A e \in conns : e.id \in todo => c.id <= e.id

\* switchActiveDevice of one connection: it changes, it does not, or it fails
\* (a device that is gone always does), which is passed over.
RebindAnswered(changed, told) ==
    \E r \in d.refresh :
        /\ r.at = "switch" /\ {c \in conns : c.id \in r.todo} # {}
        /\ LET c == NextOf(r.todo)
               rest == [r EXCEPT !.todo = @ \ {c.id}]
               possible == r.target \in world[r.kind].present \cup {Default} IN
           IF changed
           THEN /\ possible
                /\ Rebound(c, r.kind, r.target)
                /\ d' = Rounded(Replaced([d EXCEPT !.refresh = {rest}], r.kind, told))
                /\ UNCHANGED <<done, missed>>
           ELSE \/ /\ ~possible /\ UNCHANGED <<conns, done, missed>>
                   /\ d' = Rounded([d EXCEPT !.refresh = {rest}])
                \/ /\ May("upsets", MaxUpsets) /\ done' = Spend("upsets") /\ missed' = TRUE
                   /\ d' = Rounded([d EXCEPT !.refresh = {rest}]) /\ UNCHANGED conns
                \/ /\ possible /\ r.kind = "input" /\ UNCHANGED <<conns, done, missed>>
                   /\ d' = [d EXCEPT !.refresh = {[r EXCEPT !.at = "restart"]}, !.stops = @ + 1]
        /\ UNCHANGED <<world, joining, news>>

\* restartRoomInput: the module's own stop of the track is ignored.
Restarted(told) ==
    \E r \in d.refresh :
        /\ r.at = "restart"
        /\ LET w == IF told THEN Notify(d, "ended") ELSE d IN
           IF {c \in conns : c.id \in r.todo} = {}
           THEN /\ d' = Rounded([w EXCEPT !.refresh = {[r EXCEPT !.at = "switch"]}, !.stops = @ - 1])
                /\ UNCHANGED conns
           ELSE LET c == NextOf(r.todo) IN
                /\ Rebound(c, "input", r.target)
                /\ d' = Rounded([w EXCEPT !.refresh = {[r EXCEPT !.at = "switch", !.todo = @ \ {c.id}]},
                                         !.stops = @ - 1])
        /\ UNCHANGED <<world, joining, news, done, missed>>

\* What waits for connections that have gone goes on.
Gone ==
    /\ \E r \in d.refresh : r.at = "switch" /\ {c \in conns : c.id \in r.todo} = {}
    /\ d' = Rounded(d)
    /\ UNCHANGED <<world, conns, joining, news, done, missed>>

-----------------------------------------------------------------------------
(* The user's choice: switchDevice. *)

Switch(k, device) ==
    /\ d.changing = None /\ device \in Available(d, k) /\ May("choices", MaxChoices)
    /\ done' = Spend("choices")
    /\ d' = IF Ready = {} THEN [d EXCEPT !.preferred[k] = device]
            ELSE [d EXCEPT !.changing = k,
                           !.choice = {[kind |-> k, device |-> device, todo |-> {c.id : c \in Ready},
                                        applied |-> {}, undo |-> {}, failed |-> FALSE,
                                        previous |-> IF d.active[k] # {} THEN Only(d.active[k])
                                                     ELSE NextOf({c.id : c \in Ready}).bound[k].device]}]
    /\ missed' = (missed \/ (Ready # {} /\ (d.refresh # {} \/ joining # {})))
    /\ UNCHANGED <<world, conns, joining, news>>

ChoiceEnds_KeepsQueue(w) == [w EXCEPT !.choice = {}, !.changing = None]
ChoiceEnds(w) == Flush([w EXCEPT !.choice = {}, !.changing = None])

SwitchAnswered(told) ==
    \E s \in d.choice :
        /\ ~s.failed /\ {c \in conns : c.id \in s.todo} # {}
        /\ s.device \in world[s.kind].present \cup {Default}
        /\ LET c == NextOf(s.todo) IN
           /\ Rebound(c, s.kind, s.device)
           /\ d' = Replaced([d EXCEPT !.choice = {[s EXCEPT !.todo = @ \ {c.id}, !.applied = @ \cup {c.id}]}],
                            s.kind, told)
        /\ UNCHANGED <<world, joining, news, done, missed>>

\* One connection fails: those that changed and this one are put back.
SwitchFails ==
    \E s \in d.choice :
        /\ ~s.failed /\ {c \in conns : c.id \in s.todo} # {}
        /\ IF s.device \in world[s.kind].present \cup {Default}
           THEN May("upsets", MaxUpsets) /\ done' = Spend("upsets") ELSE UNCHANGED done
        /\ d' = [d EXCEPT !.choice = {[s EXCEPT !.failed = TRUE,
                    !.undo = IF s.previous = s.device THEN {} ELSE s.applied \cup {NextOf(s.todo).id}]}]
        /\ UNCHANGED <<world, conns, joining, news, missed>>

UndoAnswered ==
    \E s \in d.choice :
        /\ {c \in conns : c.id \in s.undo} # {}
        /\ LET c == NextOf(s.undo) IN
           /\ IF s.previous \in world[s.kind].present \cup {Default}
              THEN Rebound(c, s.kind, s.previous) ELSE UNCHANGED conns
           /\ d' = [d EXCEPT !.choice = {[s EXCEPT !.undo = @ \ {c.id}]}]
        /\ UNCHANGED <<world, joining, news, done, missed>>

\* The last of the choice: what is active, what is preferred, and the changes
\* that waited.
SwitchReturns ==
    \E s \in d.choice :
        /\ {c \in conns : c.id \in s.undo} = {} /\ (s.failed \/ {c \in conns : c.id \in s.todo} = {})
        /\ d' = ChoiceEnds(
             IF s.failed THEN [d EXCEPT !.active[s.kind] = {s.previous}]
             ELSE IF \A c \in conns : c.id \notin s.applied THEN d
             ELSE [d EXCEPT !.active[s.kind] = {s.device}, !.preferred[s.kind] = s.device])
        /\ missed' = (missed \/ (s.failed /\ s.previous \notin world[s.kind].present \cup {Default}))
        /\ UNCHANGED <<world, conns, joining, news, done>>

-----------------------------------------------------------------------------
(* The connections. *)

\* There is one channel's room and one call's room at a time.
Opened(call) ==
    [id |-> done.connections + 1, call |-> call, ready |-> call,
     bound |-> [k \in Kinds |-> LET p == ResolvedPreferred(d, k) IN
                IF p \in world[k].present THEN Bind(p, k) ELSE Bind(Default, k)]]

\* The channel's room: the preferred devices are applied, again while a
\* preference changes meanwhile, then it is ready and the devices are listed.
Applying(id, w) ==
    [id |-> id, kind |-> "input", device |-> ResolvedPreferred(w, "input"), preferred |-> w.preferred]

Joins ==
    /\ \A c \in conns : c.call
    /\ May("connections", MaxConnections) /\ done' = Spend("connections")
    /\ conns' = conns \cup {Opened(FALSE)}
    /\ joining' = joining \cup {Applying(done.connections + 1, d)}
    /\ missed' = (missed \/ d.choice # {} \/ d.refresh # {})
    /\ UNCHANGED <<world, d, news>>

\* A call's room, once connected, is bound to nothing again: what the session
\* before left as active is believed of it.
CallConnects ==
    /\ \A c \in conns : ~c.call
    /\ May("connections", MaxConnections) /\ done' = Spend("connections")
    /\ conns' = conns \cup {Opened(TRUE)}
    /\ missed' = (missed \/ d.refresh # {} \/ d.choice # {} \/ joining # {} \/
                  \E k \in Kinds : d.active[k] # {} /\ d.active[k] # {Opened(TRUE).bound[k].device})
    /\ UNCHANGED <<world, d, joining, news>>

Closes(c) ==
    /\ conns' = conns \ {c}
    /\ UNCHANGED <<world, d, joining, news, done, missed>>

\* applyPreferredDevicesToRoom, for one kind: the device, or the default.
PreferenceApplied(j, device) ==
    /\ device = IF j.device \in world[j.kind].present \cup {Default} THEN j.device ELSE Default
    /\ LET s == IF Current(j) THEN [d EXCEPT !.active[j.kind] = {device}] ELSE d
           last == j.kind = "output" /\ j.preferred = d.preferred IN
        /\ conns' = {IF x.id # j.id THEN x
                     ELSE [x EXCEPT !.bound[j.kind] = Bind(device, j.kind), !.ready = last] : x \in conns}
        /\ joining' = (joining \ {j}) \cup
                IF ~Current(j) \/ last THEN {}
                ELSE IF j.kind = "output" THEN {Applying(j.id, d)}
                ELSE {[j EXCEPT !.kind = "output", !.device = ResolvedPreferred(s, "output")]}
        /\ d' = IF Current(j) /\ last THEN Notify(s, "devicechange") ELSE s
    /\ missed' = (missed \/ \E x \in conns : x.id # j.id /\ x.bound[j.kind].device # device)
    /\ UNCHANGED <<world, news, done>>

-----------------------------------------------------------------------------
Answers ==
    \/ \E reason \in news : Notified(reason)
    \/ \E ok \in BOOLEAN : ListAnswered(ok) \/ Restarted(ok) \/ SwitchAnswered(ok)
    \/ \E changed, told \in BOOLEAN : RebindAnswered(changed, told)
    \/ Gone \/ SwitchFails \/ UndoAnswered \/ SwitchReturns
    \/ \E j \in joining, device \in Devices \cup {Default} : PreferenceApplied(j, device)

Changes ==
    \/ \E k \in Kinds, present \in SUBSET Devices :
            \E identity \in {world[k].identity, 0, done.changes + 2} : WorldChanges(k, present, identity)
    \/ Resumed \/ Joins \/ CallConnects \/ \E c \in conns : Closes(c)
    \/ \E k \in Kinds, device \in Devices \cup {Default} : Switch(k, device)

Next == Answers \/ Changes

Spec == Init /\ [][Next]_dvVars

-----------------------------------------------------------------------------
(* Properties. *)

AtRest == d.refresh = {} /\ d.choice = {} /\ joining = {} /\ news = {}

\* No change of the devices is lost, whatever was under way when it was told:
\* in the end the lists are the devices there are, and every connection uses
\* the device that is shown as in use, with the default the system has now.
DevicesFollow ==
    (AtRest /\ ~missed) =>
        /\ d.listed = world /\ d.queued = None
        /\ \A c \in Ready, k \in Kinds :
            /\ Follow(d, k) = c.bound[k].device
            /\ c.bound[k].device \in world[k].present \cup {Default}
            /\ (world[k].identity # 0 /\ c.bound[k].heard # 0) => c.bound[k] = Bind(c.bound[k].device, k)

=============================================================================
