----------------------------- MODULE VoiceOverlay -----------------------------
(***************************************************************************)
(* The overlay the desktop shell draws over a game:                        *)
(* web/src/stores/voice-overlay.ts with audio/voiceOverlayBridge.ts, and   *)
(* the poke prompts of stores/poke-prompt.ts it shows.                     *)
(*                                                                         *)
(* The store pushes whole states.  Its watchers run after the change: what *)
(* is urgent is pushed at once, the rest within a timer; nothing is pushed *)
(* while the overlay is switched off.  Of the prompts only the newest is   *)
(* told, and none older than one that was told before.                     *)
(***************************************************************************)
EXTENDS Integers, Sequences, SequencesExt

CONSTANTS
    People,        \* participants of the voice channel
    Actors,        \* accounts that poke
    MaxVisible,    \* MAX_VISIBLE: prompts shown at a time
    MaxPokes,      \* bound: prompts made
    MaxEvents      \* bound: what the room and the user do

VoiceOverlayAssumption ==
    /\ IsFiniteSet(People) /\ IsFiniteSet(Actors)
    /\ MaxVisible \in Nat \ {0} /\ {MaxPokes, MaxEvents} \subseteq Nat

VARIABLES
    room,       \* connected to a named channel, and what each person does
    prompts,    \* usePokePromptStore's list, newest first
    timers,     \* prompts whose dismissal is scheduled
    seq,        \* the last prompt's id
    bridge,     \* how far initializeVoiceOverlay has come
    enabled,    \* the switch, as stored
    config,     \* config: one of its numbers
    shell,      \* what the shell was told
    floor,      \* pokePromptFloorId
    signature,  \* lastUrgentSignature, {} before the first
    dirty,      \* watchers to run
    timer,      \* pendingTimer
    configTimer,\* configTimer
    refused,    \* history: the shell refused the last switch
    raised,     \* history: the newest prompt the shell was told of
    events      \* bound

voVars == <<room, prompts, timers, seq, bridge, enabled, config, shell, floor, signature, dirty,
            timer, configTimer, refused, raised, events>>

prompting == <<prompts, timers, seq>>
told == <<shell, floor, raised>>

Does == {"absent", "quiet", "speaking", "muted"}
Nobody == [p \in People |-> "absent"]

\* VOICE_OVERLAY_CONFIG_LIMITS, the default, and a number that is none.
Limits == 1 .. 2
Default == 1
NotANumber == 9

\* clampConfigValue
Clamped(v) == CASE v = NotANumber -> 1 [] v < 1 -> 1 [] v > 2 -> 2 [] OTHER -> v

\* loadSavedConfig: a store that cannot be read gives the default.
Init ==
    /\ room = [on |-> FALSE, does |-> Nobody]
    /\ prompts = <<>> /\ timers = {} /\ seq = 0
    /\ bridge = "none" /\ enabled \in BOOLEAN
    /\ \E saved \in {Default, 0, 2} : config = Clamped(saved)
    /\ shell = [enabled |-> FALSE, on |-> FALSE, does |-> Nobody, poke |-> 0, config |-> Default]
    /\ floor = 0 /\ signature = {} /\ dirty = {} /\ timer = FALSE /\ configTimer = FALSE
    /\ refused = FALSE /\ raised = 0 /\ events = 0

TypeOK ==
    /\ room.does \in [People -> Does] /\ shell.does \in [People -> Does]
    /\ timers \subseteq 1 .. MaxPokes /\ seq \in 0 .. MaxPokes
    /\ bridge \in {"none", "hello", "enabling", "refusing", "open", "absent"}
    /\ config \in Limits /\ dirty \subseteq {"people", "room", "poke"}
    /\ floor \in 0 .. seq /\ raised \in 0 .. seq
    /\ Len(prompts) <= MaxVisible

Spend == events < MaxEvents /\ events' = events + 1

-----------------------------------------------------------------------------
(* Pushing. *)

Bridged(b) == b \in {"enabling", "refusing", "open"}

\* currentPokePrompt: the newest, unless a newer one was told before.
Current == IF prompts = <<>> THEN 0 ELSE IF Head(prompts).id < floor THEN 0 ELSE Head(prompts).id

\* buildState: who is in the channel is told only while in one.
Built(sh) ==
    [sh EXCEPT !.on = room.on, !.does = IF room.on THEN room.does ELSE Nobody, !.poke = Current]

\* pushNow, to the shell as it was left by sh.
PushNow(sh, b, en) ==
    /\ timer' = FALSE
    /\ IF Bridged(b) /\ en
         THEN /\ shell' = Built(sh)
              /\ floor' = IF Current = 0 THEN floor ELSE Current
              /\ raised' = IF Current > raised THEN Current ELSE raised
         ELSE shell' = sh /\ UNCHANGED <<floor, raised>>

\* schedulePush
SchedulePush ==
    /\ timer' = (timer \/ (Bridged(bridge) /\ enabled))
    /\ UNCHANGED told

TimerFires ==
    /\ timer /\ PushNow(shell, bridge, enabled)
    /\ UNCHANGED <<room, prompting, bridge, enabled, config, signature, dirty, configTimer, refused, events>>

\* participantUrgentSignature: who is there, and who is muted.
Urgent == {<<p, room.does[p] = "muted">> : p \in {q \in People : room.does[q] # "absent"}}

\* The watchers run together, before the page is drawn.
Flush ==
    /\ dirty # {} /\ dirty' = {}
    /\ signature' = IF "people" \in dirty THEN {Urgent} ELSE signature
    /\ IF signature' # signature \/ dirty # {"people"}
         THEN PushNow(shell, bridge, enabled)
         ELSE SchedulePush
    /\ UNCHANGED <<room, prompting, bridge, enabled, config, configTimer, refused, events>>

\* A change is seen by a watcher once there are watchers.
Seen(what) == dirty' = IF bridge = "open" THEN dirty \cup what ELSE dirty

-----------------------------------------------------------------------------
(* The bridge. *)

Initialize ==
    /\ bridge = "none" /\ bridge' \in {"hello", "absent"}
    /\ UNCHANGED <<room, prompting, enabled, config, told, signature, dirty, timer, configTimer, refused, events>>

\* An old shell is as good as none; a new one is given the stored switch.
HelloAnswered ==
    /\ bridge = "hello" /\ bridge' \in {"enabling", "refusing", "absent"}
    /\ shell' = [shell EXCEPT !.enabled = IF bridge' = "enabling" THEN enabled ELSE @]
    /\ UNCHANGED <<room, prompting, enabled, config, floor, raised, signature, dirty, timer, configTimer, refused, events>>

Enabled ==
    /\ bridge = "enabling" /\ bridge' = "open"
    /\ PushNow([shell EXCEPT !.config = config], "open", enabled)
    /\ UNCHANGED <<room, prompting, enabled, config, signature, dirty, configTimer, refused, events>>

Refused ==
    /\ bridge = "refusing" /\ bridge' = "absent"
    /\ UNCHANGED <<room, prompting, enabled, config, told, signature, dirty, timer, configTimer, refused, events>>

\* setOverlayEnabled: what the shell answers is ignored.
Switch_NoPush ==
    /\ Spend /\ enabled' = ~enabled /\ timer' = FALSE
    /\ refused' \in (IF Bridged(bridge) THEN BOOLEAN ELSE {refused})
    /\ shell' = IF Bridged(bridge) /\ ~refused' THEN [shell EXCEPT !.enabled = enabled'] ELSE shell
    /\ UNCHANGED <<room, prompting, bridge, config, floor, raised, signature, dirty, configTimer>>

Switch ==
    /\ Spend /\ enabled' = ~enabled
    /\ refused' \in (IF Bridged(bridge) THEN BOOLEAN ELSE {refused})
    /\ PushNow(IF Bridged(bridge) /\ ~refused' THEN [shell EXCEPT !.enabled = enabled'] ELSE shell, bridge, enabled')
    /\ UNCHANGED <<room, prompting, bridge, config, signature, dirty, configTimer>>

\* setOverlayConfig and scheduleConfigPush
SetConfig(v) ==
    /\ Spend /\ config' = Clamped(v)
    /\ configTimer' = (configTimer \/ Bridged(bridge))
    /\ UNCHANGED <<room, prompting, bridge, enabled, told, signature, dirty, timer, refused>>

ConfigTimerFires ==
    /\ configTimer /\ configTimer' = FALSE
    /\ shell' = [shell EXCEPT !.config = IF Bridged(bridge) THEN config ELSE @]
    /\ UNCHANGED <<room, prompting, bridge, enabled, config, floor, raised, signature, dirty, timer, refused, events>>

-----------------------------------------------------------------------------
(* The room and the prompts. *)

EntersOrLeaves ==
    /\ Spend /\ room' = [on |-> ~room.on, does |-> Nobody] /\ Seen({"room", "people"})
    /\ UNCHANGED <<prompting, bridge, enabled, config, told, signature, timer, configTimer, refused>>

Acts(p) ==
    /\ Spend /\ room.on
    /\ \E d \in Does \ {room.does[p]} : room' = [room EXCEPT !.does[p] = d]
    /\ Seen({"people"})
    /\ UNCHANGED <<prompting, bridge, enabled, config, told, signature, timer, configTimer, refused>>

\* upsertPokePrompt: the newest in front, one of each actor, at most
\* MaxVisible of them.
Upserted(a, id) ==
    LET all == <<[id |-> id, actor |-> a]>> \o SelectSeq(prompts, LAMBDA i : i.actor # a)
    IN  SubSeq(all, 1, IF Len(all) > MaxVisible THEN MaxVisible ELSE Len(all))

\* push: the actor's earlier prompt is not dismissed on its time.
Poke(a) ==
    /\ seq < MaxPokes /\ seq' = seq + 1
    /\ prompts' = Upserted(a, seq')
    /\ timers' = (timers \ {i.id : i \in {j \in ToSet(prompts) : j.actor = a}}) \cup {seq'}
    /\ Seen({"poke"})
    /\ UNCHANGED <<room, bridge, enabled, config, told, signature, timer, configTimer, refused, events>>

\* dismiss, four seconds later: a prompt that was crowded out is not there.
Dismiss(id) ==
    /\ id \in timers /\ timers' = timers \ {id}
    /\ prompts' = SelectSeq(prompts, LAMBDA i : i.id # id)
    /\ IF prompts # <<>> /\ prompts' # prompts /\ Head(prompts).id = id THEN Seen({"poke"}) ELSE UNCHANGED dirty
    /\ UNCHANGED <<room, seq, bridge, enabled, config, told, signature, timer, configTimer, refused, events>>

Next ==
    \/ TimerFires \/ Flush
    \/ Initialize \/ HelloAnswered \/ Enabled \/ Refused
    \/ Switch \/ (\E v \in {0, 2, NotANumber} : SetConfig(v)) \/ ConfigTimerFires
    \/ EntersOrLeaves \/ (\E p \in People : Acts(p))
    \/ (\E a \in Actors : Poke(a)) \/ (\E id \in timers : Dismiss(id))

Spec == Init /\ [][Next]_voVars

-----------------------------------------------------------------------------
(* Properties. *)

\* With nothing on its way, the overlay shows the channel and the switch as
\* they are, and the newest prompt if none newer was shown before.
ShownIsCurrent ==
    (bridge = "open" /\ dirty = {} /\ ~timer /\ enabled) =>
      /\ shell.on = room.on /\ shell.does = room.does
      /\ IF prompts = <<>> THEN shell.poke = 0
         ELSE shell.poke = Head(prompts).id \/ (shell.poke = 0 /\ Head(prompts).id < raised)

\* The shell has the last of the numbers, and they are in range.
ConfigIsCurrent ==
    /\ shell.config \in Limits
    /\ (bridge = "open" /\ ~configTimer) => shell.config = config
    /\ (bridge = "open" /\ ~refused) => shell.enabled = enabled

\* Every prompt goes away by itself, nobody has two of them, and one that
\* is shown is the newest that ever was.
PromptsPass ==
    /\ \A i \in ToSet(prompts) : i.id \in timers
    /\ \A i, j \in DOMAIN prompts : i < j => prompts[i].id > prompts[j].id /\ prompts[i].actor # prompts[j].actor
    /\ shell.poke \in {0, raised}

\* What the overlay shows agrees with the page, however its switch, its
\* timers, the channel and the prompts change about each other.
OverlayAgrees == ShownIsCurrent /\ ConfigIsCurrent /\ PromptsPass
=============================================================================
