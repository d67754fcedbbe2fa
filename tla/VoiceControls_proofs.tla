------------------------ MODULE VoiceControls_proofs ------------------------
(***************************************************************************)
(* What the voice controls promise, for every value of the bounds: the      *)
(* invariants of MuteDeafen and of PlaybackRecovery as theorems of their    *)
(* specifications.                                                          *)
(*                                                                         *)
(* PreferencesHold speaks of a moment when nothing is on its way, so that    *)
(* its invariant says what each reconciliation under way still does: each   *)
(* part of the connection is as preferred, or a round that has seen the     *)
(* present preferences will still set it (Fits), unless there is a call     *)
(* that has not and starts over (Owes).                                     *)
(*                                                                         *)
(* SoundComesBack is not inductive: a call of startAudio that is refused    *)
(* leaves nothing behind it.  For a channel that is harmless, because the   *)
(* switch that undeafens it shows the preference only when the call has     *)
(* answered, which is the conjunct RecoveryInvariant adds.                  *)
(***************************************************************************)
EXTENDS MuteDeafen, PlaybackRecovery, TLAPS

-----------------------------------------------------------------------------
(* Mute and deafen *)

\* The fields of the state and of a call.
State ==
    [mic : BOOLEAN, deaf : BOOLEAN, mode : Modes, overlay : BOOLEAN, muted : BOOLEAN,
     deafened : BOOLEAN, guildMuted : BOOLEAN, changing : SUBSET {"mute", "deafen", "mode"},
     syncError : BOOLEAN, revision : Nat, room : Nat, session : Nat,
     status : {"idle", "error", "connecting", "reconnecting", "connected"},
     broken : BOOLEAN, ruled : BOOLEAN, asked : BOOLEAN, askedMode : Modes,
     share : {"off", "playing", "paused"}, pending : {{}, {TRUE}, {FALSE}}, flushing : Nat,
     posts : SUBSET [session : Nat, value : BOOLEAN], told : BOOLEAN]

Places ==
    {"connect", "devices", "stop", "audio", "microphone", "pause", "resume", "sync",
     "last-sync", "mode", "mode-back", "returned", "thrown", "done", "start"}

IsEntry(c) ==
    c \in [id : {c.id}, kind : Kinds, session : Nat, at : Places, revision : Nat, outer : Nat,
     deaf : BOOLEAN, mic : BOOLEAN, tries : Nat, round : Nat, waits : Nat, again : BOOLEAN,
     back : [mic : BOOLEAN, deaf : BOOLEAN, mode : Modes]]

\* Where a call waits: before its first round, and within a round.
Before == {"connect", "devices", "stop"}
Within == {"audio", "microphone", "pause", "resume", "sync"}

\* A round is under way that has seen the present preferences.
Current(w, c) == Live(w, c) /\ c.at \in Within /\ c.revision = w.revision

\* What the call does next it does from the preferences, all of it.
Owes(w, c) ==
    /\ Live(w, c)
    /\ \/ c.at \in Before
       \/ c.at \in Within /\ c.revision # w.revision
       \/ c.at = "last-sync" /\ c.outer # w.revision

WaitsAt(w, cs, places) == \E c \in cs : Current(w, c) /\ c.at \in places

Joining(w, cs) == \E c \in cs : Live(w, c) /\ c.kind = "join"

-----------------------------------------------------------------------------
(* The invariant, of a state and the calls under way in it. *)

\* What a call remembers of the session and of the preferences is not from the
\* future, and it stands where its kind goes.
Remembers(w, c) ==
    /\ c.session \in 1..w.session
    /\ c.tries <= Attempts
    /\ c.at \in Within => c.revision <= w.revision
    /\ c.kind = "join" => c.at \in {"connect", "start"} \/ c.outer <= w.revision
    /\ c.again => c.kind \in {"mute", "deafen"}

Stands(c) ==
    /\ c.at \in Before \cup Within \cup {"last-sync", "mode", "mode-back"}
    /\ c.at \in Before => c.tries = 0
    /\ c.at = "connect" => c.round = 0
    /\ c.at \in {"connect", "devices", "last-sync"} => c.kind = "join"
    /\ c.at = "stop" => c.kind = "guild"
    /\ c.at \in {"mode", "mode-back"} <=> c.kind = "mode"

Typed(w, cs) ==
    /\ w \in State
    /\ w.room \in {0, w.session}
    /\ \A c \in cs : IsEntry(c)
    /\ \A c \in cs : Remembers(w, c) /\ Stands(c)

\* The session: what a status says of the room, the guild's mute and the
\* sharing; which is excused, a join that fails leaves it on.
SessionFits(w, cs) ==
    /\ w.status \in {"idle", "error"} => w.room = 0
    /\ w.status \in {"connected", "reconnecting"} => w.room # 0
    /\ w.status = "connecting" => w.session # 0
    /\ w.status = "connecting" /\ w.room # 0 => Joining(w, cs)
    /\ w.status = "connecting" /\ w.room = 0 => \A c \in cs : c.session # w.session
    /\ w.status \notin {"idle", "error"} => w.guildMuted = w.ruled
    /\ w.room = 0 => ~w.asked /\ ~w.broken

ShareEnds(w) == (w.room = 0 \/ w.ruled \/ w.status = "connecting") => w.share = "off"

\* One report of a session is on its way at most.
PostsFit(w) ==
    /\ w.flushing <= w.session
    /\ \A p \in w.posts : p.session \in 1..w.session
    /\ w.session # 0 => (w.flushing = w.session <=> \E p \in w.posts : p.session = w.session)
    /\ \A p, q \in w.posts : p.session = q.session => p = q

\* A round that has seen the present preferences acts on them.
RoundFits(w, c) ==
    (Current(w, c) /\ c.at # "sync") =>
        /\ c.deaf = EffectiveDeafened(w) /\ c.mic = ShouldEnableMicrophone(w)
        /\ c.at = "audio" => ~c.deaf
        /\ c.at = "pause" => c.deaf /\ ~w.ruled /\ w.share # "off"
        /\ c.at = "resume" => ~c.deaf
RoundsFit(w, cs) == \A c \in cs : RoundFits(w, c)

\* What the server will have been told last.
ToldLast(w, x) ==
    IF w.flushing # w.session THEN w.told = x
    ELSE IF w.pending # {} THEN w.pending = {x}
    ELSE \A p \in w.posts : p.session = w.session => p.value = x

\* Each part of the connection is as preferred, or a round will still set it.
MicrophoneFits(w, cs) ==
    w.asked = ShouldEnableMicrophone(w) \/ WaitsAt(w, cs, {"audio"})
ModeFits(w, cs) ==
    w.asked => \/ w.askedMode = w.mode
               \/ WaitsAt(w, cs, {"audio"})
               \/ w.status = "reconnecting" /\ ~Joining(w, cs)
ShownFits(w, cs) ==
    \/ w.deafened = EffectiveDeafened(w) /\ w.muted = ~ShouldEnableMicrophone(w)
    \/ WaitsAt(w, cs, {"audio", "microphone", "pause"})
ShareFits(w, cs) ==
    w.share = "playing" /\ EffectiveDeafened(w) => WaitsAt(w, cs, {"microphone"})
ToldFits(w, cs) ==
    \/ w.syncError /\ w.flushing # w.session
    \/ ToldLast(w, EffectiveDeafened(w))
    \/ WaitsAt(w, cs, {"audio", "microphone", "pause", "resume"})

\* Unless there is a call that will do all of it.
Fits(w, cs) ==
    (w.room # 0 /\ \A c \in cs : ~Owes(w, c)) =>
        /\ MicrophoneFits(w, cs) /\ ModeFits(w, cs) /\ ShownFits(w, cs)
        /\ ShareFits(w, cs) /\ ToldFits(w, cs)

Sound(w, cs) == Typed(w, cs) /\ SessionFits(w, cs) /\ PostsFit(w)
Ready(w, cs) == ShareEnds(w) /\ RoundsFit(w, cs)

\* Nothing is promised once something happened that the code does not repair.
Good(w, cs, ok) == Sound(w, cs) /\ (ok => Ready(w, cs) /\ Fits(w, cs))

\* The inductive invariant.
PreferenceInvariant == Good(v, calls, ~excused) /\ excused \in BOOLEAN

\* What is shown is two Booleans.
Shows(w, a, b) == [w EXCEPT !.deafened = a, !.muted = b]

ShownApart(w, x) ==
    /\ x.mic = w.mic /\ x.deaf = w.deaf /\ x.mode = w.mode /\ x.overlay = w.overlay
    /\ x.guildMuted = w.guildMuted /\ x.changing = w.changing
    /\ x.syncError = w.syncError /\ x.revision = w.revision /\ x.room = w.room
    /\ x.session = w.session /\ x.status = w.status /\ x.broken = w.broken
    /\ x.ruled = w.ruled /\ x.asked = w.asked /\ x.askedMode = w.askedMode
    /\ x.share = w.share /\ x.pending = w.pending /\ x.flushing = w.flushing
    /\ x.posts = w.posts /\ x.told = w.told

LEMMA ShownTyped ==
    ASSUME NEW w \in State, NEW a \in BOOLEAN, NEW b \in BOOLEAN
    PROVE  /\ Shows(w, a, b) \in State /\ ShownApart(w, Shows(w, a, b))
           /\ Shows(w, a, b).deafened = a /\ Shows(w, a, b).muted = b
<1> DEFINE x == [w EXCEPT !.deafened = a, !.muted = b]
<1>1. x \in State
  BY DEF State
<1>2. /\ x.deafened = a /\ x.muted = b
      /\ x.mic = w.mic /\ x.deaf = w.deaf /\ x.mode = w.mode /\ x.overlay = w.overlay
      /\ x.guildMuted = w.guildMuted /\ x.changing = w.changing
      /\ x.syncError = w.syncError /\ x.revision = w.revision /\ x.room = w.room
      /\ x.session = w.session /\ x.status = w.status
  BY DEF State
<1>3. /\ x.broken = w.broken
      /\ x.ruled = w.ruled /\ x.asked = w.asked /\ x.askedMode = w.askedMode
      /\ x.share = w.share /\ x.pending = w.pending /\ x.flushing = w.flushing
      /\ x.posts = w.posts /\ x.told = w.told
  BY DEF State
<1> QED
  BY <1>1, <1>2, <1>3 DEF Shows, ShownApart

-----------------------------------------------------------------------------
(* What depends on little of the state *)

\* The fields that say what is preferred and whose turn it is.
SamePreferences(w, x) ==
    /\ x.mic = w.mic /\ x.deaf = w.deaf /\ x.overlay = w.overlay
    /\ x.guildMuted = w.guildMuted /\ x.revision = w.revision
    /\ x.room = w.room /\ x.session = w.session

\* Two states with the same preferences are the same to every call.
LEMMA SameToAll ==
    ASSUME NEW w, NEW x, SamePreferences(w, x)
    PROVE  /\ EffectiveDeafened(x) = EffectiveDeafened(w)
           /\ ShouldEnableMicrophone(x) = ShouldEnableMicrophone(w)
           /\ \A c : /\ Live(x, c) <=> Live(w, c)
                     /\ Current(x, c) <=> Current(w, c)
                     /\ Owes(x, c) <=> Owes(w, c)
                     /\ Remembers(x, c) <=> Remembers(w, c)
           /\ \A cs : /\ Joining(x, cs) <=> Joining(w, cs)
                      /\ \A places : WaitsAt(x, cs, places) <=> WaitsAt(w, cs, places)
<1>1. EffectiveDeafened(x) = EffectiveDeafened(w)
  BY DEF SamePreferences, EffectiveDeafened
<1>2. ShouldEnableMicrophone(x) = ShouldEnableMicrophone(w)
  BY <1>1 DEF SamePreferences, ShouldEnableMicrophone
<1>3. \A c : Live(x, c) <=> Live(w, c)
  BY DEF SamePreferences, Live
<1>4. \A c : Current(x, c) <=> Current(w, c)
  BY <1>3 DEF SamePreferences, Current
<1>5. \A c : Owes(x, c) <=> Owes(w, c)
  BY <1>3 DEF SamePreferences, Owes
<1>6. \A c : Remembers(x, c) <=> Remembers(w, c)
  BY DEF SamePreferences, Remembers
<1>7. \A cs : Joining(x, cs) <=> Joining(w, cs)
  BY <1>3 DEF Joining
<1>8. \A cs, places : WaitsAt(x, cs, places) <=> WaitsAt(w, cs, places)
  BY <1>4 DEF WaitsAt
<1> QED
  BY <1>1, <1>2, <1>3, <1>4, <1>5, <1>6, <1>7, <1>8

\* Every preference is a Boolean.
LEMMA PreferenceTypes ==
    ASSUME NEW w \in State
    PROVE  EffectiveDeafened(w) \in BOOLEAN /\ ShouldEnableMicrophone(w) \in BOOLEAN
BY DEF State, EffectiveDeafened, ShouldEnableMicrophone

\* connectionReset touches neither the session nor the preferences.
LEMMA ResetKeeps ==
    ASSUME NEW w \in State
    PROVE  LET x == Reset(w) IN
           /\ x \in State /\ x.room = w.room /\ x.session = w.session /\ x.status = w.status
           /\ x.revision = w.revision /\ x.asked = w.asked /\ x.broken = w.broken
           /\ x.flushing = w.flushing /\ x.posts = w.posts /\ x.ruled = w.ruled
           /\ x.share = w.share
<1> DEFINE s == [w EXCEPT !.pending = {}, !.syncError = FALSE, !.guildMuted = FALSE]
           deaf == EffectiveDeafened(s)
           quiet == EffectiveDeafened(s) \/ ~s.mic
           x == Shows(s, deaf, quiet)
<1>1. /\ s \in State /\ s.room = w.room /\ s.session = w.session /\ s.status = w.status
      /\ s.revision = w.revision /\ s.asked = w.asked /\ s.broken = w.broken
      /\ s.flushing = w.flushing /\ s.posts = w.posts /\ s.ruled = w.ruled
      /\ s.share = w.share
  BY DEF State
<1>2. Reset(w) = IF s.room # 0 THEN s ELSE x
  BY DEF Reset, SyncIdle, Shows
<1> HIDE DEF s
<1>3. deaf \in BOOLEAN /\ quiet \in BOOLEAN
  BY <1>1, PreferenceTypes
<1> HIDE DEF deaf, quiet
<1>4. /\ x \in State /\ x.room = w.room /\ x.session = w.session /\ x.status = w.status
      /\ x.revision = w.revision /\ x.asked = w.asked /\ x.broken = w.broken
      /\ x.flushing = w.flushing /\ x.posts = w.posts /\ x.ruled = w.ruled
      /\ x.share = w.share
  BY <1>1, <1>3, ShownTyped DEF ShownApart
<1> HIDE DEF x
<1> QED
  BY <1>1, <1>2, <1>4

\* Nothing is read of which toggles are under way.
LEMMA ChangingAside ==
    ASSUME NEW w, NEW cs, NEW ok, Good(w, cs, ok),
           NEW some \in SUBSET {"mute", "deafen", "mode"}
    PROVE  Good([w EXCEPT !.changing = some], cs, ok)
<1> DEFINE x == [w EXCEPT !.changing = some]
<1>1. w \in State
  BY DEF Good, Sound, Typed
<1>2. /\ x \in State
      /\ x.mic = w.mic /\ x.deaf = w.deaf /\ x.mode = w.mode /\ x.overlay = w.overlay
      /\ x.muted = w.muted /\ x.deafened = w.deafened /\ x.guildMuted = w.guildMuted
      /\ x.syncError = w.syncError /\ x.revision = w.revision /\ x.room = w.room
      /\ x.session = w.session /\ x.status = w.status /\ x.broken = w.broken
      /\ x.ruled = w.ruled /\ x.asked = w.asked /\ x.askedMode = w.askedMode
      /\ x.share = w.share /\ x.pending = w.pending /\ x.flushing = w.flushing
      /\ x.posts = w.posts /\ x.told = w.told
  BY <1>1 DEF State
<1> HIDE DEF x
<1>3. SamePreferences(w, x)
  BY <1>2 DEF SamePreferences
<1>4. Sound(x, cs)
  BY <1>2, <1>3, SameToAll DEF Good, Sound, Typed, SessionFits, PostsFit
<1>5. ok => Ready(x, cs)
  BY <1>2, <1>3, SameToAll DEF Good, Ready, ShareEnds, RoundsFit, RoundFits
<1>6. \A value : ToldLast(x, value) <=> ToldLast(w, value)
  BY <1>2 DEF ToldLast
<1>7. /\ MicrophoneFits(x, cs) <=> MicrophoneFits(w, cs)
      /\ ModeFits(x, cs) <=> ModeFits(w, cs)
      /\ ShownFits(x, cs) <=> ShownFits(w, cs)
      /\ ShareFits(x, cs) <=> ShareFits(w, cs)
      /\ ToldFits(x, cs) <=> ToldFits(w, cs)
  BY <1>2, <1>3, <1>6, SameToAll
     DEF MicrophoneFits, ModeFits, ShownFits, ShareFits, ToldFits
<1>8. ok => Fits(x, cs)
  BY <1>2, <1>3, <1>7, SameToAll DEF Good, Fits
<1> QED
  BY <1>4, <1>5, <1>8 DEF Good, x

\* A revision that no call remembers is as good as none.
LEMMA KeptFits ==
    ASSUME NEW w, NEW cs, NEW ok, Good(w, cs, ok)
    PROVE  Good(Kept(w, cs), cs, ok)
<1>1. CASE cs # {}
  BY <1>1 DEF Kept
<1>2. CASE cs = {}
  <2> DEFINE x == [w EXCEPT !.revision = 0]
  <2>1. w \in State
    BY DEF Good, Sound, Typed
  <2>2. /\ x \in State
        /\ x.mic = w.mic /\ x.deaf = w.deaf /\ x.mode = w.mode /\ x.overlay = w.overlay
        /\ x.muted = w.muted /\ x.deafened = w.deafened /\ x.guildMuted = w.guildMuted
        /\ x.syncError = w.syncError /\ x.room = w.room
        /\ x.session = w.session /\ x.status = w.status /\ x.broken = w.broken
        /\ x.ruled = w.ruled /\ x.asked = w.asked /\ x.askedMode = w.askedMode
        /\ x.share = w.share /\ x.pending = w.pending /\ x.flushing = w.flushing
        /\ x.posts = w.posts /\ x.told = w.told
    BY <2>1 DEF State
  <2> HIDE DEF x
  <2>3. EffectiveDeafened(x) = EffectiveDeafened(w)
    BY <2>2 DEF EffectiveDeafened
  <2>4. ShouldEnableMicrophone(x) = ShouldEnableMicrophone(w)
    BY <2>2, <2>3 DEF ShouldEnableMicrophone
  <2>5. ~Joining(x, cs) /\ ~Joining(w, cs)
    BY <1>2 DEF Joining
  <2>6. \A places : ~WaitsAt(x, cs, places) /\ ~WaitsAt(w, cs, places)
    BY <1>2 DEF WaitsAt
  <2>7. Sound(x, cs)
    BY <1>2, <2>2, <2>5 DEF Good, Sound, Typed, SessionFits, PostsFit
  <2>8. ok => Ready(x, cs)
    BY <1>2, <2>2 DEF Good, Ready, ShareEnds, RoundsFit
  <2>9. ok => Fits(x, cs)
    BY <1>2, <2>2, <2>3, <2>4, <2>5, <2>6
       DEF Good, Fits, MicrophoneFits, ModeFits, ShownFits, ShareFits, ToldFits, ToldLast
  <2> QED
    BY <1>2, <2>7, <2>8, <2>9 DEF Good, Kept, x
<1> QED
  BY <1>1, <1>2

\* A call of a session that is over, or one with nothing left to set, may go.
LEMMA DropFits ==
    ASSUME NEW w, NEW cs, NEW ok, Good(w, cs, ok), NEW c, c \in cs, ~Owes(w, c),
           Live(w, c) => c.kind # "join" /\ c.at \notin {"audio", "microphone", "pause", "resume"}
    PROVE  Good(w, cs \ {c}, ok)
<1> DEFINE rest == cs \ {c}
<1>1. Joining(w, rest) <=> Joining(w, cs)
  BY DEF Joining
<1>2. \A places \in {{"audio"}, {"microphone"}, {"audio", "microphone", "pause"},
                     {"audio", "microphone", "pause", "resume"}} :
        WaitsAt(w, rest, places) <=> WaitsAt(w, cs, places)
  BY DEF WaitsAt, Current
<1>3. rest \subseteq cs
  OBVIOUS
<1>4. (\A d \in rest : ~Owes(w, d)) => \A d \in cs : ~Owes(w, d)
  OBVIOUS
<1> HIDE DEF rest
<1>5. Sound(w, rest)
  BY <1>1, <1>3 DEF Good, Sound, Typed, SessionFits
<1>6. ok => Ready(w, rest)
  BY <1>3 DEF Good, Ready, RoundsFit
<1>7. ok => Fits(w, rest)
  BY <1>1, <1>2, <1>4 DEF Good, Fits, MicrophoneFits, ModeFits, ShownFits, ShareFits, ToldFits
<1> QED
  BY <1>5, <1>6, <1>7 DEF Good, rest

-----------------------------------------------------------------------------
(* One segment of a call *)

\* The call goes on as d, and the state as x, in the same session.
LEMMA GoesOnSound ==
    ASSUME NEW w, NEW cs, Sound(w, cs), NEW rest, NEW x \in State, NEW d, IsEntry(d),
           PostsFit(x), x.room = w.room, x.session = w.session, w.revision <= x.revision,
           x.status = w.status, x.guildMuted = w.guildMuted, x.ruled = w.ruled,
           x.room = 0 => ~x.asked /\ ~x.broken,
           rest \subseteq cs \cup {d}, Remembers(x, d), Stands(d),
           Joining(w, cs) => Joining(x, rest),
           x.status = "connecting" /\ x.room = 0 => d.session # x.session
    PROVE  Sound(x, rest)
<1>1. w \in State /\ \A c \in cs : IsEntry(c)
  BY DEF Sound, Typed
<1>2. \A c \in rest : IsEntry(c)
  BY <1>1
<1>3. ASSUME NEW c \in rest
      PROVE  Remembers(x, c) /\ Stands(c)
  <2>1. CASE c = d
    BY <2>1
  <2>2. CASE c \in cs
    <3>1. Remembers(w, c) /\ Stands(c)
      BY <2>2 DEF Sound, Typed
    <3>2. IsEntry(c)
      BY <1>1, <2>2
    <3>3. c.revision \in Nat /\ c.outer \in Nat /\ w.revision \in Nat /\ x.revision \in Nat
      BY <1>1, <3>2 DEF State, IsEntry
    <3> QED
      BY <3>1, <3>3 DEF Remembers
  <2> QED
    BY <2>1, <2>2
<1>4. Typed(x, rest)
  BY <1>2, <1>3 DEF Typed, Sound
<1>5. SessionFits(x, rest)
  BY DEF SessionFits, Sound
<1> QED
  BY <1>4, <1>5 DEF Sound

\* What is reported is told last.
LEMMA QueueTells ==
    ASSUME NEW w \in State, PostsFit(w), w.room # 0, w.room = w.session, NEW value \in BOOLEAN
    PROVE  LET x == QueueSync(w, value) IN
           /\ x \in State /\ PostsFit(x) /\ ToldLast(x, value) /\ x.flushing = x.session
           /\ x.mic = w.mic /\ x.deaf = w.deaf /\ x.mode = w.mode /\ x.overlay = w.overlay
           /\ x.muted = w.muted /\ x.deafened = w.deafened /\ x.guildMuted = w.guildMuted
           /\ x.syncError = w.syncError /\ x.revision = w.revision /\ x.room = w.room
           /\ x.session = w.session /\ x.status = w.status /\ x.broken = w.broken
           /\ x.ruled = w.ruled /\ x.asked = w.asked /\ x.askedMode = w.askedMode
           /\ x.share = w.share /\ x.told = w.told
<1>1. CASE w.flushing = w.session
  <2> DEFINE x == [w EXCEPT !.pending = {value}]
  <2>1. QueueSync(w, value) = x
    BY <1>1 DEF QueueSync
  <2>2. {value} \in {{}, {TRUE}, {FALSE}}
    OBVIOUS
  <2>3. /\ x \in State /\ x.pending = {value} /\ x.flushing = w.flushing /\ x.posts = w.posts
        /\ x.mic = w.mic /\ x.deaf = w.deaf /\ x.mode = w.mode /\ x.overlay = w.overlay
        /\ x.muted = w.muted /\ x.deafened = w.deafened /\ x.guildMuted = w.guildMuted
        /\ x.syncError = w.syncError /\ x.revision = w.revision /\ x.room = w.room
        /\ x.session = w.session /\ x.status = w.status /\ x.broken = w.broken
        /\ x.ruled = w.ruled /\ x.asked = w.asked /\ x.askedMode = w.askedMode
        /\ x.share = w.share /\ x.told = w.told
    BY <2>2 DEF State
  <2> HIDE DEF x
  <2>4. PostsFit(x)
    BY <2>3 DEF PostsFit
  <2>5. ToldLast(x, value)
    BY <1>1, <2>3 DEF ToldLast
  <2> QED
    BY <1>1, <2>1, <2>3, <2>4, <2>5
<1>2. CASE w.flushing # w.session
  <2> DEFINE p == [session |-> w.session, value |-> value]
             x == [w EXCEPT !.pending = {}, !.flushing = w.session, !.posts = @ \cup {p}]
  <2>1. QueueSync(w, value) = x
    BY <1>2 DEF QueueSync
  <2>2. p \in [session : Nat, value : BOOLEAN] /\ p.session = w.session /\ p.value = value
    BY DEF State
  <2> HIDE DEF p
  <2>3. /\ x \in State /\ x.pending = {} /\ x.flushing = w.session /\ x.posts = w.posts \cup {p}
        /\ x.mic = w.mic /\ x.deaf = w.deaf /\ x.mode = w.mode /\ x.overlay = w.overlay
        /\ x.muted = w.muted /\ x.deafened = w.deafened /\ x.guildMuted = w.guildMuted
        /\ x.syncError = w.syncError /\ x.revision = w.revision /\ x.room = w.room
        /\ x.session = w.session /\ x.status = w.status /\ x.broken = w.broken
        /\ x.ruled = w.ruled /\ x.asked = w.asked /\ x.askedMode = w.askedMode
        /\ x.share = w.share /\ x.told = w.told
    BY <2>2 DEF State
  <2> HIDE DEF x
  <2>4. w.session \in Nat /\ w.session # 0
    BY DEF State
  <2>5. \A q \in w.posts : q.session # w.session
    BY <1>2, <2>4 DEF PostsFit
  <2>6. PostsFit(x)
    BY <2>2, <2>3, <2>4, <2>5 DEF PostsFit
  <2>7. ToldLast(x, value)
    BY <2>2, <2>3, <2>5 DEF ToldLast
  <2> QED
    BY <2>1, <2>3, <2>6, <2>7
<1> QED
  BY <1>1, <1>2

\* A round begins: whatever was wrong before, this call will set it right.
LEMMA HeadFits ==
    ASSUME NEW w, NEW cs, NEW ok, Sound(w, cs), ok => Ready(w, cs),
           NEW d, IsEntry(d), Remembers(w, d), d.kind # "mode",
           d.kind = "join" => d.at \notin {"connect", "start"}, Live(w, d), d.tries # Attempts,
           NEW rest, rest \subseteq cs \cup {Head(w, d).c}, Head(w, d).c \in rest,
           Joining(w, cs) => Joining(w, rest)
    PROVE  Good(Head(w, d).w, rest, ok)
<1> DEFINE deaf == EffectiveDeafened(w)
           mic == ShouldEnableMicrophone(w)
           x == IF deaf THEN [w EXCEPT !.asked = FALSE] ELSE w
           e == [d EXCEPT !.revision = w.revision, !.tries = @ + 1, !.deaf = deaf, !.mic = mic,
                          !.at = IF deaf THEN "microphone" ELSE "audio"]
<1>1. w \in State /\ \A c \in cs : IsEntry(c)
  BY DEF Sound, Typed
<1>2. deaf \in BOOLEAN /\ mic \in BOOLEAN
  BY <1>1, PreferenceTypes
<1>3. Head(w, d).w = x /\ Head(w, d).c = e
  <2>1. CASE deaf
    BY <2>1 DEF Head, At, With
  <2>2. CASE ~deaf
    BY <2>2, <1>2 DEF Head, At, With
  <2> QED
    BY <2>1, <2>2, <1>2
<1>4. d.tries \in Nat /\ w.revision \in Nat /\ Attempts \in Nat
  BY <1>1, MuteDeafenAssumption DEF State, IsEntry
<1> HIDE DEF deaf, mic
<1>20. (IF deaf THEN "microphone" ELSE "audio") \in Places
  BY DEF Places
<1>5. /\ IsEntry(e) /\ e.revision = w.revision /\ e.tries = d.tries + 1 /\ e.deaf = deaf
      /\ e.mic = mic /\ e.at = (IF deaf THEN "microphone" ELSE "audio") /\ e.kind = d.kind
      /\ e.session = d.session /\ e.outer = d.outer /\ e.again = d.again
  <2> DEFINE at == IF deaf THEN "microphone" ELSE "audio"
             tries == d.tries + 1
  <2>1. at \in Places /\ tries \in Nat
    BY <1>4, <1>20
  <2>2. e = [d EXCEPT !.revision = w.revision, !.tries = tries, !.deaf = deaf, !.mic = mic, !.at = at]
    OBVIOUS
  <2> HIDE DEF at, tries, e
  <2>3. /\ IsEntry(e) /\ e.revision = w.revision /\ e.tries = tries /\ e.deaf = deaf
        /\ e.mic = mic /\ e.at = at /\ e.kind = d.kind
        /\ e.session = d.session /\ e.outer = d.outer /\ e.again = d.again
    BY <1>2, <1>4, <2>1, <2>2 DEF IsEntry
  <2> QED
    BY <2>3 DEF at, tries
<1>6. /\ x \in State
      /\ x.mic = w.mic /\ x.deaf = w.deaf /\ x.mode = w.mode /\ x.overlay = w.overlay
      /\ x.muted = w.muted /\ x.deafened = w.deafened /\ x.guildMuted = w.guildMuted
      /\ x.syncError = w.syncError /\ x.revision = w.revision /\ x.room = w.room
      /\ x.session = w.session /\ x.status = w.status /\ x.broken = w.broken
      /\ x.ruled = w.ruled /\ x.askedMode = w.askedMode
      /\ x.share = w.share /\ x.pending = w.pending /\ x.flushing = w.flushing
      /\ x.posts = w.posts /\ x.told = w.told
      /\ x.asked = IF deaf THEN FALSE ELSE w.asked
  <2>1. CASE deaf
    BY <1>1, <2>1 DEF State
  <2>2. CASE ~deaf
    <3>1. x = w
      BY <2>2
    <3> QED
      BY <1>1, <1>2, <2>2, <3>1
  <2> QED
    BY <2>1, <2>2
<1> HIDE DEF x, e
<1>7. SamePreferences(w, x)
  BY <1>6 DEF SamePreferences
<1>8. Remembers(w, e) /\ Stands(e)
  <2>1. d.tries <= Attempts /\ d.tries + 1 <= Attempts
    BY <1>4 DEF Remembers
  <2>2. e.at \in Within /\ e.at # "connect" /\ e.at # "start"
    BY <1>5 DEF Within
  <2>3. d.kind = "join" => d.outer <= w.revision
    BY DEF Remembers
  <2> QED
    BY <2>1, <2>2, <2>3, <1>4, <1>5 DEF Remembers, Stands, Within, Before
<1>9. Joining(w, cs) => Joining(x, rest)
  BY <1>7, SameToAll
<1>10. Live(x, e) /\ w.room # 0 /\ w.room = w.session /\ d.session = w.session
  <2>1. d.session # 0 /\ d.session = w.session /\ w.room = d.session
    BY <1>1 DEF Remembers, Live, State, IsEntry
  <2> QED
    BY <2>1, <1>5, <1>6 DEF Live
<1>11. PostsFit(x)
  BY <1>6 DEF Sound, PostsFit
<1>12. x.room = 0 => ~x.asked /\ ~x.broken
  BY <1>6, <1>10
<1>13. Sound(x, rest)
  <2>1. Remembers(x, e)
    BY <1>7, <1>8, SameToAll
  <2>2. w.revision <= x.revision
    BY <1>4, <1>6
  <2>3. rest \subseteq cs \cup {e}
    BY <1>3
  <2> QED
    BY <2>1, <2>2, <2>3, <1>5, <1>6, <1>8, <1>9, <1>10, <1>11, <1>12, GoesOnSound
<1>14. Current(x, e)
  BY <1>5, <1>6, <1>10 DEF Current, Within
<1>15. EffectiveDeafened(x) = deaf /\ ShouldEnableMicrophone(x) = mic /\ (deaf => ~mic)
  BY <1>7, SameToAll DEF deaf, mic, ShouldEnableMicrophone
<1>16. ok => Ready(x, rest)
  <2>1. ok => ShareEnds(x)
    BY <1>6 DEF Ready, ShareEnds
  <2>2. RoundFits(x, e)
    BY <1>2, <1>5, <1>15 DEF RoundFits
  <2>3. ASSUME ok, NEW c \in cs
        PROVE  RoundFits(x, c)
    <3>1. RoundFits(w, c)
      BY <2>3 DEF Ready, RoundsFit
    <3> QED
      BY <3>1, <1>6, <1>7, SameToAll DEF RoundFits
  <2> QED
    BY <1>3, <2>1, <2>2, <2>3 DEF Ready, RoundsFit
<1>17. Fits(x, rest)
  <2>1. CASE deaf
    <3>1. x.asked = FALSE /\ mic = FALSE
      BY <2>1, <1>2, <1>6, <1>15
    <3>2. \A places : "microphone" \in places => WaitsAt(x, rest, places)
      BY <2>1, <1>3, <1>5, <1>14 DEF WaitsAt
    <3> QED
      BY <3>1, <3>2, <1>15 DEF Fits, MicrophoneFits, ModeFits, ShownFits, ShareFits, ToldFits
  <2>2. CASE ~deaf
    <3>1. \A places : "audio" \in places => WaitsAt(x, rest, places)
      BY <2>2, <1>3, <1>5, <1>14 DEF WaitsAt
    <3> QED
      BY <3>1, <2>2, <1>15 DEF Fits, MicrophoneFits, ModeFits, ShownFits, ShareFits, ToldFits
  <2> QED
    BY <2>1, <2>2
<1> QED
  BY <1>3, <1>13, <1>16, <1>17 DEF Good

\* Who joins goes on joining.
LEMMA JoiningGoesOn ==
    ASSUME NEW w, NEW x, NEW cs, NEW c \in cs, NEW d, x.room = w.room, x.session = w.session,
           d.kind = c.kind, d.session = c.session
    PROVE  Joining(x, (cs \ {c}) \cup {d}) <=> Joining(w, cs)
BY DEF Joining, Live

\* The rounds of others go on as they were.
LEMMA OthersFit ==
    ASSUME NEW w, NEW x, NEW cs, RoundsFit(w, cs), SamePreferences(w, x), x.ruled = w.ruled,
           w.share # "off" => x.share # "off"
    PROVE  RoundsFit(x, cs)
BY SameToAll DEF RoundsFit, RoundFits

\* A call that has seen the present preferences passes from c to d: others wait
\* as before, and nobody owes less.
LEMMA Passing ==
    ASSUME NEW w, NEW x, SamePreferences(w, x), NEW cs, NEW c \in cs, NEW d,
           Current(w, c), Current(x, d)
    PROVE  LET rest == (cs \ {c}) \cup {d} IN
           /\ (\A e \in rest : ~Owes(x, e)) => \A e \in cs : ~Owes(w, e)
           /\ \A places : WaitsAt(w, cs, places) => c.at \in places \/ WaitsAt(x, rest, places)
           /\ \A places : d.at \in places => WaitsAt(x, rest, places)
<1>1. ~Owes(w, c)
  BY DEF Current, Owes, Before, Within
<1> QED
  BY <1>1, SameToAll DEF WaitsAt

\* One that has not still owes all of it.
LEMMA StillOwes ==
    ASSUME NEW w, NEW x, SamePreferences(w, x), NEW cs, NEW c \in cs, NEW d,
           Live(w, c), c.at \in Within, c.revision # w.revision,
           d.at \in Within, d.revision = c.revision, d.session = c.session
    PROVE  Fits(x, (cs \ {c}) \cup {d})
<1>1. Owes(x, d)
  BY DEF Owes, Live, SamePreferences
<1> QED
  BY <1>1 DEF Fits

\* A report is queued, if there is a room.
LEMMA QueueKeeps ==
    ASSUME NEW w \in State, PostsFit(w), w.room \in {0, w.session}, NEW value \in BOOLEAN
    PROVE  LET x == QueueSync(w, value) IN
           /\ x \in State /\ PostsFit(x)
           /\ x.mic = w.mic /\ x.deaf = w.deaf /\ x.mode = w.mode /\ x.overlay = w.overlay
           /\ x.muted = w.muted /\ x.deafened = w.deafened /\ x.guildMuted = w.guildMuted
           /\ x.syncError = w.syncError /\ x.revision = w.revision /\ x.room = w.room
           /\ x.session = w.session /\ x.status = w.status /\ x.broken = w.broken
           /\ x.ruled = w.ruled /\ x.asked = w.asked /\ x.askedMode = w.askedMode
           /\ x.share = w.share /\ x.told = w.told
           /\ w.room # 0 => ToldLast(x, value) /\ x.flushing = x.session
<1>1. CASE w.room = 0
  BY <1>1 DEF QueueSync
<1>2. CASE w.room # 0
  BY <1>2, QueueTells
<1> QED
  BY <1>1, <1>2

\* A state that differs in what is shown, asked and shared.
LEMMA ShownAside ==
    ASSUME NEW w, NEW cs, Sound(w, cs), NEW x \in State, NEW c \in cs, NEW d, IsEntry(d),
           PostsFit(x), SamePreferences(w, x), x.status = w.status, x.ruled = w.ruled,
           x.broken = w.broken, x.asked = w.asked \/ x.room # 0,
           d.kind = c.kind, d.session = c.session, d.outer = c.outer, d.revision = c.revision,
           d.tries = c.tries, d.again = c.again, c.at \in Within, d.at \in Within
    PROVE  Sound(x, (cs \ {c}) \cup {d})
<1>1. Joining(x, (cs \ {c}) \cup {d}) <=> Joining(w, cs)
  BY JoiningGoesOn DEF SamePreferences
<1>2. /\ x.room = w.room /\ x.session = w.session /\ x.revision = w.revision
      /\ x.guildMuted = w.guildMuted /\ w.revision \in Nat
  BY DEF SamePreferences, Sound, Typed, State
<1>3. x.room = 0 => ~x.asked /\ ~x.broken
  BY <1>2 DEF Sound, SessionFits
<1>4. Remembers(w, c) /\ Stands(c)
  BY DEF Sound, Typed
<1>5. Remembers(x, d)
  BY <1>2, <1>4 DEF Remembers, Within
<1>6. Stands(d)
  BY <1>4 DEF Stands, Within, Before
<1>7. x.status = "connecting" /\ x.room = 0 => d.session # x.session
  BY <1>2 DEF Sound, SessionFits
<1>8. w.revision <= x.revision
  BY <1>2
<1> QED
  BY <1>1, <1>2, <1>3, <1>5, <1>6, <1>7, <1>8, GoesOnSound

\* startAudio has answered: the microphone is asked for.
LEMMA AudioStartedFits ==
    ASSUME NEW w, NEW cs, NEW ok, Good(w, cs, ok), NEW c \in cs, c.at = "audio", Live(w, c)
    PROVE  LET r == AudioStarted(w, c) IN
           Good(r.w, (cs \ {c}) \cup {r.c}, ok) /\ r.c.at = "microphone"
<1> DEFINE x == [w EXCEPT !.asked = c.mic, !.askedMode = w.mode]
           d == [c EXCEPT !.at = "microphone"]
           rest == (cs \ {c}) \cup {d}
<1>1. AudioStarted(w, c).w = x /\ AudioStarted(w, c).c = d
  BY DEF AudioStarted, At, With
<1>2. w \in State /\ IsEntry(c)
  BY DEF Good, Sound, Typed
<1>3. /\ x \in State /\ x.asked = c.mic /\ x.askedMode = w.mode
      /\ x.mic = w.mic /\ x.deaf = w.deaf /\ x.mode = w.mode /\ x.overlay = w.overlay
      /\ x.muted = w.muted /\ x.deafened = w.deafened /\ x.guildMuted = w.guildMuted
      /\ x.syncError = w.syncError /\ x.revision = w.revision /\ x.room = w.room
      /\ x.session = w.session /\ x.status = w.status /\ x.broken = w.broken
      /\ x.ruled = w.ruled /\ x.share = w.share /\ x.pending = w.pending
      /\ x.flushing = w.flushing /\ x.posts = w.posts /\ x.told = w.told
  BY <1>2 DEF State, IsEntry
<1>4. /\ IsEntry(d) /\ d.at = "microphone" /\ d.kind = c.kind /\ d.session = c.session
      /\ d.outer = c.outer /\ d.revision = c.revision /\ d.tries = c.tries
      /\ d.again = c.again /\ d.deaf = c.deaf /\ d.mic = c.mic
  BY <1>2 DEF IsEntry, Places
<1> HIDE DEF x, d
<1>5. SamePreferences(w, x)
  BY <1>3 DEF SamePreferences
<1>6. w.room # 0
  BY <1>2 DEF Live, Good, Sound, Typed, Remembers, State, IsEntry
<1>7. PostsFit(x)
  BY <1>3 DEF Good, Sound, PostsFit
<1>8. Sound(x, rest)
  BY <1>3, <1>4, <1>5, <1>6, <1>7, ShownAside DEF Good, Within
<1>9. ok => Ready(x, rest)
  <2>1. RoundsFit(w, cs) => RoundsFit(x, cs)
    BY <1>3, <1>5, OthersFit
  <2>2. RoundFits(w, c) => RoundFits(x, d)
    BY <1>3, <1>4, <1>5, SameToAll DEF RoundFits, Current, Live, Within
  <2> QED
    BY <1>3, <2>1, <2>2 DEF Good, Ready, ShareEnds, RoundsFit
<1>10. ok => Fits(x, rest)
  <2>1. CASE c.revision = w.revision
    <3>1. Current(w, c) /\ Current(x, d)
      BY <2>1, <1>3, <1>4 DEF Current, Live, Within
    <3>2. ok => c.mic = ShouldEnableMicrophone(x)
      BY <3>1, <1>5, SameToAll DEF Good, Ready, RoundsFit, RoundFits
    <3>3. \A places : "microphone" \in places => WaitsAt(x, rest, places)
      BY <3>1, <1>4, <1>5, Passing
    <3>4. ASSUME ok
          PROVE  /\ MicrophoneFits(x, rest) /\ ModeFits(x, rest) /\ ShownFits(x, rest)
                 /\ ShareFits(x, rest) /\ ToldFits(x, rest)
      BY <3>2, <3>3, <3>4, <1>3
         DEF MicrophoneFits, ModeFits, ShownFits, ShareFits, ToldFits
    <3> QED
      BY <3>4 DEF Fits
  <2>2. CASE c.revision # w.revision
    BY <2>2, <1>4, <1>5, StillOwes DEF Within
  <2> QED
    BY <2>1, <2>2
<1> QED
  BY <1>1, <1>4, <1>8, <1>9, <1>10 DEF Good

\* Fields that neither the display nor the sharing touches.
ShownElsewhere(w, s) ==
    /\ SamePreferences(w, s) /\ s.mode = w.mode /\ s.syncError = w.syncError
    /\ s.status = w.status /\ s.broken = w.broken /\ s.ruled = w.ruled
    /\ s.asked = w.asked /\ s.askedMode = w.askedMode /\ s.pending = w.pending
    /\ s.flushing = w.flushing /\ s.posts = w.posts /\ s.told = w.told
    /\ s.share = "off" <=> w.share = "off"

\* What is displayed is displayed, and the call reports it.
LEMMA QueuedFits ==
    ASSUME NEW w, NEW cs, NEW ok, Good(w, cs, ok), NEW c \in cs,
           c.at \in {"microphone", "pause", "resume"},
           ok => Live(w, c) \/ w.room = 0,
           NEW s \in State, ShownElsewhere(w, s),
           (ok /\ Current(w, c) /\ \A e \in cs : ~Owes(w, e))
                => ShownFits(s, cs \ {c}) /\ ShareFits(s, cs \ {c})
    PROVE  LET r == Queued(s, c) IN
           Good(r.w, (cs \ {c}) \cup {r.c}, ok) /\ r.c.at = "sync"
<1> DEFINE d == [c EXCEPT !.deaf = FALSE, !.mic = FALSE, !.waits = s.room, !.at = "sync"]
           x == QueueSync(s, c.deaf)
           rest == (cs \ {c}) \cup {d}
<1>1. w \in State /\ IsEntry(c)
  BY DEF Good, Sound, Typed
<1>2. Queued(s, c).w = x /\ Queued(s, c).c = d
  BY DEF Queued, Reports, At, With
<1>3. /\ IsEntry(d) /\ d.at = "sync" /\ d.kind = c.kind /\ d.session = c.session
      /\ d.outer = c.outer /\ d.revision = c.revision /\ d.tries = c.tries
      /\ d.again = c.again
  BY <1>1 DEF IsEntry, Places, State
<1>4. PostsFit(s) /\ s.room \in {0, s.session}
  BY DEF ShownElsewhere, SamePreferences, Good, Sound, Typed, PostsFit
<1>5. c.deaf \in BOOLEAN
  BY <1>1 DEF IsEntry
<1>6. /\ x \in State /\ PostsFit(x)
      /\ x.mic = s.mic /\ x.deaf = s.deaf /\ x.mode = s.mode /\ x.overlay = s.overlay
      /\ x.muted = s.muted /\ x.deafened = s.deafened /\ x.guildMuted = s.guildMuted
      /\ x.syncError = s.syncError /\ x.revision = s.revision /\ x.room = s.room
      /\ x.session = s.session /\ x.status = s.status /\ x.broken = s.broken
      /\ x.ruled = s.ruled /\ x.asked = s.asked /\ x.askedMode = s.askedMode
      /\ x.share = s.share /\ x.told = s.told
      /\ s.room # 0 => ToldLast(x, c.deaf) /\ x.flushing = x.session
  BY <1>4, <1>5, QueueKeeps
<1> HIDE DEF x, d
<1>7. SamePreferences(w, x) /\ SamePreferences(s, x)
  BY <1>6 DEF ShownElsewhere, SamePreferences
<1>8. Sound(x, rest)
  BY <1>3, <1>6, <1>7, ShownAside DEF ShownElsewhere, Good, Within
<1>9. ok => Ready(x, rest)
  <2>1. RoundsFit(w, cs) => RoundsFit(x, cs)
    BY <1>6, <1>7, OthersFit DEF ShownElsewhere
  <2>2. RoundFits(x, d)
    BY <1>3 DEF RoundFits
  <2>3. ShareEnds(w) => ShareEnds(x)
    BY <1>6, <1>7 DEF ShareEnds, ShownElsewhere, SamePreferences
  <2> QED
    BY <2>1, <2>2, <2>3 DEF Good, Ready, RoundsFit
<1>10. ok => Fits(x, rest)
  <2>1. CASE ~Live(w, c)
    BY <2>1, <1>7 DEF Fits, SamePreferences
  <2>2. CASE Live(w, c) /\ c.revision # w.revision
    BY <2>2, <1>3, <1>7, StillOwes DEF Within
  <2>3. CASE Live(w, c) /\ c.revision = w.revision
    <3>1. Current(w, c) /\ Current(x, d)
      BY <2>3, <1>3, <1>7, SameToAll DEF Current, Live, Within
    <3>2. SUFFICES ASSUME ok, x.room # 0, \A e \in rest : ~Owes(x, e)
                   PROVE  /\ MicrophoneFits(x, rest) /\ ModeFits(x, rest)
                          /\ ShownFits(x, rest) /\ ShareFits(x, rest) /\ ToldFits(x, rest)
      BY DEF Fits
    <3>3. ASSUME NEW e \in cs
          PROVE  ~Owes(w, e)
      <4>1. CASE e = c
        BY <4>1, <3>1 DEF Current, Owes, Before, Within
      <4>2. CASE e # c
        <5>1. ~Owes(x, e)
          BY <4>2, <3>2
        <5> QED
          BY <5>1, <1>7, SameToAll
      <4> QED
        BY <4>1, <4>2
    <3>4. MicrophoneFits(w, cs) /\ ModeFits(w, cs)
      BY <3>2, <3>3, <1>7 DEF Good, Fits, SamePreferences
    <3>5. WaitsAt(w, cs, {"audio"}) => WaitsAt(x, rest, {"audio"})
      BY <3>1, <1>7, Passing
    <3>6. Joining(x, rest) <=> Joining(w, cs)
      BY <1>3, <1>7, JoiningGoesOn DEF SamePreferences
    <3>7. /\ EffectiveDeafened(x) = EffectiveDeafened(w) /\ EffectiveDeafened(x) = EffectiveDeafened(s)
          /\ ShouldEnableMicrophone(x) = ShouldEnableMicrophone(w)
          /\ ShouldEnableMicrophone(x) = ShouldEnableMicrophone(s)
      BY <1>7, SameToAll
    <3>8. MicrophoneFits(x, rest)
      BY <3>4, <3>5, <3>7, <1>6 DEF MicrophoneFits, ShownElsewhere
    <3>9. ModeFits(x, rest)
      BY <3>4, <3>5, <3>6, <1>6 DEF ModeFits, ShownElsewhere
    <3>10. \A places : WaitsAt(s, cs \ {c}, places) => WaitsAt(x, rest, places)
      BY <1>7, SameToAll DEF WaitsAt
    <3>11. ShownFits(s, cs \ {c}) /\ ShareFits(s, cs \ {c})
      BY <3>1, <3>2, <3>3
    <3>12. ShownFits(x, rest)
      BY <3>7, <3>10, <3>11, <1>6 DEF ShownFits
    <3>13. ShareFits(x, rest)
      BY <3>7, <3>10, <3>11, <1>6 DEF ShareFits
    <3>14. c.deaf = EffectiveDeafened(w)
      <4>1. RoundFits(w, c)
        BY <3>2 DEF Good, Ready, RoundsFit
      <4> QED
        BY <4>1, <3>1 DEF RoundFits
    <3>15. ToldFits(x, rest)
      BY <3>2, <3>7, <3>14, <1>6 DEF ToldFits
    <3> QED
      BY <3>8, <3>9, <3>12, <3>13, <3>15
  <2> QED
    BY <2>1, <2>2, <2>3
<1> QED
  BY <1>2, <1>3, <1>8, <1>9, <1>10 DEF Good

\* The display of a deafened connection.
LEMMA DeafensFits ==
    ASSUME NEW w, NEW cs, NEW ok, Good(w, cs, ok), NEW c \in cs,
           c.at = "pause" \/ (c.at = "microphone" /\ w.share # "playing" /\ c.deaf),
           ok => Live(w, c) \/ w.room = 0
    PROVE  LET r == Deafens(w, c) IN
           Good(r.w, (cs \ {c}) \cup {r.c}, ok) /\ r.c.at = "sync"
<1> DEFINE s == Shows(w, TRUE, TRUE)
<1>1. w \in State
  BY DEF Good, Sound, Typed
<1>2. /\ s \in State /\ ShownElsewhere(w, s) /\ s.deafened = TRUE /\ s.muted = TRUE
      /\ s.share = w.share
  BY <1>1, ShownTyped DEF ShownApart, ShownElsewhere, SamePreferences
<1>3. Deafens(w, c) = Queued(s, c)
  BY DEF Deafens, Shows
<1> HIDE DEF s
<1>4. ASSUME ok, Current(w, c), \A e \in cs : ~Owes(w, e)
      PROVE  ShownFits(s, cs \ {c}) /\ ShareFits(s, cs \ {c})
  <2>1. SamePreferences(w, s)
    BY <1>2 DEF ShownElsewhere
  <2>2. RoundFits(w, c)
    BY <1>4 DEF Good, Ready, RoundsFit
  <2>3. EffectiveDeafened(w) = TRUE /\ ShouldEnableMicrophone(w) = FALSE
    <3>1. c.deaf /\ c.deaf = EffectiveDeafened(w)
      BY <2>2, <1>4 DEF RoundFits
    <3>2. EffectiveDeafened(w) \in BOOLEAN
      BY <1>1, PreferenceTypes
    <3> QED
      BY <3>1, <3>2 DEF ShouldEnableMicrophone
  <2>4. ShownFits(s, cs \ {c})
    BY <2>1, <2>3, <1>2, SameToAll DEF ShownFits
  <2>5. w.room # 0
    <3>1. IsEntry(c) /\ Remembers(w, c)
      BY DEF Good, Sound, Typed
    <3> QED
      BY <3>1, <1>1, <1>4 DEF Current, Live, Remembers, IsEntry, State
  <2>6. ShareFits(w, cs)
    BY <2>5, <1>4 DEF Good, Fits
  <2>7. c.at # "microphone" => (WaitsAt(w, cs, {"microphone"}) => WaitsAt(s, cs \ {c}, {"microphone"}))
    BY <2>1, SameToAll DEF WaitsAt
  <2>8. ShareFits(s, cs \ {c})
    BY <2>1, <2>6, <2>7, <1>2, SameToAll DEF ShareFits
  <2> QED
    BY <2>4, <2>8
<1>5. (ok /\ Current(w, c) /\ \A e \in cs : ~Owes(w, e))
        => ShownFits(s, cs \ {c}) /\ ShareFits(s, cs \ {c})
  BY <1>4
<1>6. c.at \in {"microphone", "pause", "resume"}
  OBVIOUS
<1>7. s \in State /\ ShownElsewhere(w, s)
  BY <1>2
<1> QED
  BY <1>3, <1>5, <1>6, <1>7, QueuedFits

\* The sharing of a connection is paused or goes on, and the call waits for it.
LEMMA SharedFits ==
    ASSUME NEW w, NEW cs, NEW ok, Good(w, cs, ok), NEW c \in cs, c.at = "microphone", Live(w, c),
           NEW s \in State, ShownElsewhere(w, s), s.share # "off", w.share # "off",
           NEW at \in {"pause", "resume"}, at = "pause" <=> c.deaf,
           at = "pause" => s.share = "paused",
           at = "resume" => s.deafened = FALSE /\ s.muted = ~c.mic
    PROVE  Good(s, (cs \ {c}) \cup {[c EXCEPT !.at = at]}, ok)
<1> DEFINE d == [c EXCEPT !.at = at]
           rest == (cs \ {c}) \cup {d}
<1>1. w \in State /\ IsEntry(c)
  BY DEF Good, Sound, Typed
<1>2. /\ IsEntry(d) /\ d.at = at /\ d.kind = c.kind /\ d.session = c.session
      /\ d.outer = c.outer /\ d.revision = c.revision /\ d.tries = c.tries
      /\ d.again = c.again /\ d.deaf = c.deaf /\ d.mic = c.mic
  BY <1>1 DEF IsEntry, Places
<1> HIDE DEF d
<1>3. /\ SamePreferences(w, s) /\ s.mode = w.mode /\ s.status = w.status /\ s.ruled = w.ruled
      /\ s.asked = w.asked /\ s.askedMode = w.askedMode /\ s.broken = w.broken
      /\ s.room = w.room
  BY DEF ShownElsewhere, SamePreferences
<1>4. PostsFit(s)
  BY DEF ShownElsewhere, SamePreferences, Good, Sound, PostsFit
<1>5. Sound(s, rest)
  BY <1>2, <1>3, <1>4, ShownAside DEF Good, Within
<1>6. ~w.ruled \/ ~ok
  BY DEF Good, Ready, ShareEnds
<1>7. ok => Ready(s, rest)
  <2>1. ok => RoundsFit(s, cs)
    BY <1>3, OthersFit DEF Good, Ready
  <2>2. ok => RoundFits(s, d)
    <3>1. SUFFICES ASSUME ok, Current(s, d)
                   PROVE  RoundFits(s, d)
      BY DEF RoundFits
    <3>2. Current(w, c)
      BY <3>1, <1>2, <1>3, SameToAll DEF Current, Live, Within
    <3>3. c.deaf = EffectiveDeafened(s) /\ c.mic = ShouldEnableMicrophone(s)
      BY <3>1, <3>2, <1>3, SameToAll DEF Good, Ready, RoundsFit, RoundFits
    <3> QED
      BY <3>1, <3>3, <1>2, <1>3, <1>6 DEF RoundFits
  <2>3. ok => ShareEnds(s)
    BY <1>3 DEF Good, Ready, ShareEnds
  <2> QED
    BY <2>1, <2>2, <2>3 DEF Ready, RoundsFit
<1>8. ok => Fits(s, rest)
  <2>1. CASE c.revision # w.revision
    BY <2>1, <1>2, <1>3, StillOwes DEF Within
  <2>2. CASE c.revision = w.revision
    <3>1. Current(w, c) /\ Current(s, d)
      BY <2>2, <1>2, <1>3 DEF Current, Live, Within, SamePreferences
    <3>2. SUFFICES ASSUME ok, s.room # 0, \A e \in rest : ~Owes(s, e)
                   PROVE  /\ MicrophoneFits(s, rest) /\ ModeFits(s, rest)
                          /\ ShownFits(s, rest) /\ ShareFits(s, rest) /\ ToldFits(s, rest)
      BY DEF Fits
    <3>3. ASSUME NEW e \in cs
          PROVE  ~Owes(w, e)
      <4>1. CASE e = c
        BY <4>1, <3>1 DEF Current, Owes, Before, Within
      <4>2. CASE e # c
        <5>1. ~Owes(s, e)
          BY <4>2, <3>2
        <5> QED
          BY <5>1, <1>3, SameToAll
      <4> QED
        BY <4>1, <4>2
    <3>4. MicrophoneFits(w, cs) /\ ModeFits(w, cs)
      BY <3>2, <3>3, <1>3 DEF Good, Fits
    <3>5. WaitsAt(w, cs, {"audio"}) => WaitsAt(s, rest, {"audio"})
      BY <3>1, <1>3, Passing
    <3>6. Joining(s, rest) <=> Joining(w, cs)
      BY <1>2, <1>3, JoiningGoesOn DEF SamePreferences
    <3>7. /\ EffectiveDeafened(s) = EffectiveDeafened(w)
          /\ ShouldEnableMicrophone(s) = ShouldEnableMicrophone(w)
      BY <1>3, SameToAll
    <3>8. MicrophoneFits(s, rest)
      BY <3>4, <3>5, <3>7, <1>3 DEF MicrophoneFits
    <3>9. ModeFits(s, rest)
      BY <3>4, <3>5, <3>6, <1>3 DEF ModeFits
    <3>10. \A places : at \in places => WaitsAt(s, rest, places)
      BY <3>1, <1>2, <1>3, Passing
    <3>11. c.deaf = EffectiveDeafened(w) /\ c.mic = ShouldEnableMicrophone(w)
      <4>1. RoundFits(w, c)
        BY <3>2 DEF Good, Ready, RoundsFit
      <4> QED
        BY <4>1, <3>1 DEF RoundFits
    <3>12. EffectiveDeafened(w) \in BOOLEAN
      BY <1>1, PreferenceTypes
    <3>13. ShownFits(s, rest)
      BY <3>7, <3>10, <3>11, <3>12 DEF ShownFits
    <3>14. ShareFits(s, rest)
      BY <3>7, <3>11 DEF ShareFits
    <3>15. ToldFits(s, rest)
      BY <3>10 DEF ToldFits
    <3> QED
      BY <3>8, <3>9, <3>13, <3>14, <3>15
  <2> QED
    BY <2>1, <2>2
<1> QED
  BY <1>5, <1>7, <1>8 DEF Good, d

\* applyMicrophoneState has answered: what is shown follows, and the sharing.
LEMMA MicrophoneAppliedFits ==
    ASSUME NEW w, NEW cs, NEW ok, Good(w, cs, ok), NEW c \in cs, c.at = "microphone", Live(w, c)
    PROVE  LET r == MicrophoneApplied(w, c) IN
           /\ Good(r.w, (cs \ {c}) \cup {r.c}, ok)
           /\ r.c.at \in {"pause", "resume", "sync"}
<1>1. w \in State /\ IsEntry(c)
  BY DEF Good, Sound, Typed
<1>2. c.deaf \in BOOLEAN /\ c.mic \in BOOLEAN
  BY <1>1 DEF IsEntry
<1>3. CASE c.deaf /\ w.share = "playing"
  <2> DEFINE s == [w EXCEPT !.share = "paused"]
             d == [c EXCEPT !.at = "pause"]
  <2>1. MicrophoneApplied(w, c).w = s /\ MicrophoneApplied(w, c).c = d
    BY <1>3 DEF MicrophoneApplied, At, With
  <2>2. s \in State /\ s.share = "paused" /\ ShownElsewhere(w, s)
    BY <1>1, <1>3 DEF State, ShownElsewhere, SamePreferences
  <2>3. d.at = "pause"
    BY <1>1 DEF IsEntry
  <2> HIDE DEF s
  <2>4. Good(s, (cs \ {c}) \cup {[c EXCEPT !.at = "pause"]}, ok)
    BY <2>2, <1>2, <1>3, SharedFits
  <2> QED
    BY <2>1, <2>3, <2>4
<1>4. CASE c.deaf /\ w.share # "playing"
  <2>1. MicrophoneApplied(w, c) = Deafens(w, c)
    BY <1>4 DEF MicrophoneApplied
  <2> QED
    BY <1>4, <2>1, DeafensFits
<1>5. CASE ~c.deaf
  <2> DEFINE s == Shows(w, FALSE, ~c.mic)
  <2>1. /\ s \in State /\ ShownElsewhere(w, s) /\ s.deafened = FALSE /\ s.muted = ~c.mic
        /\ s.share = w.share
    <3>1. (~c.mic) \in BOOLEAN
      OBVIOUS
    <3>2. s \in State /\ ShownApart(w, s) /\ s.deafened = FALSE /\ s.muted = ~c.mic
      BY <1>1, <3>1, ShownTyped
    <3> QED
      BY <3>2 DEF ShownApart, ShownElsewhere, SamePreferences
  <2>2. CASE w.share = "paused"
    <3> DEFINE x == [s EXCEPT !.share = "playing"]
               d == [c EXCEPT !.at = "resume"]
    <3>1. MicrophoneApplied(w, c).w = x /\ MicrophoneApplied(w, c).c = d
      BY <1>5, <2>1, <2>2 DEF MicrophoneApplied, At, With, Shows
    <3> HIDE DEF s
    <3>2. /\ x \in State /\ x.share = "playing" /\ ShownElsewhere(w, x)
          /\ x.deafened = FALSE /\ x.muted = ~c.mic
      BY <2>1, <2>2 DEF State, ShownElsewhere, SamePreferences
    <3>3. d.at = "resume"
      BY <1>1 DEF IsEntry
    <3> HIDE DEF x
    <3>4. Good(x, (cs \ {c}) \cup {[c EXCEPT !.at = "resume"]}, ok)
      BY <2>2, <3>2, <1>2, <1>5, SharedFits
    <3> QED
      BY <3>1, <3>3, <3>4
  <2>3. CASE w.share # "paused"
    <3>1. MicrophoneApplied(w, c) = Queued(s, c)
      BY <1>5, <2>1, <2>3 DEF MicrophoneApplied, Shows
    <3> HIDE DEF s
    <3>2. ASSUME ok, Current(w, c)
          PROVE  ShownFits(s, cs \ {c}) /\ ShareFits(s, cs \ {c})
      <4>1. SamePreferences(w, s)
        BY <2>1 DEF ShownElsewhere
      <4>2. RoundFits(w, c)
        BY <3>2 DEF Good, Ready, RoundsFit
      <4>3. EffectiveDeafened(w) = c.deaf /\ ShouldEnableMicrophone(w) = c.mic
        BY <4>2, <3>2 DEF RoundFits
      <4>4. EffectiveDeafened(s) = c.deaf /\ ShouldEnableMicrophone(s) = c.mic
        BY <4>1, <4>3, SameToAll
      <4>5. EffectiveDeafened(s) = FALSE
        BY <4>4, <1>2, <1>5
      <4> QED
        BY <4>4, <4>5, <2>1 DEF ShownFits, ShareFits
    <3>3. (ok /\ Current(w, c) /\ \A e \in cs : ~Owes(w, e))
            => ShownFits(s, cs \ {c}) /\ ShareFits(s, cs \ {c})
      BY <3>2
    <3>4. c.at \in {"microphone", "pause", "resume"} /\ (ok => Live(w, c) \/ w.room = 0)
      OBVIOUS
    <3>5. s \in State /\ ShownElsewhere(w, s)
      BY <2>1
    <3>6. LET r == Queued(s, c) IN Good(r.w, (cs \ {c}) \cup {r.c}, ok) /\ r.c.at = "sync"
      BY <3>3, <3>4, <3>5, QueuedFits
    <3> QED
      BY <3>1, <3>6
  <2> QED
    BY <2>2, <2>3
<1> QED
  BY <1>3, <1>4, <1>5

\* The sharing goes on: the call reports.
LEMMA ResumedFits ==
    ASSUME NEW w, NEW cs, NEW ok, Good(w, cs, ok), NEW c \in cs, c.at = "resume",
           ok => Live(w, c) \/ w.room = 0
    PROVE  LET r == Queued(w, c) IN
           Good(r.w, (cs \ {c}) \cup {r.c}, ok) /\ r.c.at = "sync"
<1>1. w \in State
  BY DEF Good, Sound, Typed
<1>2. ShownElsewhere(w, w)
  BY DEF ShownElsewhere, SamePreferences
<1>3. ASSUME ok, Current(w, c), \A e \in cs : ~Owes(w, e)
      PROVE  ShownFits(w, cs \ {c}) /\ ShareFits(w, cs \ {c})
  <2>1. w.room # 0
    <3>1. IsEntry(c) /\ Remembers(w, c)
      BY DEF Good, Sound, Typed
    <3> QED
      BY <3>1, <1>1, <1>3 DEF Current, Live, Remembers, IsEntry, State
  <2>2. ShownFits(w, cs) /\ ShareFits(w, cs)
    BY <2>1, <1>3 DEF Good, Fits
  <2>3. \A places \in {{"audio", "microphone", "pause"}, {"microphone"}} :
          WaitsAt(w, cs, places) => WaitsAt(w, cs \ {c}, places)
    BY DEF WaitsAt
  <2> QED
    BY <2>2, <2>3 DEF ShownFits, ShareFits
<1>4. (ok /\ Current(w, c) /\ \A e \in cs : ~Owes(w, e))
        => ShownFits(w, cs \ {c}) /\ ShareFits(w, cs \ {c})
  BY <1>3
<1>5. c.at \in {"microphone", "pause", "resume"}
  OBVIOUS
<1> QED
  BY <1>1, <1>2, <1>4, <1>5, QueuedFits

-----------------------------------------------------------------------------
(* A preference changes *)

\* Every call of the session that reconciles owes a round on a new revision.
LEMMA Bumped ==
    ASSUME NEW w, NEW cs, Sound(w, cs), NEW x \in State, x.room = w.room, x.session = w.session,
           w.revision < x.revision, NEW e \in cs
    PROVE  /\ Remembers(x, e) /\ ~Current(x, e)
           /\ Live(x, e) /\ e.kind # "mode" => Owes(x, e)
<1>1. /\ Remembers(w, e) /\ Stands(e) /\ IsEntry(e)
      /\ w.revision \in Nat /\ x.revision \in Nat
  BY DEF Sound, Typed, State
<1>2. e.revision \in Nat /\ e.outer \in Nat
  BY <1>1 DEF IsEntry
<1>3. Remembers(x, e)
  BY <1>1, <1>2 DEF Remembers
<1>4. ~Current(x, e)
  BY <1>1, <1>2 DEF Remembers, Current
<1>5. e.at \in Within => e.revision # x.revision
  BY <1>1, <1>2 DEF Remembers
<1>6. e.at = "last-sync" => e.outer # x.revision
  <2>1. e.at = "last-sync" => e.kind = "join"
    BY <1>1 DEF Stands
  <2>2. e.at = "last-sync" => e.outer <= w.revision
    BY <2>1, <1>1 DEF Remembers
  <2>3. ASSUME e.outer <= w.revision
        PROVE  e.outer # x.revision
    BY <2>3, <1>1, <1>2
  <2> QED
    BY <2>2, <2>3
<1>7. e.kind # "mode" => e.at \in Before \cup Within \cup {"last-sync"}
  BY <1>1 DEF Stands
<1> QED
  BY <1>3, <1>4, <1>5, <1>6, <1>7 DEF Owes

\* The session is as sound as before, and no round acts on the old preferences
\* and is done.
LEMMA BumpedSound ==
    ASSUME NEW w, NEW cs, Sound(w, cs), NEW x \in State, x.room = w.room, x.session = w.session,
           w.revision < x.revision, x.status = w.status, x.asked = w.asked, x.broken = w.broken,
           x.flushing = w.flushing, x.posts = w.posts,
           x.status \notin {"idle", "error"} => x.guildMuted = x.ruled
    PROVE  Sound(x, cs) /\ RoundsFit(x, cs)
<1>1. \A e \in cs : Remembers(x, e) /\ ~Current(x, e)
  BY Bumped
<1>2. Typed(x, cs)
  BY <1>1 DEF Sound, Typed
<1>3. Joining(x, cs) <=> Joining(w, cs)
  BY DEF Joining, Live
<1>4. SessionFits(x, cs)
  BY <1>3 DEF Sound, SessionFits
<1>5. PostsFit(x)
  BY DEF Sound, PostsFit
<1>6. RoundsFit(x, cs)
  BY <1>1 DEF RoundsFit, RoundFits
<1> QED
  BY <1>2, <1>4, <1>5, <1>6 DEF Sound

-----------------------------------------------------------------------------
(* A call ends, or goes on *)

\* r is where the call c of cs has come to.
Landing(r, cs, c, ok) ==
    /\ r.c.at \notin {"returned", "thrown"}
    /\ Good(r.w, (cs \ {c}) \cup (IF r.c.at = "done" THEN {} ELSE {r.c}), ok)

\* d is the call c, but for its place and its round.
SameCall(c, d) ==
    /\ IsEntry(d) /\ d.kind = c.kind /\ d.session = c.session /\ d.outer = c.outer
    /\ d.again = c.again /\ d.tries = c.tries /\ d.round = c.round /\ d.back = c.back

\* What is done leaves only the display of its toggle.
LEMMA DoneFits ==
    ASSUME NEW w, NEW cs, NEW ok, NEW c, NEW d, IsEntry(d), Good(w, cs \ {c}, ok)
    PROVE  Landing(Done(w, d), cs, c, ok)
<1> DEFINE x == [w EXCEPT !.changing = @ \ {d.kind}]
           e == [d EXCEPT !.at = "done"]
<1>1. Done(w, d).w = x /\ Done(w, d).c = e
  BY DEF Done, At, With
<1>2. w \in State
  BY DEF Good, Sound, Typed
<1>3. w.changing \ {d.kind} \in SUBSET {"mute", "deafen", "mode"}
  BY <1>2 DEF State
<1>4. e.at = "done"
  BY DEF IsEntry
<1>5. Good(x, cs \ {c}, ok)
  BY <1>3, ChangingAside
<1> HIDE DEF x, e
<1>6. (cs \ {c}) \cup (IF e.at = "done" THEN {} ELSE {e}) = cs \ {c}
  BY <1>4
<1> QED
  BY <1>1, <1>4, <1>5, <1>6 DEF Landing

\* A call of the session is not missed when nothing is promised.
LEMMA DropSound ==
    ASSUME NEW w, NEW cs, NEW ok, Good(w, cs, ok), NEW c \in cs, Live(w, c) => c.kind # "join", ~ok
    PROVE  Good(w, cs \ {c}, ok)
<1>1. Joining(w, cs \ {c}) <=> Joining(w, cs)
  BY DEF Joining
<1> QED
  BY <1>1 DEF Good, Sound, Typed, SessionFits

\* The reconciliation of a join has returned: it reports once more.
LEMMA LastReportFits ==
    ASSUME NEW w, NEW cs, NEW ok, Good(w, cs, ok), NEW c \in cs, c.at = "sync", Current(w, c),
           NEW d, SameCall(c, d), c.kind = "join"
    PROVE  Landing(Reports(w, d, EffectiveDeafened(w), "last-sync"), cs, c, ok)
<1> DEFINE value == EffectiveDeafened(w)
           x == QueueSync(w, value)
           e == [d EXCEPT !.waits = w.room, !.at = "last-sync"]
           rest == (cs \ {c}) \cup {e}
<1>1. w \in State /\ IsEntry(c) /\ Remembers(w, c) /\ Stands(c) /\ w.room \in {0, w.session}
      /\ PostsFit(w)
  BY DEF Good, Sound, Typed
<1>2. Reports(w, d, EffectiveDeafened(w), "last-sync").w = x
      /\ Reports(w, d, EffectiveDeafened(w), "last-sync").c = e
  BY DEF Reports, At, With
<1>3. /\ IsEntry(e) /\ e.at = "last-sync" /\ e.kind = c.kind /\ e.session = c.session
      /\ e.outer = c.outer /\ e.tries = c.tries /\ e.again = c.again
  BY <1>1 DEF SameCall, IsEntry, Places, State
<1>4. value \in BOOLEAN
  BY <1>1, PreferenceTypes
<1> HIDE DEF value, e
<1>5. /\ x \in State /\ PostsFit(x)
      /\ x.mic = w.mic /\ x.deaf = w.deaf /\ x.mode = w.mode /\ x.overlay = w.overlay
      /\ x.muted = w.muted /\ x.deafened = w.deafened /\ x.guildMuted = w.guildMuted
      /\ x.syncError = w.syncError /\ x.revision = w.revision /\ x.room = w.room
      /\ x.session = w.session /\ x.status = w.status /\ x.broken = w.broken
      /\ x.ruled = w.ruled /\ x.asked = w.asked /\ x.askedMode = w.askedMode
      /\ x.share = w.share /\ x.told = w.told
      /\ w.room # 0 => ToldLast(x, value) /\ x.flushing = x.session
  BY <1>1, <1>4, QueueKeeps
<1> HIDE DEF x
<1>6. SamePreferences(w, x)
  BY <1>5 DEF SamePreferences
<1>7. Joining(x, rest) <=> Joining(w, cs)
  BY <1>3, <1>5, JoiningGoesOn
<1>8. Sound(x, rest)
  <2>1. Remembers(x, e)
    BY <1>1, <1>3, <1>5 DEF Remembers, Within
  <2>2. Stands(e)
    BY <1>1, <1>3 DEF Stands, Before, Within
  <2>3. x.room = 0 => ~x.asked /\ ~x.broken
    BY <1>5 DEF Good, Sound, SessionFits
  <2>4. x.status = "connecting" /\ x.room = 0 => e.session # x.session
    BY <1>3, <1>5 DEF Good, Sound, SessionFits
  <2>5. w.revision <= x.revision
    BY <1>1, <1>5 DEF State
  <2>6. rest \subseteq cs \cup {e}
    OBVIOUS
  <2>7. Joining(w, cs) => Joining(x, rest)
    BY <1>7
  <2> HIDE DEF rest
  <2>8. Sound(w, cs)
    BY DEF Good
  <2> QED
    BY <1>3, <1>5, <2>1, <2>2, <2>3, <2>4, <2>5, <2>6, <2>7, <2>8, GoesOnSound
<1>9. ok => Ready(x, rest)
  <2>1. RoundFits(x, e)
    BY <1>3 DEF RoundFits, Current, Within
  <2>2. ok => RoundsFit(x, cs)
    BY <1>5, <1>6, OthersFit DEF Good, Ready
  <2>3. ok => ShareEnds(x)
    BY <1>5 DEF Good, Ready, ShareEnds
  <2> QED
    BY <2>1, <2>2, <2>3 DEF Ready, RoundsFit
<1>10. ok => Fits(x, rest)
  <2>1. SUFFICES ASSUME ok, x.room # 0, \A f \in rest : ~Owes(x, f)
                 PROVE  /\ MicrophoneFits(x, rest) /\ ModeFits(x, rest)
                        /\ ShownFits(x, rest) /\ ShareFits(x, rest) /\ ToldFits(x, rest)
    BY DEF Fits
  <2>2. ASSUME NEW f \in cs
        PROVE  ~Owes(w, f)
    <3>1. CASE f = c
      BY <3>1 DEF Current, Owes, Before, Within
    <3>2. CASE f # c
      <4>1. ~Owes(x, f)
        BY <3>2, <2>1
      <4> QED
        BY <4>1, <1>6, SameToAll
    <3> QED
      BY <3>1, <3>2
  <2>3. /\ MicrophoneFits(w, cs) /\ ModeFits(w, cs) /\ ShownFits(w, cs) /\ ShareFits(w, cs)
    BY <2>1, <2>2, <1>5 DEF Good, Fits
  <2>4. ASSUME NEW places, "sync" \notin places, WaitsAt(w, cs, places)
        PROVE  WaitsAt(x, rest, places)
    <3>1. PICK f \in cs : Current(w, f) /\ f.at \in places
      BY <2>4 DEF WaitsAt
    <3>2. f \in rest
      BY <3>1, <2>4
    <3> QED
      BY <3>1, <3>2, <1>6, SameToAll DEF WaitsAt
  <2>5. /\ WaitsAt(w, cs, {"audio"}) => WaitsAt(x, rest, {"audio"})
        /\ WaitsAt(w, cs, {"microphone"}) => WaitsAt(x, rest, {"microphone"})
        /\ WaitsAt(w, cs, {"audio", "microphone", "pause"})
             => WaitsAt(x, rest, {"audio", "microphone", "pause"})
    BY <2>4
  <2>6. EffectiveDeafened(x) = EffectiveDeafened(w)
        /\ ShouldEnableMicrophone(x) = ShouldEnableMicrophone(w)
    BY <1>6, SameToAll
  <2>7. ToldFits(x, rest)
    BY <2>1, <2>6, <1>5 DEF ToldFits, value
  <2> HIDE DEF rest
  <2> QED
    BY <2>3, <2>5, <2>6, <2>7, <1>5, <1>7
       DEF MicrophoneFits, ModeFits, ShownFits, ShareFits
<1>11. (cs \ {c}) \cup (IF e.at = "done" THEN {} ELSE {e}) = rest
  BY <1>3
<1> QED
  BY <1>2, <1>3, <1>8, <1>9, <1>10, <1>11 DEF Landing, Good

\* The reconciliation has returned: its session is over, or it is done.
LEMMA ReturnedFits ==
    ASSUME NEW w, NEW cs, NEW ok, Good(w, cs, ok), NEW c \in cs,
           ~Live(w, c) \/ (c.at = "sync" /\ Current(w, c))
    PROVE  Landing(Proceed(At(w, c, "returned")), cs, c, ok)
<1> DEFINE d == [c EXCEPT !.at = "returned"]
<1>1. IsEntry(c)
  BY DEF Good, Sound, Typed
<1>2. d.at = "returned" /\ SameCall(c, d)
  BY <1>1 DEF IsEntry, SameCall, Places
<1>3. Proceed(At(w, c, "returned")) = Returned(w, d)
  BY <1>2 DEF Proceed, At, With
<1> HIDE DEF d
<1>4. Live(w, d) <=> Live(w, c)
  BY <1>2 DEF Live, SameCall
<1>5. CASE c.kind # "join" \/ ~Live(w, c)
  <2>1. Returned(w, d) = Done(w, d)
    BY <1>2, <1>4, <1>5 DEF Returned, SameCall
  <2>2. ~Owes(w, c)
    BY DEF Owes, Current, Before, Within
  <2>3. Live(w, c) => c.kind # "join" /\ c.at \notin {"audio", "microphone", "pause", "resume"}
    BY <1>5
  <2>4. Good(w, cs \ {c}, ok)
    BY <2>2, <2>3, DropFits
  <2> QED
    BY <1>2, <1>3, <2>1, <2>4, DoneFits DEF SameCall
<1>6. CASE c.kind = "join" /\ Live(w, c)
  <2>1. Returned(w, d) = Reports(w, d, EffectiveDeafened(w), "last-sync")
    BY <1>2, <1>4, <1>6 DEF Returned, SameCall
  <2>2. Landing(Reports(w, d, EffectiveDeafened(w), "last-sync"), cs, c, ok)
    BY <1>2, <1>6, LastReportFits
  <2> QED
    BY <1>3, <2>1, <2>2
<1> QED
  BY <1>5, <1>6

\* Where a round begins.
LEMMA HeadAt ==
    ASSUME NEW w \in State, NEW d, IsEntry(d), Live(w, d), d.tries # Attempts
    PROVE  LET r == Head(w, d) IN
           /\ r.c.at \in {"audio", "microphone"} /\ IsEntry(r.c)
           /\ r.c.kind = d.kind /\ r.c.session = d.session
<1>1. EffectiveDeafened(w) \in BOOLEAN /\ ShouldEnableMicrophone(w) \in BOOLEAN
  BY PreferenceTypes
<1>2. d.tries + 1 \in Nat /\ w.revision \in Nat
  BY DEF IsEntry, State
<1> DEFINE deaf == EffectiveDeafened(w)
           mic == ShouldEnableMicrophone(w)
           tries == d.tries + 1
           e == [d EXCEPT !.revision = w.revision, !.tries = tries, !.deaf = deaf, !.mic = mic]
<1>3. e = [d EXCEPT !.revision = w.revision, !.tries = @ + 1, !.deaf = EffectiveDeafened(w),
                    !.mic = ShouldEnableMicrophone(w)]
  OBVIOUS
<1> HIDE DEF deaf, mic, tries
<1>4. deaf \in BOOLEAN /\ mic \in BOOLEAN /\ tries \in Nat
  BY <1>1, <1>2 DEF deaf, mic, tries
<1>5. IsEntry(e) /\ e.kind = d.kind /\ e.session = d.session /\ e.deaf = deaf
  BY <1>2, <1>4 DEF IsEntry
<1> HIDE DEF e
<1>6. Head(w, d).c = [e EXCEPT !.at = IF deaf THEN "microphone" ELSE "audio"]
  <2>1. CASE deaf
    BY <1>3, <1>5, <2>1 DEF Head, At, With
  <2>2. CASE ~deaf
    BY <1>3, <1>5, <2>2 DEF Head, At, With
  <2> QED
    BY <2>1, <2>2
<1>7. CASE deaf
  BY <1>5, <1>6, <1>7 DEF IsEntry, Places
<1>8. CASE ~deaf
  BY <1>5, <1>6, <1>8 DEF IsEntry, Places
<1> QED
  BY <1>7, <1>8

\* Another round of a call begins.
LEMMA HeadLands ==
    ASSUME NEW w, NEW cs, NEW ok, Sound(w, cs), ok => Ready(w, cs), NEW c \in cs,
           NEW d, IsEntry(d), Remembers(w, d), d.kind # "mode", d.kind = c.kind,
           d.session = c.session, d.kind = "join" => d.at \notin {"connect", "start"},
           Live(w, d), d.tries # Attempts
    PROVE  Landing(Head(w, d), cs, c, ok)
<1> DEFINE e == Head(w, d).c
           rest == (cs \ {c}) \cup {e}
<1>1. w \in State
  BY DEF Sound, Typed
<1>2. e.at \in {"audio", "microphone"} /\ e.kind = d.kind /\ e.session = d.session
  BY <1>1, HeadAt
<1> HIDE DEF e
<1>3. Joining(w, rest) <=> Joining(w, cs)
  BY <1>2, JoiningGoesOn
<1>4. rest \subseteq cs \cup {e} /\ e \in rest
  OBVIOUS
<1> HIDE DEF rest
<1>5. Good(Head(w, d).w, rest, ok)
  BY <1>3, <1>4, HeadFits DEF e
<1>6. (cs \ {c}) \cup (IF e.at = "done" THEN {} ELSE {e}) = rest
  BY <1>2 DEF rest
<1> QED
  BY <1>2, <1>5, <1>6 DEF Landing, e

\* What is under way stays there.
LEMMA Stays ==
    ASSUME NEW r, NEW cs, NEW c, NEW ok, Landing(r, cs, c, ok)
    PROVE  Landing(Proceed(r), cs, c, ok)
<1>1. Proceed(r) = r
  BY DEF Proceed, Landing
<1> QED
  BY <1>1

\* What a preference leaves alone.
SameSession(w, x) ==
    /\ x.room = w.room /\ x.session = w.session /\ x.status = w.status /\ x.asked = w.asked
    /\ x.broken = w.broken /\ x.flushing = w.flushing /\ x.posts = w.posts
    /\ x.guildMuted = w.guildMuted /\ x.ruled = w.ruled /\ x.share = w.share

LEMMA DeafenedSet ==
    ASSUME NEW w \in State, NEW on \in BOOLEAN
    PROVE  /\ SetDeafened(w, on) \in State /\ SameSession(w, SetDeafened(w, on))
           /\ SetDeafened(w, on).revision = w.revision + 1
<1> DEFINE next == w.revision + 1
<1>1. next \in Nat
  BY DEF State
<1>2. SetDeafened(w, on) = [w EXCEPT !.deaf = on, !.revision = next]
  BY DEF SetDeafened
<1> HIDE DEF next
<1>3. LET x == [w EXCEPT !.deaf = on, !.revision = next] IN
      x \in State /\ SameSession(w, x) /\ x.revision = next
  BY <1>1 DEF State, SameSession
<1> QED
  BY <1>2, <1>3 DEF next

LEMMA MicrophoneSet ==
    ASSUME NEW w \in State, NEW on \in BOOLEAN
    PROVE  /\ SetMicrophone(w, on) \in State /\ SameSession(w, SetMicrophone(w, on))
           /\ SetMicrophone(w, on).revision = w.revision + 1
<1> DEFINE next == w.revision + 1
<1>1. next \in Nat
  BY DEF State
<1>2. SetMicrophone(w, on) = [w EXCEPT !.mic = on, !.revision = next]
  BY DEF SetMicrophone
<1> HIDE DEF next
<1>3. LET x == [w EXCEPT !.mic = on, !.revision = next] IN
      x \in State /\ SameSession(w, x) /\ x.revision = next
  BY <1>1 DEF State, SameSession
<1> QED
  BY <1>2, <1>3 DEF next

\* Both at once.
LEMMA BothSet ==
    ASSUME NEW w \in State, NEW on \in BOOLEAN, NEW off \in BOOLEAN
    PROVE  /\ LET x == SetDeafened(SetMicrophone(w, on), off) IN
              x \in State /\ SameSession(w, x) /\ w.revision < x.revision
           /\ LET x == SetMicrophone(SetDeafened(w, off), on) IN
              x \in State /\ SameSession(w, x) /\ w.revision < x.revision
<1>1. w.revision \in Nat
  BY DEF State
<1>2. \A u, x, y : SameSession(u, x) /\ SameSession(x, y) => SameSession(u, y)
  BY DEF SameSession
<1>3. LET m == SetMicrophone(w, on)
          x == SetDeafened(m, off) IN
      x \in State /\ SameSession(w, x) /\ x.revision = w.revision + 1 + 1
  BY <1>2, MicrophoneSet, DeafenedSet
<1>4. LET m == SetDeafened(w, off)
          x == SetMicrophone(m, on) IN
      x \in State /\ SameSession(w, x) /\ x.revision = w.revision + 1 + 1
  BY <1>2, MicrophoneSet, DeafenedSet
<1> QED
  BY <1>1, <1>3, <1>4

\* userToggledMute and userToggledDeafen put back what was preferred.
LEMMA RollBackFits ==
    ASSUME NEW w, NEW cs, NEW ok, Good(w, cs, ok), NEW c \in cs, c.kind \in {"mute", "deafen"},
           NEW d, SameCall(c, d), d.at = "thrown",
           ok => Live(w, c)
    PROVE  Landing(RollBack(w, d), cs, c, ok)
<1> DEFINE back == IF d.kind = "mute" THEN SetDeafened(SetMicrophone(w, d.back.mic), d.back.deaf)
                   ELSE SetDeafened(w, d.back.deaf)
           e == [d EXCEPT !.tries = 0, !.again = TRUE]
<1>1. w \in State /\ IsEntry(c) /\ Remembers(w, c) /\ w.revision \in Nat
  BY DEF Good, Sound, Typed, State
<1>2. back \in State /\ SameSession(w, back) /\ w.revision < back.revision
  <2>1. d.back.mic \in BOOLEAN /\ d.back.deaf \in BOOLEAN
    BY DEF SameCall, IsEntry
  <2>2. CASE d.kind = "mute"
    BY <1>1, <2>1, <2>2, BothSet
  <2>3. CASE d.kind # "mute"
    <3>1. w.revision < w.revision + 1
      BY <1>1
    <3> QED
      BY <1>1, <2>1, <2>3, <3>1, DeafenedSet
  <2> QED
    BY <2>2, <2>3
<1>3. /\ IsEntry(e) /\ e.tries = 0 /\ e.again = TRUE /\ e.kind = c.kind /\ e.session = c.session
      /\ e.at = "thrown" /\ e.outer = c.outer
  BY DEF SameCall, IsEntry
<1>4. RollBack(w, d) = LET r == Head(back, e) IN IF r.c.at = "returned" THEN Done(r.w, r.c) ELSE r
  BY DEF RollBack
<1> HIDE DEF back, e
<1>5. Sound(back, cs) /\ RoundsFit(back, cs)
  <2>1. back.status \notin {"idle", "error"} => back.guildMuted = back.ruled
    BY <1>2 DEF Good, Sound, SessionFits, SameSession
  <2>2. Sound(w, cs)
    BY DEF Good
  <2> QED
    BY <1>2, <2>1, <2>2, BumpedSound DEF SameSession
<1>6. ok => Ready(back, cs)
  BY <1>2, <1>5 DEF Ready, Good, ShareEnds, SameSession
<1>7. Live(back, e) <=> Live(w, c)
  BY <1>2, <1>3 DEF Live, SameSession
<1>8. Attempts \in Nat \ {0}
  BY MuteDeafenAssumption
<1>9. CASE Live(w, c)
  <2>1. Remembers(back, e)
    BY <1>1, <1>2, <1>3, <1>8 DEF Remembers, Within, SameSession
  <2>2. Landing(Head(back, e), cs, c, ok)
    BY <1>3, <1>5, <1>6, <1>7, <1>8, <1>9, <2>1, HeadLands
  <2> QED
    BY <1>4, <2>2 DEF Landing
<1>10. CASE ~Live(w, c)
  <2>2. Head(back, e) = At(back, e, "returned")
    BY <1>3, <1>7, <1>8, <1>10 DEF Head
  <2> DEFINE f == [e EXCEPT !.at = "returned"]
  <2>3. IsEntry(f) /\ f.at = "returned"
    BY <1>3 DEF IsEntry, Places
  <2>4. RollBack(w, d) = Done(back, f)
    <3>1. At(back, e, "returned").w = back /\ At(back, e, "returned").c = f
      BY DEF At, With
    <3> HIDE DEF f
    <3>2. Head(back, e).w = back /\ Head(back, e).c = f
      BY <2>2, <3>1
    <3> QED
      BY <1>4, <2>3, <3>2
  <2> HIDE DEF f
  <2>5. ~ok
    BY <1>10
  <2>6. Good(back, cs, ok)
    BY <1>5, <2>5 DEF Good
  <2>7. Good(back, cs \ {c}, ok)
    <3>1. Live(back, c) => c.kind # "join"
      OBVIOUS
    <3> QED
      BY <2>5, <2>6, <3>1, DropSound
  <2> QED
    BY <2>3, <2>4, <2>7, DoneFits
<1> QED
  BY <1>9, <1>10

\* A join that fails leaves no room behind.
Failed(w) == [w EXCEPT !.room = 0, !.status = "error", !.broken = FALSE, !.asked = FALSE]

LEMMA JoinFailsFits ==
    ASSUME NEW w, NEW cs, NEW ok, Good(w, cs, ok), NEW c \in cs, c.session = w.session,
           ok => w.share = "off"
    PROVE  Good(Reset(Failed(w)), cs \ {c}, ok)
<1> DEFINE u == Failed(w)
           x == Reset(u)
<1>1. w \in State
  BY DEF Good, Sound, Typed
<1>2. /\ u \in State /\ u.room = 0 /\ u.session = w.session /\ u.revision = w.revision
      /\ u.status = "error" /\ u.broken = FALSE /\ u.asked = FALSE /\ u.share = w.share
      /\ u.flushing = w.flushing /\ u.posts = w.posts
  BY <1>1 DEF State, Failed
<1> HIDE DEF u
<1>5. /\ x \in State /\ x.room = 0 /\ x.session = w.session /\ x.revision = w.revision
      /\ x.status = "error" /\ x.broken = FALSE /\ x.asked = FALSE /\ x.share = w.share
      /\ x.flushing = w.flushing /\ x.posts = w.posts
  BY <1>2, ResetKeeps
<1> HIDE DEF x
<1>6. \A e \in cs : e.session # 0 /\ e.session \in Nat
  BY <1>1 DEF Good, Sound, Typed, Remembers, IsEntry
<1>7. \A e \in cs : Remembers(x, e)
  BY <1>5 DEF Good, Sound, Typed, Remembers
<1>8. Typed(x, cs \ {c})
  BY <1>5, <1>7 DEF Good, Sound, Typed
<1>9. SessionFits(x, cs \ {c}) /\ PostsFit(x)
  BY <1>5 DEF Good, Sound, SessionFits, PostsFit
<1>10. RoundsFit(x, cs \ {c})
  BY <1>5, <1>6 DEF RoundsFit, RoundFits, Current, Live
<1>11. ok => ShareEnds(x)
  BY <1>5 DEF ShareEnds
<1>12. Fits(x, cs \ {c})
  BY <1>5 DEF Fits
<1> QED
  BY <1>8, <1>9, <1>10, <1>11, <1>12 DEF Good, Sound, Ready, x, u

\* A call has failed: another round, or an end that is excused.
LEMMA ThrownFits ==
    ASSUME NEW w, NEW cs, NEW ok, Good(w, cs, ok), NEW c \in cs, c.kind # "mode",
           ok => ~Unrepaired(w, c), NEW d, SameCall(c, d), c.kind # "join" => d.at = "thrown"
    PROVE  Landing(Thrown(w, d), cs, c, ok)
<1>1. IsEntry(c) /\ IsEntry(d) /\ d.kind = c.kind /\ d.session = c.session /\ d.again = c.again
  BY DEF Good, Sound, Typed, SameCall
<1>2. Live(w, d) <=> Live(w, c)
  BY <1>1 DEF Live
<1>3. ASSUME Live(w, c) => c.kind # "join", ~Live(w, c) \/ ~ok
      PROVE  Landing(Done(w, d), cs, c, ok)
  <2>1. CASE ~ok
    <3>1. Good(w, cs \ {c}, ok)
      BY <1>3, <2>1, DropSound
    <3> QED
      BY <1>1, <3>1, DoneFits
  <2>2. CASE ~Live(w, c)
    <3>1. ~Owes(w, c)
      BY <2>2 DEF Owes
    <3>2. Good(w, cs \ {c}, ok)
      BY <2>2, <3>1, DropFits
    <3> QED
      BY <1>1, <3>2, DoneFits
  <2> QED
    BY <1>3, <2>1, <2>2
<1>4. CASE c.kind \in {"mute", "deafen"}
  <2>1. CASE c.again \/ (c.kind = "deafen" /\ ~Live(w, c))
    <3>1. Thrown(w, d) = Done(w, d)
      BY <1>1, <1>2, <1>4, <2>1 DEF Thrown
    <3>2. ~Live(w, c) \/ ~ok
      BY <2>1 DEF Unrepaired
    <3> QED
      BY <1>3, <1>4, <3>1, <3>2
  <2>2. CASE ~(c.again \/ (c.kind = "deafen" /\ ~Live(w, c)))
    <3>1. Thrown(w, d) = RollBack(w, d)
      BY <1>1, <1>2, <1>4, <2>2 DEF Thrown
    <3>2. ok => Live(w, c)
      BY <1>4, <2>2 DEF Unrepaired
    <3>3. d.at = "thrown"
      BY <1>4
    <3> QED
      BY <1>4, <3>1, <3>2, <3>3, RollBackFits
  <2> QED
    BY <2>1, <2>2
<1>5. CASE c.kind = "join"
  <2>1. CASE c.session # w.session
    <3>1. Thrown(w, d) = Done(w, d)
      BY <1>1, <1>5, <2>1 DEF Thrown
    <3>2. ~Live(w, c)
      BY <2>1 DEF Live
    <3> QED
      BY <1>3, <3>1, <3>2
  <2>2. CASE c.session = w.session
    <3> DEFINE x == Reset(Failed(w))
    <3>1. Thrown(w, d) = Done(x, d)
      BY <1>1, <1>5, <2>2 DEF Thrown, Failed
    <3>2. ok => w.share = "off"
      BY <1>5 DEF Unrepaired
    <3>3. Good(x, cs \ {c}, ok)
      BY <2>2, <3>2, JoinFailsFits
    <3> HIDE DEF x
    <3> QED
      BY <1>1, <3>1, <3>3, DoneFits
  <2> QED
    BY <2>1, <2>2
<1>6. CASE c.kind \in {"guild", "overlay", "recovered"}
  <2>1. Thrown(w, d) = Done(w, d)
    BY <1>1, <1>6 DEF Thrown
  <2>2. ~ok
    BY <1>6 DEF Unrepaired
  <2> QED
    BY <1>3, <1>6, <2>1, <2>2
<1>7. c.kind \in Kinds
  BY <1>1 DEF IsEntry
<1> QED
  BY <1>4, <1>5, <1>6, <1>7 DEF Kinds

\* A step of a call has failed.
LEMMA FailsFits ==
    ASSUME NEW w, NEW cs, NEW ok, Good(w, cs, ok), NEW c \in cs, c.kind # "mode",
           ok => ~Unrepaired(w, c)
    PROVE  Landing(Proceed(At(w, c, "thrown")), cs, c, ok)
<1> DEFINE d == [c EXCEPT !.at = "thrown"]
<1>1. IsEntry(c)
  BY DEF Good, Sound, Typed
<1>2. d.at = "thrown" /\ SameCall(c, d)
  BY <1>1 DEF IsEntry, SameCall, Places
<1>3. At(w, c, "thrown").w = w /\ At(w, c, "thrown").c = d
  BY DEF At, With
<1> HIDE DEF d
<1>4. Proceed(At(w, c, "thrown")) = Thrown(w, d)
  BY <1>2, <1>3 DEF Proceed
<1> QED
  BY <1>2, <1>4, ThrownFits

\* The head of the loop, wherever it leads.
LEMMA HeadOn ==
    ASSUME NEW w, NEW cs, NEW ok, Good(w, cs, ok), NEW c \in cs, c.kind # "mode",
           c.at \notin {"connect", "start"}, c.tries = Attempts /\ ok => ~Unrepaired(w, c)
    PROVE  Landing(Proceed(Head(w, c)), cs, c, ok)
<1>1. IsEntry(c) /\ Remembers(w, c)
  BY DEF Good, Sound, Typed
<1>2. CASE c.tries = Attempts
  <2>1. Head(w, c) = At(w, c, "thrown")
    BY <1>2 DEF Head
  <2> QED
    BY <1>2, <2>1, FailsFits
<1>3. CASE c.tries # Attempts /\ ~Live(w, c)
  <2>1. Head(w, c) = At(w, c, "returned")
    BY <1>3 DEF Head
  <2> QED
    BY <1>3, <2>1, ReturnedFits
<1>4. CASE c.tries # Attempts /\ Live(w, c)
  <2>1. Landing(Head(w, c), cs, c, ok)
    BY <1>1, <1>4, HeadLands DEF Good
  <2> QED
    BY <2>1, Stays
<1> QED
  BY <1>2, <1>3, <1>4

\* The report of a round has ended.
LEMMA SyncDoneFits ==
    ASSUME NEW w, NEW cs, NEW ok, Good(w, cs, ok), NEW c \in cs, c.at = "sync",
           ok => ~(LastRound(w, c) /\ Unrepaired(w, c))
    PROVE  Landing(Proceed(SyncDone(w, c)), cs, c, ok)
<1>1. Stands(c)
  BY DEF Good, Sound, Typed
<1>2. c.kind # "mode"
  BY <1>1 DEF Stands
<1>3. CASE c.revision = w.revision
  <2>1. SyncDone(w, c) = At(w, c, "returned")
    BY <1>3 DEF SyncDone
  <2>2. ~Live(w, c) \/ (c.at = "sync" /\ Current(w, c))
    BY <1>3 DEF Current, Within
  <2> QED
    BY <2>1, <2>2, ReturnedFits
<1>4. CASE c.revision # w.revision
  <2>1. SyncDone(w, c) = Head(w, c)
    BY <1>4 DEF SyncDone
  <2>2. c.tries = Attempts /\ ok => ~Unrepaired(w, c)
    BY <1>4 DEF LastRound
  <2>3. c.at \notin {"connect", "start"}
    OBVIOUS
  <2> QED
    BY <1>2, <2>1, <2>2, <2>3, HeadOn
<1> QED
  BY <1>3, <1>4

\* Another round of a join: the devices, then the preferences.
LEMMA JoinRoundFits ==
    ASSUME NEW w, NEW cs, NEW ok, Good(w, cs, ok), NEW c \in cs, c.kind = "join",
           Live(w, c), c.round # Attempts
    PROVE  Landing(JoinRound(w, c), cs, c, ok)
<1> DEFINE round == c.round + 1
           e == [c EXCEPT !.round = round, !.outer = w.revision, !.tries = 0, !.at = "devices"]
           rest == (cs \ {c}) \cup {e}
<1>1. w \in State /\ IsEntry(c) /\ Remembers(w, c) /\ Attempts \in Nat \ {0}
  BY MuteDeafenAssumption DEF Good, Sound, Typed
<1>2. JoinRound(w, c).w = w /\ JoinRound(w, c).c = e
  BY DEF JoinRound, At, With
<1>3. round \in Nat /\ w.revision \in Nat
  BY <1>1 DEF IsEntry, State
<1> HIDE DEF round
<1>4. /\ IsEntry(e) /\ e.at = "devices" /\ e.kind = "join" /\ e.session = c.session
      /\ e.outer = w.revision /\ e.tries = 0 /\ e.again = c.again
  BY <1>1, <1>3 DEF IsEntry, Places
<1> HIDE DEF e
<1>5. Joining(w, rest) <=> Joining(w, cs)
  BY <1>4, JoiningGoesOn
<1>6. Remembers(w, e)
  BY <1>1, <1>3, <1>4 DEF Remembers, Within
<1>7. Stands(e)
  BY <1>4 DEF Stands, Before, Within
<1>8. Sound(w, rest)
  <2>1. w.revision <= w.revision
    BY <1>3
  <2>2. Sound(w, cs) /\ PostsFit(w) /\ (w.room = 0 => ~w.asked /\ ~w.broken)
    BY DEF Good, Sound, SessionFits
  <2>3. w.status = "connecting" /\ w.room = 0 => e.session # w.session
    BY <1>4, <2>2 DEF Sound, SessionFits
  <2>4. rest \subseteq cs \cup {e}
    OBVIOUS
  <2> HIDE DEF rest
  <2> QED
    BY <1>1, <1>4, <1>5, <1>6, <1>7, <2>1, <2>2, <2>3, <2>4, GoesOnSound
<1>9. ok => Ready(w, rest)
  <2>1. RoundFits(w, e)
    BY <1>4 DEF RoundFits, Current, Within
  <2> QED
    BY <2>1 DEF Good, Ready, RoundsFit
<1>10. Owes(w, e)
  BY <1>4 DEF Owes, Live, Before
<1>11. Fits(w, rest)
  BY <1>10 DEF Fits
<1>12. (cs \ {c}) \cup (IF e.at = "done" THEN {} ELSE {e}) = rest
  BY <1>4
<1> QED
  BY <1>2, <1>4, <1>8, <1>9, <1>11, <1>12 DEF Landing, Good

\* A join is over: nothing was left to be done.
LEMMA ConnectedFits ==
    ASSUME NEW w, NEW cs, NEW ok, Good(w, cs, ok), NEW c \in cs, c.kind = "join",
           Live(w, c), c.at = "last-sync", c.outer = w.revision
    PROVE  Good([w EXCEPT !.status = "connected"], cs \ {c}, ok)
<1> DEFINE x == [w EXCEPT !.status = "connected"]
           rest == cs \ {c}
<1>1. w \in State /\ IsEntry(c) /\ Remembers(w, c)
  BY DEF Good, Sound, Typed
<1>2. /\ x \in State /\ x.status = "connected"
      /\ x.mic = w.mic /\ x.deaf = w.deaf /\ x.mode = w.mode /\ x.overlay = w.overlay
      /\ x.muted = w.muted /\ x.deafened = w.deafened /\ x.guildMuted = w.guildMuted
      /\ x.syncError = w.syncError /\ x.revision = w.revision /\ x.room = w.room
      /\ x.session = w.session /\ x.broken = w.broken
      /\ x.ruled = w.ruled /\ x.asked = w.asked /\ x.askedMode = w.askedMode
      /\ x.share = w.share /\ x.pending = w.pending /\ x.flushing = w.flushing
      /\ x.posts = w.posts /\ x.told = w.told
  BY <1>1 DEF State
<1> HIDE DEF x
<1>3. SamePreferences(w, x)
  BY <1>2 DEF SamePreferences
<1>4. w.room # 0
  BY <1>1 DEF Live, Remembers, State, IsEntry
<1>5. w.status \notin {"idle", "error"}
  BY <1>4 DEF Good, Sound, SessionFits
<1>6. Sound(x, rest)
  <2>1. \A e \in rest : Remembers(x, e)
    BY <1>3, SameToAll DEF Good, Sound, Typed
  <2>2. Typed(x, rest)
    BY <1>2, <2>1 DEF Good, Sound, Typed
  <2>3. SessionFits(x, rest)
    BY <1>2, <1>4, <1>5 DEF Good, Sound, SessionFits
  <2>4. PostsFit(x)
    BY <1>2 DEF Good, Sound, PostsFit
  <2> QED
    BY <2>2, <2>3, <2>4 DEF Sound
<1>7. ok => Ready(x, rest)
  <2>1. ok => RoundsFit(x, cs)
    BY <1>2, <1>3, OthersFit DEF Good, Ready
  <2>2. ok => ShareEnds(x)
    BY <1>2, <1>4 DEF Good, Ready, ShareEnds
  <2> QED
    BY <2>1, <2>2 DEF Ready, RoundsFit
<1>8. ok => Fits(x, rest)
  <2>1. SUFFICES ASSUME ok, x.room # 0, \A f \in rest : ~Owes(x, f)
                 PROVE  /\ MicrophoneFits(x, rest) /\ ModeFits(x, rest)
                        /\ ShownFits(x, rest) /\ ShareFits(x, rest) /\ ToldFits(x, rest)
    BY DEF Fits
  <2>2. ASSUME NEW f \in cs
        PROVE  ~Owes(w, f)
    <3>1. CASE f = c
      BY <3>1 DEF Owes, Before, Within
    <3>2. CASE f # c
      <4>1. ~Owes(x, f)
        BY <3>2, <2>1
      <4> QED
        BY <4>1, <1>3, SameToAll
    <3> QED
      BY <3>1, <3>2
  <2>3. /\ MicrophoneFits(w, cs) /\ ModeFits(w, cs) /\ ShownFits(w, cs) /\ ShareFits(w, cs)
        /\ ToldFits(w, cs)
    BY <1>4, <2>1, <2>2 DEF Good, Fits
  <2>4. ASSUME NEW places, "last-sync" \notin places, WaitsAt(w, cs, places)
        PROVE  WaitsAt(x, rest, places)
    <3>1. PICK f \in cs : Current(w, f) /\ f.at \in places
      BY <2>4 DEF WaitsAt
    <3>2. f \in rest
      BY <3>1, <2>4
    <3> QED
      BY <3>1, <3>2, <1>3, SameToAll DEF WaitsAt
  <2>5. /\ WaitsAt(w, cs, {"audio"}) => WaitsAt(x, rest, {"audio"})
        /\ WaitsAt(w, cs, {"microphone"}) => WaitsAt(x, rest, {"microphone"})
        /\ WaitsAt(w, cs, {"audio", "microphone", "pause"})
             => WaitsAt(x, rest, {"audio", "microphone", "pause"})
        /\ WaitsAt(w, cs, {"audio", "microphone", "pause", "resume"})
             => WaitsAt(x, rest, {"audio", "microphone", "pause", "resume"})
    BY <2>4
  <2>6. EffectiveDeafened(x) = EffectiveDeafened(w)
        /\ ShouldEnableMicrophone(x) = ShouldEnableMicrophone(w)
    BY <1>3, SameToAll
  <2>7. Joining(w, cs)
    BY DEF Joining
  <2>8. \A value : ToldLast(x, value) <=> ToldLast(w, value)
    BY <1>2 DEF ToldLast
  <2> HIDE DEF rest
  <2>9. MicrophoneFits(x, rest) /\ ModeFits(x, rest)
    BY <2>3, <2>5, <2>6, <2>7, <1>2 DEF MicrophoneFits, ModeFits
  <2>10. ShownFits(x, rest) /\ ShareFits(x, rest)
    BY <2>3, <2>5, <2>6, <1>2 DEF ShownFits, ShareFits
  <2>11. ToldFits(x, rest)
    BY <2>3, <2>5, <2>6, <2>8, <1>2 DEF ToldFits
  <2> QED
    BY <2>9, <2>10, <2>11
<1> QED
  BY <1>6, <1>7, <1>8 DEF Good, x

\* The last report of a join has ended.
LEMMA JoinSyncedFits ==
    ASSUME NEW w, NEW cs, NEW ok, Good(w, cs, ok), NEW c \in cs, c.at = "last-sync",
           ok => ~(LastRound(w, c) /\ Unrepaired(w, c))
    PROVE  Landing(Proceed(JoinSynced(w, c)), cs, c, ok)
<1>1. IsEntry(c) /\ c.kind = "join" /\ SameCall(c, c)
  BY DEF Good, Sound, Typed, Stands, SameCall
<1>2. CASE ~Live(w, c)
  <2>1. JoinSynced(w, c) = Done(w, c)
    BY <1>2 DEF JoinSynced
  <2>2. ~Owes(w, c)
    BY <1>2 DEF Owes
  <2>3. Good(w, cs \ {c}, ok)
    BY <1>2, <2>2, DropFits
  <2>4. Landing(Done(w, c), cs, c, ok)
    BY <1>1, <2>3, DoneFits
  <2> QED
    BY <2>1, <2>4, Stays
<1>3. CASE Live(w, c) /\ c.outer = w.revision
  <2> DEFINE x == [w EXCEPT !.status = "connected"]
  <2>1. JoinSynced(w, c) = Done(x, c)
    BY <1>3 DEF JoinSynced
  <2>2. Good(x, cs \ {c}, ok)
    BY <1>1, <1>3, ConnectedFits
  <2> HIDE DEF x
  <2>3. Landing(Done(x, c), cs, c, ok)
    BY <1>1, <2>2, DoneFits
  <2> QED
    BY <2>1, <2>3, Stays
<1>4. CASE Live(w, c) /\ c.outer # w.revision /\ c.round = Attempts
  <2>1. JoinSynced(w, c) = Thrown(w, c)
    BY <1>4 DEF JoinSynced, JoinRound
  <2>2. ok => ~Unrepaired(w, c)
    BY <1>4 DEF LastRound
  <2>3. Landing(Thrown(w, c), cs, c, ok)
    BY <1>1, <2>2, ThrownFits
  <2> QED
    BY <2>1, <2>3, Stays
<1>5. CASE Live(w, c) /\ c.outer # w.revision /\ c.round # Attempts
  <2>1. JoinSynced(w, c) = JoinRound(w, c)
    BY <1>5 DEF JoinSynced
  <2>2. Landing(JoinRound(w, c), cs, c, ok)
    BY <1>1, <1>5, JoinRoundFits
  <2> QED
    BY <2>1, <2>2, Stays
<1> QED
  BY <1>2, <1>3, <1>4, <1>5

-----------------------------------------------------------------------------
(* The answers *)

\* Less is promised.
LEMMA Weaker ==
    ASSUME NEW w, NEW cs, NEW ok, Good(w, cs, ok), NEW less, less => ok
    PROVE  Good(w, cs, less)
BY DEF Good

\* A call has come to where it waits next, or is over.
LEMMA GoesFits ==
    ASSUME NEW c, NEW r, NEW ok, Goes(c, r), Landing(Proceed(r), calls, c, ok)
    PROVE  Good(v', calls', ok)
<1> DEFINE p == Proceed(r)
           rest == (calls \ {c}) \cup (IF p.c.at = "done" THEN {} ELSE {p.c})
<1>1. v' = Kept(p.w, rest) /\ calls' = rest
  BY DEF Goes
<1>2. Good(p.w, rest, ok)
  BY DEF Landing
<1> HIDE DEF p, rest
<1> QED
  BY <1>1, <1>2, KeptFits

LEMMA SyncAnswers ==
    ASSUME PreferenceInvariant, NEW c \in calls, SyncAnswered(c)
    PROVE  PreferenceInvariant'
<1>1. excused' = (excused \/ (LastRound(v, c) /\ Unrepaired(v, c)))
  BY DEF SyncAnswered
<1>2. Good(v, calls, ~excused')
  BY <1>1, Weaker DEF PreferenceInvariant
<1>3. ~excused' => ~(LastRound(v, c) /\ Unrepaired(v, c))
  BY <1>1
<1>4. CASE c.at = "sync"
  <2>1. Goes(c, SyncDone(v, c))
    BY <1>4 DEF SyncAnswered
  <2>2. Landing(Proceed(SyncDone(v, c)), calls, c, ~excused')
    BY <1>2, <1>3, <1>4, SyncDoneFits
  <2> QED
    BY <1>1, <2>1, <2>2, GoesFits DEF PreferenceInvariant
<1>5. CASE c.at = "last-sync"
  <2>1. Goes(c, JoinSynced(v, c))
    BY <1>5 DEF SyncAnswered
  <2>2. Landing(Proceed(JoinSynced(v, c)), calls, c, ~excused')
    BY <1>2, <1>3, <1>5, JoinSyncedFits
  <2> QED
    BY <1>1, <2>1, <2>2, GoesFits DEF PreferenceInvariant
<1> QED
  BY <1>4, <1>5 DEF SyncAnswered, Released

LEMMA DevicesAnswer ==
    ASSUME PreferenceInvariant, NEW c \in calls, DevicesApplied(c)
    PROVE  PreferenceInvariant'
<1>1. Good(v, calls, ~excused) /\ excused \in BOOLEAN /\ excused' = excused /\ c.at = "devices"
  BY DEF PreferenceInvariant, DevicesApplied
<1>2. Stands(c) /\ Attempts # 0
  BY <1>1, MuteDeafenAssumption DEF Good, Sound, Typed
<1>3. c.kind # "mode" /\ c.tries # Attempts /\ c.at \notin {"connect", "start"}
  BY <1>1, <1>2 DEF Stands, Before
<1>4. CASE Live(v, c)
  <2>1. Goes(c, Head(v, c))
    BY <1>4 DEF DevicesApplied
  <2>2. Landing(Proceed(Head(v, c)), calls, c, ~excused)
    BY <1>1, <1>3, HeadOn
  <2> QED
    BY <1>1, <2>1, <2>2, GoesFits DEF PreferenceInvariant
<1>5. CASE ~Live(v, c)
  <2>1. Goes(c, At(v, c, "returned"))
    BY <1>5 DEF DevicesApplied
  <2>2. Landing(Proceed(At(v, c, "returned")), calls, c, ~excused)
    BY <1>1, <1>5, ReturnedFits
  <2> QED
    BY <1>1, <2>1, <2>2, GoesFits DEF PreferenceInvariant
<1> QED
  BY <1>4, <1>5

\* What an answer of a round leads to, and what its failure does.
LEMMA Answered ==
    ASSUME PreferenceInvariant, NEW c \in calls, c.kind # "mode", NEW ok \in BOOLEAN, NEW r,
           Goes(c, IF ok THEN r ELSE At(v, c, "thrown")),
           excused' = (excused \/ (~ok /\ Unrepaired(v, c))),
           Landing(Proceed(r), calls, c, ~excused)
    PROVE  PreferenceInvariant'
<1>1. Good(v, calls, ~excused')
  BY Weaker DEF PreferenceInvariant
<1>2. CASE ok
  <2>1. Goes(c, r) /\ Good(v', calls', ~excused)
    BY <1>2, GoesFits
  <2> QED
    BY <2>1, Weaker DEF PreferenceInvariant
<1>3. CASE ~ok
  <2>1. Goes(c, At(v, c, "thrown"))
    BY <1>3
  <2>2. ~excused' => ~Unrepaired(v, c)
    BY <1>3
  <2>3. Landing(Proceed(At(v, c, "thrown")), calls, c, ~excused')
    BY <1>1, <2>2, FailsFits
  <2>4. Good(v', calls', ~excused')
    BY <2>1, <2>3, GoesFits
  <2> QED
    BY <2>4 DEF PreferenceInvariant
<1> QED
  BY <1>2, <1>3

LEMMA AudioAnswers ==
    ASSUME PreferenceInvariant, NEW c \in calls, NEW ok \in BOOLEAN, AudioAnswered(c, ok)
    PROVE  PreferenceInvariant'
<1>1. Good(v, calls, ~excused) /\ c.at = "audio" /\ Stands(c)
  BY DEF PreferenceInvariant, AudioAnswered, Good, Sound, Typed
<1>2. c.kind # "mode"
  BY <1>1 DEF Stands
<1>3. Landing(Proceed(AudioStarted(v, c)), calls, c, ~excused)
  <2>1. CASE Live(v, c)
    <3>1. Landing(AudioStarted(v, c), calls, c, ~excused)
      BY <1>1, <2>1, AudioStartedFits DEF Landing
    <3> QED
      BY <3>1, Stays
  <2>2. CASE ~Live(v, c)
    <3>1. AudioStarted(v, c) = At(v, c, "returned")
      BY <2>2 DEF AudioStarted
    <3> QED
      BY <1>1, <2>2, <3>1, ReturnedFits
  <2> QED
    BY <2>1, <2>2
<1>4. /\ Goes(c, IF ok THEN AudioStarted(v, c) ELSE At(v, c, "thrown"))
      /\ excused' = (excused \/ (~ok /\ Unrepaired(v, c)))
  BY DEF AudioAnswered
<1> QED
  BY <1>2, <1>3, <1>4, Answered

LEMMA MicrophoneAnswers ==
    ASSUME PreferenceInvariant, NEW c \in calls, NEW ok \in BOOLEAN, MicrophoneAnswered(c, ok)
    PROVE  PreferenceInvariant'
<1>1. Good(v, calls, ~excused) /\ c.at = "microphone" /\ Stands(c)
  BY DEF PreferenceInvariant, MicrophoneAnswered, Good, Sound, Typed
<1>2. c.kind # "mode"
  BY <1>1 DEF Stands
<1>3. Landing(Proceed(MicrophoneApplied(v, c)), calls, c, ~excused)
  <2>1. CASE Live(v, c)
    <3>1. Landing(MicrophoneApplied(v, c), calls, c, ~excused)
      BY <1>1, <2>1, MicrophoneAppliedFits DEF Landing
    <3> QED
      BY <3>1, Stays
  <2>2. CASE ~Live(v, c)
    <3>1. MicrophoneApplied(v, c) = At(v, c, "returned")
      BY <2>2 DEF MicrophoneApplied
    <3> QED
      BY <1>1, <2>2, <3>1, ReturnedFits
  <2> QED
    BY <2>1, <2>2
<1>4. /\ Goes(c, IF ok THEN MicrophoneApplied(v, c) ELSE At(v, c, "thrown"))
      /\ excused' = (excused \/ (~ok /\ Unrepaired(v, c)))
  BY DEF MicrophoneAnswered
<1> QED
  BY <1>2, <1>3, <1>4, Answered

LEMMA ShareAnswers ==
    ASSUME PreferenceInvariant, NEW c \in calls, ShareAnswered(c)
    PROVE  PreferenceInvariant'
<1>1. /\ Good(v, calls, ~excused) /\ Stands(c) /\ excused \in BOOLEAN
      /\ excused' = (excused \/ (c.at # "stop" /\ v.room # 0 /\ ~Live(v, c)))
  BY DEF PreferenceInvariant, ShareAnswered, Good, Sound, Typed
<1>2. Good(v, calls, ~excused')
  BY <1>1, Weaker
<1>3. c.at # "stop" => (~excused' => Live(v, c) \/ v.room = 0)
  BY <1>1
<1>4. CASE c.at = "pause"
  <2>1. Goes(c, Deafens(v, c))
    BY <1>4 DEF ShareAnswered
  <2>2. Landing(Deafens(v, c), calls, c, ~excused')
    BY <1>2, <1>3, <1>4, DeafensFits DEF Landing
  <2> QED
    BY <1>1, <2>1, <2>2, Stays, GoesFits DEF PreferenceInvariant
<1>5. CASE c.at = "resume"
  <2>1. Goes(c, Queued(v, c))
    BY <1>5 DEF ShareAnswered
  <2>2. Landing(Queued(v, c), calls, c, ~excused')
    BY <1>2, <1>3, <1>5, ResumedFits DEF Landing
  <2> QED
    BY <1>1, <2>1, <2>2, Stays, GoesFits DEF PreferenceInvariant
<1>6. CASE c.at = "stop"
  <2>1. Goes(c, Head(v, c))
    BY <1>6 DEF ShareAnswered
  <2>2. c.kind # "mode" /\ c.tries # Attempts
    BY <1>1, <1>6, MuteDeafenAssumption DEF Stands, Before
  <2>3. Landing(Proceed(Head(v, c)), calls, c, ~excused')
    BY <1>2, <1>6, <2>2, HeadOn
  <2> QED
    BY <1>1, <2>1, <2>3, GoesFits DEF PreferenceInvariant
<1> QED
  BY <1>4, <1>5, <1>6 DEF ShareAnswered

LEMMA RoomAnswers ==
    ASSUME PreferenceInvariant, NEW c \in calls, NEW ok \in BOOLEAN, RoomConnects(c, ok)
    PROVE  PreferenceInvariant'
<1>1. /\ Good(v, calls, ~excused) /\ Stands(c) /\ excused \in BOOLEAN /\ c.at = "connect"
      /\ excused' = (excused \/ (~ok /\ Unrepaired(v, c))) /\ IsEntry(c)
  BY DEF PreferenceInvariant, RoomConnects, Good, Sound, Typed
<1>2. Good(v, calls, ~excused')
  BY <1>1, Weaker
<1>3. c.kind = "join" /\ c.round # Attempts /\ SameCall(c, c)
  BY <1>1, MuteDeafenAssumption DEF Stands, SameCall
<1>4. CASE ~Live(v, c)
  <2>1. Goes(c, Done(v, c))
    BY <1>4 DEF RoomConnects
  <2>2. ~Owes(v, c)
    BY <1>4 DEF Owes
  <2>3. Good(v, calls \ {c}, ~excused')
    BY <1>2, <1>4, <2>2, DropFits
  <2>4. Landing(Done(v, c), calls, c, ~excused')
    BY <1>1, <2>3, DoneFits
  <2> QED
    BY <1>1, <2>1, <2>4, Stays, GoesFits DEF PreferenceInvariant
<1>5. CASE Live(v, c) /\ ok
  <2>1. Goes(c, JoinRound(v, c))
    BY <1>5 DEF RoomConnects
  <2>2. Landing(JoinRound(v, c), calls, c, ~excused')
    BY <1>2, <1>3, <1>5, JoinRoundFits
  <2> QED
    BY <1>1, <2>1, <2>2, Stays, GoesFits DEF PreferenceInvariant
<1>6. CASE Live(v, c) /\ ~ok
  <2>1. Goes(c, Thrown(v, c))
    BY <1>6 DEF RoomConnects
  <2>2. ~excused' => ~Unrepaired(v, c)
    BY <1>1, <1>6
  <2>3. Landing(Thrown(v, c), calls, c, ~excused')
    BY <1>2, <1>3, <2>2, ThrownFits
  <2> QED
    BY <1>1, <2>1, <2>3, Stays, GoesFits DEF PreferenceInvariant
<1> QED
  BY <1>4, <1>5, <1>6

\* The transmission mode changes, and calls that apply it come and go: every
\* call that reconciles will, and the microphone has it or needs it not.
LEMMA ModeFitsAgain ==
    ASSUME NEW w, NEW cs, NEW ok, Good(w, cs, ok), NEW x \in State, w.revision < x.revision,
           x.mic = w.mic, x.deaf = w.deaf, x.overlay = w.overlay, x.muted = w.muted,
           x.deafened = w.deafened, x.syncError = w.syncError, SameSession(w, x),
           x.pending = w.pending, x.told = w.told,
           NEW rest, \A e \in cs : e \in rest \/ e.kind = "mode",
           \A e \in rest : e \in cs \/ (/\ IsEntry(e) /\ Remembers(x, e) /\ Stands(e) /\ e.kind = "mode"
                                        /\ x.room # 0),
           \/ x.askedMode = x.mode
           \/ ~(x.status = "connected" /\ ~w.muted /\ ~w.deafened /\ ~w.guildMuted)
    PROVE  Good(x, rest, ok)
<1>1. /\ x.room = w.room /\ x.session = w.session /\ x.status = w.status /\ x.asked = w.asked
      /\ x.broken = w.broken /\ x.flushing = w.flushing /\ x.posts = w.posts
      /\ x.guildMuted = w.guildMuted /\ x.ruled = w.ruled /\ x.share = w.share
  BY DEF SameSession
<1>2. Sound(w, cs) /\ w \in State
  BY DEF Good, Sound, Typed
<1>3. Sound(x, cs)
  <2>1. x.status \notin {"idle", "error"} => x.guildMuted = x.ruled
    BY <1>1, <1>2 DEF Sound, SessionFits
  <2> QED
    BY <1>1, <1>2, <2>1, BumpedSound
<1>4. \A e \in cs : ~Current(x, e) /\ (Live(x, e) /\ e.kind # "mode" => Owes(x, e))
  BY <1>1, <1>2, Bumped
<1>5. Joining(x, rest) <=> Joining(x, cs)
  BY DEF Joining
<1>6. Joining(x, cs) <=> Joining(w, cs)
  BY <1>1 DEF Joining, Live
<1>7. Sound(x, rest)
  <2>1. Typed(x, rest)
    BY <1>3 DEF Sound, Typed
  <2>2. SessionFits(x, rest)
    BY <1>3, <1>5 DEF Sound, SessionFits
  <2> QED
    BY <1>3, <2>1, <2>2 DEF Sound
<1>8. ok => Ready(x, rest)
  <2>1. \A e \in rest : ~Current(x, e)
    BY <1>4 DEF Current, Stands, Within
  <2>2. ok => ShareEnds(x)
    BY <1>1 DEF Good, Ready, ShareEnds
  <2> QED
    BY <2>1, <2>2 DEF Ready, RoundsFit, RoundFits
<1>9. ok => Fits(x, rest)
  <2>1. SUFFICES ASSUME ok, x.room # 0, \A f \in rest : ~Owes(x, f)
                 PROVE  /\ MicrophoneFits(x, rest) /\ ModeFits(x, rest)
                        /\ ShownFits(x, rest) /\ ShareFits(x, rest) /\ ToldFits(x, rest)
    BY DEF Fits
  <2>2. ASSUME NEW f \in cs
        PROVE  ~Owes(w, f) /\ ~Current(w, f) /\ (Live(w, f) => f.kind # "join")
    <3>1. Live(w, f) => f.kind = "mode"
      <4>1. Live(x, f) <=> Live(w, f)
        BY <1>1 DEF Live
      <4> QED
        BY <4>1, <1>4, <2>1
    <3>2. f.kind = "mode" => f.at \in {"mode", "mode-back"}
      BY <1>2 DEF Sound, Typed, Stands
    <3> QED
      BY <3>1, <3>2 DEF Owes, Current, Before, Within
  <2>3. ~Joining(w, cs) /\ \A places : ~WaitsAt(w, cs, places)
    BY <2>2 DEF Joining, WaitsAt
  <2>4. /\ MicrophoneFits(w, cs) /\ ShownFits(w, cs) /\ ShareFits(w, cs) /\ ToldFits(w, cs)
        /\ ModeFits(w, cs)
    BY <2>1, <2>2, <1>1 DEF Good, Fits
  <2>5. EffectiveDeafened(x) = EffectiveDeafened(w)
    BY DEF EffectiveDeafened
  <2>6. ShouldEnableMicrophone(x) = ShouldEnableMicrophone(w)
    BY <1>1, <2>5 DEF ShouldEnableMicrophone
  <2>7. \A value : ToldLast(x, value) <=> ToldLast(w, value)
    BY <1>1 DEF ToldLast
  <2>8. MicrophoneFits(x, rest)
    BY <2>3, <2>4, <2>6, <1>1 DEF MicrophoneFits
  <2>9. ShownFits(x, rest) /\ ShareFits(x, rest)
    BY <2>3, <2>4, <2>5, <2>6, <1>1 DEF ShownFits, ShareFits
  <2>10. ToldFits(x, rest)
    BY <2>3, <2>4, <2>5, <2>7, <1>1 DEF ToldFits
  <2>11. ModeFits(x, rest)
    <3>1. CASE x.askedMode = x.mode
      BY <3>1 DEF ModeFits
    <3>2. CASE x.status = "reconnecting"
      BY <3>2, <1>5, <1>6, <2>3 DEF ModeFits
    <3>3. CASE x.status = "connected" /\ (w.muted \/ w.deafened \/ w.guildMuted)
      <4>1. ShouldEnableMicrophone(w) = FALSE
        BY <1>2, <2>3, <2>4, <3>3, PreferenceTypes DEF ShownFits, ShouldEnableMicrophone
      <4>2. w.asked = FALSE
        BY <4>1, <2>3, <2>4 DEF MicrophoneFits
      <4> QED
        BY <4>2, <1>1 DEF ModeFits
    <3>4. x.status \in {"reconnecting", "connected"}
      BY <1>1, <1>2, <2>1, <2>3 DEF Sound, SessionFits, State
    <3> QED
      BY <3>1, <3>2, <3>3, <3>4
  <2> QED
    BY <2>8, <2>9, <2>10, <2>11
<1> QED
  BY <1>7, <1>8, <1>9 DEF Good

LEMMA ModeSet ==
    ASSUME NEW w \in State, NEW mode \in Modes
    PROVE  LET x == SetMode(w, mode) IN
           /\ x \in State /\ SameSession(w, x) /\ w.revision < x.revision /\ x.mode = mode
           /\ x.mic = w.mic /\ x.deaf = w.deaf /\ x.overlay = w.overlay /\ x.muted = w.muted
           /\ x.deafened = w.deafened /\ x.syncError = w.syncError
           /\ x.pending = w.pending /\ x.told = w.told /\ x.changing = w.changing
           /\ x.askedMode = w.askedMode
<1> DEFINE next == w.revision + 1
<1>1. next \in Nat /\ w.revision < next
  BY DEF State
<1>2. SetMode(w, mode) = [w EXCEPT !.mode = mode, !.revision = next]
  BY DEF SetMode
<1> HIDE DEF next
<1>3. LET x == [w EXCEPT !.mode = mode, !.revision = next] IN
      /\ x \in State /\ SameSession(w, x) /\ x.revision = next /\ x.mode = mode
      /\ x.mic = w.mic /\ x.deaf = w.deaf /\ x.overlay = w.overlay /\ x.muted = w.muted
      /\ x.deafened = w.deafened /\ x.syncError = w.syncError
      /\ x.pending = w.pending /\ x.told = w.told /\ x.changing = w.changing
      /\ x.askedMode = w.askedMode
  BY <1>1 DEF State, SameSession
<1> QED
  BY <1>1, <1>2, <1>3

LEMMA ModeAnswers ==
    ASSUME PreferenceInvariant, NEW c \in calls, NEW ok \in BOOLEAN, ModeAnswered(c, ok)
    PROVE  PreferenceInvariant'
<1>1. /\ Good(v, calls, ~excused) /\ excused \in BOOLEAN /\ excused' = excused
      /\ c.at = "mode" /\ IsEntry(c) /\ Stands(c) /\ Remembers(v, c) /\ v \in State
  BY DEF PreferenceInvariant, ModeAnswered, Good, Sound, Typed
<1>2. c.kind = "mode"
  BY <1>1 DEF Stands
<1>3. CASE ok \/ ~Live(v, c)
  <2>1. Goes(c, Done(v, c))
    BY <1>3 DEF ModeAnswered
  <2>2. ~Owes(v, c)
    BY <1>1 DEF Owes, Before, Within
  <2>3. Good(v, calls \ {c}, ~excused)
    BY <1>1, <1>2, <2>2, DropFits
  <2>4. Landing(Done(v, c), calls, c, ~excused)
    BY <1>1, <2>3, DoneFits
  <2> QED
    BY <1>1, <2>1, <2>4, Stays, GoesFits DEF PreferenceInvariant
<1>4. CASE ~ok /\ Live(v, c)
  <2> DEFINE back == SetMode(v, c.back.mode)
             x == [back EXCEPT !.askedMode = back.mode]
             e == [c EXCEPT !.at = "mode-back"]
             rest == (calls \ {c}) \cup {e}
  <2>1. Goes(c, At(x, c, "mode-back"))
    BY <1>4 DEF ModeAnswered
  <2>2. At(x, c, "mode-back").w = x /\ At(x, c, "mode-back").c = e
    BY DEF At, With
  <2>3. /\ IsEntry(e) /\ e.at = "mode-back" /\ e.kind = "mode" /\ e.session = c.session
        /\ e.tries = c.tries /\ e.again = c.again
    BY <1>1, <1>2 DEF IsEntry, Places
  <2>4. c.back.mode \in Modes
    BY <1>1 DEF IsEntry
  <2>5. /\ back \in State /\ SameSession(v, back) /\ v.revision < back.revision
        /\ back.mode = c.back.mode
        /\ back.mic = v.mic /\ back.deaf = v.deaf /\ back.overlay = v.overlay
        /\ back.muted = v.muted /\ back.deafened = v.deafened /\ back.syncError = v.syncError
        /\ back.pending = v.pending /\ back.told = v.told
    BY <1>1, <2>4, ModeSet
  <2> HIDE DEF back, e
  <2>6. /\ x \in State /\ SameSession(v, x) /\ v.revision < x.revision
        /\ x.askedMode = x.mode
        /\ x.mic = v.mic /\ x.deaf = v.deaf /\ x.overlay = v.overlay
        /\ x.muted = v.muted /\ x.deafened = v.deafened /\ x.syncError = v.syncError
        /\ x.pending = v.pending /\ x.told = v.told
    BY <2>4, <2>5 DEF State, SameSession
  <2> HIDE DEF x
  <2>7. x.room # 0
    BY <1>1, <1>4, <2>6 DEF SameSession, Live, Remembers, State, IsEntry
  <2>8. Remembers(x, e) /\ Stands(e)
    BY <1>1, <1>2, <2>3, <2>6 DEF Remembers, Stands, Before, Within, SameSession
  <2>9. \A f \in calls : f \in rest \/ f.kind = "mode"
    BY <1>2
  <2>10. \A f \in rest : f \in calls \/ (/\ IsEntry(f) /\ Remembers(x, f) /\ Stands(f) /\ f.kind = "mode"
                                         /\ x.room # 0)
    BY <2>3, <2>7, <2>8
  <2>11. (calls \ {c}) \cup (IF e.at = "done" THEN {} ELSE {e}) = rest
    BY <2>3
  <2> HIDE DEF rest
  <2>12. Good(x, rest, ~excused)
    BY <1>1, <2>6, <2>9, <2>10, ModeFitsAgain
  <2>13. Landing(At(x, c, "mode-back"), calls, c, ~excused)
    BY <2>2, <2>3, <2>11, <2>12 DEF Landing
  <2> QED
    BY <1>1, <2>1, <2>13, Stays, GoesFits DEF PreferenceInvariant
<1> QED
  BY <1>3, <1>4

LEMMA ModeBackAnswers ==
    ASSUME PreferenceInvariant, NEW c \in calls, NEW ok \in BOOLEAN, ModeBackAnswered(c, ok)
    PROVE  PreferenceInvariant'
<1>1. /\ Good(v, calls, ~excused) /\ excused \in BOOLEAN /\ excused' = (excused \/ ~ok)
      /\ c.at = "mode-back" /\ IsEntry(c) /\ Stands(c) /\ v \in State
  BY DEF PreferenceInvariant, ModeBackAnswered, Good, Sound, Typed
<1>2. c.kind = "mode"
  BY <1>1 DEF Stands
<1>3. ~Owes(v, c)
  BY <1>1 DEF Owes, Before, Within
<1> DEFINE x == [v EXCEPT !.muted = IF ok THEN @ ELSE ~v.asked]
<1>4. Goes(c, Done(x, c))
  BY DEF ModeBackAnswered
<1>5. Good(x, calls \ {c}, ~excused')
  <2>1. CASE ok
    <3>1. x = v
      BY <1>1, <2>1 DEF State
    <3> HIDE DEF x
    <3>2. Good(v, calls \ {c}, ~excused)
      BY <1>1, <1>2, <1>3, DropFits
    <3> QED
      BY <1>1, <2>1, <3>1, <3>2
  <2>2. CASE ~ok
    <3>1. /\ x \in State /\ SamePreferences(v, x) /\ SameSession(v, x)
      BY <1>1, <2>2 DEF State, SamePreferences, SameSession
    <3> HIDE DEF x
    <3>2. Sound(x, calls)
      BY <1>1, <3>1, SameToAll DEF Good, Sound, Typed, SessionFits, PostsFit, SameSession
    <3>3. ~(~excused')
      BY <1>1, <2>2
    <3>4. Good(x, calls, ~excused')
      BY <3>2, <3>3 DEF Good
    <3> QED
      BY <1>2, <3>3, <3>4, DropSound
  <2> QED
    BY <2>1, <2>2
<1> HIDE DEF x
<1>6. Landing(Done(x, c), calls, c, ~excused')
  BY <1>1, <1>5, DoneFits
<1>7. Good(v', calls', ~excused')
  BY <1>4, <1>6, Stays, GoesFits
<1> QED
  BY <1>1, <1>7 DEF PreferenceInvariant

\* The state once a report is answered, and what is noted of it.
Freed(w, p, last) ==
    [w EXCEPT !.posts = @ \ {p}, !.told = last, !.flushing = IF @ = p.session THEN 0 ELSE @]
Noted(w, p, last, ok) ==
    [Freed(w, p, last) EXCEPT !.syncError = ~ok, !.pending = IF ok THEN @ ELSE {w.deafened}]

\* A report of the session is answered: what waited goes next.
LEMMA ReportAnswered ==
    ASSUME NEW w, NEW cs, NEW done, Good(w, cs, done), NEW p \in w.posts, NEW ok \in BOOLEAN,
           p.session = w.session, NEW last \in BOOLEAN, ok => last = p.value
    PROVE  /\ ok /\ w.pending # {} =>
                Good(QueueSync(Noted(w, p, last, ok), CHOOSE x \in w.pending : TRUE), cs, done)
           /\ ~(ok /\ w.pending # {}) => Good(Noted(w, p, last, ok), cs, done)
<1> DEFINE freed == [w EXCEPT !.posts = @ \ {p}, !.told = last,
                              !.flushing = IF @ = p.session THEN 0 ELSE @]
           noted == [freed EXCEPT !.syncError = ~ok, !.pending = IF ok THEN @ ELSE {w.deafened}]
           next == CHOOSE x \in w.pending : TRUE
           x == IF ok /\ w.pending # {} THEN QueueSync(noted, next) ELSE noted
<1>1. w \in State /\ PostsFit(w) /\ w.room \in {0, w.session} /\ w.session \in Nat /\ w.session # 0
  <2>1. w \in State /\ PostsFit(w) /\ w.room \in {0, w.session}
    BY DEF Good, Sound, Typed
  <2>2. w.session \in Nat /\ p.session \in 1..w.session
    BY <2>1 DEF PostsFit, State
  <2> QED
    BY <2>1, <2>2
<1>2. w.flushing = w.session
  BY <1>1 DEF PostsFit
<1>3. /\ noted \in State /\ noted.posts = w.posts \ {p} /\ noted.told = last /\ noted.flushing = 0
      /\ noted.syncError = ~ok /\ noted.pending = (IF ok THEN w.pending ELSE {w.deafened})
      /\ noted.mic = w.mic /\ noted.deaf = w.deaf /\ noted.mode = w.mode /\ noted.overlay = w.overlay
      /\ noted.muted = w.muted /\ noted.deafened = w.deafened /\ noted.guildMuted = w.guildMuted
      /\ noted.revision = w.revision /\ noted.room = w.room
      /\ noted.session = w.session /\ noted.status = w.status /\ noted.broken = w.broken
      /\ noted.ruled = w.ruled /\ noted.asked = w.asked /\ noted.askedMode = w.askedMode
      /\ noted.share = w.share
  <2> DEFINE posts == w.posts \ {p}
             flushing == IF w.flushing = p.session THEN 0 ELSE w.flushing
             pending == IF ok THEN w.pending ELSE {w.deafened}
  <2>1. posts \in SUBSET [session : Nat, value : BOOLEAN] /\ flushing = 0
        /\ pending \in {{}, {TRUE}, {FALSE}} /\ w.deafened \in BOOLEAN
    BY <1>1, <1>2 DEF State
  <2>2. /\ freed = [w EXCEPT !.posts = posts, !.told = last, !.flushing = flushing]
        /\ freed.pending = w.pending
    BY <1>1 DEF State
  <2>3. noted = [freed EXCEPT !.syncError = ~ok, !.pending = pending]
    BY <2>2
  <2> HIDE DEF posts, flushing, pending, freed, noted
  <2>4. /\ noted \in State /\ noted.posts = posts /\ noted.told = last /\ noted.flushing = flushing
        /\ noted.syncError = ~ok /\ noted.pending = pending
        /\ noted.mic = w.mic /\ noted.deaf = w.deaf /\ noted.mode = w.mode
        /\ noted.overlay = w.overlay
        /\ noted.muted = w.muted /\ noted.deafened = w.deafened /\ noted.guildMuted = w.guildMuted
        /\ noted.revision = w.revision /\ noted.room = w.room
        /\ noted.session = w.session /\ noted.status = w.status /\ noted.broken = w.broken
        /\ noted.ruled = w.ruled /\ noted.asked = w.asked /\ noted.askedMode = w.askedMode
        /\ noted.share = w.share
    <3>1. flushing \in Nat
      BY <2>1
    <3>2. /\ freed \in State /\ freed.posts = posts /\ freed.told = last
          /\ freed.flushing = flushing
          /\ freed.mic = w.mic /\ freed.deaf = w.deaf /\ freed.mode = w.mode
          /\ freed.overlay = w.overlay /\ freed.muted = w.muted
          /\ freed.deafened = w.deafened /\ freed.guildMuted = w.guildMuted
          /\ freed.revision = w.revision /\ freed.room = w.room
          /\ freed.session = w.session /\ freed.status = w.status /\ freed.broken = w.broken
          /\ freed.ruled = w.ruled /\ freed.asked = w.asked /\ freed.askedMode = w.askedMode
          /\ freed.share = w.share
      BY <1>1, <2>1, <2>2, <3>1 DEF State
    <3>3. noted \in State
      <4> DEFINE failed == ~ok
      <4>1. failed \in BOOLEAN /\ noted = [freed EXCEPT !.syncError = failed, !.pending = pending]
        BY <2>3
      <4> HIDE DEF failed
      <4> QED
        BY <2>1, <3>2, <4>1 DEF State
    <3>4. /\ noted.posts = freed.posts /\ noted.told = freed.told
          /\ noted.flushing = freed.flushing
          /\ noted.syncError = ~ok /\ noted.pending = pending
          /\ noted.mic = freed.mic /\ noted.deaf = freed.deaf /\ noted.mode = freed.mode
          /\ noted.overlay = freed.overlay /\ noted.muted = freed.muted
          /\ noted.deafened = freed.deafened /\ noted.guildMuted = freed.guildMuted
          /\ noted.revision = freed.revision /\ noted.room = freed.room
          /\ noted.session = freed.session /\ noted.status = freed.status
          /\ noted.broken = freed.broken /\ noted.ruled = freed.ruled
          /\ noted.asked = freed.asked /\ noted.askedMode = freed.askedMode
          /\ noted.share = freed.share
      BY <2>3, <3>2 DEF State
    <3> QED
      BY <3>2, <3>3, <3>4
  <2> QED
    BY <2>1, <2>4 DEF posts, pending
<1> HIDE DEF freed, noted
<1>4. w.pending # {} => next \in BOOLEAN /\ w.pending = {next}
  BY <1>1 DEF State
<1> HIDE DEF next
<1>5. PostsFit(noted)
  BY <1>1, <1>3 DEF PostsFit
<1>6. noted.room \in {0, noted.session}
  BY <1>1, <1>3
<1>7. /\ x \in State /\ PostsFit(x)
      /\ x.mic = w.mic /\ x.deaf = w.deaf /\ x.mode = w.mode /\ x.overlay = w.overlay
      /\ x.muted = w.muted /\ x.deafened = w.deafened /\ x.guildMuted = w.guildMuted
      /\ x.revision = w.revision /\ x.room = w.room
      /\ x.session = w.session /\ x.status = w.status /\ x.broken = w.broken
      /\ x.ruled = w.ruled /\ x.asked = w.asked /\ x.askedMode = w.askedMode
      /\ x.share = w.share
      /\ (ok /\ w.pending # {} /\ w.room # 0) => ToldLast(x, next)
      /\ ~(ok /\ w.pending # {}) => x = noted
  <2>1. CASE ok /\ w.pending # {}
    <3>1. x = QueueSync(noted, next)
      BY <2>1
    <3> HIDE DEF x
    <3> QED
      BY <1>3, <1>4, <1>5, <1>6, <2>1, <3>1, QueueKeeps
  <2>2. CASE ~(ok /\ w.pending # {})
    <3>1. x = noted
      BY <2>2
    <3> HIDE DEF x
    <3> QED
      BY <1>3, <1>5, <2>2, <3>1
  <2> QED
    BY <2>1, <2>2
<1> HIDE DEF x
<1>8. SamePreferences(w, x)
  BY <1>7 DEF SamePreferences
<1>9. Sound(x, cs)
  BY <1>7, <1>8, SameToAll DEF Good, Sound, Typed, SessionFits
<1>10. done => Ready(x, cs)
  BY <1>7, <1>8, SameToAll DEF Good, Ready, ShareEnds, RoundsFit, RoundFits
<1>11. done => Fits(x, cs)
  <2>1. SUFFICES ASSUME done, x.room # 0, \A f \in cs : ~Owes(x, f)
                 PROVE  /\ MicrophoneFits(x, cs) /\ ModeFits(x, cs)
                        /\ ShownFits(x, cs) /\ ShareFits(x, cs) /\ ToldFits(x, cs)
    BY DEF Fits
  <2>2. /\ MicrophoneFits(w, cs) /\ ModeFits(w, cs) /\ ShownFits(w, cs) /\ ShareFits(w, cs)
        /\ ToldFits(w, cs)
    BY <2>1, <1>7, <1>8, SameToAll DEF Good, Fits
  <2>3. /\ MicrophoneFits(x, cs) /\ ModeFits(x, cs) /\ ShownFits(x, cs) /\ ShareFits(x, cs)
    BY <2>2, <1>7, <1>8, SameToAll DEF MicrophoneFits, ModeFits, ShownFits, ShareFits
  <2>4. ToldFits(x, cs)
    <3>1. EffectiveDeafened(x) = EffectiveDeafened(w)
      BY <1>8, SameToAll
    <3>2. CASE ~ok
      BY <3>2, <1>1, <1>3, <1>7 DEF ToldFits
    <3>3. CASE ok /\ WaitsAt(w, cs, {"audio", "microphone", "pause", "resume"})
      BY <3>3, <1>8, SameToAll DEF ToldFits
    <3>4. CASE ok /\ ToldLast(w, EffectiveDeafened(w)) /\ w.pending # {}
      <4>1. w.pending = {EffectiveDeafened(w)}
        BY <3>4, <1>2 DEF ToldLast
      <4>2. next = EffectiveDeafened(w)
        BY <4>1, <1>4
      <4>3. w.room # 0
        BY <2>1, <1>7
      <4> QED
        BY <3>1, <3>4, <4>2, <4>3, <1>7 DEF ToldFits
    <3>5. CASE ok /\ ToldLast(w, EffectiveDeafened(w)) /\ w.pending = {}
      <4>1. p.value = EffectiveDeafened(w)
        BY <3>5, <1>2 DEF ToldLast
      <4>2. x = noted
        BY <3>5, <1>7
      <4>3. ToldLast(x, EffectiveDeafened(w))
        BY <3>5, <4>1, <4>2, <1>1, <1>3 DEF ToldLast
      <4> QED
        BY <3>1, <4>3 DEF ToldFits
    <3>6. ~(w.syncError /\ w.flushing # w.session)
      BY <1>2
    <3> QED
      BY <2>2, <3>2, <3>3, <3>4, <3>5, <3>6 DEF ToldFits
  <2> QED
    BY <2>3, <2>4
<1>12. Good(x, cs, done)
  BY <1>9, <1>10, <1>11 DEF Good
<1> QED
  BY <1>12 DEF x, noted, freed, next, Noted, Freed

LEMMA PostAnswers ==
    ASSUME PreferenceInvariant, NEW p \in v.posts, NEW ok \in BOOLEAN, Posted(p, ok)
    PROVE  PreferenceInvariant'
<1>1. /\ Good(v, calls, ~excused) /\ excused \in BOOLEAN /\ v \in State
      /\ excused' = (excused \/ p.session # v.session) /\ calls' = calls
  BY DEF PreferenceInvariant, Posted, Good, Sound, Typed
<1>2. p.value \in BOOLEAN /\ v.told \in BOOLEAN
  BY <1>1 DEF State
<1>3. PICK last \in IF ok THEN {p.value} ELSE {p.value, v.told} :
        v' = IF p.session # v.session THEN Freed(v, p, last)
             ELSE IF ok /\ v.pending # {}
             THEN QueueSync(Noted(v, p, last, ok), CHOOSE x \in v.pending : TRUE)
             ELSE Noted(v, p, last, ok)
  BY DEF Posted, Freed, Noted
<1>4. last \in BOOLEAN /\ (ok => last = p.value)
  BY <1>2
<1>5. CASE p.session = v.session
  <2>1. Good(v', calls, ~excused)
    BY <1>1, <1>3, <1>4, <1>5, ReportAnswered
  <2> QED
    BY <1>1, <1>5, <2>1 DEF PreferenceInvariant
<1>6. CASE p.session # v.session
  <2> DEFINE x == [v EXCEPT !.posts = @ \ {p}, !.told = last,
                            !.flushing = IF @ = p.session THEN 0 ELSE @]
  <2>1. v' = x
    BY <1>3, <1>6 DEF Freed
  <2>2. /\ x \in State /\ SamePreferences(v, x) /\ x.posts = v.posts \ {p}
        /\ x.flushing = (IF v.flushing = p.session THEN 0 ELSE v.flushing)
        /\ x.status = v.status /\ x.asked = v.asked /\ x.broken = v.broken /\ x.ruled = v.ruled
    <3> DEFINE posts == v.posts \ {p}
               flushing == IF v.flushing = p.session THEN 0 ELSE v.flushing
    <3>1. posts \in SUBSET [session : Nat, value : BOOLEAN] /\ flushing \in Nat
      BY <1>1 DEF State
    <3>2. x = [v EXCEPT !.posts = posts, !.told = last, !.flushing = flushing]
      OBVIOUS
    <3> HIDE DEF posts, flushing, x
    <3>3. /\ x \in State /\ SamePreferences(v, x) /\ x.posts = posts /\ x.flushing = flushing
          /\ x.status = v.status /\ x.asked = v.asked /\ x.broken = v.broken /\ x.ruled = v.ruled
      BY <1>1, <1>4, <3>1, <3>2 DEF State, SamePreferences
    <3> QED
      BY <3>3 DEF posts, flushing
  <2> HIDE DEF x
  <2>3. PostsFit(x)
    <3>1. v.session # 0 => (x.flushing = x.session <=> v.flushing = v.session)
      BY <1>1, <1>6, <2>2 DEF SamePreferences, State
    <3>2. x.flushing <= x.session
      BY <1>1, <2>2 DEF SamePreferences, State, Good, Sound, PostsFit
    <3>3. (\E q \in x.posts : q.session = v.session) <=> \E q \in v.posts : q.session = v.session
      BY <1>6, <2>2
    <3>4. PostsFit(v) /\ x.session = v.session
      BY <1>1, <2>2 DEF SamePreferences, Good, Sound
    <3> QED
      BY <2>2, <3>1, <3>2, <3>3, <3>4 DEF PostsFit
  <2>4. Sound(x, calls)
    BY <1>1, <2>2, <2>3, SameToAll DEF Good, Sound, Typed, SessionFits, SamePreferences
  <2> QED
    BY <1>1, <1>6, <2>1, <2>4 DEF PreferenceInvariant, Good
<1> QED
  BY <1>5, <1>6

-----------------------------------------------------------------------------
(* The events *)

LEMMA NewCall ==
    ASSUME v \in State, NEW k \in Kinds
    PROVE  LET c == Call(k) IN
           /\ IsEntry(c) /\ c.kind = k /\ c.session = v.session /\ c.at = "start"
           /\ c.tries = 0 /\ c.round = 0 /\ c.again = FALSE
<1> DEFINE i == CHOOSE j \in 0..(MaxActs + MaxSessions) : \A c \in calls : c.id # j
           back == [mic |-> v.mic, deaf |-> v.deaf, mode |-> v.mode]
           c == [id |-> i, kind |-> k, session |-> v.session, at |-> "start", revision |-> 0,
                 outer |-> 0, deaf |-> FALSE, mic |-> FALSE, tries |-> 0, round |-> 0,
                 waits |-> 0, again |-> FALSE, back |-> back]
<1>1. Call(k) = c
  BY DEF Call
<1>2. back \in [mic : BOOLEAN, deaf : BOOLEAN, mode : Modes] /\ v.session \in Nat
  BY DEF State
<1> HIDE DEF i, back
<1>3. IsEntry(c)
  BY <1>2 DEF IsEntry, Places
<1> QED
  BY <1>1, <1>3

\* A reconciliation begins.
LEMMA BeginsHead ==
    ASSUME v \in State, NEW k \in Kinds \ {"join", "mode"}, NEW x, NEW ok, Sound(x, calls),
           ok => Ready(x, calls), x.session = v.session, x.room # 0,
           Begin(Head(x, Call(k)))
    PROVE  Good(v', calls', ok)
<1> DEFINE d == Call(k)
           e == Head(x, d).c
           rest == calls \cup {e}
<1>1. /\ IsEntry(d) /\ d.kind = k /\ d.session = v.session /\ d.at = "start"
      /\ d.tries = 0 /\ d.again = FALSE
  BY NewCall
<1>2. x \in State /\ x.room \in {0, x.session} /\ Attempts \in Nat \ {0}
  BY MuteDeafenAssumption DEF Sound, Typed
<1>3. Goes(e, Head(x, d))
  BY DEF Begin
<1> HIDE DEF d
<1>4. Live(x, d) /\ d.tries # Attempts
  BY <1>1, <1>2 DEF Live
<1>5. e.at \in {"audio", "microphone"} /\ e.kind = k
  BY <1>1, <1>2, <1>4, HeadAt
<1>6. Remembers(x, d)
  <2>1. x.session \in Nat /\ x.session # 0
    BY <1>2 DEF State
  <2>2. d.session \in 1..x.session
    BY <1>1, <2>1
  <2> QED
    BY <1>1, <1>2, <2>2 DEF Remembers, Within
<1>7. Proceed(Head(x, d)) = Head(x, d)
  BY <1>5 DEF Proceed
<1>8. (calls \ {e}) \cup (IF e.at = "done" THEN {} ELSE {e}) = rest
  BY <1>5
<1>9. Joining(x, calls) => Joining(x, rest)
  BY DEF Joining
<1> HIDE DEF e
<1>10. e \in rest /\ rest \subseteq calls \cup {e}
  OBVIOUS
<1> HIDE DEF rest
<1>11. Good(Head(x, d).w, rest, ok)
  BY <1>1, <1>4, <1>6, <1>9, <1>10, HeadFits DEF e
<1>12. v' = Kept(Head(x, d).w, rest) /\ calls' = rest
  BY <1>3, <1>7, <1>8 DEF Goes, e
<1> QED
  BY <1>11, <1>12, KeptFits

\* A toggle of the user.
LEMMA Toggles ==
    ASSUME PreferenceInvariant, NEW k \in {"mute", "deafen"}, NEW w \in State, SameSession(v, w),
           v.revision < w.revision, Toggle(k, w)
    PROVE  PreferenceInvariant'
<1>1. /\ Good(v, calls, ~excused) /\ excused \in BOOLEAN /\ v \in State /\ excused' = excused
      /\ Sound(v, calls)
  BY DEF PreferenceInvariant, Toggle, Good, Sound, Typed
<1>2. ASSUME NEW x \in State, SameSession(v, x), v.revision < x.revision
      PROVE  Sound(x, calls) /\ (~excused => Ready(x, calls))
  <2>1. x.status \notin {"idle", "error"} => x.guildMuted = x.ruled
    BY <1>1, <1>2 DEF Sound, SessionFits, SameSession
  <2>2. Sound(x, calls) /\ RoundsFit(x, calls)
    BY <1>1, <1>2, <2>1, BumpedSound DEF SameSession
  <2> QED
    BY <1>1, <1>2, <2>2 DEF Good, Ready, ShareEnds, SameSession
<1>3. CASE Connected(v)
  <2> DEFINE x == [w EXCEPT !.changing = @ \cup {k}]
  <2>1. Begin(Head(x, Call(k)))
    BY <1>3 DEF Toggle
  <2>2. x \in State /\ SameSession(v, x) /\ v.revision < x.revision
    BY DEF State, SameSession
  <2> HIDE DEF x
  <2>3. x.room # 0 /\ x.session = v.session
    BY <1>3, <2>2 DEF Connected, SameSession
  <2>4. Sound(x, calls) /\ (~excused => Ready(x, calls))
    BY <1>2, <2>2
  <2>5. k \in Kinds \ {"join", "mode"}
    BY DEF Kinds
  <2>6. Good(v', calls', ~excused)
    BY <1>1, <2>1, <2>3, <2>4, <2>5, BeginsHead
  <2> QED
    BY <1>1, <2>6 DEF PreferenceInvariant
<1>4. CASE ~Connected(v)
  <2> DEFINE quiet == w.deaf \/ ~w.mic
             x == Shows(w, w.deaf, quiet)
  <2>1. v' = Kept(x, calls) /\ calls' = calls
    BY <1>4 DEF Toggle, Shows
  <2>7. w.deaf \in BOOLEAN /\ quiet \in BOOLEAN
    BY DEF State
  <2> HIDE DEF quiet
  <2>2. x \in State /\ SameSession(v, x) /\ v.revision < x.revision
    BY <2>7, ShownTyped DEF ShownApart, SameSession
  <2> HIDE DEF x
  <2>3. Sound(x, calls) /\ (~excused => Ready(x, calls))
    BY <1>2, <2>2
  <2>4. Fits(x, calls)
    <3>1. CASE x.room = 0
      BY <3>1 DEF Fits
    <3>2. CASE x.room # 0
      <4>1. v.status = "connecting" /\ v.room # 0
        BY <1>4, <2>2, <3>2 DEF Connected, SameSession
      <4>2. PICK e \in calls : Live(v, e) /\ e.kind = "join"
        BY <1>1, <4>1 DEF Sound, SessionFits, Joining
      <4>3. Live(x, e)
        BY <2>2, <4>2 DEF Live, SameSession
      <4>4. Owes(x, e)
        BY <1>1, <2>2, <4>2, <4>3, Bumped DEF SameSession
      <4> QED
        BY <4>4 DEF Fits
    <3> QED
      BY <3>1, <3>2
  <2>5. Good(x, calls, ~excused)
    BY <2>3, <2>4 DEF Good
  <2> QED
    BY <1>1, <2>1, <2>5, KeptFits DEF PreferenceInvariant
<1> QED
  BY <1>3, <1>4

LEMMA MuteToggles ==
    ASSUME PreferenceInvariant, UserToggledMute
    PROVE  PreferenceInvariant'
<1> DEFINE w == IF v.deaf THEN SetMicrophone(SetDeafened(v, FALSE), TRUE) ELSE SetMicrophone(v, ~v.mic)
<1>1. v \in State /\ v.revision \in Nat
  BY DEF PreferenceInvariant, Good, Sound, Typed, State
<1>2. w \in State /\ SameSession(v, w) /\ v.revision < w.revision
  <2>1. v.revision < v.revision + 1
    BY <1>1
  <2>2. CASE v.deaf
    BY <1>1, <2>1, <2>2, BothSet
  <2>3. CASE ~v.deaf
    BY <1>1, <2>1, <2>3, MicrophoneSet
  <2> QED
    BY <2>2, <2>3
<1>3. Toggle("mute", w)
  BY DEF UserToggledMute
<1> HIDE DEF w
<1> QED
  BY <1>2, <1>3, Toggles

LEMMA DeafenToggles ==
    ASSUME PreferenceInvariant, UserToggledDeafen
    PROVE  PreferenceInvariant'
<1> DEFINE w == SetDeafened(v, ~v.deaf)
<1>1. v \in State /\ v.revision \in Nat
  BY DEF PreferenceInvariant, Good, Sound, Typed, State
<1>2. w \in State /\ SameSession(v, w) /\ v.revision < w.revision
  <2>1. v.revision < v.revision + 1
    BY <1>1
  <2> QED
    BY <1>1, <2>1, DeafenedSet
<1>3. Toggle("deafen", w)
  BY DEF UserToggledDeafen
<1> HIDE DEF w
<1> QED
  BY <1>2, <1>3, Toggles

LEMMA ModeToggles ==
    ASSUME PreferenceInvariant, ToggleTransmissionMode
    PROVE  PreferenceInvariant'
<1>1. /\ Good(v, calls, ~excused) /\ excused \in BOOLEAN /\ v \in State /\ excused' = excused
      /\ Sound(v, calls)
  BY DEF PreferenceInvariant, ToggleTransmissionMode, Good, Sound, Typed
<1> DEFINE mode == CHOOSE m \in Modes : m # v.mode
           w == SetMode(v, mode)
<1>2. mode \in Modes
  <2>1. \E m \in Modes : m # v.mode
    BY DEF Modes
  <2> QED
    BY <2>1
<1> HIDE DEF mode
<1>3. /\ w \in State /\ SameSession(v, w) /\ v.revision < w.revision /\ w.mode = mode
      /\ w.mic = v.mic /\ w.deaf = v.deaf /\ w.overlay = v.overlay /\ w.muted = v.muted
      /\ w.deafened = v.deafened /\ w.syncError = v.syncError
      /\ w.pending = v.pending /\ w.told = v.told /\ w.changing = v.changing
      /\ w.askedMode = v.askedMode
  BY <1>1, <1>2, ModeSet
<1>4. CASE v.status = "connected" /\ ~v.muted /\ ~v.deafened /\ ~v.guildMuted
  <2> DEFINE x == [w EXCEPT !.changing = @ \cup {"mode"}, !.askedMode = w.mode]
             c == Call("mode")
             e == [c EXCEPT !.at = "mode"]
             rest == calls \cup {e}
  <2>1. v' = x /\ calls' = rest
    BY <1>4 DEF ToggleTransmissionMode, mode
  <2>2. /\ IsEntry(c) /\ c.kind = "mode" /\ c.session = v.session /\ c.at = "start"
        /\ c.tries = 0 /\ c.round = 0 /\ c.again = FALSE
    BY <1>1, NewCall DEF Kinds
  <2> HIDE DEF w, c
  <2>3. /\ x \in State /\ SameSession(v, x) /\ v.revision < x.revision /\ x.askedMode = x.mode
        /\ x.mic = v.mic /\ x.deaf = v.deaf /\ x.overlay = v.overlay /\ x.muted = v.muted
        /\ x.deafened = v.deafened /\ x.syncError = v.syncError
        /\ x.pending = v.pending /\ x.told = v.told
    <3> DEFINE changing == w.changing \cup {"mode"}
    <3>1. changing \in SUBSET {"mute", "deafen", "mode"} /\ w.mode \in Modes
      BY <1>3 DEF State
    <3>2. x = [w EXCEPT !.changing = changing, !.askedMode = w.mode]
      OBVIOUS
    <3> HIDE DEF changing, x
    <3> QED
      BY <1>3, <3>1, <3>2 DEF State, SameSession
  <2>4. /\ IsEntry(e) /\ e.kind = "mode" /\ e.session = v.session /\ e.at = "mode"
        /\ e.tries = 0 /\ e.again = FALSE
    BY <2>2 DEF IsEntry, Places
  <2> HIDE DEF x, e
  <2>5. x.room # 0 /\ v.room # 0 /\ v.session \in Nat /\ v.room = v.session /\ x.session = v.session
    BY <1>1, <1>4, <2>3 DEF Sound, SessionFits, SameSession, Typed, State
  <2>6. Remembers(x, e) /\ Stands(e)
    <3>1. e.session \in 1..x.session
      BY <2>4, <2>5
    <3> QED
      BY <2>4, <3>1, MuteDeafenAssumption DEF Remembers, Stands, Before, Within
  <2>7. \A f \in calls : f \in rest \/ f.kind = "mode"
    OBVIOUS
  <2>8. \A f \in rest : f \in calls \/ (/\ IsEntry(f) /\ Remembers(x, f) /\ Stands(f) /\ f.kind = "mode"
                                        /\ x.room # 0)
    BY <2>4, <2>5, <2>6
  <2> HIDE DEF rest
  <2>9. Good(x, rest, ~excused)
    BY <1>1, <2>3, <2>7, <2>8, ModeFitsAgain
  <2> QED
    BY <1>1, <2>1, <2>9 DEF PreferenceInvariant
<1>5. CASE ~(v.status = "connected" /\ ~v.muted /\ ~v.deafened /\ ~v.guildMuted)
  <2>1. v' = Kept(w, calls) /\ calls' = calls
    BY <1>5 DEF ToggleTransmissionMode, mode
  <2> HIDE DEF w
  <2>2. w.status = v.status
    BY <1>3 DEF SameSession
  <2>3. ~(w.status = "connected" /\ ~v.muted /\ ~v.deafened /\ ~v.guildMuted)
    BY <1>5, <2>2
  <2>4. /\ \A f \in calls : f \in calls \/ f.kind = "mode"
        /\ \A f \in calls : f \in calls \/ (/\ IsEntry(f) /\ Remembers(w, f) /\ Stands(f) /\ f.kind = "mode"
                                            /\ w.room # 0)
    OBVIOUS
  <2>5. Good(w, calls, ~excused)
    BY <1>1, <1>3, <2>3, <2>4, ModeFitsAgain
  <2> QED
    BY <1>1, <2>1, <2>5, KeptFits DEF PreferenceInvariant
<1> QED
  BY <1>4, <1>5

LEMMA GuildMutes ==
    ASSUME PreferenceInvariant, NEW value \in BOOLEAN, GuildMuteChanged(value)
    PROVE  PreferenceInvariant'
<1>1. /\ Good(v, calls, ~excused) /\ excused \in BOOLEAN /\ v \in State /\ excused' = excused
      /\ Sound(v, calls) /\ v.status \notin {"idle", "error"} /\ v.revision \in Nat
      /\ v.guildMuted = v.ruled
  BY DEF PreferenceInvariant, GuildMuteChanged, Good, Sound, Typed, State, SessionFits
<1> DEFINE next == v.revision + IF v.guildMuted # value THEN 1 ELSE 0
           w == [v EXCEPT !.ruled = value, !.guildMuted = value, !.revision = next]
<1>2. /\ next \in Nat /\ (v.guildMuted # value => v.revision < next)
      /\ (v.guildMuted = value => next = v.revision)
  BY <1>1
<1>3. /\ IF v.room = 0 THEN v' = Kept(SyncIdle(w), calls) /\ UNCHANGED calls
         ELSE IF value THEN Begin(At([w EXCEPT !.share = "off"], Call("guild"), "stop"))
         ELSE Begin(Head(w, Call("guild")))
  BY DEF GuildMuteChanged
<1> HIDE DEF next
<1>4. ASSUME NEW x \in State, x.room = v.room, x.session = v.session, x.revision = next,
             x.status = v.status, x.asked = v.asked, x.broken = v.broken, x.mic = v.mic,
             x.deaf = v.deaf, x.overlay = v.overlay, x.flushing = v.flushing, x.posts = v.posts,
             x.guildMuted = value, x.ruled = value, x.share \in {v.share, "off"},
             value /\ x.room # 0 => x.share = "off", ~value => x.share = v.share
      PROVE  Sound(x, calls) /\ (~excused => Ready(x, calls))
  <2>1. CASE v.guildMuted # value
    <3>1. Sound(x, calls) /\ RoundsFit(x, calls)
      BY <1>1, <1>2, <1>4, <2>1, BumpedSound
    <3>2. ~excused => ShareEnds(x)
      BY <1>1, <1>4 DEF Good, Ready, ShareEnds
    <3> QED
      BY <3>1, <3>2 DEF Ready
  <2>2. CASE v.guildMuted = value
    <3>1. SamePreferences(v, x) /\ x.ruled = v.ruled
      BY <1>1, <1>2, <1>4, <2>2 DEF SamePreferences
    <3>2. Sound(x, calls)
      BY <1>1, <1>4, <3>1, SameToAll DEF Sound, Typed, SessionFits, PostsFit
    <3>3. ~excused => ShareEnds(x)
      BY <1>1, <1>4 DEF Good, Ready, ShareEnds
    <3>4. ~excused => (v.share # "off" => x.share # "off")
      BY <1>1, <1>4, <2>2 DEF Good, Ready, ShareEnds
    <3>5. ~excused => RoundsFit(x, calls)
      BY <1>1, <3>1, <3>4, OthersFit DEF Good, Ready
    <3> QED
      BY <3>2, <3>3, <3>5 DEF Ready
  <2> QED
    BY <2>1, <2>2
<1>5. /\ w \in State /\ w.room = v.room /\ w.session = v.session /\ w.revision = next
      /\ w.status = v.status /\ w.asked = v.asked /\ w.broken = v.broken /\ w.mic = v.mic
      /\ w.deaf = v.deaf /\ w.overlay = v.overlay /\ w.flushing = v.flushing /\ w.posts = v.posts
      /\ w.guildMuted = value /\ w.ruled = value /\ w.share = v.share
  BY <1>1, <1>2 DEF State
<1> HIDE DEF w
<1>6. CASE v.room = 0
  <2> DEFINE deaf == EffectiveDeafened(w)
             quiet == EffectiveDeafened(w) \/ ~w.mic
             x == Shows(w, deaf, quiet)
  <2>1. v' = Kept(x, calls) /\ calls' = calls
    BY <1>3, <1>5, <1>6 DEF SyncIdle, Shows
  <2>2. deaf \in BOOLEAN /\ quiet \in BOOLEAN
    BY <1>5, PreferenceTypes
  <2> HIDE DEF deaf, quiet
  <2>3. /\ x \in State /\ x.room = v.room /\ x.session = v.session /\ x.revision = next
        /\ x.status = v.status /\ x.asked = v.asked /\ x.broken = v.broken /\ x.mic = v.mic
        /\ x.deaf = v.deaf /\ x.overlay = v.overlay /\ x.flushing = v.flushing /\ x.posts = v.posts
        /\ x.guildMuted = value /\ x.ruled = value /\ x.share = v.share
    <3>1. x \in State /\ ShownApart(w, x)
      BY <1>5, <2>2, ShownTyped
    <3> HIDE DEF x
    <3> QED
      BY <1>5, <3>1 DEF ShownApart
  <2> HIDE DEF x
  <2>4. Sound(x, calls) /\ (~excused => Ready(x, calls))
    BY <1>4, <1>6, <2>3
  <2>5. Fits(x, calls)
    BY <1>6, <2>3 DEF Fits
  <2>6. Good(x, calls, ~excused)
    BY <2>4, <2>5 DEF Good
  <2> QED
    BY <1>1, <2>1, <2>6, KeptFits DEF PreferenceInvariant
<1>7. CASE v.room # 0 /\ value
  <2> DEFINE x == [w EXCEPT !.share = "off"]
             c == Call("guild")
             e == [c EXCEPT !.at = "stop"]
             rest == calls \cup {e}
  <2>1. Begin(At(x, c, "stop"))
    BY <1>3, <1>7
  <2>2. /\ IsEntry(c) /\ c.kind = "guild" /\ c.session = v.session /\ c.at = "start"
        /\ c.tries = 0 /\ c.round = 0 /\ c.again = FALSE
    BY <1>1, NewCall DEF Kinds
  <2>3. At(x, c, "stop").w = x /\ At(x, c, "stop").c = e
    BY DEF At, With
  <2> HIDE DEF c
  <2>4. /\ IsEntry(e) /\ e.kind = "guild" /\ e.session = v.session /\ e.at = "stop"
        /\ e.tries = 0 /\ e.again = FALSE
    BY <2>2 DEF IsEntry, Places
  <2>5. /\ x \in State /\ x.room = v.room /\ x.session = v.session /\ x.revision = next
        /\ x.status = v.status /\ x.asked = v.asked /\ x.broken = v.broken /\ x.mic = v.mic
        /\ x.deaf = v.deaf /\ x.overlay = v.overlay /\ x.flushing = v.flushing /\ x.posts = v.posts
        /\ x.guildMuted = value /\ x.ruled = value /\ x.share = "off"
    BY <1>5 DEF State
  <2> HIDE DEF x, e
  <2>6. Sound(x, calls) /\ (~excused => Ready(x, calls))
    BY <1>4, <1>7, <2>5
  <2>7. v.room = v.session /\ v.session \in Nat /\ v.session # 0
    BY <1>1, <1>7 DEF Sound, Typed, State
  <2>8. Remembers(x, e) /\ Stands(e)
    <3>1. e.session \in 1..x.session
      BY <2>4, <2>5, <2>7
    <3> QED
      BY <2>4, <3>1, MuteDeafenAssumption DEF Remembers, Stands, Before, Within
  <2>9. Sound(x, rest)
    <3>1. Joining(x, rest) <=> Joining(x, calls)
      BY <2>4 DEF Joining
    <3>2. x.room # 0
      BY <1>7, <2>5
    <3>3. Typed(x, rest)
      BY <2>4, <2>6, <2>8 DEF Sound, Typed
    <3>4. SessionFits(x, rest)
      BY <2>6, <3>1, <3>2 DEF Sound, SessionFits
    <3> QED
      BY <2>6, <3>3, <3>4 DEF Sound
  <2>10. ~excused => Ready(x, rest)
    <3>1. RoundFits(x, e)
      BY <2>4 DEF RoundFits, Current, Within
    <3> QED
      BY <2>6, <3>1 DEF Ready, RoundsFit
  <2>11. Fits(x, rest)
    <3>1. Owes(x, e)
      BY <2>4, <2>5, <2>7, <1>7 DEF Owes, Live, Before
    <3> QED
      BY <3>1 DEF Fits
  <2>12. Good(x, rest, ~excused)
    BY <2>9, <2>10, <2>11 DEF Good
  <2>13. Proceed(At(x, c, "stop")) = At(x, c, "stop")
    BY <2>3, <2>4 DEF Proceed
  <2>14. (calls \ {e}) \cup (IF e.at = "done" THEN {} ELSE {e}) = rest
    BY <2>4
  <2> HIDE DEF rest
  <2>15. v' = Kept(x, rest) /\ calls' = rest
    BY <2>1, <2>3, <2>13, <2>14 DEF Begin, Goes
  <2> QED
    BY <1>1, <2>12, <2>15, KeptFits DEF PreferenceInvariant
<1>8. CASE v.room # 0 /\ ~value
  <2>1. Begin(Head(w, Call("guild")))
    BY <1>3, <1>8
  <2>2. Sound(w, calls) /\ (~excused => Ready(w, calls))
    BY <1>4, <1>5, <1>8
  <2>3. w.session = v.session /\ w.room # 0 /\ "guild" \in Kinds \ {"join", "mode"}
    BY <1>5, <1>8 DEF Kinds
  <2>4. Good(v', calls', ~excused)
    BY <1>1, <2>1, <2>2, <2>3, BeginsHead
  <2> QED
    BY <1>1, <2>4 DEF PreferenceInvariant
<1> QED
  BY <1>6, <1>7, <1>8

LEMMA CallDeafens ==
    ASSUME PreferenceInvariant, NEW active \in BOOLEAN, SetCallChannelDeafen(active)
    PROVE  PreferenceInvariant'
<1>1. /\ Good(v, calls, ~excused) /\ excused \in BOOLEAN /\ v \in State
      /\ excused' = (excused \/ Reconciling # {})
      /\ Sound(v, calls)
  BY DEF PreferenceInvariant, SetCallChannelDeafen, Good, Sound, Typed
<1> DEFINE w == [v EXCEPT !.overlay = active]
<1>2. IF Connected(v) THEN Begin(Head(w, Call("overlay"))) ELSE v' = SyncIdle(w) /\ UNCHANGED calls
  BY DEF SetCallChannelDeafen
<1>3. /\ w \in State /\ SameSession(v, w) /\ w.revision = v.revision
  BY <1>1 DEF State, SameSession
<1> HIDE DEF w
<1>4. ASSUME NEW x \in State, SameSession(v, x), x.revision = v.revision
      PROVE  Sound(x, calls) /\ (~excused' => Ready(x, calls))
  <2>1. \A e \in calls : Remembers(x, e) <=> Remembers(v, e)
    BY <1>4 DEF Remembers, SameSession
  <2>2. Joining(x, calls) <=> Joining(v, calls)
    BY <1>4 DEF Joining, Live, SameSession
  <2>3. Sound(x, calls)
    BY <1>1, <1>4, <2>1, <2>2 DEF Sound, Typed, SessionFits, PostsFit, SameSession
  <2>4. ~excused' => RoundsFit(x, calls)
    <3>1. SUFFICES ASSUME ~excused', NEW e \in calls
                   PROVE  RoundFits(x, e)
      BY DEF RoundsFit
    <3>2. e.session # v.session
      BY <1>1, <3>1 DEF Reconciling
    <3> QED
      BY <1>4, <3>2 DEF RoundFits, Current, Live, SameSession
  <2>5. ~excused' => ShareEnds(x)
    BY <1>1, <1>4 DEF Good, Ready, ShareEnds, SameSession
  <2> QED
    BY <2>3, <2>4, <2>5 DEF Ready
<1>5. CASE Connected(v)
  <2>1. Begin(Head(w, Call("overlay")))
    BY <1>2, <1>5
  <2>2. Sound(w, calls) /\ (~excused' => Ready(w, calls))
    BY <1>3, <1>4
  <2>3. w.session = v.session /\ w.room # 0 /\ "overlay" \in Kinds \ {"join", "mode"}
    BY <1>3, <1>5 DEF Kinds, SameSession, Connected
  <2>4. Good(v', calls', ~excused')
    BY <1>1, <2>1, <2>2, <2>3, BeginsHead
  <2> QED
    BY <1>1, <2>4 DEF PreferenceInvariant
<1>6. CASE ~Connected(v)
  <2>1. v' = SyncIdle(w) /\ calls' = calls
    BY <1>2, <1>6
  <2>2. SyncIdle(w) \in State /\ SameSession(v, SyncIdle(w)) /\ SyncIdle(w).revision = v.revision
    <3>1. EffectiveDeafened(w) \in BOOLEAN
      BY <1>3, PreferenceTypes
    <3>2. CASE w.room # 0
      BY <1>3, <3>2 DEF SyncIdle
    <3>3. CASE w.room = 0
      <4> DEFINE deaf == EffectiveDeafened(w)
                 quiet == EffectiveDeafened(w) \/ ~w.mic
                 x == Shows(w, deaf, quiet)
      <4>1. SyncIdle(w) = x
        BY <3>3 DEF SyncIdle, Shows
      <4>3. deaf \in BOOLEAN /\ quiet \in BOOLEAN
        BY <3>1
      <4> HIDE DEF deaf, quiet
      <4>2. x \in State /\ SameSession(v, x) /\ x.revision = v.revision
        BY <1>3, <4>3, ShownTyped DEF ShownApart, SameSession
      <4> HIDE DEF x
      <4> QED
        BY <4>1, <4>2
    <3> QED
      BY <3>2, <3>3
  <2>3. Sound(v', calls) /\ (~excused' => Ready(v', calls))
    BY <1>4, <2>1, <2>2
  <2>4. ~excused' => Fits(v', calls)
    <3>1. CASE v.room = 0
      BY <2>1, <2>2, <3>1 DEF Fits, SameSession
    <3>2. CASE v.room # 0
      <4>1. PICK e \in calls : Live(v, e)
        BY <1>1, <1>6, <3>2 DEF Connected, Sound, SessionFits, Joining
      <4>2. Reconciling # {}
        BY <4>1 DEF Reconciling, Live
      <4> QED
        BY <1>1, <4>2
    <3> QED
      BY <3>1, <3>2
  <2> QED
    BY <1>1, <2>1, <2>3, <2>4 DEF PreferenceInvariant, Good
<1> QED
  BY <1>5, <1>6

LEMMA TransportLost ==
    ASSUME PreferenceInvariant, Reconnecting
    PROVE  PreferenceInvariant'
<1>1. /\ Good(v, calls, ~excused) /\ excused \in BOOLEAN /\ v \in State
      /\ excused' = excused /\ calls' = calls
      /\ Sound(v, calls) /\ v.room # 0 /\ v' = [v EXCEPT !.broken = TRUE, !.status = "reconnecting"]
  BY DEF PreferenceInvariant, Reconnecting, Good, Sound, Typed
<1> DEFINE x == [v EXCEPT !.broken = TRUE, !.status = "reconnecting"]
<1>2. /\ x \in State /\ SamePreferences(v, x) /\ x.status = "reconnecting" /\ x.ruled = v.ruled
      /\ x.mode = v.mode /\ x.muted = v.muted /\ x.deafened = v.deafened
      /\ x.syncError = v.syncError /\ x.asked = v.asked /\ x.askedMode = v.askedMode
      /\ x.share = v.share /\ x.pending = v.pending /\ x.flushing = v.flushing
      /\ x.posts = v.posts /\ x.told = v.told /\ x.room = v.room /\ x.session = v.session
      /\ x.guildMuted = v.guildMuted
  BY <1>1 DEF State, SamePreferences
<1> HIDE DEF x
<1>3. Sound(x, calls)
  <2>1. Typed(x, calls)
    BY <1>1, <1>2, SameToAll DEF Sound, Typed
  <2>2. SessionFits(x, calls)
    BY <1>1, <1>2 DEF Sound, SessionFits
  <2>3. PostsFit(x)
    BY <1>1, <1>2 DEF Sound, PostsFit
  <2> QED
    BY <2>1, <2>2, <2>3 DEF Sound
<1>4. ~excused => Ready(x, calls)
  <2>1. ~excused => RoundsFit(x, calls)
    BY <1>1, <1>2, OthersFit DEF Good, Ready
  <2>2. ~excused => ShareEnds(x)
    BY <1>1, <1>2 DEF Good, Ready, ShareEnds
  <2> QED
    BY <2>1, <2>2 DEF Ready
<1>5. ~excused => Fits(x, calls)
  <2>1. SUFFICES ASSUME ~excused, x.room # 0, \A f \in calls : ~Owes(x, f)
                 PROVE  /\ MicrophoneFits(x, calls) /\ ModeFits(x, calls)
                        /\ ShownFits(x, calls) /\ ShareFits(x, calls) /\ ToldFits(x, calls)
    BY DEF Fits
  <2>2. /\ MicrophoneFits(v, calls) /\ ModeFits(v, calls) /\ ShownFits(v, calls)
        /\ ShareFits(v, calls) /\ ToldFits(v, calls)
    BY <1>1, <1>2, <2>1, SameToAll DEF Good, Fits
  <2>3. \A value : ToldLast(x, value) <=> ToldLast(v, value)
    BY <1>2 DEF ToldLast
  <2> QED
    BY <2>2, <2>3, <1>2, SameToAll DEF MicrophoneFits, ModeFits, ShownFits, ShareFits, ToldFits
<1> QED
  BY <1>1, <1>3, <1>4, <1>5 DEF PreferenceInvariant, Good, x

LEMMA TransportIsBack ==
    ASSUME PreferenceInvariant, TransportRecovered
    PROVE  PreferenceInvariant'
<1> DEFINE x == [v EXCEPT !.broken = FALSE, !.status = "connected"]
<1>1. /\ Good(v, calls, ~excused) /\ excused \in BOOLEAN /\ v \in State
      /\ excused' = excused /\ Sound(v, calls) /\ v.broken
      /\ Begin(Head(x, Call("recovered")))
  BY DEF PreferenceInvariant, TransportRecovered, Good, Sound, Typed
<1>2. v.room # 0
  BY <1>1 DEF Sound, SessionFits
<1>3. /\ x \in State /\ SamePreferences(v, x) /\ x.status = "connected" /\ x.ruled = v.ruled
      /\ x.asked = v.asked /\ x.share = v.share /\ x.flushing = v.flushing
      /\ x.posts = v.posts /\ x.room = v.room /\ x.session = v.session
      /\ x.guildMuted = v.guildMuted
  BY <1>1 DEF State, SamePreferences
<1> HIDE DEF x
<1>4. Sound(x, calls)
  <2>1. Typed(x, calls)
    BY <1>1, <1>3, SameToAll DEF Sound, Typed
  <2>2. SessionFits(x, calls)
    BY <1>1, <1>2, <1>3 DEF Sound, SessionFits
  <2>3. PostsFit(x)
    BY <1>1, <1>3 DEF Sound, PostsFit
  <2> QED
    BY <2>1, <2>2, <2>3 DEF Sound
<1>5. ~excused => Ready(x, calls)
  <2>1. ~excused => RoundsFit(x, calls)
    BY <1>1, <1>3, OthersFit DEF Good, Ready
  <2>2. ~excused => ShareEnds(x)
    BY <1>1, <1>3 DEF Good, Ready, ShareEnds
  <2> QED
    BY <2>1, <2>2 DEF Ready
<1>6. "recovered" \in Kinds \ {"join", "mode"} /\ x.room # 0
  BY <1>2, <1>3 DEF Kinds
<1>7. Good(v', calls', ~excused)
  BY <1>1, <1>3, <1>4, <1>5, <1>6, BeginsHead
<1> QED
  BY <1>1, <1>7 DEF PreferenceInvariant

LEMMA Shares ==
    ASSUME PreferenceInvariant, Share
    PROVE  PreferenceInvariant'
<1> DEFINE x == [v EXCEPT !.share = "playing"]
<1>1. /\ Good(v, calls, ~excused) /\ excused \in BOOLEAN /\ v \in State
      /\ excused' = excused /\ calls' = calls /\ Sound(v, calls)
      /\ v.status = "connected" /\ v.share = "off" /\ ~v.deafened /\ ~v.ruled
      /\ v' = x
  BY DEF PreferenceInvariant, Share, Good, Sound, Typed
<1>2. /\ x \in State /\ SamePreferences(v, x) /\ x.status = v.status /\ x.ruled = v.ruled
      /\ x.mode = v.mode /\ x.muted = v.muted /\ x.deafened = v.deafened /\ x.broken = v.broken
      /\ x.syncError = v.syncError /\ x.asked = v.asked /\ x.askedMode = v.askedMode
      /\ x.share = "playing" /\ x.pending = v.pending /\ x.flushing = v.flushing
      /\ x.posts = v.posts /\ x.told = v.told /\ x.room = v.room /\ x.session = v.session
      /\ x.guildMuted = v.guildMuted
  BY <1>1 DEF State, SamePreferences
<1> HIDE DEF x
<1>3. v.room # 0
  BY <1>1 DEF Sound, SessionFits
<1>4. Sound(x, calls)
  BY <1>1, <1>2, SameToAll DEF Sound, Typed, SessionFits, PostsFit
<1>5. ~excused => Ready(x, calls)
  <2>1. ~excused => RoundsFit(x, calls)
    BY <1>1, <1>2, OthersFit DEF Good, Ready
  <2>2. ~excused => ShareEnds(x)
    BY <1>1, <1>2, <1>3 DEF ShareEnds
  <2> QED
    BY <2>1, <2>2 DEF Ready
<1>6. ~excused => Fits(x, calls)
  <2>1. SUFFICES ASSUME ~excused, x.room # 0, \A f \in calls : ~Owes(x, f)
                 PROVE  /\ MicrophoneFits(x, calls) /\ ModeFits(x, calls)
                        /\ ShownFits(x, calls) /\ ShareFits(x, calls) /\ ToldFits(x, calls)
    BY DEF Fits
  <2>2. /\ MicrophoneFits(v, calls) /\ ModeFits(v, calls) /\ ShownFits(v, calls)
        /\ ToldFits(v, calls)
    BY <1>1, <1>2, <2>1, SameToAll DEF Good, Fits
  <2>3. \A value : ToldLast(x, value) <=> ToldLast(v, value)
    BY <1>2 DEF ToldLast
  <2>4. /\ MicrophoneFits(x, calls) /\ ModeFits(x, calls) /\ ShownFits(x, calls)
        /\ ToldFits(x, calls)
    BY <2>2, <2>3, <1>2, SameToAll DEF MicrophoneFits, ModeFits, ShownFits, ToldFits
  <2>5. ShareFits(x, calls)
    <3>1. SUFFICES ASSUME EffectiveDeafened(v)
                   PROVE  WaitsAt(v, calls, {"microphone"})
      BY <1>2, SameToAll DEF ShareFits
    <3>2. PICK e \in calls : Current(v, e) /\ e.at \in {"audio", "microphone", "pause"}
      BY <2>2, <3>1, <1>1 DEF ShownFits, WaitsAt
    <3>3. RoundFits(v, e)
      BY <2>1, <1>1 DEF Good, Ready, RoundsFit
    <3>4. e.at = "microphone"
      BY <3>1, <3>2, <3>3, <1>1 DEF RoundFits
    <3> QED
      BY <3>2, <3>4 DEF WaitsAt
  <2> QED
    BY <2>4, <2>5
<1> QED
  BY <1>1, <1>4, <1>5, <1>6 DEF PreferenceInvariant, Good

LEMMA ReportsAgain ==
    ASSUME PreferenceInvariant, SocketOnline
    PROVE  PreferenceInvariant'
<1> DEFINE x == QueueSync(v, v.deafened)
<1>1. /\ Good(v, calls, ~excused) /\ excused \in BOOLEAN /\ v \in State
      /\ excused' = excused /\ calls' = calls /\ Sound(v, calls)
      /\ PostsFit(v) /\ v.room \in {0, v.session} /\ v.deafened \in BOOLEAN
      /\ v' = x
  BY DEF PreferenceInvariant, SocketOnline, Good, Sound, Typed, State
<1>2. /\ x \in State /\ PostsFit(x)
      /\ x.mic = v.mic /\ x.deaf = v.deaf /\ x.mode = v.mode /\ x.overlay = v.overlay
      /\ x.muted = v.muted /\ x.deafened = v.deafened /\ x.guildMuted = v.guildMuted
      /\ x.syncError = v.syncError /\ x.revision = v.revision /\ x.room = v.room
      /\ x.session = v.session /\ x.status = v.status /\ x.broken = v.broken
      /\ x.ruled = v.ruled /\ x.asked = v.asked /\ x.askedMode = v.askedMode
      /\ x.share = v.share /\ x.told = v.told
      /\ v.room # 0 => ToldLast(x, v.deafened) /\ x.flushing = x.session
  BY <1>1, QueueKeeps
<1> HIDE DEF x
<1>3. SamePreferences(v, x)
  BY <1>2 DEF SamePreferences
<1>4. Sound(x, calls)
  BY <1>1, <1>2, <1>3, SameToAll DEF Sound, Typed, SessionFits
<1>5. ~excused => Ready(x, calls)
  BY <1>1, <1>2, <1>3, OthersFit DEF Good, Ready, ShareEnds
<1>6. ~excused => Fits(x, calls)
  <2>1. SUFFICES ASSUME ~excused, x.room # 0, \A f \in calls : ~Owes(x, f)
                 PROVE  /\ MicrophoneFits(x, calls) /\ ModeFits(x, calls)
                        /\ ShownFits(x, calls) /\ ShareFits(x, calls) /\ ToldFits(x, calls)
    BY DEF Fits
  <2>2. /\ MicrophoneFits(v, calls) /\ ModeFits(v, calls) /\ ShownFits(v, calls)
        /\ ShareFits(v, calls)
    BY <1>1, <1>2, <1>3, <2>1, SameToAll DEF Good, Fits
  <2>3. /\ MicrophoneFits(x, calls) /\ ModeFits(x, calls) /\ ShownFits(x, calls)
        /\ ShareFits(x, calls)
    BY <2>2, <1>2, <1>3, SameToAll DEF MicrophoneFits, ModeFits, ShownFits, ShareFits
  <2>4. ToldFits(x, calls)
    <3>1. CASE v.deafened = EffectiveDeafened(v)
      BY <3>1, <2>1, <1>2, <1>3, SameToAll DEF ToldFits
    <3>2. CASE WaitsAt(v, calls, {"audio", "microphone", "pause"})
      <4>1. WaitsAt(x, calls, {"audio", "microphone", "pause", "resume"})
        BY <3>2, <1>3, SameToAll DEF WaitsAt
      <4> QED
        BY <4>1 DEF ToldFits
    <3> QED
      BY <2>2, <3>1, <3>2 DEF ShownFits
  <2> QED
    BY <2>3, <2>4
<1> QED
  BY <1>1, <1>4, <1>5, <1>6 DEF PreferenceInvariant, Good

\* Another session: nobody of an earlier one is of this.
LEMMA NextSession ==
    ASSUME NEW w, NEW cs, NEW ok, Good(w, cs, ok), NEW x \in State, x.session = w.session + 1,
           x.room = 0, x.revision = w.revision, x.asked = FALSE, x.broken = FALSE,
           x.flushing = w.flushing, x.posts = w.posts, ok => x.share = "off",
           \/ x.status = "idle"
           \/ x.status = "connecting" /\ x.guildMuted = x.ruled
    PROVE  Good(x, cs, ok)
<1>1. w \in State /\ w.session \in Nat
  BY DEF Good, Sound, Typed, State
<1>2. ASSUME NEW e \in cs
      PROVE  Remembers(x, e) /\ e.session # x.session /\ e.session # 0
  <2>1. Remembers(w, e)
    BY DEF Good, Sound, Typed
  <2>2. e.session \in 1..w.session
    BY <2>1 DEF Remembers
  <2>3. e.session \in 1..x.session /\ e.session # x.session /\ e.session # 0
    BY <1>1, <2>2
  <2> QED
    BY <2>1, <2>3 DEF Remembers
<1>3. Typed(x, cs)
  BY <1>2 DEF Good, Sound, Typed
<1>4. x.session # 0
  BY <1>1
<1>5. SessionFits(x, cs)
  BY <1>2, <1>4 DEF SessionFits
<1>6. PostsFit(x)
  <2>1. PostsFit(w)
    BY DEF Good, Sound
  <2>2. x.flushing \in Nat /\ x.flushing <= w.session
    BY <1>1, <2>1 DEF PostsFit, State
  <2>3. x.flushing <= x.session /\ x.flushing # x.session
    BY <1>1, <2>2
  <2>4. ASSUME NEW p \in x.posts
        PROVE  p.session \in 1..x.session /\ p.session # x.session
    <3>1. p.session \in 1..w.session
      BY <2>1 DEF PostsFit
    <3> QED
      BY <1>1, <3>1
  <2>5. \A p, q \in x.posts : p.session = q.session => p = q
    BY <2>1 DEF PostsFit
  <2> QED
    BY <2>3, <2>4, <2>5 DEF PostsFit
<1>7. ok => Ready(x, cs)
  BY <1>2 DEF Ready, ShareEnds, RoundsFit, RoundFits, Current, Live
<1>8. Fits(x, cs)
  BY DEF Fits
<1> QED
  BY <1>3, <1>5, <1>6, <1>7, <1>8 DEF Good, Sound

LEMMA Leaves ==
    ASSUME PreferenceInvariant, Leave
    PROVE  PreferenceInvariant'
<1>1. /\ Good(v, calls, ~excused) /\ excused \in BOOLEAN /\ v \in State
      /\ excused' = excused /\ calls' = calls
  BY DEF PreferenceInvariant, Leave, Good, Sound, Typed
<1> DEFINE next == v.session + 1
           w == [v EXCEPT !.session = next, !.room = 0, !.status = "idle", !.broken = FALSE,
                          !.asked = FALSE, !.share = "off"]
<1>2. next \in Nat
  BY <1>1 DEF State
<1>3. v' = Reset(w)
  BY DEF Leave
<1> HIDE DEF next
<1>4. /\ w \in State /\ w.session = next /\ w.room = 0 /\ w.status = "idle" /\ w.broken = FALSE
      /\ w.asked = FALSE /\ w.share = "off" /\ w.revision = v.revision
      /\ w.flushing = v.flushing /\ w.posts = v.posts
  BY <1>1, <1>2 DEF State
<1> HIDE DEF w
<1>5. /\ v' \in State /\ v'.session = next /\ v'.room = 0 /\ v'.status = "idle" /\ v'.broken = FALSE
      /\ v'.asked = FALSE /\ v'.share = "off" /\ v'.revision = v.revision
      /\ v'.flushing = v.flushing /\ v'.posts = v.posts
  BY <1>3, <1>4, ResetKeeps
<1>6. Good(v', calls, ~excused)
  BY <1>1, <1>5, NextSession DEF next
<1> QED
  BY <1>1, <1>6 DEF PreferenceInvariant

LEMMA Joins ==
    ASSUME PreferenceInvariant, JoinBegins
    PROVE  PreferenceInvariant'
<1>1. /\ Good(v, calls, ~excused) /\ excused \in BOOLEAN /\ v \in State
      /\ excused' = excused /\ calls' = calls /\ v.status \in {"idle", "error"}
  BY DEF PreferenceInvariant, JoinBegins, Good, Sound, Typed
<1>2. v.room = 0 /\ v.asked = FALSE /\ v.broken = FALSE /\ (~excused => v.share = "off")
  BY <1>1 DEF Good, Sound, SessionFits, Ready, ShareEnds, State
<1> DEFINE next == v.session + 1
           w == [v EXCEPT !.session = next, !.status = "connecting"]
           u == Reset(w)
           x == [u EXCEPT !.guildMuted = v.ruled, !.told = v.deaf]
<1>3. next \in Nat /\ v.ruled \in BOOLEAN /\ v.deaf \in BOOLEAN
  BY <1>1 DEF State
<1>4. v' = x
  BY DEF JoinBegins
<1> HIDE DEF next
<1>5. /\ w \in State /\ w.session = next /\ w.room = 0 /\ w.status = "connecting"
      /\ w.broken = FALSE /\ w.asked = FALSE /\ w.share = v.share /\ w.revision = v.revision
      /\ w.flushing = v.flushing /\ w.posts = v.posts /\ w.ruled = v.ruled
  BY <1>1, <1>2, <1>3 DEF State
<1> HIDE DEF w
<1>6. /\ u \in State /\ u.session = next /\ u.room = 0 /\ u.status = "connecting"
      /\ u.broken = FALSE /\ u.asked = FALSE /\ u.share = v.share /\ u.revision = v.revision
      /\ u.flushing = v.flushing /\ u.posts = v.posts /\ u.ruled = v.ruled
  BY <1>5, ResetKeeps
<1> HIDE DEF u
<1>7. /\ x \in State /\ x.session = next /\ x.room = 0 /\ x.status = "connecting"
      /\ x.broken = FALSE /\ x.asked = FALSE /\ x.share = v.share /\ x.revision = v.revision
      /\ x.flushing = v.flushing /\ x.posts = v.posts /\ x.guildMuted = x.ruled
  BY <1>3, <1>6 DEF State
<1> HIDE DEF x
<1>8. Good(x, calls, ~excused)
  BY <1>1, <1>2, <1>7, NextSession DEF next
<1> QED
  BY <1>1, <1>4, <1>8 DEF PreferenceInvariant

LEMMA RoomsCreated ==
    ASSUME PreferenceInvariant, RoomCreated
    PROVE  PreferenceInvariant'
<1> DEFINE x == [v EXCEPT !.room = v.session]
           c == Call("join")
           e == [c EXCEPT !.at = "connect"]
           rest == calls \cup {e}
<1>1. /\ Good(v, calls, ~excused) /\ excused \in BOOLEAN /\ v \in State /\ Sound(v, calls)
      /\ excused' = excused /\ calls' = rest /\ v' = x /\ v.status = "connecting" /\ v.room = 0
  BY DEF PreferenceInvariant, RoomCreated, Good, Sound, Typed
<1>2. v.session \in Nat /\ v.session # 0
  BY <1>1 DEF State, Sound, SessionFits
<1>3. /\ x \in State /\ x.room = v.session /\ x.session = v.session /\ x.status = v.status
      /\ x.revision = v.revision /\ x.guildMuted = v.guildMuted /\ x.ruled = v.ruled
      /\ x.share = v.share /\ x.flushing = v.flushing /\ x.posts = v.posts
  BY <1>1, <1>2 DEF State
<1>4. /\ IsEntry(c) /\ c.kind = "join" /\ c.session = v.session /\ c.at = "start"
      /\ c.tries = 0 /\ c.round = 0 /\ c.again = FALSE
  BY <1>1, NewCall DEF Kinds
<1> HIDE DEF c, x
<1>5. /\ IsEntry(e) /\ e.kind = "join" /\ e.session = v.session /\ e.at = "connect"
      /\ e.tries = 0 /\ e.round = 0 /\ e.again = FALSE
  BY <1>4 DEF IsEntry, Places
<1> HIDE DEF e
<1>6. Live(x, e)
  BY <1>3, <1>5 DEF Live
<1>7. \A f \in calls : f.session # x.session
  BY <1>1, <1>3 DEF Sound, SessionFits
<1>8. Remembers(x, e) /\ Stands(e)
  <2>1. e.session \in 1..x.session
    BY <1>2, <1>3, <1>5
  <2> QED
    BY <1>5, <2>1, MuteDeafenAssumption DEF Remembers, Stands, Before, Within
<1>9. Sound(x, rest)
  <2>1. \A f \in calls : Remembers(x, f) <=> Remembers(v, f)
    BY <1>3 DEF Remembers
  <2>2. Typed(x, rest)
    BY <1>1, <1>3, <1>5, <1>8, <2>1 DEF Sound, Typed
  <2>3. Joining(x, rest)
    BY <1>5, <1>6 DEF Joining
  <2>4. SessionFits(x, rest)
    BY <1>1, <1>2, <1>3, <2>3 DEF Sound, SessionFits
  <2>5. PostsFit(x)
    BY <1>1, <1>3 DEF Sound, PostsFit
  <2> QED
    BY <2>2, <2>4, <2>5 DEF Sound
<1>10. ~excused => Ready(x, rest)
  <2>1. RoundsFit(x, rest)
    BY <1>5, <1>7 DEF RoundsFit, RoundFits, Current, Live, Within
  <2>2. ~excused => ShareEnds(x)
    BY <1>1, <1>3 DEF Good, Ready, ShareEnds
  <2> QED
    BY <2>1, <2>2 DEF Ready
<1>11. Fits(x, rest)
  <2>1. Owes(x, e)
    BY <1>5, <1>6 DEF Owes, Before
  <2> QED
    BY <2>1 DEF Fits
<1> QED
  BY <1>1, <1>9, <1>10, <1>11 DEF PreferenceInvariant, Good

-----------------------------------------------------------------------------
(* The theorems *)

LEMMA PreferencesBegin ==
    ASSUME Init
    PROVE  PreferenceInvariant
<1>1. v \in {Idle, Joined} /\ calls = {} /\ excused = FALSE
  BY DEF Init
<1>2. Idle \in State
  BY DEF Idle, State, Modes
<1>3. /\ Joined \in State /\ Joined.room = 1 /\ Joined.session = 1
      /\ Joined.status = "connected" /\ Joined.asked = TRUE
      /\ Joined.mic = TRUE /\ Joined.deaf = FALSE /\ Joined.overlay = FALSE
      /\ Joined.guildMuted = FALSE /\ Joined.deafened = FALSE /\ Joined.muted = FALSE
      /\ Joined.share = "off" /\ Joined.ruled = FALSE /\ Joined.posts = {} /\ Joined.flushing = 0
      /\ Joined.told = FALSE /\ Joined.askedMode = Joined.mode
  BY DEF Joined, Idle, State, Modes
<1>4. CASE v = Idle
  <2>1. /\ v.room = 0 /\ v.session = 0 /\ v.status = "idle" /\ v.asked = FALSE /\ v.broken = FALSE
        /\ v.share = "off" /\ v.posts = {} /\ v.flushing = 0
    BY <1>4 DEF Idle
  <2>2. Typed(v, calls)
    BY <1>1, <1>2, <1>4, <2>1 DEF Typed
  <2>3. SessionFits(v, calls)
    BY <2>1 DEF SessionFits
  <2>4. PostsFit(v)
    BY <2>1 DEF PostsFit
  <2>5. Ready(v, calls) /\ Fits(v, calls)
    BY <1>1, <2>1 DEF Ready, ShareEnds, RoundsFit, Fits
  <2> QED
    BY <1>1, <2>2, <2>3, <2>4, <2>5 DEF PreferenceInvariant, Good, Sound
<1>5. CASE v = Joined
  <2>1. Sound(v, calls)
    <3>1. Typed(v, calls)
      BY <1>1, <1>3, <1>5 DEF Typed
    <3>2. SessionFits(v, calls)
      <4>1. v.guildMuted = v.ruled
        BY <1>3, <1>5
      <4>2. v.room # 0 /\ v.session # 0
        BY <1>3, <1>5
      <4>3. v.status = "connected"
        BY <1>3, <1>5
      <4> QED
        BY <4>1, <4>2, <4>3 DEF SessionFits
    <3>3. PostsFit(v)
      BY <1>3, <1>5 DEF PostsFit
    <3> QED
      BY <3>1, <3>2, <3>3 DEF Sound
  <2>2. Ready(v, calls)
    BY <1>1, <1>3, <1>5 DEF Ready, ShareEnds, RoundsFit
  <2>3. EffectiveDeafened(v) = FALSE
    BY <1>3, <1>5 DEF EffectiveDeafened
  <2>4. ShouldEnableMicrophone(v) = TRUE
    BY <1>3, <1>5, <2>3 DEF ShouldEnableMicrophone
  <2>5. Fits(v, calls)
    BY <1>3, <1>5, <2>3, <2>4
       DEF Fits, MicrophoneFits, ModeFits, ShownFits, ShareFits, ToldFits, ToldLast
  <2> QED
    BY <1>1, <2>1, <2>2, <2>5 DEF PreferenceInvariant, Good
<1> QED
  BY <1>1, <1>4, <1>5

LEMMA PreferencesStep ==
    ASSUME PreferenceInvariant, [Next]_mdVars
    PROVE  PreferenceInvariant'
<1>1. CASE \E c \in calls : SyncAnswered(c)
  BY <1>1, SyncAnswers
<1>2. CASE Answers
  BY <1>2, DevicesAnswer, ShareAnswers, AudioAnswers, MicrophoneAnswers, RoomAnswers,
     ModeAnswers, ModeBackAnswers, PostAnswers DEF Answers
<1>3. CASE Events
  BY <1>3, Joins, RoomsCreated, Leaves, TransportLost, TransportIsBack, MuteToggles,
     DeafenToggles, ModeToggles, Shares, ReportsAgain, GuildMutes, CallDeafens DEF Events
<1>4. CASE UNCHANGED mdVars
  BY <1>4 DEF mdVars, PreferenceInvariant
<1> QED
  BY <1>1, <1>2, <1>3, <1>4 DEF Next, Turn

LEMMA PreferenceInvariance == Spec => []PreferenceInvariant
<1>1. Init => PreferenceInvariant
  BY PreferencesBegin
<1>2. PreferenceInvariant /\ [Next]_mdVars => PreferenceInvariant'
  BY PreferencesStep
<1> QED
  BY <1>1, <1>2, PTL DEF Spec

\* When all is answered, nobody will set anything any more: it is set.
LEMMA AtRestPreferencesHold ==
    ASSUME PreferenceInvariant
    PROVE  PreferencesHold
<1>1. SUFFICES ASSUME AtRest, v.status = "connected", ~excused
               PROVE  /\ v.deafened = EffectiveDeafened(v)
                      /\ v.muted = ~ShouldEnableMicrophone(v)
                      /\ v.asked = ShouldEnableMicrophone(v)
                      /\ v.asked => v.askedMode = v.mode
                      /\ v.guildMuted = v.ruled
                      /\ v.share = "playing" => ~v.deafened /\ ~v.ruled
                      /\ v.syncError \/ v.told = v.deafened
  BY DEF PreferencesHold
<1>2. calls = {} /\ v.posts = {}
  BY <1>1 DEF AtRest
<1>3. Sound(v, calls) /\ Ready(v, calls) /\ Fits(v, calls) /\ v \in State
  BY <1>1 DEF PreferenceInvariant, Good, Sound, Typed
<1>4. v.room # 0 /\ v.guildMuted = v.ruled
  BY <1>1, <1>3 DEF Sound, SessionFits
<1>5. /\ MicrophoneFits(v, calls) /\ ModeFits(v, calls) /\ ShownFits(v, calls)
      /\ ShareFits(v, calls) /\ ToldFits(v, calls)
  BY <1>2, <1>3, <1>4 DEF Fits
<1>6. \A places : ~WaitsAt(v, calls, places)
  BY <1>2 DEF WaitsAt
<1>7. v.flushing # v.session
  BY <1>2, <1>3, <1>4 DEF Sound, Typed, PostsFit, State
<1>8. v.share = "playing" => ~v.ruled
  BY <1>3 DEF Ready, ShareEnds
<1> QED
  BY <1>1, <1>4, <1>5, <1>6, <1>7, <1>8
     DEF MicrophoneFits, ModeFits, ShownFits, ShareFits, ToldFits, ToldLast

\* However toggles, guild mutes, reconnections, failures and rejoins overlap,
\* the connection does at rest what is preferred, unless something happened
\* that the code does not repair (voice-mute-deafen.ts reconcile).
THEOREM PreferencesAlwaysHold == Spec => []PreferencesHold
<1>1. PreferenceInvariant => PreferencesHold
  BY AtRestPreferencesHold
<1> QED
  BY <1>1, PreferenceInvariance, PTL

-----------------------------------------------------------------------------
(* Sound comes back *)

\* A channel that waits to be undeafened is still deafened.
DeafUntilAnswered == kind = "channel" /\ direct = {"undeafen"} => deafened

RecoveryInvariant == RecoveryTypeOK /\ SoundComesBack /\ DeafUntilAnswered

\* The initial states satisfy the inductive invariant.
LEMMA RecoveryBegins == RecoveryInit => RecoveryInvariant
  BY DEF RecoveryInit, RecoveryInvariant, RecoveryTypeOK, States, SoundComesBack, DeafUntilAnswered, Exists, Wanted

\* One step of the controller, the browser, the room or a switch keeps it.
LEMMA RecoveryStep == RecoveryInvariant /\ [RecoveryNext]_rcVars => RecoveryInvariant'
<1> SUFFICES ASSUME RecoveryInvariant, [RecoveryNext]_rcVars PROVE RecoveryInvariant'
  OBVIOUS
<1> USE DEF RecoveryInvariant, RecoveryTypeOK, States, SoundComesBack, DeafUntilAnswered, Exists, Wanted
<1>1. CASE StateChanged
  BY <1>1 DEF StateChanged, ResumeIfNeeded, Resumes
<1>2. CASE AttemptEnds
  BY <1>2 DEF AttemptEnds, StartsAudio
<1>3. CASE Interaction
  BY <1>3 DEF Interaction, ResumeIfNeeded, Resumes
<1>4. CASE BrowserChanges
  BY <1>4 DEF BrowserChanges
<1>5. CASE Enter
  BY <1>5 DEF Enter, Fresh, Made
<1>6. CASE RoomEntered
  BY <1>6 DEF RoomEntered, ResumeIfNeeded, Resumes
<1>7. CASE RoomLost
  BY <1>7 DEF RoomLost
<1>8. CASE RoomLeft
  BY <1>8 DEF RoomLeft
<1>9. CASE Destroy
  BY <1>9 DEF Destroy
<1>10. CASE Deafen
  BY <1>10 DEF Deafen
<1>11. CASE Undeafen
  BY <1>11 DEF Undeafen, Starts, Rests
<1>12. CASE Unmute
  BY <1>12 DEF Unmute, Starts, Rests, ResumeIfNeeded, Resumes
<1>13. CASE DirectAnswered
  BY <1>13 DEF DirectAnswered, StartsAudio
<1>14. CASE DirectRefused
  BY <1>14 DEF DirectRefused
<1>15. CASE UNCHANGED rcVars
  BY <1>15 DEF rcVars
<1> QED
  BY <1>1, <1>2, <1>3, <1>4, <1>5, <1>6, <1>7, <1>8, <1>9, <1>10, <1>11, <1>12,
     <1>13, <1>14, <1>15 DEF RecoveryNext

\* The inductive invariant holds throughout.
LEMMA RecoveryInvariance == RecoverySpec => []RecoveryInvariant
  BY RecoveryBegins, RecoveryStep, PTL DEF RecoverySpec

\* Sound comes back in every run of the controller, with no bound on what
\* the browser and the user do: VoiceAudioContextController.ts:21-85 and the
\* calls of startAudio beside it.
THEOREM SoundReturns == RecoverySpec => []SoundComesBack
<1>1. RecoveryInvariant => SoundComesBack
  BY DEF RecoveryInvariant
<1> QED
  BY <1>1, RecoveryInvariance, PTL
=============================================================================
