------------------------------ MODULE OwnPresence ------------------------------
(***************************************************************************)
(* The account's own presence as its browser keeps it:                      *)
(* web/src/stores/voice-presence.ts, presence-activity.ts and the account   *)
(* update of app.ts.  Frames of the speech detection engine and a timer say *)
(* whether the person is there; the setting, which the account stores, may  *)
(* fix "away"; each change of what is shown is told to the server.          *)
(*                                                                         *)
(* Time is counted in ticks: the away timer runs for AwayAfter of them, an  *)
(* utterance is confirmed after Confirm speaking frames.                    *)
(***************************************************************************)
EXTENDS Naturals, Sequences, FiniteSets

CONSTANTS
    AwayAfter,   \* ticks of the away timer (ten minutes)
    Confirm,     \* speaking frames that confirm presence (600 ms)
    MaxChanges,  \* bound: the person's and the environment's changes
    MaxTicks     \* bound: ticks and frames

OwnPresenceAssumption ==
    AwayAfter \in Nat \ {0} /\ Confirm \in Nat \ {0} /\ MaxChanges \in Nat /\ MaxTicks \in Nat

VARIABLES
    p,       \* the page: tracker, shown status, setting, connection
    server,  \* the account's stored setting, its events on their way
    posts,   \* setStatusSetting calls under way
    spent,   \* bounds
    heard,   \* history: frames in a row that count, ticks since the last utterance
    excused  \* history: a race the code does not settle

opVars == <<p, server, posts, spent, heard, excused>>

Statuses == {"online", "away"}

Init ==
    /\ p = [setting |-> "auto", auto |-> "online", account |-> FALSE, user |-> TRUE,
            permitted |-> FALSE, socket |-> FALSE, told |-> {},
            status |-> "online", running |-> FALSE, ignored |-> FALSE, speech |-> 0, timer |-> {}]
    /\ server = [fixed |-> FALSE, events |-> <<>>]
    /\ posts = {}
    /\ spent = [changes |-> 0, ticks |-> 0]
    /\ heard = [frames |-> 0, silent |-> 0]
    /\ excused = FALSE

TypeOK ==
    /\ p.setting \in {"auto", "fixed"} /\ p.auto \in Statuses /\ p.status \in Statuses
    /\ p.timer \in {{}} \cup {{t} : t \in 0 .. AwayAfter - 1}
    /\ p.told \in {{}, {"online"}, {"away"}} /\ (p.told # {} => p.socket)
    /\ ~p.running => p.status = "online" /\ p.timer = {}
    /\ p.running => (p.status = "away" <=> p.timer = {})

-----------------------------------------------------------------------------
(* The tracker. *)

Armed(x) == [x EXCEPT !.timer = {0}]
TrackerStart(x) == Armed([x EXCEPT !.running = TRUE, !.speech = 0, !.status = "online"])
TrackerStop(x) == [x EXCEPT !.running = FALSE, !.speech = 0, !.status = "online", !.timer = {}]

SetSpeechIgnored(x, ignored) ==
    [x EXCEPT !.ignored = ignored, !.speech = IF ignored THEN 0 ELSE @]

OnSpeechFrame(x, speaking) ==
    IF ~x.running \/ x.ignored THEN x
    ELSE IF ~speaking THEN [x EXCEPT !.speech = 0]
    ELSE IF x.speech + 1 < Confirm THEN [x EXCEPT !.speech = @ + 1]
    ELSE Armed([x EXCEPT !.speech = Confirm, !.status = "online"])

-----------------------------------------------------------------------------
(* The module around it. *)

Shown(x) == IF x.setting = "fixed" THEN "away" ELSE x.auto

\* sendDeviceStatus reaches the server over an open connection only.
Tell(x, status) == IF x.socket THEN [x EXCEPT !.told = {status}] ELSE x

Follow(x) == Tell([x EXCEPT !.auto = x.status], x.status)

SettingChanged(x) == IF x.setting = "auto" THEN Follow(TrackerStart(x)) ELSE Tell(x, "away")

Set(x, setting) == IF x.setting = setting THEN x ELSE SettingChanged([x EXCEPT !.setting = setting])

Named(fixed) == IF fixed THEN "fixed" ELSE "auto"

\* applyAccountUpdate: the watcher runs when the account's value changes.
AccountUpdate(x, fixed) ==
    IF ~x.user \/ x.account = fixed THEN x
    ELSE Set([x EXCEPT !.account = fixed], Named(fixed))

\* History: a started tracker begins to listen anew.
Heard(x) ==
    [silent |-> IF x.timer = {0} /\ p.timer # {0} THEN 0 ELSE heard.silent,
     frames |-> IF x.speech = 0 \/ x.ignored # p.ignored THEN 0 ELSE heard.frames]

Act(x) ==
    /\ spent.changes < MaxChanges
    /\ spent' = [spent EXCEPT !.changes = @ + 1]
    /\ p' = x
    /\ heard' = Heard(x)

Count(counting) ==
    /\ spent.ticks < MaxTicks
    /\ spent' = [spent EXCEPT !.ticks = @ + 1]
    /\ counting

-----------------------------------------------------------------------------
(* Actions. *)

\* A frame of the running engine.
Frame ==
    \E speaking \in BOOLEAN :
        /\ p.permitted /\ p.user
        /\ Count(TRUE)
        /\ LET t == IF p.setting = "auto" THEN OnSpeechFrame(p, speaking) ELSE p
               counts == speaking /\ p.setting = "auto" /\ p.running /\ ~p.ignored
               row == IF counts THEN heard.frames + 1 ELSE IF p.setting = "auto" THEN 0 ELSE heard.frames
           IN
           /\ p' = IF p.setting = "auto" /\ t.status # t.auto THEN Follow(t) ELSE t
           /\ heard' = [frames |-> IF row > Confirm THEN Confirm ELSE row,
                        silent |-> IF counts /\ row >= Confirm THEN 0 ELSE heard.silent]
        /\ UNCHANGED <<server, posts, excused>>

\* Time passes; the timer says only to the tracker that it ran out.
Tick ==
    /\ Count(\E t \in p.timer :
                p' = IF t + 1 = AwayAfter THEN [p EXCEPT !.timer = {}, !.status = "away"]
                     ELSE [p EXCEPT !.timer = {t + 1}])
    /\ heard' = [heard EXCEPT !.silent = IF @ < AwayAfter THEN @ + 1 ELSE @]
    /\ UNCHANGED <<server, posts, excused>>

\* The engine fails: the tracker stops, what is shown follows, nobody is told.
EngineFails ==
    /\ p.permitted
    /\ Act([TrackerStop(p) EXCEPT !.auto = "online"])
    /\ excused' = (excused \/ p.auto # "online")
    /\ UNCHANGED <<server, posts>>

Permission ==
    /\ Act(IF p.permitted THEN TrackerStop([p EXCEPT !.permitted = FALSE])
           ELSE TrackerStart([p EXCEPT !.permitted = TRUE]))
    /\ UNCHANGED <<server, posts, excused>>

Mute == Act(SetSpeechIgnored(p, ~p.ignored)) /\ UNCHANGED <<server, posts, excused>>

\* Logout clears the account: the setting turns "auto" and, if it was fixed,
\* the tracker is started after it was stopped.
Logout ==
    /\ p.user
    /\ Act(Set(TrackerStop([p EXCEPT !.user = FALSE, !.account = FALSE, !.socket = FALSE, !.told = {}]),
               IF p.account THEN "auto" ELSE p.setting))
    /\ server' = [server EXCEPT !.events = <<>>]
    /\ excused' = (excused \/ posts # {})
    /\ UNCHANGED posts

Login == ~p.user /\ Act(AccountUpdate([p EXCEPT !.user = TRUE], server.fixed)) /\ UNCHANGED <<server, posts, excused>>

\* The connection is up and synchronized with the stored setting, or breaks.
Online ==
    /\ p.user /\ ~p.socket
    /\ LET x == AccountUpdate([p EXCEPT !.socket = TRUE], server.fixed) IN Act(Tell(x, Shown(x)))
    /\ UNCHANGED <<server, posts, excused>>

Offline ==
    /\ p.socket
    /\ Act([p EXCEPT !.socket = FALSE, !.told = {}])
    /\ server' = [server EXCEPT !.events = <<>>]
    /\ UNCHANGED <<posts, excused>>

\* setStatusSetting.
SetStatusSetting ==
    \E setting \in {"auto", "fixed"} \ {p.setting} :
        /\ p.user
        /\ Act(Set(p, setting))
        /\ posts' = posts \cup {[id |-> spent.changes, fixed |-> setting = "fixed", back |-> p.setting, at |-> "sent"]}
        /\ excused' = (excused \/ posts # {} \/ server.events # <<>>)
        /\ UNCHANGED server

\* The server stores a setting, of this page or of another, and tells the page.
Store(fixed) ==
    server' = [fixed |-> fixed, events |-> IF p.socket THEN Append(server.events, fixed) ELSE server.events]

Stored ==
    \E c \in posts :
        /\ c.at = "sent"
        /\ Store(c.fixed)
        /\ posts' = (posts \ {c}) \cup {[c EXCEPT !.at = "stored"]}
        /\ UNCHANGED <<p, spent, heard, excused>>

StoredElsewhere ==
    /\ Act(p)
    /\ Store(~server.fixed)
    /\ excused' = (excused \/ posts # {})
    /\ UNCHANGED posts

Told ==
    /\ server.events # <<>>
    /\ p' = AccountUpdate(p, Head(server.events))
    /\ heard' = Heard(p')
    /\ server' = [server EXCEPT !.events = Tail(@)]
    /\ excused' = (excused \/ \E c \in posts : c.fixed # Head(server.events))
    /\ UNCHANGED <<posts, spent>>

\* The answer of setStatusSetting, or its failure.
Answered ==
    \E c \in posts :
        /\ c.at = "stored"
        /\ p' = AccountUpdate(p, c.fixed)
        /\ heard' = Heard(p')
        /\ posts' = posts \ {c}
        /\ UNCHANGED <<server, spent, excused>>

\* No answer: the setting goes back, also when the server has stored it.
Failed ==
    \E c \in posts :
        /\ p' = Set(p, c.back)
        /\ heard' = Heard(p')
        /\ posts' = posts \ {c}
        /\ excused' = (excused \/ c.at = "stored" \/ Named(p.account) # c.back)
        /\ UNCHANGED <<server, spent>>

Next ==
    \/ Frame \/ Tick \/ EngineFails \/ Permission \/ Mute \/ Logout \/ Login \/ Online \/ Offline
    \/ SetStatusSetting \/ Stored \/ StoredElsewhere \/ Told \/ Answered \/ Failed

Spec == Init /\ [][Next]_opVars

-----------------------------------------------------------------------------
(* Properties. *)

\* Unless a race the code does not settle happened: the server was told what
\* is shown, over this connection; when nothing is on its way the setting is
\* the stored one; and "away" is shown on its own only after the timer's time
\* without a confirmed utterance spoken unmuted, no part of which was spoken
\* across a mute (voice-presence.ts:31-88, presence-activity.ts:42-91).
PresenceAgrees ==
    excused \/
    /\ p.socket => p.told = {Shown(p)}
    /\ p.socket /\ posts = {} /\ server.events = <<>> => p.setting = Named(server.fixed)
    /\ p.status = "away" => heard.silent >= AwayAfter
    /\ p.speech <= heard.frames
=============================================================================
