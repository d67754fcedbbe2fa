------------------------------ MODULE AppShell ------------------------------
(***************************************************************************)
(* web/src/components/AppShell.vue: the menus, the profile card and the    *)
(* dialogs it opens over a guild, and the watchers that close them and     *)
(* leave the voice channel when what they are about goes away.             *)
(*                                                                         *)
(* The store changes in the steps the shell can tell apart (ClientSync has *)
(* the others), and so does the voice session (VoiceSession).  The     *)
(* guild "here" has a voice channel, two text channels and a message in    *)
(* each; "there" is somewhere else to be.                                  *)
(***************************************************************************)
EXTENDS Naturals, FiniteSets

CONSTANTS
    People,     \* other members of the guild
    MaxClicks,  \* bound: what the user opens
    MaxEvents   \* bound: what happens to the guild

AppShellAssumption == MaxClicks \in Nat /\ MaxEvents \in Nat

VARIABLES
    server,   \* what exists, and of which guilds the user is a member
    app,      \* the store: guilds, active guild, channels, messages
    voice,    \* on: in the voice channel; with: the others there
    menus,    \* the open menus, each with its target
    card,     \* profileCard and what was fetched for it
    fetches,  \* profiles asked for
    leave,    \* leaveTarget, and how far leaveGuild is
    admin,    \* the guild panel, and openGuildAdmin at its await
    managing, \* participantManagementPending
    spent,    \* bounds
    excused   \* what a crossing named below has left wrong

asVars == <<server, app, voice, menus, card, fetches, leave, admin, managing, spent, excused>>

Guilds == {"here", "there"}
Texts == {"text", "other"}
Channels == {"voice"} \cup Texts
None == "none"
Kinds == {"guild", "channel", "message", "participant", "account"}
NoVoice == [on |-> FALSE, with |-> {}]
NoCard == [user |-> None, data |-> None, loading |-> FALSE, failed |-> FALSE]

TypeOK ==
    /\ server \in [channels : SUBSET Channels, messages : SUBSET Texts, joined : SUBSET Guilds]
    /\ app \in [joined : SUBSET Guilds, active : Guilds \cup {None}, loaded : BOOLEAN,
                channels : SUBSET Channels, text : Texts \cup {None}, messages : SUBSET Texts]
    /\ voice \in [on : BOOLEAN, with : SUBSET People]
    /\ menus \in [Kinds -> Guilds \cup Channels \cup People \cup {"own", None}]
    /\ card \in [user : People \cup {None}, data : People \cup {None},
                 loading : BOOLEAN, failed : BOOLEAN]
    /\ \A f \in fetches : f \in [user : People, current : BOOLEAN]
    /\ leave \in [of : Guilds \cup {None}, stage : {"no", "posted", "reading"}]
    /\ admin \in [open : BOOLEAN, of : Guilds \cup {None}, back : Guilds \cup {None},
                  stage : {"no", "selecting", "returning"}]
    /\ managing \in BOOLEAN
    /\ excused \subseteq {"voice", "leave", "admin"}

First(S) == IF S = {} THEN None ELSE IF "text" \in S THEN "text" ELSE "other"
Lowest(S) == IF S = {} THEN None ELSE IF "here" \in S THEN "here" ELSE "there"

\* loadGuildBootstrap's answer, normalizeChannelState with it.
Loaded(a) ==
    LET channels == IF a.active = "here" THEN server.channels ELSE {}
        texts == channels \cap Texts
    IN  [a EXCEPT !.loaded = TRUE, !.channels = channels,
                  !.text = IF @ \in texts THEN @ ELSE First(texts),
                  !.messages = server.messages \cap texts]

\* selectGuild before its await.
Selected(a, g) ==
    [a EXCEPT !.active = g, !.loaded = FALSE, !.channels = {}, !.text = None, !.messages = {}]

Init ==
    /\ server = [channels |-> Channels, messages |-> Texts, joined |-> Guilds]
    /\ app = [joined |-> Guilds, active |-> "here", loaded |-> TRUE, channels |-> Channels,
              text |-> "text", messages |-> Texts]
    /\ voice = NoVoice /\ menus = [k \in Kinds |-> None] /\ card = NoCard /\ fetches = {}
    /\ leave = [of |-> None, stage |-> "no"] /\ managing = FALSE
    /\ admin = [open |-> FALSE, of |-> None, back |-> None, stage |-> "no"]
    /\ spent = [clicks |-> 0, events |-> 0] /\ excused = {}

Spend(bound, k) == spent[k] < bound /\ spent' = [spent EXCEPT ![k] = @ + 1]
Click == Spend(MaxClicks, "clicks")
Event == Spend(MaxEvents, "events")

-----------------------------------------------------------------------------
(* The watchers.  Those of the voice connection and of the leave dialog     *)
(* fire when what they watch turns false, and only then.                    *)

IsMember(a, v) == v.on => "here" \in a.joined
ChannelExists(a, v) == v.on /\ a.active = "here" /\ "voice" \in a.channels
MayStay(a, g) == g = None \/ g \in a.joined

Closed(m, kinds) == [k \in Kinds |-> IF k \in kinds THEN None ELSE m[k]]

Left(a, v) ==
    \/ ChannelExists(app, voice) /\ ~ChannelExists(a, v) /\ a.active = "here"
    \/ IsMember(app, voice) /\ ~IsMember(a, v)

\* Menus whose target is gone; all of them and the card, when the guild is.
Vanished(a, v, m) ==
    (IF a.active # app.active THEN Kinds \ {"account"} ELSE {})
      \cup {k \in {"channel"} : m[k] \notin a.channels}
      \cup {k \in {"message"} : m[k] # a.text \/ m[k] \notin a.messages \/ a.text # app.text}
      \cup {k \in {"participant"} : m[k] \notin v.with}

Stale(F) == {[f EXCEPT !.current = FALSE] : f \in F}

\* What the shell is after the store, the voice session, the menus and the
\* card became a, v, m and c, and the watchers have run.
Noticed(a, v, m, c, missed) ==
    LET stays == IF v.on /\ Left(a, v) THEN NoVoice ELSE v
        orphan == MayStay(app, leave.of) /\ ~MayStay(a, leave.of)
    IN
    /\ app' = a /\ voice' = stays /\ menus' = Closed(m, Vanished(a, stays, m))
    /\ IF a.active = app.active THEN card' = c
       ELSE card' = NoCard /\ fetches' = Stale(fetches)
    /\ leave' = IF orphan /\ leave.stage = "no" THEN [leave EXCEPT !.of = None] ELSE leave
    /\ excused' = {x \in excused : x = "voice" => voice.on /\ stays.on}
                    \cup {x \in {"leave"} : orphan /\ leave.stage # "no"} \cup missed

Watched(a, v, m, c) == Noticed(a, v, m, c, {})

\* The store has changed and nothing else.
Becomes(a) == Watched(a, voice, menus, card) /\ (a.active = app.active => UNCHANGED fetches)
Same == UNCHANGED <<card, fetches, leave, excused>>

-----------------------------------------------------------------------------
(* The store and the voice session. *)

Load ==
    /\ ~app.loaded /\ app.active # None /\ Becomes(Loaded(app))
    /\ UNCHANGED <<server, admin, managing, spent>>

\* The rail's button of a joined guild.
OpenGuild(g) ==
    /\ Click /\ g \in app.joined /\ g # app.active
    /\ Watched(Selected(app, g), voice, Closed(menus, {"account"}), card)
    /\ UNCHANGED <<server, admin, managing>>

SelectTextChannel(c) ==
    /\ Click /\ c \in app.channels \cap Texts /\ c # app.text
    /\ Becomes([app EXCEPT !.text = c])
    /\ UNCHANGED <<server, admin, managing>>

\* Told of only while its guild is shown.
ChannelDeleted(c) ==
    /\ Event /\ c \in server.channels
    /\ server' = [server EXCEPT !.channels = @ \ {c}, !.messages = @ \ {c}]
    /\ LET texts == (app.channels \cap Texts) \ {c}
           told == [app EXCEPT !.channels = @ \ {c}, !.messages = @ \ {c},
                               !.text = IF @ \in texts THEN @ ELSE First(texts)]
           unseen == voice.on /\ c = "voice" /\ ~ChannelExists(app, voice)
       IN
       Noticed(IF app.active = "here" THEN told ELSE app, voice, menus, card,
               {x \in {"voice"} : unseen})
    /\ UNCHANGED <<fetches, admin, managing>>

MessageDeleted(c) ==
    /\ Event /\ c \in server.messages
    /\ server' = [server EXCEPT !.messages = @ \ {c}]
    /\ Becomes(IF app.active = "here" THEN [app EXCEPT !.messages = @ \ {c}] ELSE app)
    /\ UNCHANGED <<admin, managing>>

\* guild_removed; bootstrap follows when the guild is shown.
Forgotten(a, g) ==
    [a EXCEPT !.joined = @ \ {g}, !.active = IF @ = g THEN None ELSE @, !.loaded = @ /\ a.active # g]

Removed(g) ==
    /\ Event /\ g \in server.joined
    /\ server' = [server EXCEPT !.joined = @ \ {g}]
    /\ Becomes(Forgotten(app, g))
    /\ UNCHANGED <<admin, managing>>

\* bootstrap before it asks for the guild.
Bootstrapped(a) ==
    LET kept == IF a.active \in server.joined THEN a.active ELSE Lowest(server.joined)
        b == [a EXCEPT !.joined = server.joined, !.active = kept, !.loaded = FALSE]
    IN  IF kept = None THEN Selected(b, None) ELSE b

Bootstrap ==
    /\ app.active = None /\ server.joined # {} /\ Becomes(Bootstrapped(app))
    /\ UNCHANGED <<server, admin, managing, spent>>

\* A join that ends, or the session ending: by the user or by the server.
JoinVoice ==
    /\ Click /\ ~voice.on /\ app.active = "here" /\ "voice" \in app.channels
    /\ Watched(app, [on |-> TRUE, with |-> {}], menus, card)
    /\ UNCHANGED <<server, fetches, admin, managing>>

VoiceEnds ==
    /\ voice.on /\ Watched(app, NoVoice, menus, card)
    /\ UNCHANGED <<server, fetches, admin, managing, spent>>

ParticipantChanges(u) ==
    /\ Event /\ voice.on
    /\ Watched(app, [voice EXCEPT !.with = IF u \in @ THEN @ \ {u} ELSE @ \cup {u}], menus, card)
    /\ UNCHANGED <<server, fetches, admin, managing>>

-----------------------------------------------------------------------------
(* Menus and cards. *)

\* What a menu may be about.
Targets(kind) ==
    CASE kind = "channel" -> app.channels
      [] kind = "message" -> {app.text} \cap app.messages
      [] kind = "participant" -> IF app.active = "here" /\ "voice" \in app.channels
                                   THEN voice.with ELSE {}

\* Each opener closes the other menus; the guild's leaves the account's open.
Opened(kind, target, others) == menus' = [Closed(menus, others) EXCEPT ![kind] = target]
OnlyMenus == Same /\ UNCHANGED <<server, app, voice, admin, managing>>

ToggleAccountMenu ==
    /\ Click /\ OnlyMenus
    /\ IF menus["account"] # None THEN menus' = Closed(menus, {"account"})
       ELSE Opened("account", "own", Kinds)

\* From the header, where it toggles, or from the rail.
OpenGuildActionMenu(g) ==
    /\ Click /\ OnlyMenus /\ g \in app.joined
    /\ \/ Opened("guild", g, Kinds \ {"account"})
       \/ menus["guild"] = g /\ g = app.active /\ menus' = Closed(menus, {"guild"})

OpenChannelActionMenu(c) ==
    /\ Click /\ OnlyMenus /\ c \in Targets("channel") /\ Opened("channel", c, Kinds)

OpenMessageActionMenu(c) ==
    /\ Click /\ OnlyMenus /\ c \in Targets("message") /\ Opened("message", c, Kinds)

OpenVoiceParticipantActionMenu(u) ==
    /\ Click /\ OnlyMenus /\ u \in Targets("participant")
    /\ IF menus["participant"] = u THEN menus' = Closed(menus, {"participant"})
       ELSE Opened("participant", u, Kinds)

CloseMenu(kind) ==
    /\ menus[kind] # None /\ menus' = Closed(menus, {kind}) /\ OnlyMenus /\ UNCHANGED spent

\* setParticipantServerMute and disconnectVoiceParticipant.
Manage ==
    /\ menus["participant"] # None /\ ~managing
    /\ managing' = TRUE /\ menus' = Closed(menus, {"participant"})
    /\ Same /\ UNCHANGED <<server, app, voice, admin, spent>>

Managed ==
    /\ managing /\ managing' = FALSE
    /\ Same /\ UNCHANGED <<server, app, voice, menus, admin, spent>>

CloseCard ==
    /\ card' = NoCard /\ fetches' = Stale(fetches)

OpenProfileCard(u) ==
    /\ Click
    /\ IF card.user = u THEN CloseCard /\ UNCHANGED menus
       ELSE /\ menus' = Closed(menus, Kinds)
            /\ card' = [user |-> u, data |-> None, loading |-> TRUE, failed |-> FALSE]
            /\ fetches' = Stale(fetches) \cup {[user |-> u, current |-> TRUE]}
    /\ UNCHANGED <<server, app, voice, leave, admin, managing, excused>>

CloseProfileCard ==
    /\ card.user # None /\ CloseCard
    /\ UNCHANGED <<server, app, voice, menus, leave, admin, managing, spent, excused>>

\* The window has crossed a width at which the layout changes.
CloseTemporaryDrawers ==
    /\ Click /\ CloseCard /\ menus' = Closed(menus, {"account", "participant"})
    /\ UNCHANGED <<server, app, voice, leave, admin, managing, excused>>

\* An answer is taken only for the card it was asked for.
FetchProfileCard_Unversioned(f, found) ==
    /\ card' = [card EXCEPT !.loading = FALSE, !.failed = ~found,
                            !.data = IF found THEN f.user ELSE @]
    /\ fetches' = fetches \ {f}
    /\ UNCHANGED <<server, app, voice, menus, leave, admin, managing, spent, excused>>

FetchProfileCard(f, found) ==
    /\ card' = IF ~f.current THEN card
               ELSE [card EXCEPT !.loading = FALSE, !.failed = ~found,
                                 !.data = IF found THEN f.user ELSE @]
    /\ fetches' = fetches \ {f}
    /\ UNCHANGED <<server, app, voice, menus, leave, admin, managing, spent, excused>>

-----------------------------------------------------------------------------
(* Leaving a guild. *)

\* The menu may be that of a guild left since: the watcher closes the dialog.
ConfirmLeaveGuild ==
    /\ menus["guild"] # None /\ leave.of = None /\ menus' = Closed(menus, {"guild"})
    /\ leave' = IF menus["guild"] \in app.joined THEN [leave EXCEPT !.of = menus["guild"]] ELSE leave
    /\ excused' = excused \ {"leave"}
    /\ UNCHANGED <<server, app, voice, card, fetches, admin, managing, spent>>

CloseLeaveGuildDialog ==
    /\ leave.of # None /\ leave.stage = "no"
    /\ leave' = [leave EXCEPT !.of = None] /\ excused' = excused \ {"leave"}
    /\ UNCHANGED <<server, app, voice, menus, card, fetches, admin, managing, spent>>

LeaveGuild ==
    /\ leave.of # None /\ leave.stage = "no"
    /\ leave' = [leave EXCEPT !.stage = "posted"]
    /\ UNCHANGED <<server, app, voice, menus, card, fetches, admin, managing, spent, excused>>

\* The membership ends and the page is told before the request is answered.
LeftOnServer ==
    /\ leave.stage = "posted" /\ leave.of \in server.joined
    /\ server' = [server EXCEPT !.joined = @ \ {leave.of}]
    /\ Becomes(Forgotten(app, leave.of))
    /\ UNCHANGED <<admin, managing, spent>>

\* Answered: voice is left, then the store read again.
LeaveAnswered ==
    /\ leave.stage = "posted" /\ leave.of \notin server.joined
    /\ leave' = [leave EXCEPT !.stage = "reading"]
    /\ voice' = IF leave.of = "here" THEN NoVoice ELSE voice
    /\ menus' = IF leave.of = "here" THEN Closed(menus, {"participant"}) ELSE menus
    /\ UNCHANGED <<server, app, card, fetches, admin, managing, spent, excused>>

LeaveDone ==
    /\ leave.stage = "reading" /\ leave' = [of |-> None, stage |-> "no"]
    /\ LET a == Bootstrapped(app) IN
       /\ app' = a
       /\ menus' = Closed(menus, Vanished(a, voice, menus))
       /\ IF a.active = app.active THEN UNCHANGED <<card, fetches>> ELSE CloseCard
       /\ voice' = IF Left(a, voice) THEN NoVoice ELSE voice
    /\ excused' = excused \ {"leave"}
    /\ UNCHANGED <<server, admin, managing, spent>>

\* Refused, or not read again: the dialog stays.
LeaveFails ==
    /\ leave.stage # "no" /\ leave' = [leave EXCEPT !.stage = "no"] /\ Event
    /\ UNCHANGED <<server, app, voice, menus, card, fetches, admin, managing, excused>>

-----------------------------------------------------------------------------
(* The guild panel, which shows the active guild. *)

OpenPanel == [open |-> TRUE, of |-> admin.of, back |-> None, stage |-> "no"]

OpenGuildAdmin ==
    /\ menus["guild"] # None /\ admin.stage = "no" /\ ~admin.open
    /\ LET g == menus["guild"]
           m == Closed(menus, {"guild"})
       IN  IF g = app.active \/ g \notin app.joined
             THEN /\ admin' = [OpenPanel EXCEPT !.of = app.active]
                  /\ menus' = m /\ Same /\ UNCHANGED <<app, voice>>
             ELSE /\ admin' = [admin EXCEPT !.of = g, !.back = app.active, !.stage = "selecting"]
                  /\ Watched(Selected(app, g), voice, m, card)
    /\ UNCHANGED <<server, managing, spent>>

\* Resolved, also when another choice has overtaken it.
AdminSelected ==
    /\ admin.stage = "selecting" /\ (admin.of = app.active => app.loaded)
    /\ admin' = OpenPanel
    /\ excused' = excused \cup {x \in {"admin"} : app.active # admin.of}
    /\ UNCHANGED <<server, app, voice, menus, card, fetches, leave, managing, spent>>

\* Failed: back to the guild of the click, if it is still joined and not shown,
\* or else the store is read again.
AdminFails ==
    /\ admin.stage = "selecting" /\ ~(admin.of = app.active /\ app.loaded) /\ Event
    /\ LET mayReturn == admin.back # None /\ admin.back \in app.joined IN
       Becomes(IF ~mayReturn THEN Bootstrapped(app)
               ELSE IF admin.back = app.active THEN app ELSE Selected(app, admin.back))
    /\ admin' = [open |-> FALSE, of |-> None, back |-> None, stage |-> "returning"]
    /\ UNCHANGED <<server, managing>>

AdminReturned ==
    /\ admin.stage = "returning" /\ admin' = [admin EXCEPT !.stage = "no"]
    /\ UNCHANGED <<server, app, voice, menus, card, fetches, leave, managing, spent, excused>>

EditChannel ==
    /\ menus["channel"] # None /\ admin.stage = "no"
    /\ menus' = Closed(menus, {"channel"}) /\ admin' = [OpenPanel EXCEPT !.of = app.active]
    /\ Same /\ UNCHANGED <<server, app, voice, managing, spent>>

CloseGuildAdmin ==
    /\ admin.open /\ admin' = [admin EXCEPT !.open = FALSE, !.of = None]
    /\ excused' = excused \ {"admin"}
    /\ UNCHANGED <<server, app, voice, menus, card, fetches, leave, managing, spent>>

-----------------------------------------------------------------------------
Next ==
    \/ Load \/ Bootstrap \/ JoinVoice \/ VoiceEnds \/ Manage \/ Managed \/ CloseProfileCard
    \/ \E g \in Guilds : OpenGuild(g) \/ Removed(g) \/ OpenGuildActionMenu(g)
    \/ \E c \in Channels : ChannelDeleted(c) \/ OpenChannelActionMenu(c)
    \/ \E c \in Texts : SelectTextChannel(c) \/ MessageDeleted(c) \/ OpenMessageActionMenu(c)
    \/ \E u \in People : ParticipantChanges(u) \/ OpenProfileCard(u) \/ OpenVoiceParticipantActionMenu(u)
    \/ ToggleAccountMenu \/ CloseTemporaryDrawers \/ \E k \in Kinds : CloseMenu(k)
    \/ \E f \in fetches, found \in BOOLEAN : FetchProfileCard(f, found)
    \/ ConfirmLeaveGuild \/ CloseLeaveGuildDialog \/ LeaveGuild \/ LeftOnServer
    \/ LeaveAnswered \/ LeaveDone \/ LeaveFails
    \/ OpenGuildAdmin \/ AdminSelected \/ AdminFails \/ AdminReturned \/ EditChannel
    \/ CloseGuildAdmin

Spec == Init /\ [][Next]_asVars

-----------------------------------------------------------------------------
\* The card shows what was fetched for its own user, waits only for an answer
\* that will be taken, and shows nothing when it is closed.
CardAgrees ==
    /\ card.data \in {None, card.user}
    /\ card.loading = \E f \in fetches : f.current
    /\ card.user # None => card.loading \/ card.failed \/ card.data # None
    /\ card.user = None => card = NoCard

\* A menu is about something that is still there, as is the leave dialog,
\* unless the membership ended while it was being left.
TargetsExist ==
    /\ \A k \in {"channel", "message", "participant"} : menus[k] \in Targets(k) \cup {None}
    /\ "leave" \in excused \/ MayStay(app, leave.of)

\* Voice is left with the guild and with its channel, unless the channel went
\* while another guild was shown.
VoiceBelongs ==
    voice.on => /\ "here" \in app.joined
                /\ (app.active = "here" /\ app.loaded /\ "voice" \notin app.channels)
                     => "voice" \in excused

ShellAgrees == CardAgrees /\ TargetsExist /\ VoiceBelongs
=============================================================================
