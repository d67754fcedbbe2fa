--------------------------- MODULE MCClientSafety ----------------------------
(***************************************************************************)
(* Components of the client that share no state, small enough for TLC, each*)
(* in its turn: "scene" names the one a behaviour runs.                    *)
(* PlaybackRecovery and MuteDeafen are extended, so that their properties  *)
(* here are those their theorems state; the slots x1, x2, ... hold the     *)
(* variables of the others.                                                *)
(***************************************************************************)
EXTENDS PlaybackRecovery, MuteDeafen, TLC

CONSTANTS
    u1, u2

VARIABLES
    scene,   \* the component whose turn it is
    x1, x2, x3, x4, x5, x6, x7, x8, x9, x10, x11, x12, x13, x14, x15, x16

slots == <<x1, x2, x3, x4, x5, x6, x7, x8, x9, x10, x11, x12, x13, x14, x15, x16>>
extended == <<rcVars, mdVars>>
all == <<scene, slots, extended>>

Device == INSTANCE VoiceDevices WITH
    Devices <- {1}, MaxConnections <- 2, MaxChanges <- 1, MaxChoices <- 1, MaxUpsets <- 1,
    world <- x1, conns <- x2, d <- x3, joining <- x4, news <- x5, done <- x6, missed <- x7

Sharing == INSTANCE ApplicationAudio WITH
    MaxStarts <- 1, MaxActs <- 2, MaxRooms <- 1, MaxUpsets <- 1, a <- x1, calls <- x2,
    desk <- x3, wire <- x4, live <- x5, spent <- x6, excused <- x7

Guild == INSTANCE ClientSync WITH
    Guilds <- {1, 2}, Attempts <- 2, MaxChanges <- 1, MaxActs <- 1, MaxUpsets <- 0,
    MaxConnections <- 2, page <- x1, server <- x2, feed <- x3, calls <- x4, spent <- x5,
    behind <- x6

Messages == INSTANCE ChannelMessages WITH
    PageSize <- 1, Retention <- 2, First <- 2, MaxMessages <- 3, MaxChanges <- 1, MaxActs <- 1,
    MaxLosses <- 1, chat <- x1, channel <- x2, feed <- x3, calls <- x4, spent <- x5,
    missed <- x6

Speech == INSTANCE SpeechDetection WITH
    Devices <- {1, 2}, MaxChanges <- 4, MaxFailures <- 1, want <- x1, e <- x2, l <- x3,
    starts <- x4, spent <- x5, excused <- x6

Presence == INSTANCE OwnPresence WITH
    AwayAfter <- 2, Confirm <- 2, MaxChanges <- 4, MaxTicks <- 6, p <- x1, server <- x2,
    posts <- x3, spent <- x4, heard <- x5, excused <- x6

Reminder == INSTANCE MutedReminder WITH
    Conditions <- {"muted", "connected"}, ArmDelay <- 1, Trigger <- 2, Rearm <- 2,
    Cooldown <- 5, Bubble <- 2, MaxFrames <- 12, MaxFlips <- 2, machine <- x1, missing <- x2,
    bubble <- x3, frames <- x4, reminded <- x5, flips <- x6

Writing == INSTANCE Composer WITH
    Members <- {1, 2}, MaxPending <- 2, MaxLength <- 6, MaxEdits <- 2, MaxActs <- 2, c <- x1,
    drafts <- x2, posts <- x3, spent <- x4, excused <- x5

Slash == INSTANCE SlashCommands WITH
    MaxActs <- 2, MaxWords <- 3, input <- x1, members <- x2, me <- x3, sending <- x4,
    answers <- x5, spent <- x6, given <- x7

Slot == INSTANCE SoundSlot WITH
    Presets <- {1, 2}, Playable <- {3, 4}, Broken <- {5}, MaxChanges <- 2, MaxFailures <- 2,
    MaxReloads <- 1, prefs <- x1, files <- x2, slot <- x3, queue <- x4, run <- x5, spent <- x6,
    excused <- x7

Route == INSTANCE SoundRoute WITH
    Hardware <- {2, 3}, MaxWishes <- 4, MaxFailures <- 2, MaxContexts <- 2, default <- x1,
    wish <- x2, context <- x3, sinks <- x4, applied <- x5, queue <- x6, run <- x7, spent <- x8,
    excused <- x9

Sounds == INSTANCE SoundPlayback WITH
    MaxTime <- 3, MaxChanges <- 3, MaxSignals <- 1, settings <- x1, playback <- x2, call <- x3,
    loop <- x4, sounds <- x5, context <- x6, now <- x7, spent <- x8

Blocks == INSTANCE CallPermissions WITH
    Users <- {u1}, MaxEvents <- 3, block <- x1, ended <- x2, view <- x3, calls <- x4,
    spent <- x5, stale <- x6

Heard == INSTANCE RemotePlayback WITH
    Users <- {u1}, Hold <- 2, MaxEvents <- 7, peer <- x1, store <- x2, rows <- x3, gain <- x4,
    voices <- x5, music <- x6, balance <- x7, set <- x8, unapplied <- x9, events <- x10,
    excused <- x11

Shell == INSTANCE AppShell WITH
    People <- {"ann"}, MaxClicks <- 2, MaxEvents <- 2, server <- x1, app <- x2, voice <- x3,
    menus <- x4, card <- x5, fetches <- x6, leave <- x7, admin <- x8, managing <- x9,
    spent <- x10, excused <- x11

Mine == INSTANCE OwnAccount WITH
    MaxSaves <- 1, MaxOthers <- 1, MaxUpsets <- 1, account <- x1, requests <- x2, feed <- x3,
    sync <- x4, user <- x5, spent <- x6, excused <- x7

Overlay == INSTANCE VoiceOverlay WITH
    People <- {u1}, Actors <- {u1, u2}, MaxVisible <- 1, MaxPokes <- 3, MaxEvents <- 3,
    room <- x1, prompts <- x2, timers <- x3, seq <- x4, bridge <- x5, enabled <- x6,
    config <- x7, shell <- x8, floor <- x9, signature <- x10, dirty <- x11, timer <- x12,
    configTimer <- x13, refused <- x14, raised <- x15, events <- x16

ASSUME Bounds ==
    /\ PlaybackRecoveryAssumption
    /\ Device!VoiceDevicesAssumption
    /\ Sharing!ApplicationAudioAssumption
    /\ Guild!ClientSyncAssumption
    /\ Messages!ChannelMessagesAssumption
    /\ Speech!SpeechDetectionAssumption
    /\ Presence!OwnPresenceAssumption
    /\ Reminder!MutedReminderAssumption
    /\ Writing!ComposerAssumption
    /\ Slash!SlashCommandsAssumption
    /\ Slot!SoundSlotAssumption
    /\ Route!SoundRouteAssumption
    /\ Sounds!SoundPlaybackAssumption
    /\ Blocks!CallPermissionsAssumption
    /\ Heard!RemotePlaybackAssumption
    /\ Shell!AppShellAssumption
    /\ Mine!OwnAccountAssumption
    /\ Overlay!VoiceOverlayAssumption

\* Out of their turn the components this module extends stay as they began, and
\* the slots that no component needs hold nothing.
RecoveryRests == RecoveryInit /\ kind = "channel" /\ ~deafened
MutingRests == Init /\ v = Idle
Rested == RecoveryRests /\ MutingRests

SuiteInit ==
    \/ /\ scene = "recovery" /\ RecoveryInit /\ MutingRests
       /\ x1 = 0 /\ x2 = 0 /\ x3 = 0 /\ x4 = 0 /\ x5 = 0 /\ x6 = 0 /\ x7 = 0 /\ x8 = 0 /\ x9 = 0 /\ x10 = 0 /\ x11 = 0 /\ x12 = 0 /\ x13 = 0 /\ x14 = 0 /\ x15 = 0 /\ x16 = 0
    \/ /\ scene = "devices" /\ Device!Init /\ Rested
       /\ x8 = 0 /\ x9 = 0 /\ x10 = 0 /\ x11 = 0 /\ x12 = 0 /\ x13 = 0 /\ x14 = 0 /\ x15 = 0 /\ x16 = 0
    \/ /\ scene = "sharing" /\ Sharing!Init /\ Rested
       /\ x8 = 0 /\ x9 = 0 /\ x10 = 0 /\ x11 = 0 /\ x12 = 0 /\ x13 = 0 /\ x14 = 0 /\ x15 = 0 /\ x16 = 0
    \/ /\ scene = "guild" /\ Guild!Init /\ Rested
       /\ x7 = 0 /\ x8 = 0 /\ x9 = 0 /\ x10 = 0 /\ x11 = 0 /\ x12 = 0 /\ x13 = 0 /\ x14 = 0 /\ x15 = 0 /\ x16 = 0
    \/ /\ scene = "messages" /\ Messages!Init /\ Rested
       /\ x7 = 0 /\ x8 = 0 /\ x9 = 0 /\ x10 = 0 /\ x11 = 0 /\ x12 = 0 /\ x13 = 0 /\ x14 = 0 /\ x15 = 0 /\ x16 = 0
    \/ /\ scene = "speech" /\ Speech!Init /\ Rested
       /\ x7 = 0 /\ x8 = 0 /\ x9 = 0 /\ x10 = 0 /\ x11 = 0 /\ x12 = 0 /\ x13 = 0 /\ x14 = 0 /\ x15 = 0 /\ x16 = 0
    \/ /\ scene = "muting" /\ Init /\ RecoveryRests
       /\ x1 = 0 /\ x2 = 0 /\ x3 = 0 /\ x4 = 0 /\ x5 = 0 /\ x6 = 0 /\ x7 = 0 /\ x8 = 0 /\ x9 = 0 /\ x10 = 0 /\ x11 = 0 /\ x12 = 0 /\ x13 = 0 /\ x14 = 0 /\ x15 = 0 /\ x16 = 0
    \/ /\ scene = "presence" /\ Presence!Init /\ Rested
       /\ x7 = 0 /\ x8 = 0 /\ x9 = 0 /\ x10 = 0 /\ x11 = 0 /\ x12 = 0 /\ x13 = 0 /\ x14 = 0 /\ x15 = 0 /\ x16 = 0
    \/ /\ scene = "reminder" /\ Reminder!Init /\ Rested
       /\ x7 = 0 /\ x8 = 0 /\ x9 = 0 /\ x10 = 0 /\ x11 = 0 /\ x12 = 0 /\ x13 = 0 /\ x14 = 0 /\ x15 = 0 /\ x16 = 0
    \/ /\ scene = "composer" /\ Writing!Init /\ Rested
       /\ x6 = 0 /\ x7 = 0 /\ x8 = 0 /\ x9 = 0 /\ x10 = 0 /\ x11 = 0 /\ x12 = 0 /\ x13 = 0 /\ x14 = 0 /\ x15 = 0 /\ x16 = 0
    \/ /\ scene = "commands" /\ Slash!Init /\ Rested
       /\ x8 = 0 /\ x9 = 0 /\ x10 = 0 /\ x11 = 0 /\ x12 = 0 /\ x13 = 0 /\ x14 = 0 /\ x15 = 0 /\ x16 = 0
    \/ /\ scene = "slot" /\ Slot!Init /\ Rested
       /\ x8 = 0 /\ x9 = 0 /\ x10 = 0 /\ x11 = 0 /\ x12 = 0 /\ x13 = 0 /\ x14 = 0 /\ x15 = 0 /\ x16 = 0
    \/ /\ scene = "route" /\ Route!Init /\ Rested
       /\ x10 = 0 /\ x11 = 0 /\ x12 = 0 /\ x13 = 0 /\ x14 = 0 /\ x15 = 0 /\ x16 = 0
    \/ /\ scene = "sounds" /\ Sounds!Init /\ Rested
       /\ x9 = 0 /\ x10 = 0 /\ x11 = 0 /\ x12 = 0 /\ x13 = 0 /\ x14 = 0 /\ x15 = 0 /\ x16 = 0
    \/ /\ scene = "blocks" /\ Blocks!Init /\ Rested
       /\ x7 = 0 /\ x8 = 0 /\ x9 = 0 /\ x10 = 0 /\ x11 = 0 /\ x12 = 0 /\ x13 = 0 /\ x14 = 0 /\ x15 = 0 /\ x16 = 0
    \/ /\ scene = "playback" /\ Heard!Init /\ Rested
       /\ x12 = 0 /\ x13 = 0 /\ x14 = 0 /\ x15 = 0 /\ x16 = 0
    \/ /\ scene = "shell" /\ Shell!Init /\ Rested
       /\ x12 = 0 /\ x13 = 0 /\ x14 = 0 /\ x15 = 0 /\ x16 = 0
    \/ /\ scene = "account" /\ Mine!Init /\ Rested
       /\ x8 = 0 /\ x9 = 0 /\ x10 = 0 /\ x11 = 0 /\ x12 = 0 /\ x13 = 0 /\ x14 = 0 /\ x15 = 0 /\ x16 = 0
    \/ /\ scene = "overlay" /\ Overlay!Init /\ Rested

SuiteNext ==
  /\ UNCHANGED scene
  /\ \/ scene = "recovery" /\ RecoveryNext /\ UNCHANGED <<slots, mdVars>>
     \/ scene = "devices" /\ Device!Next /\ UNCHANGED <<x8, x9, x10, x11, x12, x13, x14, x15, x16, extended>>
     \/ scene = "sharing" /\ Sharing!Next /\ UNCHANGED <<x8, x9, x10, x11, x12, x13, x14, x15, x16, extended>>
     \/ scene = "guild" /\ Guild!Next /\ UNCHANGED <<x7, x8, x9, x10, x11, x12, x13, x14, x15, x16, extended>>
     \/ scene = "messages" /\ Messages!Next /\ UNCHANGED <<x7, x8, x9, x10, x11, x12, x13, x14, x15, x16, extended>>
     \/ scene = "speech" /\ Speech!Next /\ UNCHANGED <<x7, x8, x9, x10, x11, x12, x13, x14, x15, x16, extended>>
     \/ scene = "muting" /\ Next /\ UNCHANGED <<slots, rcVars>>
     \/ scene = "presence" /\ Presence!Next /\ UNCHANGED <<x7, x8, x9, x10, x11, x12, x13, x14, x15, x16, extended>>
     \/ scene = "reminder" /\ Reminder!Next /\ UNCHANGED <<x7, x8, x9, x10, x11, x12, x13, x14, x15, x16, extended>>
     \/ scene = "composer" /\ Writing!Next /\ UNCHANGED <<x6, x7, x8, x9, x10, x11, x12, x13, x14, x15, x16, extended>>
     \/ scene = "commands" /\ Slash!Next /\ UNCHANGED <<x8, x9, x10, x11, x12, x13, x14, x15, x16, extended>>
     \/ scene = "slot" /\ Slot!Next /\ UNCHANGED <<x8, x9, x10, x11, x12, x13, x14, x15, x16, extended>>
     \/ scene = "route" /\ Route!Next /\ UNCHANGED <<x10, x11, x12, x13, x14, x15, x16, extended>>
     \/ scene = "sounds" /\ Sounds!Next /\ UNCHANGED <<x9, x10, x11, x12, x13, x14, x15, x16, extended>>
     \/ scene = "blocks" /\ Blocks!Next /\ UNCHANGED <<x7, x8, x9, x10, x11, x12, x13, x14, x15, x16, extended>>
     \/ scene = "playback" /\ Heard!Next /\ UNCHANGED <<x12, x13, x14, x15, x16, extended>>
     \/ scene = "shell" /\ Shell!Next /\ UNCHANGED <<x12, x13, x14, x15, x16, extended>>
     \/ scene = "account" /\ Mine!Next /\ UNCHANGED <<x8, x9, x10, x11, x12, x13, x14, x15, x16, extended>>
     \/ scene = "overlay" /\ Overlay!Next /\ UNCHANGED extended

SuiteSpec == SuiteInit /\ [][SuiteNext]_all

\* Of all that its bounds allow a component exercises so much in one behaviour.
Few ==
    /\ scene = "devices" => x6.connections + x6.changes + x6.choices + x6.upsets <= 3
    /\ scene = "sharing" => x6.starts + x6.acts + x6.upsets <= 3
    /\ scene = "muting" => spent.acts + spent.upsets <= 2
    /\ scene = "route" => x8.wishes + x8.failures <= 4
    /\ scene = "sounds" => x8.changes + x8.signals <= 3
    /\ scene = "account" => x6.saves + x6.others + x6.upsets <= 2

-----------------------------------------------------------------------------
(* Properties: those of the components, each while it has the turn. *)

TypesOK ==
    /\ RecoveryTypeOK /\ TypeOK
    /\ scene = "devices" => Device!TypeOK
    /\ scene = "sharing" => Sharing!TypeOK
    /\ scene = "guild" => Guild!TypeOK
    /\ scene = "messages" => Messages!TypeOK
    /\ scene = "speech" => Speech!TypeOK
    /\ scene = "presence" => Presence!TypeOK
    /\ scene = "reminder" => Reminder!TypeOK
    /\ scene = "composer" => Writing!TypeOK
    /\ scene = "commands" => Slash!TypeOK
    /\ scene = "slot" => Slot!TypeOK
    /\ scene = "route" => Route!TypeOK
    /\ scene = "sounds" => Sounds!TypeOK
    /\ scene = "blocks" => Blocks!TypeOK
    /\ scene = "playback" => Heard!TypeOK
    /\ scene = "shell" => Shell!TypeOK
    /\ scene = "account" => Mine!TypeOK
    /\ scene = "overlay" => Overlay!TypeOK

\* What is heard from and sent to each device is what the user chose.
DevicesFollow == scene = "devices" => Device!DevicesFollow

\* The shared audio is published, paused and shown alike.
SharingAgrees == scene = "sharing" => Sharing!SharingAgrees

\* Each participant is heard at the volume chosen.
HeardAgrees == scene = "playback" => Heard!PlaybackAgrees

\* Guild, members, blocks and the user's own account on the page are the
\* server's, and what is open on it is about something that is there.
ShownAgrees ==
    /\ scene = "shell" => Shell!ShellAgrees
    /\ scene = "account" => Mine!AccountAgrees
    /\ scene = "guild" => Guild!ShownAgrees
    /\ scene = "blocks" => Blocks!BlocksAgree

\* What is read and what is written are what was sent and meant.
TextAgrees ==
    /\ scene = "messages" => Messages!MessagesAgree
    /\ scene = "composer" => Writing!MentionsAreWritten
    /\ scene = "commands" => Slash!CommandsAreAnswered

\* What the microphone hears is captured while wanted, counts as the user's
\* presence, and reminds him only when he is muted and speaks on.
SpeechAgrees ==
    /\ scene = "speech" => Speech!CaptureFollows
    /\ scene = "presence" => Presence!PresenceAgrees
    /\ scene = "reminder" => Reminder!RemindersAreDeserved

\* A sound is the one stored, played where wished, as long as its call rings.
SoundsAgree ==
    /\ scene = "slot" => Slot!SlotIsStored
    /\ scene = "route" => Route!SoundsGoWhereWished
    /\ scene = "sounds" => Sounds!LoopFollowsCall

\* The overlay window shows what the page last meant it to.
OverlayAgrees == scene = "overlay" => Overlay!OverlayAgrees
==============================================================================
