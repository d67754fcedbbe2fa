-------------------------- MODULE MCClientLiveness ---------------------------
(***************************************************************************)
(* Components of the client whose calls must end, each in its turn:        *)
(* "scene" names the one a behaviour runs, and the slots                   *)
(* x1, x2, ... hold the variables of that one, but for CallClient and       *)
(* VoiceSession, which are extended, with what is proved of them, and have  *)
(* their own.                                                               *)
(***************************************************************************)
EXTENDS CallClient, VoiceSession, TLC

VARIABLES
    scene,   \* the component whose turn it is
    x1, x2, x3, x4, x5, x6, x7, x8, x9, x10, x11, x12, x13

slots == <<x1, x2, x3, x4, x5, x6, x7, x8, x9, x10, x11, x12, x13>>
extended == <<vars, vsVars>>
all == <<scene, slots, extended>>

Microphone == INSTANCE MicrophonePublish WITH
    MaxCalls <- 2, MaxSessions <- 1, MaxFailures <- 1,
    Scope <- {"noise", "mode", "force", "failure", "closing"}, prefs <- x1, context <- x2,
    session <- x3, joined <- x4, revision <- x5, queue <- x6, threads <- x7, applied <- x8,
    fallback <- x9, mic <- x10, pipe <- x11, failures <- x12, declared <- x13

Muting == INSTANCE MuteDeafen WITH
    Attempts <- 2, MaxActs <- 1, MaxSessions <- 1, MaxUpsets <- 1, v <- x1, calls <- x2,
    spent <- x3, excused <- x4

Socket == INSTANCE ClientSync WITH
    Guilds <- {1}, Attempts <- 2, MaxChanges <- 1, MaxActs <- 0, MaxUpsets <- 1,
    MaxConnections <- 3, page <- x1, server <- x2, feed <- x3, calls <- x4, spent <- x5,
    behind <- x6

ASSUME Bounds ==
    /\ Microphone!PublishAssumption
    /\ VoiceSessionAssumption
    /\ Muting!MuteDeafenAssumption
    /\ Socket!ClientSyncAssumption

\* Out of their turn the components this module extends stay as they began, and
\* the slots that no component needs hold nothing.
Rested == Init /\ client.pref /\ SessionInit
Empty ==
    /\ x1 = 0 /\ x2 = 0 /\ x3 = 0 /\ x4 = 0 /\ x5 = 0 /\ x6 = 0 /\ x7 = 0 /\ x8 = 0 /\ x9 = 0 /\ x10 = 0 /\ x11 = 0 /\ x12 = 0 /\ x13 = 0

SuiteInit ==
    \/ scene = "calls" /\ Init /\ SessionInit /\ Empty
    \/ scene = "session" /\ Rested /\ Empty
    \/ scene = "microphone" /\ Microphone!Init /\ Rested
    \/ /\ scene = "muting" /\ Muting!Init /\ Rested
       /\ x5 = 0 /\ x6 = 0 /\ x7 = 0 /\ x8 = 0 /\ x9 = 0 /\ x10 = 0 /\ x11 = 0 /\ x12 = 0 /\ x13 = 0
    \/ /\ scene = "socket" /\ Socket!Init /\ Rested
       /\ x7 = 0 /\ x8 = 0 /\ x9 = 0 /\ x10 = 0 /\ x11 = 0 /\ x12 = 0 /\ x13 = 0

\* Of all that its bounds allow a component exercises so much in one behaviour.
Few ==
    /\ spent'.clicks + spent'.toggles + spent'.failures <= 2
    /\ used'.leaves + used'.upsets <= 2

SuiteNext ==
  /\ UNCHANGED scene
  /\ \/ scene = "calls" /\ Next /\ UNCHANGED <<slots, vsVars>> /\ Few
     \/ scene = "session" /\ SessionNext /\ UNCHANGED <<slots, vars>> /\ Few
     \/ scene = "microphone" /\ Microphone!Next /\ UNCHANGED extended
     \/ scene = "muting" /\ Muting!Next /\ UNCHANGED <<x5, x6, x7, x8, x9, x10, x11, x12, x13, extended>>
     \/ scene = "socket" /\ Socket!Next /\ UNCHANGED <<x7, x8, x9, x10, x11, x12, x13, extended>>

SuiteSpec == SuiteInit /\ [][SuiteNext]_all

\* A step of one component, in its turn.
InCalls(A) == scene = "calls" /\ A /\ UNCHANGED <<scene, slots, vsVars>> /\ Few
InSession(A) == scene = "session" /\ A /\ UNCHANGED <<scene, slots, vars>> /\ Few
InMicrophone(A) == scene = "microphone" /\ A /\ UNCHANGED <<scene, extended>>
InMuting(A) == scene = "muting" /\ A /\ UNCHANGED <<scene, extended, x5, x6, x7, x8, x9, x10, x11, x12, x13>>
InSocket(A) == scene = "socket" /\ A /\ UNCHANGED <<scene, extended, x7, x8, x9, x10, x11, x12, x13>>

\* The fairness of each component.
Fairness ==
    /\ WF_vars(InCalls(Requests \/ Joining \/ Watching \/ DeliverSignal))
    /\ WF_vsVars(InSession(Answers))
    /\ WF_slots(InMicrophone(Microphone!Begin))
    /\ WF_slots(InMicrophone(\E t \in Microphone!Threads : Microphone!Step(t)))
    /\ WF_slots(InMicrophone(Microphone!Answers))
    /\ WF_slots(InMuting(\/ \E c \in x2 : Muting!SyncAnswered(c)
                         \/ Muting!Turn(Muting!Answers)))
    /\ WF_slots(InSocket(\E c \in x4 : Socket!Answer(c)))
    /\ WF_slots(InSocket(Socket!OnMessage))
    /\ WF_slots(InSocket(Socket!Opened))
    /\ WF_slots(InSocket(Socket!ReconnectDue))

SuiteFairSpec == SuiteSpec /\ Fairness

-----------------------------------------------------------------------------
(* Properties: those of the components, each while it has the turn. *)

\* The microphone is published as it was last declared, under one suppressor.
MicrophoneAgrees ==
    scene = "microphone" =>
        /\ Microphone!TypeOK /\ Microphone!NeverTwoSuppressors /\ Microphone!NoStrayNode
        /\ Microphone!SettledAsDeclared

\* Only a current call asks LiveKit for anything.
OnlyCurrentCalls == [][scene = "microphone" => Microphone!AsksWhenCurrent]_slots

\* What the microphone was asked for is done in the end, and so is a toggle:
\* CallsEnd and TogglesEnd in one leads-to, for they are never both at work.
Waiting ==
    \/ scene = "microphone" /\ Microphone!Pending
    \/ scene = "muting" /\ Muting!Toggling
WaitsEnd == Waiting ~> ~Waiting

\* No attempt to connect to a channel lasts for ever, and a page that lost its
\* socket comes online again: AttemptsEnd and ComesOnline in one leads-to.
Apart ==
    \/ scene = "session" /\ Connecting
    \/ scene = "socket" /\ Socket!WasConnected
Together ==
    \/ scene = "session" /\ ~Connecting
    \/ scene = "socket" /\ Socket!IsOnlineAgain
ConnectsAtLast == Apart ~> Together
==============================================================================
