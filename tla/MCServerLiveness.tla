-------------------------- MODULE MCServerLiveness ---------------------------
(***************************************************************************)
(* Components of the server whose work must end, each in its turn, and     *)
(* OnlineTime: "scene" names the one a behaviour runs.                     *)
(* OnlineTime is extended, so that its properties here are those its       *)
(* theorems state; the slots x1, x2, ... hold the variables of the others. *)
(***************************************************************************)
EXTENDS OnlineTime, TLC

CONSTANTS
    u1, u2, nobody, c1, c2, g1, g2, none

VARIABLES
    scene,   \* the component whose turn it is
    x1, x2, x3, x4, x5, x6, x7, x8, x9, x10, x11, x12, x13, x14, x15

slots == <<x1, x2, x3, x4, x5, x6, x7, x8, x9, x10, x11, x12, x13, x14, x15>>
all == <<scene, slots, vars>>

OnlyRinging == {[admitted |-> TRUE, reachable |-> TRUE]}
\* Two accounts with a socket each, and one account with two.
OneEach == c1 :> u1 @@ c2 :> u2
Together == c1 :> u1 @@ c2 :> u1
Kinds == c1 :> 3 @@ c2 :> 1

Calls == INSTANCE CallCoordinator WITH
    Users <- {u1, u2}, Nobody <- nobody, MaxCalls <- 1, MaxGen <- 1, Facts <- OnlyRinging,
    Scope <- {"refresh", "lose"}, calls <- x1, callTargets <- x2, generation <- x3,
    dialled <- x4, timers <- x5, tails <- x6, mints <- x7, kicks <- x8, refresh <- x9,
    stale <- x10, sent <- x11, tokens <- x12, conn <- x13, open <- x14, hooks <- x15

Hub == INSTANCE PresenceHub WITH
    Users <- {u1, u2}, Conns <- {c1, c2}, Owner <- OneEach, Priority <- Kinds, MaxLeases <- 2,
    Scope <- {"revoke"}, phase <- x1, read <- x2, setting <- x3, clients <- x4, counts <- x5,
    kinds <- x6, fixedAway <- x7, device <- x8, leases <- x9, jobs <- x10, owed <- x11,
    buffer <- x12, seen <- x13

Feed == INSTANCE GuildFeed WITH
    Users <- {u1}, Conns <- {c1, c2}, Owner <- Together, Guilds <- {g1}, None <- none,
    Cap <- 1, Overlap <- FALSE, Scope <- {}, member <- x1, live <- x2, phase <- x3, clients <- x4,
    stopped <- x5, leases <- x6, sets <- x7, memberships <- x8, queue <- x9, missed <- x10,
    jobs <- x11, counts <- x12, unlisted <- x13, forgotten <- x14

ASSUME Bounds ==
    /\ TimeAssumption
    /\ Hub!HubAssumption
    /\ Feed!FeedAssumption

\* Out of its turn the component this module extends stays as it began, and the
\* slots that no component needs hold nothing.
SuiteInit ==
    \/ /\ scene = "time" /\ Init
       /\ x1 = 0 /\ x2 = 0 /\ x3 = 0 /\ x4 = 0 /\ x5 = 0 /\ x6 = 0 /\ x7 = 0 /\ x8 = 0 /\ x9 = 0 /\ x10 = 0 /\ x11 = 0 /\ x12 = 0 /\ x13 = 0 /\ x14 = 0 /\ x15 = 0
    \/ /\ scene = "calls" /\ Calls!Init /\ Init
    \/ /\ scene = "hub" /\ Hub!Init /\ Init
       /\ x14 = 0 /\ x15 = 0
    \/ /\ scene = "feed" /\ Feed!Init /\ Init
       /\ x15 = 0

SuiteNext ==
  /\ UNCHANGED scene
  /\ \/ scene = "time" /\ Next /\ UNCHANGED slots
     \/ scene = "calls" /\ Calls!Next /\ UNCHANGED vars
     \/ scene = "hub" /\ Hub!Next /\ UNCHANGED <<x14, x15, vars>>
     \/ scene = "feed" /\ Feed!Next /\ UNCHANGED <<x15, vars>>

SuiteSpec == SuiteInit /\ [][SuiteNext]_all

\* A step of one component, in its turn.
InCalls(A) == scene = "calls" /\ A /\ UNCHANGED <<scene, vars>>
InHub(A) == scene = "hub" /\ A /\ UNCHANGED <<scene, vars, x14, x15>>
InFeed(A) == scene = "feed" /\ A /\ UNCHANGED <<scene, vars, x15>>

\* The fairness of each component.
CallFairness ==
    /\ WF_slots(InCalls(Calls!TimeoutCall(1)))
    /\ WF_slots(InCalls(\E t \in x6 : Calls!RunTail(t)))
    /\ WF_slots(InCalls(\E m \in x7 : Calls!IssueToken(m) \/ Calls!TokenFails(m)))
    /\ WF_slots(InCalls(\E k \in x8 : Calls!Kick(k)))
    /\ WF_slots(InCalls(\E h \in x15 : Calls!DeliverWebhook(h)))
    /\ WF_slots(InCalls(Calls!RefreshBegin))
    /\ SF_slots(InCalls(Calls!RefreshRead(1)))
    /\ SF_slots(InCalls(Calls!RefreshApply))
    /\ \A u \in {u1, u2} : WF_slots(InCalls(Calls!LeaveEnded(1, u)))

HubFairness ==
    /\ \A c \in {c1, c2} : /\ WF_slots(InHub(Hub!WritePresence(c)))
                           /\ WF_slots(InHub(Hub!Register(c)))
    /\ \A u \in {u1, u2} : WF_slots(InHub(Hub!Expire(u)))
    /\ WF_slots(InHub(\E j \in x10 : Hub!SetUserFixedAway(j) \/ Hub!DisconnectUser(j)))
    /\ WF_slots(InHub(x11 /\ Hub!BroadcastPresence))

FeedFairness ==
    \A c \in {c1, c2} : /\ WF_slots(InFeed(Feed!CloseStopped(c)))
                        /\ WF_slots(InFeed(Feed!Expire(c)))

FairSpec == SuiteSpec /\ CallFairness /\ HubFairness /\ FeedFairness

-----------------------------------------------------------------------------
(* Properties: those of the components, each while it has the turn. *)

\* No account is shown online without a socket or a running lease, and what is
\* kept of its time is well typed.
NoGhosts == TypeOK /\ (scene = "hub" => Hub!TypeOK /\ Hub!NoGhosts)

\* Accounts are alike, and so are sockets: the properties below speak of one.
\* Two leads-to of different components are one, for they are never both at work.

\* Every ringing call stops ringing, and a socket that missed an event does not
\* stay open with the gap: RingingEnds and GapsClose.
Stalled ==
    \/ scene = "calls" /\ Calls!Rings(1)
    \/ scene = "feed" /\ Feed!HasGap(c1)
StallsEnd == Stalled ~> ~Stalled

\* Every ended call leaves the coordinator's memory, and an account whose last
\* socket has gone is offline in the end: EndedIsEvicted and GoesOffline.
Leaving ==
    \/ scene = "calls" /\ Calls!IsOver(1)
    \/ scene = "hub" /\ Hub!Deserted(u1)
Left ==
    \/ scene = "calls" /\ Calls!IsGone(1)
    \/ scene = "hub" /\ (Hub!Offline(u1) \/ ~Hub!Deserted(u1))
LeavingEnds == Leaving ~> Left

\* The absence of an account reaches the other's client.
Absent == scene = "hub" /\ Hub!Offline(u1)
Shown == scene = "hub" /\ Hub!Shows(c2, u1)
AbsenceIsSeen == <>[]Absent => []<>~Shown
==============================================================================
