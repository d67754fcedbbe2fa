---------------------------- MODULE MCVoiceRooms -----------------------------
(***************************************************************************)
(* Two voice channels in a guild of their own each, and the subscriptions  *)
(* of sockets to guilds, each in its turn: "scene" names the component a   *)
(* behaviour runs.  VoiceRooms is extended, so that its properties here are*)
(* those its theorems state; the slots x1, x2, ... hold the variables of   *)
(* GuildFeed.                                                              *)
(***************************************************************************)
EXTENDS VoiceRooms, TLC

CONSTANTS c1, c2, g1, g2, u1, s1, s2

VARIABLES
    scene,   \* the component whose turn it is
    x1, x2, x3, x4, x5, x6, x7, x8, x9, x10, x11, x12, x13, x14

slots == <<x1, x2, x3, x4, x5, x6, x7, x8, x9, x10, x11, x12, x13, x14>>
all == <<scene, slots, vars>>

GuildsApart == c1 :> g1 @@ c2 :> g2
\* One account with two sockets.
OneOwner == s1 :> u1 @@ s2 :> u1

Feed == INSTANCE GuildFeed WITH
    Conns <- {s1, s2}, Owner <- OneOwner, Guilds <- {g1, g2}, Cap <- 1, Overlap <- FALSE,
    Scope <- {"revoke", "fail"}, member <- x1, live <- x2, phase <- x3, clients <- x4,
    counts <- x5, stopped <- x6, leases <- x7, sets <- x8, memberships <- x9, queue <- x10,
    missed <- x11, jobs <- x12, unlisted <- x13, forgotten <- x14

ASSUME Bounds == Feed!FeedAssumption

\* Out of its turn a component stays as it began.
SuiteInit ==
    \/ /\ scene = "rooms" /\ Init
       /\ x1 = 0 /\ x2 = 0 /\ x3 = 0 /\ x4 = 0 /\ x5 = 0 /\ x6 = 0 /\ x7 = 0 /\ x8 = 0 /\ x9 = 0 /\ x10 = 0 /\ x11 = 0 /\ x12 = 0 /\ x13 = 0 /\ x14 = 0
    \/ scene = "feed" /\ Feed!Init /\ Init

\* Events that are dropped are left to ServerLiveness: here no queue is full.
SuiteNext ==
  /\ UNCHANGED scene
  /\ \/ scene = "rooms" /\ Next /\ UNCHANGED slots
     \/ scene = "feed" /\ Feed!Next /\ x11' = {} /\ UNCHANGED vars

SuiteSpec == SuiteInit /\ [][SuiteNext]_all /\ Fairness

-----------------------------------------------------------------------------
\* Between handlers a socket's guild set is its account's membership, but for a
\* handshake that the store has failed; and so is the entry that presence goes
\* by, but for an account that has come online by such a handshake, or whose
\* entry an expire of before a revocation has dropped.
SubscriptionsMatch == scene = "feed" => Feed!TypeOK /\ Feed!SubscriptionsMatch
=============================================================================
