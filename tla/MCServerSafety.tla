--------------------------- MODULE MCServerSafety ----------------------------
(***************************************************************************)
(* Components of the server that share no state, small enough for TLC, each*)
(* in its turn: "scene" names the one a behaviour runs.                    *)
(* CallCoordinator is extended, so that its properties here are those its  *)
(* theorems state; the slots x1, x2, ... hold the variables of the others. *)
(***************************************************************************)
EXTENDS CallCoordinator, TLC

CONSTANTS
    u1, u2, u3, nobody, c1, c2

VARIABLES
    scene,   \* the component whose turn it is
    x1, x2, x3, x4, x5, x6, x7, x8, x9, x10, x11, x12, x13

slots == <<x1, x2, x3, x4, x5, x6, x7, x8, x9, x10, x11, x12, x13>>
all == <<scene, slots, vars>>

AllFacts == [admitted : BOOLEAN, reachable : BOOLEAN]
\* One account on a desktop client and in a browser.  It is u3: u1 and u2 are
\* alike in every component.
Together == c1 :> u3 @@ c2 :> u3
Alike == Permutations({u1, u2})
Kinds == c1 :> 3 @@ c2 :> 1

Hub == INSTANCE PresenceHub WITH
    Users <- {u3}, Conns <- {c1, c2}, Owner <- Together, Priority <- Kinds, MaxLeases <- 3,
    Scope <- {"device", "setting"}, phase <- x1, read <- x2, setting <- x3, clients <- x4,
    counts <- x5, kinds <- x6, fixedAway <- x7, device <- x8, leases <- x9, jobs <- x10,
    owed <- x11, buffer <- x12, seen <- x13

ASSUME Bounds == Hub!HubAssumption

\* Out of its turn the component this module extends stays as it began, and the
\* slots that no component needs hold nothing.
SuiteInit ==
    \/ /\ scene \in {"dialling", "observing"} /\ Init
       /\ x1 = 0 /\ x2 = 0 /\ x3 = 0 /\ x4 = 0 /\ x5 = 0 /\ x6 = 0 /\ x7 = 0 /\ x8 = 0 /\ x9 = 0 /\ x10 = 0 /\ x11 = 0 /\ x12 = 0 /\ x13 = 0
    \/ /\ scene = "hub" /\ Hub!Init /\ Init

\* Three accounts dial each other, two calls in all; nobody comes to a room.
Dialling == Next /\ UNCHANGED <<generation, refresh>>

\* Two accounts have one call, with its room: two tokens, and at most two
\* webhooks on their way at once.  u1 dials; that u2 does is its mirror image.
Observing ==
    /\ \/ dialled = 0 /\ StartCall(u1, u2, CHOOSE f \in Facts : f.admitted /\ f.reachable)
       \/ \E u \in {u1, u2} : CallRequests(1, u)
       \/ Server \/ Environment
    /\ Cardinality(hooks') <= 2

SuiteNext ==
  /\ UNCHANGED scene
  /\ \/ scene = "dialling" /\ Dialling /\ UNCHANGED slots
     \/ scene = "observing" /\ Observing /\ UNCHANGED slots
     \/ scene = "hub" /\ Hub!Next /\ UNCHANGED vars

SuiteSpec == SuiteInit /\ [][SuiteNext]_all

-----------------------------------------------------------------------------
(* Properties: those of the components, each while it has the turn. *)

\* The hub counts its leases, shows the best badge, and owes no list.
HubAgrees == scene = "hub" => Hub!TypeOK /\ Hub!HubAgrees
==============================================================================
