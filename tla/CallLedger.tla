----------------------------- MODULE CallLedger -----------------------------
(***************************************************************************)
(* What the 1:1 call service promises, with none of its machinery: every   *)
(* call goes through its phases once and in order, and the calls that ring *)
(* or run at the same moment have no party in common.  CallCoordinator is  *)
(* shown to implement this specification.                                  *)
(***************************************************************************)
EXTENDS Naturals

CONSTANTS Users, MaxCalls, Nobody

CallIds == 1..MaxCalls

VARIABLES phase,    \* phase[c] is where call c stands
          parties   \* parties[c] is the set of its two users while it is known

vars == <<phase, parties>>

Phases == {"none", "ringing", "active", "ended", "gone"}
Live == {"ringing", "active"}

TypeOK == /\ phase \in [CallIds -> Phases]
          /\ parties \in [CallIds -> SUBSET Users]

Engaged(u) == \E c \in CallIds : phase[c] \in Live /\ u \in parties[c]

Init == /\ phase = [c \in CallIds |-> "none"]
        /\ parties = [c \in CallIds |-> {}]

\* A dialled call rings only if neither party is engaged; it is recorded as
\* already ended when it is refused.
Dial(c, pair, first) ==
    /\ phase[c] = "none"
    /\ first = "ringing" => \A u \in pair : ~Engaged(u)
    /\ phase' = [phase EXCEPT ![c] = first]
    /\ parties' = [parties EXCEPT ![c] = pair]

\* The phases a call may move to from the one it is in.
Successors(p) ==
    CASE p = "ringing" -> {"active", "ended", "gone"}
      [] p = "active"  -> {"ended", "gone"}
      [] p = "ended"   -> {"gone"}
      [] OTHER         -> {}

\* Any set of calls moves on in one step: a full reconciliation, or a restart
\* of the service, moves several at once.
Advance ==
    /\ phase' \in [CallIds -> Phases]
    /\ \A c \in CallIds : phase'[c] # phase[c] => phase'[c] \in Successors(phase[c])
    /\ parties' = [c \in CallIds |-> IF phase'[c] = "gone" THEN {} ELSE parties[c]]

Next ==
    \/ Advance
    \/ \E c \in CallIds, pair \in SUBSET Users, first \in {"ringing", "ended"} : Dial(c, pair, first)

Spec == Init /\ [][Next]_vars
=============================================================================
