--------------------------- MODULE CallCoordinator ---------------------------
(***************************************************************************)
(* The server's coordination of 1:1 calls: internal/media/call.go and the  *)
(* call half of Refresh in internal/media/livekit.go.                      *)
(*                                                                         *)
(* Each handler is cut where the code releases s.mu: the state change is   *)
(* one step; the signals it then emits, and the eviction it then tries,    *)
(* are steps of a "tail" that other handlers may overtake.  LiveKit (its   *)
(* rooms, its webhooks) is external: webhooks arrive in any order, and may  *)
(* not arrive at all.                                                      *)
(*                                                                         *)
(* An operator named X_Fault is X with a plausible mistake in it.  Nothing *)
(* uses it: it is there to be put in X's place, to see that a property     *)
(* notices.                                                                *)
(***************************************************************************)
EXTENDS Naturals, Sequences, FiniteSets

CONSTANTS
    Users,        \* accounts
    Nobody,       \* the zero account id
    MaxCalls,     \* bound: calls ever dialled
    MaxGen,       \* bound: tokens ever issued
    Facts,        \* what may hold of a callee when it is dialled
    Scope         \* what an instance exercises, a subset of:
                  \*   "refresh"    the periodic Refresh
                  \*   "reconnect"  a client connects again with the same token
                  \*   "expire"     TTLs pass
                  \*   "lose"       webhooks and removals may be lost
                  \*   "restart"    the server process may be restarted

ASSUME CoordinatorAssumption ==
    /\ Nobody \notin Users
    /\ MaxCalls \in Nat /\ MaxGen \in Nat
    /\ Facts \subseteq [admitted : BOOLEAN, reachable : BOOLEAN]
    /\ Scope \subseteq {"refresh", "reconnect", "expire", "lose", "restart"}

CallIds == 1..MaxCalls

Terminal == {"call_busy", "call_unreachable", "call_unavailable", "call_reject",
             "call_cancel", "call_timeout", "call_end"}
SignalTypes == Terminal \cup {"call_invite", "call_accept"}

\* A participant set maps a user to the token generation of its connection,
\* 0 when it is absent.
ParticipantSets == [Users -> Nat]
Empty == [u \in Users |-> 0]
Members(p) == {u \in Users : p[u] # 0}

\* An entry of s.calls; NoCall stands for a call id that has none.
Entries == [state : {"ringing", "active", "ended"},
            caller : Users, callee : Users,
            reason : Terminal \cup {"none"},
            participants : ParticipantSets]
NoCall == [state |-> "absent", caller |-> Nobody, callee |-> Nobody,
           reason |-> "none", participants |-> Empty]
Calls == Entries \cup {NoCall}

Targets == [call : 0..MaxCalls, gen : Nat]
NoTarget == [call |-> 0, gen |-> 0]

Signals == [to : Users, call : CallIds, type : SignalTypes, peer : Users \cup {Nobody}]
Emits == [to : Users, type : SignalTypes, peer : Users \cup {Nobody}]
Tails == [call : CallIds, emits : Seq(Emits), evict : BOOLEAN]
Mints == [user : Users, call : CallIds, gen : Nat, previous : Targets]
Tokens == [user : Users, call : CallIds, gen : Nat]
Hooks == [event : {"joined", "left"}, call : CallIds, user : Users, gen : Nat]
         \cup [event : {"finished"}, call : CallIds, user : {Nobody}, gen : {0}]
Kicks == [user : Users, call : CallIds]

Refreshes == [on : BOOLEAN, revised : BOOLEAN,
              calls : [CallIds -> Calls], targets : [Users -> Targets],
              unread : SUBSET CallIds, observed : [CallIds -> ParticipantSets]]
NoRefresh == [on |-> FALSE, revised |-> FALSE,
              calls |-> [c \in CallIds |-> NoCall],
              targets |-> [u \in Users |-> NoTarget],
              unread |-> {}, observed |-> [c \in CallIds |-> Empty]]

VARIABLES
    calls,        \* s.calls
    callTargets,  \* s.callTargets
    generation,   \* s.generation, the last token generation issued
    dialled,      \* s.callGeneration, the last call id allocated
    timers,       \* calls whose 30 s ring timer is armed
    tails,        \* what handlers still do after releasing s.mu
    mints,        \* token requests between the target's write and the signing
    kicks,        \* RemoveParticipant requests on their way to LiveKit
    refresh,      \* the running Refresh
    stale,        \* generations and calls at or below these are past their TTL
    sent,         \* every signal handed to the hub for a user's connections
    tokens,       \* tokens handed to clients
    conn,         \* LiveKit: conn[c][u] is u's connection to call c's room
    open,         \* LiveKit: the rooms that exist
    hooks         \* LiveKit: webhooks on their way to the server

state == <<calls, callTargets, generation, dialled, timers, mints>>
livekit == <<conn, open, hooks>>
vars == <<calls, callTargets, generation, dialled, timers, tails, mints, kicks,
          refresh, stale, sent, tokens, conn, open, hooks>>

TypeOK ==
    /\ calls \in [CallIds -> Calls]
    /\ callTargets \in [Users -> Targets]
    /\ generation \in 0..MaxGen
    /\ dialled \in 0..MaxCalls
    /\ timers \subseteq CallIds
    /\ tails \subseteq Tails
    /\ mints \subseteq Mints
    /\ kicks \subseteq Kicks
    /\ refresh \in Refreshes
    /\ stale \in [gen : Nat, call : Nat]
    /\ sent \subseteq Signals
    /\ tokens \subseteq Tokens
    /\ conn \in [CallIds -> ParticipantSets]
    /\ open \subseteq CallIds
    /\ hooks \subseteq Hooks

Init ==
    /\ calls = [c \in CallIds |-> NoCall]
    /\ callTargets = [u \in Users |-> NoTarget]
    /\ generation = 0 /\ dialled = 0
    /\ timers = {} /\ tails = {} /\ mints = {} /\ kicks = {}
    /\ refresh = NoRefresh
    /\ stale = [gen |-> 0, call |-> 0]
    /\ sent = {}
    /\ tokens = {}
    /\ conn = [c \in CallIds |-> Empty]
    /\ open = {} /\ hooks = {}

-----------------------------------------------------------------------------
(* The state of one call *)

Parties(call) == {call.caller, call.callee}
IsLive(call) == call.state \in {"ringing", "active"}
OtherParty(call, u) == IF u = call.caller THEN call.callee ELSE call.caller

\* callPartyFor: the counterpart a signal to u names, the zero party when u
\* is not a party or the call has no entry any more.
PeerOf(call, u) == IF u \in Parties(call) THEN OtherParty(call, u) ELSE Nobody

Busy_RingingOnly(u) == \E c \in CallIds : calls[c].state = "ringing" /\ u \in Parties(calls[c])

Busy(u) == \E c \in CallIds : IsLive(calls[c]) /\ u \in Parties(calls[c])

CallerBusyElsewhere_OutgoingOnly(u, peer) ==
    \E c \in CallIds : IsLive(calls[c]) /\ calls[c].caller = u /\ calls[c].callee # peer

CallerBusyElsewhere(u, peer) ==
    \E c \in CallIds : /\ IsLive(calls[c])
                       /\ \/ calls[c].caller = u /\ calls[c].callee # peer
                          \/ calls[c].callee = u /\ calls[c].caller # peer

\* evictTerminalCallLocked applies only to an ended call with nobody in it.
Evictable(call) == call.state = "ended" /\ Members(call.participants) = {}

\* s.revision++: a running Refresh will find that its snapshot is out of date.
\* Nothing it has read can matter any more, so only that fact is kept.
Outdated_Ignored(r) == r

Outdated(r) == IF r.on THEN [NoRefresh EXCEPT !.on = TRUE, !.revised = TRUE] ELSE r
Revise == refresh' = Outdated(refresh)

\* The work a handler leaves for after the unlock.  An emit whose peer is
\* Nobody looks the peer up when it runs.
Emit(u, type) == [to |-> u, type |-> type, peer |-> Nobody]
Defer(c, emits, evict) == tails' = tails \cup {[call |-> c, emits |-> emits, evict |-> evict]}

-----------------------------------------------------------------------------
(* Requests.  Requests that the code refuses change nothing and are not     *)
(* actions; who may name a call id is bounded by who has been told of it.   *)

\* A handler of call c still holds an emit of this type.
Emitting(c, type) ==
    \E t \in tails : t.call = c /\ t.emits # <<>> /\ t.emits[1].type = type

\* StartCall has returned to its caller.
Started(c) == c <= dialled /\ ~Emitting(c, "call_invite")

Invited(u, c) == \E s \in sent : s.to = u /\ s.call = c /\ s.type = "call_invite"

Knows(u, c) == IF u = calls[c].caller THEN Started(c) ELSE Invited(u, c)

\* facts.admitted is CallReceiving and not Blocked.  The facts were read from
\* the store and the hub before the lock was taken and may be out of date by
\* now: they are free here.
StartReason(callee, facts) ==
    CASE ~facts.admitted  -> "call_unavailable"
      [] ~facts.reachable -> "call_unreachable"
      [] Busy(callee)     -> "call_busy"
      [] OTHER            -> "none"

StartCall(caller, callee, facts) ==
    LET c == dialled + 1
        reason == StartReason(callee, facts)
        rings == reason = "none"
    IN  /\ dialled < MaxCalls
        /\ caller # callee
        /\ ~CallerBusyElsewhere(caller, callee)
        /\ dialled' = c
        /\ calls' = [calls EXCEPT ![c] =
                       [state |-> IF rings THEN "ringing" ELSE "ended",
                        caller |-> caller, callee |-> callee,
                        reason |-> reason, participants |-> Empty]]
        /\ timers' = IF rings THEN timers \cup {c} ELSE timers
        /\ IF rings THEN Defer(c, <<Emit(callee, "call_invite")>>, FALSE)
                    ELSE Defer(c, <<Emit(caller, reason)>>, TRUE)
        /\ Revise
        /\ UNCHANGED <<callTargets, generation, mints, kicks, stale, sent, tokens, livekit>>

AcceptCall(c, u) ==
    /\ calls[c].state = "ringing"
    /\ u = calls[c].callee
    /\ Knows(u, c)
    /\ calls' = [calls EXCEPT ![c].state = "active"]
    /\ Defer(c, <<Emit(calls[c].caller, "call_accept")>>, FALSE)
    /\ Revise
    /\ UNCHANGED <<callTargets, generation, dialled, timers, mints, kicks, stale,
                   sent, tokens, livekit>>

Finish_Unrevised(c, reason, emits) ==
    /\ calls' = [calls EXCEPT ![c].state = "ended", ![c].reason = reason]
    /\ Defer(c, emits, TRUE)
    /\ UNCHANGED refresh

\* The common end of a call by a party or by its timer.
Finish(c, reason, emits) ==
    /\ calls' = [calls EXCEPT ![c].state = "ended", ![c].reason = reason]
    /\ Defer(c, emits, TRUE)
    /\ Revise

EndRinging_EvictsFirst(c, u, acting, reason) ==
    /\ calls[c].state = "ringing" /\ u = acting /\ Knows(u, c)
    /\ calls' = [calls EXCEPT ![c] = NoCall]
    /\ Defer(c, <<Emit(OtherParty(calls[c], u), reason)>>, FALSE)
    /\ Revise
    /\ UNCHANGED <<callTargets, generation, dialled, timers, mints, kicks, stale,
                   sent, tokens, livekit>>

EndRinging(c, u, acting, reason) ==
    /\ calls[c].state = "ringing"
    /\ u = acting
    /\ Knows(u, c)
    /\ Finish(c, reason, <<Emit(OtherParty(calls[c], u), reason)>>)
    /\ UNCHANGED <<callTargets, generation, dialled, timers, mints, kicks, stale,
                   sent, tokens, livekit>>

RejectCall(c, u) == EndRinging(c, u, calls[c].callee, "call_reject")
CancelCall(c, u) == EndRinging(c, u, calls[c].caller, "call_cancel")

HangUpCall(c, u) ==
    /\ calls[c].state = "active"
    /\ u \in Parties(calls[c])
    /\ Knows(u, c)
    /\ Finish(c, "call_end", <<Emit(OtherParty(calls[c], u), "call_end")>>)
    /\ UNCHANGED <<callTargets, generation, dialled, timers, mints, kicks, stale,
                   sent, tokens, livekit>>

\* What the timer finds when it fires: the call still ringing, or not.
TimedOut(c) == calls[c].state = "ringing"

\* The timer fires 30 s after StartCall, long after its handler has returned.
TimeoutCall(c) ==
    /\ c \in timers
    /\ Started(c)
    /\ timers' = timers \ {c}
    /\ IF TimedOut(c)
         THEN Finish(c, "call_timeout", <<Emit(calls[c].caller, "call_timeout"),
                                          Emit(calls[c].callee, "call_timeout")>>)
         ELSE UNCHANGED <<calls, tails, refresh>>
    /\ UNCHANGED <<callTargets, generation, dialled, mints, kicks, stale, sent,
                   tokens, livekit>>

\* After the unlock: the next emit, then the eviction.
RunTail(t) ==
    IF t.emits # <<>>
      THEN LET e == t.emits[1]
               rest == [t EXCEPT !.emits = Tail(t.emits)]
               peer == IF e.peer = Nobody THEN PeerOf(calls[t.call], e.to) ELSE e.peer
           IN  /\ sent' = sent \cup {[to |-> e.to, call |-> t.call, type |-> e.type,
                                        peer |-> peer]}
               /\ tails' = (tails \ {t}) \cup
                             (IF rest.emits = <<>> /\ ~t.evict THEN {} ELSE {rest})
               /\ UNCHANGED <<state, kicks, refresh, stale, tokens, livekit>>
      ELSE /\ tails' = tails \ {t}
           /\ IF Evictable(calls[t.call])
                THEN calls' = [calls EXCEPT ![t.call] = NoCall] /\ Revise
                ELSE UNCHANGED <<calls, refresh>>
           /\ UNCHANGED <<callTargets, generation, dialled, timers, mints, kicks, stale,
                          sent, tokens, livekit>>

-----------------------------------------------------------------------------
(* Tokens *)

\* Tokens are signed for active calls only.
TokenPhase_Live(c) == IsLive(calls[c])
TokenPhase(c) == calls[c].state = "active"

\* JoinCallCredentials up to the unlock.  handleCallToken has found u to be a
\* party under an earlier lock, and the parties of a call never change.
JoinCallCredentials(c, u) ==
    /\ TokenPhase(c)
    /\ u \in Parties(calls[c])
    /\ Knows(u, c)
    /\ generation < MaxGen
    /\ generation' = generation + 1
    /\ callTargets' = [callTargets EXCEPT ![u] = [call |-> c, gen |-> generation']]
    /\ mints' = mints \cup {[user |-> u, call |-> c, gen |-> generation',
                             previous |-> callTargets[u]]}
    /\ Revise
    /\ UNCHANGED <<calls, dialled, timers, tails, kicks, stale, sent, tokens, livekit>>

IssueToken(m) ==
    /\ mints' = mints \ {m}
    /\ tokens' = tokens \cup {[user |-> m.user, call |-> m.call, gen |-> m.gen]}
    /\ UNCHANGED <<calls, callTargets, generation, dialled, timers, tails, kicks, refresh,
                   stale, sent, livekit>>

\* Signing failed: the previous target comes back unless a later request has
\* replaced this one.
TokenFails(m) ==
    /\ mints' = mints \ {m}
    /\ IF callTargets[m.user].gen = m.gen
         THEN callTargets' = [callTargets EXCEPT ![m.user] = m.previous] /\ Revise
         ELSE UNCHANGED <<callTargets, refresh>>
    /\ UNCHANGED <<calls, generation, dialled, timers, tails, kicks, stale, sent,
                   tokens, livekit>>

\* Fifteen minutes pass: tokens issued and calls ended so far outlive their
\* TTL.  Handlers and the 30 s ring are over by then.
Expire ==
    /\ "expire" \in Scope
    /\ tails = {} /\ mints = {} /\ timers = {}
    /\ stale' = [gen |-> generation, call |-> dialled]
    /\ stale' # stale
    /\ UNCHANGED <<state, tails, kicks, refresh, sent, tokens, livekit>>

-----------------------------------------------------------------------------
(* Observations: webhooks and Refresh through one transition table *)

\* The targets whose TTL has not passed.
ValidTargets == [u \in Users |-> IF callTargets[u].gen > stale.gen THEN callTargets[u]
                                                                  ELSE NoTarget]

\* callParticipantAllowed: a valid target refuses older generations, and its
\* own generation anywhere but in its room.
Allowed(target, c, gen) ==
    target # NoTarget => gen >= target.gen /\ (gen = target.gen => target.call = c)

\* Those recorded in the call whom the observation misses.
Removed_Unrecorded(call, observed) == (Parties(call) \ {Nobody}) \ Members(observed)
Removed(call, observed) == Members(call.participants) \ Members(observed)

\* A terminal call goes once this observation has emptied it or ended it empty.
Vanishes(phase, members, removed, ends) ==
    phase = "ended" /\ members = {} /\ (removed # {} \/ ends)

\* transitionCallParticipants for call c, given the full set of participants
\* observed and the user an authoritative left names (Nobody for Refresh).
\* A refused participant is kicked; its old entry, if any, stays.
Transition(call, c, observed, left, targets) ==
    LET refused == {u \in Members(observed) : ~Allowed(targets[u], c, observed[u])}
        next == [u \in Users |-> IF u \in refused THEN call.participants[u] ELSE observed[u]]
        removed == Removed(call, observed)
        leavers == (removed \cup ({left} \ Members(observed))) \cap (Parties(call) \ {Nobody})
        ends == call.state = "active" /\ leavers # {}
        stateNext == IF ends THEN "ended" ELSE call.state
        told == IF ends THEN {u \in Parties(call) \ leavers : next[u] # 0} ELSE {}
    IN  [next |-> IF Vanishes(stateNext, Members(next), removed, ends) THEN NoCall
                  ELSE [call EXCEPT !.state = stateNext,
                                    !.reason = IF ends THEN "call_end" ELSE @,
                                    !.participants = next],
         kicks |-> {[user |-> u, call |-> c] : u \in refused},
         tails |-> {[call |-> c, evict |-> FALSE,
                     emits |-> <<[to |-> u, type |-> "call_end", peer |-> PeerOf(call, u)]>>] :
                    u \in told}]

\* applyCallObservationLocked, and its effects left for after the unlock.
Observe(c, observed, left) ==
    LET r == Transition(calls[c], c, observed, left, ValidTargets)
    IN  /\ calls' = [calls EXCEPT ![c] = r.next]
        /\ kicks' = kicks \cup r.kicks
        /\ tails' = tails \cup r.tails
        /\ IF r.next # calls[c] THEN Revise ELSE UNCHANGED refresh

\* A webhook that changes nothing but what is in flight.
Ignore == UNCHANGED <<calls, tails, kicks, refresh>>

Joined(h) ==
    IF calls[h.call].state = "absent"
      THEN /\ kicks' = kicks \cup {[user |-> h.user, call |-> h.call]}
           /\ UNCHANGED <<calls, tails, refresh>>
      ELSE Observe(h.call, [calls[h.call].participants EXCEPT ![h.user] = h.gen], Nobody)

\* A left of an older connection than the one recorded is not a departure.
Left(h) ==
    LET call == calls[h.call]
        recorded == call.participants[h.user]
    IN  IF call.state = "absent" \/ (recorded # 0 /\ recorded # h.gen)
          THEN Ignore
          ELSE Observe(h.call, [call.participants EXCEPT ![h.user] = 0], h.user)

Finished_KeepsEntry(h) ==
    IF calls[h.call].state = "absent"
      THEN Ignore
      ELSE /\ calls' = [calls EXCEPT ![h.call].state = "finished"]
           /\ Revise
           /\ UNCHANGED <<tails, kicks>>

Finished(h) ==
    IF calls[h.call].state = "absent"
      THEN Ignore
      ELSE /\ calls' = [calls EXCEPT ![h.call] = NoCall]
           /\ Revise
           /\ UNCHANGED <<tails, kicks>>

DeliverWebhook(h) ==
    /\ CASE h.event = "joined"   -> Joined(h)
         [] h.event = "left"     -> Left(h)
         [] h.event = "finished" -> Finished(h)
    /\ hooks' = hooks \ {h}
    /\ UNCHANGED <<callTargets, generation, dialled, timers, mints, stale, sent, tokens,
                   conn, open>>

\* snapshotState and ListRooms.  Expired targets and ended calls past their
\* TTL are left out of what will be written back.
RefreshBegin ==
    /\ "refresh" \in Scope /\ ~refresh.on
    /\ refresh' =
         [on |-> TRUE, revised |-> FALSE,
          calls |-> [c \in CallIds |->
                       IF calls[c].state = "ended" /\ c <= stale.call THEN NoCall ELSE calls[c]],
          targets |-> ValidTargets,
          unread |-> open,
          observed |-> [c \in CallIds |-> Empty]]
    /\ UNCHANGED <<state, tails, kicks, stale, sent, tokens, livekit>>

\* ListParticipants of one listed room.
RefreshRead(c) ==
    /\ c \in refresh.unread
    /\ refresh' = [refresh EXCEPT !.unread = @ \ {c}, !.observed[c] = conn[c]]
    /\ UNCHANGED <<state, tails, kicks, stale, sent, tokens, livekit>>

\* replaceSnapshot: all or nothing, and nothing once the revision has moved.
\* The table's effects run only if it was applied; of a room with no call
\* behind it, only the refusals.
RefreshApply ==
    LET outcome == [c \in CallIds |->
                      Transition(refresh.calls[c], c, refresh.observed[c], Nobody, refresh.targets)]
        known == {c \in CallIds : refresh.calls[c].state # "absent"}
    IN  /\ refresh.on /\ refresh.unread = {}
        /\ refresh' = NoRefresh
        /\ IF refresh.revised
             THEN UNCHANGED <<calls, callTargets, tails, kicks>>
             ELSE /\ calls' = [c \in CallIds |-> IF c \in known THEN outcome[c].next ELSE NoCall]
                  /\ callTargets' = refresh.targets
                  /\ tails' = tails \cup UNION {outcome[c].tails : c \in known}
                  /\ kicks' = kicks \cup UNION {outcome[c].kicks : c \in CallIds}
        /\ UNCHANGED <<generation, dialled, timers, mints, stale, sent, tokens, livekit>>

\* A LiveKit request fails: the previous state is kept.
RefreshFail ==
    /\ refresh.on /\ ~refresh.revised
    /\ refresh' = NoRefresh
    /\ UNCHANGED <<state, tails, kicks, stale, sent, tokens, livekit>>

-----------------------------------------------------------------------------
(* LiveKit and the clients' connections to it: external *)

Hook(event, c, u, gen) == [event |-> event, call |-> c, user |-> u, gen |-> gen]

\* A second connection of one identity replaces the first.
Connect(t) ==
    LET old == conn[t.call][t.user]
    IN  /\ t.gen > stale.gen
        /\ old # t.gen
        /\ conn' = [conn EXCEPT ![t.call][t.user] = t.gen]
        /\ open' = open \cup {t.call}
        /\ hooks' = hooks \cup {Hook("joined", t.call, t.user, t.gen)} \cup
                      (IF old = 0 THEN {} ELSE {Hook("left", t.call, t.user, old)})
        /\ tokens' = IF "reconnect" \in Scope THEN tokens ELSE tokens \ {t}
        /\ UNCHANGED <<state, tails, kicks, refresh, stale, sent>>

\* The client hangs up, loses its network or closes its page.
Disconnect(c, u) ==
    /\ conn[c][u] # 0
    /\ conn' = [conn EXCEPT ![c][u] = 0]
    /\ hooks' = hooks \cup {Hook("left", c, u, conn[c][u])}
    /\ UNCHANGED <<state, tails, kicks, refresh, stale, sent, tokens, open>>

\* RemoveParticipant names an identity, not a connection; it may fail.
Kick(k) ==
    /\ kicks' = kicks \ {k}
    /\ \/ /\ conn[k.call][k.user] # 0
          /\ conn' = [conn EXCEPT ![k.call][k.user] = 0]
          /\ hooks' = hooks \cup {Hook("left", k.call, k.user, conn[k.call][k.user])}
       \/ conn[k.call][k.user] = 0 /\ UNCHANGED <<conn, hooks>>
       \/ "lose" \in Scope /\ UNCHANGED <<conn, hooks>>
    /\ UNCHANGED <<state, tails, refresh, stale, sent, tokens, open>>

CloseRoom(c) ==
    /\ c \in open /\ conn[c] = Empty
    /\ open' = open \ {c}
    /\ hooks' = hooks \cup {Hook("finished", c, Nobody, 0)}
    /\ UNCHANGED <<state, tails, kicks, refresh, stale, sent, tokens, conn>>

LoseWebhook(h) ==
    /\ "lose" \in Scope
    /\ hooks' = hooks \ {h}
    /\ UNCHANGED <<state, tails, kicks, refresh, stale, sent, tokens, conn, open>>

\* The process dies.  Call coordination is memory only; ids and generations
\* come from the clock and keep growing.
Restart ==
    /\ "restart" \in Scope
    /\ calls' = [c \in CallIds |-> NoCall]
    /\ callTargets' = [u \in Users |-> NoTarget]
    /\ timers' = {} /\ tails' = {} /\ mints' = {} /\ kicks' = {}
    /\ refresh' = NoRefresh
    /\ UNCHANGED <<generation, dialled, stale, sent, tokens, livekit>>

-----------------------------------------------------------------------------
CallRequests(c, u) ==
    \/ AcceptCall(c, u) \/ RejectCall(c, u) \/ CancelCall(c, u)
    \/ HangUpCall(c, u) \/ JoinCallCredentials(c, u)

Requests ==
    \/ \E u, v \in Users, f \in Facts : StartCall(u, v, f)
    \/ \E c \in CallIds, u \in Users : CallRequests(c, u)

Server ==
    \/ \E c \in CallIds : TimeoutCall(c) \/ RefreshRead(c)
    \/ \E t \in tails : RunTail(t)
    \/ \E m \in mints : IssueToken(m) \/ TokenFails(m)
    \/ \E k \in kicks : Kick(k)
    \/ \E h \in hooks : DeliverWebhook(h)
    \/ RefreshBegin \/ RefreshApply \/ RefreshFail

Environment ==
    \/ \E t \in tokens : Connect(t)
    \/ \E c \in CallIds, u \in Users : Disconnect(c, u)
    \/ \E c \in CallIds : CloseRoom(c)
    \/ \E h \in hooks : LoseWebhook(h)
    \/ Expire \/ Restart

Next == Requests \/ Server \/ Environment

Spec == Init /\ [][Next]_vars

\* The client of a finished call disconnects (endSession): everyone recorded
\* in it was told of its end or asked for it.
LeaveEnded(c, u) == calls[c].state = "ended" /\ Disconnect(c, u)

\* The Go scheduler runs handlers, timers and goroutines; LiveKit delivers
\* what it does not lose; the reconciliation ticker keeps coming and LiveKit
\* is not down for ever.
Fairness ==
    /\ \A c \in CallIds : WF_vars(TimeoutCall(c)) /\ SF_vars(RefreshRead(c))
    /\ WF_vars(\E t \in tails : RunTail(t))
    /\ WF_vars(\E m \in mints : IssueToken(m) \/ TokenFails(m))
    /\ WF_vars(\E k \in kicks : Kick(k))
    /\ WF_vars(\E h \in hooks : DeliverWebhook(h))
    /\ WF_vars(RefreshBegin) /\ SF_vars(RefreshApply)
    /\ \A c \in CallIds, u \in Users : WF_vars(LeaveEnded(c, u))

FairSpec == Spec /\ Fairness

-----------------------------------------------------------------------------
(* Properties *)

\* Call ids are allocated in order.
UndialledAbsent == \A c \in CallIds : c > dialled => calls[c] = NoCall

\* No account is in two calls that ring or run at the same moment.  Dialling
\* checks the caller and the callee by different rules, and a stale Refresh
\* could bring a finished call back.
OneLiveCallPerUser ==
    \A c, d \in CallIds :
        c # d /\ IsLive(calls[c]) /\ IsLive(calls[d]) =>
            Parties(calls[c]) \cap Parties(calls[d]) = {}

\* Until the callee accepts, nobody can be in the call's room: no token for
\* it has been requested or issued, nobody is recorded in it, nobody is
\* connected to it.
RingingHasNoRoom ==
    \A c \in CallIds : calls[c].state = "ringing" =>
        /\ Members(calls[c].participants) = {}
        /\ Members(conn[c]) = {}
        /\ \A t \in tokens \cup mints : t.call # c
        /\ \A u \in Users : callTargets[u].call # c

\* An ended call with nobody in it is about to be evicted by the handler that
\* ended it: no sequence of webhooks and refreshes leaves one behind for the
\* TTL sweep.
EndedEmptyIsBeingEvicted ==
    \A c \in CallIds : Evictable(calls[c]) => \E t \in tails : t.call = c /\ t.evict

\* The room of a call follows its phase: nobody in it before the call is
\* accepted, and with nobody left in it once the call has ended, the call goes.
RoomFollowsCall == RingingHasNoRoom /\ EndedEmptyIsBeingEvicted

\* While no revision has come in between, what Refresh is about to write back
\* is what the coordinator holds now, less what had expired: a handler that
\* changes a call or a target without a new revision would be undone.
SnapshotCurrent ==
    refresh.on /\ ~refresh.revised =>
        /\ \A c \in CallIds : refresh.calls[c] \in {calls[c], NoCall}
        /\ \A u \in Users : refresh.targets[u] \in {callTargets[u], NoTarget}

\* Only a token that the user's valid target still accepts gets its holder
\* recorded, also when the observation and the recording are apart in time.
OnlyCurrentTokensAdmitted ==
    [][\A c \in CallIds, u \in Users :
          LET g == calls'[c].participants[u]
          IN  g \notin {0, calls[c].participants[u]} => Allowed(ValidTargets[u], c, g)]_vars

\* What shows in a step that a party is gone from the call's room: the webhook
\* that says so, of the connection the call records or of one it does not know
\* of; or a Refresh that did not find somebody the call records.
DepartureSeen(c) ==
    \/ \E h \in hooks \ hooks' :
          /\ h.call = c
          /\ \/ h.event = "finished"
             \/ h.event = "left" /\ calls[c].participants[h.user] \in {0, h.gen}
    \/ /\ refresh.on /\ ~refresh.revised /\ refresh' = NoRefresh
       /\ \E u \in Users : calls[c].participants[u] # 0 /\ refresh.observed[c][u] = 0

\* An active call ends by a party's request (whose handler then evicts it), by
\* a restart, or because a party has left its room; never because a party has
\* not reached the room yet, or has left it by a connection that a recorded one
\* has replaced.  While nobody is recorded any left ends the call: also that of a
\* replaced connection that overtakes every joined.
OnlyDeparturesDisconnect ==
    [][\A c \in CallIds :
          calls[c].state = "active" /\ calls'[c].state # "active" =>
              \/ \E t \in tails' \ tails : t.call = c /\ t.evict
              \/ DepartureSeen(c)
              \/ Restart]_vars

\* However the ends of a call race, its users are told of one outcome.
OneOutcome ==
    \A s, t \in sent : s.call = t.call /\ {s.type, t.type} \subseteq Terminal =>
                          s.type = t.type

\* A signal of a call that never became active names the other party: the
\* handler evicts the call only after its signals are out.
RingingSignalsNamePeer ==
    \A s \in sent : s.type \notin {"call_accept", "call_end"} => s.peer \in Users

\* The users of a call are told of one outcome, and of whom it was with.
OutcomesAreTold == OneOutcome /\ RingingSignalsNamePeer

\* Every ringing call stops ringing.
Rings(c) == calls[c].state = "ringing"
RingingEnds == \A c \in CallIds : Rings(c) ~> ~Rings(c)

\* Every ended call leaves the coordinator's memory.
IsOver(c) == calls[c].state = "ended"
IsGone(c) == calls[c].state = "absent"
EndedIsEvicted == \A c \in CallIds : IsOver(c) ~> IsGone(c)

\* ADR-0032 decision 3: a call is evicted only after its terminal signal is out,
\* so that the peer the signal names can still be resolved.
TerminalSignalsNamePeer ==
    \A s \in sent : s.type \in Terminal => s.peer \in Users

\* The calls as CallLedger sees them.
Ledger == INSTANCE CallLedger WITH
    phase <- [c \in CallIds |-> IF c > dialled THEN "none"
                                ELSE IF calls[c].state = "absent" THEN "gone"
                                ELSE calls[c].state],
    parties <- [c \in CallIds |-> Parties(calls[c]) \ {Nobody}]

\* The coordinator keeps the ledger's promise: every call takes its phases once
\* and in order, and never rings while one of its parties is engaged.
ImplementsLedger == Ledger!Spec
=============================================================================
