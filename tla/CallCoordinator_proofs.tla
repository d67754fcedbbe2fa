------------------------ MODULE CallCoordinator_proofs ------------------------
(***************************************************************************)
(* Proofs about CallCoordinator, for any number of users, calls and        *)
(* tokens: first CallInvariant and what it implies (one live call for each *)
(* user, the ledger), then the properties that need more: what the users   *)
(* of a call are told of it, who can be in its room, who is recorded in it *)
(* and what ends it.                                                       *)
(***************************************************************************)
EXTENDS CallCoordinator, TLAPS

USE CoordinatorAssumption

-----------------------------------------------------------------------------
(* The transition table *)

\* An entry names two accounts; NoCall is not an entry.
LEMMA EntryParties ==
    ASSUME NEW call \in Calls, call.state # "absent"
    PROVE  /\ call \in Entries
           /\ call.caller \in Users /\ call.callee \in Users
BY DEF Calls, Entries, NoCall

\* Every call, NoCall too, has a participant set.
LEMMA CallFields ==
    ASSUME NEW call \in Calls
    PROVE  call.participants \in ParticipantSets
BY DEF Calls, Entries, NoCall, Empty, ParticipantSets

\* What one observation may do to a call, whatever was observed: it keeps the
\* parties, and the state, unless it ends or removes the call.
LEMMA TransitionNext ==
    ASSUME NEW call \in Calls, call.state # "absent", NEW c \in CallIds,
           NEW observed \in ParticipantSets, NEW left, NEW targets
    PROVE  LET next == Transition(call, c, observed, left, targets).next
           IN  \/ next = NoCall
               \/ /\ next \in Entries
                  /\ next.caller = call.caller /\ next.callee = call.callee
                  /\ \/ next.state = call.state
                     \/ call.state = "active" /\ next.state = "ended"
<1> DEFINE T == Transition(call, c, observed, left, targets)
<1>1. call \in Entries
  BY EntryParties
<1>2. PICK p \in ParticipantSets, ends \in BOOLEAN :
         /\ ends => call.state = "active"
         /\ \/ T.next = NoCall
            \/ T.next = [call EXCEPT !.state = IF ends THEN "ended" ELSE call.state,
                                     !.reason = IF ends THEN "call_end" ELSE @,
                                     !.participants = p]
  <2> DEFINE refused == {u \in Members(observed) : ~Allowed(targets[u], c, observed[u])}
             next == [u \in Users |-> IF u \in refused THEN call.participants[u] ELSE observed[u]]
             removed == Removed(call, observed)
             leavers == (removed \cup ({left} \ Members(observed))) \cap (Parties(call) \ {Nobody})
             ends == call.state = "active" /\ leavers # {}
             gone == Vanishes(IF ends THEN "ended" ELSE call.state, Members(next), removed, ends)
  <2>1. next \in ParticipantSets
    BY CallFields DEF ParticipantSets
  <2>2. T.next = IF gone THEN NoCall
                 ELSE [call EXCEPT !.state = IF ends THEN "ended" ELSE call.state,
                                   !.reason = IF ends THEN "call_end" ELSE @,
                                   !.participants = next]
    BY Zenon DEF Transition
  <2>3. ends \in BOOLEAN /\ (ends => call.state = "active")
    OBVIOUS
  <2> HIDE DEF next, ends, gone
  <2> QED
    BY <2>1, <2>2, <2>3
<1>3. CASE T.next = NoCall
  BY <1>3
<1>4. CASE T.next # NoCall
  BY <1>1, <1>2, <1>4 DEF Entries, Terminal
<1> QED
  BY <1>3, <1>4

\* The effects of an observation are well formed.
LEMMA TransitionEffects ==
    ASSUME NEW call \in Calls, NEW c \in CallIds,
           NEW observed \in ParticipantSets, NEW left, NEW targets
    PROVE  /\ Transition(call, c, observed, left, targets).kicks \subseteq Kicks
           /\ call.state # "absent" =>
                Transition(call, c, observed, left, targets).tails \subseteq Tails
<1> DEFINE T == Transition(call, c, observed, left, targets)
<1>1. T.kicks \subseteq Kicks
  BY DEF Transition, Kicks, Members
<1>2. ASSUME call.state # "absent"
      PROVE  T.tails \subseteq Tails
  <2> DEFINE message(u) == [to |-> u, type |-> "call_end", peer |-> PeerOf(call, u)]
  <2>1. ASSUME NEW u \in Users
        PROVE  <<message(u)>> \in Seq(Emits)
    <3>1. PeerOf(call, u) \in Users \cup {Nobody}
      BY <1>2, EntryParties DEF PeerOf, OtherParty
    <3>2. message(u) \in Emits
      BY <3>1 DEF Emits, SignalTypes, Terminal
    <3> QED
      BY <3>2
  <2>2. ASSUME NEW t \in T.tails
        PROVE  \E u \in Users : t = [call |-> c, evict |-> FALSE, emits |-> <<message(u)>>]
    <3>1. Parties(call) \subseteq Users
      BY <1>2, EntryParties DEF Parties
    <3> QED
      BY <3>1 DEF Transition
  <2> HIDE DEF message, T
  <2>3. SUFFICES ASSUME NEW t \in T.tails
                 PROVE  t \in Tails
    OBVIOUS
  <2>4. PICK u \in Users : t = [call |-> c, evict |-> FALSE, emits |-> <<message(u)>>]
    BY <2>2
  <2>5. <<message(u)>> \in Seq(Emits)
    BY <2>1
  <2> QED
    BY <2>4, <2>5 DEF Tails
<1> QED
  BY <1>1, <1>2

-----------------------------------------------------------------------------
(* Type correctness *)

\* The initial state, a server just started, is well typed.
LEMMA TypeInit == Init => TypeOK
BY DEF Init, TypeOK, Calls, Targets, NoTarget, Refreshes, NoRefresh, NoCall, ParticipantSets, Empty

\* A tail that is deferred is a tail.
LEMMA DeferType ==
    ASSUME TypeOK, NEW c \in CallIds, NEW emits \in Seq(Emits), NEW evict \in BOOLEAN,
           Defer(c, emits, evict)
    PROVE  tails' \subseteq Tails
BY DEF Defer, Tails, TypeOK

\* What Emit builds is an emit.
LEMMA EmitType ==
    ASSUME NEW u \in Users, NEW type \in SignalTypes
    PROVE  Emit(u, type) \in Emits
BY DEF Emit, Emits

\* The idle Refresh is a Refresh.
LEMMA NoRefreshType == NoRefresh \in Refreshes
BY DEF NoRefresh, Refreshes, Calls, NoCall, Targets, NoTarget, ParticipantSets, Empty

\* Outdating a running Refresh keeps it well typed.
LEMMA ReviseType ==
    ASSUME TypeOK, Revise
    PROVE  refresh' \in Refreshes
<1>1. [NoRefresh EXCEPT !.on = TRUE, !.revised = TRUE] \in Refreshes
  BY NoRefreshType DEF Refreshes
<1> QED
  BY <1>1 DEF Revise, Outdated, TypeOK

\* Dialling keeps the types.
LEMMA StartCallType ==
    ASSUME TypeOK, NEW u \in Users, NEW v \in Users, NEW f \in Facts, StartCall(u, v, f)
    PROVE  TypeOK'
<1> DEFINE c == dialled + 1
           reason == StartReason(v, f)
           entry == [state |-> IF reason = "none" THEN "ringing" ELSE "ended",
                     caller |-> u, callee |-> v, reason |-> reason, participants |-> Empty]
<1>1. c \in CallIds /\ dialled' \in 0..MaxCalls /\ dialled' = c
  BY DEF StartCall, TypeOK, CallIds
<1>2. reason \in {"call_unavailable", "call_unreachable", "call_busy", "none"}
  BY Zenon DEF StartReason
<1>3. entry \in Calls
  BY <1>2 DEF Calls, Entries, Terminal, ParticipantSets, Empty
<1>4. calls' \in [CallIds -> Calls]
  <2>1. calls' = [calls EXCEPT ![c] = entry]
    BY DEF StartCall
  <2> QED
    BY <1>1, <1>3, <2>1 DEF TypeOK
<1>5. tails' \subseteq Tails
  <2>1. CASE reason = "none"
    <3>1. <<Emit(v, "call_invite")>> \in Seq(Emits)
      BY EmitType DEF SignalTypes
    <3>2. Defer(c, <<Emit(v, "call_invite")>>, FALSE)
      BY <2>1 DEF StartCall
    <3> QED
      BY <1>1, <3>1, <3>2, DeferType
  <2>2. CASE reason # "none"
    <3>1. <<Emit(u, reason)>> \in Seq(Emits)
      BY <1>2, <2>2, EmitType DEF SignalTypes, Terminal
    <3>2. Defer(c, <<Emit(u, reason)>>, TRUE)
      BY <2>2 DEF StartCall
    <3> QED
      BY <1>1, <3>1, <3>2, DeferType
  <2> QED
    BY <2>1, <2>2
<1>6. refresh' \in Refreshes
  BY ReviseType DEF StartCall
<1>7. timers' \subseteq CallIds
  BY <1>1 DEF StartCall, TypeOK
<1> QED
  BY <1>1, <1>4, <1>5, <1>6, <1>7 DEF StartCall, TypeOK, livekit

\* A step that ends or connects call c and leaves the rest of the types alone.
LEMMA CallUpdateType ==
    ASSUME TypeOK, NEW c \in CallIds, NEW entry \in Calls,
           calls' = [calls EXCEPT ![c] = entry]
    PROVE  calls' \in [CallIds -> Calls]
BY DEF TypeOK

\* Ending a call keeps the types of what it touches.
LEMMA FinishType ==
    ASSUME TypeOK, NEW c \in CallIds, calls[c].state # "absent",
           NEW reason \in Terminal, NEW emits \in Seq(Emits), Finish(c, reason, emits)
    PROVE  /\ calls' \in [CallIds -> Calls]
           /\ tails' \subseteq Tails
           /\ refresh' \in Refreshes
<1>1. calls[c] \in Calls
  BY DEF TypeOK
<1>2. calls[c] \in Entries
  BY <1>1, EntryParties
<1>3. [calls[c] EXCEPT !.state = "ended", !.reason = reason] \in Calls
  BY <1>2 DEF Entries, Calls
<1>4. calls' = [calls EXCEPT ![c] = [calls[c] EXCEPT !.state = "ended", !.reason = reason]]
  BY DEF Finish, TypeOK
<1>5. tails' \subseteq Tails
  BY DeferType DEF Finish
<1>6. refresh' \in Refreshes
  BY ReviseType DEF Finish
<1> QED
  BY <1>3, <1>4, <1>5, <1>6, CallUpdateType

\* An emit to the other party of an existing call.
LEMMA OtherPartyEmit ==
    ASSUME TypeOK, NEW c \in CallIds, calls[c].state # "absent", NEW u \in Users,
           NEW type \in SignalTypes
    PROVE  <<Emit(OtherParty(calls[c], u), type)>> \in Seq(Emits)
<1>1. calls[c] \in Calls
  BY DEF TypeOK
<1>2. OtherParty(calls[c], u) \in Users
  BY <1>1, EntryParties DEF OtherParty
<1> QED
  BY <1>2, EmitType

\* Accepting keeps the types.
LEMMA AcceptCallType ==
    ASSUME TypeOK, NEW c \in CallIds, NEW u \in Users, AcceptCall(c, u)
    PROVE  TypeOK'
<1>1. calls[c] \in Calls
  BY DEF TypeOK
<1>2. calls[c] \in Entries
  BY <1>1, EntryParties DEF AcceptCall
<1>3. [calls[c] EXCEPT !.state = "active"] \in Calls
  BY <1>2 DEF Entries, Calls
<1>4. calls' = [calls EXCEPT ![c] = [calls[c] EXCEPT !.state = "active"]]
  BY DEF AcceptCall
<1>5. <<Emit(calls[c].caller, "call_accept")>> \in Seq(Emits)
  BY <1>2, EmitType DEF Entries, SignalTypes
<1>6. tails' \subseteq Tails
  BY <1>5, DeferType DEF AcceptCall
<1>7. refresh' \in Refreshes
  BY ReviseType DEF AcceptCall
<1>8. calls' \in [CallIds -> Calls]
  BY <1>3, <1>4, CallUpdateType
<1> QED
  BY <1>6, <1>7, <1>8 DEF AcceptCall, TypeOK, livekit

\* Rejecting and cancelling keep the types.
LEMMA EndRingingType ==
    ASSUME TypeOK, NEW c \in CallIds, NEW u \in Users, RejectCall(c, u) \/ CancelCall(c, u)
    PROVE  TypeOK'
<1>1. PICK reason \in {"call_reject", "call_cancel"} :
         EndRinging(c, u, u, reason)
  BY DEF RejectCall, CancelCall, EndRinging
<1>2. reason \in Terminal /\ reason \in SignalTypes
  BY DEF Terminal, SignalTypes
<1>3. calls[c].state # "absent"
  BY <1>1 DEF EndRinging
<1>4. <<Emit(OtherParty(calls[c], u), reason)>> \in Seq(Emits)
  BY <1>2, <1>3, OtherPartyEmit
<1>5. /\ calls' \in [CallIds -> Calls]
      /\ tails' \subseteq Tails
      /\ refresh' \in Refreshes
  BY <1>1, <1>2, <1>3, <1>4, FinishType DEF EndRinging
<1> QED
  BY <1>1, <1>5 DEF EndRinging, TypeOK, livekit

\* Hanging up keeps the types.
LEMMA HangUpCallType ==
    ASSUME TypeOK, NEW c \in CallIds, NEW u \in Users, HangUpCall(c, u)
    PROVE  TypeOK'
<1>1. "call_end" \in Terminal /\ "call_end" \in SignalTypes
  BY DEF Terminal, SignalTypes
<1>2. calls[c].state # "absent"
  BY DEF HangUpCall
<1>3. <<Emit(OtherParty(calls[c], u), "call_end")>> \in Seq(Emits)
  BY <1>1, <1>2, OtherPartyEmit
<1>4. /\ calls' \in [CallIds -> Calls]
      /\ tails' \subseteq Tails
      /\ refresh' \in Refreshes
  BY <1>1, <1>2, <1>3, FinishType DEF HangUpCall
<1> QED
  BY <1>4 DEF HangUpCall, TypeOK, livekit

\* The ring timer keeps the types, whether it ends the call or finds it gone.
LEMMA TimeoutCallType ==
    ASSUME TypeOK, NEW c \in CallIds, TimeoutCall(c)
    PROVE  TypeOK'
<1>1. timers' \subseteq CallIds
  BY DEF TimeoutCall, TypeOK
<1>2. /\ calls' \in [CallIds -> Calls]
      /\ tails' \subseteq Tails
      /\ refresh' \in Refreshes
  <2>1. CASE TimedOut(c)
    <3> DEFINE emits == <<Emit(calls[c].caller, "call_timeout"),
                          Emit(calls[c].callee, "call_timeout")>>
    <3>1. calls[c] \in Calls /\ calls[c].state # "absent"
      BY <2>1 DEF TypeOK, TimedOut
    <3>2. "call_timeout" \in Terminal /\ "call_timeout" \in SignalTypes
      BY DEF Terminal, SignalTypes
    <3>3. emits \in Seq(Emits)
      <4>1. /\ Emit(calls[c].caller, "call_timeout") \in Emits
            /\ Emit(calls[c].callee, "call_timeout") \in Emits
        BY <3>1, <3>2, EntryParties, EmitType
      <4> QED
        BY <4>1
    <3>4. Finish(c, "call_timeout", emits)
      BY <2>1 DEF TimeoutCall
    <3> QED
      BY <3>1, <3>2, <3>3, <3>4, FinishType
  <2>2. CASE ~TimedOut(c)
    BY <2>2 DEF TimeoutCall, TypeOK
  <2> QED
    BY <2>1, <2>2
<1> QED
  BY <1>1, <1>2 DEF TimeoutCall, TypeOK, livekit

\* The emits and the eviction a handler does after the unlock keep the types.
LEMMA RunTailType ==
    ASSUME TypeOK, NEW t \in tails, RunTail(t)
    PROVE  TypeOK'
<1>1. t \in Tails /\ t.call \in CallIds /\ t.emits \in Seq(Emits) /\ t.evict \in BOOLEAN
  BY DEF TypeOK, Tails
<1>2. CASE t.emits # <<>>
  <2> DEFINE e == t.emits[1]
             rest == [t EXCEPT !.emits = Tail(t.emits)]
             peer == IF e.peer = Nobody THEN PeerOf(calls[t.call], e.to) ELSE e.peer
             signal == [to |-> e.to, call |-> t.call, type |-> e.type, peer |-> peer]
  <2>1. e \in Emits
    BY <1>1, <1>2
  <2>2. rest \in Tails
    BY <1>1, <1>2 DEF Tails
  <2>3. peer \in Users \cup {Nobody}
    <3>1. calls[t.call] \in Calls
      BY <1>1 DEF TypeOK
    <3>2. e.to \in Users /\ e.peer \in Users \cup {Nobody}
      BY <2>1 DEF Emits
    <3>3. PeerOf(calls[t.call], e.to) \in Users \cup {Nobody}
      BY <3>1, <3>2 DEF PeerOf, OtherParty, Parties, Calls, Entries, NoCall
    <3> QED
      BY <3>2, <3>3
  <2>4. signal \in Signals
    BY <1>1, <2>1, <2>3 DEF Signals, Emits
  <2>5. sent' \subseteq Signals
    BY <1>2, <2>4 DEF RunTail, TypeOK
  <2>6. tails' \subseteq Tails
    BY <1>2, <2>2 DEF RunTail, TypeOK
  <2> QED
    BY <1>2, <2>5, <2>6 DEF RunTail, TypeOK, state, livekit
<1>3. CASE t.emits = <<>>
  <2>1. NoCall \in Calls
    BY DEF Calls
  <2>2. calls' \in [CallIds -> Calls] /\ refresh' \in Refreshes
    <3>1. CASE Evictable(calls[t.call])
      <4>1. calls' = [calls EXCEPT ![t.call] = NoCall] /\ Revise
        BY <1>3, <3>1 DEF RunTail
      <4> QED
        BY <1>1, <2>1, <4>1, CallUpdateType, ReviseType
    <3>2. CASE ~Evictable(calls[t.call])
      BY <1>3, <3>2 DEF RunTail, TypeOK
    <3> QED
      BY <3>1, <3>2
  <2>3. tails' \subseteq Tails
    BY <1>3 DEF RunTail, TypeOK
  <2> QED
    BY <1>3, <2>2, <2>3 DEF RunTail, TypeOK, livekit
<1> QED
  BY <1>2, <1>3

\* Asking for a token keeps the types.
LEMMA JoinCallCredentialsType ==
    ASSUME TypeOK, NEW c \in CallIds, NEW u \in Users, JoinCallCredentials(c, u)
    PROVE  TypeOK'
<1>1. generation' \in 0..MaxGen /\ generation' \in Nat
  BY DEF JoinCallCredentials, TypeOK
<1>2. callTargets' \in [Users -> Targets]
  BY <1>1 DEF JoinCallCredentials, TypeOK, Targets, CallIds
<1>3. mints' \subseteq Mints
  BY <1>1 DEF JoinCallCredentials, TypeOK, Mints
<1>4. refresh' \in Refreshes
  BY ReviseType DEF JoinCallCredentials
<1> QED
  BY <1>1, <1>2, <1>3, <1>4 DEF JoinCallCredentials, TypeOK, livekit

\* Signing a token, or failing to, keeps the types.
LEMMA MintType ==
    ASSUME TypeOK, NEW m \in mints, IssueToken(m) \/ TokenFails(m)
    PROVE  TypeOK'
<1>1. m \in Mints
  BY DEF TypeOK
<1>2. CASE IssueToken(m)
  <2>1. tokens' \subseteq Tokens
    BY <1>1, <1>2 DEF IssueToken, TypeOK, Tokens, Mints
  <2> QED
    BY <1>2, <2>1 DEF IssueToken, TypeOK, livekit
<1>3. CASE TokenFails(m)
  <2>1. callTargets' \in [Users -> Targets]
    BY <1>1, <1>3 DEF TokenFails, TypeOK, Mints
  <2>2. refresh' \in Refreshes
    BY <1>3, ReviseType DEF TokenFails, TypeOK
  <2> QED
    BY <1>3, <2>1, <2>2 DEF TokenFails, TypeOK, livekit
<1> QED
  BY <1>2, <1>3

\* What one observation of an existing call leaves behind.
LEMMA ObserveType ==
    ASSUME TypeOK, NEW c \in CallIds, calls[c].state # "absent",
           NEW observed \in ParticipantSets, NEW left, Observe(c, observed, left)
    PROVE  /\ calls' \in [CallIds -> Calls]
           /\ kicks' \subseteq Kicks
           /\ tails' \subseteq Tails
           /\ refresh' \in Refreshes
<1> DEFINE r == Transition(calls[c], c, observed, left, ValidTargets)
<1>1. calls[c] \in Calls
  BY DEF TypeOK
<1>2. r.next \in Calls
  BY <1>1, TransitionNext DEF Calls
<1>3. r.kicks \subseteq Kicks /\ r.tails \subseteq Tails
  BY <1>1, TransitionEffects
<1>4. /\ calls' = [calls EXCEPT ![c] = r.next]
      /\ kicks' = kicks \cup r.kicks
      /\ tails' = tails \cup r.tails
      /\ Revise \/ UNCHANGED refresh
  BY DEF Observe
<1>5. refresh' \in Refreshes
  BY <1>4, ReviseType DEF TypeOK
<1> HIDE DEF r
<1> QED
  BY <1>2, <1>3, <1>4, <1>5, CallUpdateType DEF TypeOK

\* A webhook of any kind keeps the types.
LEMMA DeliverWebhookType ==
    ASSUME TypeOK, NEW h \in hooks, DeliverWebhook(h)
    PROVE  TypeOK'
<1>1. h \in Hooks /\ h.call \in CallIds /\ h.gen \in Nat
  BY DEF TypeOK, Hooks
<1>2. calls[h.call] \in Calls /\ calls[h.call].participants \in ParticipantSets
  BY <1>1, CallFields DEF TypeOK
<1>3. ASSUME NEW g \in Nat
      PROVE  [calls[h.call].participants EXCEPT ![h.user] = g] \in ParticipantSets
  BY <1>2 DEF ParticipantSets
<1>4. /\ calls' \in [CallIds -> Calls]
      /\ kicks' \subseteq Kicks
      /\ tails' \subseteq Tails
      /\ refresh' \in Refreshes
  <2>1. CASE h.event = "joined"
    <3>1. Joined(h) /\ h.user \in Users
      BY <1>1, <2>1 DEF DeliverWebhook, TypeOK, Hooks
    <3>2. CASE calls[h.call].state = "absent"
      <4>1. kicks' = kicks \cup {[user |-> h.user, call |-> h.call]}
            /\ UNCHANGED <<calls, tails, refresh>>
        BY <3>1, <3>2 DEF Joined
      <4> QED
        BY <1>1, <3>1, <4>1 DEF Kicks, TypeOK
    <3>3. CASE calls[h.call].state # "absent"
      <4> DEFINE observed == [calls[h.call].participants EXCEPT ![h.user] = h.gen]
      <4>1. Observe(h.call, observed, Nobody)
        BY <3>1, <3>3 DEF Joined
      <4>2. observed \in ParticipantSets
        BY <1>1, <1>3
      <4> HIDE DEF observed
      <4> QED
        BY <1>1, <3>3, <4>1, <4>2, ObserveType
    <3> QED
      BY <3>2, <3>3
  <2>2. CASE h.event = "left"
    <3>1. Left(h)
      BY <2>2 DEF DeliverWebhook
    <3> DEFINE observed == [calls[h.call].participants EXCEPT ![h.user] = 0]
    <3>2. \/ Ignore
          \/ calls[h.call].state # "absent" /\ Observe(h.call, observed, h.user)
      BY <3>1 DEF Left
    <3>3. CASE Ignore
      BY <3>3 DEF Ignore, TypeOK
    <3>4. CASE calls[h.call].state # "absent" /\ Observe(h.call, observed, h.user)
      <4>1. observed \in ParticipantSets
        BY <1>3
      <4> HIDE DEF observed
      <4> QED
        BY <1>1, <3>4, <4>1, ObserveType
    <3> QED
      BY <3>2, <3>3, <3>4
  <2>3. CASE h.event = "finished"
    <3>1. Finished(h)
      BY <2>3 DEF DeliverWebhook
    <3>2. CASE Ignore
      BY <3>2 DEF Ignore, TypeOK
    <3>3. CASE ~Ignore
      <4>1. /\ calls' = [calls EXCEPT ![h.call] = NoCall]
            /\ Revise
            /\ UNCHANGED <<tails, kicks>>
        BY <3>1, <3>3 DEF Finished
      <4>2. NoCall \in Calls
        BY DEF Calls
      <4> QED
        BY <1>1, <4>1, <4>2, CallUpdateType, ReviseType DEF TypeOK
    <3> QED
      BY <3>2, <3>3
  <2> QED
    BY <2>1, <2>2, <2>3 DEF TypeOK, Hooks
<1> QED
  BY <1>4 DEF DeliverWebhook, TypeOK

\* The valid targets are targets.
LEMMA ValidTargetsType == ASSUME TypeOK PROVE ValidTargets \in [Users -> Targets]
BY DEF TypeOK, ValidTargets, Targets, NoTarget

\* Taking Refresh's snapshot keeps the types.
LEMMA RefreshBeginType ==
    ASSUME TypeOK, RefreshBegin
    PROVE  TypeOK'
<1>1. refresh' \in Refreshes
  <2>1. [c \in CallIds |-> IF calls[c].state = "ended" /\ c <= stale.call THEN NoCall
                          ELSE calls[c]] \in [CallIds -> Calls]
    BY DEF TypeOK, Calls
  <2>2. [c \in CallIds |-> Empty] \in [CallIds -> ParticipantSets]
    BY DEF Empty, ParticipantSets
  <2> QED
    BY <2>1, <2>2, ValidTargetsType DEF RefreshBegin, Refreshes, TypeOK
<1> QED
  BY <1>1 DEF RefreshBegin, TypeOK, state, livekit

\* Reading one room's participants keeps the types.
LEMMA RefreshReadType ==
    ASSUME TypeOK, NEW c \in CallIds, RefreshRead(c)
    PROVE  TypeOK'
<1>1. refresh' \in Refreshes
  BY DEF RefreshRead, Refreshes, TypeOK
<1> QED
  BY <1>1 DEF RefreshRead, TypeOK, state, livekit

\* Writing the refreshed state back, or dropping it, keeps the types.
LEMMA RefreshApplyType ==
    ASSUME TypeOK, RefreshApply
    PROVE  TypeOK'
<1>1. refresh' \in Refreshes
  BY NoRefreshType DEF RefreshApply
<1>2. /\ calls' \in [CallIds -> Calls]
      /\ callTargets' \in [Users -> Targets]
      /\ tails' \subseteq Tails
      /\ kicks' \subseteq Kicks
  <2>1. CASE refresh.revised
    BY <2>1 DEF RefreshApply, TypeOK
  <2>2. CASE ~refresh.revised
    <3> DEFINE result(c) == Transition(refresh.calls[c], c, refresh.observed[c], Nobody,
                                       refresh.targets)
               outcome == [c \in CallIds |-> result(c)]
               known == {c \in CallIds : refresh.calls[c].state # "absent"}
    <3>1. /\ calls' = [c \in CallIds |-> IF c \in known THEN outcome[c].next ELSE NoCall]
          /\ callTargets' = refresh.targets
          /\ tails' = tails \cup UNION {outcome[c].tails : c \in known}
          /\ kicks' = kicks \cup UNION {outcome[c].kicks : c \in CallIds}
      BY <2>2 DEF RefreshApply
    <3>2. ASSUME NEW c \in CallIds
          PROVE  /\ refresh.calls[c] \in Calls
                 /\ refresh.observed[c] \in ParticipantSets
      BY DEF TypeOK, Refreshes
    <3>3. ASSUME NEW c \in CallIds
          PROVE  /\ result(c).kicks \subseteq Kicks
                 /\ c \in known => result(c).tails \subseteq Tails
                 /\ c \in known => result(c).next \in Calls
      <4>1. /\ result(c).kicks \subseteq Kicks
            /\ c \in known => result(c).tails \subseteq Tails
        BY <3>2, TransitionEffects
      <4>2. c \in known => result(c).next \in Calls
        BY <3>2, TransitionNext DEF Calls
      <4> QED
        BY <4>1, <4>2
    <3>4. \A c \in CallIds : outcome[c] = result(c)
      OBVIOUS
    <3>5. NoCall \in Calls
      BY DEF Calls
    <3> HIDE DEF result, outcome
    <3>6. calls' \in [CallIds -> Calls]
      BY <3>1, <3>3, <3>4, <3>5
    <3>7. tails' \subseteq Tails
      BY <3>1, <3>3, <3>4 DEF TypeOK
    <3>8. kicks' \subseteq Kicks
      BY <3>1, <3>3, <3>4 DEF TypeOK
    <3> QED
      BY <3>1, <3>6, <3>7, <3>8 DEF TypeOK, Refreshes
  <2> QED
    BY <2>1, <2>2
<1> QED
  BY <1>1, <1>2 DEF RefreshApply, TypeOK, livekit

\* The steps of LiveKit, of its clients and of the clock keep the types.
LEMMA EnvironmentType ==
    ASSUME TypeOK, Environment \/ RefreshFail \/ \E k \in kicks : Kick(k)
    PROVE  TypeOK'
<1>1. ASSUME NEW g \in Nat, NEW c \in CallIds, NEW u \in Users
      PROVE  [conn EXCEPT ![c][u] = g] \in [CallIds -> ParticipantSets]
  BY DEF TypeOK, ParticipantSets
<1>2. ASSUME NEW c \in CallIds, NEW u \in Users, NEW g \in Nat
      PROVE  /\ Hook("joined", c, u, g) \in Hooks
             /\ Hook("left", c, u, g) \in Hooks
             /\ Hook("finished", c, Nobody, 0) \in Hooks
  BY DEF Hook, Hooks
<1>3. ASSUME NEW c \in CallIds, NEW u \in Users
      PROVE  conn[c][u] \in Nat
  BY DEF TypeOK, ParticipantSets
<1>4. ASSUME NEW t \in tokens, Connect(t) PROVE TypeOK'
  <2>1. t \in Tokens /\ t.user \in Users /\ t.call \in CallIds /\ t.gen \in Nat
    BY DEF TypeOK, Tokens
  <2>2. conn' \in [CallIds -> ParticipantSets]
    BY <1>1, <1>4, <2>1 DEF Connect
  <2>3. hooks' \subseteq Hooks
    BY <1>2, <1>3, <1>4, <2>1 DEF Connect, TypeOK
  <2>4. tokens' \subseteq Tokens /\ open' \subseteq CallIds
    BY <1>4, <2>1 DEF Connect, TypeOK
  <2> QED
    BY <1>4, <2>2, <2>3, <2>4 DEF Connect, TypeOK, state
<1>5. ASSUME NEW c \in CallIds, NEW u \in Users, Disconnect(c, u) PROVE TypeOK'
  <2>1. conn' \in [CallIds -> ParticipantSets]
    BY <1>1, <1>5 DEF Disconnect
  <2>2. hooks' \subseteq Hooks
    BY <1>2, <1>3, <1>5 DEF Disconnect, TypeOK
  <2> QED
    BY <1>5, <2>1, <2>2 DEF Disconnect, TypeOK, state
<1>6. ASSUME NEW k \in kicks, Kick(k) PROVE TypeOK'
  <2>1. k.user \in Users /\ k.call \in CallIds
    BY DEF TypeOK, Kicks
  <2>2. conn' \in [CallIds -> ParticipantSets]
    <3>1. conn' = [conn EXCEPT ![k.call][k.user] = 0] \/ conn' = conn
      BY <1>6 DEF Kick
    <3>2. [conn EXCEPT ![k.call][k.user] = 0] \in [CallIds -> ParticipantSets]
      BY <1>1, <2>1
    <3> QED
      BY <3>1, <3>2 DEF TypeOK
  <2>3. hooks' \subseteq Hooks
    BY <1>2, <1>3, <1>6, <2>1 DEF Kick, TypeOK
  <2>4. kicks' \subseteq Kicks
    BY <1>6 DEF Kick, TypeOK
  <2> QED
    BY <1>6, <2>2, <2>3, <2>4 DEF Kick, TypeOK, state
<1>7. ASSUME NEW c \in CallIds, CloseRoom(c) PROVE TypeOK'
  <2>1. hooks' \subseteq Hooks
    BY <1>7 DEF CloseRoom, TypeOK, Hook, Hooks
  <2> QED
    BY <1>7, <2>1 DEF CloseRoom, TypeOK, state
<1>8. ASSUME NEW h \in hooks, LoseWebhook(h) PROVE TypeOK'
  BY <1>8 DEF LoseWebhook, TypeOK, state
<1>9. ASSUME Expire PROVE TypeOK'
  BY <1>9 DEF Expire, TypeOK, state, livekit
<1>10. ASSUME Restart PROVE TypeOK'
  BY <1>10, NoRefreshType DEF Restart, TypeOK, livekit, Calls, Targets, NoTarget
<1>11. ASSUME RefreshFail PROVE TypeOK'
  BY <1>11, NoRefreshType DEF RefreshFail, TypeOK, state, livekit
<1> QED
  BY <1>4, <1>5, <1>6, <1>7, <1>8, <1>9, <1>10, <1>11 DEF Environment

\* Every step keeps the types.
LEMMA TypeStep ==
    ASSUME TypeOK, [Next]_vars
    PROVE  TypeOK'
<1>1. CASE Requests
  BY <1>1, StartCallType, AcceptCallType, EndRingingType, HangUpCallType,
     JoinCallCredentialsType DEF Requests, CallRequests
<1>2. CASE Server
  BY <1>2, TimeoutCallType, RefreshReadType, RunTailType, MintType, EnvironmentType,
     DeliverWebhookType, RefreshBeginType, RefreshApplyType DEF Server
<1>3. CASE Environment
  BY <1>3, EnvironmentType
<1>4. CASE UNCHANGED vars
  BY <1>4 DEF vars, TypeOK
<1> QED
  BY <1>1, <1>2, <1>3, <1>4 DEF Next

\* The coordinator's state is always well formed: in particular an entry of the
\* call table always names two accounts and a phase the handlers know.
THEOREM TypeCorrect == Spec => []TypeOK
BY TypeInit, TypeStep, PTL DEF Spec

-----------------------------------------------------------------------------
(* How a step may change the calls *)

\* A call as it was and as it is: it keeps its parties while it is there, and
\* its phase unless it moves on to the next.
Follows(old, new) ==
    \/ new = NoCall
    \/ /\ old.state # "absent"
       /\ new.caller = old.caller /\ new.callee = old.callee
       /\ \/ new.state = old.state
          \/ old.state = "ringing" /\ new.state \in {"active", "ended"}
          \/ old.state = "active" /\ new.state = "ended"

\* One call moves, the others stay.
LEMMA OneFollows ==
    ASSUME TypeOK, NEW c \in CallIds, NEW new, Follows(calls[c], new),
           calls' = [calls EXCEPT ![c] = new]
    PROVE  \A d \in CallIds : Follows(calls[d], calls'[d])
<1> SUFFICES ASSUME NEW d \in CallIds
             PROVE  Follows(calls[d], calls'[d])
  OBVIOUS
<1>1. calls[d] \in Calls
  BY DEF TypeOK
<1>2. CASE d = c
  BY <1>2 DEF TypeOK
<1>3. CASE d # c
  BY <1>1, <1>3 DEF TypeOK, Follows, Calls, Entries
<1> QED
  BY <1>2, <1>3

\* A call that is left alone follows itself.
LEMMA SameFollows ==
    ASSUME TypeOK, UNCHANGED calls
    PROVE  \A d \in CallIds : Follows(calls[d], calls'[d])
BY DEF TypeOK, Follows, Calls, Entries

\* Ending or connecting a call moves it to the next phase.
LEMMA RequestFollows ==
    ASSUME TypeOK, NEW c \in CallIds, NEW u \in Users,
           \/ AcceptCall(c, u) \/ RejectCall(c, u) \/ CancelCall(c, u)
           \/ HangUpCall(c, u) \/ TimeoutCall(c)
    PROVE  \A d \in CallIds : Follows(calls[d], calls'[d])
<1>1. calls[c] \in Calls
  BY DEF TypeOK
<1>2. ASSUME NEW reason, NEW emits, Finish(c, reason, emits), IsLive(calls[c])
      PROVE  \A d \in CallIds : Follows(calls[d], calls'[d])
  <2> DEFINE new == [calls[c] EXCEPT !.state = "ended", !.reason = reason]
  <2>1. calls' = [calls EXCEPT ![c] = new]
    BY <1>2 DEF Finish
  <2>2. Follows(calls[c], new)
    BY <1>1, <1>2 DEF Follows, IsLive, Calls, Entries, NoCall
  <2> HIDE DEF new
  <2> QED
    BY <2>1, <2>2, OneFollows
<1>3. CASE AcceptCall(c, u)
  <2> DEFINE new == [calls[c] EXCEPT !.state = "active"]
  <2>1. calls' = [calls EXCEPT ![c] = new]
    BY <1>3 DEF AcceptCall
  <2>2. Follows(calls[c], new)
    BY <1>1, <1>3 DEF Follows, AcceptCall, Calls, Entries, NoCall
  <2> HIDE DEF new
  <2> QED
    BY <2>1, <2>2, OneFollows
<1>4. CASE RejectCall(c, u) \/ CancelCall(c, u)
  BY <1>2, <1>4 DEF RejectCall, CancelCall, EndRinging, IsLive
<1>5. CASE HangUpCall(c, u)
  BY <1>2, <1>5 DEF HangUpCall, IsLive
<1>6. CASE TimeoutCall(c)
  BY <1>2, <1>6, SameFollows DEF TimeoutCall, TimedOut, IsLive
<1> QED
  BY <1>3, <1>4, <1>5, <1>6

\* So do an eviction, an observation and a finished room.
LEMMA TailAndHookFollow ==
    ASSUME TypeOK,
           \/ \E t \in tails : RunTail(t)
           \/ \E h \in hooks : DeliverWebhook(h)
    PROVE  \A d \in CallIds : Follows(calls[d], calls'[d])
<1>1. ASSUME NEW c \in CallIds, calls' = [calls EXCEPT ![c] = NoCall]
      PROVE  \A d \in CallIds : Follows(calls[d], calls'[d])
  BY <1>1, OneFollows DEF Follows
<1>2. ASSUME NEW c \in CallIds, calls[c].state # "absent",
             NEW observed \in ParticipantSets, NEW left, Observe(c, observed, left)
      PROVE  \A d \in CallIds : Follows(calls[d], calls'[d])
  <2> DEFINE new == Transition(calls[c], c, observed, left, ValidTargets).next
  <2>1. calls[c] \in Calls
    BY DEF TypeOK
  <2>2. calls' = [calls EXCEPT ![c] = new]
    BY <1>2 DEF Observe
  <2>3. Follows(calls[c], new)
    BY <1>2, <2>1, TransitionNext DEF Follows
  <2> HIDE DEF new
  <2> QED
    BY <2>2, <2>3, OneFollows
<1>3. ASSUME NEW t \in tails, RunTail(t)
      PROVE  \A d \in CallIds : Follows(calls[d], calls'[d])
  <2>1. t.call \in CallIds
    BY DEF TypeOK, Tails
  <2>2. calls' = [calls EXCEPT ![t.call] = NoCall] \/ UNCHANGED calls
    BY <1>3 DEF RunTail, state
  <2> QED
    BY <1>1, <2>1, <2>2, SameFollows
<1>4. ASSUME NEW h \in hooks, DeliverWebhook(h)
      PROVE  \A d \in CallIds : Follows(calls[d], calls'[d])
  <2>1. h \in Hooks /\ h.call \in CallIds /\ h.gen \in Nat
    BY DEF TypeOK, Hooks
  <2> DEFINE before == calls[h.call].participants
             joined == [before EXCEPT ![h.user] = h.gen]
             without == [before EXCEPT ![h.user] = 0]
  <2>2. joined \in ParticipantSets /\ without \in ParticipantSets
    BY <2>1, CallFields DEF TypeOK, ParticipantSets
  <2>3. \/ UNCHANGED calls
        \/ calls' = [calls EXCEPT ![h.call] = NoCall]
        \/ /\ calls[h.call].state # "absent"
           /\ \/ Observe(h.call, joined, Nobody)
              \/ Observe(h.call, without, h.user)
    <3>1. CASE h.event = "joined"
      <4>1. Joined(h)
        BY <1>4, <3>1 DEF DeliverWebhook
      <4> QED
        BY <4>1 DEF Joined
    <3>2. CASE h.event = "left"
      <4>1. Left(h)
        BY <1>4, <3>2 DEF DeliverWebhook
      <4> QED
        BY <4>1 DEF Left, Ignore
    <3>3. CASE h.event = "finished"
      <4>1. Finished(h)
        BY <1>4, <3>3 DEF DeliverWebhook
      <4> QED
        BY <4>1 DEF Finished, Ignore
    <3> QED
      BY <2>1, <3>1, <3>2, <3>3 DEF Hooks
  <2> HIDE DEF before, joined, without
  <2> QED
    BY <1>1, <1>2, <2>1, <2>2, <2>3, SameFollows
<1> QED
  BY <1>3, <1>4

\* Refresh writes back what is there now, less what its observations change:
\* this is where the snapshot must be current.
LEMMA RefreshFollows ==
    ASSUME TypeOK, SnapshotCurrent, RefreshApply
    PROVE  \A d \in CallIds : Follows(calls[d], calls'[d])
<1>1. CASE refresh.revised
  BY <1>1, SameFollows DEF RefreshApply
<1>2. CASE ~refresh.revised
  <2> DEFINE result(c) == Transition(refresh.calls[c], c, refresh.observed[c], Nobody,
                                     refresh.targets)
             outcome == [c \in CallIds |-> result(c)]
             known == {c \in CallIds : refresh.calls[c].state # "absent"}
  <2>1. calls' = [c \in CallIds |-> IF c \in known THEN outcome[c].next ELSE NoCall]
    BY <1>2 DEF RefreshApply
  <2>2. SUFFICES ASSUME NEW d \in CallIds
                 PROVE  Follows(calls[d], calls'[d])
    OBVIOUS
  <2>3. CASE d \notin known
    <3>1. calls'[d] = NoCall
      BY <2>1, <2>3
    <3> QED
      BY <3>1 DEF Follows
  <2>4. CASE d \in known
    <3>1. calls'[d] = result(d).next
      BY <2>1, <2>4
    <3>2. refresh.calls[d] \in Calls /\ refresh.observed[d] \in ParticipantSets
      BY DEF TypeOK, Refreshes
    <3>3. refresh.on
      BY DEF RefreshApply
    <3>4. refresh.calls[d] = calls[d] /\ calls[d].state # "absent"
      BY <1>2, <2>4, <3>3 DEF SnapshotCurrent, NoCall
    <3>5. \/ result(d).next = NoCall
          \/ /\ result(d).next.caller = calls[d].caller
             /\ result(d).next.callee = calls[d].callee
             /\ \/ result(d).next.state = calls[d].state
                \/ calls[d].state = "active" /\ result(d).next.state = "ended"
      BY <3>2, <3>4, TransitionNext
    <3> HIDE DEF result
    <3> QED
      BY <3>1, <3>4, <3>5 DEF Follows
  <2> QED
    BY <2>3, <2>4
<1> QED
  BY <1>1, <1>2

\* Every step but a dialling one moves calls forward only.
LEMMA StepFollows ==
    ASSUME TypeOK, SnapshotCurrent, [Next]_vars
    PROVE  \/ \E u, v \in Users, f \in Facts : StartCall(u, v, f)
           \/ /\ dialled' = dialled
              /\ \A d \in CallIds : Follows(calls[d], calls'[d])
<1>1. CASE Requests
  <2>1. ASSUME NEW c \in CallIds, NEW u \in Users,
               \/ AcceptCall(c, u) \/ RejectCall(c, u) \/ CancelCall(c, u)
               \/ HangUpCall(c, u)
        PROVE  dialled' = dialled
    BY <2>1 DEF AcceptCall, RejectCall, CancelCall, EndRinging, HangUpCall
  <2>2. ASSUME NEW c \in CallIds, NEW u \in Users, JoinCallCredentials(c, u)
        PROVE  dialled' = dialled /\ UNCHANGED calls
    BY <2>2 DEF JoinCallCredentials
  <2> QED
    BY <1>1, <2>1, <2>2, RequestFollows, SameFollows DEF Requests, CallRequests
<1>2. CASE Server
  <2>1. ASSUME NEW c \in CallIds, TimeoutCall(c)
        PROVE  dialled' = dialled /\ \A d \in CallIds : Follows(calls[d], calls'[d])
    <3>1. CASE TimedOut(c)
      <4>1. calls[c] \in Calls /\ calls[c].caller \in Users
        BY <3>1, EntryParties DEF TypeOK, TimedOut
      <4> QED
        BY <2>1, <4>1, RequestFollows DEF TimeoutCall
    <3>2. CASE ~TimedOut(c)
      BY <2>1, <3>2, SameFollows DEF TimeoutCall
    <3> QED
      BY <3>1, <3>2
  <2>2. ASSUME NEW c \in CallIds, RefreshRead(c)
        PROVE  dialled' = dialled /\ UNCHANGED calls
    BY <2>2 DEF RefreshRead, state
  <2>3. ASSUME NEW t \in tails, RunTail(t)
        PROVE  dialled' = dialled
    BY <2>3 DEF RunTail, state
  <2>4. ASSUME NEW m \in mints, IssueToken(m) \/ TokenFails(m)
        PROVE  dialled' = dialled /\ UNCHANGED calls
    BY <2>4 DEF IssueToken, TokenFails
  <2>5. ASSUME NEW k \in kicks, Kick(k)
        PROVE  dialled' = dialled /\ UNCHANGED calls
    BY <2>5 DEF Kick, state
  <2>6. ASSUME NEW h \in hooks, DeliverWebhook(h)
        PROVE  dialled' = dialled
    BY <2>6 DEF DeliverWebhook
  <2>7. ASSUME RefreshBegin \/ RefreshFail
        PROVE  dialled' = dialled /\ UNCHANGED calls
    BY <2>7 DEF RefreshBegin, RefreshFail, state
  <2>8. ASSUME RefreshApply
        PROVE  dialled' = dialled
    BY <2>8 DEF RefreshApply
  <2> QED
    BY <1>2, <2>1, <2>2, <2>3, <2>4, <2>5, <2>6, <2>7, <2>8, SameFollows,
       TailAndHookFollow, RefreshFollows DEF Server
<1>3. CASE Environment
  <2>1. CASE Restart
    BY <2>1 DEF Restart, Follows
  <2>2. CASE ~Restart
    <3>1. dialled' = dialled /\ UNCHANGED calls
      BY <1>3, <2>2 DEF Environment, Connect, Disconnect, CloseRoom, LoseWebhook,
                        Expire, state
    <3> QED
      BY <3>1, SameFollows
  <2> QED
    BY <2>1, <2>2
<1>4. CASE UNCHANGED vars
  BY <1>4, SameFollows DEF vars
<1> QED
  BY <1>1, <1>2, <1>3, <1>4 DEF Next

-----------------------------------------------------------------------------
(* Refresh's snapshot *)

\* A step that changes a call or a target leaves no running Refresh that would
\* write the old state back.
LEMMA ChangesRevise ==
    ASSUME TypeOK, [Next]_vars
    PROVE  \/ UNCHANGED <<calls, callTargets, refresh>>
           \/ Revise
           \/ refresh' = NoRefresh
           \/ RefreshBegin
           \/ \E c \in CallIds : RefreshRead(c)
<1>1. CASE Requests
  BY <1>1 DEF Requests, CallRequests, StartCall, AcceptCall, RejectCall, CancelCall, EndRinging,
              HangUpCall, JoinCallCredentials, Finish
<1>2. CASE Server
  <2>1. ASSUME NEW c \in CallIds, TimeoutCall(c)
        PROVE  UNCHANGED <<calls, callTargets, refresh>> \/ Revise
    BY <2>1 DEF TimeoutCall, Finish
  <2>2. ASSUME NEW t \in tails, RunTail(t)
        PROVE  UNCHANGED <<calls, callTargets, refresh>> \/ Revise
    BY <2>2 DEF RunTail, state
  <2>3. ASSUME NEW m \in mints, IssueToken(m) \/ TokenFails(m)
        PROVE  UNCHANGED <<calls, callTargets, refresh>> \/ Revise
    BY <2>3 DEF IssueToken, TokenFails
  <2>4. ASSUME NEW k \in kicks, Kick(k)
        PROVE  UNCHANGED <<calls, callTargets, refresh>>
    BY <2>4 DEF Kick, state
  <2>5. ASSUME NEW h \in hooks, DeliverWebhook(h)
        PROVE  UNCHANGED <<calls, callTargets, refresh>> \/ Revise
    <3>1. ASSUME NEW c, NEW observed, NEW left, Observe(c, observed, left)
          PROVE  UNCHANGED <<calls, refresh>> \/ Revise
      <4> DEFINE r == Transition(calls[c], c, observed, left, ValidTargets)
      <4>1. /\ calls' = [calls EXCEPT ![c] = r.next]
            /\ IF r.next # calls[c] THEN Revise ELSE UNCHANGED refresh
        BY <3>1 DEF Observe
      <4> HIDE DEF r
      <4> QED
        BY <4>1 DEF TypeOK
    <3>2. UNCHANGED callTargets
      BY <2>5 DEF DeliverWebhook
    <3>3. \/ UNCHANGED <<calls, refresh>> \/ Revise
          \/ \E c, observed, left : Observe(c, observed, left)
      <4>1. CASE h.event = "joined"
        <5>1. Joined(h)
          BY <2>5, <4>1 DEF DeliverWebhook
        <5> QED
          BY <5>1 DEF Joined
      <4>2. CASE h.event = "left"
        <5>1. Left(h)
          BY <2>5, <4>2 DEF DeliverWebhook
        <5> QED
          BY <5>1 DEF Left, Ignore
      <4>3. CASE h.event = "finished"
        <5>1. Finished(h)
          BY <2>5, <4>3 DEF DeliverWebhook
        <5> QED
          BY <5>1 DEF Finished, Ignore
      <4> QED
        BY <4>1, <4>2, <4>3 DEF TypeOK, Hooks
    <3> QED
      BY <3>1, <3>2, <3>3
  <2>6. RefreshApply \/ RefreshFail => refresh' = NoRefresh
    BY DEF RefreshApply, RefreshFail
  <2> QED
    BY <1>2, <2>1, <2>2, <2>3, <2>4, <2>5, <2>6 DEF Server
<1>3. CASE Environment
  BY <1>3 DEF Environment, Connect, Disconnect, CloseRoom, LoseWebhook, Expire, Restart, state
<1>4. CASE UNCHANGED vars
  BY <1>4 DEF vars
<1> QED
  BY <1>1, <1>2, <1>3, <1>4 DEF Next

\* No step puts a running Refresh out of step with the coordinator.
LEMMA SnapshotStep ==
    ASSUME TypeOK, SnapshotCurrent, [Next]_vars
    PROVE  SnapshotCurrent'
<1>1. CASE UNCHANGED <<calls, callTargets, refresh>>
  BY <1>1 DEF SnapshotCurrent
<1>2. CASE Revise
  BY <1>2 DEF Revise, Outdated, NoRefresh, SnapshotCurrent
<1>3. CASE refresh' = NoRefresh
  BY <1>3 DEF NoRefresh, SnapshotCurrent
<1>4. CASE RefreshBegin
  BY <1>4 DEF RefreshBegin, ValidTargets, SnapshotCurrent, state
<1>5. ASSUME NEW c \in CallIds, RefreshRead(c)
      PROVE  SnapshotCurrent'
  <2>1. /\ refresh'.on = refresh.on /\ refresh'.revised = refresh.revised
        /\ refresh'.calls = refresh.calls /\ refresh'.targets = refresh.targets
        /\ UNCHANGED <<calls, callTargets>>
    BY <1>5 DEF RefreshRead, TypeOK, Refreshes, state
  <2> QED
    BY <2>1 DEF SnapshotCurrent
<1> QED
  BY <1>1, <1>2, <1>3, <1>4, <1>5, ChangesRevise

-----------------------------------------------------------------------------
(* The promises *)

\* The inductive invariant.  One live call per user is not inductive alone: the
\* id a new call takes must be free, and Refresh must not write back a call
\* that has since ended and freed its parties.
CallInvariant ==
    /\ TypeOK
    /\ SnapshotCurrent
    /\ UndialledAbsent
    /\ OneLiveCallPerUser

\* It holds of a server just started.
LEMMA CallInvariantInit == Init => CallInvariant
BY TypeInit DEF Init, CallInvariant, SnapshotCurrent, NoRefresh, UndialledAbsent,
                OneLiveCallPerUser, IsLive, NoCall

\* A call that rings found its callee free.
LEMMA StartRings ==
    ASSUME NEW v, NEW f, StartReason(v, f) = "none"
    PROVE  ~Busy(v)
BY Zenon DEF StartReason

\* A dialled call takes a free id; if it rings, nobody else rings its parties.
LEMMA StartCallKeeps ==
    ASSUME CallInvariant, NEW u \in Users, NEW v \in Users, NEW f \in Facts,
           StartCall(u, v, f)
    PROVE  UndialledAbsent' /\ OneLiveCallPerUser'
<1> DEFINE c == dialled + 1
           rings == StartReason(v, f) = "none"
           entry == [state |-> IF rings THEN "ringing" ELSE "ended",
                     caller |-> u, callee |-> v, reason |-> StartReason(v, f),
                     participants |-> Empty]
<1>1. c \in CallIds /\ dialled' = c /\ dialled \in Nat
  BY DEF StartCall, CallInvariant, TypeOK, CallIds
<1>2. calls' = [calls EXCEPT ![c] = entry]
  BY DEF StartCall
<1>3. calls'[c] = entry /\ \A d \in CallIds \ {c} : calls'[d] = calls[d]
  BY <1>1, <1>2 DEF CallInvariant, TypeOK
<1>4. UndialledAbsent'
  BY <1>1, <1>3 DEF UndialledAbsent, CallInvariant, CallIds
<1>5. rings => ~Busy(v)
  BY StartRings
<1>6. ASSUME NEW d \in CallIds \ {c}, IsLive(calls'[c]), IsLive(calls'[d])
      PROVE  Parties(calls'[c]) \cap Parties(calls'[d]) = {}
  <2>1. rings
    BY <1>3, <1>6 DEF IsLive
  <2>2. v \notin Parties(calls[d])
    BY <1>3, <1>5, <1>6, <2>1 DEF Busy
  <2>3. u \notin Parties(calls[d])
    <3>1. ~CallerBusyElsewhere(u, v)
      BY DEF StartCall
    <3> QED
      BY <1>3, <1>6, <2>2, <3>1 DEF CallerBusyElsewhere, Parties
  <2>4. Parties(calls'[c]) = {u, v}
    BY <1>3 DEF Parties
  <2> QED
    BY <1>3, <2>2, <2>3, <2>4
<1>7. OneLiveCallPerUser'
  BY <1>3, <1>6 DEF OneLiveCallPerUser, CallInvariant
<1> QED
  BY <1>4, <1>7

\* Every step keeps the invariant.
LEMMA CallInvariantStep ==
    ASSUME CallInvariant, [Next]_vars
    PROVE  CallInvariant'
<1>1. TypeOK' /\ SnapshotCurrent'
  BY TypeStep, SnapshotStep DEF CallInvariant
<1>2. CASE \E u, v \in Users, f \in Facts : StartCall(u, v, f)
  BY <1>1, <1>2, StartCallKeeps DEF CallInvariant
<1>3. CASE dialled' = dialled /\ \A d \in CallIds : Follows(calls[d], calls'[d])
  <2>1. UndialledAbsent'
    BY <1>3 DEF CallInvariant, UndialledAbsent, Follows, NoCall
  <2>2. ASSUME NEW d \in CallIds, IsLive(calls'[d])
        PROVE  IsLive(calls[d]) /\ Parties(calls'[d]) = Parties(calls[d])
    BY <1>3, <2>2 DEF Follows, IsLive, NoCall, Parties
  <2>3. OneLiveCallPerUser'
    BY <2>2 DEF CallInvariant, OneLiveCallPerUser
  <2> QED
    BY <1>1, <2>1, <2>3 DEF CallInvariant
<1> QED
  BY <1>2, <1>3, StepFollows DEF CallInvariant

\* No account is ever in two calls that ring or run at the same moment, however
\* dialling, webhooks, timers, evictions, refreshes and restarts interleave.
THEOREM OneLiveCall == Spec => []OneLiveCallPerUser
<1>1. CallInvariant => OneLiveCallPerUser
  BY DEF CallInvariant
<1> QED
  BY <1>1, CallInvariantInit, CallInvariantStep, PTL DEF Spec

\* Every change of a call or a target invalidates the running Refresh: what it
\* writes back is never older than what the handlers have done.
THEOREM RefreshCurrent == Spec => []SnapshotCurrent
<1>1. CallInvariant => SnapshotCurrent
  BY DEF CallInvariant
<1> QED
  BY <1>1, CallInvariantInit, CallInvariantStep, PTL DEF Spec

-----------------------------------------------------------------------------
(* The coordinator implements CallLedger *)

\* The ledger's view of one call.
PhaseOf(c) == IF c > dialled THEN "none"
              ELSE IF calls[c].state = "absent" THEN "gone" ELSE calls[c].state
PartiesOf(c) == Parties(calls[c]) \ {Nobody}

\* The coordinator starts where the ledger starts.
LEMMA LedgerInit == Init => Ledger!Init
BY DEF Init, Ledger!Init, Ledger!CallIds, CallIds, NoCall, Parties

\* Dialling a call is the ledger's Dial.
LEMMA StartCallDials ==
    ASSUME CallInvariant, NEW u \in Users, NEW v \in Users, NEW f \in Facts,
           StartCall(u, v, f)
    PROVE  Ledger!Next
<1>a. PICK c \in CallIds : c = dialled + 1
  BY DEF StartCall, CallInvariant, TypeOK, CallIds
<1>b. PICK first \in {"ringing", "ended"} :
         first = IF StartReason(v, f) = "none" THEN "ringing" ELSE "ended"
  OBVIOUS
<1> DEFINE entry == [state |-> first, caller |-> u, callee |-> v,
                    reason |-> StartReason(v, f), participants |-> Empty]
<1>1. c \in CallIds /\ dialled' = c /\ dialled \in Nat /\ c = dialled + 1
  BY <1>a DEF StartCall, CallInvariant, TypeOK, CallIds
<1>2. calls' = [calls EXCEPT ![c] = entry]
  BY <1>a, <1>b DEF StartCall
<1>3. calls'[c] = entry /\ \A d \in CallIds \ {c} : calls'[d] = calls[d]
  BY <1>1, <1>2 DEF CallInvariant, TypeOK
<1>4. ASSUME NEW d \in CallIds
      PROVE  /\ PhaseOf(d)' = IF d = c THEN first ELSE PhaseOf(d)
             /\ PartiesOf(d)' = IF d = c THEN {u, v} ELSE PartiesOf(d)
  <2>1. CASE d = c
    <3>1. PhaseOf(d)' = first
      BY <1>1, <1>3, <2>1 DEF PhaseOf
    <3>2. PartiesOf(d)' = {u, v}
      BY <1>3, <2>1 DEF PartiesOf, Parties
    <3> QED
      BY <2>1, <3>1, <3>2
  <2>2. CASE d # c
    <3>1. calls'[d] = calls[d]
      BY <1>3, <2>2
    <3>2. d > dialled' <=> d > dialled
      BY <1>1, <2>2 DEF CallIds
    <3> QED
      BY <2>2, <3>1, <3>2 DEF PhaseOf, PartiesOf
  <2> QED
    BY <2>1, <2>2
<1>5. /\ [d \in CallIds |-> PhaseOf(d)]' =
           [[d \in CallIds |-> PhaseOf(d)] EXCEPT ![c] = first]
      /\ [d \in CallIds |-> PartiesOf(d)]' =
           [[d \in CallIds |-> PartiesOf(d)] EXCEPT ![c] = {u, v}]
  <2> QED
    BY <1>4
<1>6. PhaseOf(c) = "none"
  BY <1>1 DEF PhaseOf
<1>7. ASSUME first = "ringing", NEW d \in CallIds, PhaseOf(d) \in {"ringing", "active"}
      PROVE  u \notin PartiesOf(d) /\ v \notin PartiesOf(d)
  <2>1. IsLive(calls[d])
    BY <1>7 DEF PhaseOf, IsLive
  <2>2. ~Busy(v)
    BY <1>7, <1>b, StartRings
  <2>3. v \notin Parties(calls[d])
    BY <2>1, <2>2 DEF Busy
  <2>4. u \notin Parties(calls[d])
    <3>1. ~CallerBusyElsewhere(u, v)
      BY DEF StartCall
    <3> QED
      BY <2>1, <2>3, <3>1 DEF CallerBusyElsewhere, Parties
  <2> QED
    BY <2>3, <2>4 DEF PartiesOf
<1>8. Ledger!Dial(c, {u, v}, first)
  <2>1. ASSUME first = "ringing", NEW x \in {u, v}
        PROVE  ~Ledger!Engaged(x)
    BY <1>7, <2>1 DEF Ledger!Engaged, Ledger!Live, Ledger!CallIds, CallIds, PhaseOf, PartiesOf
  <2>2. [d \in CallIds |-> PhaseOf(d)][c] = "none"
    BY <1>1, <1>6
  <2> HIDE DEF entry
  <2> QED
    BY <1>1, <1>5, <2>1, <2>2 DEF Ledger!Dial, Ledger!CallIds, CallIds, PhaseOf, PartiesOf
<1> QED
  BY <1>1, <1>8 DEF Ledger!Next, Ledger!CallIds, CallIds

\* Every other step is the ledger's Advance.
LEMMA FollowsAdvances ==
    ASSUME CallInvariant, CallInvariant', dialled' = dialled,
           \A d \in CallIds : Follows(calls[d], calls'[d])
    PROVE  Ledger!Advance
<1>1. ASSUME NEW d \in CallIds
      PROVE  /\ PhaseOf(d)' \in {"none", "ringing", "active", "ended", "gone"}
             /\ PhaseOf(d)' # PhaseOf(d) => PhaseOf(d)' \in Ledger!Successors(PhaseOf(d))
             /\ PartiesOf(d)' = IF PhaseOf(d)' = "gone" THEN {} ELSE PartiesOf(d)
  <2>1. calls[d] \in Calls /\ calls'[d] \in Calls
    BY DEF CallInvariant, TypeOK
  <2>2. d \in Nat /\ dialled \in Nat
    BY DEF CallInvariant, TypeOK, CallIds
  <2>3. CASE d > dialled
    <3>1. calls[d] = NoCall /\ calls'[d] = NoCall
      BY <2>3 DEF CallInvariant, UndialledAbsent
    <3>2. PhaseOf(d) = "none" /\ PhaseOf(d)' = "none"
      BY <2>3 DEF PhaseOf
    <3> QED
      BY <3>1, <3>2 DEF PartiesOf, Parties, NoCall
  <2>4. CASE ~(d > dialled) /\ calls'[d] = NoCall
    <3>1. PhaseOf(d)' = "gone" /\ PartiesOf(d)' = {}
      BY <2>4 DEF PhaseOf, PartiesOf, Parties, NoCall
    <3>2. PhaseOf(d) \in {"ringing", "active", "ended", "gone"}
      BY <2>1, <2>4 DEF PhaseOf, Calls, Entries, NoCall
    <3> QED
      BY <3>1, <3>2 DEF Ledger!Successors
  <2>5. CASE ~(d > dialled) /\ calls'[d] # NoCall
    <3>1. calls[d] \in Entries /\ calls'[d] \in Entries
      BY <2>1, <2>5 DEF Follows, Calls, Entries, NoCall
    <3>2. PhaseOf(d) = calls[d].state /\ PhaseOf(d)' = calls'[d].state
      BY <2>5, <3>1 DEF PhaseOf, Entries
    <3>3. PartiesOf(d)' = PartiesOf(d)
      BY <2>5 DEF Follows, PartiesOf, Parties
    <3>4. \/ calls'[d].state = calls[d].state
          \/ calls[d].state = "ringing" /\ calls'[d].state \in {"active", "ended"}
          \/ calls[d].state = "active" /\ calls'[d].state = "ended"
      BY <2>5 DEF Follows
    <3> QED
      BY <3>1, <3>2, <3>3, <3>4 DEF Entries, Ledger!Successors
  <2> QED
    BY <2>3, <2>4, <2>5
<1>2. [d \in CallIds |-> PhaseOf(d)]' \in [CallIds -> {"none", "ringing", "active", "ended", "gone"}]
  BY <1>1
<1>3. [d \in CallIds |-> PartiesOf(d)]' =
        [d \in CallIds |-> IF [e \in CallIds |-> PhaseOf(e)]'[d] = "gone" THEN {}
                           ELSE [e \in CallIds |-> PartiesOf(e)][d]]
  BY <1>1
<1> QED
  BY <1>1, <1>2, <1>3 DEF Ledger!Advance, Ledger!CallIds, CallIds, Ledger!Phases, PhaseOf, PartiesOf

\* Every step of the coordinator is a step of the ledger, or changes nothing the
\* ledger sees.
LEMMA LedgerStep ==
    ASSUME CallInvariant, [Next]_vars
    PROVE  [Ledger!Next]_(Ledger!vars)
<1>1. CallInvariant'
  BY CallInvariantStep
<1>2. CASE \E u, v \in Users, f \in Facts : StartCall(u, v, f)
  BY <1>2, StartCallDials
<1>3. CASE dialled' = dialled /\ \A d \in CallIds : Follows(calls[d], calls'[d])
  BY <1>1, <1>3, FollowsAdvances DEF Ledger!Next
<1> QED
  BY <1>2, <1>3, StepFollows DEF CallInvariant

\* The coordinator, with its locks, timers, webhooks and refreshes, implements
\* the ledger: every call goes through its phases once and in order, and never
\* rings while one of its parties is engaged.
THEOREM CoordinatorImplementsLedger == Spec => ImplementsLedger
BY LedgerInit, LedgerStep, CallInvariantInit, CallInvariantStep, PTL
   DEF Spec, ImplementsLedger, Ledger!Spec

-----------------------------------------------------------------------------
(* One outcome.  A call is told of by the signals sent (ss) and by those a  *)
(* handler still holds (ts); nothing terminal is told while the call is     *)
(* open, and closing it tells of one outcome.                               *)

Holds(t, c, type) == t.call = c /\ \E i \in DOMAIN t.emits : t.emits[i].type = type

Outcomes(ts, ss, c) ==
    {a \in Terminal : \/ \E t \in ts : Holds(t, c, a)
                      \/ \E s \in ss : s.call = c /\ s.type = a}

IsOpen(call, c, n) == IsLive(call) \/ c > n

ToldOnce ==
    \A c \in CallIds :
        /\ \A a, b \in Outcomes(tails, sent, c) : a = b
        /\ IsOpen(calls[c], c, dialled) => Outcomes(tails, sent, c) = {}

\* What a step may tell of call c.
Tells(c) ==
    \/ Outcomes(tails', sent', c) \subseteq Outcomes(tails, sent, c)
    \/ /\ IsOpen(calls[c], c, dialled) /\ ~IsOpen(calls'[c], c, dialled')
       /\ \E r \in Terminal : Outcomes(tails', sent', c) \subseteq Outcomes(tails, sent, c) \cup {r}

\* A handler that emits nothing terminal tells nothing.
LEMMA DeferTells ==
    ASSUME NEW d, NEW emits, NEW evict, Defer(d, emits, evict), sent' = sent,
           \A i \in DOMAIN emits : emits[i].type \notin Terminal, NEW c \in CallIds
    PROVE  Tells(c)
BY DEF Defer, Tells, Outcomes, Holds

\* A tail that runs tells of what it held.
LEMMA RunTailTells ==
    ASSUME TypeOK, NEW t \in tails, RunTail(t), NEW c \in CallIds
    PROVE  Tells(c)
<1>1. t \in Tails /\ t.emits \in Seq(Emits)
  BY DEF TypeOK, Tails
<1>2. CASE t.emits # <<>>
  <2> DEFINE e == t.emits[1]
             rest == [t EXCEPT !.emits = Tail(t.emits)]
  <2>1. Holds(t, t.call, e.type)
    BY <1>1, <1>2 DEF Holds
  <2>2. tails' \subseteq (tails \ {t}) \cup {rest}
    BY <1>2 DEF RunTail
  <2>3. PICK peer : sent' = sent \cup {[to |-> e.to, call |-> t.call, type |-> e.type, peer |-> peer]}
    BY <1>2 DEF RunTail
  <2>4. ASSUME NEW i \in DOMAIN rest.emits
        PROVE  i + 1 \in DOMAIN t.emits /\ rest.emits[i] = t.emits[i + 1]
    BY <1>1, <1>2 DEF Tails
  <2>5. rest.call = t.call
    BY <1>1 DEF Tails
  <2>6. \A a : Holds(rest, c, a) => Holds(t, c, a)
    BY <2>4, <2>5 DEF Holds
  <2> HIDE DEF rest
  <2>7. ASSUME NEW s \in sent', s.call = c, s.type \in Terminal
        PROVE  s.type \in Outcomes(tails, sent, c)
    BY <2>1, <2>3, <2>7 DEF Outcomes
  <2>8. ASSUME NEW x \in tails', NEW a \in Terminal, Holds(x, c, a)
        PROVE  a \in Outcomes(tails, sent, c)
    BY <2>2, <2>6, <2>8 DEF Outcomes
  <2> QED
    BY <2>7, <2>8 DEF Tells, Outcomes
<1>3. CASE t.emits = <<>>
  BY <1>3 DEF RunTail, Tells, Outcomes
<1> QED
  BY <1>2, <1>3

\* An observation tells only of a call that it ends, and of its end only.
LEMMA TransitionTells ==
    ASSUME NEW call \in Calls, call.state # "absent", NEW c \in CallIds,
           NEW observed \in ParticipantSets, NEW left, NEW targets,
           NEW t \in Transition(call, c, observed, left, targets).tails
    PROVE  /\ t.call = c /\ \A i \in DOMAIN t.emits : t.emits[i].type = "call_end"
           /\ ~t.evict
           /\ call.state = "active"
           /\ ~IsLive(Transition(call, c, observed, left, targets).next)
<1> DEFINE T == Transition(call, c, observed, left, targets)
           refused == {u \in Members(observed) : ~Allowed(targets[u], c, observed[u])}
           next == [u \in Users |-> IF u \in refused THEN call.participants[u] ELSE observed[u]]
           removed == Removed(call, observed)
           leavers == (removed \cup ({left} \ Members(observed))) \cap (Parties(call) \ {Nobody})
           ends == call.state = "active" /\ leavers # {}
           gone == Vanishes(IF ends THEN "ended" ELSE call.state, Members(next), removed, ends)
           told == IF ends THEN {u \in Parties(call) \ leavers : next[u] # 0} ELSE {}
<1>1. T.tails = {[call |-> c, evict |-> FALSE,
                  emits |-> <<[to |-> u, type |-> "call_end", peer |-> PeerOf(call, u)]>>] :
                 u \in told}
  BY Zenon DEF Transition
<1>2. T.next = IF gone THEN NoCall
               ELSE [call EXCEPT !.state = IF ends THEN "ended" ELSE call.state,
                                 !.reason = IF ends THEN "call_end" ELSE @,
                                 !.participants = next]
  BY Zenon DEF Transition
<1>3. call \in Entries
  BY EntryParties
<1> HIDE DEF T, leavers, next, gone
<1>4. PICK u \in told : t = [call |-> c, evict |-> FALSE,
                   emits |-> <<[to |-> u, type |-> "call_end", peer |-> PeerOf(call, u)]>>]
  BY <1>1 DEF T
<1>5. ends
  BY <1>4
<1>6. ~IsLive(T.next)
  BY <1>2, <1>3, <1>5 DEF IsLive, NoCall, Entries
<1>7. t.call = c /\ ~t.evict /\ \A i \in DOMAIN t.emits : t.emits[i].type = "call_end"
  BY <1>4
<1> QED
  BY <1>5, <1>6, <1>7 DEF T

\* A handler that closes a call tells of it in one way.
LEMMA FinishTells ==
    ASSUME CallInvariant, NEW d \in CallIds, IsLive(calls[d]), NEW reason \in Terminal,
           NEW emits, \A i \in DOMAIN emits : emits[i].type = reason,
           Finish(d, reason, emits), sent' = sent, dialled' = dialled, NEW c \in CallIds
    PROVE  Tells(c)
<1>1. Outcomes(tails', sent', c) \subseteq
        Outcomes(tails, sent, c) \cup (IF c = d THEN {reason} ELSE {})
  BY DEF Finish, Defer, Outcomes, Holds
<1>2. CASE c # d
  BY <1>1, <1>2 DEF Tells
<1>3. CASE c = d
  <2>1. calls[d] \in Calls /\ calls[d] # NoCall
    BY DEF CallInvariant, TypeOK, IsLive, NoCall
  <2>2. calls'[d].state = "ended"
    BY <2>1 DEF Finish, CallInvariant, TypeOK, Calls, Entries
  <2>3. ~(d > dialled)
    BY <2>1 DEF CallInvariant, UndialledAbsent
  <2>4. IsOpen(calls[c], c, dialled) /\ ~IsOpen(calls'[c], c, dialled')
    BY <1>3, <2>2, <2>3 DEF IsOpen, IsLive
  <2> QED
    BY <1>1, <1>3, <2>4 DEF Tells
<1> QED
  BY <1>2, <1>3

\* Dialling tells of the new call only, and of its end only if it does not ring.
LEMMA StartCallTells ==
    ASSUME CallInvariant, NEW u \in Users, NEW v \in Users, NEW f \in Facts,
           StartCall(u, v, f), NEW c \in CallIds
    PROVE  Tells(c)
<1> DEFINE reason == StartReason(v, f)
           d == dialled + 1
<1>1. sent' = sent /\ dialled' = d /\ d \in CallIds /\ dialled \in Nat
  BY DEF StartCall, CallInvariant, TypeOK, CallIds
<1>2. CASE reason = "none"
  <2>1. Defer(d, <<Emit(v, "call_invite")>>, FALSE)
    BY <1>2 DEF StartCall
  <2>2. \A i \in DOMAIN <<Emit(v, "call_invite")>> :
           <<Emit(v, "call_invite")>>[i].type \notin Terminal
    BY DEF Emit, Terminal
  <2> QED
    BY <1>1, <2>1, <2>2, DeferTells
<1>3. CASE reason # "none"
  <2>1. reason \in Terminal
    BY <1>3, Zenon DEF StartReason, Terminal
  <2>2. Defer(d, <<Emit(u, reason)>>, TRUE)
    BY <1>3 DEF StartCall
  <2>3. Outcomes(tails', sent', c) \subseteq
          Outcomes(tails, sent, c) \cup (IF c = d THEN {reason} ELSE {})
    <3>1. ASSUME NEW a, Holds([call |-> d, emits |-> <<Emit(u, reason)>>, evict |-> TRUE], c, a)
          PROVE  c = d /\ a = reason
      BY <3>1 DEF Holds, Emit
    <3> HIDE DEF d, reason
    <3> QED
      BY <1>1, <2>2, <3>1 DEF Defer, Outcomes
  <2>4. ~IsLive(calls'[d])
    <3>1. calls'[d].state = "ended"
      BY <1>1, <1>3 DEF StartCall, CallInvariant, TypeOK
    <3> QED
      BY <3>1 DEF IsLive
  <2> HIDE DEF reason
  <2>5. CASE c = d
    BY <1>1, <2>1, <2>3, <2>4, <2>5 DEF Tells, IsOpen
  <2>6. CASE c # d
    BY <2>3, <2>6 DEF Tells
  <2> QED
    BY <2>5, <2>6
<1> QED
  BY <1>2, <1>3

\* Tails that tell of ends only leave every other call alone.
LEMMA EndTails ==
    ASSUME NEW more, tails' = tails \cup more, sent' = sent, dialled' = dialled,
           NEW c \in CallIds, ~(c > dialled),
           \A t \in more : \A i \in DOMAIN t.emits : t.emits[i].type = "call_end",
           (\E t \in more : t.call = c) => calls[c].state = "active" /\ ~IsLive(calls'[c])
    PROVE  Tells(c)
<1>1. CASE \E t \in more : t.call = c
  <2>1. "call_end" \in Terminal
    BY DEF Terminal
  <2>2. Outcomes(tails', sent', c) \subseteq Outcomes(tails, sent, c) \cup {"call_end"}
    BY DEF Outcomes, Holds
  <2>3. IsOpen(calls[c], c, dialled) /\ ~IsOpen(calls'[c], c, dialled')
    BY <1>1 DEF IsOpen, IsLive
  <2> QED
    BY <2>1, <2>2, <2>3 DEF Tells
<1>2. CASE ~\E t \in more : t.call = c
  BY <1>2 DEF Tells, Outcomes, Holds
<1> QED
  BY <1>1, <1>2

\* Nothing is in flight of a call that has not been dialled.
LEMMA ObserveTells ==
    ASSUME CallInvariant, NEW d \in CallIds, calls[d].state # "absent",
           NEW observed \in ParticipantSets, NEW left, Observe(d, observed, left),
           sent' = sent, dialled' = dialled, NEW c \in CallIds
    PROVE  Tells(c)
<1> DEFINE T == Transition(calls[d], d, observed, left, ValidTargets)
<1>1. calls[d] \in Calls
  BY DEF CallInvariant, TypeOK
<1>2. calls' = [calls EXCEPT ![d] = T.next] /\ tails' = tails \cup T.tails
  BY DEF Observe
<1>3. ASSUME NEW t \in T.tails
      PROVE  /\ t.call = d /\ \A i \in DOMAIN t.emits : t.emits[i].type = "call_end"
             /\ calls[d].state = "active" /\ ~IsLive(T.next)
  BY <1>1, TransitionTells
<1> HIDE DEF T
<1>4. calls'[d] = T.next
  BY <1>2 DEF CallInvariant, TypeOK
<1>5. CASE c > dialled
  <2>1. c # d
    BY <1>5 DEF CallInvariant, UndialledAbsent, NoCall
  <2> QED
    BY <1>2, <1>3, <2>1 DEF Tells, Outcomes, Holds
<1>6. CASE ~(c > dialled)
  BY <1>2, <1>3, <1>4, <1>6, EndTails
<1> QED
  BY <1>5, <1>6

\* A webhook tells at most of the end of its call.
LEMMA DeliverWebhookTells ==
    ASSUME CallInvariant, NEW h \in hooks, DeliverWebhook(h), NEW c \in CallIds
    PROVE  Tells(c)
<1>1. h \in Hooks /\ h.call \in CallIds /\ h.gen \in Nat
  BY DEF CallInvariant, TypeOK, Hooks
<1>2. sent' = sent /\ dialled' = dialled
  BY DEF DeliverWebhook
<1> DEFINE before == calls[h.call].participants
           joined == [before EXCEPT ![h.user] = h.gen]
           without == [before EXCEPT ![h.user] = 0]
<1>3. joined \in ParticipantSets /\ without \in ParticipantSets
  BY <1>1, CallFields DEF CallInvariant, TypeOK, ParticipantSets
<1>4. \/ UNCHANGED tails
      \/ /\ calls[h.call].state # "absent"
         /\ \/ Observe(h.call, joined, Nobody)
            \/ Observe(h.call, without, h.user)
  <2>1. CASE h.event = "joined"
    <3>1. Joined(h)
      BY <2>1 DEF DeliverWebhook
    <3> QED
      BY <3>1 DEF Joined
  <2>2. CASE h.event = "left"
    <3>1. Left(h)
      BY <2>2 DEF DeliverWebhook
    <3> QED
      BY <3>1 DEF Left, Ignore
  <2>3. CASE h.event = "finished"
    <3>1. Finished(h)
      BY <2>3 DEF DeliverWebhook
    <3> QED
      BY <3>1 DEF Finished, Ignore
  <2> QED
    BY <1>1, <2>1, <2>2, <2>3 DEF Hooks
<1> HIDE DEF before, joined, without
<1>5. CASE UNCHANGED tails
  BY <1>2, <1>5 DEF Tells
<1> QED
  BY <1>1, <1>2, <1>3, <1>4, <1>5, ObserveTells

\* Refresh tells of the calls it ends, from a snapshot of what they are now.
LEMMA RefreshApplyTells ==
    ASSUME CallInvariant, RefreshApply, NEW c \in CallIds
    PROVE  Tells(c)
<1> DEFINE result(d) == Transition(refresh.calls[d], d, refresh.observed[d], Nobody,
                                   refresh.targets)
           outcome == [d \in CallIds |-> result(d)]
           known == {d \in CallIds : refresh.calls[d].state # "absent"}
           more == UNION {outcome[d].tails : d \in known}
<1>1. sent' = sent /\ dialled' = dialled
  BY DEF RefreshApply
<1>2. CASE refresh.revised
  BY <1>1, <1>2 DEF RefreshApply, Tells
<1>3. CASE ~refresh.revised
  <2>1. /\ calls' = [d \in CallIds |-> IF d \in known THEN outcome[d].next ELSE NoCall]
        /\ tails' = tails \cup more
    BY <1>3 DEF RefreshApply
  <2>2. ASSUME NEW t \in more
        PROVE  /\ t.call \in CallIds
               /\ \A i \in DOMAIN t.emits : t.emits[i].type = "call_end"
               /\ calls[t.call].state = "active" /\ ~IsLive(calls'[t.call])
    <3>1. PICK d \in known : t \in result(d).tails
      OBVIOUS
    <3>2. refresh.calls[d] \in Calls /\ refresh.observed[d] \in ParticipantSets
      BY DEF CallInvariant, TypeOK, Refreshes
    <3>3. refresh.calls[d] = calls[d]
      BY <1>3 DEF CallInvariant, SnapshotCurrent, NoCall, RefreshApply
    <3>4. calls'[d] = result(d).next
      BY <2>1
    <3>5. /\ t.call = d /\ \A i \in DOMAIN t.emits : t.emits[i].type = "call_end"
          /\ refresh.calls[d].state = "active" /\ ~IsLive(result(d).next)
      BY <3>1, <3>2, TransitionTells
    <3> HIDE DEF result
    <3> QED
      BY <3>3, <3>4, <3>5
  <2> HIDE DEF more
  <2>3. CASE c > dialled
    <3>1. calls[c] = NoCall
      BY <2>3 DEF CallInvariant, UndialledAbsent
    <3> QED
      BY <1>1, <2>1, <2>2, <3>1 DEF Tells, Outcomes, Holds, NoCall
  <2>4. CASE ~(c > dialled)
    BY <1>1, <2>1, <2>2, <2>4, EndTails
  <2> QED
    BY <2>3, <2>4
<1> QED
  BY <1>2, <1>3

\* What any step tells of a call.
LEMMA StepTells ==
    ASSUME CallInvariant, [Next]_vars, NEW c \in CallIds
    PROVE  Tells(c)
<1>1. CASE UNCHANGED <<tails, sent>>
  BY <1>1 DEF Tells
<1>2. CASE Requests
  <2>1. ASSUME NEW d \in CallIds, NEW u \in Users, AcceptCall(d, u)
        PROVE  Tells(c)
    <3>1. \A i \in DOMAIN <<Emit(calls[d].caller, "call_accept")>> :
             <<Emit(calls[d].caller, "call_accept")>>[i].type \notin Terminal
      BY DEF Emit, Terminal
    <3> QED
      BY <2>1, <3>1, DeferTells DEF AcceptCall
  <2>2. ASSUME NEW d \in CallIds, NEW u \in Users, RejectCall(d, u) \/ CancelCall(d, u)
        PROVE  Tells(c)
    <3>1. PICK reason \in {"call_reject", "call_cancel"} : EndRinging(d, u, u, reason)
      BY <2>2 DEF RejectCall, CancelCall, EndRinging
    <3> DEFINE emits == <<Emit(OtherParty(calls[d], u), reason)>>
    <3>2. \A i \in DOMAIN emits : emits[i].type = reason
      BY DEF Emit
    <3>3. reason \in Terminal /\ IsLive(calls[d])
      BY <3>1 DEF Terminal, EndRinging, IsLive
    <3>4. Finish(d, reason, emits) /\ sent' = sent /\ dialled' = dialled
      BY <3>1 DEF EndRinging
    <3> HIDE DEF emits
    <3> QED
      BY <3>2, <3>3, <3>4, FinishTells
  <2>3. ASSUME NEW d \in CallIds, NEW u \in Users, HangUpCall(d, u)
        PROVE  Tells(c)
    <3> DEFINE emits == <<Emit(OtherParty(calls[d], u), "call_end")>>
    <3>1. \A i \in DOMAIN emits : emits[i].type = "call_end"
      BY DEF Emit
    <3>2. "call_end" \in Terminal /\ IsLive(calls[d])
      BY <2>3 DEF Terminal, HangUpCall, IsLive
    <3>3. Finish(d, "call_end", emits) /\ sent' = sent /\ dialled' = dialled
      BY <2>3 DEF HangUpCall
    <3> HIDE DEF emits
    <3> QED
      BY <3>1, <3>2, <3>3, FinishTells
  <2>4. ASSUME NEW d \in CallIds, NEW u \in Users, JoinCallCredentials(d, u)
        PROVE  Tells(c)
    BY <1>1, <2>4 DEF JoinCallCredentials
  <2> QED
    BY <1>2, <2>1, <2>2, <2>3, <2>4, StartCallTells DEF Requests, CallRequests
<1>3. CASE Server
  <2>1. ASSUME NEW d \in CallIds, TimeoutCall(d)
        PROVE  Tells(c)
    <3>1. CASE TimedOut(d)
      <4> DEFINE emits == <<Emit(calls[d].caller, "call_timeout"),
                            Emit(calls[d].callee, "call_timeout")>>
      <4>1. \A i \in DOMAIN emits : emits[i].type = "call_timeout"
        BY DEF Emit
      <4>2. "call_timeout" \in Terminal /\ IsLive(calls[d])
        BY <3>1 DEF Terminal, TimedOut, IsLive
      <4>3. Finish(d, "call_timeout", emits) /\ sent' = sent /\ dialled' = dialled
        BY <2>1, <3>1 DEF TimeoutCall
      <4> HIDE DEF emits
      <4> QED
        BY <4>1, <4>2, <4>3, FinishTells
    <3>2. CASE ~TimedOut(d)
      BY <1>1, <2>1, <3>2 DEF TimeoutCall
    <3> QED
      BY <3>1, <3>2
  <2>2. ASSUME NEW t \in tails, RunTail(t)
        PROVE  Tells(c)
    BY <2>2, RunTailTells DEF CallInvariant
  <2>3. CASE RefreshBegin \/ RefreshFail \/ \E d \in CallIds : RefreshRead(d)
    BY <1>1, <2>3 DEF RefreshBegin, RefreshFail, RefreshRead
  <2>4. CASE \E m \in mints : IssueToken(m) \/ TokenFails(m)
    BY <1>1, <2>4 DEF IssueToken, TokenFails
  <2>5. CASE \E k \in kicks : Kick(k)
    BY <1>1, <2>5 DEF Kick
  <2> QED
    BY <1>3, <2>1, <2>2, <2>3, <2>4, <2>5, DeliverWebhookTells, RefreshApplyTells DEF Server
<1>4. CASE Environment
  <2>1. CASE Restart
    BY <2>1 DEF Restart, Tells, Outcomes
  <2>2. CASE ~Restart
    BY <1>1, <1>4, <2>2 DEF Environment, Connect, Disconnect, CloseRoom, LoseWebhook, Expire
  <2> QED
    BY <2>1, <2>2
<1>5. CASE UNCHANGED vars
  BY <1>1, <1>5 DEF vars
<1> QED
  BY <1>2, <1>3, <1>4, <1>5 DEF Next

\* A call that is not open any more is never open again.
LEMMA StaysClosed ==
    ASSUME CallInvariant, [Next]_vars, NEW c \in CallIds,
           IsOpen(calls'[c], c, dialled')
    PROVE  IsOpen(calls[c], c, dialled)
<1>1. CASE \E u, v \in Users, f \in Facts : StartCall(u, v, f)
  <2>1. dialled' = dialled + 1 /\ dialled \in Nat
    BY <1>1 DEF StartCall, CallInvariant, TypeOK
  <2>2. c # dialled + 1 => calls'[c] = calls[c]
    BY <1>1 DEF StartCall, CallInvariant, TypeOK
  <2>3. CASE c = dialled + 1
    BY <2>1, <2>3 DEF IsOpen
  <2>4. CASE c # dialled + 1
    BY <2>1, <2>2, <2>4 DEF IsOpen, CallIds
  <2> QED
    BY <2>3, <2>4
<1>2. CASE dialled' = dialled /\ \A d \in CallIds : Follows(calls[d], calls'[d])
  BY <1>2 DEF Follows, IsOpen, IsLive, NoCall
<1> QED
  BY <1>1, <1>2, StepFollows DEF CallInvariant

\* No step tells of a second outcome.
LEMMA ToldOnceStep ==
    ASSUME CallInvariant, ToldOnce, [Next]_vars
    PROVE  ToldOnce'
<1>1. SUFFICES ASSUME NEW c \in CallIds
               PROVE  /\ \A a, b \in Outcomes(tails', sent', c) : a = b
                      /\ IsOpen(calls'[c], c, dialled') => Outcomes(tails', sent', c) = {}
  BY DEF ToldOnce
<1>2. Tells(c)
  BY StepTells
<1>3. IsOpen(calls'[c], c, dialled') => IsOpen(calls[c], c, dialled)
  BY StaysClosed
<1> QED
  BY <1>2, <1>3 DEF Tells, ToldOnce

\* Nothing has been told of a server just started.
LEMMA ToldOnceInit == Init => ToldOnce
BY DEF Init, ToldOnce, Outcomes

\* However the ends of a call race (a hang-up and a hang-up, the ring timer and
\* an answer, a webhook and a Refresh), its users are told of one outcome.
THEOREM OneOutcomeTold == Spec => []OneOutcome
<1>1. Init => ToldOnce
  BY ToldOnceInit
<1>2. CallInvariant /\ ToldOnce /\ [Next]_vars => ToldOnce'
  BY ToldOnceStep
<1>3. CallInvariant /\ ToldOnce => OneOutcome
  <2>1. SUFFICES ASSUME TypeOK, ToldOnce, NEW s \in sent, NEW t \in sent, s.call = t.call,
                        s.type \in Terminal, t.type \in Terminal
                 PROVE  s.type = t.type
    BY DEF OneOutcome, CallInvariant
  <2>2. s.call \in CallIds
    BY <2>1 DEF TypeOK, Signals
  <2>3. s.type \in Outcomes(tails, sent, s.call) /\ t.type \in Outcomes(tails, sent, s.call)
    BY <2>1 DEF Outcomes
  <2> QED
    BY <2>1, <2>2, <2>3 DEF ToldOnce
<1> QED
  BY <1>1, <1>2, <1>3, CallInvariantInit, CallInvariantStep, PTL DEF Spec

-----------------------------------------------------------------------------
(* An empty ended call goes: whoever empties an ended call removes it, and  *)
(* whoever ends an empty one removes it or has yet to try.                  *)

Evicts(call, c, ts) == Evictable(call) => \E t \in ts : t.call = c /\ t.evict

\* An observation leaves no empty ended call behind, except one it has found.
LEMMA TransitionEmpties ==
    ASSUME NEW call \in Calls, call.state # "absent", NEW c \in CallIds,
           NEW observed \in ParticipantSets, NEW left, NEW targets,
           Evictable(Transition(call, c, observed, left, targets).next)
    PROVE  Evictable(call)
<1> DEFINE T == Transition(call, c, observed, left, targets)
           refused == {u \in Members(observed) : ~Allowed(targets[u], c, observed[u])}
           next == [u \in Users |-> IF u \in refused THEN call.participants[u] ELSE observed[u]]
           removed == Removed(call, observed)
           leavers == (removed \cup ({left} \ Members(observed))) \cap (Parties(call) \ {Nobody})
           ends == call.state = "active" /\ leavers # {}
           gone == Vanishes(IF ends THEN "ended" ELSE call.state, Members(next), removed, ends)
<1>1. T.next = IF gone THEN NoCall
               ELSE [call EXCEPT !.state = IF ends THEN "ended" ELSE call.state,
                                 !.reason = IF ends THEN "call_end" ELSE @,
                                 !.participants = next]
  BY Zenon DEF Transition
<1>2. call \in Entries
  BY EntryParties
<1>3. ~gone
  BY <1>1 DEF Evictable, NoCall
<1>4. /\ (IF ends THEN "ended" ELSE call.state) = "ended"
      /\ Members(next) = {}
  <2> HIDE DEF ends, next, gone, T
  <2> QED
    BY <1>1, <1>2, <1>3 DEF Evictable, Entries, T
<1>5. removed = {} /\ ~ends
  BY <1>3, <1>4 DEF Vanishes
<1>6. Members(call.participants) = {}
  BY <1>4, <1>5 DEF Members, Removed
<1> QED
  BY <1>4, <1>5, <1>6 DEF Evictable

\* A tail that runs keeps the promise of an eviction until it has tried it.
LEMMA RunTailEvicts ==
    ASSUME TypeOK, NEW t \in tails, RunTail(t), NEW c \in CallIds, Evicts(calls[c], c, tails)
    PROVE  Evicts(calls'[c], c, tails')
<1>1. t \in Tails
  BY DEF TypeOK
<1>2. CASE t.emits # <<>>
  <2> DEFINE rest == [t EXCEPT !.emits = Tail(t.emits)]
  <2>1. rest.call = t.call /\ rest.evict = t.evict
    BY <1>1 DEF Tails
  <2>2. /\ calls' = calls
        /\ tails' = (tails \ {t}) \cup (IF rest.emits = <<>> /\ ~t.evict THEN {} ELSE {rest})
    BY <1>2 DEF RunTail, state
  <2> HIDE DEF rest
  <2> QED
    BY <2>1, <2>2 DEF Evicts
<1>3. CASE t.emits = <<>>
  <2>1. tails' = tails \ {t} /\ t.call \in CallIds
    BY <1>1, <1>3 DEF RunTail, Tails
  <2>2. \A d \in CallIds \ {t.call} : calls'[d] = calls[d]
    BY <1>3, <2>1 DEF RunTail, TypeOK
  <2>3. ~Evictable(calls'[t.call])
    BY <1>3, <2>1 DEF RunTail, TypeOK, Evictable, NoCall
  <2>4. CASE c = t.call
    BY <2>3, <2>4 DEF Evicts
  <2>5. CASE c # t.call
    BY <2>1, <2>2, <2>5 DEF Evicts
  <2> QED
    BY <2>4, <2>5
<1> QED
  BY <1>2, <1>3

\* Every step keeps it.
LEMMA StepEvicts ==
    ASSUME CallInvariant, EndedEmptyIsBeingEvicted, [Next]_vars
    PROVE  EndedEmptyIsBeingEvicted'
<1> SUFFICES ASSUME NEW c \in CallIds
             PROVE  Evicts(calls'[c], c, tails')
  BY DEF EndedEmptyIsBeingEvicted, Evicts
<1>0. TypeOK /\ Evicts(calls[c], c, tails)
  BY DEF CallInvariant, EndedEmptyIsBeingEvicted, Evicts
<1>1. ASSUME calls'[c] = calls[c], tails \subseteq tails'
      PROVE  Evicts(calls'[c], c, tails')
  BY <1>0, <1>1 DEF Evicts
<1>2. CASE calls'[c] = NoCall
  BY <1>2 DEF Evicts, Evictable, NoCall
<1>3. ASSUME NEW d \in CallIds, NEW reason, NEW emits, Finish(d, reason, emits)
      PROVE  Evicts(calls'[c], c, tails')
  <2>1. CASE c = d
    <3> DEFINE t == [call |-> d, emits |-> emits, evict |-> TRUE]
    <3>1. t \in tails'
      BY <1>3 DEF Finish, Defer
    <3>2. t.call = c /\ t.evict
      BY <2>1
    <3> QED
      BY <3>1, <3>2 DEF Evicts
  <2>2. CASE c # d
    BY <1>0, <1>1, <1>3, <2>2 DEF Finish, Defer, TypeOK
  <2> QED
    BY <2>1, <2>2
<1>4. ASSUME NEW d \in CallIds, calls[d].state # "absent",
             NEW observed \in ParticipantSets, NEW left, Observe(d, observed, left)
      PROVE  Evicts(calls'[c], c, tails')
  <2> DEFINE T == Transition(calls[d], d, observed, left, ValidTargets)
  <2>1. calls' = [calls EXCEPT ![d] = T.next] /\ tails \subseteq tails'
    BY <1>4 DEF Observe
  <2>2. Evictable(T.next) => Evictable(calls[d])
    BY <1>0, <1>4, TransitionEmpties DEF TypeOK
  <2> HIDE DEF T
  <2>3. CASE c = d
    BY <1>0, <2>1, <2>2, <2>3 DEF Evicts, TypeOK
  <2>4. CASE c # d
    BY <1>0, <1>1, <2>1, <2>4 DEF TypeOK
  <2> QED
    BY <2>3, <2>4
<1>5. CASE Requests
  <2>1. ASSUME NEW u \in Users, NEW v \in Users, NEW f \in Facts, StartCall(u, v, f)
        PROVE  Evicts(calls'[c], c, tails')
    <3>1. CASE c = dialled + 1
      <4>1. StartReason(v, f) = "none" => calls'[c].state = "ringing"
        BY <1>0, <2>1, <3>1 DEF StartCall, TypeOK
      <4>2. StartReason(v, f) # "none" => \E t \in tails' : t.call = c /\ t.evict
        <5> DEFINE t == [call |-> c, emits |-> <<Emit(u, StartReason(v, f))>>, evict |-> TRUE]
        <5> SUFFICES ASSUME StartReason(v, f) # "none"
                     PROVE  t \in tails' /\ t.call = c /\ t.evict
          OBVIOUS
        <5>1. Defer(c, <<Emit(u, StartReason(v, f))>>, TRUE)
          BY <2>1, <3>1 DEF StartCall
        <5> QED
          BY <5>1 DEF Defer
      <4> QED
        BY <4>1, <4>2 DEF Evicts, Evictable
    <3>2. CASE c # dialled + 1
      BY <1>0, <1>1, <2>1, <3>2 DEF StartCall, Defer, TypeOK
    <3> QED
      BY <3>1, <3>2
  <2>2. ASSUME NEW d \in CallIds, NEW u \in Users, AcceptCall(d, u)
        PROVE  Evicts(calls'[c], c, tails')
    <3>1. CASE c = d
      <4>1. calls[d] \in Entries
        BY <1>0, <2>2, EntryParties DEF AcceptCall, TypeOK
      <4>2. calls'[c].state = "active"
        BY <1>0, <2>2, <3>1, <4>1 DEF AcceptCall, TypeOK, Entries
      <4> QED
        BY <4>2 DEF Evicts, Evictable
    <3>2. CASE c # d
      BY <1>0, <1>1, <2>2, <3>2 DEF AcceptCall, Defer, TypeOK
    <3> QED
      BY <3>1, <3>2
  <2>3. ASSUME NEW d \in CallIds, NEW u \in Users,
               RejectCall(d, u) \/ CancelCall(d, u) \/ HangUpCall(d, u)
        PROVE  Evicts(calls'[c], c, tails')
    BY <1>3, <2>3 DEF RejectCall, CancelCall, EndRinging, HangUpCall
  <2>4. ASSUME NEW d \in CallIds, NEW u \in Users, JoinCallCredentials(d, u)
        PROVE  Evicts(calls'[c], c, tails')
    BY <1>1, <2>4 DEF JoinCallCredentials
  <2> QED
    BY <1>5, <2>1, <2>2, <2>3, <2>4 DEF Requests, CallRequests
<1>6. CASE Server
  <2>1. ASSUME NEW d \in CallIds, TimeoutCall(d)
        PROVE  Evicts(calls'[c], c, tails')
    BY <1>1, <1>3, <2>1 DEF TimeoutCall
  <2>2. ASSUME NEW t \in tails, RunTail(t)
        PROVE  Evicts(calls'[c], c, tails')
    BY <1>0, <2>2, RunTailEvicts
  <2>3. CASE RefreshBegin \/ RefreshFail \/ \E d \in CallIds : RefreshRead(d)
    BY <1>1, <2>3 DEF RefreshBegin, RefreshFail, RefreshRead, state
  <2>4. CASE \E m \in mints : IssueToken(m) \/ TokenFails(m)
    BY <1>1, <2>4 DEF IssueToken, TokenFails
  <2>5. CASE \E k \in kicks : Kick(k)
    BY <1>1, <2>5 DEF Kick, state
  <2>6. ASSUME NEW h \in hooks, DeliverWebhook(h)
        PROVE  Evicts(calls'[c], c, tails')
    <3>1. h \in Hooks /\ h.call \in CallIds /\ h.gen \in Nat
      BY <1>0 DEF TypeOK, Hooks
    <3> DEFINE before == calls[h.call].participants
               joined == [before EXCEPT ![h.user] = h.gen]
               without == [before EXCEPT ![h.user] = 0]
    <3>2. joined \in ParticipantSets /\ without \in ParticipantSets
      BY <1>0, <3>1, CallFields DEF TypeOK, ParticipantSets
    <3>3. \/ UNCHANGED <<calls, tails>>
          \/ calls' = [calls EXCEPT ![h.call] = NoCall] /\ UNCHANGED tails
          \/ /\ calls[h.call].state # "absent"
             /\ \/ Observe(h.call, joined, Nobody)
                \/ Observe(h.call, without, h.user)
      <4>1. CASE h.event = "joined"
        <5>1. Joined(h)
          BY <2>6, <4>1 DEF DeliverWebhook
        <5> QED
          BY <5>1 DEF Joined
      <4>2. CASE h.event = "left"
        <5>1. Left(h)
          BY <2>6, <4>2 DEF DeliverWebhook
        <5> QED
          BY <5>1 DEF Left, Ignore
      <4>3. CASE h.event = "finished"
        <5>1. Finished(h)
          BY <2>6, <4>3 DEF DeliverWebhook
        <5> QED
          BY <5>1 DEF Finished, Ignore
      <4> QED
        BY <3>1, <4>1, <4>2, <4>3 DEF Hooks
    <3> HIDE DEF before, joined, without
    <3>4. CASE calls' = [calls EXCEPT ![h.call] = NoCall] /\ UNCHANGED tails
      <4>1. calls'[c] = NoCall \/ calls'[c] = calls[c]
        BY <1>0, <3>4 DEF TypeOK
      <4> QED
        BY <1>1, <1>2, <3>4, <4>1
    <3> QED
      BY <1>1, <1>4, <3>1, <3>2, <3>3, <3>4
  <2>7. CASE RefreshApply
    <3>1. CASE refresh.revised
      BY <1>1, <2>7, <3>1 DEF RefreshApply
    <3>2. CASE ~refresh.revised
      <4> DEFINE T == Transition(refresh.calls[c], c, refresh.observed[c], Nobody,
                                 refresh.targets)
      <4>1. tails \subseteq tails'
        BY <2>7, <3>2 DEF RefreshApply
      <4>2. calls'[c] = IF refresh.calls[c].state # "absent" THEN T.next ELSE NoCall
        BY <2>7, <3>2 DEF RefreshApply
      <4>3. CASE refresh.calls[c].state # "absent"
        <5>1. refresh.calls[c] = calls[c] /\ calls[c] \in Calls
          BY <1>0, <2>7, <3>2, <4>3 DEF CallInvariant, SnapshotCurrent, NoCall, RefreshApply, TypeOK
        <5>2. refresh.observed[c] \in ParticipantSets
          BY <1>0 DEF TypeOK, Refreshes
        <5>3. Evictable(T.next) => Evictable(calls[c])
          BY <4>3, <5>1, <5>2, TransitionEmpties
        <5> HIDE DEF T
        <5> QED
          BY <1>0, <4>1, <4>2, <4>3, <5>3 DEF Evicts
      <4> QED
        BY <1>2, <4>2, <4>3
    <3> QED
      BY <3>1, <3>2
  <2> QED
    BY <1>6, <2>1, <2>2, <2>3, <2>4, <2>5, <2>6, <2>7 DEF Server
<1>7. CASE Environment
  <2>1. CASE Restart
    BY <1>2, <2>1 DEF Restart
  <2>2. CASE ~Restart
    BY <1>1, <1>7, <2>2 DEF Environment, Connect, Disconnect, CloseRoom, LoseWebhook, Expire, state
  <2> QED
    BY <2>1, <2>2
<1>8. CASE UNCHANGED vars
  BY <1>1, <1>8 DEF vars
<1> QED
  BY <1>5, <1>6, <1>7, <1>8 DEF Next

\* No order of webhooks, refreshes and requests leaves an ended call with nobody
\* in it behind: a handler is about to evict it.
THEOREM EmptyCallsGo == Spec => []EndedEmptyIsBeingEvicted
<1>1. Init => EndedEmptyIsBeingEvicted
  BY DEF Init, EndedEmptyIsBeingEvicted, Evictable, NoCall
<1>2. CallInvariant /\ EndedEmptyIsBeingEvicted /\ [Next]_vars => EndedEmptyIsBeingEvicted'
  BY StepEvicts
<1> QED
  BY <1>1, <1>2, CallInvariantInit, CallInvariantStep, PTL DEF Spec

-----------------------------------------------------------------------------
(* Nobody before the answer.  Of a call that has not been accepted, ringing, *)
(* ended before it was or not even dialled, there is no room: no record, no  *)
(* connection, no webhook, no token nor a request for one, no target that    *)
(* names it, and nothing of it in a running Refresh.                         *)

Unanswered(call, c, n) ==
    \/ call.state = "ringing"
    \/ call.state = "ended" /\ call.reason # "call_end"
    \/ c > n

NoEntry(c) == calls[c].participants = Empty
NoLink(c) == conn[c] = Empty /\ c \notin open /\ \A h \in hooks : h.call # c
NoToken(c) ==
    /\ \A t \in tokens : t.call # c
    /\ \A m \in mints : m.call # c /\ m.previous.call # c
    /\ \A u \in Users : callTargets[u].call # c
NoView(c) == refresh.observed[c] = Empty /\ \A u \in Users : refresh.targets[u].call # c

NoRoom(c) == NoEntry(c) /\ NoLink(c) /\ NoToken(c) /\ NoView(c)

NoRoomYet == \A c \in CallIds : Unanswered(calls[c], c, dialled) => NoRoom(c)

\* A call that ended without having been answered rang before, or had ended so.
KeepsReason(old, new) ==
    new.state = "ended" /\ new.reason # "call_end" =>
        \/ old.state = "ringing"
        \/ old.state = "ended" /\ old.reason = new.reason

\* An observation ends a call for one reason.
LEMMA TransitionReason ==
    ASSUME NEW call \in Calls, call.state # "absent", NEW c \in CallIds,
           NEW observed \in ParticipantSets, NEW left, NEW targets
    PROVE  KeepsReason(call, Transition(call, c, observed, left, targets).next)
<1> DEFINE T == Transition(call, c, observed, left, targets)
           refused == {u \in Members(observed) : ~Allowed(targets[u], c, observed[u])}
           next == [u \in Users |-> IF u \in refused THEN call.participants[u] ELSE observed[u]]
           removed == Removed(call, observed)
           leavers == (removed \cup ({left} \ Members(observed))) \cap (Parties(call) \ {Nobody})
           ends == call.state = "active" /\ leavers # {}
           gone == Vanishes(IF ends THEN "ended" ELSE call.state, Members(next), removed, ends)
<1>1. T.next = IF gone THEN NoCall
               ELSE [call EXCEPT !.state = IF ends THEN "ended" ELSE call.state,
                                 !.reason = IF ends THEN "call_end" ELSE @,
                                 !.participants = next]
  BY Zenon DEF Transition
<1>2. call \in Entries
  BY EntryParties
<1>3. NoCall.state = "absent"
  BY DEF NoCall
<1> HIDE DEF next, gone, ends, T
<1>4. KeepsReason(call, T.next)
  BY <1>1, <1>2, <1>3 DEF KeepsReason, Entries
<1> QED
  BY <1>4 DEF T

\* No step ends an answered call for another reason than its end.
LEMMA StepReason ==
    ASSUME CallInvariant, [Next]_vars, NEW c \in CallIds
    PROVE  KeepsReason(calls[c], calls'[c]) \/ c > dialled
<1>a. calls[c] \in Calls /\ TypeOK
  BY DEF CallInvariant, TypeOK
<1>1. ASSUME calls'[c] = calls[c] \/ calls'[c] = NoCall
      PROVE  KeepsReason(calls[c], calls'[c])
  BY <1>1 DEF KeepsReason, NoCall
<1>2. ASSUME NEW d \in CallIds, NEW reason, NEW emits, Finish(d, reason, emits),
             calls[d].state = "ringing" \/ reason = "call_end", calls[d].state # "absent"
      PROVE  KeepsReason(calls[c], calls'[c])
  <2>1. CASE c = d
    <3>1. calls[c] \in Entries
      BY <1>a, <1>2, <2>1, EntryParties
    <3>2. calls'[c].reason = reason
      BY <1>a, <1>2, <2>1, <3>1 DEF Finish, TypeOK, Entries
    <3> QED
      BY <1>2, <2>1, <3>2 DEF KeepsReason
  <2>2. CASE c # d
    BY <1>a, <1>1, <1>2, <2>2 DEF Finish, TypeOK
  <2> QED
    BY <2>1, <2>2
<1>3. ASSUME NEW d \in CallIds, calls[d].state # "absent",
             NEW observed \in ParticipantSets, NEW left, Observe(d, observed, left)
      PROVE  KeepsReason(calls[c], calls'[c])
  <2> DEFINE T == Transition(calls[d], d, observed, left, ValidTargets)
  <2>1. calls' = [calls EXCEPT ![d] = T.next]
    BY <1>3 DEF Observe
  <2>2. KeepsReason(calls[d], T.next)
    BY <1>a, <1>3, TransitionReason DEF TypeOK
  <2> HIDE DEF T
  <2> QED
    BY <1>a, <1>1, <2>1, <2>2 DEF TypeOK
<1>4. CASE Requests
  <2>1. ASSUME NEW u \in Users, NEW v \in Users, NEW f \in Facts, StartCall(u, v, f)
        PROVE  calls'[c] = calls[c] \/ c > dialled
    BY <2>1, <1>a DEF StartCall, TypeOK
  <2>2. ASSUME NEW d \in CallIds, NEW u \in Users, AcceptCall(d, u)
        PROVE  KeepsReason(calls[c], calls'[c])
    BY <2>2, <1>a DEF AcceptCall, TypeOK, Calls, Entries, NoCall, KeepsReason
  <2>3. ASSUME NEW d \in CallIds, NEW u \in Users,
               RejectCall(d, u) \/ CancelCall(d, u) \/ HangUpCall(d, u)
        PROVE  KeepsReason(calls[c], calls'[c])
    BY <1>2, <2>3 DEF RejectCall, CancelCall, EndRinging, HangUpCall
  <2>4. ASSUME NEW d \in CallIds, NEW u \in Users, JoinCallCredentials(d, u)
        PROVE  calls'[c] = calls[c]
    BY <2>4 DEF JoinCallCredentials
  <2> QED
    BY <1>1, <1>4, <2>1, <2>2, <2>3, <2>4 DEF Requests, CallRequests
<1>5. CASE Server
  <2>1. ASSUME NEW d \in CallIds, TimeoutCall(d)
        PROVE  KeepsReason(calls[c], calls'[c])
    BY <1>1, <1>2, <2>1 DEF TimeoutCall, TimedOut
  <2>2. ASSUME NEW t \in tails, RunTail(t)
        PROVE  calls'[c] = calls[c] \/ calls'[c] = NoCall
    BY <2>2, <1>a DEF RunTail, state, TypeOK
  <2>3. CASE RefreshBegin \/ RefreshFail \/ \E d \in CallIds : RefreshRead(d)
    BY <1>1, <2>3 DEF RefreshBegin, RefreshFail, RefreshRead, state
  <2>4. CASE \E m \in mints : IssueToken(m) \/ TokenFails(m)
    BY <1>1, <2>4 DEF IssueToken, TokenFails
  <2>5. CASE \E k \in kicks : Kick(k)
    BY <1>1, <2>5 DEF Kick, state
  <2>6. ASSUME NEW h \in hooks, DeliverWebhook(h)
        PROVE  KeepsReason(calls[c], calls'[c])
    <3>1. h \in Hooks /\ h.call \in CallIds /\ h.gen \in Nat
      BY <1>a DEF TypeOK, Hooks
    <3> DEFINE before == calls[h.call].participants
               joined == [before EXCEPT ![h.user] = h.gen]
               without == [before EXCEPT ![h.user] = 0]
    <3>2. joined \in ParticipantSets /\ without \in ParticipantSets
      BY <1>a, <3>1, CallFields DEF TypeOK, ParticipantSets
    <3>3. \/ calls'[c] \in {calls[c], NoCall}
          \/ /\ calls[h.call].state # "absent"
             /\ \/ Observe(h.call, joined, Nobody)
                \/ Observe(h.call, without, h.user)
      <4>1. CASE h.event = "joined"
        <5>1. Joined(h)
          BY <2>6, <4>1 DEF DeliverWebhook
        <5> QED
          BY <5>1 DEF Joined
      <4>2. CASE h.event = "left"
        <5>1. Left(h)
          BY <2>6, <4>2 DEF DeliverWebhook
        <5> QED
          BY <5>1 DEF Left, Ignore
      <4>3. CASE h.event = "finished"
        <5>1. Finished(h)
          BY <2>6, <4>3 DEF DeliverWebhook
        <5> QED
          BY <1>a, <5>1 DEF Finished, Ignore, TypeOK
      <4> QED
        BY <3>1, <4>1, <4>2, <4>3 DEF Hooks
    <3> HIDE DEF before, joined, without
    <3> QED
      BY <1>1, <1>3, <3>1, <3>2, <3>3
  <2>7. CASE RefreshApply
    <3>1. CASE refresh.revised
      BY <1>1, <2>7, <3>1 DEF RefreshApply
    <3>2. CASE ~refresh.revised
      <4> DEFINE T == Transition(refresh.calls[c], c, refresh.observed[c], Nobody,
                                 refresh.targets)
      <4>1. calls'[c] = IF refresh.calls[c].state # "absent" THEN T.next ELSE NoCall
        BY <2>7, <3>2 DEF RefreshApply
      <4>2. CASE refresh.calls[c].state # "absent"
        <5>1. refresh.calls[c] = calls[c]
          BY <2>7, <3>2, <4>2 DEF CallInvariant, SnapshotCurrent, NoCall, RefreshApply
        <5>2. refresh.observed[c] \in ParticipantSets
          BY <1>a DEF TypeOK, Refreshes
        <5>3. KeepsReason(calls[c], T.next)
          BY <1>a, <4>2, <5>1, <5>2, TransitionReason
        <5> HIDE DEF T
        <5> QED
          BY <4>1, <4>2, <5>3
      <4> QED
        BY <1>1, <4>1, <4>2
    <3> QED
      BY <3>1, <3>2
  <2> QED
    BY <1>1, <1>5, <2>1, <2>2, <2>3, <2>4, <2>5, <2>6, <2>7 DEF Server
<1>6. CASE Environment
  <2>1. CASE Restart
    BY <1>1, <2>1 DEF Restart
  <2>2. CASE ~Restart
    BY <1>1, <1>6, <2>2 DEF Environment, Connect, Disconnect, CloseRoom, LoseWebhook, Expire, state
  <2> QED
    BY <2>1, <2>2
<1>7. CASE UNCHANGED vars
  BY <1>1, <1>7 DEF vars
<1> QED
  BY <1>4, <1>5, <1>6, <1>7 DEF Next

\* What has been answered stays answered.
LEMMA StaysAnswered ==
    ASSUME CallInvariant, [Next]_vars, NEW c \in CallIds, Unanswered(calls'[c], c, dialled')
    PROVE  Unanswered(calls[c], c, dialled)
<1>1. CASE c > dialled
  BY <1>1 DEF Unanswered
<1>2. CASE ~(c > dialled)
  <2>1. KeepsReason(calls[c], calls'[c])
    BY <1>2, StepReason
  <2>2. CASE \E u, v \in Users, f \in Facts : StartCall(u, v, f)
    <3>1. dialled' = dialled + 1 /\ dialled \in Nat /\ calls'[c] = calls[c]
      BY <1>2, <2>2 DEF StartCall, CallInvariant, TypeOK, CallIds
    <3> QED
      BY <1>2, <3>1 DEF Unanswered, CallIds
  <2>3. CASE dialled' = dialled /\ \A d \in CallIds : Follows(calls[d], calls'[d])
    BY <1>2, <2>1, <2>3 DEF Follows, Unanswered, NoCall, KeepsReason
  <2> QED
    BY <2>2, <2>3, StepFollows DEF CallInvariant
<1> QED
  BY <1>1, <1>2

\* An unanswered call is not active, and has no room that could close.
LEMMA UnansweredPhase ==
    ASSUME CallInvariant, NEW c \in CallIds, Unanswered(calls[c], c, dialled)
    PROVE  calls[c].state # "active"
BY DEF Unanswered, CallInvariant, UndialledAbsent, NoCall

\* LiveKit has nothing to report of a call for which no token exists.
LEMMA NoLinkStep ==
    ASSUME TypeOK, NEW c \in CallIds, NoRoom(c), [Next]_vars
    PROVE  NoLink(c)'
<1>1. CASE UNCHANGED livekit
  BY <1>1 DEF NoRoom, NoLink, livekit
<1>2. CASE Requests
  BY <1>1, <1>2 DEF Requests, CallRequests, StartCall, AcceptCall, RejectCall, CancelCall, EndRinging,
                    HangUpCall, JoinCallCredentials
<1>3. CASE Server
  <2>1. ASSUME NEW k \in kicks, Kick(k)
        PROVE  NoLink(c)'
    <3>1. k.call \in CallIds /\ k.user \in Users
      BY DEF TypeOK, Kicks
    <3>2. CASE UNCHANGED <<conn, hooks>>
      BY <2>1, <3>2 DEF Kick, NoRoom, NoLink
    <3>3. CASE /\ conn[k.call][k.user] # 0
               /\ conn' = [conn EXCEPT ![k.call][k.user] = 0]
               /\ hooks' = hooks \cup {Hook("left", k.call, k.user, conn[k.call][k.user])}
      <4>1. k.call # c
        BY <3>1, <3>3 DEF NoRoom, NoLink, Empty
      <4> QED
        BY <2>1, <3>1, <3>3, <4>1 DEF Kick, NoRoom, NoLink, Hook, TypeOK
    <3> QED
      BY <2>1, <3>2, <3>3 DEF Kick
  <2>2. ASSUME NEW h \in hooks, DeliverWebhook(h)
        PROVE  NoLink(c)'
    BY <2>2 DEF DeliverWebhook, NoRoom, NoLink
  <2>3. CASE UNCHANGED livekit
    BY <1>1, <2>3
  <2>4. ASSUME NEW t \in tails, RunTail(t)
        PROVE  UNCHANGED livekit
    BY <2>4 DEF RunTail
  <2> QED
    BY <1>3, <2>1, <2>2, <2>3, <2>4
       DEF Server, TimeoutCall, RefreshRead, IssueToken, TokenFails, RefreshBegin,
           RefreshApply, RefreshFail
<1>4. CASE Environment
  <2>1. ASSUME NEW t \in tokens, Connect(t)
        PROVE  NoLink(c)'
    <3>1. t.call # c
      BY DEF NoRoom, NoToken
    <3>2. conn'[c] = conn[c]
      BY <2>1, <3>1 DEF Connect, TypeOK
    <3>3. open' = open \cup {t.call}
      BY <2>1 DEF Connect
    <3>4. \A h \in hooks' \ hooks : h.call = t.call
      BY <2>1 DEF Connect, Hook
    <3> QED
      BY <3>1, <3>2, <3>3, <3>4 DEF NoRoom, NoLink
  <2>2. ASSUME NEW d \in CallIds, NEW u \in Users, Disconnect(d, u)
        PROVE  NoLink(c)'
    <3>1. d # c
      BY <2>2 DEF Disconnect, NoRoom, NoLink, Empty
    <3> QED
      BY <2>2, <3>1 DEF Disconnect, NoRoom, NoLink, Hook, TypeOK
  <2>3. ASSUME NEW d \in CallIds, CloseRoom(d)
        PROVE  NoLink(c)'
    BY <2>3 DEF CloseRoom, NoRoom, NoLink, Hook
  <2>4. ASSUME NEW h \in hooks, LoseWebhook(h)
        PROVE  NoLink(c)'
    BY <2>4 DEF LoseWebhook, NoRoom, NoLink
  <2>5. CASE Expire \/ Restart
    BY <1>1, <2>5 DEF Expire, Restart
  <2> QED
    BY <1>4, <2>1, <2>2, <2>3, <2>4, <2>5 DEF Environment
<1>5. CASE UNCHANGED vars
  BY <1>1, <1>5 DEF vars, livekit
<1> QED
  BY <1>2, <1>3, <1>4, <1>5 DEF Next

\* Tokens are asked for active calls only.
LEMMA NoTokenStep ==
    ASSUME TypeOK, NEW c \in CallIds, calls[c].state # "active", NoRoom(c), [Next]_vars
    PROVE  NoToken(c)'
<1>1. CASE UNCHANGED <<tokens, mints, callTargets>>
  BY <1>1 DEF NoRoom, NoToken
<1>2. CASE Requests
  <2>1. ASSUME NEW d \in CallIds, NEW u \in Users, JoinCallCredentials(d, u)
        PROVE  NoToken(c)'
    <3>1. d # c
      BY <2>1 DEF JoinCallCredentials, TokenPhase
    <3>2. \A v \in Users : callTargets'[v].call \in {d, callTargets[v].call}
      BY <2>1 DEF JoinCallCredentials, TypeOK
    <3>3. \A m \in mints' \ mints : m.call = d /\ m.previous = callTargets[u]
      BY <2>1 DEF JoinCallCredentials
    <3>4. tokens' = tokens
      BY <2>1 DEF JoinCallCredentials
    <3> QED
      BY <3>1, <3>2, <3>3, <3>4 DEF NoRoom, NoToken
  <2> QED
    BY <1>1, <1>2, <2>1 DEF Requests, CallRequests, StartCall, AcceptCall, RejectCall, CancelCall,
                            EndRinging, HangUpCall
<1>3. CASE Server
  <2>1. ASSUME NEW m \in mints, IssueToken(m)
        PROVE  NoToken(c)'
    BY <2>1 DEF IssueToken, NoRoom, NoToken
  <2>2. ASSUME NEW m \in mints, TokenFails(m)
        PROVE  NoToken(c)'
    <3>1. m.previous.call # c
      BY DEF NoRoom, NoToken
    <3>2. \A v \in Users : callTargets'[v] \in {callTargets[v], m.previous}
      BY <2>2 DEF TokenFails, TypeOK
    <3>3. mints' \subseteq mints /\ tokens' = tokens
      BY <2>2 DEF TokenFails
    <3> QED
      BY <3>1, <3>2, <3>3 DEF NoRoom, NoToken
  <2>3. CASE RefreshApply
    <3>1. callTargets' \in {callTargets, refresh.targets} /\ UNCHANGED <<tokens, mints>>
      BY <2>3 DEF RefreshApply
    <3> QED
      BY <3>1 DEF NoRoom, NoToken, NoView
  <2>4. ASSUME NEW t \in tails, RunTail(t)
        PROVE  UNCHANGED <<tokens, mints, callTargets>>
    BY <2>4 DEF RunTail, state
  <2> QED
    BY <1>1, <1>3, <2>1, <2>2, <2>3, <2>4
       DEF Server, TimeoutCall, RefreshRead, Kick, DeliverWebhook, RefreshBegin,
           RefreshFail, state
<1>4. CASE Environment
  <2>1. ASSUME NEW t \in tokens, Connect(t)
        PROVE  NoToken(c)'
    BY <2>1 DEF Connect, NoRoom, NoToken, state
  <2>2. CASE Restart
    BY <2>2 DEF Restart, NoRoom, NoToken, NoTarget, CallIds
  <2> QED
    BY <1>1, <1>4, <2>1, <2>2
       DEF Environment, Disconnect, CloseRoom, LoseWebhook, Expire, state
<1>5. CASE UNCHANGED vars
  BY <1>1, <1>5 DEF vars
<1> QED
  BY <1>2, <1>3, <1>4, <1>5 DEF Next

\* Refresh copies targets and reads rooms that do not concern the call.
LEMMA NoViewStep ==
    ASSUME TypeOK, NEW c \in CallIds, NoRoom(c), [Next]_vars
    PROVE  NoView(c)'
<1>1. CASE UNCHANGED <<calls, callTargets, refresh>>
  BY <1>1 DEF NoRoom, NoView
<1>2. ASSUME refresh'.targets = NoRefresh.targets, refresh'.observed = NoRefresh.observed
      PROVE  NoView(c)'
  BY <1>2 DEF NoView, NoRefresh, NoTarget, CallIds
<1>3. CASE Revise
  BY <1>1, <1>2, <1>3 DEF Revise, Outdated, NoRefresh, NoRoom, NoView
<1>4. CASE refresh' = NoRefresh
  BY <1>2, <1>4
<1>5. CASE RefreshBegin
  BY <1>5 DEF RefreshBegin, NoRoom, NoView, NoToken, ValidTargets, NoTarget, CallIds
<1>6. ASSUME NEW d \in CallIds, RefreshRead(d)
      PROVE  NoView(c)'
  <2>1. refresh'.targets = refresh.targets
    BY <1>6 DEF RefreshRead, TypeOK, Refreshes
  <2>2. refresh'.observed = [refresh.observed EXCEPT ![d] = conn[d]]
    BY <1>6 DEF RefreshRead, TypeOK, Refreshes
  <2>3. refresh'.observed[c] \in {refresh.observed[c], conn[c]}
    BY <2>2 DEF TypeOK, Refreshes
  <2> QED
    BY <2>1, <2>3 DEF NoRoom, NoView, NoLink
<1> QED
  BY <1>1, <1>3, <1>4, <1>5, <1>6, ChangesRevise

\* Seeing nobody in an empty room records nobody.
LEMMA EmptyObservation ==
    ASSUME NEW call \in Calls, call.participants = Empty, NEW c \in CallIds, NEW left,
           NEW targets
    PROVE  Transition(call, c, Empty, left, targets).next.participants = Empty
<1> DEFINE T == Transition(call, c, Empty, left, targets)
           refused == {u \in Members(Empty) : ~Allowed(targets[u], c, Empty[u])}
           next == [u \in Users |-> IF u \in refused THEN call.participants[u] ELSE Empty[u]]
           removed == Removed(call, Empty)
           leavers == (removed \cup ({left} \ Members(Empty))) \cap (Parties(call) \ {Nobody})
           ends == call.state = "active" /\ leavers # {}
           gone == Vanishes(IF ends THEN "ended" ELSE call.state, Members(next), removed, ends)
<1>1. T.next = IF gone THEN NoCall
               ELSE [call EXCEPT !.state = IF ends THEN "ended" ELSE call.state,
                                 !.reason = IF ends THEN "call_end" ELSE @,
                                 !.participants = next]
  BY Zenon DEF Transition
<1>2. next = Empty
  BY DEF Members, Empty
<1>3. NoCall.participants = Empty
  BY DEF NoCall
<1> HIDE DEF next, gone, ends, T
<1>4. T.next.participants = Empty
  BY <1>1, <1>2, <1>3 DEF Calls, Entries, NoCall
<1> QED
  BY <1>4 DEF T

\* Nor does it change a call that is not running.
LEMMA QuietObservation ==
    ASSUME NEW call \in Calls, call.state \notin {"absent", "active"},
           call.participants = Empty, NEW c \in CallIds, NEW left, NEW targets
    PROVE  Transition(call, c, Empty, left, targets).next = call
<1> DEFINE T == Transition(call, c, Empty, left, targets)
           refused == {u \in Members(Empty) : ~Allowed(targets[u], c, Empty[u])}
           next == [u \in Users |-> IF u \in refused THEN call.participants[u] ELSE Empty[u]]
           removed == Removed(call, Empty)
           leavers == (removed \cup ({left} \ Members(Empty))) \cap (Parties(call) \ {Nobody})
           ends == call.state = "active" /\ leavers # {}
           gone == Vanishes(IF ends THEN "ended" ELSE call.state, Members(next), removed, ends)
<1>1. T.next = IF gone THEN NoCall
               ELSE [call EXCEPT !.state = IF ends THEN "ended" ELSE call.state,
                                 !.reason = IF ends THEN "call_end" ELSE @,
                                 !.participants = next]
  BY Zenon DEF Transition
<1>2. next = Empty /\ removed = {} /\ ~ends
  BY DEF Members, Empty, Removed
<1>3. ~gone
  BY <1>2 DEF Vanishes
<1>4. call \in Entries
  BY EntryParties
<1> HIDE DEF next, gone, ends, T, removed
<1>5. T.next = call
  BY <1>1, <1>2, <1>3, <1>4 DEF Entries
<1> QED
  BY <1>5 DEF T

\* Nothing is recorded in the room of a call that has not been answered.
LEMMA NoEntryStep ==
    ASSUME CallInvariant, NEW c \in CallIds, NoRoom(c), [Next]_vars
    PROVE  NoEntry(c)'
<1>1. ASSUME calls'[c].participants \in {calls[c].participants, Empty}
      PROVE  NoEntry(c)'
  BY <1>1 DEF NoRoom, NoEntry
<1>a. calls[c] \in Calls
  BY DEF CallInvariant, TypeOK
<1>2. CASE calls'[c] = calls[c]
  BY <1>1, <1>2
<1>3. CASE calls'[c] = NoCall
  BY <1>1, <1>3 DEF NoCall
<1>4. ASSUME NEW d \in CallIds, NEW reason, NEW emits, Finish(d, reason, emits)
      PROVE  NoEntry(c)'
  <2>1. calls'[c].participants = calls[c].participants
    BY <1>4, <1>a DEF Finish, CallInvariant, TypeOK, Calls, Entries, NoCall
  <2> QED
    BY <1>1, <2>1
<1>5. CASE Requests
  <2>1. ASSUME NEW u \in Users, NEW v \in Users, NEW f \in Facts, StartCall(u, v, f)
        PROVE  NoEntry(c)'
    <3>1. calls'[c].participants \in {calls[c].participants, Empty}
      BY <2>1 DEF StartCall, CallInvariant, TypeOK
    <3> QED
      BY <1>1, <3>1
  <2>2. ASSUME NEW d \in CallIds, NEW u \in Users, AcceptCall(d, u)
        PROVE  NoEntry(c)'
    <3>1. calls'[c].participants = calls[c].participants
      BY <2>2, <1>a DEF AcceptCall, CallInvariant, TypeOK, Calls, Entries, NoCall
    <3> QED
      BY <1>1, <3>1
  <2>3. ASSUME NEW d \in CallIds, NEW u \in Users,
               RejectCall(d, u) \/ CancelCall(d, u) \/ HangUpCall(d, u)
        PROVE  NoEntry(c)'
    BY <1>4, <2>3 DEF RejectCall, CancelCall, EndRinging, HangUpCall
  <2>4. ASSUME NEW d \in CallIds, NEW u \in Users, JoinCallCredentials(d, u)
        PROVE  NoEntry(c)'
    BY <1>2, <2>4 DEF JoinCallCredentials
  <2> QED
    BY <1>5, <2>1, <2>2, <2>3, <2>4 DEF Requests, CallRequests
<1>6. CASE Server
  <2>1. ASSUME NEW d \in CallIds, TimeoutCall(d)
        PROVE  NoEntry(c)'
    BY <1>2, <1>4, <2>1 DEF TimeoutCall
  <2>2. ASSUME NEW t \in tails, RunTail(t)
        PROVE  NoEntry(c)'
    <3>1. calls'[c] \in {calls[c], NoCall}
      BY <2>2 DEF RunTail, state, CallInvariant, TypeOK
    <3> QED
      BY <1>2, <1>3, <3>1
  <2>3. CASE RefreshBegin \/ RefreshFail \/ \E d \in CallIds : RefreshRead(d)
    BY <1>2, <2>3 DEF RefreshBegin, RefreshFail, RefreshRead, state
  <2>4. CASE \E m \in mints : IssueToken(m) \/ TokenFails(m)
    BY <1>2, <2>4 DEF IssueToken, TokenFails
  <2>5. CASE \E k \in kicks : Kick(k)
    BY <1>2, <2>5 DEF Kick, state
  <2>6. ASSUME NEW h \in hooks, DeliverWebhook(h)
        PROVE  NoEntry(c)'
    <3>1. h.call # c /\ h \in Hooks
      BY DEF NoRoom, NoLink, CallInvariant, TypeOK
    <3>2. CASE h.event = "joined"
      <4>1. Joined(h)
        BY <2>6, <3>2 DEF DeliverWebhook
      <4> QED
        BY <1>2, <3>1, <4>1 DEF Joined, Observe, CallInvariant, TypeOK
    <3>3. CASE h.event = "left"
      <4>1. Left(h)
        BY <2>6, <3>3 DEF DeliverWebhook
      <4> QED
        BY <1>2, <3>1, <4>1 DEF Left, Ignore, Observe, CallInvariant, TypeOK
    <3>4. CASE h.event = "finished"
      <4>1. Finished(h)
        BY <2>6, <3>4 DEF DeliverWebhook
      <4> QED
        BY <1>2, <3>1, <4>1 DEF Finished, Ignore, CallInvariant, TypeOK
    <3> QED
      BY <3>1, <3>2, <3>3, <3>4 DEF Hooks
  <2>7. CASE RefreshApply
    <3>1. CASE refresh.revised
      BY <1>2, <2>7, <3>1 DEF RefreshApply
    <3>2. CASE ~refresh.revised
      <4> DEFINE T == Transition(refresh.calls[c], c, refresh.observed[c], Nobody,
                                 refresh.targets)
      <4>1. calls'[c] = IF refresh.calls[c].state # "absent" THEN T.next ELSE NoCall
        BY <2>7, <3>2 DEF RefreshApply
      <4>2. CASE refresh.calls[c].state # "absent"
        <5>1. refresh.calls[c] = calls[c]
          BY <2>7, <3>2, <4>2 DEF CallInvariant, SnapshotCurrent, NoCall, RefreshApply
        <5>2. refresh.observed[c] = Empty /\ calls[c].participants = Empty
          BY DEF NoRoom, NoView, NoEntry
        <5>3. T.next.participants = Empty
          BY <1>a, <5>1, <5>2, EmptyObservation
        <5> HIDE DEF T
        <5> QED
          BY <1>1, <4>1, <4>2, <5>3
      <4> QED
        BY <1>3, <4>1, <4>2
    <3> QED
      BY <3>1, <3>2
  <2> QED
    BY <1>6, <2>1, <2>2, <2>3, <2>4, <2>5, <2>6, <2>7 DEF Server
<1>7. CASE Environment
  <2>1. CASE Restart
    BY <1>3, <2>1 DEF Restart
  <2>2. CASE ~Restart
    BY <1>2, <1>7, <2>2 DEF Environment, Connect, Disconnect, CloseRoom, LoseWebhook, Expire, state
  <2> QED
    BY <2>1, <2>2
<1>8. CASE UNCHANGED vars
  BY <1>2, <1>8 DEF vars
<1> QED
  BY <1>5, <1>6, <1>7, <1>8 DEF Next

\* Every step keeps the rooms of unanswered calls away.
LEMMA StepNoRoom ==
    ASSUME CallInvariant, NoRoomYet, [Next]_vars
    PROVE  NoRoomYet'
<1> SUFFICES ASSUME NEW c \in CallIds, Unanswered(calls'[c], c, dialled')
             PROVE  NoRoom(c)'
  BY DEF NoRoomYet
<1>1. Unanswered(calls[c], c, dialled)
  BY StaysAnswered
<1>2. NoRoom(c) /\ calls[c].state # "active"
  BY <1>1, UnansweredPhase DEF NoRoomYet
<1>3. NoEntry(c)' /\ NoLink(c)' /\ NoToken(c)' /\ NoView(c)'
  BY <1>2, NoEntryStep, NoLinkStep, NoTokenStep, NoViewStep DEF CallInvariant
<1> QED
  BY <1>3 DEF NoRoom

\* The room of a call follows its phase: nobody can be in it before the callee
\* has accepted, and a call that has ended and emptied is about to go.
THEOREM RoomsFollowCalls == Spec => []RoomFollowsCall
<1>1. Init => NoRoomYet
  BY DEF Init, NoRoomYet, NoRoom, NoEntry, NoLink, NoToken, NoView, NoCall, NoTarget,
         NoRefresh, CallIds
<1>2. Init => EndedEmptyIsBeingEvicted
  BY DEF Init, EndedEmptyIsBeingEvicted, Evictable, NoCall
<1>3. CallInvariant /\ EndedEmptyIsBeingEvicted /\ [Next]_vars => EndedEmptyIsBeingEvicted'
  BY StepEvicts
<1>4. CallInvariant /\ NoRoomYet /\ [Next]_vars => NoRoomYet'
  BY StepNoRoom
<1>5. NoRoomYet => RingingHasNoRoom
  BY DEF NoRoomYet, Unanswered, NoRoom, NoEntry, NoLink, NoToken, RingingHasNoRoom,
         Members, Empty
<1>6. NoRoomYet /\ EndedEmptyIsBeingEvicted => RoomFollowsCall
  BY <1>5 DEF RoomFollowsCall
<1> QED
  BY <1>1, <1>2, <1>3, <1>4, <1>6, CallInvariantInit, CallInvariantStep, PTL DEF Spec

-----------------------------------------------------------------------------
(* Whom a call was with.  A signal of a call that was never active is looked *)
(* up in the call's entry when it goes out: the entry must still be there.   *)
(* It is, because the handler that holds the signal is the only one at work  *)
(* on the call, and neither a webhook nor Refresh can take the entry away.   *)

RingTypes == {"call_invite"} \cup (Terminal \ {"call_end"})
Rung(t) == \E i \in DOMAIN t.emits : t.emits[i].type \in RingTypes

Invitation(c, call) ==
    [call |-> c, emits |-> <<Emit(call.callee, "call_invite")>>, evict |-> FALSE]

\* Calls are numbered as they are dialled.
Numbered ==
    /\ stale.call <= dialled
    /\ \A t \in tails : t.call <= dialled
    /\ \A s \in sent : s.call <= dialled

\* While a call rings its timer runs, and at most its invitation is on the way.
RingingHeld ==
    \A c \in CallIds : calls[c].state = "ringing" =>
        /\ c \in timers /\ c > stale.call
        /\ \A t \in tails : t.call = c => t = Invitation(c, calls[c]) /\ \A s \in sent : s.call # c

\* A running Refresh has left out expired calls only.
Forgotten ==
    refresh.on /\ ~refresh.revised =>
        \A c \in CallIds : refresh.calls[c] # calls[c] => c <= stale.call

\* A handler that holds a signal of an unanswered call has the call to itself.
Pending ==
    \A t \in tails : Rung(t) =>
        /\ calls[t.call].state \in {"ringing", "ended"} /\ calls[t.call].reason # "call_end"
        /\ \A i \in DOMAIN t.emits : t.emits[i].to \in Parties(calls[t.call])
        /\ \A x \in tails : x.call = t.call => x = t
        /\ t.call > stale.call

PeerInvariant ==
    /\ CallInvariant /\ NoRoomYet /\ Numbered /\ RingingHeld /\ Forgotten /\ Pending
    /\ RingingSignalsNamePeer

\* A party that knows of a ringing call has been told, so nobody is telling.
LEMMA KnowingIsTold ==
    ASSUME RingingHeld, NEW c \in CallIds, calls[c].state = "ringing",
           Started(c) \/ \E u \in Users : Knows(u, c), NEW t \in tails
    PROVE  t.call # c
<1> SUFFICES ASSUME t.call = c
             PROVE  FALSE
  OBVIOUS
<1>1. t = Invitation(c, calls[c]) /\ \A s \in sent : s.call # c
  BY DEF RingingHeld
<1>2. Emitting(c, "call_invite")
  <2>1. t.emits = <<Emit(calls[c].callee, "call_invite")>>
    BY <1>1 DEF Invitation
  <2>2. t.emits # <<>> /\ t.emits[1].type = "call_invite"
    BY <2>1 DEF Emit
  <2> QED
    BY <2>2 DEF Emitting
<1> QED
  BY <1>1, <1>2 DEF Started, Knows, Invited

\* The steps as the tails see them.  A ringing call is ended ...
Ending(d, reason, emits) ==
    /\ calls[d].state = "ringing" /\ reason # "call_end" /\ reason \in Terminal
    /\ \A i \in DOMAIN emits : emits[i].to \in Parties(calls[d])
    /\ \A t \in tails : t.call # d
    /\ Finish(d, reason, emits)
    /\ timers \ {d} \subseteq timers'
    /\ UNCHANGED <<sent, dialled, stale>>

\* ... or accepted ...
Accepting(d) ==
    /\ calls[d].state = "ringing"
    /\ \A t \in tails : t.call # d
    /\ calls' = [calls EXCEPT ![d].state = "active"]
    /\ Defer(d, <<Emit(calls[d].caller, "call_accept")>>, FALSE)
    /\ UNCHANGED <<sent, dialled, stale, timers>>

\* ... or the step is about an answered call, or about none.
Aside ==
    /\ UNCHANGED <<sent, dialled, stale>>
    /\ tails \subseteq tails'
    /\ \A t \in tails' \ tails : /\ t.call \in CallIds /\ calls[t.call].state = "active"
                                 /\ \A i \in DOMAIN t.emits : t.emits[i].type = "call_end"
    /\ \A c \in CallIds : Unanswered(calls[c], c, dialled) =>
          \/ calls'[c] = calls[c]
          \/ calls'[c] = NoCall /\ c <= stale.call
    /\ \A c \in timers \ timers' : calls[c].state # "ringing"

\* A step that leaves the calls, the tails and the timers alone.
LEMMA AsideIdle ==
    ASSUME UNCHANGED <<sent, dialled, stale, tails, calls, timers>>
    PROVE  Aside
BY DEF Aside

\* Hanging up is about an answered call.
LEMMA HangUpAside ==
    ASSUME CallInvariant, NEW d \in CallIds, NEW u \in Users, HangUpCall(d, u)
    PROVE  Aside
<1> DEFINE tail == [call |-> d, emits |-> <<Emit(OtherParty(calls[d], u), "call_end")>>,
                    evict |-> TRUE]
<1>1. tails' = tails \cup {tail}
  BY DEF HangUpCall, Finish, Defer
<1>2. /\ tail.call \in CallIds /\ calls[tail.call].state = "active"
      /\ \A i \in DOMAIN tail.emits : tail.emits[i].type = "call_end"
  BY DEF HangUpCall, Emit
<1>3. \A c \in CallIds : c # d => calls'[c] = calls[c]
  BY DEF HangUpCall, Finish, CallInvariant, TypeOK
<1>4. UNCHANGED <<sent, dialled, stale, timers>>
  BY DEF HangUpCall
<1>5. ~Unanswered(calls[d], d, dialled)
  BY UnansweredPhase DEF HangUpCall
<1> HIDE DEF tail
<1> QED
  BY <1>1, <1>2, <1>3, <1>4, <1>5 DEF Aside

\* So is what LiveKit reports.
LEMMA WebhookAside ==
    ASSUME CallInvariant, NoRoomYet, NEW h \in hooks, DeliverWebhook(h)
    PROVE  Aside
<1>1. h \in Hooks /\ h.call \in CallIds /\ h.gen \in Nat
  BY DEF CallInvariant, TypeOK, Hooks
<1>2. ~Unanswered(calls[h.call], h.call, dialled)
  BY <1>1 DEF NoRoomYet, NoRoom, NoLink
<1>3. UNCHANGED <<sent, dialled, stale, timers>>
  BY DEF DeliverWebhook
<1> DEFINE before == calls[h.call].participants
           joined == [before EXCEPT ![h.user] = h.gen]
           without == [before EXCEPT ![h.user] = 0]
<1>4. joined \in ParticipantSets /\ without \in ParticipantSets
  BY <1>1, CallFields DEF CallInvariant, TypeOK, ParticipantSets
<1>5. \/ UNCHANGED <<calls, tails>>
      \/ calls' = [calls EXCEPT ![h.call] = NoCall] /\ UNCHANGED tails
      \/ /\ calls[h.call].state # "absent"
         /\ \/ Observe(h.call, joined, Nobody)
            \/ Observe(h.call, without, h.user)
  <2>1. CASE h.event = "joined"
    <3>1. Joined(h)
      BY <2>1 DEF DeliverWebhook
    <3> QED
      BY <3>1 DEF Joined
  <2>2. CASE h.event = "left"
    <3>1. Left(h)
      BY <2>2 DEF DeliverWebhook
    <3> QED
      BY <3>1 DEF Left, Ignore
  <2>3. CASE h.event = "finished"
    <3>1. Finished(h)
      BY <2>3 DEF DeliverWebhook
    <3> QED
      BY <3>1 DEF Finished, Ignore
  <2> QED
    BY <1>1, <2>1, <2>2, <2>3 DEF Hooks
<1> HIDE DEF before, joined, without
<1>6. CASE UNCHANGED <<calls, tails>>
  BY <1>3, <1>6, AsideIdle
<1>7. CASE calls' = [calls EXCEPT ![h.call] = NoCall] /\ UNCHANGED tails
  <2>1. \A c \in CallIds : c # h.call => calls'[c] = calls[c]
    BY <1>7 DEF CallInvariant, TypeOK
  <2> QED
    BY <1>2, <1>3, <1>7, <2>1 DEF Aside
<1>8. ASSUME NEW observed \in ParticipantSets, NEW left, calls[h.call].state # "absent",
             Observe(h.call, observed, left)
      PROVE  Aside
  <2> DEFINE T == Transition(calls[h.call], h.call, observed, left, ValidTargets)
  <2>1. calls' = [calls EXCEPT ![h.call] = T.next] /\ tails' = tails \cup T.tails
    BY <1>8 DEF Observe
  <2>2. calls[h.call] \in Calls
    BY <1>1 DEF CallInvariant, TypeOK
  <2>3. \A t \in T.tails : /\ t.call \in CallIds /\ calls[t.call].state = "active"
                           /\ \A i \in DOMAIN t.emits : t.emits[i].type = "call_end"
    BY <1>1, <1>8, <2>2, TransitionTells
  <2>4. \A c \in CallIds : c # h.call => calls'[c] = calls[c]
    BY <2>1 DEF CallInvariant, TypeOK
  <2> HIDE DEF T
  <2> QED
    BY <1>2, <1>3, <2>1, <2>3, <2>4 DEF Aside
<1> QED
  BY <1>4, <1>5, <1>6, <1>7, <1>8

\* So is what Refresh writes back: an unanswered call it has seen is left as it
\* is, one that it has left out was expired.
LEMMA RefreshAside ==
    ASSUME CallInvariant, NoRoomYet, Forgotten, RefreshApply
    PROVE  Aside
<1>1. UNCHANGED <<sent, dialled, stale, timers>>
  BY DEF RefreshApply
<1>2. CASE refresh.revised
  BY <1>1, <1>2, AsideIdle DEF RefreshApply
<1>3. CASE ~refresh.revised
  <2> DEFINE result(c) == Transition(refresh.calls[c], c, refresh.observed[c], Nobody,
                                     refresh.targets)
             outcome == [c \in CallIds |-> result(c)]
             known == {c \in CallIds : refresh.calls[c].state # "absent"}
  <2>1. /\ calls' = [c \in CallIds |-> IF c \in known THEN outcome[c].next ELSE NoCall]
        /\ tails' = tails \cup UNION {outcome[c].tails : c \in known}
    BY <1>3 DEF RefreshApply
  <2>2. ASSUME NEW c \in known
        PROVE  /\ refresh.calls[c] = calls[c] /\ calls[c] \in Calls
               /\ refresh.observed[c] \in ParticipantSets
    BY <1>3 DEF CallInvariant, SnapshotCurrent, NoCall, RefreshApply, TypeOK, Refreshes
  <2>3. ASSUME NEW t \in tails' \ tails
        PROVE  /\ t.call \in CallIds /\ calls[t.call].state = "active"
               /\ \A i \in DOMAIN t.emits : t.emits[i].type = "call_end"
    <3>1. PICK c \in known : t \in result(c).tails
      BY <2>1
    <3>2. /\ t.call = c /\ \A i \in DOMAIN t.emits : t.emits[i].type = "call_end"
          /\ refresh.calls[c].state = "active"
      BY <2>2, <3>1, TransitionTells
    <3> QED
      BY <2>2, <3>2
  <2>4. ASSUME NEW c \in CallIds, Unanswered(calls[c], c, dialled)
        PROVE  calls'[c] = calls[c] \/ (calls'[c] = NoCall /\ c <= stale.call)
    <3>1. CASE c \in known
      <4>1. refresh.observed[c] = Empty /\ calls[c].participants = Empty
        BY <2>4 DEF NoRoomYet, NoRoom, NoView, NoEntry
      <4>2. calls[c].state # "active" /\ calls[c].state # "absent"
        BY <2>2, <2>4, <3>1, UnansweredPhase
      <4>3. result(c).next = calls[c]
        BY <2>2, <3>1, <4>1, <4>2, QuietObservation
      <4>4. calls'[c] = result(c).next
        BY <2>1, <3>1
      <4> QED
        BY <4>3, <4>4
    <3>2. CASE c \notin known
      <4>1. calls'[c] = NoCall
        BY <2>1, <3>2
      <4>2. CASE refresh.calls[c] = calls[c]
        <5>1. calls[c] = NoCall
          BY <3>2, <4>2, EntryParties DEF CallInvariant, TypeOK, Calls, Entries
        <5> QED
          BY <4>1, <5>1
      <4>3. CASE refresh.calls[c] # calls[c]
        BY <1>3, <4>1, <4>3 DEF Forgotten, RefreshApply
      <4> QED
        BY <4>2, <4>3
    <3> QED
      BY <3>1, <3>2
  <2> HIDE DEF known, outcome
  <2> QED
    BY <1>1, <2>1, <2>3, <2>4 DEF Aside
<1> QED
  BY <1>2, <1>3

\* Every step is one of those, or a dialling, a tail, a restart or the passing
\* of the TTLs.
LEMMA StepShape ==
    ASSUME PeerInvariant, [Next]_vars
    PROVE  \/ \E u, v \in Users, f \in Facts : StartCall(u, v, f)
           \/ \E d \in CallIds : Accepting(d) \/ \E reason, emits : Ending(d, reason, emits)
           \/ \E t \in tails : RunTail(t)
           \/ Aside \/ Expire \/ Restart
<1> USE DEF PeerInvariant
<1>1. CASE Requests
  <2>1. ASSUME NEW d \in CallIds, NEW u \in Users, AcceptCall(d, u)
        PROVE  Accepting(d)
    <3>1. \A t \in tails : t.call # d
      BY <2>1, KnowingIsTold DEF AcceptCall
    <3> QED
      BY <2>1, <3>1 DEF AcceptCall, Accepting
  <2>2. ASSUME NEW d \in CallIds, NEW u \in Users, RejectCall(d, u) \/ CancelCall(d, u)
        PROVE  \E reason, emits : Ending(d, reason, emits)
    <3>1. PICK reason \in {"call_reject", "call_cancel"} : EndRinging(d, u, u, reason)
      BY <2>2 DEF RejectCall, CancelCall, EndRinging
    <3> DEFINE emits == <<Emit(OtherParty(calls[d], u), reason)>>
    <3>2. \A i \in DOMAIN emits : emits[i].to \in Parties(calls[d])
      BY DEF Emit, OtherParty, Parties
    <3>3. \A t \in tails : t.call # d
      BY <3>1, KnowingIsTold DEF EndRinging
    <3>4. Finish(d, reason, emits)
      BY <3>1 DEF EndRinging
    <3>5. reason # "call_end" /\ reason \in Terminal
      BY DEF Terminal
    <3>6. calls[d].state = "ringing" /\ UNCHANGED <<timers, sent, dialled, stale>>
      BY <3>1 DEF EndRinging
    <3> HIDE DEF emits
    <3>7. Ending(d, reason, emits)
      BY <3>2, <3>3, <3>4, <3>5, <3>6 DEF Ending
    <3> QED
      BY <3>7
  <2>3. ASSUME NEW d \in CallIds, NEW u \in Users, JoinCallCredentials(d, u)
        PROVE  Aside
    BY <2>3, AsideIdle DEF JoinCallCredentials
  <2> QED
    BY <1>1, <2>1, <2>2, <2>3, HangUpAside DEF Requests, CallRequests
<1>2. CASE Server
  <2>1. ASSUME NEW d \in CallIds, TimeoutCall(d)
        PROVE  Aside \/ \E reason, emits : Ending(d, reason, emits)
    <3>1. CASE TimedOut(d)
      <4> DEFINE emits == <<Emit(calls[d].caller, "call_timeout"),
                            Emit(calls[d].callee, "call_timeout")>>
      <4>1. \A i \in DOMAIN emits : emits[i].to \in Parties(calls[d])
        BY DEF Emit, Parties
      <4>2. calls[d].state = "ringing" /\ Started(d)
        BY <2>1, <3>1 DEF TimedOut, TimeoutCall
      <4>3. \A t \in tails : t.call # d
        BY <4>2, KnowingIsTold
      <4>4. Finish(d, "call_timeout", emits) /\ timers' = timers \ {d}
        BY <2>1, <3>1 DEF TimeoutCall
      <4>5. "call_timeout" # "call_end" /\ "call_timeout" \in Terminal
        BY DEF Terminal
      <4>6. UNCHANGED <<sent, dialled, stale>>
        BY <2>1 DEF TimeoutCall
      <4> HIDE DEF emits
      <4>7. Ending(d, "call_timeout", emits)
        BY <4>1, <4>2, <4>3, <4>4, <4>5, <4>6 DEF Ending
      <4> QED
        BY <4>7
    <3>2. CASE ~TimedOut(d)
      BY <2>1, <3>2 DEF TimeoutCall, TimedOut, Aside
    <3> QED
      BY <3>1, <3>2
  <2>2. CASE RefreshBegin \/ RefreshFail \/ \E d \in CallIds : RefreshRead(d)
    BY <2>2, AsideIdle DEF RefreshBegin, RefreshFail, RefreshRead, state
  <2>3. CASE \E m \in mints : IssueToken(m) \/ TokenFails(m)
    BY <2>3, AsideIdle DEF IssueToken, TokenFails
  <2>4. CASE \E k \in kicks : Kick(k)
    BY <2>4, AsideIdle DEF Kick, state
  <2> QED
    BY <1>2, <2>1, <2>2, <2>3, <2>4, WebhookAside, RefreshAside DEF Server
<1>3. CASE Environment
  <2>1. ASSUME \/ \E t \in tokens : Connect(t)
               \/ \E d \in CallIds, u \in Users : Disconnect(d, u)
               \/ \E d \in CallIds : CloseRoom(d)
               \/ \E h \in hooks : LoseWebhook(h)
        PROVE  Aside
    BY <2>1, AsideIdle DEF Connect, Disconnect, CloseRoom, LoseWebhook, state
  <2> QED
    BY <1>3, <2>1 DEF Environment
<1>4. CASE UNCHANGED vars
  BY <1>4, AsideIdle DEF vars
<1> QED
  BY <1>1, <1>2, <1>3, <1>4 DEF Next

\* A tail that is sent of, as the others see it.
LEMMA RunTailShape ==
    ASSUME TypeOK, NEW t \in tails, RunTail(t)
    PROVE  /\ UNCHANGED <<dialled, stale, timers>>
           /\ \A c \in CallIds : calls'[c] = calls[c] \/ calls'[c] = NoCall
           /\ \A c \in CallIds : c # t.call => calls'[c] = calls[c]
           /\ t.emits # <<>> => calls' = calls
           /\ \A s \in sent' \ sent : s.call = t.call
           /\ \A x \in tails' : \/ x \in tails \ {t}
                                \/ /\ t.emits # <<>> /\ x = [t EXCEPT !.emits = Tail(t.emits)]
                                   /\ ~(x.emits = <<>> /\ ~t.evict)
<1>1. t \in Tails
  BY DEF TypeOK
<1>2. CASE t.emits # <<>>
  <2> DEFINE rest == [t EXCEPT !.emits = Tail(t.emits)]
  <2>1. UNCHANGED <<calls, dialled, stale, timers>>
    BY <1>2 DEF RunTail, state
  <2>2. tails' = (tails \ {t}) \cup (IF rest.emits = <<>> /\ ~t.evict THEN {} ELSE {rest})
    BY <1>2 DEF RunTail
  <2>3. PICK to, type, peer :
           sent' = sent \cup {[to |-> to, call |-> t.call, type |-> type, peer |-> peer]}
    BY <1>2 DEF RunTail
  <2>4. \A s \in sent' \ sent : s.call = t.call
    BY <2>3
  <2> HIDE DEF rest
  <2>5. \A x \in tails' : \/ x \in tails \ {t}
                          \/ x = rest /\ ~(x.emits = <<>> /\ ~t.evict)
    BY <2>2
  <2> QED
    BY <1>2, <2>1, <2>4, <2>5 DEF rest
<1>3. CASE t.emits = <<>>
  <2>1. calls' = calls \/ calls' = [calls EXCEPT ![t.call] = NoCall]
    BY <1>3 DEF RunTail
  <2>2. tails' = tails \ {t} /\ UNCHANGED <<dialled, stale, timers, sent>>
    BY <1>3 DEF RunTail
  <2>3. /\ \A c \in CallIds : calls'[c] = calls[c] \/ calls'[c] = NoCall
        /\ \A c \in CallIds : c # t.call => calls'[c] = calls[c]
    BY <2>1 DEF TypeOK
  <2> QED
    BY <1>3, <2>2, <2>3
<1> QED
  BY <1>2, <1>3

\* Numbers are given out in order.
LEMMA NumberedStep ==
    ASSUME PeerInvariant, [Next]_vars
    PROVE  Numbered'
<1> USE DEF PeerInvariant
<1>1. /\ dialled \in Nat /\ stale.call \in Nat
      /\ \A t \in tails : t.call \in CallIds
      /\ \A s \in sent : s.call \in CallIds
  BY DEF CallInvariant, TypeOK, Tails, Signals
<1>2. \A c \in CallIds : calls[c].state # "absent" => c <= dialled
  BY <1>1 DEF CallInvariant, UndialledAbsent, NoCall, CallIds
<1>3. ASSUME UNCHANGED <<sent, dialled, stale>>, \A t \in tails' \ tails : t.call <= dialled
      PROVE  Numbered'
  BY <1>3 DEF Numbered
<1>4. ASSUME NEW u \in Users, NEW v \in Users, NEW f \in Facts, StartCall(u, v, f)
      PROVE  Numbered'
  <2>1. dialled' = dialled + 1 /\ sent' = sent /\ stale' = stale
    BY <1>4 DEF StartCall
  <2>2. \A t \in tails' \ tails : t.call = dialled + 1
    BY <1>4 DEF StartCall, Defer
  <2> QED
    BY <1>1, <2>1, <2>2 DEF Numbered, CallIds
<1>5. ASSUME NEW d \in CallIds, Accepting(d)
      PROVE  Numbered'
    BY <1>2, <1>3, <1>5 DEF Accepting, Defer
<1>6. ASSUME NEW d \in CallIds, NEW reason, NEW emits, Ending(d, reason, emits)
      PROVE  Numbered'
  BY <1>2, <1>3, <1>6 DEF Ending, Finish, Defer
<1>7. CASE Aside
  BY <1>2, <1>3, <1>7 DEF Aside
<1>8. ASSUME NEW t \in tails, RunTail(t)
      PROVE  Numbered'
  <2>1. \A x \in tails' : x \in tails \/ x.call = t.call
    BY <1>8, RunTailShape DEF CallInvariant, TypeOK, Tails
  <2>2. \A s \in sent' \ sent : s.call = t.call
    BY <1>8, RunTailShape DEF CallInvariant
  <2>3. UNCHANGED <<dialled, stale>>
    BY <1>8, RunTailShape DEF CallInvariant
  <2> QED
    BY <2>1, <2>2, <2>3 DEF Numbered
<1>9. CASE Expire
  BY <1>1, <1>9 DEF Expire, Numbered, state
<1>10. CASE Restart
  BY <1>10 DEF Restart, Numbered
<1> QED
  BY <1>4, <1>5, <1>6, <1>7, <1>8, <1>9, <1>10, StepShape

\* A ringing call keeps its timer, and nothing but its invitation is held of it.
LEMMA RingingHeldStep ==
    ASSUME PeerInvariant, [Next]_vars
    PROVE  RingingHeld'
<1> USE DEF PeerInvariant
<1> SUFFICES ASSUME NEW c \in CallIds, calls'[c].state = "ringing"
             PROVE  /\ c \in timers' /\ c > stale'.call
                    /\ \A t \in tails' : t.call = c =>
                         t = Invitation(c, calls'[c]) /\ \A s \in sent' : s.call # c
  BY DEF RingingHeld
<1>a. TypeOK /\ calls[c] \in Calls
  BY DEF CallInvariant, TypeOK
<1>1. ASSUME NEW u \in Users, NEW v \in Users, NEW f \in Facts, StartCall(u, v, f)
      PROVE  /\ c \in timers' /\ c > stale'.call
             /\ \A t \in tails' : t.call = c =>
                  t = Invitation(c, calls'[c]) /\ \A s \in sent' : s.call # c
  <2>1. sent' = sent /\ stale' = stale /\ timers \subseteq timers'
    BY <1>1 DEF StartCall
  <2>2. CASE c # dialled + 1
    <3>1. calls'[c] = calls[c]
      BY <1>1, <1>a, <2>2 DEF StartCall, TypeOK
    <3>2. \A t \in tails' \ tails : t.call # c
      BY <1>1, <2>2 DEF StartCall, Defer
    <3> QED
      BY <2>1, <3>1, <3>2 DEF RingingHeld
  <2>3. CASE c = dialled + 1
    <3>1. StartReason(v, f) = "none" /\ calls'[c].callee = v
      BY <1>1, <1>a, <2>3 DEF StartCall, TypeOK
    <3>2. c \in timers' /\ tails' = tails \cup {Invitation(c, calls'[c])}
      BY <1>1, <2>3, <3>1 DEF StartCall, Defer, Invitation
    <3>3. /\ \A t \in tails : t.call # c
          /\ \A s \in sent : s.call # c
          /\ c > stale.call
      BY <1>a, <2>3 DEF Numbered, TypeOK, Tails, Signals, CallIds
    <3> QED
      BY <2>1, <3>2, <3>3
  <2> QED
    BY <2>2, <2>3
<1>2. ASSUME calls'[c] = calls[c], stale' = stale, sent' = sent, c \in timers => c \in timers',
             \A t \in tails' \ tails : t.call # c
      PROVE  /\ c \in timers' /\ c > stale'.call
             /\ \A t \in tails' : t.call = c =>
                  t = Invitation(c, calls'[c]) /\ \A s \in sent' : s.call # c
  BY <1>2 DEF RingingHeld
<1>3. ASSUME NEW d \in CallIds, Accepting(d)
      PROVE  /\ c \in timers' /\ c > stale'.call
             /\ \A t \in tails' : t.call = c =>
                  t = Invitation(c, calls'[c]) /\ \A s \in sent' : s.call # c
  <2>1. c # d
    <3>1. calls[d] \in Entries
      BY <1>3, <1>a, EntryParties DEF Accepting, TypeOK
    <3>2. calls'[d].state = "active"
      BY <1>3, <1>a, <3>1 DEF Accepting, TypeOK, Entries
    <3> QED
      BY <3>2
  <2>2. calls'[c] = calls[c]
    BY <1>3, <1>a, <2>1 DEF Accepting, TypeOK
  <2>3. /\ stale' = stale /\ sent' = sent /\ timers' = timers
        /\ \A t \in tails' \ tails : t.call # c
    BY <1>3, <2>1 DEF Accepting, Defer
  <2> QED
    BY <1>2, <2>2, <2>3
<1>4. ASSUME NEW d \in CallIds, NEW reason, NEW emits, Ending(d, reason, emits)
      PROVE  /\ c \in timers' /\ c > stale'.call
             /\ \A t \in tails' : t.call = c =>
                  t = Invitation(c, calls'[c]) /\ \A s \in sent' : s.call # c
  <2>1. c # d
    <3>1. calls[d] \in Entries
      BY <1>4, <1>a, EntryParties DEF Ending, TypeOK
    <3>2. calls'[d].state = "ended"
      BY <1>4, <1>a, <3>1 DEF Ending, Finish, TypeOK, Entries
    <3> QED
      BY <3>2
  <2>2. calls'[c] = calls[c]
    BY <1>4, <1>a, <2>1 DEF Ending, Finish, TypeOK
  <2>3. /\ stale' = stale /\ sent' = sent /\ (c \in timers => c \in timers')
        /\ \A t \in tails' \ tails : t.call # c
    BY <1>4, <2>1 DEF Ending, Finish, Defer
  <2> QED
    BY <1>2, <2>2, <2>3
<1>5. CASE Aside
  <2>1. Unanswered(calls[c], c, dialled)
    <3>1. Unanswered(calls'[c], c, dialled')
      BY DEF Unanswered
    <3> QED
      BY <3>1, StaysAnswered
  <2>2. calls'[c] = calls[c]
    BY <1>5, <2>1 DEF Aside, NoCall
  <2>3. /\ stale' = stale /\ sent' = sent /\ (c \in timers => c \in timers')
        /\ \A t \in tails' \ tails : t.call # c
    BY <1>5, <2>2 DEF Aside
  <2> QED
    BY <1>2, <2>2, <2>3
<1>6. ASSUME NEW t \in tails, RunTail(t)
      PROVE  /\ c \in timers' /\ c > stale'.call
             /\ \A x \in tails' : x.call = c =>
                  x = Invitation(c, calls'[c]) /\ \A s \in sent' : s.call # c
  <2>1. /\ calls'[c] = calls[c] /\ stale' = stale /\ timers' = timers
        /\ \A s \in sent' \ sent : s.call = t.call
    BY <1>6, <1>a, RunTailShape DEF NoCall
  <2>2. t \in Tails
    BY <1>a DEF TypeOK
  <2>3. CASE t.call # c
    <3>1. \A x \in tails' \ tails : x.call # c
      BY <1>6, <1>a, <2>2, <2>3, RunTailShape DEF Tails
    <3> QED
      BY <2>1, <2>3, <3>1 DEF RingingHeld
  <2>4. CASE t.call = c
    <3>1. t = Invitation(c, calls[c]) /\ \A x \in tails : x.call = c => x = t
      BY <2>1, <2>4 DEF RingingHeld
    <3>2. t.emits = <<Emit(calls[c].callee, "call_invite")>> /\ ~t.evict
      BY <3>1 DEF Invitation
    <3>3. Tail(t.emits) = <<>>
      BY <3>2
    <3>4. \A x \in tails' : x \in tails \ {t}
      BY <1>6, <1>a, <2>2, <3>2, <3>3, RunTailShape DEF Tails
    <3> QED
      BY <2>1, <3>1, <3>4 DEF RingingHeld
  <2> QED
    BY <2>3, <2>4
<1>7. CASE Expire
  <2>1. calls[c].state = "ringing" /\ timers = {}
    BY <1>7 DEF Expire, state
  <2> QED
    BY <2>1 DEF RingingHeld
<1>8. CASE Restart
  BY <1>8 DEF Restart, NoCall
<1> QED
  BY <1>1, <1>3, <1>4, <1>5, <1>6, <1>7, <1>8, StepShape

\* Refresh goes on to leave out expired calls only.
LEMMA ForgottenStep ==
    ASSUME PeerInvariant, [Next]_vars
    PROVE  Forgotten'
<1> USE DEF PeerInvariant
<1>1. /\ stale.call \in Nat /\ dialled \in Nat
      /\ stale.call <= stale'.call /\ stale'.call \in Nat
  <2>1. /\ dialled \in Nat /\ stale.call \in Nat /\ stale.call <= dialled
    BY DEF CallInvariant, TypeOK, Numbered
  <2>2. stale' = stale \/ Expire
    <3>1. ASSUME NEW t \in tails, RunTail(t)
          PROVE  stale' = stale
      BY <3>1, RunTailShape DEF CallInvariant
    <3> QED
      BY <3>1, StepShape DEF StartCall, Accepting, Ending, Aside, Restart
  <2> QED
    BY <2>1, <2>2 DEF Expire
<1>2. ASSUME UNCHANGED <<calls, refresh>>
      PROVE  Forgotten'
  BY <1>1, <1>2 DEF Forgotten, CallIds
<1>3. CASE Revise
  BY <1>2, <1>3 DEF Revise, Outdated, Forgotten, NoRefresh
<1>4. CASE refresh' = NoRefresh
  BY <1>4 DEF Forgotten, NoRefresh
<1>5. CASE RefreshBegin
  BY <1>5 DEF RefreshBegin, Forgotten, state
<1>6. ASSUME NEW d \in CallIds, RefreshRead(d)
      PROVE  Forgotten'
  <2>1. /\ refresh'.on = refresh.on /\ refresh'.revised = refresh.revised
        /\ refresh'.calls = refresh.calls /\ calls' = calls /\ stale' = stale
    BY <1>6 DEF RefreshRead, CallInvariant, TypeOK, Refreshes, state
  <2> QED
    BY <2>1 DEF Forgotten
<1> QED
  BY <1>2, <1>3, <1>4, <1>5, <1>6, ChangesRevise DEF CallInvariant

\* What Pending asks of one tail.
Alone(t, cs, ts, st) ==
    Rung(t) =>
        /\ cs[t.call].state \in {"ringing", "ended"} /\ cs[t.call].reason # "call_end"
        /\ \A i \in DOMAIN t.emits : t.emits[i].to \in Parties(cs[t.call])
        /\ \A x \in ts : x.call = t.call => x = t
        /\ t.call > st.call

\* A tail that was there stays alone, if its call stays and gets no other tail.
LEMMA StaysAlone ==
    ASSUME NEW t \in tails, Alone(t, calls, tails, stale), stale' = stale,
           calls'[t.call] = calls[t.call],
           \A x \in tails' \ tails : x.call # t.call
    PROVE  Alone(t, calls', tails', stale')
BY DEF Alone

\* Nobody interferes with a handler that holds a signal of an unanswered call.
LEMMA PendingStep ==
    ASSUME PeerInvariant, [Next]_vars
    PROVE  Pending'
<1> USE DEF PeerInvariant
<1> SUFFICES ASSUME NEW t \in tails'
             PROVE  Alone(t, calls', tails', stale')
  BY DEF Pending, Alone
<1>a. TypeOK /\ \A x \in tails : Alone(x, calls, tails, stale) /\ x \in Tails /\ x.call \in CallIds
  BY DEF CallInvariant, TypeOK, Pending, Alone, Tails
<1>1. ASSUME NEW u \in Users, NEW v \in Users, NEW f \in Facts, StartCall(u, v, f)
      PROVE  Alone(t, calls', tails', stale')
  <2> DEFINE c == dialled + 1
  <2>1. c \in CallIds /\ stale' = stale /\ \A x \in tails : x.call # c
    BY <1>1, <1>a DEF StartCall, CallIds, TypeOK, Numbered
  <2>2. \A x \in tails' \ tails : x.call = c
    BY <1>1 DEF StartCall, Defer
  <2>3. CASE t \in tails
    <3>1. calls'[t.call] = calls[t.call]
      BY <1>1, <1>a, <2>1, <2>3 DEF StartCall, TypeOK
    <3> QED
      BY <1>a, <2>1, <2>2, <2>3, <3>1, StaysAlone
  <2>4. CASE t \notin tails
    <3> DEFINE reason == StartReason(v, f)
    <3>a. PICK emits, evict : tails' = tails \cup {[call |-> c, emits |-> emits, evict |-> evict]}
      BY <1>1 DEF StartCall, Defer
    <3>b. t = [call |-> c, emits |-> emits, evict |-> evict] /\ t.call = c
      BY <2>4, <3>a
    <3>1. t.call = c /\ \A x \in tails' : x.call = c => x = t
      <4> HIDE DEF c
      <4> QED
        BY <2>1, <3>a, <3>b
    <3>2. reason \in {"call_unavailable", "call_unreachable", "call_busy", "none"}
      BY Zenon DEF StartReason
    <3>3. /\ calls'[c].state = IF reason = "none" THEN "ringing" ELSE "ended"
          /\ calls'[c].reason = reason
          /\ Parties(calls'[c]) = {u, v}
      BY <1>1, <1>a, <2>1 DEF StartCall, TypeOK, Parties
    <3>4. \A i \in DOMAIN t.emits : t.emits[i].to \in {u, v}
      <4>1. t.emits = <<Emit(v, "call_invite")>> \/ t.emits = <<Emit(u, reason)>>
        BY <1>1, <2>4 DEF StartCall, Defer
      <4> HIDE DEF reason
      <4> QED
        BY <4>1 DEF Emit
    <3>5. c > stale'.call
      BY <1>a, <2>1 DEF TypeOK, Numbered
    <3> HIDE DEF c, reason
    <3> QED
      BY <3>1, <3>2, <3>3, <3>4, <3>5 DEF Alone
  <2> QED
    BY <2>3, <2>4
<1>2. ASSUME NEW d \in CallIds, Accepting(d)
      PROVE  Alone(t, calls', tails', stale')
  <2>1. \A x \in tails' \ tails : x.call = d /\ ~Rung(x)
    BY <1>2 DEF Accepting, Defer, Rung, RingTypes, Terminal, Emit
  <2>2. CASE t \in tails
    <3>1. calls'[t.call] = calls[t.call]
      BY <1>2, <1>a, <2>2 DEF Accepting, TypeOK
    <3> QED
      BY <1>2, <1>a, <2>1, <2>2, <3>1, StaysAlone DEF Accepting
  <2>3. CASE t \notin tails
    BY <2>1, <2>3 DEF Alone
  <2> QED
    BY <2>2, <2>3
<1>3. ASSUME NEW d \in CallIds, NEW reason, NEW emits, Ending(d, reason, emits)
      PROVE  Alone(t, calls', tails', stale')
  <2>1. tails' = tails \cup {[call |-> d, emits |-> emits, evict |-> TRUE]}
    BY <1>3 DEF Ending, Finish, Defer
  <2>2. \A x \in tails' \ tails : x.call = d
    BY <2>1
  <2>3. CASE t \in tails
    <3>1. calls'[t.call] = calls[t.call]
      BY <1>3, <1>a, <2>3 DEF Ending, Finish, TypeOK
    <3>2. t.call # d /\ stale' = stale
      BY <1>3, <2>3 DEF Ending
    <3> QED
      BY <1>a, <2>2, <2>3, <3>1, <3>2, StaysAlone
  <2>4. CASE t \notin tails
    <3>1. t = [call |-> d, emits |-> emits, evict |-> TRUE]
      BY <2>1, <2>4
    <3>2. calls[d] \in Entries
      BY <1>3, <1>a, EntryParties DEF Ending, TypeOK
    <3>3. /\ calls'[d].state = "ended" /\ calls'[d].reason = reason
          /\ Parties(calls'[d]) = Parties(calls[d])
      BY <1>3, <1>a, <3>2 DEF Ending, Finish, TypeOK, Entries, Parties
    <3>4. d > stale'.call
      BY <1>3 DEF Ending, RingingHeld
    <3>5. \A x \in tails' : x.call = d => x = t
      BY <1>3, <2>1, <3>1 DEF Ending
    <3>6. t.call = d /\ t.emits = emits
      BY <3>1
    <3>7. \A i \in DOMAIN emits : emits[i].to \in Parties(calls[d])
      BY <1>3 DEF Ending
    <3>8. reason # "call_end"
      BY <1>3 DEF Ending
    <3> QED
      BY <3>3, <3>4, <3>5, <3>6, <3>7, <3>8 DEF Alone
  <2> QED
    BY <2>3, <2>4
<1>4. CASE Aside
  <2>1. CASE t \notin tails
    BY <1>4, <2>1 DEF Aside, Alone, Rung, RingTypes
  <2>2. CASE t \in tails /\ Rung(t)
    <3>1. /\ calls[t.call].state \in {"ringing", "ended"} /\ calls[t.call].reason # "call_end"
          /\ t.call > stale.call /\ t.call \in CallIds
      BY <1>a, <2>2 DEF Alone
    <3>2. Unanswered(calls[t.call], t.call, dialled)
      BY <3>1 DEF Unanswered
    <3>3. calls'[t.call] = calls[t.call]
      <4>1. stale.call \in Nat
        BY <1>a DEF TypeOK
      <4> QED
        BY <1>4, <3>1, <3>2, <4>1 DEF Aside, CallIds
    <3>4. \A x \in tails' \ tails : x.call # t.call
      BY <1>4, <3>1 DEF Aside
    <3> QED
      BY <1>4, <1>a, <2>2, <3>3, <3>4, StaysAlone DEF Aside
  <2>3. CASE ~Rung(t)
    BY <2>3 DEF Alone
  <2> QED
    BY <2>1, <2>2, <2>3
<1>5. ASSUME NEW y \in tails, RunTail(y)
      PROVE  Alone(t, calls', tails', stale')
  <2> DEFINE rest == [y EXCEPT !.emits = Tail(y.emits)]
  <2>1. /\ stale' = stale
        /\ \A c \in CallIds : c # y.call => calls'[c] = calls[c]
        /\ y.emits # <<>> => calls' = calls
        /\ \A x \in tails' : x \in tails \ {y} \/ (y.emits # <<>> /\ x = rest)
    BY <1>5, <1>a, RunTailShape
  <2>2. y \in Tails /\ rest.call = y.call
    BY <1>a DEF Tails
  <2>3. CASE t \in tails \ {y} /\ Rung(t)
    <3>1. t.call # y.call
      BY <1>a, <2>3 DEF Alone
    <3>2. calls'[t.call] = calls[t.call]
      BY <1>a, <2>1, <2>3, <3>1
    <3>3. \A x \in tails' \ tails : x.call # t.call
      BY <2>1, <2>2, <3>1
    <3> QED
      BY <1>a, <2>1, <2>3, <3>2, <3>3, StaysAlone
  <2>4. CASE y.emits # <<>> /\ t = rest /\ Rung(t)
    <3>1. \A i \in DOMAIN rest.emits : i + 1 \in DOMAIN y.emits /\ rest.emits[i] = y.emits[i + 1]
      BY <2>2, <2>4 DEF Tails
    <3>2. Rung(y)
      BY <2>4, <3>1 DEF Rung
    <3>3. \A i \in DOMAIN t.emits : t.emits[i].to \in Parties(calls[y.call])
      BY <1>a, <2>4, <3>1, <3>2 DEF Alone
    <3>4. \A x \in tails' : x.call = t.call => x = t
      BY <1>a, <2>1, <2>2, <2>4, <3>2 DEF Alone
    <3> HIDE DEF rest
    <3> QED
      BY <1>a, <2>1, <2>2, <2>4, <3>2, <3>3, <3>4 DEF Alone
  <2>5. CASE ~Rung(t)
    BY <2>5 DEF Alone
  <2> HIDE DEF rest
  <2> QED
    BY <2>1, <2>3, <2>4, <2>5
<1>6. CASE Expire
  BY <1>6 DEF Expire
<1>7. CASE Restart
  BY <1>7 DEF Restart
<1> QED
  BY <1>1, <1>2, <1>3, <1>4, <1>5, <1>6, <1>7, StepShape

\* A signal of an unanswered call finds the call's entry.
LEMMA PeerStep ==
    ASSUME PeerInvariant, [Next]_vars
    PROVE  RingingSignalsNamePeer'
<1> USE DEF PeerInvariant
<1>1. CASE sent' = sent
  BY <1>1 DEF RingingSignalsNamePeer
<1>2. ASSUME NEW t \in tails, RunTail(t)
      PROVE  RingingSignalsNamePeer'
  <2>1. CASE t.emits = <<>>
    BY <1>1, <1>2, <2>1 DEF RunTail
  <2>2. CASE t.emits # <<>>
    <3> DEFINE e == t.emits[1]
               peer == IF e.peer = Nobody THEN PeerOf(calls[t.call], e.to) ELSE e.peer
    <3>1. sent' = sent \cup {[to |-> e.to, call |-> t.call, type |-> e.type, peer |-> peer]}
      BY <1>2, <2>2 DEF RunTail
    <3>2. t.emits \in Seq(Emits) /\ e \in Emits /\ 1 \in DOMAIN t.emits /\ t.call \in CallIds
      BY <2>2 DEF CallInvariant, TypeOK, Tails
    <3>3. ASSUME e.type \notin {"call_accept", "call_end"}
          PROVE  peer \in Users
      <4>1. Rung(t)
        BY <3>2, <3>3 DEF Rung, RingTypes, Emits, SignalTypes, Terminal
      <4>2. calls[t.call].state # "absent" /\ e.to \in Parties(calls[t.call])
        BY <3>2, <4>1 DEF Pending
      <4>3. calls[t.call].caller \in Users /\ calls[t.call].callee \in Users
        BY <3>2, <4>2, EntryParties DEF CallInvariant, TypeOK
      <4> QED
        BY <3>2, <4>2, <4>3 DEF PeerOf, OtherParty, Emits
    <3> HIDE DEF e, peer
    <3> QED
      BY <3>1, <3>3 DEF RingingSignalsNamePeer
  <2> QED
    BY <2>1, <2>2
<1> QED
  BY <1>1, <1>2, StepShape DEF StartCall, Accepting, Ending, Aside, Expire, Restart

\* All of it holds of a server just started and is kept by every step.
LEMMA PeerInvariantHolds == Spec => []PeerInvariant
<1>1. Init => PeerInvariant
  BY CallInvariantInit
     DEF Init, PeerInvariant, NoRoomYet, NoRoom, NoEntry, NoLink, NoToken, NoView, NoCall,
         NoTarget, NoRefresh, CallIds, Numbered, RingingHeld, Forgotten, Pending,
         RingingSignalsNamePeer
<1>2. ASSUME PeerInvariant, [Next]_vars
      PROVE  PeerInvariant'
  <2>1. CallInvariant'
    BY <1>2, CallInvariantStep DEF PeerInvariant
  <2>2. NoRoomYet'
    BY <1>2, StepNoRoom DEF PeerInvariant
  <2> QED
    BY <1>2, <2>1, <2>2, NumberedStep, RingingHeldStep, ForgottenStep, PendingStep, PeerStep
       DEF PeerInvariant
<1> QED
  BY <1>1, <1>2, PTL DEF Spec

\* The users of a call are told of one outcome; and a signal of a call that was
\* never active, the invitation as well as the end, names whom it was with, in
\* whatever order handlers, timers, webhooks, refreshes and restarts come.
THEOREM OutcomesTold == Spec => []OutcomesAreTold
<1>1. OneOutcome /\ PeerInvariant => OutcomesAreTold
  BY DEF OutcomesAreTold, PeerInvariant
<1> QED
  BY <1>1, OneOutcomeTold, PeerInvariantHolds, PTL

-----------------------------------------------------------------------------
(* What a step does to one call *)

\* The participants that a webhook of call c reports.
ReportedBy(h) ==
    [calls[h.call].participants EXCEPT ![h.user] = IF h.event = "joined" THEN h.gen ELSE 0]

\* The call as the transition table leaves it after webhook h.
AfterHook(h) ==
    Transition(calls[h.call], h.call, ReportedBy(h),
               IF h.event = "joined" THEN Nobody ELSE h.user, ValidTargets).next

\* The call as the transition table leaves it after Refresh.
AfterRefresh(c) ==
    Transition(refresh.calls[c], c, refresh.observed[c], Nobody, refresh.targets).next

\* What may become of call c in one step.
Becomes(c) ==
    \/ calls'[c] = calls[c]
    \/ c > dialled /\ calls'[c].participants = Empty
    \/ calls[c].state = "ringing" /\ calls'[c].participants = calls[c].participants
    \/ /\ \E u \in Users : HangUpCall(c, u)
       /\ calls'[c].participants = calls[c].participants
    \/ calls[c].state = "ended" /\ calls'[c] = NoCall
    \/ \E h \in hooks : /\ DeliverWebhook(h) /\ h.call = c /\ h.event = "finished"
                       /\ calls'[c] = NoCall
    \/ /\ calls[c].state # "absent"
       /\ \E h \in hooks :
             /\ DeliverWebhook(h) /\ h.call = c /\ h.user \in Users
             /\ \/ h.event = "joined"
                \/ h.event = "left" /\ calls[c].participants[h.user] \in {0, h.gen}
             /\ calls'[c] = AfterHook(h)
    \/ RefreshApply /\ ~refresh.revised
    \/ Restart /\ calls'[c] = NoCall

\* What a webhook may do to call c.
LEMMA WebhookBecomes ==
    ASSUME CallInvariant, NEW c \in CallIds, NEW h \in hooks, DeliverWebhook(h)
    PROVE  Becomes(c)
<1>a. TypeOK
  BY DEF CallInvariant
<1>1. h \in Hooks /\ h.call \in CallIds
  BY <1>a DEF TypeOK, Hooks
<1>2. ASSUME NEW observed, NEW left, Observe(h.call, observed, left)
      PROVE  calls'[c] = IF c = h.call
                         THEN Transition(calls[c], c, observed, left, ValidTargets).next
                         ELSE calls[c]
  <2> DEFINE T == Transition(calls[h.call], h.call, observed, left, ValidTargets)
  <2>1. calls' = [calls EXCEPT ![h.call] = T.next]
    BY <1>2 DEF Observe
  <2> HIDE DEF T
  <2>2. calls'[c] = IF c = h.call THEN T.next ELSE calls[c]
    BY <1>a, <2>1 DEF TypeOK
  <2> QED
    BY <2>2 DEF T
<1>3. CASE h.event = "joined"
  <2>1. Joined(h) /\ h.user \in Users
    BY <1>1, <1>3 DEF DeliverWebhook, Hooks
  <2>2. CASE UNCHANGED calls
    BY <2>2 DEF Becomes
  <2>3. CASE calls[h.call].state # "absent" /\ Observe(h.call, ReportedBy(h), Nobody)
    BY <1>2, <1>3, <2>1, <2>3 DEF Becomes, AfterHook
  <2> QED
    BY <1>3, <2>1, <2>2, <2>3 DEF Joined, ReportedBy
<1>4. CASE h.event = "left"
  <2>1. Left(h) /\ h.user \in Users
    BY <1>1, <1>4 DEF DeliverWebhook, Hooks
  <2>2. CASE UNCHANGED calls
    BY <2>2 DEF Becomes
  <2>3. CASE /\ calls[h.call].state # "absent" /\ Observe(h.call, ReportedBy(h), h.user)
             /\ calls[h.call].participants[h.user] \in {0, h.gen}
    BY <1>2, <1>4, <2>1, <2>3 DEF Becomes, AfterHook
  <2> QED
    BY <1>4, <2>1, <2>2, <2>3 DEF Left, Ignore, ReportedBy
<1>5. CASE h.event = "finished"
  <2>1. Finished(h)
    BY <1>5 DEF DeliverWebhook
  <2>2. calls'[c] = calls[c] \/ (c = h.call /\ calls'[c] = NoCall)
    BY <1>a, <1>1, <2>1 DEF Finished, Ignore, TypeOK
  <2> QED
    BY <1>5, <2>2 DEF Becomes
<1> QED
  BY <1>1, <1>3, <1>4, <1>5 DEF Hooks

\* What any step may do to call c.
LEMMA StepBecomes ==
    ASSUME CallInvariant, [Next]_vars, NEW c \in CallIds
    PROVE  Becomes(c)
<1>a. TypeOK /\ calls[c] \in Calls
  BY DEF CallInvariant, TypeOK
<1>1. CASE UNCHANGED calls
  BY <1>1 DEF Becomes
<1>2. ASSUME NEW d \in CallIds, NEW reason, NEW emits, Finish(d, reason, emits)
      PROVE  IF c = d THEN calls'[c].participants = calls[c].participants
                      ELSE calls'[c] = calls[c]
  <2>1. calls' = [calls EXCEPT ![d] = [calls[d] EXCEPT !.state = "ended", !.reason = reason]]
    BY <1>a, <1>2 DEF Finish, TypeOK
  <2> QED
    BY <1>a, <2>1 DEF TypeOK, Calls, Entries, NoCall
<1>3. CASE Requests
  <2>1. ASSUME NEW u \in Users, NEW v \in Users, NEW f \in Facts, StartCall(u, v, f)
        PROVE  Becomes(c)
    <3> DEFINE reason == StartReason(v, f)
               new == [state |-> IF reason = "none" THEN "ringing" ELSE "ended",
                       caller |-> u, callee |-> v, reason |-> reason, participants |-> Empty]
    <3>1. PICK entry : /\ calls' = [calls EXCEPT ![dialled + 1] = entry]
                       /\ entry.participants = Empty
      <4>1. calls' = [calls EXCEPT ![dialled + 1] = new] /\ new.participants = Empty
        BY <2>1 DEF StartCall
      <4> HIDE DEF new
      <4> QED
        BY <4>1
    <3>2. dialled \in Nat
      BY <1>a DEF TypeOK
    <3>3. \/ c = dialled + 1 /\ calls'[c] = entry
          \/ calls'[c] = calls[c]
      BY <1>a, <3>1 DEF TypeOK
    <3> QED
      BY <3>1, <3>2, <3>3 DEF Becomes
  <2>2. ASSUME NEW d \in CallIds, NEW u \in Users, AcceptCall(d, u)
        PROVE  Becomes(c)
    <3>1. \/ c # d /\ calls'[c] = calls[c]
          \/ c = d /\ calls'[c].participants = calls[c].participants
      BY <1>a, <2>2 DEF AcceptCall, TypeOK, Calls, Entries, NoCall
    <3> QED
      BY <2>2, <3>1 DEF Becomes, AcceptCall
  <2>3. ASSUME NEW d \in CallIds, NEW u \in Users, RejectCall(d, u) \/ CancelCall(d, u)
        PROVE  Becomes(c)
    <3>1. PICK reason, emits : Finish(d, reason, emits)
      BY <2>3 DEF RejectCall, CancelCall, EndRinging
    <3>2. calls[d].state = "ringing"
      BY <2>3 DEF RejectCall, CancelCall, EndRinging
    <3> QED
      BY <1>2, <3>1, <3>2 DEF Becomes
  <2>4. ASSUME NEW d \in CallIds, NEW u \in Users, HangUpCall(d, u)
        PROVE  Becomes(c)
    <3>1. PICK reason, emits : Finish(d, reason, emits)
      BY <2>4 DEF HangUpCall
    <3>2. IF c = d THEN calls'[c].participants = calls[c].participants
                   ELSE calls'[c] = calls[c]
      BY <1>2, <3>1
    <3> QED
      BY <2>4, <3>2 DEF Becomes
  <2>5. ASSUME NEW d \in CallIds, NEW u \in Users, JoinCallCredentials(d, u)
        PROVE  Becomes(c)
    BY <1>1, <2>5 DEF JoinCallCredentials
  <2> QED
    BY <1>3, <2>1, <2>2, <2>3, <2>4, <2>5 DEF Requests, CallRequests
<1>4. CASE Server
  <2>1. ASSUME NEW d \in CallIds, TimeoutCall(d)
        PROVE  Becomes(c)
    <3>1. CASE TimedOut(d)
      <4>1. PICK reason, emits : Finish(d, reason, emits)
        BY <2>1, <3>1 DEF TimeoutCall
      <4> QED
        BY <1>2, <3>1, <4>1 DEF Becomes, TimedOut
    <3>2. CASE ~TimedOut(d)
      BY <1>1, <2>1, <3>2 DEF TimeoutCall
    <3> QED
      BY <3>1, <3>2
  <2>2. ASSUME NEW t \in tails, RunTail(t)
        PROVE  Becomes(c)
    <3>1. calls'[c] = calls[c] \/ (calls[c].state = "ended" /\ calls'[c] = NoCall)
      <4>1. t \in Tails /\ t.call \in CallIds
        BY <1>a DEF TypeOK, Tails
      <4>2. \/ UNCHANGED calls
            \/ Evictable(calls[t.call]) /\ calls' = [calls EXCEPT ![t.call] = NoCall]
        BY <2>2 DEF RunTail, state
      <4> QED
        BY <1>a, <4>1, <4>2 DEF TypeOK, Evictable
    <3> QED
      BY <3>1 DEF Becomes
  <2>3. CASE RefreshBegin \/ RefreshFail \/ \E d \in CallIds : RefreshRead(d)
    BY <1>1, <2>3 DEF RefreshBegin, RefreshFail, RefreshRead, state
  <2>4. CASE \E m \in mints : IssueToken(m) \/ TokenFails(m)
    BY <1>1, <2>4 DEF IssueToken, TokenFails
  <2>5. CASE \E k \in kicks : Kick(k)
    BY <1>1, <2>5 DEF Kick, state
  <2>6. CASE RefreshApply
    BY <1>1, <2>6 DEF RefreshApply, Becomes
  <2> QED
    BY <1>4, <2>1, <2>2, <2>3, <2>4, <2>5, <2>6, WebhookBecomes DEF Server
<1>5. CASE Environment
  <2>1. CASE Restart
    <3>1. calls'[c] = NoCall
      BY <2>1 DEF Restart
    <3> QED
      BY <2>1, <3>1 DEF Becomes
  <2>2. CASE ~Restart
    BY <1>1, <1>5, <2>2 DEF Environment, Connect, Disconnect, CloseRoom, LoseWebhook, Expire, state
  <2> QED
    BY <2>1, <2>2
<1>6. CASE UNCHANGED vars
  BY <1>1, <1>6 DEF vars
<1> QED
  BY <1>3, <1>4, <1>5, <1>6 DEF Next

-----------------------------------------------------------------------------
(* Admission.  The coordinator records whom the valid targets allow.  Refresh *)
(* decides by the targets of its snapshot: they are the valid ones, or were   *)
(* valid when it was taken and have expired since.                            *)

\* Whom the transition table records anew, its targets allow.
LEMMA TransitionAdmits ==
    ASSUME NEW call \in Calls, call.state # "absent", NEW c \in CallIds,
           NEW observed \in ParticipantSets, NEW left, NEW targets, NEW u \in Users,
           Transition(call, c, observed, left, targets).next.participants[u]
             \notin {0, call.participants[u]}
    PROVE  Allowed(targets[u], c, Transition(call, c, observed, left, targets).next.participants[u])
<1> DEFINE T == Transition(call, c, observed, left, targets)
           refused == {v \in Members(observed) : ~Allowed(targets[v], c, observed[v])}
           next == [v \in Users |-> IF v \in refused THEN call.participants[v] ELSE observed[v]]
           removed == Removed(call, observed)
           leavers == (removed \cup ({left} \ Members(observed))) \cap (Parties(call) \ {Nobody})
           ends == call.state = "active" /\ leavers # {}
           gone == Vanishes(IF ends THEN "ended" ELSE call.state, Members(next), removed, ends)
<1>1. T.next = IF gone THEN NoCall
               ELSE [call EXCEPT !.state = IF ends THEN "ended" ELSE call.state,
                                 !.reason = IF ends THEN "call_end" ELSE @,
                                 !.participants = next]
  BY Zenon DEF Transition
<1>2. call \in Entries
  BY EntryParties
<1> HIDE DEF gone, ends, next
<1>3. T.next.participants \in {Empty, next}
  BY <1>1, <1>2 DEF NoCall, Entries
<1>4. T.next.participants[u] = next[u] /\ next[u] \notin {0, call.participants[u]}
  BY <1>3 DEF Empty
<1>5. next[u] = observed[u] /\ u \notin refused
  BY <1>4 DEF next
<1>6. u \in Members(observed)
  BY <1>4, <1>5 DEF Members
<1>7. Allowed(targets[u], c, observed[u])
  BY <1>5, <1>6
<1> QED
  BY <1>4, <1>5, <1>7 DEF T

\* No token has a generation that was not issued; and what Refresh takes for a
\* user's target is that target unless it has expired.
TargetsCurrent ==
    /\ stale.gen <= generation
    /\ refresh.on /\ ~refresh.revised =>
          \A u \in Users : \/ refresh.targets[u] = callTargets[u]
                           \/ refresh.targets[u] = NoTarget /\ callTargets[u].gen <= stale.gen

\* Generations grow and what is stale stays stale.
LEMMA GenerationsGrow ==
    ASSUME TypeOK, stale.gen <= generation, [Next]_vars
    PROVE  /\ stale'.gen <= generation' /\ generation <= generation'
           /\ stale.gen <= stale'.gen
<1>1. generation \in Nat /\ stale.gen \in Nat
  BY DEF TypeOK
<1>2. CASE UNCHANGED <<stale, generation>>
  BY <1>1, <1>2
<1>3. CASE Requests
  <2>1. ASSUME NEW c \in CallIds, NEW u \in Users, JoinCallCredentials(c, u)
        PROVE  stale' = stale /\ generation' = generation + 1
    BY <2>1 DEF JoinCallCredentials
  <2>2. \/ UNCHANGED <<stale, generation>>
        \/ stale' = stale /\ generation' = generation + 1
    BY <1>3, <2>1 DEF Requests, CallRequests, StartCall, AcceptCall, RejectCall, CancelCall, EndRinging,
                      HangUpCall
  <2> QED
    BY <1>1, <1>2, <2>2
<1>4. CASE Server
  BY <1>2, <1>4 DEF Server, TimeoutCall, RefreshRead, RunTail, IssueToken, TokenFails, Kick,
                    DeliverWebhook, RefreshBegin, RefreshApply, RefreshFail, state
<1>5. CASE Environment
  <2>1. CASE Expire
    BY <1>1, <2>1 DEF Expire, state
  <2>2. CASE ~Expire
    BY <1>2, <1>5, <2>2 DEF Environment, Connect, Disconnect, CloseRoom, LoseWebhook, Restart,
                            state
  <2> QED
    BY <2>1, <2>2
<1>6. CASE UNCHANGED vars
  BY <1>2, <1>6 DEF vars
<1> QED
  BY <1>3, <1>4, <1>5, <1>6 DEF Next

\* No step puts the snapshot's targets out of step with the valid ones.
LEMMA TargetsStep ==
    ASSUME TypeOK, TargetsCurrent, [Next]_vars
    PROVE  TargetsCurrent'
<1>1. /\ stale'.gen <= generation' /\ stale.gen <= stale'.gen
      /\ stale.gen \in Nat /\ stale'.gen \in Nat
  <2>1. TypeOK'
    BY TypeStep
  <2> QED
    BY <2>1, GenerationsGrow DEF TargetsCurrent, TypeOK
<1>a. \A u \in Users : callTargets[u].gen \in Nat
  BY DEF TypeOK, Targets
<1>2. CASE UNCHANGED <<calls, callTargets, refresh>>
  BY <1>1, <1>2, <1>a DEF TargetsCurrent
<1>3. CASE Revise
  BY <1>1, <1>3 DEF Revise, Outdated, NoRefresh, TargetsCurrent
<1>4. CASE refresh' = NoRefresh
  BY <1>1, <1>4 DEF NoRefresh, TargetsCurrent
<1>5. CASE RefreshBegin
  BY <1>1, <1>5, <1>a DEF RefreshBegin, ValidTargets, TargetsCurrent, state
<1>6. ASSUME NEW c \in CallIds, RefreshRead(c)
      PROVE  TargetsCurrent'
  <2>1. /\ refresh'.on = refresh.on /\ refresh'.revised = refresh.revised
        /\ refresh'.targets = refresh.targets
        /\ UNCHANGED <<callTargets, stale>>
    BY <1>6 DEF RefreshRead, TypeOK, Refreshes, state
  <2> QED
    BY <1>1, <2>1 DEF TargetsCurrent
<1> QED
  BY <1>2, <1>3, <1>4, <1>5, <1>6, ChangesRevise

\* What the snapshot's target of a user allows, the user's valid target allows.
LEMMA SnapshotAllows ==
    ASSUME TypeOK, TargetsCurrent, refresh.on, ~refresh.revised,
           NEW u \in Users, NEW c \in CallIds, NEW g, Allowed(refresh.targets[u], c, g)
    PROVE  Allowed(ValidTargets[u], c, g)
<1>1. callTargets[u].gen \in Nat /\ stale.gen \in Nat
  BY DEF TypeOK, Targets
<1>2. CASE callTargets[u].gen > stale.gen
  BY <1>1, <1>2 DEF TargetsCurrent, ValidTargets
<1>3. CASE ~(callTargets[u].gen > stale.gen)
  BY <1>3 DEF ValidTargets, Allowed
<1> QED
  BY <1>2, <1>3

\* A step admits only whom the valid targets allow.
LEMMA StepAdmits ==
    ASSUME CallInvariant, TargetsCurrent, [Next]_vars, NEW c \in CallIds, NEW u \in Users,
           calls'[c].participants[u] \notin {0, calls[c].participants[u]}
    PROVE  Allowed(ValidTargets[u], c, calls'[c].participants[u])
<1>a. TypeOK /\ calls[c] \in Calls
  BY DEF CallInvariant, TypeOK
<1>1. calls'[c].participants # calls[c].participants /\ calls'[c].participants # Empty
  BY DEF Empty
<1>2. \/ /\ calls[c].state # "absent"
         /\ \E h \in hooks : /\ h.call = c /\ h.user \in Users
                             /\ h.event \in {"joined", "left"}
                             /\ calls'[c] = AfterHook(h)
      \/ RefreshApply /\ ~refresh.revised
  BY <1>1, StepBecomes DEF Becomes, NoCall
<1>3. ASSUME calls[c].state # "absent", NEW h \in hooks, h.call = c, calls'[c] = AfterHook(h),
             h.user \in Users, h.event \in {"joined", "left"}
      PROVE  Allowed(ValidTargets[u], c, calls'[c].participants[u])
  <2>1. h.gen \in Nat
    BY <1>a DEF TypeOK, Hooks
  <2>2. ReportedBy(h) \in ParticipantSets
    BY <1>a, <1>3, <2>1, CallFields DEF ReportedBy, ParticipantSets
  <2> QED
    BY <1>a, <1>3, <2>2, TransitionAdmits DEF AfterHook
<1>4. CASE RefreshApply /\ ~refresh.revised
  <2>1. refresh.on /\ refresh.observed[c] \in ParticipantSets /\ refresh.calls[c] \in Calls
    BY <1>a, <1>4 DEF RefreshApply, TypeOK, Refreshes
  <2>2. calls'[c] = IF refresh.calls[c].state # "absent" THEN AfterRefresh(c) ELSE NoCall
    BY <1>4 DEF RefreshApply, AfterRefresh
  <2>3. refresh.calls[c].state # "absent" /\ calls'[c] = AfterRefresh(c)
    BY <1>1, <2>2 DEF NoCall
  <2>4. refresh.calls[c] = calls[c]
    BY <1>4, <2>1, <2>3 DEF CallInvariant, SnapshotCurrent, NoCall
  <2>5. Allowed(refresh.targets[u], c, calls'[c].participants[u])
    BY <2>1, <2>3, <2>4, TransitionAdmits DEF AfterRefresh
  <2> QED
    BY <1>a, <1>4, <2>1, <2>5, SnapshotAllows
<1> QED
  BY <1>2, <1>3, <1>4

\* Only a token that the user's valid target still accepts gets its holder
\* recorded, by a webhook or by a Refresh that looked at the room some time ago,
\* also when the target expired, was replaced or was taken back meanwhile.
THEOREM CurrentTokensAdmitted == Spec => OnlyCurrentTokensAdmitted
<1>1. Init => TargetsCurrent
  BY DEF Init, TargetsCurrent, NoRefresh
<1>2. CallInvariant /\ TargetsCurrent /\ [Next]_vars => TargetsCurrent'
  BY TargetsStep DEF CallInvariant
<1>3. CallInvariant /\ TargetsCurrent /\ [Next]_vars =>
        \A c \in CallIds, u \in Users :
           LET g == calls'[c].participants[u]
           IN  g \notin {0, calls[c].participants[u]} => Allowed(ValidTargets[u], c, g)
  BY StepAdmits
<1> QED
  BY <1>1, <1>2, <1>3, CallInvariantInit, CallInvariantStep, PTL
     DEF Spec, OnlyCurrentTokensAdmitted

-----------------------------------------------------------------------------
(* Departures.  What the transition table ends, somebody has left: whom the *)
(* call records and the observation misses, or whom the webhook names.      *)

\* Who is missed or named when the table ends an active call.
LEMMA TransitionEnds ==
    ASSUME NEW call \in Calls, call.state = "active", NEW c \in CallIds,
           NEW observed \in ParticipantSets, NEW left, NEW targets,
           Transition(call, c, observed, left, targets).next.state # "active"
    PROVE  \E u \in Users : \/ call.participants[u] # 0 /\ observed[u] = 0
                            \/ u = left
<1> DEFINE T == Transition(call, c, observed, left, targets)
           refused == {v \in Members(observed) : ~Allowed(targets[v], c, observed[v])}
           next == [v \in Users |-> IF v \in refused THEN call.participants[v] ELSE observed[v]]
           removed == Removed(call, observed)
           leavers == (removed \cup ({left} \ Members(observed))) \cap (Parties(call) \ {Nobody})
           ends == call.state = "active" /\ leavers # {}
           stateNext == IF ends THEN "ended" ELSE call.state
           gone == Vanishes(stateNext, Members(next), removed, ends)
<1>1. T.next = IF gone THEN NoCall
               ELSE [call EXCEPT !.state = IF ends THEN "ended" ELSE call.state,
                                 !.reason = IF ends THEN "call_end" ELSE @,
                                 !.participants = next]
  BY Zenon DEF Transition
<1>2. call \in Entries
  BY EntryParties
<1>3. ASSUME ~ends
      PROVE  FALSE
  <2>1. ~gone
    BY <1>3 DEF Vanishes
  <2> HIDE DEF gone, ends, next
  <2>2. T.next.state = call.state
    BY <1>1, <1>2, <1>3, <2>1 DEF Entries
  <2> QED
    BY <2>2 DEF T
<1>4. PICK u \in Users : u \in removed \/ u = left
  BY <1>2, <1>3 DEF Parties, Entries
<1>5. u \in removed => call.participants[u] # 0 /\ observed[u] = 0
  BY DEF Removed, Members
<1> QED
  BY <1>4, <1>5

\* Connections, and the webhooks and tokens that come before and after them,
\* carry generations that were issued: never 0, which stands for an absence.
GenerationsIssued ==
    /\ \A t \in tokens \cup mints : t.gen # 0
    /\ \A h \in hooks : h.event # "finished" => h.gen # 0

\* No step makes up a generation.
LEMMA GenerationsStep ==
    ASSUME TypeOK, GenerationsIssued, [Next]_vars
    PROVE  GenerationsIssued'
<1>1. CASE UNCHANGED <<tokens, mints, hooks>>
  BY <1>1 DEF GenerationsIssued
<1>2. CASE Requests
  <2>1. ASSUME NEW c \in CallIds, NEW u \in Users, JoinCallCredentials(c, u)
        PROVE  GenerationsIssued'
    <3>1. generation \in Nat /\ generation' = generation + 1
      BY <2>1 DEF JoinCallCredentials, TypeOK
    <3>2. \A m \in mints' \ mints : m.gen = generation'
      BY <2>1 DEF JoinCallCredentials
    <3>3. UNCHANGED <<tokens, hooks>>
      BY <2>1 DEF JoinCallCredentials, livekit
    <3> QED
      BY <3>1, <3>2, <3>3 DEF GenerationsIssued
  <2> QED
    BY <1>1, <1>2, <2>1 DEF Requests, CallRequests, StartCall, AcceptCall, RejectCall, CancelCall, EndRinging,
                            HangUpCall, livekit
<1>3. CASE Server
  <2>1. ASSUME NEW m \in mints, IssueToken(m) \/ TokenFails(m)
        PROVE  GenerationsIssued'
    BY <2>1 DEF IssueToken, TokenFails, GenerationsIssued, livekit
  <2>2. ASSUME NEW k \in kicks, Kick(k)
        PROVE  GenerationsIssued'
    <3>1. UNCHANGED <<tokens, mints>>
      BY <2>2 DEF Kick, state
    <3>2. \A h \in hooks' \ hooks : h.gen # 0
      BY <2>2 DEF Kick, Hook
    <3> QED
      BY <3>1, <3>2 DEF GenerationsIssued
  <2>3. ASSUME NEW h \in hooks, DeliverWebhook(h)
        PROVE  GenerationsIssued'
    BY <2>3 DEF DeliverWebhook, GenerationsIssued
  <2> QED
    BY <1>1, <1>3, <2>1, <2>2, <2>3
       DEF Server, TimeoutCall, RefreshRead, RunTail, RefreshBegin, RefreshApply, RefreshFail,
           state, livekit
<1>4. CASE Environment
  <2>1. ASSUME NEW t \in tokens, Connect(t)
        PROVE  GenerationsIssued'
    <3>1. mints' = mints /\ tokens' \subseteq tokens
      BY <2>1 DEF Connect, state
    <3>2. \A h \in hooks' \ hooks : h.gen = t.gen \/ h.gen # 0
      BY <2>1 DEF Connect, Hook
    <3> QED
      BY <3>1, <3>2 DEF GenerationsIssued
  <2>2. ASSUME NEW c \in CallIds, NEW u \in Users, Disconnect(c, u)
        PROVE  GenerationsIssued'
    <3>1. UNCHANGED <<tokens, mints>> /\ \A h \in hooks' \ hooks : h.gen # 0
      BY <2>2 DEF Disconnect, Hook, state
    <3> QED
      BY <3>1 DEF GenerationsIssued
  <2>3. ASSUME NEW c \in CallIds, CloseRoom(c)
        PROVE  GenerationsIssued'
    BY <2>3 DEF CloseRoom, Hook, state, GenerationsIssued
  <2>4. ASSUME NEW h \in hooks, LoseWebhook(h)
        PROVE  GenerationsIssued'
    BY <2>4 DEF LoseWebhook, state, GenerationsIssued
  <2>5. CASE Expire \/ Restart
    BY <2>5 DEF Expire, Restart, state, livekit, GenerationsIssued
  <2> QED
    BY <1>4, <2>1, <2>2, <2>3, <2>4, <2>5 DEF Environment
<1>5. CASE UNCHANGED vars
  BY <1>1, <1>5 DEF vars
<1> QED
  BY <1>2, <1>3, <1>4, <1>5 DEF Next

\* Refresh leaves out of what it writes back no call that is not over.
SnapshotWhole ==
    refresh.on /\ ~refresh.revised =>
        \A c \in CallIds : refresh.calls[c] = calls[c] \/ calls[c].state = "ended"

\* No step takes a call that is not over out of the snapshot.
LEMMA SnapshotWholeStep ==
    ASSUME TypeOK, SnapshotWhole, [Next]_vars
    PROVE  SnapshotWhole'
<1>1. CASE UNCHANGED <<calls, callTargets, refresh>>
  BY <1>1 DEF SnapshotWhole
<1>2. CASE Revise
  BY <1>2 DEF Revise, Outdated, NoRefresh, SnapshotWhole
<1>3. CASE refresh' = NoRefresh
  BY <1>3 DEF NoRefresh, SnapshotWhole
<1>4. CASE RefreshBegin
  BY <1>4 DEF RefreshBegin, SnapshotWhole, state
<1>5. ASSUME NEW c \in CallIds, RefreshRead(c)
      PROVE  SnapshotWhole'
  <2>1. /\ refresh'.on = refresh.on /\ refresh'.revised = refresh.revised
        /\ refresh'.calls = refresh.calls /\ calls' = calls
    BY <1>5 DEF RefreshRead, TypeOK, Refreshes, state
  <2> QED
    BY <2>1 DEF SnapshotWhole
<1> QED
  BY <1>1, <1>2, <1>3, <1>4, <1>5, ChangesRevise

\* Hanging up leaves the eviction to do: no handler holds the end of a call that
\* is still active, so the one that ends it leaves a new tail.
LEMMA HangUpDefers ==
    ASSUME CallInvariant, ToldOnce, NEW c \in CallIds, NEW u \in Users, HangUpCall(c, u)
    PROVE  \E t \in tails' \ tails : t.call = c /\ t.evict
<1> DEFINE message == Emit(OtherParty(calls[c], u), "call_end")
           t == [call |-> c, emits |-> <<message>>, evict |-> TRUE]
<1>1. tails' = tails \cup {t}
  BY DEF HangUpCall, Finish, Defer
<1>2. Holds(t, c, "call_end")
  BY DEF Holds, Emit
<1>3. Outcomes(tails, sent, c) = {}
  BY DEF HangUpCall, ToldOnce, IsOpen, IsLive
<1>4. t \notin tails
  BY <1>2, <1>3 DEF Outcomes, Terminal
<1> QED
  BY <1>1, <1>4

\* The inductive invariant: what a hang-up leaves to do is new, webhooks carry real
\* generations, and Refresh has the active calls as they are.
DepartureInvariant ==
    CallInvariant /\ ToldOnce /\ GenerationsIssued /\ SnapshotWhole

\* A step ends an active call by a request, a departure or a restart.
LEMMA StepDisconnects ==
    ASSUME DepartureInvariant, [Next]_vars, NEW c \in CallIds,
           calls[c].state = "active", calls'[c].state # "active"
    PROVE  \/ \E t \in tails' \ tails : t.call = c /\ t.evict
           \/ DepartureSeen(c)
           \/ Restart
<1>a. /\ CallInvariant /\ ToldOnce /\ GenerationsIssued /\ SnapshotWhole
      /\ TypeOK /\ calls[c] \in Calls
  BY DEF DepartureInvariant, CallInvariant, TypeOK
<1>b. ~(c > dialled)
  BY <1>a DEF CallInvariant, UndialledAbsent, NoCall
<1>1. \/ \E u \in Users : HangUpCall(c, u)
      \/ \E h \in hooks : DeliverWebhook(h) /\ h.call = c /\ h.event = "finished"
      \/ \E h \in hooks :
             /\ DeliverWebhook(h) /\ h.call = c /\ h.user \in Users
             /\ \/ h.event = "joined"
                \/ h.event = "left" /\ calls[c].participants[h.user] \in {0, h.gen}
             /\ calls'[c] = AfterHook(h)
      \/ RefreshApply /\ ~refresh.revised
      \/ Restart
  BY <1>a, <1>b, StepBecomes DEF Becomes
<1>2. CASE \E u \in Users : HangUpCall(c, u)
  BY <1>2, <1>a, HangUpDefers
<1>3. CASE \E h \in hooks : DeliverWebhook(h) /\ h.call = c /\ h.event = "finished"
  BY <1>3 DEF DepartureSeen, DeliverWebhook
<1>4. CASE \E h \in hooks :
             /\ DeliverWebhook(h) /\ h.call = c /\ h.user \in Users
             /\ \/ h.event = "joined"
                \/ h.event = "left" /\ calls[c].participants[h.user] \in {0, h.gen}
             /\ calls'[c] = AfterHook(h)
  <2>0. PICK h \in hooks :
             /\ DeliverWebhook(h) /\ h.call = c /\ h.user \in Users
             /\ \/ h.event = "joined"
                \/ h.event = "left" /\ calls[c].participants[h.user] \in {0, h.gen}
             /\ calls'[c] = AfterHook(h)
    BY <1>4
  <2>1. h.gen \in Nat
    BY <1>a DEF TypeOK, Hooks
  <2>2. ReportedBy(h) \in ParticipantSets /\ calls[c].participants \in ParticipantSets
    BY <1>a, <2>0, <2>1, CallFields DEF ReportedBy, ParticipantSets
  <2>3. CASE h.event = "left"
    BY <2>0, <2>3 DEF DepartureSeen, DeliverWebhook
  <2>4. CASE h.event = "joined"
    <3>1. PICK u \in Users : \/ calls[c].participants[u] # 0 /\ ReportedBy(h)[u] = 0
                             \/ u = Nobody
      BY <1>a, <2>0, <2>2, <2>4, TransitionEnds DEF AfterHook
    <3>2. u # Nobody
      OBVIOUS
    <3>3. ReportedBy(h)[u] \in {h.gen, calls[c].participants[u]}
      BY <2>0, <2>2, <2>4 DEF ReportedBy, ParticipantSets
    <3>4. h.gen # 0
      BY <1>a, <2>4 DEF GenerationsIssued
    <3> QED
      BY <3>1, <3>2, <3>3, <3>4
  <2> QED
    BY <2>0, <2>3, <2>4
<1>5. CASE RefreshApply /\ ~refresh.revised
  <2>1. /\ refresh.on /\ refresh' = NoRefresh
        /\ refresh.observed[c] \in ParticipantSets /\ refresh.calls[c] \in Calls
    BY <1>a, <1>5 DEF RefreshApply, TypeOK, Refreshes
  <2>2. refresh.calls[c] = calls[c]
    BY <1>a, <1>5, <2>1 DEF SnapshotWhole
  <2>3. calls'[c] = AfterRefresh(c)
    BY <1>5, <2>2 DEF RefreshApply, AfterRefresh
  <2>4. PICK u \in Users : \/ calls[c].participants[u] # 0 /\ refresh.observed[c][u] = 0
                           \/ u = Nobody
    BY <1>a, <2>1, <2>2, <2>3, TransitionEnds DEF AfterRefresh
  <2> QED
    BY <1>5, <2>1, <2>4 DEF DepartureSeen
<1> QED
  BY <1>1, <1>2, <1>3, <1>4, <1>5

\* Only a departure, a request or a restart ends an active call: a party that has
\* not reached the room yet, the late webhook of a connection that a recorded one
\* has replaced, and a Refresh overtaken by a change do not.  The departure is of
\* the connection the call records, or of any while it records none.
THEOREM DeparturesDisconnect == Spec => OnlyDeparturesDisconnect
<1>1. Init => DepartureInvariant
  BY CallInvariantInit, ToldOnceInit
     DEF Init, DepartureInvariant, GenerationsIssued, SnapshotWhole, NoRefresh
<1>2. ASSUME DepartureInvariant, [Next]_vars
      PROVE  DepartureInvariant'
  BY <1>2, CallInvariantStep, ToldOnceStep, GenerationsStep, SnapshotWholeStep
     DEF DepartureInvariant, CallInvariant
<1>3. DepartureInvariant /\ [Next]_vars =>
        \A c \in CallIds :
          calls[c].state = "active" /\ calls'[c].state # "active" =>
              \/ \E t \in tails' \ tails : t.call = c /\ t.evict
              \/ DepartureSeen(c)
              \/ Restart
  BY StepDisconnects
<1> QED
  BY <1>1, <1>2, <1>3, PTL DEF Spec, OnlyDeparturesDisconnect
=============================================================================
