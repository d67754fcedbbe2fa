-------------------------- MODULE VoiceRooms_proofs ---------------------------
(***************************************************************************)
(* Proofs about VoiceRooms, for any number of accounts, channels, tokens    *)
(* and incidents.                                                           *)
(***************************************************************************)
EXTENDS VoiceRooms, TLAPS

USE VoiceAssumption

-----------------------------------------------------------------------------
(* Type correctness *)

\* Nobody is somewhere in an empty room.
LEMMA VacantType == Empty \in Occupancy /\ Vacant \in [Channels -> Occupancy]
BY DEF Empty, Vacant, Occupancy

\* The idle reconciler is a reconciler.
LEMMA IdleType == Idle \in Reconciliations
BY VacantType DEF Idle, Reconciliations, Targets, NoTarget

\* The initial state, a server just started, is well typed.
LEMMA TypeInit == Init => TypeOK
BY VacantType, IdleType DEF Init, TypeOK, Targets, NoTarget

\* Outdating a running Refresh keeps it well typed.
LEMMA ReviseType ==
    ASSUME reconcile \in Reconciliations, Revise
    PROVE  reconcile' \in Reconciliations
<1>1. reconcile.valid \in SUBSET Channels
  BY DEF Reconciliations
<1>2. [Idle EXCEPT !.at = "reading", !.revised = TRUE, !.valid = reconcile.valid] \in Reconciliations
  BY <1>1, IdleType DEF Reconciliations
<1> QED
  BY <1>2 DEF Revise, Outdated

\* A target without its channel is a target.
LEMMA RevokedType ==
    ASSUME NEW t \in Targets, stale \in Nat
    PROVE  Revoked(t) \in Targets
BY DEF Revoked, Targets, NoTarget, Valid

\* Forgetting a connection keeps a record of occupancies.
LEMMA ForgetType ==
    ASSUME NEW r \in [Channels -> Occupancy], NEW ch \in Channels, NEW u \in Users
    PROVE  [r EXCEPT ![ch][u] = 0] \in [Channels -> Occupancy]
BY DEF Occupancy

\* Removing an account from voice keeps the types of what it touches.
LEMMA RemoveParticipantType ==
    ASSUME TypeOK, NEW u \in Users, RemoveParticipant(u)
    PROVE  /\ targets' \in [Users -> Targets]
           /\ rooms' \in [Channels -> Occupancy]
           /\ kicks' \subseteq Kicks
           /\ reconcile' \in Reconciliations
<1>1. targets[u] \in Targets /\ stale \in Nat
  BY DEF TypeOK
<1>2. Revoked(targets[u]) \in Targets
  BY <1>1, RevokedType
<1>3. targets' \in [Users -> Targets]
  BY <1>2 DEF RemoveParticipant, TypeOK
<1>4. rooms' \in [Channels -> Occupancy]
  BY DEF RemoveParticipant, TypeOK, Occupancy
<1>5. CASE targets[u].channel # None
  <2>1. targets[u].channel \in Channels
    BY <1>1, <1>5 DEF Targets, NoTarget
  <2>2. kicks' \subseteq Kicks
    BY <1>5, <2>1 DEF RemoveParticipant, Kick, Kicks, TypeOK
  <2>3. Revise
    BY <1>5 DEF RemoveParticipant
  <2> QED
    BY <1>3, <1>4, <2>2, <2>3, ReviseType DEF TypeOK
<1>6. CASE ~(targets[u].channel # None)
  BY <1>3, <1>4, <1>6 DEF RemoveParticipant, TypeOK
<1> QED
  BY <1>5, <1>6

\* So does deleting the rooms of some channels.
LEMMA DeleteGuildRoomsType ==
    ASSUME TypeOK, NEW chs \in SUBSET Channels, DeleteGuildRooms(chs)
    PROVE  /\ targets' \in [Users -> Targets]
           /\ rooms' \in [Channels -> Occupancy]
           /\ closing' \subseteq Channels
<1>1. ASSUME NEW u \in Users, targets[u].channel \in chs
      PROVE  [targets[u] EXCEPT !.channel = None] \in Targets
  BY <1>1 DEF TypeOK, Targets, NoTarget
<1> QED
  BY <1>1, VacantType DEF DeleteGuildRooms, TypeOK

\* So does ending the connections of some users to a room.
LEMMA DropType ==
    ASSUME TypeOK, NEW ch \in Channels, NEW us \in SUBSET Users, Drop(ch, us)
    PROVE  conn' \in [Channels -> Occupancy] /\ hooks' \subseteq Hooks
<1>1. conn[ch] \in Occupancy
  BY DEF TypeOK
<1>2. [u \in Users |-> IF u \in us THEN 0 ELSE conn[ch][u]] \in Occupancy
  BY <1>1 DEF Occupancy
<1>3. conn' \in [Channels -> Occupancy]
  BY <1>2 DEF Drop, TypeOK
<1>4. \A u \in us : conn[ch][u] # 0 => Hook("left", ch, u, conn[ch][u]) \in Hooks
  BY <1>1 DEF Hook, Hooks, Occupancy
<1>5. hooks' \subseteq Hooks
  BY <1>4 DEF Drop, TypeOK
<1> QED
  BY <1>3, <1>5

\* What Refresh takes for the target of an account is a target.
LEMMA RetargetedType ==
    ASSUME TypeOK, NEW u \in Users
    PROVE  Retargeted(u) \in Targets
<1> DEFINE kept == IF Valid(reconcile.targets[u]) THEN reconcile.targets[u] ELSE NoTarget
           newer == {ch \in Newest(u) : reconcile.observed[ch][u] > kept.gen}
<1>1. reconcile.targets[u] \in Targets /\ reconcile.observed \in [Channels -> Occupancy]
  BY DEF TypeOK, Reconciliations
<1>2. kept \in Targets
  BY <1>1 DEF Targets
<1>3. CASE newer = {}
  BY <1>2, <1>3 DEF Retargeted
<1>4. CASE newer # {}
  <2>1. PICK ch \in newer : TRUE
    BY <1>4
  <2>2. ch \in Channels /\ reconcile.observed[ch][u] # 0
    BY <2>1 DEF Newest, Admissible, Observed
  <2>3. [channel |-> ch, gen |-> reconcile.observed[ch][u]] \in Targets
    BY <1>1, <2>2 DEF Occupancy, Targets
  <2>4. \E t \in Targets : \E d \in newer : t = [channel |-> d, gen |-> reconcile.observed[d][u]]
    BY <2>1, <2>3
  <2> HIDE DEF newer, kept
  <2>5. (CHOOSE t \in Targets : \E d \in newer : t = [channel |-> d, gen |-> reconcile.observed[d][u]])
          \in Targets
    BY <2>4
  <2>6. Retargeted(u) = CHOOSE t \in Targets :
                          \E d \in newer : t = [channel |-> d, gen |-> reconcile.observed[d][u]]
    BY <1>4 DEF Retargeted, newer, kept
  <2> QED
    BY <2>5, <2>6
<1> QED
  BY <1>3, <1>4

\* Every handler keeps the types.
LEMMA HandlersType ==
    ASSUME TypeOK, Handlers
    PROVE  TypeOK'
<1>1. ASSUME NEW u \in Users, NEW ch \in Channels, JoinCredentials(u, ch)
      PROVE  TypeOK'
  <2>1. generation' \in 1..MaxGen /\ stale \in 0..generation' /\ generation' \in 0..MaxGen
    BY <1>1 DEF JoinCredentials, TypeOK
  <2>2. targets[u] \in Targets /\ [channel |-> ch, gen |-> generation'] \in Targets
    BY <2>1 DEF TypeOK, Targets
  <2>3. targets' \in [Users -> Targets]
    BY <1>1, <2>2 DEF JoinCredentials, TypeOK
  <2>4. mints' \subseteq Mints
    BY <1>1, <2>1, <2>2 DEF JoinCredentials, TypeOK, Mints
  <2>5. kicks' \subseteq Kicks
    <3>1. targets[u].channel \notin {None, ch} => targets[u].channel \in Channels
      BY <2>2 DEF Targets, NoTarget
    <3> QED
      BY <1>1, <3>1 DEF JoinCredentials, TypeOK, Kick, Kicks
  <2>6. reconcile' \in Reconciliations
    BY <1>1, ReviseType DEF JoinCredentials, TypeOK
  <2> QED
    BY <1>1, <2>1, <2>3, <2>4, <2>5, <2>6 DEF JoinCredentials, TypeOK, livekit
<1>2. ASSUME NEW u \in Users, NEW ch \in Channels, CheckGuild(u, ch)
      PROVE  TypeOK'
  BY <1>2 DEF CheckGuild, TypeOK, livekit, Removals, Guilds, Incident
<1>3. ASSUME NEW u \in Users, NEW ch \in Channels, ExpelCheck(u, ch)
      PROVE  TypeOK'
  <2>1. targets[u].gen \in 1..MaxGen /\ rooms[ch][u] \in 1..MaxGen
    BY <1>3 DEF ExpelCheck, TypeOK, Targets, NoTarget, Occupancy
  <2>2. expulsions' \subseteq Expulsions
    <3> DEFINE e == [user |-> u, channel |-> ch, gen |-> targets[u].gen,
                     recorded |-> rooms[ch][u], sent |-> FALSE]
    <3>1. e \in Expulsions
      BY <2>1 DEF Expulsions
    <3>2. expulsions' = expulsions \cup {e}
      BY <1>3 DEF ExpelCheck
    <3> QED
      BY <3>1, <3>2 DEF TypeOK
  <2> QED
    BY <1>3, <2>2 DEF ExpelCheck, TypeOK, livekit, Incident
<1>4. ASSUME NEW m \in mints, IssueToken(m)
      PROVE  TypeOK'
  BY <1>4 DEF IssueToken, TypeOK, livekit, Mints, Tokens
<1>5. ASSUME NEW m \in mints, TokenFails(m)
      PROVE  TypeOK'
  <2>1. m.user \in Users /\ m.previous \in Targets /\ NoTarget \in Targets
    BY DEF TypeOK, Mints, Targets
  <2>2. targets' \in [Users -> Targets]
    BY <1>5, <2>1 DEF TokenFails, TypeOK
  <2>3. reconcile' \in Reconciliations
    BY <1>5, ReviseType DEF TokenFails, TypeOK
  <2> QED
    BY <1>5, <2>2, <2>3 DEF TokenFails, TypeOK, livekit, Incident
<1>6. ASSUME NEW u \in Users, RemoveFromVoice(u)
      PROVE  TypeOK'
  <2>1. RemoveParticipant(u)
    BY <1>6 DEF RemoveFromVoice
  <2> QED
    BY <1>6, <2>1, RemoveParticipantType DEF RemoveFromVoice, TypeOK, livekit, pending, Incident
<1>7. ASSUME NEW r \in removals, RemoveFromGuild(r)
      PROVE  TypeOK'
  <2>1. RemoveParticipant(r.user) /\ r.user \in Users
    BY <1>7 DEF RemoveFromGuild, TypeOK, Removals
  <2> QED
    BY <1>7, <2>1, RemoveParticipantType DEF RemoveFromGuild, TypeOK, livekit
<1>8. ASSUME NEW e \in expulsions, ExpelSend(e)
      PROVE  TypeOK'
  <2>1. e \in Expulsions /\ e.channel \in Channels /\ e.user \in Users
    BY DEF TypeOK, Expulsions
  <2>2. [e EXCEPT !.sent = TRUE] \in Expulsions
    BY <2>1 DEF Expulsions
  <2>3. expulsions' \subseteq Expulsions
    BY <1>8, <2>2 DEF ExpelSend, TypeOK
  <2>4. conn' \in [Channels -> Occupancy]
    <3>1. CASE UNCHANGED conn
      BY <3>1 DEF TypeOK
    <3>2. CASE conn' = [conn EXCEPT ![e.channel][e.user] = 0]
      BY <2>1, <3>2 DEF TypeOK, Occupancy
    <3> QED
      BY <1>8, <3>1, <3>2 DEF ExpelSend
  <2>5. hooks' \subseteq Hooks
    BY <1>8, <2>1 DEF ExpelSend, TypeOK, Hooks, Occupancy
  <2> QED
    BY <1>8, <2>3, <2>4, <2>5 DEF ExpelSend, TypeOK
<1>9. ASSUME NEW e \in expulsions, ExpelForget(e)
      PROVE  TypeOK'
  <2>1. e \in Expulsions /\ e.channel \in Channels /\ e.user \in Users
    BY DEF TypeOK, Expulsions
  <2>2. Revoked(targets[e.user]) \in Targets
    BY <2>1, RevokedType DEF TypeOK
  <2>3. targets' \in [Users -> Targets]
    BY <1>9, <2>2 DEF ExpelForget, TypeOK
  <2>4. rooms' \in [Channels -> Occupancy]
    BY <1>9, <2>1 DEF ExpelForget, TypeOK, Occupancy
  <2>5. reconcile' \in Reconciliations
    BY <1>9, ReviseType DEF ExpelForget, TypeOK
  <2> QED
    BY <1>9, <2>3, <2>4, <2>5 DEF ExpelForget, TypeOK, livekit
<1>10. ASSUME NEW ch \in Channels, DeleteChannel(ch)
       PROVE  TypeOK'
  <2>1. DeleteGuildRooms({ch}) /\ Revise
    BY <1>10 DEF DeleteChannel
  <2>2. reconcile' \in Reconciliations
    BY <2>1, ReviseType DEF TypeOK
  <2> QED
    BY <1>10, <2>1, <2>2, DeleteGuildRoomsType
       DEF DeleteChannel, TypeOK, livekit, pending, Incident
<1>11. ASSUME NEW h \in hooks, DeliverWebhook(h)
       PROVE  TypeOK'
  <2>1. h \in Hooks /\ h.channel \in Channels
    BY DEF TypeOK, Hooks
  <2>2. /\ targets' \in [Users -> Targets]
        /\ rooms' \in [Channels -> Occupancy]
        /\ kicks' \subseteq Kicks
        /\ reconcile' \in Reconciliations
    <3>1. CASE h.event = "joined"
      <4>1. Joined(h) /\ h.user \in Users /\ h.gen \in 1..MaxGen
        BY <1>11, <2>1, <3>1 DEF DeliverWebhook, Hooks
      <4> DEFINE t == targets[h.user]
                 elsewhere == t.channel \notin {None, h.channel}
                 recorded == [rooms EXCEPT ![h.channel][h.user] = h.gen]
      <4>2. t \in Targets /\ (elsewhere => t.channel \in Channels)
        BY <4>1 DEF TypeOK, Targets, NoTarget
      <4>3. recorded \in [Channels -> Occupancy]
        BY <2>1, <4>1 DEF TypeOK, Occupancy
      <4>4. [channel |-> h.channel, gen |-> h.gen] \in Targets
        BY <2>1, <4>1 DEF Targets
      <4>5. CASE Valid(t) /\ ~Accepts(t, h.channel, h.gen)
        BY <2>1, <4>1, <4>5 DEF Joined, TypeOK, Kick, Kicks
      <4>6. CASE ~(Valid(t) /\ ~Accepts(t, h.channel, h.gen))
        <5>1. /\ rooms' = IF elsewhere THEN [recorded EXCEPT ![t.channel][h.user] = 0] ELSE recorded
              /\ targets' = IF h.gen >= t.gen
                              THEN [targets EXCEPT ![h.user] = [channel |-> h.channel, gen |-> h.gen]]
                              ELSE targets
              /\ kicks' = IF elsewhere THEN kicks \cup {Kick(h.user, t.channel)} ELSE kicks
              /\ Revise
          BY <4>1, <4>6 DEF Joined
        <5> HIDE DEF recorded
        <5>2. rooms' \in [Channels -> Occupancy]
          <6>1. CASE elsewhere
            <7>1. rooms' = [recorded EXCEPT ![t.channel][h.user] = 0]
              BY <5>1, <6>1
            <7> QED
              BY <4>1, <4>2, <4>3, <6>1, <7>1, ForgetType, Zenon
          <6>2. CASE ~elsewhere
            BY <4>3, <5>1, <6>2
          <6> QED
            BY <6>1, <6>2
        <5>3. targets' \in [Users -> Targets]
          BY <4>4, <5>1 DEF TypeOK
        <5>4. kicks' \subseteq Kicks
          BY <4>1, <4>2, <5>1 DEF TypeOK, Kick, Kicks
        <5> QED
          BY <5>1, <5>2, <5>3, <5>4, ReviseType DEF TypeOK
      <4> QED
        BY <4>5, <4>6
    <3>2. CASE h.event = "left"
      <4>1. Left(h) /\ h.user \in Users
        BY <1>11, <2>1, <3>2 DEF DeliverWebhook, Hooks
      <4>2. rooms' \in [Channels -> Occupancy]
        <5>1. CASE UNCHANGED rooms
          BY <5>1 DEF TypeOK
        <5>2. CASE rooms' = [rooms EXCEPT ![h.channel][h.user] = 0]
          BY <2>1, <4>1, <5>2, ForgetType, Zenon DEF TypeOK
        <5> QED
          BY <4>1, <5>1, <5>2 DEF Left
      <4> QED
        BY <4>1, <4>2, ReviseType DEF Left, TypeOK
    <3>3. CASE h.event = "finished"
      <4>1. Finished(h)
        BY <1>11, <3>3 DEF DeliverWebhook
      <4>2. rooms' \in [Channels -> Occupancy]
        BY <2>1, <4>1, VacantType DEF Finished, TypeOK
      <4> QED
        BY <4>1, <4>2, ReviseType DEF Finished, TypeOK
    <3> QED
      BY <2>1, <3>1, <3>2, <3>3 DEF Hooks
  <2> QED
    BY <1>11, <2>2 DEF DeliverWebhook, TypeOK, pending
<1> QED
  BY <1>1, <1>2, <1>3, <1>4, <1>5, <1>6, <1>7, <1>8, <1>9, <1>10, <1>11 DEF Handlers

\* Every step of the reconciler keeps the types.
LEMMA ReconcilerType ==
    ASSUME TypeOK, Reconciler
    PROVE  TypeOK'
<1>1. CASE ReconcileBegin
  <2>1. reconcile' \in Reconciliations
    BY <1>1, VacantType DEF ReconcileBegin, Reconciliations, TypeOK
  <2> QED
    BY <1>1, <2>1 DEF ReconcileBegin, TypeOK, pending, livekit
<1>2. CASE ReconcileApply
  <2>1. reconcile.valid \in SUBSET Channels
    BY DEF TypeOK, Reconciliations
  <2>2. reconcile' \in Reconciliations
    BY <1>2, <2>1, IdleType DEF ReconcileApply, Reconciliations
  <2>3. CASE reconcile.revised
    BY <1>2, <2>2, <2>3 DEF ReconcileApply, TypeOK, pending, livekit
  <2>4. CASE ~reconcile.revised
    <3>1. targets' \in [Users -> Targets]
      BY <1>2, <2>4, RetargetedType DEF ReconcileApply
    <3>2. ASSUME NEW ch \in Channels, NEW u \in Users
          PROVE  Recorded(ch, u) \in 0..MaxGen
      BY DEF Recorded, TypeOK, Reconciliations, Occupancy
    <3>3. rooms' \in [Channels -> Occupancy]
      BY <1>2, <2>4, <3>2 DEF ReconcileApply, Occupancy
    <3>4. kicks' \subseteq Kicks
      BY <1>2, <2>4 DEF ReconcileApply, TypeOK
    <3> QED
      BY <1>2, <2>2, <3>1, <3>3, <3>4 DEF ReconcileApply, TypeOK, pending, livekit
  <2> QED
    BY <2>3, <2>4
<1>3. CASE ReconcileFail
  BY <1>3, IdleType DEF ReconcileFail, TypeOK, pending, livekit, Incident
<1>4. CASE ReconcilePrune
  <2>1. DeleteGuildRooms(Orphans) /\ Orphans \in SUBSET Channels
    BY <1>4 DEF ReconcilePrune, Orphans
  <2> QED
    BY <1>4, <2>1, DeleteGuildRoomsType, IdleType DEF ReconcilePrune, TypeOK, pending, livekit
<1>5. ASSUME NEW ch \in Channels, ReconcileRead(ch)
      PROVE  TypeOK'
  <2>1. reconcile' \in Reconciliations
    BY <1>5 DEF ReconcileRead, Reconciliations, TypeOK
  <2> QED
    BY <1>5, <2>1 DEF ReconcileRead, TypeOK, pending, livekit
<1> QED
  BY <1>1, <1>2, <1>3, <1>4, <1>5 DEF Reconciler

\* Every step of LiveKit, of a client and of the world keeps the types.
LEMMA EnvironmentType ==
    ASSUME TypeOK, Environment
    PROVE  TypeOK'
<1>1. ASSUME NEW t \in tokens, Connect(t)
      PROVE  TypeOK'
  <2>1. t.channel \in Channels /\ t.user \in Users /\ t.gen \in 1..MaxGen
    BY DEF TypeOK, Tokens
  <2>2. conn' \in [Channels -> Occupancy]
    BY <1>1, <2>1 DEF Connect, TypeOK, Occupancy
  <2>3. hooks' \subseteq Hooks
    <3>1. conn[t.channel][t.user] \in 0..MaxGen
      BY <2>1 DEF TypeOK, Occupancy
    <3>2. Hook("joined", t.channel, t.user, t.gen) \in Hooks
      BY <2>1 DEF Hook, Hooks
    <3>3. conn[t.channel][t.user] # 0 =>
            Hook("left", t.channel, t.user, conn[t.channel][t.user]) \in Hooks
      BY <2>1, <3>1 DEF Hook, Hooks
    <3> QED
      BY <1>1, <3>2, <3>3 DEF Connect, TypeOK
  <2>4. tokens' \subseteq Tokens /\ incidents' \in 0..MaxIncidents
    BY <1>1 DEF Connect, TypeOK, Incident
  <2>5. open' \subseteq Channels
    BY <1>1, <2>1 DEF Connect, TypeOK
  <2> QED
    BY <1>1, <2>2, <2>3, <2>4, <2>5 DEF Connect, TypeOK, pending
<1>2. ASSUME NEW ch \in Channels, CloseRoom(ch)
      PROVE  TypeOK'
  <2>1. hooks' \subseteq Hooks
    BY <1>2 DEF CloseRoom, TypeOK, Hook, Hooks
  <2> QED
    BY <1>2, <2>1 DEF CloseRoom, TypeOK, pending
<1>3. ASSUME NEW ch \in Channels, NEW u \in Users, Disconnect(ch, u)
      PROVE  TypeOK'
  <2>1. Drop(ch, {u}) /\ {u} \in SUBSET Users
    BY <1>3 DEF Disconnect
  <2> QED
    BY <1>3, <2>1, DropType DEF Disconnect, TypeOK, pending
<1>4. ASSUME NEW k \in kicks, KickArrives(k)
      PROVE  TypeOK'
  <2>1. Drop(k.channel, {k.user}) /\ {k.user} \in SUBSET Users /\ k.channel \in Channels
    BY <1>4 DEF KickArrives, TypeOK, Kicks
  <2> QED
    BY <1>4, <2>1, DropType DEF KickArrives, TypeOK, pending
<1>5. ASSUME NEW ch \in closing, DeleteRoomArrives(ch)
      PROVE  TypeOK'
  <2>1. Drop(ch, Users) /\ ch \in Channels
    BY <1>5 DEF DeleteRoomArrives, TypeOK
  <2> QED
    BY <1>5, <2>1, DropType DEF DeleteRoomArrives, TypeOK, pending
<1>6. CASE Lose
  BY <1>6 DEF Lose, TypeOK, pending, Incident
<1>7. CASE Expire
  BY <1>7 DEF Expire, TypeOK, pending, livekit, Incident
<1>8. CASE Restart
  BY <1>8, VacantType, IdleType DEF Restart, TypeOK, livekit, Incident, Targets
<1> QED
  BY <1>1, <1>2, <1>3, <1>4, <1>5, <1>6, <1>7, <1>8 DEF Environment

\* Every step keeps the types.
LEMMA TypeStep ==
    ASSUME TypeOK, [Next]_vars
    PROVE  TypeOK'
<1>1. CASE UNCHANGED vars
  BY <1>1 DEF vars, TypeOK
<1> QED
  BY <1>1, HandlersType, ReconcilerType, EnvironmentType DEF Next

\* Every reachable state is well typed: in particular a target names a channel
\* or is barred with the generation of the token it bars.
THEOREM TypeCorrect == Spec => []TypeOK
BY TypeInit, TypeStep, PTL DEF Spec

-----------------------------------------------------------------------------
(* Generations.  Whatever carries a generation, a target, a connection, a     *)
(* webhook or a snapshot of them, carries one that has been issued: so the    *)
(* next one is newer than all of them.                                        *)

\* What LiveKit and the clients hold.
LinksIssued ==
    /\ \A t \in tokens \cup mints : t.gen <= generation
    /\ \A h \in hooks : h.gen <= generation
    /\ \A ch \in Channels, u \in Users : conn[ch][u] <= generation

\* What the server believes.
BeliefsIssued ==
    /\ \A u \in Users : targets[u].gen <= generation /\ reconcile.targets[u].gen <= generation
    /\ \A m \in mints : m.previous.gen <= generation
    /\ \A ch \in Channels, u \in Users : reconcile.observed[ch][u] <= generation

\* Generations grow, and what is past its TTL stays so.
LEMMA GenerationsGrow ==
    ASSUME TypeOK, [Next]_vars
    PROVE  /\ generation' = generation \/ \E u \in Users, ch \in Channels : JoinCredentials(u, ch)
           /\ generation \in Nat /\ generation' \in Nat /\ generation <= generation'
           /\ stale \in Nat /\ stale' \in Nat /\ stale <= stale'
<1>1. generation \in Nat /\ generation' \in Nat /\ stale \in Nat /\ stale' \in Nat /\ stale <= generation
  BY TypeStep DEF TypeOK
<1>2. CASE UNCHANGED <<generation, stale>>
  BY <1>1, <1>2
<1>3. ASSUME NEW u \in Users, NEW ch \in Channels, JoinCredentials(u, ch)
      PROVE  generation' = generation + 1 /\ stale' = stale
  BY <1>3 DEF JoinCredentials
<1>4. CASE Expire
  BY <1>1, <1>4 DEF Expire
<1>5. CASE Handlers
  <2>1. \/ UNCHANGED <<generation, stale>>
        \/ \E u \in Users, ch \in Channels : JoinCredentials(u, ch)
    BY <1>5 DEF Handlers, CheckGuild, ExpelCheck, IssueToken, TokenFails, RemoveFromVoice,
                RemoveFromGuild, ExpelSend, ExpelForget, DeleteChannel, DeliverWebhook
  <2> QED
    BY <1>1, <1>2, <1>3, <2>1
<1>6. CASE Reconciler
  BY <1>2, <1>6 DEF Reconciler, ReconcileBegin, ReconcileApply, ReconcileFail, ReconcilePrune,
                    ReconcileRead
<1>7. CASE Environment /\ ~Expire
  BY <1>2, <1>7 DEF Environment, Connect, CloseRoom, Disconnect, KickArrives, DeleteRoomArrives,
                    Lose, Restart
<1>8. CASE UNCHANGED vars
  BY <1>2, <1>8 DEF vars
<1> QED
  BY <1>4, <1>5, <1>6, <1>7, <1>8 DEF Next

\* The webhooks of connections that end carry their generations.
LEMMA DropIssued ==
    ASSUME TypeOK, LinksIssued, NEW ch \in Channels, NEW us \in SUBSET Users, Drop(ch, us),
           UNCHANGED <<generation, tokens, mints>>
    PROVE  LinksIssued'
<1>1. \A h \in hooks' \ hooks : \E u \in Users : h.gen = conn[ch][u]
  BY DEF Drop, Hook
<1>2. \A d \in Channels, u \in Users : conn'[d][u] \in {0, conn[d][u]}
  BY DEF Drop, TypeOK
<1>3. generation \in Nat
  BY DEF TypeOK
<1> QED
  BY <1>1, <1>2, <1>3 DEF LinksIssued

\* No step makes up a generation that LiveKit or a client then holds.
LEMMA LinksStep ==
    ASSUME TypeOK, LinksIssued, [Next]_vars
    PROVE  LinksIssued'
<1>a. generation \in Nat /\ generation' \in Nat /\ generation <= generation'
  BY GenerationsGrow
<1>b. /\ \A t \in tokens \cup mints : t.gen \in Nat
      /\ \A h \in hooks : h.gen \in Nat
      /\ \A ch \in Channels, u \in Users : conn[ch][u] \in Nat
  BY DEF TypeOK, Tokens, Mints, Hooks, Occupancy
<1>1. ASSUME tokens' \subseteq tokens, mints' \subseteq mints, hooks' \subseteq hooks,
             UNCHANGED <<conn, generation>>
      PROVE  LinksIssued'
  BY <1>1 DEF LinksIssued
<1>2. ASSUME NEW u \in Users, NEW ch \in Channels, JoinCredentials(u, ch)
      PROVE  LinksIssued'
  <2>1. \A m \in mints' \ mints : m.gen = generation'
    BY <1>2 DEF JoinCredentials
  <2>2. UNCHANGED <<tokens, hooks, conn>>
    BY <1>2 DEF JoinCredentials, livekit
  <2> QED
    BY <1>a, <1>b, <2>1, <2>2 DEF LinksIssued
<1>3. ASSUME NEW m \in mints, IssueToken(m) \/ TokenFails(m)
      PROVE  LinksIssued'
  <2>1. \A t \in (tokens' \cup mints') \ (tokens \cup mints) : t.gen = m.gen
    BY <1>3 DEF IssueToken, TokenFails
  <2>2. UNCHANGED <<generation, hooks, conn>>
    BY <1>3 DEF IssueToken, TokenFails, livekit
  <2> QED
    BY <2>1, <2>2 DEF LinksIssued
<1>4. ASSUME NEW e \in expulsions, ExpelSend(e)
      PROVE  LinksIssued'
  <2>1. e.channel \in Channels /\ e.user \in Users
    BY DEF TypeOK, Expulsions
  <2>2. \A h \in hooks' \ hooks : h.gen = conn[e.channel][e.user]
    BY <1>4 DEF ExpelSend
  <2>3. conn' \in {conn, [conn EXCEPT ![e.channel][e.user] = 0]} /\ conn \in [Channels -> Occupancy]
    BY <1>4 DEF ExpelSend, TypeOK
  <2>5. \A d \in Channels, u \in Users : conn'[d][u] \in {0, conn[d][u]}
    <3> TAKE d \in Channels, u \in Users
    <3>1. [conn EXCEPT ![e.channel][e.user] = 0][d][u] \in {0, conn[d][u]}
      BY <2>1, <2>3 DEF Occupancy
    <3> QED
      BY <2>3, <3>1, Zenon
  <2>4. UNCHANGED <<generation, tokens, mints>>
    BY <1>4 DEF ExpelSend
  <2> QED
    BY <1>a, <2>1, <2>2, <2>4, <2>5 DEF LinksIssued
<1>5. CASE Handlers
  BY <1>1, <1>2, <1>3, <1>4, <1>5
     DEF Handlers, CheckGuild, ExpelCheck, RemoveFromVoice, RemoveFromGuild, ExpelForget,
         DeleteChannel, DeliverWebhook, livekit, pending
<1>6. CASE Reconciler
  BY <1>1, <1>6 DEF Reconciler, ReconcileBegin, ReconcileApply, ReconcileFail, ReconcilePrune,
                    ReconcileRead, livekit, pending
<1>7. CASE Environment
  <2>1. ASSUME NEW t \in tokens, Connect(t)
        PROVE  LinksIssued'
    <3>1. t.channel \in Channels /\ t.user \in Users
      BY DEF TypeOK, Tokens
    <3>2. \A h \in hooks' \ hooks : h.gen \in {t.gen, conn[t.channel][t.user]}
      BY <2>1 DEF Connect, Hook
    <3>3. \A d \in Channels, u \in Users : conn'[d][u] \in {t.gen, conn[d][u]}
      BY <2>1, <3>1 DEF Connect, TypeOK
    <3>4. tokens' \subseteq tokens /\ UNCHANGED <<generation, mints>>
      BY <2>1 DEF Connect, pending
    <3> QED
      BY <3>1, <3>2, <3>3, <3>4 DEF LinksIssued
  <2>2. ASSUME NEW ch \in Channels, CloseRoom(ch)
        PROVE  LinksIssued'
    <3>1. \A h \in hooks' \ hooks : h.gen = 0
      BY <2>2 DEF CloseRoom, Hook
    <3>2. UNCHANGED <<generation, tokens, mints, conn>>
      BY <2>2 DEF CloseRoom, pending
    <3> QED
      BY <1>a, <3>1, <3>2 DEF LinksIssued
  <2>3. ASSUME NEW ch \in Channels, NEW u \in Users, Disconnect(ch, u)
        PROVE  LinksIssued'
    <3>1. Drop(ch, {u}) /\ UNCHANGED <<generation, tokens, mints>>
      BY <2>3 DEF Disconnect, pending
    <3> QED
      BY <3>1, DropIssued
  <2>4. ASSUME NEW k \in kicks, KickArrives(k)
        PROVE  LinksIssued'
    <3>1. Drop(k.channel, {k.user}) /\ UNCHANGED <<generation, tokens, mints>>
      BY <2>4 DEF KickArrives, pending
    <3>2. k.channel \in Channels /\ {k.user} \in SUBSET Users
      BY DEF TypeOK, Kicks
    <3> QED
      BY <3>1, <3>2, DropIssued
  <2>5. ASSUME NEW ch \in closing, DeleteRoomArrives(ch)
        PROVE  LinksIssued'
    <3>1. Drop(ch, Users) /\ UNCHANGED <<generation, tokens, mints>> /\ ch \in Channels
      BY <2>5 DEF DeleteRoomArrives, pending, TypeOK
    <3> QED
      BY <3>1, DropIssued
  <2>6. CASE Lose \/ Expire \/ Restart
    BY <1>1, <2>6 DEF Lose, Expire, Restart, livekit, pending
  <2> QED
    BY <1>7, <2>1, <2>2, <2>3, <2>4, <2>5, <2>6 DEF Environment
<1>8. CASE UNCHANGED vars
  BY <1>1, <1>8 DEF vars
<1> QED
  BY <1>5, <1>6, <1>7, <1>8 DEF Next

-----------------------------------------------------------------------------
(* The targets.  A step changes the target of an account in one of a few ways. *)

\* What a step may make of a target.
Retargets(u) ==
    \/ targets'[u] \in {targets[u], NoTarget}
    \/ targets'[u] = Revoked(targets[u])
    \/ targets'[u] = [targets[u] EXCEPT !.channel = None]
    \/ targets'[u].gen = generation' /\ generation' > generation
    \/ \E m \in mints : TokenFails(m) /\ targets'[u] = m.previous
    \/ \E h \in hooks : /\ h.user = u
                        /\ Valid(targets[u]) => Accepts(targets[u], h.channel, h.gen)
                        /\ targets'[u].gen = h.gen
    \/ ReconcileApply /\ ~reconcile.revised /\ targets'[u] = Retargeted(u)

\* Removing one account changes its target only, by revoking it.
LEMMA RemovalRetargets ==
    ASSUME TypeOK, NEW v \in Users, RemoveParticipant(v), NEW u \in Users
    PROVE  targets'[u] \in {targets[u], Revoked(targets[u])}
<1>1. targets' = [targets EXCEPT ![v] = Revoked(targets[v])]
  BY DEF RemoveParticipant
<1> QED
  BY <1>1 DEF TypeOK

\* Deleting rooms takes the channel from some targets.
LEMMA DeletionRetargets ==
    ASSUME NEW chs, DeleteGuildRooms(chs), NEW u \in Users
    PROVE  targets'[u] \in {targets[u], [targets[u] EXCEPT !.channel = None]}
BY DEF DeleteGuildRooms

\* No handler does anything else to a target.
LEMMA HandlersRetarget ==
    ASSUME TypeOK, Handlers, NEW u \in Users
    PROVE  Retargets(u)
<1>1. CASE UNCHANGED targets
  BY <1>1 DEF Retargets
<1>2. ASSUME NEW v \in Users, NEW ch \in Channels, JoinCredentials(v, ch)
      PROVE  Retargets(u)
  <2>1. generation' = generation + 1 /\ generation \in Nat
    BY <1>2 DEF JoinCredentials, TypeOK
  <2>2. targets' = [targets EXCEPT ![v] = [channel |-> ch, gen |-> generation']]
    BY <1>2 DEF JoinCredentials
  <2>3. targets'[u] = targets[u] \/ targets'[u].gen = generation'
    BY <2>2 DEF TypeOK
  <2> QED
    BY <2>1, <2>3 DEF Retargets
<1>3. ASSUME NEW m \in mints, TokenFails(m)
      PROVE  Retargets(u)
  <2>1. targets'[u] \in {targets[u], NoTarget, m.previous}
    BY <1>3 DEF TokenFails, TypeOK
  <2> QED
    BY <1>3, <2>1 DEF Retargets
<1>4. ASSUME NEW v \in Users, RemoveParticipant(v)
      PROVE  Retargets(u)
  BY <1>4, RemovalRetargets DEF Retargets
<1>5. ASSUME NEW e \in expulsions, ExpelForget(e)
      PROVE  Retargets(u)
  <2>1. targets'[u] \in {targets[u], Revoked(targets[u])}
    BY <1>5 DEF ExpelForget, TypeOK
  <2> QED
    BY <2>1 DEF Retargets
<1>6. ASSUME NEW ch \in Channels, DeleteChannel(ch)
      PROVE  Retargets(u)
  BY <1>6, DeletionRetargets DEF DeleteChannel, Retargets
<1>7. ASSUME NEW h \in hooks, DeliverWebhook(h)
      PROVE  Retargets(u)
  <2>1. CASE h.event = "joined"
    <3>1. Joined(h)
      BY <1>7, <2>1 DEF DeliverWebhook
    <3> DEFINE t == targets[h.user]
    <3>2. CASE Valid(t) /\ ~Accepts(t, h.channel, h.gen)
      BY <1>1, <3>1, <3>2 DEF Joined
    <3>3. CASE ~(Valid(t) /\ ~Accepts(t, h.channel, h.gen))
      <4>1. targets' \in {targets, [targets EXCEPT ![h.user] = [channel |-> h.channel, gen |-> h.gen]]}
        BY <3>1, <3>3 DEF Joined
      <4>2. \/ targets'[u] = targets[u]
            \/ h.user = u /\ targets'[u].gen = h.gen
        BY <4>1 DEF TypeOK
      <4> QED
        BY <3>3, <4>2 DEF Retargets
    <3> QED
      BY <3>2, <3>3
  <2>2. CASE h.event # "joined"
    <3>1. UNCHANGED targets
      BY <1>7, <2>2 DEF DeliverWebhook, Left, Finished, TypeOK, Hooks
    <3> QED
      BY <1>1, <3>1
  <2> QED
    BY <2>1, <2>2
<1> QED
  <2>1. ASSUME NEW r \in removals, RemoveFromGuild(r)
        PROVE  Retargets(u)
    BY <1>4, <2>1 DEF RemoveFromGuild, TypeOK, Removals
  <2>2. CASE \E v \in Users : RemoveFromVoice(v)
    BY <1>4, <2>2 DEF RemoveFromVoice
  <2>3. CASE \E v \in Users, ch \in Channels : CheckGuild(v, ch) \/ ExpelCheck(v, ch)
    BY <1>1, <2>3 DEF CheckGuild, ExpelCheck
  <2>4. CASE \/ \E m \in mints : IssueToken(m)
             \/ \E e \in expulsions : ExpelSend(e)
    BY <1>1, <2>4 DEF IssueToken, ExpelSend
  <2> QED
    BY <1>2, <1>3, <1>5, <1>6, <1>7, <2>1, <2>2, <2>3, <2>4 DEF Handlers

\* No step does.
LEMMA StepRetargets ==
    ASSUME TypeOK, [Next]_vars, NEW u \in Users
    PROVE  Retargets(u)
<1>1. CASE UNCHANGED targets
  BY <1>1 DEF Retargets
<1>2. CASE ReconcileApply
  BY <1>1, <1>2 DEF ReconcileApply, Retargets
<1>3. CASE ReconcilePrune
  BY <1>3, DeletionRetargets DEF ReconcilePrune, Retargets
<1>4. CASE Reconciler /\ ~ReconcileApply /\ ~ReconcilePrune
  BY <1>1, <1>4 DEF Reconciler, ReconcileBegin, ReconcileFail, ReconcileRead
<1>5. CASE Restart
  BY <1>5 DEF Restart, Retargets
<1>6. CASE Environment /\ ~Restart
  BY <1>1, <1>6 DEF Environment, Connect, CloseRoom, Disconnect, KickArrives, DeleteRoomArrives,
                    Lose, Expire
<1>7. CASE UNCHANGED vars
  BY <1>1, <1>7 DEF vars
<1> QED
  BY <1>2, <1>3, <1>4, <1>5, <1>6, <1>7, HandlersRetarget DEF Next

-----------------------------------------------------------------------------
(* The snapshot.  Refresh reads the targets when it begins, and from then on   *)
(* either the targets stay, but for what is past its TTL, or it is outdated.   *)

\* What a Refresh that is going to be applied took for the targets, they are.
SnapshotCurrent ==
    reconcile.at = "reading" /\ ~reconcile.revised =>
        \A u \in Users : \/ reconcile.targets[u] = targets[u]
                         \/ targets[u] = NoTarget /\ ~Valid(reconcile.targets[u])

\* A Refresh that is revised while it reads is outdated.
LEMMA ReviseOutdates ==
    ASSUME reconcile \in Reconciliations, Revise
    PROVE  ~(reconcile'.at = "reading" /\ ~reconcile'.revised)
BY IdleType DEF Revise, Outdated, Reconciliations

\* A revised reconciler has read nothing new.
LEMMA ReviseForgets ==
    ASSUME reconcile \in Reconciliations, Revise
    PROVE  /\ \A u \in Users : reconcile'.targets[u] \in {reconcile.targets[u], NoTarget}
           /\ \A u \in Users, ch \in Channels :
                 reconcile'.observed[ch][u] \in {reconcile.observed[ch][u], 0}
<1>1. CASE reconcile.at = "reading"
  <2>1. reconcile' = [Idle EXCEPT !.at = "reading", !.revised = TRUE, !.valid = reconcile.valid]
    BY <1>1 DEF Revise, Outdated
  <2>2. reconcile'.targets = Idle.targets /\ reconcile'.observed = Idle.observed
    BY <2>1 DEF Idle
  <2> QED
    BY <2>2 DEF Idle, Vacant, Empty
<1>2. CASE reconcile.at # "reading"
  BY <1>2 DEF Revise, Outdated
<1> QED
  BY <1>1, <1>2

\* What a step makes of the reconciler and of the targets it has read.
Quiet ==
    /\ reconcile' = reconcile
    /\ \A u \in Users : targets'[u] = targets[u] \/ (targets'[u] = NoTarget /\ ~Valid(targets[u]))

\* A target without a channel is revoked only when it is past its TTL.
LEMMA RevokedQuietly ==
    ASSUME NEW t \in Targets, t.channel = None
    PROVE  Revoked(t) = t \/ (Revoked(t) = NoTarget /\ ~Valid(t))
BY DEF Revoked, Targets, NoTarget

\* Handlers revise the reconciler when they change a target that matters.
LEMMA HandlersRevise ==
    ASSUME TypeOK, Handlers
    PROVE  Revise \/ Quiet
<1>1. CASE UNCHANGED <<targets, reconcile>>
  BY <1>1 DEF Quiet
<1>2. ASSUME NEW v \in Users, RemoveParticipant(v)
      PROVE  Revise \/ Quiet
  <2>1. CASE targets[v].channel # None
    BY <1>2, <2>1 DEF RemoveParticipant
  <2>2. CASE targets[v].channel = None
    <3>1. /\ reconcile' = reconcile
          /\ targets' = [targets EXCEPT ![v] = Revoked(targets[v])]
      BY <1>2, <2>2 DEF RemoveParticipant
    <3>2. \A u \in Users : targets'[u] = IF u = v THEN Revoked(targets[v]) ELSE targets[u]
      BY <3>1 DEF TypeOK
    <3>3. targets[v] \in Targets
      BY DEF TypeOK
    <3>4. Revoked(targets[v]) = targets[v] \/ (Revoked(targets[v]) = NoTarget /\ ~Valid(targets[v]))
      BY <2>2, <3>3, RevokedQuietly
    <3> QED
      BY <3>1, <3>2, <3>4 DEF Quiet
  <2> QED
    BY <2>1, <2>2
<1>3. CASE \E u \in Users, ch \in Channels : JoinCredentials(u, ch)
  BY <1>3 DEF JoinCredentials
<1>4. CASE \E u \in Users, ch \in Channels : CheckGuild(u, ch) \/ ExpelCheck(u, ch)
  BY <1>1, <1>4 DEF CheckGuild, ExpelCheck
<1>5. CASE \/ \E m \in mints : IssueToken(m)
           \/ \E e \in expulsions : ExpelSend(e)
  BY <1>1, <1>5 DEF IssueToken, ExpelSend
<1>6. ASSUME NEW m \in mints, TokenFails(m)
      PROVE  Revise \/ Quiet
  BY <1>1, <1>6 DEF TokenFails
<1>7. CASE \E u \in Users : RemoveFromVoice(u)
  BY <1>2, <1>7 DEF RemoveFromVoice
<1>8. ASSUME NEW r \in removals, RemoveFromGuild(r)
      PROVE  Revise \/ Quiet
  BY <1>2, <1>8 DEF RemoveFromGuild, TypeOK, Removals
<1>9. ASSUME NEW e \in expulsions, ExpelForget(e)
      PROVE  Revise \/ Quiet
  BY <1>1, <1>9 DEF ExpelForget
<1>10. CASE \E ch \in Channels : DeleteChannel(ch)
  BY <1>10 DEF DeleteChannel
<1>11. ASSUME NEW h \in hooks, DeliverWebhook(h)
       PROVE  Revise \/ Quiet
  <2>1. h.event \in {"joined", "left", "finished"}
    BY DEF TypeOK, Hooks
  <2> QED
    BY <1>1, <1>11, <2>1 DEF DeliverWebhook, Joined, Left, Finished
<1> QED
  BY <1>3, <1>4, <1>5, <1>6, <1>7, <1>8, <1>9, <1>10, <1>11 DEF Handlers

\* The snapshot stays current while it matters.
LEMMA SnapshotStep ==
    ASSUME TypeOK, SnapshotCurrent, [Next]_vars
    PROVE  SnapshotCurrent'
<1>a. stale \in Nat /\ stale' \in Nat /\ stale <= stale'
  BY GenerationsGrow
<1>b. reconcile \in Reconciliations
  BY DEF TypeOK
<1>1. CASE Revise
  BY <1>1, <1>b, ReviseOutdates DEF SnapshotCurrent
<1>2. ASSUME Quiet
      PROVE  SnapshotCurrent'
  <2> SUFFICES ASSUME reconcile.at = "reading", ~reconcile.revised, NEW u \in Users
               PROVE  \/ reconcile.targets[u] = targets'[u]
                      \/ targets'[u] = NoTarget /\ ~(reconcile.targets[u].gen > stale')
    BY <1>2 DEF Quiet, SnapshotCurrent, Valid
  <2>1. \/ reconcile.targets[u] = targets[u]
        \/ targets[u] = NoTarget /\ ~(reconcile.targets[u].gen > stale)
    BY DEF SnapshotCurrent, Valid
  <2>2. targets'[u] = targets[u] \/ (targets'[u] = NoTarget /\ ~(targets[u].gen > stale))
    BY <1>2 DEF Quiet, Valid
  <2>3. targets[u].gen \in Nat /\ reconcile.targets[u].gen \in Nat
    BY <1>b DEF TypeOK, Reconciliations, Targets, NoTarget
  <2> QED
    BY <1>a, <2>1, <2>2, <2>3
<1>3. ASSUME UNCHANGED <<targets, reconcile>>
      PROVE  SnapshotCurrent'
  BY <1>2, <1>3 DEF Quiet
<1>4. CASE Reconciler
  <2>1. CASE ReconcileBegin
    <3>1. reconcile'.targets = targets /\ targets' = targets
      BY <2>1 DEF ReconcileBegin
    <3> QED
      BY <3>1 DEF SnapshotCurrent
  <2>2. CASE ReconcileApply \/ ReconcileFail \/ ReconcilePrune
    <3>1. reconcile'.at # "reading"
      <4>1. ReconcileApply => reconcile'.at = "pruning"
        BY IdleType DEF ReconcileApply, Reconciliations
      <4>2. ReconcileFail \/ ReconcilePrune => reconcile'.at = "idle"
        BY DEF ReconcileFail, ReconcilePrune, Idle
      <4> QED
        BY <2>2, <4>1, <4>2
    <3> QED
      BY <3>1 DEF SnapshotCurrent
  <2>3. ASSUME NEW ch \in Channels, ReconcileRead(ch)
        PROVE  SnapshotCurrent'
    <3>1. /\ reconcile'.at = reconcile.at /\ reconcile'.revised = reconcile.revised
          /\ reconcile'.targets = reconcile.targets /\ targets' = targets /\ stale' = stale
      BY <1>b, <2>3 DEF ReconcileRead, Reconciliations
    <3> QED
      BY <3>1 DEF SnapshotCurrent, Valid
  <2> QED
    BY <1>4, <2>1, <2>2, <2>3 DEF Reconciler
<1>5. CASE Restart
  BY <1>5 DEF Restart, SnapshotCurrent, Idle
<1>6. CASE Environment /\ ~Restart
  BY <1>3, <1>6 DEF Environment, Connect, CloseRoom, Disconnect, KickArrives, DeleteRoomArrives,
                    Lose, Expire
<1>7. CASE UNCHANGED vars
  BY <1>3, <1>7 DEF vars
<1> QED
  BY <1>1, <1>2, <1>4, <1>5, <1>6, <1>7, HandlersRevise DEF Next

-----------------------------------------------------------------------------
(* What the server believes carries generations that have been issued.        *)

\* What Refresh takes for a target is what it read, while that is in force, or
\* a connection it saw where the account is admitted.
LEMMA RetargetedFrom ==
    ASSUME TypeOK, NEW u \in Users
    PROVE  \/ Retargeted(u) = NoTarget /\ ~Valid(reconcile.targets[u])
           \/ Retargeted(u) = reconcile.targets[u] /\ Valid(reconcile.targets[u])
           \/ \E ch \in Newest(u) : Retargeted(u) = [channel |-> ch, gen |-> reconcile.observed[ch][u]]
<1> DEFINE kept == IF Valid(reconcile.targets[u]) THEN reconcile.targets[u] ELSE NoTarget
           newer == {ch \in Newest(u) : reconcile.observed[ch][u] > kept.gen}
<1>1. CASE newer = {}
  BY <1>1 DEF Retargeted
<1>2. CASE newer # {}
  <2>1. PICK ch \in newer : TRUE
    BY <1>2
  <2>2. ch \in Channels /\ reconcile.observed[ch][u] # 0
    BY <2>1 DEF Newest, Admissible, Observed
  <2>3. [channel |-> ch, gen |-> reconcile.observed[ch][u]] \in Targets
    BY <2>2 DEF TypeOK, Reconciliations, Occupancy, Targets
  <2>4. newer \subseteq Newest(u)
    OBVIOUS
  <2>5. Retargeted(u) = CHOOSE t \in Targets :
                          \E d \in newer : t = [channel |-> d, gen |-> reconcile.observed[d][u]]
    BY <1>2 DEF Retargeted
  <2> HIDE DEF newer, kept
  <2>6. \E d \in newer : Retargeted(u) = [channel |-> d, gen |-> reconcile.observed[d][u]]
    BY <2>1, <2>3, <2>5
  <2> QED
    BY <2>4, <2>6
<1> QED
  BY <1>1, <1>2

\* The reconciler holds what it held, what it has just read, or nothing.
LEMMA ReconcilerReads ==
    ASSUME TypeOK, [Next]_vars
    PROVE  /\ \A u \in Users : reconcile'.targets[u] \in {reconcile.targets[u], targets[u], NoTarget}
           /\ \A u \in Users, ch \in Channels :
                 reconcile'.observed[ch][u] \in {reconcile.observed[ch][u], conn[ch][u], 0}
<1>a. reconcile \in Reconciliations
  BY DEF TypeOK
<1>1. CASE Revise
  BY <1>1, <1>a, ReviseForgets
<1>2. CASE reconcile' = reconcile
  BY <1>2
<1>3. CASE ReconcileBegin
  <2>1. reconcile'.targets = targets /\ reconcile'.observed = Vacant
    BY <1>3 DEF ReconcileBegin
  <2> QED
    BY <2>1 DEF Vacant, Empty
<1>4. ASSUME NEW d \in Channels, ReconcileRead(d)
      PROVE  /\ reconcile'.targets = reconcile.targets
             /\ \A u \in Users, ch \in Channels :
                   reconcile'.observed[ch][u] \in {reconcile.observed[ch][u], conn[ch][u]}
  <2>1. /\ reconcile'.targets = reconcile.targets
        /\ reconcile'.observed = [reconcile.observed EXCEPT ![d] = conn[d]]
    BY <1>4, <1>a DEF ReconcileRead, Reconciliations
  <2> QED
    BY <1>a, <2>1 DEF Reconciliations
<1>5. CASE ReconcileApply
  <2>1. reconcile'.targets = Idle.targets /\ reconcile'.observed = Idle.observed
    BY <1>5, IdleType DEF ReconcileApply, Reconciliations
  <2> QED
    BY <2>1 DEF Idle, Vacant, Empty
<1>6. CASE reconcile' = Idle
  BY <1>6 DEF Idle, Vacant, Empty
<1>7. CASE Reconciler
  BY <1>3, <1>4, <1>5, <1>6, <1>7 DEF Reconciler, ReconcileFail, ReconcilePrune
<1>8. CASE Handlers
  BY <1>1, <1>2, <1>8, HandlersRevise DEF Quiet
<1>9. CASE Environment
  BY <1>2, <1>6, <1>9 DEF Environment, Connect, CloseRoom, Disconnect, KickArrives,
                          DeleteRoomArrives, Lose, Expire, Restart
<1>10. CASE UNCHANGED vars
  BY <1>2, <1>10 DEF vars
<1> QED
  BY <1>7, <1>8, <1>9, <1>10 DEF Next

\* A token request keeps the target it found.
LEMMA MintsKeepTarget ==
    ASSUME TypeOK, [Next]_vars, NEW m \in mints'
    PROVE  m \in mints \/ \E u \in Users : m.previous = targets[u]
<1>1. CASE mints' \subseteq mints
  BY <1>1
<1>2. CASE \E u \in Users, ch \in Channels : JoinCredentials(u, ch)
  BY <1>2 DEF JoinCredentials
<1>3. CASE Handlers
  BY <1>1, <1>2, <1>3 DEF Handlers, CheckGuild, ExpelCheck, IssueToken, TokenFails, RemoveFromVoice,
                RemoveFromGuild, ExpelSend, ExpelForget, DeleteChannel, DeliverWebhook, pending
<1>4. CASE Reconciler
  BY <1>1, <1>4 DEF Reconciler, ReconcileBegin, ReconcileApply, ReconcileFail, ReconcilePrune,
                    ReconcileRead, pending
<1>5. CASE Environment
  BY <1>1, <1>5 DEF Environment, Connect, CloseRoom, Disconnect, KickArrives, DeleteRoomArrives,
                    Lose, Expire, Restart, pending
<1>6. CASE UNCHANGED vars
  BY <1>1, <1>6 DEF vars
<1> QED
  BY <1>3, <1>4, <1>5, <1>6 DEF Next

\* No step makes up a generation that the server then believes.
LEMMA BeliefsStep ==
    ASSUME TypeOK, LinksIssued, BeliefsIssued, [Next]_vars
    PROVE  BeliefsIssued'
<1>a. generation \in Nat /\ generation' \in Nat /\ generation <= generation'
  BY GenerationsGrow
<1>b. /\ \A u \in Users : targets[u].gen \in Nat /\ reconcile.targets[u].gen \in Nat
      /\ \A m \in mints : m.previous.gen \in Nat
      /\ \A h \in hooks : h.gen \in Nat
      /\ \A ch \in Channels, u \in Users : reconcile.observed[ch][u] \in Nat /\ conn[ch][u] \in Nat
  BY DEF TypeOK, Targets, NoTarget, Mints, Hooks, Reconciliations, Occupancy
<1>c. NoTarget.gen = 0
  BY DEF NoTarget
<1>1. ASSUME NEW u \in Users
      PROVE  targets'[u].gen <= generation'
  <2>1. Revoked(targets[u]).gen \in {targets[u].gen, 0}
    BY DEF Revoked, TypeOK, Targets, NoTarget
  <2>2. [targets[u] EXCEPT !.channel = None].gen = targets[u].gen
    BY DEF TypeOK, Targets, NoTarget
  <2>3. ASSUME targets'[u] = Retargeted(u)
        PROVE  targets'[u].gen <= generation
    <3>1. \A ch \in Newest(u) : ch \in Channels
      BY DEF Newest, Admissible, Observed
    <3> QED
      BY <1>a, <1>c, <2>3, <3>1, RetargetedFrom DEF BeliefsIssued
  <2>4. Retargets(u)
    BY StepRetargets
  <2>5. targets'[u].gen = generation' \/ targets'[u].gen <= generation
    <3>1. targets[u].gen <= generation
      BY DEF BeliefsIssued
    <3>2. CASE \/ targets'[u] \in {targets[u], NoTarget}
               \/ targets'[u] = Revoked(targets[u])
               \/ targets'[u] = [targets[u] EXCEPT !.channel = None]
      <4>1. targets'[u].gen \in {targets[u].gen, 0}
        BY <1>c, <2>1, <2>2, <3>2, Zenon
      <4> QED
        BY <1>a, <3>1, <4>1
    <3>3. CASE \E m \in mints : targets'[u] = m.previous
      BY <3>3 DEF BeliefsIssued
    <3>4. CASE \E h \in hooks : targets'[u].gen = h.gen
      BY <3>4 DEF LinksIssued
    <3> QED
      BY <2>3, <2>4, <3>2, <3>3, <3>4 DEF Retargets
  <2>6. targets'[u].gen \in Nat
    BY TypeStep DEF TypeOK, Targets, NoTarget
  <2> QED
    BY <1>a, <2>5, <2>6
<1>2. ASSUME NEW u \in Users, NEW ch \in Channels
      PROVE  reconcile'.observed[ch][u] <= generation'
  BY <1>a, <1>b, <1>2, ReconcilerReads DEF BeliefsIssued, LinksIssued
<1>3. ASSUME NEW u \in Users
      PROVE  reconcile'.targets[u].gen <= generation'
  BY <1>a, <1>b, <1>c, ReconcilerReads DEF BeliefsIssued
<1>4. ASSUME NEW m \in mints'
      PROVE  m.previous.gen <= generation'
  BY <1>a, <1>b, <1>4, MintsKeepTarget DEF BeliefsIssued
<1> QED
  BY <1>1, <1>2, <1>3, <1>4 DEF BeliefsIssued

-----------------------------------------------------------------------------
(* Admission and removal.                                                      *)

\* Where a step records an account anew, LiveKit has seen it there, and a valid
\* target does not refuse it.
Records(ch, u) ==
    \/ \E h \in hooks : /\ h.user = u /\ h.channel = ch /\ rooms'[ch][u] = h.gen
                        /\ Valid(targets[u]) => Accepts(targets[u], ch, h.gen)
    \/ ReconcileApply /\ ~reconcile.revised /\ rooms'[ch][u] = Recorded(ch, u)

\* Deleting rooms records nobody.
LEMMA DeletionRecordsNobody ==
    ASSUME NEW chs, DeleteGuildRooms(chs), NEW ch \in Channels, NEW u \in Users
    PROVE  rooms'[ch][u] \in {0, rooms[ch][u]}
BY DEF DeleteGuildRooms, Empty

\* Neither does removing an account.
LEMMA RemovalRecordsNobody ==
    ASSUME TypeOK, NEW v \in Users, RemoveParticipant(v), NEW ch \in Channels, NEW u \in Users
    PROVE  rooms'[ch][u] \in {0, rooms[ch][u]}
<1>1. rooms'[ch] = [rooms[ch] EXCEPT ![v] = 0] /\ rooms[ch] \in Occupancy
  BY DEF RemoveParticipant, TypeOK
<1> QED
  BY <1>1 DEF Occupancy

\* Of the webhooks only participant_joined records somebody.
LEMMA WebhookRecords ==
    ASSUME TypeOK, NEW h \in hooks, DeliverWebhook(h), NEW ch \in Channels, NEW u \in Users,
           rooms'[ch][u] \notin {0, rooms[ch][u]}
    PROVE  Records(ch, u)
<1>a. h \in Hooks /\ h.channel \in Channels /\ rooms \in [Channels -> Occupancy]
  BY DEF TypeOK, Hooks
<1>1. CASE h.event = "joined"
  <2>1. Joined(h) /\ h.user \in Users
    BY <1>1, <1>a DEF DeliverWebhook, Hooks
  <2> DEFINE t == targets[h.user]
             elsewhere == t.channel \notin {None, h.channel}
             recorded == [rooms EXCEPT ![h.channel][h.user] = h.gen]
  <2>2. ~(Valid(t) /\ ~Accepts(t, h.channel, h.gen))
    BY <2>1 DEF Joined
  <2>3. rooms' = IF elsewhere THEN [recorded EXCEPT ![t.channel][h.user] = 0] ELSE recorded
    BY <2>1, <2>2 DEF Joined
  <2>4. h.gen \in 0..MaxGen
    BY <1>a DEF Hooks
  <2>5. recorded \in [Channels -> Occupancy]
    BY <1>a, <2>1, <2>4 DEF Occupancy
  <2>6. recorded[ch][u] = rooms[ch][u] \/ (ch = h.channel /\ u = h.user /\ recorded[ch][u] = h.gen)
    BY <1>a, <2>1 DEF Occupancy
  <2>7. rooms'[ch][u] \in {0, recorded[ch][u]}
    <3> HIDE DEF recorded
    <3>1. CASE elsewhere
      <4>1. rooms' = [recorded EXCEPT ![t.channel][h.user] = 0]
        BY <2>3, <3>1
      <4> QED
        BY <2>5, <4>1 DEF Occupancy
    <3> QED
      BY <2>3, <3>1
  <2> QED
    BY <2>2, <2>6, <2>7 DEF Records
<1>2. CASE h.event = "left"
  <2>1. Left(h)
    BY <1>2 DEF DeliverWebhook
  <2>2. rooms' \in {rooms, [rooms EXCEPT ![h.channel][h.user] = 0]}
    BY <2>1 DEF Left
  <2> QED
    BY <1>a, <2>2 DEF Occupancy
<1>3. CASE h.event = "finished"
  <2>1. rooms' = [rooms EXCEPT ![h.channel] = Empty]
    BY <1>3 DEF DeliverWebhook, Finished
  <2> QED
    BY <1>a, <2>1 DEF Empty
<1> QED
  BY <1>1, <1>2, <1>3, <1>a DEF Hooks

\* No step records anybody otherwise.
LEMMA StepRecords ==
    ASSUME TypeOK, [Next]_vars, NEW ch \in Channels, NEW u \in Users,
           rooms'[ch][u] \notin {0, rooms[ch][u]}
    PROVE  Records(ch, u)
<1>1. CASE UNCHANGED rooms
  BY <1>1
<1>2. ASSUME NEW e \in expulsions, ExpelForget(e)
      PROVE  Records(ch, u)
  <2>1. rooms' \in {rooms, [rooms EXCEPT ![e.channel][e.user] = 0]}
    BY <1>2 DEF ExpelForget
  <2>2. e.channel \in Channels /\ e.user \in Users /\ rooms \in [Channels -> Occupancy]
    BY DEF TypeOK, Expulsions
  <2>3. CASE rooms' = [rooms EXCEPT ![e.channel][e.user] = 0]
    BY <2>2, <2>3 DEF Occupancy
  <2> QED
    BY <2>1, <2>3
<1>3. ASSUME NEW r \in removals, RemoveFromGuild(r)
      PROVE  Records(ch, u)
  BY <1>3, RemovalRecordsNobody DEF RemoveFromGuild, TypeOK, Removals
<1>4. CASE \E v \in Users : RemoveFromVoice(v)
  BY <1>4, RemovalRecordsNobody DEF RemoveFromVoice
<1>5. CASE \E d \in Channels : DeleteChannel(d)
  BY <1>5, DeletionRecordsNobody DEF DeleteChannel
<1>6. CASE Handlers
  BY <1>1, <1>2, <1>3, <1>4, <1>5, <1>6, WebhookRecords
     DEF Handlers, JoinCredentials, CheckGuild, ExpelCheck, IssueToken, TokenFails, ExpelSend
<1>7. CASE ReconcileApply
  <2>1. CASE reconcile.revised
    BY <1>1, <1>7, <2>1 DEF ReconcileApply
  <2>2. CASE ~reconcile.revised
    <3>1. rooms'[ch][u] = Recorded(ch, u)
      BY <1>7, <2>2 DEF ReconcileApply
    <3> QED
      BY <1>7, <2>2, <3>1 DEF Records
  <2> QED
    BY <2>1, <2>2
<1>8. CASE ReconcilePrune
  BY <1>8, DeletionRecordsNobody DEF ReconcilePrune
<1>9. CASE Reconciler /\ ~ReconcileApply /\ ~ReconcilePrune
  BY <1>1, <1>9 DEF Reconciler, ReconcileBegin, ReconcileFail, ReconcileRead
<1>10. CASE Restart
  BY <1>10 DEF Restart, Vacant, Empty
<1>11. CASE Environment /\ ~Restart
  BY <1>1, <1>11 DEF Environment, Connect, CloseRoom, Disconnect, KickArrives, DeleteRoomArrives,
                     Lose, Expire
<1>12. CASE UNCHANGED vars
  BY <1>1, <1>12 DEF vars
<1> QED
  BY <1>6, <1>7, <1>8, <1>9, <1>10, <1>11, <1>12 DEF Next

\* So only current tokens are admitted.
LEMMA AdmissionStep ==
    ASSUME TypeOK, SnapshotCurrent, [Next]_vars
    PROVE  AdmitsOnlyCurrent
<1> SUFFICES ASSUME NEW u \in Users, NEW ch \in Channels, Valid(targets[u]),
                    rooms'[ch][u] \notin {0, rooms[ch][u]}
             PROVE  Accepts(targets[u], ch, rooms'[ch][u])
  BY DEF AdmitsOnlyCurrent
<1>1. Records(ch, u)
  BY StepRecords
<1>2. ASSUME ReconcileApply, ~reconcile.revised, rooms'[ch][u] = Recorded(ch, u)
      PROVE  Accepts(targets[u], ch, rooms'[ch][u])
  <2>1. targets[u] # NoTarget
    BY DEF Valid, NoTarget, TypeOK
  <2>2. reconcile.targets[u] = targets[u]
    BY <1>2, <2>1 DEF SnapshotCurrent, ReconcileApply
  <2>3. ch \in Admissible(u) /\ rooms'[ch][u] = reconcile.observed[ch][u]
    BY <1>2 DEF Recorded, Newest
  <2> QED
    BY <2>2, <2>3 DEF Admissible
<1> QED
  BY <1>1, <1>2 DEF Records

\* And whoever is barred stays so.
LEMMA BarringStep ==
    ASSUME TypeOK, BeliefsIssued, SnapshotCurrent, [Next]_vars
    PROVE  KeepsBarred
<1> SUFFICES ASSUME NEW u \in Users, Barred(u), ~Restart, ~(\E m \in mints : TokenFails(m))
             PROVE  \/ targets'[u].channel = None \/ ~(targets'[u].gen > stale')
                    \/ targets'[u].gen > targets[u].gen
  BY DEF KeepsBarred, Barred, Valid
<1>1. Valid(targets[u]) /\ targets[u].channel = None
  BY DEF Barred
<1>2. Retargets(u)
  BY StepRetargets
<1>3. targets[u] \in Targets /\ targets[u].gen <= generation /\ generation \in Nat
  BY DEF TypeOK, BeliefsIssued
<1>4. CASE targets'[u] \in {targets[u], NoTarget} \/ targets'[u] = Revoked(targets[u])
           \/ targets'[u] = [targets[u] EXCEPT !.channel = None]
  <2>1. targets'[u].channel = None
    BY <1>1, <1>3, <1>4 DEF Revoked, NoTarget, Targets
  <2> QED
    BY <2>1
<1>5. CASE targets'[u].gen = generation' /\ generation' > generation
  <2>1. generation' \in Nat /\ targets[u].gen \in Nat
    BY <1>3, GenerationsGrow DEF Targets, NoTarget
  <2> QED
    BY <1>3, <1>5, <2>1
<1>6. CASE \E h \in hooks : Valid(targets[u]) => Accepts(targets[u], h.channel, h.gen)
  BY <1>1, <1>6 DEF Accepts
<1>7. CASE ReconcileApply /\ ~reconcile.revised /\ targets'[u] = Retargeted(u)
  <2>1. targets[u] # NoTarget
    BY <1>1 DEF Valid, NoTarget, TypeOK
  <2>2. reconcile.targets[u] = targets[u]
    BY <1>7, <2>1 DEF SnapshotCurrent, ReconcileApply
  <2>3. Newest(u) = {}
    BY <1>1, <2>2 DEF Newest, Admissible, Accepts
  <2> QED
    BY <1>1, <1>7, <2>2, <2>3, RetargetedFrom
<1> QED
  BY <1>2, <1>4, <1>5, <1>6, <1>7 DEF Retargets

\* The inductive invariant.
VoiceInvariant == TypeOK /\ LinksIssued /\ BeliefsIssued /\ SnapshotCurrent

\* It holds from the start on.
LEMMA VoiceInvariantHolds == Spec => []VoiceInvariant
<1>1. Init => VoiceInvariant
  <2> SUFFICES ASSUME Init
               PROVE  VoiceInvariant
    OBVIOUS
  <2>1. TypeOK
    BY TypeInit
  <2>2. \A ch \in Channels, u \in Users : conn[ch][u] = 0 /\ reconcile.observed[ch][u] = 0
    BY DEF Init, Idle, Vacant, Empty
  <2>3. \A u \in Users : targets[u].gen = 0 /\ reconcile.targets[u].gen = 0
    BY DEF Init, Idle, NoTarget
  <2>4. generation = 0 /\ tokens = {} /\ mints = {} /\ hooks = {} /\ reconcile.at = "idle"
    BY DEF Init, Idle
  <2> QED
    BY <2>1, <2>2, <2>3, <2>4 DEF VoiceInvariant, LinksIssued, BeliefsIssued, SnapshotCurrent
<1>2. VoiceInvariant /\ [Next]_vars => VoiceInvariant'
  BY TypeStep, LinksStep, BeliefsStep, SnapshotStep DEF VoiceInvariant
<1> QED
  BY <1>1, <1>2, PTL DEF Spec

\* Whichever of webhook, Refresh and handler comes late, nobody is recorded
\* with a token that has been replaced (livekit.go:352-429).
THEOREM ReplacedStayOut == Spec => OnlyCurrentAdmitted
<1>1. VoiceInvariant /\ [Next]_vars => [AdmitsOnlyCurrent]_vars
  BY AdmissionStep DEF VoiceInvariant
<1> QED
  BY <1>1, VoiceInvariantHolds, PTL DEF Spec, OnlyCurrentAdmitted

\* Whoever is removed from voice stays barred until a newer token is issued or
\* the TTL of the old one is over (livekit.go:177-208).
THEOREM RemovalsHold == Spec => RevocationHolds
<1>1. VoiceInvariant /\ [Next]_vars => [KeepsBarred]_vars
  BY BarringStep DEF VoiceInvariant
<1> QED
  BY <1>1, VoiceInvariantHolds, PTL DEF Spec, RevocationHolds
=============================================================================
