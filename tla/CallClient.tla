------------------------------ MODULE CallClient ------------------------------
(***************************************************************************)
(* One browser's side of 1:1 calls: the state machine and the LiveKit room *)
(* of web/src/stores/voice-call.ts, the terminal reasons and messages of   *)
(* call-signal.ts, the phase effects of call-experience.ts and the actions *)
(* CallOverlay.vue offers.  The server (see CallCoordinator) and the peer  *)
(* are the environment.                                                    *)
(*                                                                         *)
(* Signals come over the websocket in order; answers to requests come on   *)
(* connections of their own, so a signal and an answer may cross.          *)
(*                                                                         *)
(* The client's refs and variables are one record; what a handler does     *)
(* between two awaits is a function of it.  An operator named X_Fault is X *)
(* with a plausible mistake in it, unused.                                 *)
(***************************************************************************)
EXTENDS Naturals, Sequences

CONSTANTS
    MaxCalls,    \* bound: calls the server creates
    MaxClicks,   \* bound: actions of the user
    MaxUpsets    \* bound: changes of the microphone preference, and requests,
                 \* signals and LiveKit calls that fail

ASSUME CallClientAssumption ==
    MaxCalls \in Nat /\ MaxClicks \in Nat /\ MaxUpsets \in Nat

VARIABLES
    client,  \* the stores of one browser
    acts,    \* its requests under way, startCall's and the token's apart
    calls,   \* the server's calls with this user, in order
    wire,    \* signals under way to this browser
    spent,   \* bounds: clicks, toggles and failures so far
    lost     \* history: a request, an answer or a signal was lost

vars == <<client, acts, calls, wire, spent, lost>>

None == 0            \* no call, no room, no session
NoReason == "none"
Refusals == {"busy", "unavailable", "unreachable"}
Reasons == Refusals \cup {"rejected", "canceled", "timeout", "ended", "disconnected"}
Kinds == {"accept", "reject", "block", "rejectBlocked", "cancel", "hangup"}

\* parseCallSignal: what an event ends with, whether or not it says so.
Events == {"invite", "accept", "busy", "unavailable", "unreachable", "reject", "cancel",
           "timeout", "end"}
ReasonByEvent(event) ==
    CASE event = "reject" -> "rejected" [] event = "cancel" -> "canceled"
      [] event = "end" -> "ended" [] OTHER -> event
ParseCallSignal(s) ==
    [call |-> s.call, type |-> IF s.event \in {"invite", "accept"} THEN s.event
                               ELSE IF s.reason \in Reasons THEN s.reason
                               ELSE ReasonByEvent(s.event)]

Statuses == {"idle", "outgoing", "ringing", "active"}
Signals == [call : Nat, type : Reasons \cup {"invite", "accept"}]
Rooms == [sess : Nat, call : Nat, up : BOOLEAN]
Joins == [sess : Nat, call : Nat, pc : {"token", "connect", "mic", "hangup"}]
Applies == [rev : Nat, sess : Nat, on : BOOLEAN, join : BOOLEAN]

\* A crossing is "over" when an accept is answered after the end of its call was
\* handled, with no other call shown; it is "other" when an answer or an invitation
\* comes while another call is shown, or the refusal of a blocked call's rejection.
Crossings == {"no", "over", "other"}

\* The call-experience watcher's last status is "seen".
Clients ==
    [status : Statuses, call : Nat, reason : Reasons \cup {NoReason},
     starting : {"no", "posted", "refused", "created", "failed"},  \* startCall's request
     created : Nat,                          \* what the answer to it says
     pending : Seq(Signals),
     session : Nat, room : Nat, reconnecting : BOOLEAN,
     rooms : SUBSET Rooms,                   \* not disconnected
     contexts : SUBSET Nat, held : Nat,      \* AudioContexts open, and the fields'
     joins : SUBSET Joins,
     pref : BOOLEAN,                         \* callMicrophoneEnabled
     mic : BOOLEAN, muted : BOOLEAN,         \* published in room; shown as muted
     rev : Nat, applies : Seq(Applies),
     seen : Statuses,
     loop : {"none", "call-outgoing", "call-incoming"}, deafen : BOOLEAN,
     toast : Reasons \cup {NoReason}, shown : Nat,   \* history: the call last shown
     crossed : Crossings]                    \* history: an answer and a signal crossed

Requested == [kind : Kinds, call : 1..MaxCalls, sess : Nat,
              stage : {"sent", "ok", "refused", "gone", "failed"}]
Calls == [mine : BOOLEAN, state : {"ringing", "active", "ended"}, in : {"no", "joined", "seen"},
          by : {"me", "peer"}, reason : Reasons \cup {NoReason}, rang : BOOLEAN]
Sent == [call : 1..MaxCalls, event : Events, reason : Reasons \cup {NoReason}]

TypeOK ==
    /\ client \in Clients
    /\ acts \subseteq Requested
    /\ calls \in Seq(Calls)
    /\ wire \in Seq(Sent)
    /\ spent \in [clicks : 0..MaxClicks, toggles : 0..MaxUpsets, failures : 0..MaxUpsets]
    /\ lost \in BOOLEAN

Init ==
    /\ \E pref \in BOOLEAN :
        client = [status |-> "idle", call |-> None, reason |-> NoReason, starting |-> "no",
                  created |-> None, pending |-> <<>>, session |-> 0, room |-> None,
                  reconnecting |-> FALSE, rooms |-> {}, contexts |-> {}, held |-> None,
                  joins |-> {}, pref |-> pref, mic |-> FALSE, muted |-> FALSE, rev |-> 0,
                  applies |-> <<>>, seen |-> "idle", loop |-> "none", deafen |-> FALSE,
                  toast |-> NoReason, shown |-> None, crossed |-> "no"]
    /\ acts = {} /\ calls = <<>> /\ wire = <<>>
    /\ spent = [clicks |-> 0, toggles |-> 0, failures |-> 0]
    /\ lost = FALSE

-----------------------------------------------------------------------------
(* What the handlers do to the client. *)

CallTerminalSide(previous) ==
    CASE previous = "outgoing" -> "caller" [] previous = "ringing" -> "callee"
      [] OTHER -> "none"

\* callTerminalMessage: the reason a toast tells, if any.
CallTerminalMessage_CallerOnly(reason, side) ==
    IF reason = "disconnected" \/ (side = "caller" /\ reason # "canceled")
    THEN reason ELSE NoReason

CallTerminalMessage(reason, side) ==
    IF \/ reason = "disconnected"
       \/ reason \in Refusals \cup {"rejected"} /\ side = "caller"
       \/ reason = "canceled" /\ side = "callee"
       \/ reason = "timeout" /\ side # "none"
    THEN reason ELSE NoReason

\* The watcher of call-experience runs before the next task.
Experience(c) ==
    IF c.status = c.seen THEN c
    ELSE [c EXCEPT !.seen = c.status,
            !.deafen = c.status \in {"outgoing", "active"},
            !.loop = CASE c.status = "outgoing" -> "call-outgoing"
                       [] c.status = "ringing" -> "call-incoming" [] OTHER -> "none",
            !.toast = IF c.status # "idle" \/ c.reason = NoReason THEN NoReason
                      ELSE CallTerminalMessage(c.reason, CallTerminalSide(c.seen))]

Become(c) == client' = [Experience(c) EXCEPT !.shown = IF c.call # None THEN c.call ELSE @]

ResetLocalState(c) ==
    [c EXCEPT !.status = "idle", !.reconnecting = FALSE, !.call = None, !.muted = FALSE]

EndSession(c, reason) ==
    [ResetLocalState(c) EXCEPT !.session = @ + 1, !.reason = reason, !.mic = FALSE,
        !.rooms = {r \in @ : r.sess # c.room}, !.room = None,
        !.contexts = @ \ {c.held}, !.held = None]

Apply(c, join) ==
    [c EXCEPT !.rev = @ + 1,
              !.applies = Append(@, [rev |-> c.rev + 1, sess |-> c.session, on |-> c.pref,
                                     join |-> join])]

\* joinRoom up to the request of the token.
JoinRoom(c) ==
    IF c.call = None THEN c
    ELSE [c EXCEPT !.session = @ + 1, !.contexts = @ \ {c.held}, !.held = None,
                   !.joins = @ \cup {[sess |-> c.session + 1, call |-> c.call, pc |-> "token"]}]

\* What becomes of "crossed" at an invitation beside a call, and at an answer.
Beside(crossed, invited) == IF invited /\ crossed = "no" THEN "other" ELSE crossed

Crossed(c, a, idle) ==
    IF c.call = a.call \/ c.crossed = "other" THEN c.crossed
    ELSE IF c.status = "idle" THEN idle ELSE "other"

\* The switch of handleSignal, on a signal that need not wait.
Handled(c, s) ==
    IF s.call # c.call /\ c.status # "idle" THEN [c EXCEPT !.crossed = Beside(@, s.type = "invite")]
    ELSE CASE s.type = "invite" -> [c EXCEPT !.status = "ringing", !.call = s.call, !.reason = NoReason]
           [] s.type = "accept" -> IF c.status # "outgoing" THEN c
                                   ELSE JoinRoom([c EXCEPT !.status = "active"])
           [] OTHER -> EndSession(c, s.type)

HandleSignal_AcceptEnds(c, s) ==
    IF c.starting # "no" /\ c.status = "outgoing" /\ c.call = None
    THEN [c EXCEPT !.pending = Append(@, s)]
    ELSE IF s.type = "accept" /\ c.call = s.call /\ c.status # "outgoing"
         THEN EndSession(c, s.type) ELSE Handled(c, s)

\* While the answer with the id of a new call is on its way, signals wait for it.
HandleSignal(c, s) ==
    IF c.starting # "no" /\ c.status = "outgoing" /\ c.call = None
    THEN [c EXCEPT !.pending = Append(@, s)]
    ELSE Handled(c, s)

\* startCall's answer: an end forgets the signals that came before it, a call
\* has them handled now.
Invited(c) == \E i \in DOMAIN c.pending : c.pending[i].type = "invite"

StartRefused(c, reason) ==
    ResetLocalState([c EXCEPT !.pending = <<>>, !.reason = reason, !.starting = "no",
                              !.crossed = Beside(@, Invited(c))])

Replayed(c, signals) ==
    LET after[n \in 0..Len(signals)] ==
            IF n = 0 THEN c ELSE HandleSignal(after[n - 1], signals[n])
    IN  after[Len(signals)]

StartCreated(c, id) ==
    [Replayed([c EXCEPT !.call = id, !.pending = <<>>], c.pending)
        EXCEPT !.starting = "no", !.created = None, !.shown = id,
               !.crossed = Beside(@, Invited(c))]

-----------------------------------------------------------------------------
(* The user. *)

\* CallOverlay shows no button while reconnecting; the rest of the interface
\* lets the user call only when no call is shown (startCall's guard).
Offered(c) ==
    IF c.reconnecting THEN {}
    ELSE CASE c.status = "outgoing" -> {"cancel"}
           [] c.status = "ringing" -> {"accept", "reject", "block"}
           [] c.status = "active" -> {"hangup"}
           [] OTHER -> {}

Same == UNCHANGED <<calls, wire, lost>>
Calm == spent.toggles + spent.failures < MaxUpsets
Click == spent.clicks < MaxClicks /\ spent' = [spent EXCEPT !.clicks = @ + 1]

\* Bound: one request of startCall at a time (a second one could begin only
\* after an answer had crossed it and ended the first's call).
StartCall ==
    /\ Click /\ client.status = "idle" /\ client.starting = "no"
    /\ Become([client EXCEPT !.status = "outgoing", !.call = None, !.reason = NoReason,
                             !.starting = "posted", !.shown = None])
    /\ UNCHANGED acts /\ Same

Act(kind) ==
    /\ Click /\ kind \in Offered(client) /\ client.call # None
    /\ acts' = acts \cup {[kind |-> kind, call |-> client.call, sess |-> None, stage |-> "sent"]}
    /\ UNCHANGED client /\ Same

\* The microphone preference or the global deafening changes: the watchers
\* tell the orchestrator once the call has a room.
TogglePreference ==
    /\ Calm /\ spent' = [spent EXCEPT !.toggles = @ + 1]
    /\ LET c == [client EXCEPT !.pref = ~@] IN
        client' = IF c.room # None /\ c.status = "active" THEN Apply(c, FALSE) ELSE c
    /\ UNCHANGED acts /\ Same

-----------------------------------------------------------------------------
(* Answers. *)

Fault == Calm /\ spent' = [spent EXCEPT !.failures = @ + 1]

StartAnswered ==
    /\ client.starting \in {"refused", "created", "failed"}
    /\ CASE client.starting = "created" -> Become(StartCreated(client, client.created))
         [] client.starting = "refused" -> \E r \in Refusals : Become(StartRefused(client, r))
         [] client.starting = "failed" -> Become(StartRefused(client, NoReason))
    /\ UNCHANGED <<acts, spent>> /\ Same

\* The handlers end the session that is current when they are answered.
EndAfter(a, reason) ==
    Become([EndSession(client, reason) EXCEPT !.crossed = Crossed(client, a, client.crossed)])

ActAnswered(a) ==
    /\ a.stage # "sent"
    /\ acts' = (acts \ {a}) \cup
               (IF a.kind = "block" /\ a.stage = "ok"
                THEN {[a EXCEPT !.kind = "rejectBlocked", !.stage = "sent"]} ELSE {})
    /\ IF a.kind = "hangup" /\ a.sess # None
       THEN \* joinRoom's own: whatever the answer
            LET c == [client EXCEPT !.joins = {j \in @ : j.sess # a.sess}] IN
            IF a.sess = c.session THEN Become(EndSession(c, "disconnected")) ELSE client' = c
       ELSE IF a.stage = "ok"
       THEN CASE a.kind = "accept" ->
                    Become(JoinRoom([client EXCEPT !.status = "active",
                                                   !.crossed = Crossed(client, a, "over")]))
              [] a.kind \in {"reject", "rejectBlocked"} -> EndAfter(a, "rejected")
              [] a.kind = "cancel" -> EndAfter(a, "canceled")
              [] a.kind = "hangup" -> EndAfter(a, "ended")
              [] a.kind = "block" -> UNCHANGED client
       ELSE IF a.kind = "rejectBlocked" /\ a.stage = "refused"
       THEN \* "call_not_ringing" is read as over: here it was accepted meanwhile
            Become([EndSession(client, "rejected") EXCEPT !.crossed = "other"])
       ELSE UNCHANGED client
    /\ UNCHANGED spent /\ Same

\* joinRoom goes on: each step only in the session it was begun in.
Left(c, j) == [c EXCEPT !.joins = @ \ {j}]
Stage(c, j, pc) == [c EXCEPT !.joins = (@ \ {j}) \cup {[j EXCEPT !.pc = pc]}]

\* Its catch: the server is told to hang up before the session ends.
JoinFails(c, j) ==
    IF j.sess # c.session THEN client' = Left(c, j) /\ UNCHANGED acts
    ELSE IF c.call = None
    THEN Become(EndSession(Left(c, j), "disconnected")) /\ UNCHANGED acts
    ELSE /\ client' = Stage(c, j, "hangup")
         /\ acts' = acts \cup {[kind |-> "hangup", call |-> c.call, sess |-> j.sess,
                                stage |-> "sent"]}

WithRoom(c, j) ==
    [Stage(c, j, "connect") EXCEPT
        !.room = j.sess, !.rooms = @ \cup {[sess |-> j.sess, call |-> j.call, up |-> FALSE]},
        !.held = j.sess, !.contexts = @ \cup {j.sess}]

\* The token may have been issued while the call still was active.
TokenAnswered_Unguarded(j) ==
    /\ j.pc = "token"
    /\ client' = WithRoom(client, j)
    /\ UNCHANGED <<acts, spent>> /\ Same

TokenAnswered(j) ==
    /\ j.pc = "token"
    /\ client' = IF j.sess # client.session \/ client.status # "active" THEN Left(client, j)
                 ELSE WithRoom(client, j)
    /\ UNCHANGED <<acts, spent>> /\ Same

TokenFails(j) ==
    /\ j.pc = "token"
    /\ IF calls[j.call].state = "active" THEN Fault ELSE UNCHANGED spent
    /\ JoinFails(client, j)
    /\ Same

Open(j) == \E r \in client.rooms : r.sess = j.sess
Connected(c, j) ==
    [c EXCEPT !.rooms = {IF r.sess = j.sess THEN [r EXCEPT !.up = TRUE] ELSE r : r \in @}]

ConnectAnswered(j) ==
    /\ j.pc = "connect" /\ Open(j)
    /\ client' = LET c == Connected(client, j) IN
                 IF j.sess # c.session \/ c.room # j.sess THEN Left(c, j)
                 ELSE Apply(Stage(c, j, "mic"), TRUE)
    /\ calls' = [calls EXCEPT ![j.call].in = "joined"]
    /\ UNCHANGED <<acts, spent, wire, lost>>

ConnectFails(j) ==
    /\ j.pc = "connect"
    /\ IF Open(j) THEN Fault ELSE UNCHANGED spent
    /\ JoinFails(client, j)
    /\ Same

\* The orchestrator ends its first call: superseded or of an old session it has
\* done nothing; its caller goes on all the same.
MicrophoneApplied(ok) ==
    /\ client.applies # <<>>
    /\ LET a == Head(client.applies)
           current == a.rev = client.rev /\ a.sess = client.session
           c == [client EXCEPT !.applies = Tail(@),
                               !.mic = IF ok /\ current THEN a.on ELSE @]
           own == {j \in c.joins : a.join /\ j.sess = a.sess} IN
        /\ IF ok THEN UNCHANGED spent ELSE current /\ Fault
        /\ IF ok
           THEN /\ client' = [c EXCEPT !.muted = IF a.sess = c.session THEN ~a.on ELSE @,
                                       !.joins = @ \ own]
                /\ UNCHANGED acts
           ELSE IF own = {} THEN client' = c /\ UNCHANGED acts
           ELSE JoinFails(c, CHOOSE x \in own : TRUE)
    /\ Same

\* LiveKit gives a connected room up.
Disconnects_KeepsCall(r) ==
    client' = [client EXCEPT !.rooms = @ \ {r},
                             !.room = IF @ = r.sess THEN None ELSE @, !.reconnecting = FALSE]

Disconnects(r) ==
    IF client.room # r.sess THEN client' = [client EXCEPT !.rooms = @ \ {r}]
    ELSE Become(EndSession(client, "disconnected"))

RoomFails(r) ==
    /\ r.up /\ Fault
    /\ Disconnects(r)
    /\ UNCHANGED acts /\ Same

Reconnecting(on) ==
    /\ IF on THEN Fault ELSE UNCHANGED spent
    /\ \E r \in client.rooms : r.up /\ r.sess = client.room
    /\ client.reconnecting # on
    /\ client' = [client EXCEPT !.reconnecting = on]
    /\ UNCHANGED acts /\ Same

DeliverSignal ==
    /\ wire # <<>>
    /\ Become(HandleSignal(client, ParseCallSignal(Head(wire))))
    /\ wire' = Tail(wire)
    /\ UNCHANGED <<acts, calls, spent, lost>>

-----------------------------------------------------------------------------
(* The server and the peer. *)

Live == {i \in DOMAIN calls : calls[i].state # "ended"}
NewCall(mine) == [mine |-> mine, state |-> "ringing", in |-> "no", by |-> "me",
                  reason |-> NoReason, rang |-> TRUE]
Ended(i, by, reason) ==
    [calls EXCEPT ![i].state = "ended", ![i].by = by, ![i].reason = reason,
                  ![i].rang = calls[i].state = "ringing"]
Signal(i, event, reason) == Append(wire, [call |-> i, event |-> event, reason |-> reason])

\* POST /api/calls: one live call for each user.  What StartCall says of a call
\* it refused is signalled to the caller as well.
ServerStarts ==
    /\ client.starting = "posted"
    /\ \/ /\ Live = {} /\ Len(calls) < MaxCalls
          /\ calls' = Append(calls, NewCall(TRUE))
          /\ client' = [client EXCEPT !.starting = "created", !.created = Len(calls) + 1]
       \/ client' = [client EXCEPT !.starting = "refused"] /\ UNCHANGED calls
    /\ UNCHANGED <<acts, wire, spent, lost>>

\* The request, or only its answer, is lost.
StartLost ==
    /\ client.starting \in {"posted", "created"} /\ Fault
    /\ client' = [client EXCEPT !.starting = "failed", !.created = None]
    /\ lost' = TRUE
    /\ UNCHANGED <<acts, calls, wire>>

\* The state of the call that each request is for, and the end it brings.
Wanted(kind) == IF kind = "hangup" THEN "active" ELSE "ringing"
EndOf(kind) == CASE kind = "cancel" -> "canceled" [] kind = "hangup" -> "ended"
                 [] OTHER -> "rejected"

\* An ended call is evicted at once, so that a request that comes too late is
\* told "not found" and not "not ringing".
ServerActs(a) ==
    /\ a.stage = "sent"
    /\ LET state == calls[a.call].state
           stage == IF a.kind = "block" \/ state = Wanted(a.kind) THEN "ok"
                    ELSE IF state = "ended" THEN "gone" ELSE "refused" IN
        /\ acts' = (acts \ {a}) \cup {[a EXCEPT !.stage = stage]}
        /\ calls' = IF stage # "ok" \/ a.kind = "block" THEN calls
                    ELSE IF a.kind = "accept" THEN [calls EXCEPT ![a.call].state = "active"]
                    ELSE Ended(a.call, "me", EndOf(a.kind))
    /\ UNCHANGED <<client, wire, spent, lost>>

ActLost(a) ==
    /\ a.stage \in {"sent", "ok"} /\ Fault
    /\ acts' = (acts \ {a}) \cup {[a EXCEPT !.stage = "failed"]}
    /\ lost' = TRUE
    /\ UNCHANGED <<client, calls, wire>>

PeerInvites ==
    /\ Live = {} /\ Len(calls) < MaxCalls
    /\ calls' = Append(calls, NewCall(FALSE))
    /\ wire' = Signal(Len(calls) + 1, "invite", NoReason)
    /\ UNCHANGED <<client, acts, spent, lost>>

PeerAccepts(i) ==
    /\ calls[i].state = "ringing" /\ calls[i].mine
    /\ calls' = [calls EXCEPT ![i].state = "active"]
    /\ wire' = Signal(i, "accept", NoReason)
    /\ UNCHANGED <<client, acts, spent, lost>>

PeerEnds(i, reason) ==
    /\ CASE calls[i].state = "ringing" -> reason \in {"timeout", IF calls[i].mine THEN "rejected" ELSE "canceled"}
         [] calls[i].state = "active" -> reason = "ended" \/ (reason = "disconnected" /\ calls[i].in = "seen")
         [] OTHER -> FALSE
    /\ calls' = Ended(i, "peer", reason)
    /\ wire' = Signal(i, CASE reason = "rejected" -> "reject" [] reason = "canceled" -> "cancel"
                            [] reason = "timeout" -> "timeout" [] OTHER -> "end", reason)
    /\ UNCHANGED <<client, acts, spent, lost>>

\* The peer is seen to leave before this user is seen in the room: the call
\* ends and this user is not told.
PeerVanishes(i) ==
    /\ calls[i].state = "active" /\ calls[i].in # "seen"
    /\ calls' = Ended(i, "peer", "disconnected")
    /\ UNCHANGED <<client, acts, wire, spent, lost>>

\* LiveKit's webhooks of a room that was "joined": who is not admitted is removed, whose room is gone has left.
ServerSeesRoom(i) ==
    LET up == {r \in client.rooms : r.up /\ r.call = i} IN
    /\ \/ /\ up # {} /\ calls[i].in = "joined" /\ calls[i].state = "active"
          /\ calls' = [calls EXCEPT ![i].in = "seen"] /\ UNCHANGED client
       \/ /\ up # {} /\ calls[i].in = "joined" /\ calls[i].state = "ended"
          /\ \E r \in up : Disconnects(r)
          /\ UNCHANGED calls
       \/ /\ up = {} /\ calls[i].in # "no"
          /\ calls' = [(IF calls[i].state = "active" THEN Ended(i, "me", "disconnected")
                        ELSE calls) EXCEPT ![i].in = "no"]
          /\ UNCHANGED client
    /\ UNCHANGED <<acts, wire, spent, lost>>

SignalLost ==
    /\ wire # <<>> /\ Fault
    /\ wire' = Tail(wire) /\ lost' = TRUE
    /\ UNCHANGED <<client, acts, calls>>

-----------------------------------------------------------------------------
Requests ==
    \/ StartAnswered \/ ServerStarts
    \/ \E a \in acts : ServerActs(a) \/ ActAnswered(a)

Joining ==
    \/ \E j \in client.joins : TokenAnswered(j) \/ ConnectAnswered(j)
                            \/ TokenFails(j) \/ ConnectFails(j)
    \/ \E ok \in BOOLEAN : MicrophoneApplied(ok)

Watching == \E i \in DOMAIN calls : ServerSeesRoom(i)

User == StartCall \/ TogglePreference \/ \E kind \in Kinds : Act(kind)

Peer ==
    \/ PeerInvites
    \/ \E i \in DOMAIN calls :
        PeerAccepts(i) \/ PeerVanishes(i) \/ \E r \in Reasons : PeerEnds(i, r)

Faults ==
    \/ StartLost \/ SignalLost
    \/ \E a \in acts : ActLost(a)
    \/ \E r \in client.rooms : RoomFails(r)

Next ==
    \/ Requests \/ Joining \/ Watching \/ DeliverSignal
    \/ User \/ Peer \/ Faults
    \/ \E on \in BOOLEAN : Reconnecting(on)

Spec == Init /\ [][Next]_vars

\* Requests are answered, signals and webhooks arrive; users need do nothing.
FairSpec ==
    Spec /\ WF_vars(Requests \/ Joining \/ Watching \/ DeliverSignal)

-----------------------------------------------------------------------------
(* Properties. *)

Quiet == /\ acts = {} /\ wire = <<>> /\ client.starting = "no"
         /\ client.joins = {} /\ client.applies = <<>>
         /\ \A i \in DOMAIN calls :
                calls[i].in = IF \E r \in client.rooms : r.up /\ r.call = i THEN "seen" ELSE "no"

\* Every room that was built and not disconnected is the one the store holds,
\* for a call the overlay shows as active, with the store's audio contexts: no
\* way through joinRoom and endSession leaves a second connection behind,
\* unless the crossing was "other".
NoRoomLeft ==
    client.crossed # "other" =>
    /\ \A r \in client.rooms : r.sess = client.room
    /\ client.room # None => client.status = "active" /\ client.rooms # {}
    /\ client.contexts = IF client.held = None THEN {} ELSE {client.held}
    /\ client.held = client.room

\* When nothing is under way, no request and no signal was lost and no crossing
\* was "other", the overlay shows what the server knows: idle without a live
\* call, else that call in that state.  When an accept was answered after the
\* end of its own call, it does not: it shows an active call that is none.
OverlayAgrees ==
    (Quiet /\ ~lost /\ client.crossed # "other") =>
        IF client.crossed = "over" THEN client.status = "active" /\ client.call = None
        ELSE IF Live = {} THEN client.status = "idle" /\ client.call = None
        ELSE \A i \in Live :
                /\ client.call = i
                /\ client.status = IF calls[i].state = "active" THEN "active"
                                   ELSE IF calls[i].mine THEN "outgoing" ELSE "ringing"

\* At rest in a call the microphone is published as the preference wants it,
\* and shown so, whatever toggles overlapped the joining, unless the crossing
\* was "other": that can leave a room behind that no watcher looks at.
MicrophoneAsPreferred ==
    (Quiet /\ client.room # None /\ spent.failures = 0 /\ client.crossed # "other") =>
        client.mic = client.pref /\ client.muted = ~client.pref

\* The client's room, overlay and microphone are those of its call, or there is
\* no call and, for the rest of the page's life, an overlay of one.
CallAgrees == NoRoomLeft /\ OverlayAgrees /\ MicrophoneAsPreferred

\* Whoever waited on a ringing call is told why it ended, and nobody is told
\* of an end of his own making, unless the crossing was "other".
EndsAreTold ==
    (Quiet /\ ~lost /\ client.crossed # "other" /\ client.status = "idle"
        /\ client.shown # None) =>
        LET k == calls[client.shown] IN
        (k.state = "ended" /\ k.rang) =>
            client.toast = IF k.by = "me" THEN NoReason ELSE k.reason

\* A call shown as active is left when the server has ended it, unless an
\* answer crossed a signal: after the end of its own call ("over", see
\* DeafeningEnds) or while another was shown ("other").
ActiveEnds ==
    (client.status = "active" /\ Live = {}) ~>
        (client.status # "active" \/ Live # {} \/ lost \/ client.crossed # "no")

\* The deafening of a call is lifted after it, though an accept be answered
\* after the end of its call.
DeafeningEnds ==
    (client.deafen /\ Live = {}) ~>
        (~client.deafen \/ Live # {} \/ lost \/ client.crossed = "other")

=============================================================================
