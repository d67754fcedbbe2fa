------------------------- MODULE CallClient_proofs -------------------------
(***************************************************************************)
(* Proofs about CallClient, for any number of calls, clicks and failures:  *)
(* the browser's room, microphone, overlay and toasts are those of its     *)
(* call.  The invariant says of every signal and every request under way   *)
(* what is so of its call, and of the overlay which change of it is        *)
(* under way.                                                              *)
(***************************************************************************)
EXTENDS CallClient, WellFoundedInduction, TLAPS

-----------------------------------------------------------------------------
(* The invariant *)

\* Whatever is named is a call the server has created, and the answer to
\* startCall names one when it has.
Named(c) ==
    /\ c.call <= Len(calls) /\ c.created <= Len(calls) /\ c.shown <= Len(calls)
    /\ c.starting = "created" <=> c.created # None
    /\ \A j \in c.joins : j.call \in DOMAIN calls
    /\ \A p \in DOMAIN c.pending : c.pending[p].call \in DOMAIN calls

InRange ==
    /\ Len(calls) <= MaxCalls
    /\ Named(client)
    /\ \A a \in acts : a.call <= Len(calls)
    /\ \A p \in DOMAIN wire : wire[p].call <= Len(calls)

\* Only the last call is live, and a call that ended while it rang was ended by
\* its caller, its callee or the timeout.
EndedWell(k) ==
    (k.state = "ended" /\ k.rang /\ k.by = "peer") =>
        k.reason \in {"timeout", IF k.mine THEN "rejected" ELSE "canceled"}

CallsFit ==
    /\ \A i \in DOMAIN calls : i < Len(calls) => calls[i].state = "ended"
    /\ \A i \in DOMAIN calls : EndedWell(calls[i])

\* It has been accepted.
Accepted(k) == k.state # "ringing" /\ (k.state = "ended" => ~k.rang)

\* What a signal says is so, and stays so.
SignalHolds(k, s) ==
    IF s.type = "invite" THEN ~k.mine
    ELSE IF s.type = "accept" THEN k.mine /\ Accepted(k)
    ELSE k.state = "ended" /\ k.by = "peer" /\ k.reason = s.type

\* Signals come in the order of their calls, an invitation before the rest.
InOrder(s, t) == s.call <= t.call /\ (t.type = "invite" => s.call # t.call)

Told(p) == ParseCallSignal(wire[p])

SignalsFit ==
    /\ \A p \in DOMAIN client.pending :
            SignalHolds(calls[client.pending[p].call], client.pending[p])
    /\ \A p \in DOMAIN wire : SignalHolds(calls[wire[p].call], Told(p))
    /\ \A p, q \in DOMAIN wire : p < q => InOrder(Told(p), Told(q))
    /\ \A p, q \in DOMAIN client.pending :
            p < q => InOrder(client.pending[p], client.pending[q])
    /\ \A p \in DOMAIN client.pending, q \in DOMAIN wire :
            InOrder(client.pending[p], Told(q))

\* From here on the parts are told of a client c, of calls, requests and
\* signals, whichever step they are seen before or after.

\* What is so of the call k a request is for.
Refusing == {"accept", "reject", "block", "rejectBlocked"}
Ending == {"reject", "rejectBlocked", "cancel", "hangup"}
ActHolds(a, k) ==
    /\ a.kind \in Refusing => ~k.mine
    /\ a.kind = "cancel" => k.mine
    /\ a.kind = "hangup" => k.state # "ringing" /\ a.stage # "refused"
    /\ a.kind = "hangup" /\ a.stage = "gone" => k.state = "ended"
    /\ a.kind = "accept" /\ a.stage = "ok" => Accepted(k)
    /\ a.kind \in Ending /\ a.stage = "ok" => k.state = "ended" /\ k.by = "me"
    /\ a.sess # None => a.kind = "hangup"

Answered(as, kind, call) == \E a \in as : a.kind = kind /\ a.call = call /\ a.stage = "ok"

\* Requests for the call that is shown, or about to be.
ActFits(c, a) ==
    /\ a.sess <= c.session /\ a.call # c.created
    /\ a.kind = "hangup" /\ a.call = c.call => c.status = "active" /\ a.sess \in {None, c.session}
    /\ a.sess # None /\ a.sess = c.session => c.status = "active" /\ a.call = c.call

ActsFit(c, ks, as) ==
    /\ \A a \in as : ActHolds(a, ks[a.call]) /\ ActFits(c, a)
    /\ c.status = "active" => ~Answered(as, "accept", c.call)

\* Status and call belong together.
StatusFits(c, ks) ==
    /\ c.status = "idle" => c.call = None
    /\ c.status \in {"ringing", "active"} => c.call # None
    /\ c.status = "outgoing" /\ c.call # None => ks[c.call].mine
    /\ c.status = "ringing" => ~ks[c.call].mine
    /\ c.created # None => ks[c.created].mine
    /\ c.status = "active" => Accepted(ks[c.call])

Up(c) == c.rooms = {[sess |-> c.session, call |-> c.call, up |-> TRUE]}
Down(c) == c.rooms = {[sess |-> c.session, call |-> c.call, up |-> FALSE]}

\* The one room is that of the session.
RoomFits(c) ==
    /\ c.held = c.room
    /\ c.contexts = IF c.held = None THEN {} ELSE {c.held}
    /\ c.room = None => c.rooms = {}
    /\ c.room # None => c.status = "active" /\ c.room = c.session /\ (Up(c) \/ Down(c))

\* joinRoom and the session: an old one ends without a trace.
JoinFits(c, j) ==
    /\ j.sess >= 1 /\ j.sess <= c.session
    /\ j.sess = c.session =>
        /\ c.status = "active" /\ j.call = c.call
        /\ j.pc = "token" => c.room = None
        /\ j.pc \in {"connect", "mic"} => c.room = c.session
        /\ j.pc = "mic" => Up(c)

JoinsFit(c) ==
    /\ \A j \in c.joins : JoinFits(c, j)
    /\ \A i, j \in c.joins : i.sess = j.sess => i = j
    /\ c.status = "active" =>
            (c.room # None /\ Up(c)) \/ \E j \in c.joins : j.sess = c.session

\* Which join waits for which change of the microphone.
AppliesFit(c) ==
    /\ \A p \in DOMAIN c.applies : c.applies[p].sess <= c.session
    /\ \A p \in DOMAIN c.applies, j \in c.joins :
            c.applies[p].join /\ j.sess = c.applies[p].sess => j.pc = "mic"
    /\ \A p, q \in DOMAIN c.applies :
            c.applies[p].join /\ c.applies[q].join /\ c.applies[p].sess = c.applies[q].sess
                => p = q

Shape(c) == RoomFits(c) /\ JoinsFit(c) /\ AppliesFit(c)

\* Nobody has acted on a call whose invitation is still under way.
InvitesFit(c, as, ws) ==
    \A p \in DOMAIN ws : ws[p].event = "invite" =>
        c.call # ws[p].call /\ \A a \in as : a.call # ws[p].call

Fits(c, ks, as, ws) ==
    StatusFits(c, ks) /\ Shape(c) /\ ActsFit(c, ks, as) /\ InvitesFit(c, as, ws)

\* What is so between two steps, and not while pending signals are handled.
Resting(c) ==
    /\ c.starting # "no" <=> c.status = "outgoing" /\ c.call = None
    /\ c.pending # <<>> => c.starting # "no"
    /\ c.starting # "no" => c.shown = None
    /\ c.call # None => c.shown = c.call
    /\ c.seen = c.status

\* The last change of the microphone is what the preference wants.
MicrophoneFits(c, failures) ==
    (/\ failures = 0 /\ c.room # None
     /\ \A j \in c.joins : j.sess = c.session => j.pc = "mic") =>
        IF c.applies = <<>> THEN c.mic = c.pref /\ c.muted = ~c.pref
        ELSE LET a == c.applies[Len(c.applies)] IN
             a.rev = c.rev /\ a.sess = c.session /\ a.on = c.pref

Together ==
    Fits(client, calls, acts, wire) /\ Resting(client) /\ MicrophoneFits(client, spent.failures)

RoomInvariant == client.crossed = "no" => Together

\* What is so once an accept was answered after the end of its call: the store
\* shows an active call with no name, and nothing under way is of its session.
Stranded(c, as) ==
    /\ c.status = "active" /\ c.call = None
    /\ c.starting = "no" /\ c.created = None /\ c.pending = <<>>
    /\ c.room = None /\ c.rooms = {} /\ c.held = None /\ c.contexts = {}
    /\ \A j \in c.joins : j.sess # c.session
    /\ \A a \in as : a.sess # None => a.sess # c.session

StrandedInvariant == client.crossed = "over" => Stranded(client, acts)

USE DEF None

-----------------------------------------------------------------------------
(* Signals handled one after the other *)

\* A set of numbers that is not empty has a least one.
LEMMA LeastNumber ==
    ASSUME NEW U, U \subseteq Nat, U # {}
    PROVE  \E x \in U : \A y \in U : x <= y
<1> DEFINE R == {pair \in Nat \X Nat : pair[1] < pair[2]}
<1>1. R = OpToRel(<, Nat)
  BY Zenon DEF OpToRel
<1>2. IsWellFoundedOn(R, Nat)
  BY <1>1, NatLessThanWellFounded, Zenon
<1>3. PICK x \in U : \A y \in U : ~(<<y, x>> \in R)
  BY <1>2, WFMin, Zenon
<1>4. ASSUME NEW y \in U, y < x
      PROVE FALSE
  <2>1. <<y, x>> \in R
    BY <1>4
  <2> QED
    BY <1>3, <2>1
<1> QED
  BY <1>4

\* The clients that handling a sequence of signals leads through.
Leads(g, c, signals) ==
    /\ g[0] = c
    /\ \A n \in 1..Len(signals) : g[n] = HandleSignal(g[n - 1], signals[n])

\* They exist: the shortest part of the sequence that led nowhere would have a
\* last signal.
LEMMA StagesExist ==
    ASSUME NEW c, NEW signals, Len(signals) \in Nat
    PROVE  \E g : g = [n \in 0..Len(signals) |-> g[n]] /\ Leads(g, c, signals)
<1> DEFINE Reach(k, g) == /\ g = [n \in 0..k |-> g[n]] /\ g[0] = c
                          /\ \A n \in 1..k : g[n] = HandleSignal(g[n - 1], signals[n])
           U == {k \in 0..Len(signals) : ~\E g : Reach(k, g)}
<1>1. \E g : Reach(0, g)
  <2>1. Reach(0, [n \in 0..0 |-> c])
    OBVIOUS
  <2> QED
    BY <2>1
<1>2. ASSUME NEW k \in 1..Len(signals), NEW g, Reach(k - 1, g)
      PROVE  \E h : Reach(k, h)
  <2> DEFINE h == [n \in 0..k |-> IF n = k THEN HandleSignal(g[k - 1], signals[k]) ELSE g[n]]
  <2>1. h = [n \in 0..k |-> h[n]]
    OBVIOUS
  <2>2. h[0] = c
    BY <1>2
  <2>3. ASSUME NEW n \in 1..k
        PROVE  h[n] = HandleSignal(h[n - 1], signals[n])
    <3>1. n - 1 \in 0..k /\ n - 1 # k /\ h[n - 1] = g[n - 1]
      OBVIOUS
    <3>2. CASE n = k
      BY <3>1, <3>2
    <3>3. CASE n # k
      BY <1>2, <3>1, <3>3, SMTT(30)
    <3> QED
      BY <3>2, <3>3
  <2> HIDE DEF h
  <2> QED
    BY <2>1, <2>2, <2>3
<1> HIDE DEF Reach
<1>3. U = {}
  <2> SUFFICES ASSUME U # {} PROVE FALSE
    OBVIOUS
  <2>1. U \subseteq Nat
    OBVIOUS
  <2>2. PICK k \in U : \A y \in U : k <= y
    BY <2>1, LeastNumber
  <2>3. k \in 1..Len(signals) /\ k - 1 \in 0..Len(signals) /\ k - 1 \notin U
    BY <1>1, <2>2
  <2>4. PICK g : Reach(k - 1, g)
    BY <2>3
  <2> QED
    BY <1>2, <2>2, <2>3, <2>4
<1>4. PICK g : Reach(Len(signals), g)
  BY <1>3
<1> QED
  BY <1>4 DEF Reach, Leads

\* So the recursive function of Replayed is one of those.
LEMMA ReplayLeads ==
    ASSUME NEW c, NEW signals, Len(signals) \in Nat
    PROVE  \E g : Leads(g, c, signals) /\ Replayed(c, signals) = g[Len(signals)]
<1> DEFINE Equation(f) ==
        f = [n \in 0..Len(signals) |->
                IF n = 0 THEN c ELSE HandleSignal(f[n - 1], signals[n])]
           after == CHOOSE f : Equation(f)
<1>1. Replayed(c, signals) = after[Len(signals)]
  BY DEF Replayed
<1>2. PICK g : g = [n \in 0..Len(signals) |-> g[n]] /\ Leads(g, c, signals)
  BY StagesExist
<1>3. Equation(g)
  BY <1>2 DEF Leads
<1>4. Equation(after)
  BY <1>3
<1> HIDE DEF after
<1>5. Leads(after, c, signals)
  BY <1>4 DEF Leads
<1> QED
  BY <1>1, <1>5

\* What the first client is, and handling each signal keeps, the last one is.
LEMMA ReplayKeeps ==
    ASSUME NEW c, NEW signals, Len(signals) \in Nat, NEW Good, c \in Good[0],
           \A n \in 1..Len(signals) : \A d \in Good[n - 1] :
                HandleSignal(d, signals[n]) \in Good[n]
    PROVE  Replayed(c, signals) \in Good[Len(signals)]
<1>1. PICK g : Leads(g, c, signals) /\ Replayed(c, signals) = g[Len(signals)]
  BY ReplayLeads
<1> DEFINE U == {n \in 0..Len(signals) : g[n] \notin Good[n]}
<1>2. U = {}
  <2> SUFFICES ASSUME U # {} PROVE FALSE
    OBVIOUS
  <2>1. U \subseteq Nat
    OBVIOUS
  <2>2. PICK k \in U : \A y \in U : k <= y
    BY <2>1, LeastNumber
  <2>3. k \in 1..Len(signals) /\ k - 1 \in 0..Len(signals) /\ k - 1 \notin U
    BY <1>1, <2>2 DEF Leads
  <2> QED
    BY <1>1, <2>2, <2>3 DEF Leads
<1> QED
  BY <1>1, <1>2

-----------------------------------------------------------------------------
(* What the handlers do to the client, field by field *)

\* All that the invariant looks at but the toast, the call last shown and what
\* the experience watcher has seen.
SameRoom(c, d) ==
    /\ d.session = c.session /\ d.room = c.room /\ d.rooms = c.rooms
    /\ d.contexts = c.contexts /\ d.held = c.held /\ d.joins = c.joins

SameMicrophone(c, d) ==
    d.pref = c.pref /\ d.mic = c.mic /\ d.muted = c.muted /\ d.rev = c.rev /\ d.applies = c.applies

SameStart(c, d) ==
    d.starting = c.starting /\ d.created = c.created /\ d.pending = c.pending

SameExperience(c, d) == d.seen = c.seen /\ d.toast = c.toast /\ d.shown = c.shown

Alike(c, d) ==
    /\ d.status = c.status /\ d.call = c.call /\ d.reason = c.reason /\ d.crossed = c.crossed
    /\ SameRoom(c, d) /\ SameMicrophone(c, d) /\ SameStart(c, d)

LEMMA ReasonFacts ==
    /\ NoReason \notin Reasons /\ "invite" \notin Reasons /\ "accept" \notin Reasons
    /\ \A r \in Reasons : \A side : CallTerminalMessage(r, side) \in Reasons \cup {NoReason}
    /\ \A s \in Sent : /\ ParseCallSignal(s) \in Signals /\ ParseCallSignal(s).call = s.call
                       /\ ParseCallSignal(s).type = "invite" <=> s.event = "invite"
BY DEF Reasons, Refusals, NoReason, CallTerminalMessage, Sent, Signals, ParseCallSignal, Events,
       ReasonByEvent

\* The fields, so that a change of some leaves the others alone.
LEMMA ClientDomain ==
    ASSUME NEW c \in Clients
    PROVE  DOMAIN c = {"status", "call", "reason", "starting", "created", "pending", "session",
                       "room", "reconnecting", "rooms", "contexts", "held", "joins", "pref", "mic",
                       "muted", "rev", "applies", "seen", "loop", "deafen", "toast", "shown",
                       "crossed"}
BY DEF Clients

\* What an answer that crosses can do to the history.
LEMMA CrossingTypes ==
    ASSUME NEW c \in Clients
    PROVE  /\ \A a : Crossed(c, a, "over") \in Crossings /\ Crossed(c, a, c.crossed) \in Crossings
           /\ \A a : Crossed(c, a, "over") = "no" => c.crossed = "no" /\ c.call = a.call
           /\ \A a : Crossed(c, a, c.crossed) = "no" =>
                        c.crossed = "no" /\ (c.call = a.call \/ c.status = "idle")
BY DEF Crossed, Crossings, Clients

LEMMA ExperienceFields ==
    ASSUME NEW c \in Clients
    PROVE  LET d == Experience(c) IN
           /\ d \in Clients /\ Alike(c, d) /\ d.seen = c.status /\ d.shown = c.shown
           /\ d.toast = IF c.status = c.seen THEN c.toast
                        ELSE IF c.status # "idle" \/ c.reason = NoReason THEN NoReason
                        ELSE CallTerminalMessage(c.reason, CallTerminalSide(c.seen))
<1>1. CASE c.status = c.seen
  BY <1>1 DEF Experience, Alike, SameRoom, SameMicrophone, SameStart
<1>2. CASE c.status # c.seen
  <2> DEFINE toast == IF c.status # "idle" \/ c.reason = NoReason THEN NoReason
                      ELSE CallTerminalMessage(c.reason, CallTerminalSide(c.seen))
             loop == CASE c.status = "outgoing" -> "call-outgoing"
                       [] c.status = "ringing" -> "call-incoming" [] OTHER -> "none"
  <2>1. c.reason \in Reasons \cup {NoReason}
    BY DEF Clients
  <2>2. toast \in Reasons \cup {NoReason}
    BY <2>1, ReasonFacts
  <2>3. loop \in {"none", "call-outgoing", "call-incoming"}
    OBVIOUS
  <2>4. Experience(c) = [c EXCEPT !.seen = c.status, !.deafen = c.status \in {"outgoing", "active"},
                                  !.loop = loop, !.toast = toast]
    BY <1>2 DEF Experience
  <2> HIDE DEF toast, loop
  <2>5. Experience(c) \in Clients
    <3> DEFINE deafen == c.status \in {"outgoing", "active"}
    <3>1. deafen \in BOOLEAN /\ c.status \in Statuses
      BY DEF Clients
    <3> HIDE DEF deafen
    <3>2. Experience(c) = [c EXCEPT !.seen = c.status, !.deafen = deafen, !.loop = loop,
                                    !.toast = toast]
      BY <2>4 DEF deafen
    <3>3. [c EXCEPT !.seen = c.status, !.deafen = deafen, !.loop = loop, !.toast = toast]
            \in Clients
      BY <2>2, <2>3, <3>1, Zenon DEF Clients
    <3> QED
      BY <3>2, <3>3
  <2>6. LET d == Experience(c) IN
        Alike(c, d) /\ d.seen = c.status /\ d.shown = c.shown /\ d.toast = toast
    BY <2>4 DEF Clients, Alike, SameRoom, SameMicrophone, SameStart
  <2> QED
    BY <1>2, <2>5, <2>6 DEF toast
<1> QED
  BY <1>1, <1>2

LEMMA BecomeFields ==
    ASSUME NEW c \in Clients, Become(c)
    PROVE  /\ client' \in Clients /\ Alike(c, client') /\ client'.seen = c.status
           /\ client'.shown = IF c.call # None THEN c.call ELSE c.shown
           /\ client'.toast = IF c.status = c.seen THEN c.toast
                              ELSE IF c.status # "idle" \/ c.reason = NoReason THEN NoReason
                              ELSE CallTerminalMessage(c.reason, CallTerminalSide(c.seen))
<1>1. PICK d \in Clients : d = Experience(c)
  BY ExperienceFields
<1>2. client' = [d EXCEPT !.shown = IF c.call # None THEN c.call ELSE d.shown]
  BY <1>1 DEF Become, Clients
<1>3. c.call \in Nat /\ d.shown \in Nat
  BY DEF Clients
<1>4. client' \in Clients
  BY <1>2, <1>3, Zenon DEF Clients
<1>5. /\ Alike(d, client')
      /\ client'.seen = d.seen /\ client'.toast = d.toast
      /\ client'.shown = IF c.call # None THEN c.call ELSE d.shown
  BY <1>2, <1>3 DEF Clients, Alike, SameRoom, SameMicrophone, SameStart
<1> QED
  BY <1>1, <1>4, <1>5, ExperienceFields DEF Alike, SameRoom, SameMicrophone, SameStart

LEMMA EndSessionFields ==
    ASSUME NEW c \in Clients, NEW reason \in Reasons
    PROVE  LET d == EndSession(c, reason) IN
           /\ d \in Clients /\ d.status = "idle" /\ d.call = None /\ d.reason = reason
           /\ d.session = c.session + 1 /\ d.room = None /\ d.held = None
           /\ d.rooms = {r \in c.rooms : r.sess # c.room}
           /\ d.contexts = c.contexts \ {c.held} /\ d.joins = c.joins /\ d.applies = c.applies
           /\ SameStart(c, d) /\ SameExperience(c, d) /\ d.crossed = c.crossed
<1>1. EndSession(c, reason) \in Clients
  <2> DEFINE rooms == {r \in c.rooms : r.sess # c.room}
             contexts == c.contexts \ {c.held}
             session == c.session + 1
  <2>1. rooms \in SUBSET Rooms /\ contexts \in SUBSET Nat /\ session \in Nat
    BY DEF Clients
  <2>2. EndSession(c, reason) =
            [c EXCEPT !.status = "idle", !.reconnecting = FALSE, !.call = 0, !.muted = FALSE,
                      !.session = session, !.reason = reason, !.mic = FALSE, !.rooms = rooms,
                      !.room = 0, !.contexts = contexts, !.held = 0]
    BY DEF EndSession, ResetLocalState, Clients
  <2> HIDE DEF rooms, contexts, session
  <2>3. reason \in Reasons \cup {NoReason}
    OBVIOUS
  <2>4. [c EXCEPT !.status = "idle", !.reconnecting = FALSE, !.call = 0, !.muted = FALSE,
                  !.session = session, !.reason = reason, !.mic = FALSE, !.rooms = rooms,
                  !.room = 0, !.contexts = contexts, !.held = 0] \in Clients
    BY <2>1, <2>3, Zenon DEF Clients, Statuses
  <2> QED
    BY <2>2, <2>4
<1> QED
  BY <1>1 DEF EndSession, ResetLocalState, Clients, SameStart, SameExperience

\* joinRoom in a call: a session of its own, and no microphone of the last one.
LEMMA JoinRoomFields ==
    ASSUME NEW c \in Clients
    PROVE  LET d == JoinRoom([c EXCEPT !.status = "active"]) IN
           /\ d \in Clients /\ d.status = "active" /\ d.call = c.call /\ d.reason = c.reason
           /\ SameStart(c, d) /\ SameExperience(c, d) /\ SameMicrophone(c, d)
           /\ d.crossed = c.crossed /\ d.room = c.room /\ d.rooms = c.rooms
           /\ c.call = None => SameRoom(c, d)
           /\ c.call # None =>
                /\ d.session = c.session + 1 /\ d.held = None /\ d.contexts = c.contexts \ {c.held}
                /\ d.joins = c.joins \cup {[sess |-> c.session + 1, call |-> c.call, pc |-> "token"]}
<1> DEFINE join == [sess |-> c.session + 1, call |-> c.call, pc |-> "token"]
<1>1. join \in Joins
  BY DEF Clients, Joins
<1>2. CASE c.call = None
  <2>1. JoinRoom([c EXCEPT !.status = "active"]) = [c EXCEPT !.status = "active"]
    BY <1>2 DEF JoinRoom, Clients
  <2>2. JoinRoom([c EXCEPT !.status = "active"]) \in Clients
    <3>1. [c EXCEPT !.status = "active"] \in Clients
      BY Zenon DEF Clients, Statuses
    <3> QED
      BY <2>1, <3>1
  <2> QED
    BY <1>2, <2>1, <2>2 DEF Clients, SameStart, SameExperience, SameMicrophone, SameRoom
<1>3. CASE c.call # None
  <2>1. JoinRoom([c EXCEPT !.status = "active"]) =
            [c EXCEPT !.status = "active", !.session = c.session + 1,
                      !.contexts = c.contexts \ {c.held}, !.held = None,
                      !.joins = c.joins \cup {join}]
    BY <1>3 DEF JoinRoom, Clients
  <2> HIDE DEF join
  <2>2. c.session + 1 \in Nat
    BY DEF Clients
  <2>3. JoinRoom([c EXCEPT !.status = "active"]) \in Clients
    <3> DEFINE contexts == c.contexts \ {c.held}
               joins == c.joins \cup {join}
    <3>1. contexts \in SUBSET Nat /\ joins \in SUBSET Joins
      BY <1>1 DEF Clients
    <3>2. JoinRoom([c EXCEPT !.status = "active"]) =
              [c EXCEPT !.status = "active", !.session = c.session + 1, !.contexts = contexts,
                        !.held = 0, !.joins = joins]
      BY <2>1
    <3> HIDE DEF contexts, joins
    <3>3. [c EXCEPT !.status = "active", !.session = c.session + 1, !.contexts = contexts,
                    !.held = 0, !.joins = joins] \in Clients
      BY <2>2, <3>1, Zenon DEF Clients, Statuses
    <3> QED
      BY <3>2, <3>3
  <2> DEFINE contexts == c.contexts \ {c.held}
             joins == c.joins \cup {join}
             d == [c EXCEPT !.status = "active", !.session = c.session + 1,
                            !.contexts = contexts, !.held = 0, !.joins = joins]
  <2>4. JoinRoom([c EXCEPT !.status = "active"]) = d
    BY <2>1
  <2> HIDE DEF contexts, joins
  <2>5. /\ d.status = "active" /\ d.session = c.session + 1 /\ d.contexts = contexts
        /\ d.held = 0 /\ d.joins = joins
        /\ \A x \in DOMAIN c :
                x \notin {"status", "session", "contexts", "held", "joins"} => d[x] = c[x]
    BY ClientDomain
  <2> HIDE DEF d
  <2>6. /\ d.call = c.call /\ d.reason = c.reason /\ d.crossed = c.crossed
        /\ d.room = c.room /\ d.rooms = c.rooms
        /\ SameStart(c, d) /\ SameExperience(c, d) /\ SameMicrophone(c, d)
    BY <2>5, ClientDomain DEF SameStart, SameExperience, SameMicrophone
  <2> QED
    BY <1>3, <2>3, <2>4, <2>5, <2>6 DEF join, contexts, joins
<1> QED
  BY <1>2, <1>3

\* The cases of handleSignal's switch.
Ignored(c, d, s) ==
    /\ s.call # c.call /\ c.status # "idle"
    /\ d.crossed = Beside(c.crossed, s.type = "invite")
    /\ d.status = c.status /\ d.call = c.call /\ d.reason = c.reason
    /\ SameRoom(c, d) /\ SameMicrophone(c, d)

Rings(c, d, s) ==
    /\ s.type = "invite" /\ (s.call = c.call \/ c.status = "idle")
    /\ d.status = "ringing" /\ d.call = s.call /\ d.reason = NoReason /\ d.crossed = c.crossed
    /\ SameRoom(c, d) /\ SameMicrophone(c, d)

IsAccepted(c, d, s) ==
    /\ s.type = "accept" /\ s.call = c.call /\ c.status = "outgoing"
    /\ d = JoinRoom([c EXCEPT !.status = "active"])

IsEnded(c, d, s) ==
    /\ s.type \in Reasons /\ (s.call = c.call \/ c.status = "idle")
    /\ d = EndSession(c, s.type)

LEMMA HandledFields ==
    ASSUME NEW c \in Clients, NEW s \in Signals
    PROVE  LET d == Handled(c, s) IN
           /\ d \in Clients /\ SameStart(c, d) /\ SameExperience(c, d)
           /\ \/ Ignored(c, d, s) \/ Rings(c, d, s) \/ IsAccepted(c, d, s) \/ IsEnded(c, d, s)
              \/ s.type = "accept" /\ c.status # "outgoing" /\ d = c
<1>1. s.type \in Reasons \cup {"invite", "accept"} /\ s.call \in Nat
  BY DEF Signals
<1>2. CASE s.call # c.call /\ c.status # "idle"
  <2> DEFINE crossed == Beside(c.crossed, s.type = "invite")
  <2>1. crossed \in Crossings
    BY DEF Clients, Beside, Crossings
  <2>2. Handled(c, s) = [c EXCEPT !.crossed = crossed]
    BY <1>2 DEF Handled, Clients
  <2> HIDE DEF crossed
  <2>3. [c EXCEPT !.crossed = crossed] \in Clients
    BY <2>1, Zenon DEF Clients
  <2>4. LET d == [c EXCEPT !.crossed = crossed] IN
        /\ SameStart(c, d) /\ SameExperience(c, d) /\ d.crossed = crossed
        /\ d.status = c.status /\ d.call = c.call /\ d.reason = c.reason
        /\ SameRoom(c, d) /\ SameMicrophone(c, d)
    BY DEF Clients, SameStart, SameExperience, SameRoom, SameMicrophone
  <2> QED
    BY <1>2, <2>2, <2>3, <2>4 DEF Ignored, crossed
<1>3. CASE s.type = "invite" /\ ~(s.call # c.call /\ c.status # "idle")
  <2>1. Handled(c, s) = [c EXCEPT !.status = "ringing", !.call = s.call, !.reason = NoReason]
    BY <1>3 DEF Handled
  <2>2. [c EXCEPT !.status = "ringing", !.call = s.call, !.reason = NoReason] \in Clients
    BY <1>1, Zenon DEF Clients, Statuses
  <2>3. LET d == [c EXCEPT !.status = "ringing", !.call = s.call, !.reason = NoReason] IN
        /\ SameStart(c, d) /\ SameExperience(c, d) /\ d.crossed = c.crossed
        /\ d.status = "ringing" /\ d.call = s.call /\ d.reason = NoReason
        /\ SameRoom(c, d) /\ SameMicrophone(c, d)
    BY DEF Clients, SameStart, SameExperience, SameRoom, SameMicrophone
  <2> QED
    BY <1>3, <2>1, <2>2, <2>3 DEF Rings
<1>4. CASE s.type = "accept" /\ ~(s.call # c.call /\ c.status # "idle")
  <2>1. CASE c.status # "outgoing"
    <3>1. Handled(c, s) = c
      BY <1>4, <2>1 DEF Handled
    <3> QED
      BY <1>4, <2>1, <3>1 DEF SameStart, SameExperience
  <2>2. CASE c.status = "outgoing"
    <3>1. Handled(c, s) = JoinRoom([c EXCEPT !.status = "active"])
      BY <1>4, <2>2 DEF Handled
    <3> QED
      BY <1>4, <2>2, <3>1, JoinRoomFields DEF IsAccepted
  <2> QED
    BY <2>1, <2>2
<1>5. CASE s.type \in Reasons /\ ~(s.call # c.call /\ c.status # "idle")
  <2>1. Handled(c, s) = EndSession(c, s.type)
    BY <1>5, ReasonFacts DEF Handled
  <2> QED
    BY <1>5, <2>1, EndSessionFields DEF IsEnded
<1> QED
  BY <1>1, <1>2, <1>3, <1>4, <1>5

\* joinRoom's steps.
LEMMA LeftFields ==
    ASSUME NEW c \in Clients, NEW j
    PROVE  LET d == Left(c, j) IN
           /\ d \in Clients /\ d.joins = c.joins \ {j} /\ d.session = c.session
           /\ d.room = c.room /\ d.rooms = c.rooms /\ d.contexts = c.contexts /\ d.held = c.held
           /\ d.status = c.status /\ d.call = c.call /\ d.reason = c.reason
           /\ d.crossed = c.crossed
           /\ SameMicrophone(c, d) /\ SameStart(c, d) /\ SameExperience(c, d)
<1> DEFINE joins == c.joins \ {j}
<1>1. joins \in SUBSET Joins
  BY DEF Clients
<1>2. Left(c, j) = [c EXCEPT !.joins = joins]
  BY DEF Left
<1> HIDE DEF joins
<1>3. [c EXCEPT !.joins = joins] \in Clients
  BY <1>1, Zenon DEF Clients
<1> DEFINE d == [c EXCEPT !.joins = joins]
<1>4. /\ d.joins = joins
      /\ \A x \in DOMAIN c : x # "joins" => d[x] = c[x]
  BY ClientDomain
<1> HIDE DEF d
<1>5. /\ d.session = c.session
      /\ d.room = c.room /\ d.rooms = c.rooms /\ d.contexts = c.contexts /\ d.held = c.held
      /\ d.status = c.status /\ d.call = c.call /\ d.reason = c.reason /\ d.crossed = c.crossed
      /\ SameMicrophone(c, d) /\ SameStart(c, d) /\ SameExperience(c, d)
  BY <1>4, ClientDomain DEF SameMicrophone, SameStart, SameExperience
<1> QED
  BY <1>2, <1>3, <1>4, <1>5 DEF d, joins

LEMMA StageFields ==
    ASSUME NEW c \in Clients, NEW j \in Joins, NEW pc \in {"token", "connect", "mic", "hangup"}
    PROVE  LET d == Stage(c, j, pc) IN
           /\ [j EXCEPT !.pc = pc] \in Joins
           /\ d \in Clients /\ d.joins = (c.joins \ {j}) \cup {[j EXCEPT !.pc = pc]}
           /\ d.session = c.session
           /\ d.room = c.room /\ d.rooms = c.rooms /\ d.contexts = c.contexts /\ d.held = c.held
           /\ d.status = c.status /\ d.call = c.call /\ d.reason = c.reason
           /\ d.crossed = c.crossed
           /\ SameMicrophone(c, d) /\ SameStart(c, d) /\ SameExperience(c, d)
<1> DEFINE k == [j EXCEPT !.pc = pc]
           joins == (c.joins \ {j}) \cup {k}
<1>1. k \in Joins /\ k.sess = j.sess /\ k.call = j.call /\ k.pc = pc
  BY DEF Joins
<1>2. joins \in SUBSET Joins
  BY <1>1 DEF Clients
<1>3. Stage(c, j, pc) = [c EXCEPT !.joins = joins]
  BY DEF Stage
<1> HIDE DEF joins, k
<1>4. [c EXCEPT !.joins = joins] \in Clients
  BY <1>2, Zenon DEF Clients
<1>5. LET d == [c EXCEPT !.joins = joins] IN
           /\ d.joins = joins
           /\ d.session = c.session
           /\ d.room = c.room /\ d.rooms = c.rooms /\ d.contexts = c.contexts /\ d.held = c.held
           /\ d.status = c.status /\ d.call = c.call /\ d.reason = c.reason
           /\ d.crossed = c.crossed
           /\ SameMicrophone(c, d) /\ SameStart(c, d) /\ SameExperience(c, d)
  BY DEF Clients, SameMicrophone, SameStart, SameExperience
<1> QED
  BY <1>1, <1>3, <1>4, <1>5 DEF joins, k

LEMMA WithRoomFields ==
    ASSUME NEW c \in Clients, NEW j \in Joins
    PROVE  LET d == WithRoom(c, j) IN
           /\ d \in Clients /\ d.joins = (c.joins \ {j}) \cup {[j EXCEPT !.pc = "connect"]}
           /\ d.session = c.session /\ d.room = j.sess /\ d.held = j.sess
           /\ d.rooms = c.rooms \cup {[sess |-> j.sess, call |-> j.call, up |-> FALSE]}
           /\ d.contexts = c.contexts \cup {j.sess}
           /\ d.status = c.status /\ d.call = c.call /\ d.reason = c.reason
           /\ d.crossed = c.crossed
           /\ SameMicrophone(c, d) /\ SameStart(c, d) /\ SameExperience(c, d)
<1> DEFINE k == [j EXCEPT !.pc = "connect"]
           e == Stage(c, j, "connect")
<1>2. /\ e \in Clients
      /\ e.joins = (c.joins \ {j}) \cup {k} /\ e.session = c.session
      /\ e.rooms = c.rooms /\ e.contexts = c.contexts
      /\ e.status = c.status /\ e.call = c.call /\ e.reason = c.reason
      /\ e.crossed = c.crossed
      /\ SameMicrophone(c, e) /\ SameStart(c, e) /\ SameExperience(c, e)
  BY StageFields
<1>3. WithRoom(c, j) = [e EXCEPT !.room = j.sess, !.rooms = @ \cup {[sess |-> j.sess, call |-> j.call, up |-> FALSE]},
                                 !.held = j.sess, !.contexts = @ \cup {j.sess}]
  BY DEF WithRoom
<1> HIDE DEF k, e
<1> DEFINE room == [sess |-> j.sess, call |-> j.call, up |-> FALSE]
           rooms == e.rooms \cup {room}
           contexts == e.contexts \cup {j.sess}
<1>4. j.sess \in Nat /\ room \in Rooms
  BY DEF Rooms, Joins
<1>5. e.rooms \in SUBSET Rooms /\ e.contexts \in SUBSET Nat
  BY <1>2, <1>2, Zenon DEF Clients
<1>6. WithRoom(c, j) = [e EXCEPT !.room = j.sess, !.rooms = rooms, !.held = j.sess,
                                 !.contexts = contexts]
  BY <1>2, <1>3 DEF Clients
<1> HIDE DEF room
<1>7. rooms \in SUBSET Rooms /\ contexts \in SUBSET Nat
  BY <1>4, <1>5
<1> HIDE DEF rooms, contexts
<1>8. [e EXCEPT !.room = j.sess, !.rooms = rooms, !.held = j.sess, !.contexts = contexts]
        \in Clients
  BY <1>4, <1>7, <1>2, Zenon DEF Clients
<1>9. LET d == [e EXCEPT !.room = j.sess, !.rooms = rooms, !.held = j.sess,
                         !.contexts = contexts] IN
           /\ d.joins = e.joins
           /\ d.session = e.session /\ d.room = j.sess /\ d.held = j.sess
           /\ d.rooms = rooms /\ d.contexts = contexts
           /\ d.status = e.status /\ d.call = e.call /\ d.reason = e.reason
           /\ d.crossed = e.crossed
           /\ SameMicrophone(e, d) /\ SameStart(e, d) /\ SameExperience(e, d)
  BY DEF Clients, SameMicrophone, SameStart, SameExperience
<1>10. /\ rooms = c.rooms \cup {[sess |-> j.sess, call |-> j.call, up |-> FALSE]}
      /\ contexts = c.contexts \cup {j.sess}
  BY <1>2 DEF rooms, contexts, room
<1> DEFINE d == WithRoom(c, j)
<1>11. /\ d.joins = e.joins
      /\ d.session = e.session /\ d.room = j.sess /\ d.held = j.sess
      /\ d.rooms = rooms /\ d.contexts = contexts
      /\ d.status = e.status /\ d.call = e.call /\ d.reason = e.reason
      /\ d.crossed = e.crossed
      /\ SameMicrophone(e, d) /\ SameStart(e, d) /\ SameExperience(e, d) /\ d \in Clients
  BY <1>6, <1>8, <1>9
<1> HIDE DEF d
<1>12. SameMicrophone(c, d) /\ SameStart(c, d) /\ SameExperience(c, d)
  BY <1>2, <1>11 DEF SameMicrophone, SameStart, SameExperience
<1> QED
  BY <1>2, <1>10, <1>11, <1>12 DEF d, k

LEMMA ApplyFields ==
    ASSUME NEW c \in Clients, NEW join \in BOOLEAN
    PROVE  LET d == Apply(c, join) IN
           /\ d \in Clients /\ d.rev = c.rev + 1 /\ d.mic = c.mic /\ d.muted = c.muted
           /\ d.pref = c.pref
           /\ d.applies = Append(c.applies, [rev |-> c.rev + 1, sess |-> c.session,
                                             on |-> c.pref, join |-> join])
           /\ d.status = c.status /\ d.call = c.call /\ d.reason = c.reason
           /\ d.crossed = c.crossed
           /\ SameRoom(c, d) /\ SameStart(c, d) /\ SameExperience(c, d)
<1> DEFINE change == [rev |-> c.rev + 1, sess |-> c.session, on |-> c.pref, join |-> join]
           applies == Append(c.applies, change)
<1>1. change \in Applies /\ c.rev + 1 \in Nat
  BY DEF Clients, Applies
<1>2. c.applies \in Seq(Applies)
  BY DEF Clients
<1>3. applies \in Seq(Applies)
  BY <1>1, <1>2
<1>4. Apply(c, join) = [c EXCEPT !.rev = c.rev + 1, !.applies = applies]
  BY DEF Apply, Clients
<1> HIDE DEF applies
<1>5. [c EXCEPT !.rev = c.rev + 1, !.applies = applies] \in Clients
  BY <1>1, <1>3, Zenon DEF Clients
<1>6. LET d == [c EXCEPT !.rev = c.rev + 1, !.applies = applies] IN
           /\ d.rev = c.rev + 1 /\ d.mic = c.mic /\ d.muted = c.muted
           /\ d.pref = c.pref /\ d.applies = applies
           /\ d.status = c.status /\ d.call = c.call /\ d.reason = c.reason
           /\ d.crossed = c.crossed
           /\ SameRoom(c, d) /\ SameStart(c, d) /\ SameExperience(c, d)
  BY DEF Clients, SameRoom, SameStart, SameExperience
<1> QED
  BY <1>4, <1>5, <1>6 DEF applies

\* The answer to startCall.
LEMMA StartRefusedFields ==
    ASSUME NEW c \in Clients, NEW reason \in Reasons \cup {NoReason}
    PROVE  LET d == StartRefused(c, reason) IN
           /\ d \in Clients /\ d.status = "idle" /\ d.call = None /\ d.reason = reason
           /\ d.starting = "no" /\ d.created = c.created /\ d.pending = <<>>
           /\ d.crossed = Beside(c.crossed, Invited(c))
           /\ d.pref = c.pref /\ d.mic = c.mic /\ d.rev = c.rev /\ d.applies = c.applies
           /\ SameRoom(c, d) /\ SameExperience(c, d)
<1> DEFINE crossed == Beside(c.crossed, Invited(c))
<1>1. crossed \in Crossings /\ <<>> \in Seq(Signals)
  BY DEF Clients, Invited, Beside, Crossings
<1>2. StartRefused(c, reason) =
          [c EXCEPT !.pending = <<>>, !.reason = reason, !.starting = "no", !.crossed = crossed,
                    !.status = "idle", !.reconnecting = FALSE, !.call = 0, !.muted = FALSE]
  BY DEF StartRefused, ResetLocalState, Clients
<1> HIDE DEF crossed
<1>3. [c EXCEPT !.pending = <<>>, !.reason = reason, !.starting = "no", !.crossed = crossed,
                !.status = "idle", !.reconnecting = FALSE, !.call = 0, !.muted = FALSE]
        \in Clients
  BY <1>1, Zenon DEF Clients, Statuses
<1>4. LET d == [c EXCEPT !.pending = <<>>, !.reason = reason, !.starting = "no",
                         !.crossed = crossed, !.status = "idle", !.reconnecting = FALSE,
                         !.call = 0, !.muted = FALSE] IN
      /\ d.status = "idle" /\ d.call = None /\ d.reason = reason
      /\ d.starting = "no" /\ d.created = c.created /\ d.pending = <<>>
      /\ d.crossed = crossed
      /\ d.pref = c.pref /\ d.mic = c.mic /\ d.rev = c.rev /\ d.applies = c.applies
      /\ SameRoom(c, d) /\ SameExperience(c, d)
  BY DEF Clients, SameRoom, SameExperience
<1> QED
  BY <1>2, <1>3, <1>4 DEF crossed

\* The client that the pending signals are handled by.
Begun(c, id) == [c EXCEPT !.call = id, !.pending = <<>>]

LEMMA BegunFields ==
    ASSUME NEW c \in Clients, NEW id \in Nat
    PROVE  LET d == Begun(c, id) IN
           /\ d \in Clients /\ d.call = id /\ d.pending = <<>>
           /\ d.status = c.status /\ d.reason = c.reason /\ d.starting = c.starting
           /\ d.created = c.created /\ d.crossed = c.crossed
           /\ SameRoom(c, d) /\ SameMicrophone(c, d) /\ SameExperience(c, d)
<1>1. <<>> \in Seq(Signals)
  OBVIOUS
<1>2. Begun(c, id) \in Clients
  BY <1>1, Zenon DEF Clients, Begun
<1> QED
  BY <1>2 DEF Begun, Clients, SameRoom, SameMicrophone, SameExperience

LEMMA StartCreatedFields ==
    ASSUME NEW c \in Clients, NEW id \in Nat,
           NEW e \in Clients, e = Replayed(Begun(c, id), c.pending)
    PROVE  LET d == StartCreated(c, id) IN
           /\ d \in Clients /\ d.starting = "no" /\ d.created = None /\ d.shown = id
           /\ d.crossed = Beside(e.crossed, Invited(c))
           /\ d.pending = e.pending /\ d.seen = e.seen /\ d.toast = e.toast
           /\ d.status = e.status /\ d.call = e.call /\ d.reason = e.reason
           /\ SameRoom(e, d) /\ SameMicrophone(e, d)
<1> DEFINE crossed == Beside(e.crossed, Invited(c))
<1>1. crossed \in Crossings
  BY DEF Clients, Invited, Beside, Crossings
<1>2. StartCreated(c, id) = [e EXCEPT !.starting = "no", !.created = 0, !.shown = id,
                                      !.crossed = crossed]
  BY DEF StartCreated, Begun, Clients
<1> HIDE DEF crossed
<1>3. [e EXCEPT !.starting = "no", !.created = 0, !.shown = id, !.crossed = crossed] \in Clients
  <2> DEFINE f == [e EXCEPT !.starting = "no", !.created = 0]
  <2>1. f \in Clients
    BY ZenonT(60) DEF Clients
  <2>2. [f EXCEPT !.shown = id, !.crossed = crossed] =
            [e EXCEPT !.starting = "no", !.created = 0, !.shown = id, !.crossed = crossed]
    BY ClientDomain
  <2> HIDE DEF f
  <2>3. [f EXCEPT !.shown = id, !.crossed = crossed] \in Clients
    BY <1>1, <2>1, Zenon DEF Clients
  <2> QED
    BY <2>2, <2>3
<1>4. LET d == [e EXCEPT !.starting = "no", !.created = 0, !.shown = id, !.crossed = crossed] IN
      /\ d.starting = "no" /\ d.created = None /\ d.shown = id /\ d.crossed = crossed
      /\ d.pending = e.pending /\ d.seen = e.seen /\ d.toast = e.toast
      /\ d.status = e.status /\ d.call = e.call /\ d.reason = e.reason
      /\ SameRoom(e, d) /\ SameMicrophone(e, d)
  BY DEF Clients, SameRoom, SameMicrophone
<1> QED
  BY <1>2, <1>3, <1>4 DEF crossed

-----------------------------------------------------------------------------
(* Types and ranges *)

Typed == TypeOK /\ InRange

LEMMA NamedEnd ==
    ASSUME calls \in Seq(Calls), NEW c \in Clients, Named(c), NEW reason \in Reasons
    PROVE  Named(EndSession(c, reason))
<1> DEFINE d == EndSession(c, reason)
<1>1. d.call = None /\ d.joins = c.joins /\ SameStart(c, d) /\ SameExperience(c, d)
  BY EndSessionFields
<1> HIDE DEF d
<1>2. Named(d)
  BY <1>1 DEF Named, SameStart, SameExperience
<1> QED
  BY <1>2 DEF d

LEMMA NamedJoin ==
    ASSUME calls \in Seq(Calls), NEW c \in Clients, Named(c)
    PROVE  Named(JoinRoom([c EXCEPT !.status = "active"]))
<1> DEFINE d == JoinRoom([c EXCEPT !.status = "active"])
<1>1. /\ d.call = c.call /\ SameStart(c, d) /\ SameExperience(c, d)
      /\ \/ c.call = None /\ d.joins = c.joins
         \/ c.call # None /\ d.joins = c.joins \cup {[sess |-> c.session + 1, call |-> c.call,
                                                      pc |-> "token"]}
  BY JoinRoomFields DEF SameRoom
<1> HIDE DEF d
<1>2. c.call \in Nat
  BY DEF Clients
<1>3. Named(d)
  BY <1>1, <1>2 DEF Named, SameStart, SameExperience
<1> QED
  BY <1>3 DEF d

LEMMA NamedHandled ==
    ASSUME calls \in Seq(Calls), NEW c \in Clients, Named(c),
           NEW s \in Signals, s.call \in DOMAIN calls
    PROVE  Named(Handled(c, s))
<1> DEFINE d == Handled(c, s)
<1>1. /\ SameStart(c, d) /\ SameExperience(c, d)
      /\ \/ Ignored(c, d, s) \/ Rings(c, d, s) \/ IsAccepted(c, d, s) \/ IsEnded(c, d, s)
         \/ s.type = "accept" /\ c.status # "outgoing" /\ d = c
  BY HandledFields
<1> SUFFICES Named(d)
  OBVIOUS
<1> HIDE DEF d
<1>2. CASE Ignored(c, d, s) \/ Rings(c, d, s)
  BY <1>1, <1>2 DEF Ignored, Rings, Named, SameStart, SameExperience, SameRoom
<1>3. CASE IsAccepted(c, d, s)
  BY <1>3, NamedJoin DEF IsAccepted
<1>4. CASE IsEnded(c, d, s)
  BY <1>4, NamedEnd DEF IsEnded
<1>5. CASE d = c
  BY <1>5
<1> QED
  BY <1>1, <1>2, <1>3, <1>4, <1>5

\* While the id of a new call is awaited.
Waits(c) == c.starting # "no" /\ c.status = "outgoing" /\ c.call = None

LEMMA WaitingFields ==
    ASSUME NEW c \in Clients, NEW s \in Signals, Waits(c)
    PROVE  LET d == HandleSignal(c, s) IN
           /\ d \in Clients /\ d.pending = Append(c.pending, s)
           /\ d.status = c.status /\ d.call = c.call /\ d.reason = c.reason
           /\ d.crossed = c.crossed /\ d.starting = c.starting /\ d.created = c.created
           /\ SameRoom(c, d) /\ SameMicrophone(c, d) /\ SameExperience(c, d)
<1> DEFINE pending == Append(c.pending, s)
<1>1. c.pending \in Seq(Signals)
  BY DEF Clients
<1>2. pending \in Seq(Signals)
  BY <1>1
<1>3. HandleSignal(c, s) = [c EXCEPT !.pending = pending]
  BY DEF HandleSignal, Waits
<1> HIDE DEF pending
<1>4. [c EXCEPT !.pending = pending] \in Clients
  BY <1>2, Zenon DEF Clients
<1> DEFINE d == [c EXCEPT !.pending = pending]
<1>5. /\ d.pending = pending
      /\ \A x \in DOMAIN c : x # "pending" => d[x] = c[x]
  BY ClientDomain
<1> HIDE DEF d
<1>6. /\ d.status = c.status /\ d.call = c.call /\ d.reason = c.reason /\ d.crossed = c.crossed
      /\ d.starting = c.starting /\ d.created = c.created
      /\ SameRoom(c, d) /\ SameMicrophone(c, d) /\ SameExperience(c, d)
  BY <1>5, ClientDomain DEF SameRoom, SameMicrophone, SameExperience
<1> QED
  BY <1>3, <1>4, <1>5, <1>6 DEF d, pending

LEMMA NamedSignal ==
    ASSUME calls \in Seq(Calls), NEW c \in Clients, Named(c),
           NEW s \in Signals, s.call \in DOMAIN calls
    PROVE  HandleSignal(c, s) \in Clients /\ Named(HandleSignal(c, s))
<1>1. CASE Waits(c)
  <2> DEFINE d == HandleSignal(c, s)
  <2>1. /\ d \in Clients /\ d.pending = Append(c.pending, s)
        /\ d.call = c.call /\ d.starting = c.starting /\ d.created = c.created
        /\ d.joins = c.joins /\ d.shown = c.shown
    BY <1>1, WaitingFields DEF SameRoom, SameExperience
  <2> HIDE DEF d
  <2>2. c.pending \in Seq(Signals)
    BY DEF Clients
  <2>3. Named(d)
    BY <2>1, <2>2 DEF Named
  <2> QED
    BY <2>1, <2>3 DEF d
<1>2. CASE ~Waits(c)
  <2>1. HandleSignal(c, s) = Handled(c, s)
    BY <1>2 DEF HandleSignal, Waits
  <2> QED
    BY <2>1, NamedHandled, HandledFields
<1> QED
  BY <1>1, <1>2

\* Handling the pending signals leaves startCall and the experience alone.
LEMMA NamedReplayed ==
    ASSUME calls \in Seq(Calls), NEW c \in Clients, Named(c), c.created # None
    PROVE  LET e == Replayed(Begun(c, c.created), c.pending) IN
           /\ e \in Clients /\ Named(e)
           /\ SameStart(Begun(c, c.created), e) /\ SameExperience(Begun(c, c.created), e)
<1> DEFINE b == Begun(c, c.created)
           G == {d \in Clients : /\ Named(d) /\ SameStart(b, d) /\ SameExperience(b, d)
                                 /\ ~Waits(d)}
           Good == [n \in Nat |-> G]
<1>1. c.pending \in Seq(Signals) /\ c.created \in Nat
  BY DEF Clients
<1>2. b \in G
  <2>1. /\ b \in Clients /\ b.call = c.created /\ b.pending = <<>> /\ b.starting = c.starting
        /\ b.created = c.created /\ b.joins = c.joins /\ b.shown = c.shown
    BY <1>1, BegunFields DEF SameRoom, SameExperience
  <2> HIDE DEF b
  <2>2. Named(b) /\ ~Waits(b)
    BY <2>1 DEF Named, Waits
  <2> QED
    BY <2>1, <2>2 DEF SameStart, SameExperience
<1> HIDE DEF b
<1>3. ASSUME NEW n \in 1..Len(c.pending), NEW d \in G
      PROVE  HandleSignal(d, c.pending[n]) \in G
  <2> DEFINE s == c.pending[n]
             f == Handled(d, s)
  <2>1. s \in Signals /\ s.call \in DOMAIN calls
    BY <1>1 DEF Named
  <2>2. HandleSignal(d, s) = f
    BY <1>3 DEF HandleSignal, Waits
  <2>3. f \in Clients /\ Named(f)
    BY <2>1, NamedHandled, HandledFields
  <2>4. /\ SameStart(d, f) /\ SameExperience(d, f)
        /\ \/ Ignored(d, f, s) \/ Rings(d, f, s) \/ IsAccepted(d, f, s) \/ IsEnded(d, f, s)
           \/ f = d
    BY <2>1, HandledFields
  <2>5. IsAccepted(d, f, s) => f.status = "active"
    BY JoinRoomFields DEF IsAccepted
  <2>6. IsEnded(d, f, s) => f.status = "idle"
    BY EndSessionFields DEF IsEnded
  <2> HIDE DEF f, s
  <2>7. ~Waits(f)
    BY <2>4, <2>5, <2>6 DEF Waits, Ignored, Rings, SameStart
  <2>8. SameStart(b, f) /\ SameExperience(b, f)
    BY <2>4 DEF SameStart, SameExperience
  <2> QED
    BY <2>2, <2>3, <2>7, <2>8 DEF s
<1> HIDE DEF G
<1>4. Replayed(b, c.pending) \in Good[Len(c.pending)]
  <2>1. Len(c.pending) \in Nat
    BY <1>1
  <2>2. b \in Good[0]
    BY <1>2
  <2>3. \A n \in 1..Len(c.pending) : \A d \in Good[n - 1] :
            HandleSignal(d, c.pending[n]) \in Good[n]
    BY <1>3, <2>1
  <2> HIDE DEF Good
  <2> QED
    BY <2>1, <2>2, <2>3, ReplayKeeps
<1>5. Replayed(b, c.pending) \in G
  BY <1>1, <1>4
<1> QED
  BY <1>5 DEF G, b

LEMMA NamedBecome ==
    ASSUME NEW c \in Clients, Named(c), Become(c), calls' = calls
    PROVE  client' \in Clients /\ Named(client)'
<1>1. /\ client' \in Clients
      /\ client'.call = c.call /\ client'.starting = c.starting /\ client'.created = c.created
      /\ client'.pending = c.pending /\ client'.joins = c.joins
      /\ client'.shown = IF c.call # None THEN c.call ELSE c.shown
  BY BecomeFields DEF Alike, SameStart, SameRoom
<1> QED
  BY <1>1 DEF Named

\* One more call, or another record of one.
LEMMA CallAppended ==
    ASSUME calls \in Seq(Calls), NEW mine \in BOOLEAN, calls' = Append(calls, NewCall(mine))
    PROVE  /\ calls' \in Seq(Calls) /\ Len(calls') = Len(calls) + 1 /\ Len(calls) \in Nat
           /\ DOMAIN calls = 1..Len(calls) /\ DOMAIN calls' = 1..(Len(calls) + 1)
           /\ \A i \in DOMAIN calls : calls'[i] = calls[i]
           /\ calls'[Len(calls) + 1] = NewCall(mine)
<1>1. NewCall(mine) \in Calls
  BY DEF NewCall, Calls
<1> QED
  BY <1>1

LEMMA CallUpdated ==
    ASSUME calls \in Seq(Calls), NEW i \in DOMAIN calls, NEW k \in Calls,
           calls' = [calls EXCEPT ![i] = k]
    PROVE  /\ calls' \in Seq(Calls) /\ Len(calls') = Len(calls) /\ DOMAIN calls' = DOMAIN calls
           /\ calls'[i] = k
           /\ \A x \in DOMAIN calls : x # i => calls'[x] = calls[x]
OBVIOUS

\* What the server's steps make of a call.
LEMMA EndedFields ==
    ASSUME calls \in Seq(Calls), NEW i \in DOMAIN calls,
           NEW by \in {"me", "peer"}, NEW reason \in Reasons
    PROVE  \E k \in Calls :
           /\ Ended(i, by, reason) = [calls EXCEPT ![i] = k]
           /\ k.mine = calls[i].mine /\ k.in = calls[i].in /\ k.state = "ended"
           /\ k.by = by /\ k.reason = reason /\ k.rang = (calls[i].state = "ringing")
<1> DEFINE k == [calls[i] EXCEPT !.state = "ended", !.by = by, !.reason = reason,
                                 !.rang = calls[i].state = "ringing"]
<1>1. calls[i] \in Calls
  OBVIOUS
<1>2. k \in Calls
  BY <1>1 DEF Calls
<1>3. Ended(i, by, reason) = [calls EXCEPT ![i] = k]
  BY DEF Ended
<1> QED
  BY <1>1, <1>2, <1>3 DEF Calls

\* A call goes on from ringing to active to ended, and how it ended stays.
Advances(k, m) ==
    /\ m.mine = k.mine
    /\ k.state # "ringing" => m.state # "ringing"
    /\ k.state = "active" => m.state = "active" \/ ~m.rang
    /\ k.state = "ended" => /\ m.state = "ended" /\ m.by = k.by
                            /\ m.reason = k.reason /\ m.rang = k.rang

CallsAdvance ==
    /\ calls' \in Seq(Calls) /\ Len(calls) <= Len(calls')
    /\ \A i \in DOMAIN calls : i \in DOMAIN calls' /\ Advances(calls[i], calls'[i])

LEMMA SameCalls ==
    ASSUME calls \in Seq(Calls), calls' = calls
    PROVE  CallsAdvance
BY DEF CallsAdvance, Advances


\* What a step leaves to be shown once client and calls are.
Kept ==
    /\ acts \subseteq Requested /\ wire \in Seq(Sent)
    /\ spent \in [clicks : 0..MaxClicks, toggles : 0..MaxUpsets, failures : 0..MaxUpsets]
    /\ lost \in BOOLEAN
    /\ \A a \in acts : a.call <= Len(calls)
    /\ \A p \in DOMAIN wire : wire[p].call <= Len(calls)

LEMMA TypedParts ==
    ASSUME Typed
    PROVE  /\ client \in Clients /\ Named(client) /\ calls \in Seq(Calls) /\ Len(calls) \in Nat
           /\ Len(calls) <= MaxCalls /\ DOMAIN calls = 1..Len(calls) /\ Kept
BY DEF Typed, TypeOK, InRange, Kept

LEMMA TypedWhole ==
    ASSUME client' \in Clients, Named(client)', calls' \in Seq(Calls), Len(calls') <= MaxCalls, Kept'
    PROVE  Typed'
BY DEF Typed, TypeOK, InRange, Kept

\* Only the client has changed, and a bound been used.
LEMMA KeptSame ==
    ASSUME Kept, UNCHANGED <<acts, calls, wire>>, lost' \in BOOLEAN,
           \/ UNCHANGED spent \/ Click
           \/ Calm /\ spent' = [spent EXCEPT !.toggles = @ + 1]
           \/ Fault
    PROVE  Kept'
<1>1. MaxCalls \in Nat /\ MaxClicks \in Nat /\ MaxUpsets \in Nat
  BY CallClientAssumption
<1>2. spent' \in [clicks : 0..MaxClicks, toggles : 0..MaxUpsets, failures : 0..MaxUpsets]
  BY <1>1 DEF Kept, Click, Calm, Fault
<1> QED
  BY <1>2 DEF Kept

LEMMA TypedClient ==
    ASSUME Typed, client' \in Clients, Named(client)', UNCHANGED <<acts, calls, wire>>,
           lost' \in BOOLEAN,
           \/ UNCHANGED spent \/ Click
           \/ Calm /\ spent' = [spent EXCEPT !.toggles = @ + 1]
           \/ Fault
    PROVE  Typed' /\ CallsAdvance
<1>1. Kept'
  BY TypedParts, KeptSame
<1>2. Typed'
  BY <1>1, TypedParts, TypedWhole
<1> QED
  BY <1>2, TypedParts, SameCalls

LEMMA TypedStartCall ==
    ASSUME Typed, StartCall
    PROVE  Typed' /\ CallsAdvance
<1> DEFINE c == [client EXCEPT !.status = "outgoing", !.call = None, !.reason = NoReason,
                               !.starting = "posted", !.shown = None]
<1>1. c \in Clients
  BY TypedParts, Zenon DEF Clients, Statuses
<1>2. Named(c)
  BY TypedParts DEF StartCall, Named, Clients
<1>3. client' \in Clients /\ Named(client)' 
  BY <1>1, <1>2, NamedBecome DEF StartCall, Same
<1> QED
  BY <1>3, TypedClient, TypedParts DEF StartCall, Same, Kept

LEMMA TypedTogglePreference ==
    ASSUME Typed, TogglePreference
    PROVE  Typed' /\ CallsAdvance
<1> DEFINE c == [client EXCEPT !.pref = ~@]
           pref == ~client.pref
<1>1. client \in Clients /\ Named(client)
  BY TypedParts
<1>2. c \in Clients
  <2>1. pref \in BOOLEAN /\ c = [client EXCEPT !.pref = pref]
    BY <1>1 DEF Clients
  <2> HIDE DEF pref
  <2>2. [client EXCEPT !.pref = pref] \in Clients
    BY <1>1, <2>1, Zenon DEF Clients
  <2> QED
    BY <2>1, <2>2
<1>3. Named(c)
  BY <1>1 DEF Named, Clients
<1>4. client' = Apply(c, FALSE) \/ client' = c
  BY DEF TogglePreference
<1>5. calls' = calls
  BY DEF TogglePreference, Same
<1> HIDE DEF c
<1>6. ASSUME NEW d, d = Apply(c, FALSE)
      PROVE  d \in Clients /\ Named(d)
  <2>1. /\ d \in Clients /\ d.call = c.call /\ d.starting = c.starting /\ d.created = c.created
        /\ d.pending = c.pending /\ d.joins = c.joins /\ d.shown = c.shown
    BY <1>2, <1>6, ApplyFields DEF SameRoom, SameStart, SameExperience
  <2> QED
    BY <1>3, <2>1 DEF Named
<1>7. client' \in Clients /\ Named(client')
  BY <1>2, <1>3, <1>4, <1>6
<1>8. Named(client)'
  BY <1>5, <1>7 DEF Named
<1> QED
  BY <1>7, <1>8, TypedClient, TypedParts DEF TogglePreference, Same, Kept

LEMMA TypedStartAnswered ==
    ASSUME Typed, StartAnswered
    PROVE  Typed' /\ CallsAdvance
<1>1. client \in Clients /\ Named(client) /\ calls \in Seq(Calls)
  BY TypedParts
<1>2. calls' = calls
  BY DEF StartAnswered, Same
<1>3. \E c \in Clients : Named(c) /\ Become(c)
  <2>1. CASE client.starting = "created"
    <3>1. client.created # None /\ client.created \in Nat
      BY <1>1, <2>1 DEF Named, Clients
    <3>2. PICK e \in Clients :
             /\ e = Replayed(Begun(client, client.created), client.pending) /\ Named(e)
             /\ SameStart(Begun(client, client.created), e)
      BY <1>1, <3>1, NamedReplayed
    <3> DEFINE d == StartCreated(client, client.created)
    <3>3. /\ d \in Clients /\ d.starting = "no" /\ d.created = None /\ d.shown = client.created
          /\ d.pending = e.pending /\ d.call = e.call /\ SameRoom(e, d)
      BY <1>1, <3>1, <3>2, StartCreatedFields
    <3>4. Become(d)
      BY <2>1 DEF StartAnswered
    <3> HIDE DEF d
    <3>5. Named(d)
      BY <1>1, <3>2, <3>3 DEF Named, SameRoom
    <3> QED
      BY <3>3, <3>4, <3>5
  <2>2. CASE client.starting \in {"refused", "failed"}
    <3>1. PICK r \in Reasons \cup {NoReason} : Become(StartRefused(client, r))
      BY <2>2 DEF StartAnswered, Reasons
    <3> DEFINE d == StartRefused(client, r)
    <3>2. /\ d \in Clients /\ d.starting = "no" /\ d.created = client.created
          /\ d.pending = <<>> /\ d.call = None /\ SameRoom(client, d) /\ d.shown = client.shown
      BY <1>1, StartRefusedFields DEF SameExperience
    <3> HIDE DEF d
    <3>3. Named(d)
      BY <1>1, <2>2, <3>2 DEF Named, SameRoom
    <3> QED
      BY <3>1, <3>2, <3>3 DEF d
  <2> QED
    BY <2>1, <2>2 DEF StartAnswered
<1>4. client' \in Clients /\ Named(client)'
  BY <1>2, <1>3, NamedBecome
<1> QED
  BY <1>4, TypedClient, TypedParts DEF StartAnswered, Same, Kept

LEMMA TypedDeliverSignal ==
    ASSUME Typed, DeliverSignal
    PROVE  Typed' /\ CallsAdvance
<1>1. client \in Clients /\ Named(client) /\ calls \in Seq(Calls) /\ Kept
  BY TypedParts
<1>2. PICK m \in Sent : m = Head(wire) /\ m.call <= Len(calls) /\ wire' \in Seq(Sent)
  BY <1>1 DEF DeliverSignal, Kept
<1> DEFINE s == ParseCallSignal(m)
           c == HandleSignal(client, s)
<1>3. s \in Signals /\ s.call \in DOMAIN calls
  <2>1. s \in Signals /\ s.call = m.call
    BY ReasonFacts
  <2>2. m.call \in 1..MaxCalls
    BY DEF Sent
  <2> QED
    BY <1>1, <1>2, <2>1, <2>2
<1>4. c \in Clients /\ Named(c)
  BY <1>1, <1>3, NamedSignal
<1>5. client' \in Clients /\ Named(client)'
  BY <1>2, <1>4, NamedBecome DEF DeliverSignal
<1>6. Kept'
  BY <1>1, <1>2 DEF Kept, DeliverSignal
<1>7. Typed'
  BY <1>5, <1>6, TypedParts, TypedWhole DEF DeliverSignal
<1> QED
  BY <1>1, <1>7, SameCalls DEF DeliverSignal

\* An answer and a signal cross.
Crossing(c, crossed) == [c EXCEPT !.crossed = crossed]

LEMMA CrossingFields ==
    ASSUME NEW c \in Clients, NEW crossed \in Crossings
    PROVE  LET d == Crossing(c, crossed) IN
           /\ d \in Clients /\ d.crossed = crossed
           /\ d.status = c.status /\ d.call = c.call /\ d.reason = c.reason
           /\ SameRoom(c, d) /\ SameMicrophone(c, d) /\ SameStart(c, d) /\ SameExperience(c, d)
<1>1. Crossing(c, crossed) \in Clients
  BY Zenon DEF Clients, Crossing
<1> QED
  BY <1>1 DEF Crossing, Clients, SameRoom, SameMicrophone, SameStart, SameExperience

LEMMA NamedCrossing ==
    ASSUME NEW c \in Clients, Named(c), NEW crossed \in Crossings
    PROVE  Named(Crossing(c, crossed))
<1> DEFINE d == Crossing(c, crossed)
<1>1. SameRoom(c, d) /\ SameStart(c, d) /\ SameExperience(c, d) /\ d.call = c.call
  BY CrossingFields
<1> SUFFICES Named(d)
  OBVIOUS
<1> HIDE DEF d
<1> QED
  BY <1>1 DEF Named, SameRoom, SameStart, SameExperience

\* The client that its own hang-up is answered to.
LeftBy(c, sess) == [c EXCEPT !.joins = {j \in @ : j.sess # sess}]

LEMMA LeftByFields ==
    ASSUME NEW c \in Clients, NEW sess
    PROVE  LET d == LeftBy(c, sess) IN
           /\ d \in Clients /\ d.joins = {j \in c.joins : j.sess # sess} /\ d.session = c.session
           /\ d.room = c.room /\ d.rooms = c.rooms /\ d.contexts = c.contexts /\ d.held = c.held
           /\ d.status = c.status /\ d.call = c.call /\ d.reason = c.reason
           /\ d.crossed = c.crossed
           /\ SameMicrophone(c, d) /\ SameStart(c, d) /\ SameExperience(c, d)
<1> DEFINE joins == {j \in c.joins : j.sess # sess}
<1>1. joins \in SUBSET Joins
  BY DEF Clients
<1>2. LeftBy(c, sess) = [c EXCEPT !.joins = joins]
  BY DEF LeftBy
<1> HIDE DEF joins
<1>3. [c EXCEPT !.joins = joins] \in Clients
  BY <1>1, Zenon DEF Clients
<1> DEFINE d == [c EXCEPT !.joins = joins]
<1>4. /\ d.joins = joins
      /\ \A x \in DOMAIN c : x # "joins" => d[x] = c[x]
  BY ClientDomain
<1> HIDE DEF d
<1>5. /\ d.session = c.session
      /\ d.room = c.room /\ d.rooms = c.rooms /\ d.contexts = c.contexts /\ d.held = c.held
      /\ d.status = c.status /\ d.call = c.call /\ d.reason = c.reason /\ d.crossed = c.crossed
      /\ SameMicrophone(c, d) /\ SameStart(c, d) /\ SameExperience(c, d)
  BY <1>4, ClientDomain DEF SameMicrophone, SameStart, SameExperience
<1> QED
  BY <1>2, <1>3, <1>4, <1>5 DEF d, joins

\* What the answer to a request can do to the client.
Accepts(a) ==
    /\ a.kind = "accept" /\ a.stage = "ok" 
    /\ Become(JoinRoom([Crossing(client, Crossed(client, a, "over"))
                           EXCEPT !.status = "active"]))

EndsWith(a, reason, crossed) ==
    /\ ~(a.kind = "hangup" /\ a.sess # None)
    /\ Become(Crossing(EndSession(client, reason), crossed))
    /\ \/ a.stage = "ok" /\ crossed = Crossed(client, a, client.crossed)
          /\ \/ a.kind \in {"reject", "rejectBlocked"} /\ reason = "rejected"
             \/ a.kind = "cancel" /\ reason = "canceled"
             \/ a.kind = "hangup" /\ reason = "ended"
       \/ a.kind = "rejectBlocked" /\ a.stage = "refused" /\ reason = "rejected" /\ crossed = "other"

HangsUp(a) ==
    /\ a.kind = "hangup" /\ a.sess # None
    /\ IF a.sess = client.session THEN Become(EndSession(LeftBy(client, a.sess), "disconnected"))
       ELSE client' = LeftBy(client, a.sess)

LeavesAlone(a) ==
    /\ client' = client
    /\ ~(a.kind = "hangup" /\ a.sess # None)
    /\ a.stage = "ok" => a.kind = "block"

LEMMA AnsweredCases ==
    ASSUME Typed, NEW a \in acts, ActAnswered(a)
    PROVE  \/ Accepts(a) \/ HangsUp(a) \/ LeavesAlone(a)
           \/ \E reason \in Reasons, crossed \in Crossings : EndsWith(a, reason, crossed)
<1>1. client \in Clients /\ a \in Requested
  BY TypedParts DEF Kept
<1>2. a.kind \in Kinds /\ client.crossed \in Crossings
  BY <1>1 DEF Requested, Clients
<1>3. CASE a.kind = "hangup" /\ a.sess # None
  BY <1>1, <1>3 DEF ActAnswered, HangsUp, LeftBy, Clients
<1>4. CASE ~(a.kind = "hangup" /\ a.sess # None) /\ a.stage = "ok"
  <2>1. CASE a.kind = "accept"
    <3> DEFINE x == Crossed(client, a, "over")
    <3>1. [Crossing(client, x) EXCEPT !.status = "active"]
             = [client EXCEPT !.status = "active", !.crossed = x]
      BY <1>1 DEF Crossing, Clients
    <3> QED
      BY <1>1, <1>4, <2>1, <3>1 DEF ActAnswered, Accepts, Clients
  <2>2. CASE a.kind = "block"
    BY <1>4, <2>2 DEF ActAnswered, LeavesAlone
  <2>3. ASSUME NEW reason \in Reasons, EndAfter(a, reason),
               \/ a.kind \in {"reject", "rejectBlocked"} /\ reason = "rejected"
               \/ a.kind = "cancel" /\ reason = "canceled"
               \/ a.kind = "hangup" /\ reason = "ended"
        PROVE  \E crossed \in Crossings : EndsWith(a, reason, crossed)
    <3> DEFINE e == EndSession(client, reason)
             x == Crossed(client, a, client.crossed)
    <3>1. Become([e EXCEPT !.crossed = x])
      BY <2>3 DEF EndAfter
    <3>2. x \in Crossings
      BY <1>1, CrossingTypes
    <3> HIDE DEF e, x
    <3>3. Become(Crossing(e, x))
      BY <3>1 DEF Crossing
    <3> QED
      BY <1>2, <1>4, <2>3, <3>2, <3>3 DEF EndsWith, e, x
  <2>4. CASE a.kind \in {"reject", "rejectBlocked"}
    <3>1. EndAfter(a, "rejected") /\ "rejected" \in Reasons
      BY <1>4, <2>4 DEF ActAnswered, Reasons
    <3> QED
      BY <2>3, <2>4, <3>1
  <2>5. CASE a.kind = "cancel"
    <3>1. EndAfter(a, "canceled") /\ "canceled" \in Reasons
      BY <1>4, <2>5 DEF ActAnswered, Reasons
    <3> QED
      BY <2>3, <2>5, <3>1
  <2>6. CASE a.kind = "hangup"
    <3>1. EndAfter(a, "ended") /\ "ended" \in Reasons
      BY <1>4, <2>6 DEF ActAnswered, Reasons
    <3> QED
      BY <2>3, <2>6, <3>1
  <2> QED
    BY <1>2, <2>1, <2>2, <2>4, <2>5, <2>6 DEF Kinds
<1>5. CASE a.kind = "rejectBlocked" /\ a.stage = "refused"
  <2>1. "rejected" \in Reasons /\ "other" \in Crossings
    BY DEF Reasons, Crossings
  <2>2. Become(Crossing(EndSession(client, "rejected"), "other"))
    BY <1>5 DEF ActAnswered, Crossing
  <2> QED
    BY <1>5, <2>1, <2>2 DEF EndsWith
<1>6. CASE ~(a.kind = "hangup" /\ a.sess # None) /\ a.stage # "ok"
           /\ ~(a.kind = "rejectBlocked" /\ a.stage = "refused")
  BY <1>6 DEF ActAnswered, LeavesAlone
<1> QED
  BY <1>3, <1>4, <1>5, <1>6

LEMMA KeptAnswered ==
    ASSUME Kept, NEW a \in acts, ActAnswered(a)
    PROVE  Kept'
<1>1. a \in Requested /\ a.call <= Len(calls)
  BY DEF Kept
<1>2. [a EXCEPT !.kind = "rejectBlocked", !.stage = "sent"] \in Requested
  BY <1>1 DEF Requested, Kinds
<1>3. [a EXCEPT !.kind = "rejectBlocked", !.stage = "sent"].call = a.call
  BY <1>1 DEF Requested
<1>4. acts' \subseteq acts \cup {[a EXCEPT !.kind = "rejectBlocked", !.stage = "sent"]}
  BY DEF ActAnswered
<1> QED
  BY <1>1, <1>2, <1>3, <1>4 DEF ActAnswered, Same, Kept

LEMMA TypedActAnswered ==
    ASSUME Typed, NEW a \in acts, ActAnswered(a)
    PROVE  Typed' /\ CallsAdvance
<1>1. client \in Clients /\ Named(client) /\ calls \in Seq(Calls) /\ Kept
  BY TypedParts
<1>2. calls' = calls
  BY DEF ActAnswered, Same
<1>3. client' \in Clients /\ Named(client)'
  <2>1. CASE Accepts(a)
    <3> DEFINE x == Crossed(client, a, "over")
               c == Crossing(client, x)
               d == JoinRoom([c EXCEPT !.status = "active"])
    <3>1. x \in Crossings
      BY <1>1, CrossingTypes
    <3> HIDE DEF x
    <3>2. c \in Clients /\ Named(c)
      BY <1>1, <3>1, CrossingFields, NamedCrossing
    <3>3. Become(d)
      BY <2>1 DEF Accepts, x
    <3> HIDE DEF c
    <3>4. d \in Clients /\ Named(d)
      BY <1>1, <3>2, JoinRoomFields, NamedJoin
    <3> QED
      BY <1>2, <3>3, <3>4, NamedBecome
  <2>2. CASE HangsUp(a)
    <3> DEFINE c == LeftBy(client, a.sess)
               d == EndSession(c, "disconnected")
    <3>1. /\ c \in Clients /\ c.joins \subseteq client.joins /\ c.call = client.call
          /\ SameStart(client, c) /\ SameExperience(client, c)
      BY <1>1, LeftByFields
    <3>2. client' = c \/ Become(d)
      BY <2>2 DEF HangsUp
    <3> HIDE DEF c
    <3>3. Named(c)
      BY <1>1, <3>1 DEF Named, SameStart, SameExperience
    <3>4. "disconnected" \in Reasons
      BY DEF Reasons
    <3>5. d \in Clients /\ Named(d)
      BY <1>1, <3>1, <3>3, <3>4, EndSessionFields, NamedEnd
    <3> HIDE DEF d
    <3>6. CASE client' = c
      BY <1>2, <3>1, <3>3, <3>6 DEF Named
    <3>7. CASE Become(d)
      BY <1>2, <3>5, <3>7, NamedBecome
    <3> QED
      BY <3>2, <3>6, <3>7
  <2>3. CASE LeavesAlone(a)
    BY <1>1, <1>2, <2>3 DEF LeavesAlone, Named
  <2>4. ASSUME NEW reason \in Reasons, NEW crossed \in Crossings, EndsWith(a, reason, crossed)
        PROVE  client' \in Clients /\ Named(client)'
    <3> DEFINE d == EndSession(client, reason)
    <3>1. d \in Clients /\ Named(d)
      BY <1>1, EndSessionFields, NamedEnd
    <3>2. Become(Crossing(d, crossed))
      BY <2>4 DEF EndsWith
    <3> HIDE DEF d
    <3>3. Crossing(d, crossed) \in Clients /\ Named(Crossing(d, crossed))
      BY <3>1, CrossingFields, NamedCrossing
    <3> QED
      BY <1>2, <3>2, <3>3, NamedBecome
  <2> QED
    BY <2>1, <2>2, <2>3, <2>4, AnsweredCases
<1>4. Typed'
  BY <1>1, <1>2, <1>3, KeptAnswered, TypedParts, TypedWhole
<1> QED
  BY <1>1, <1>2, <1>4, SameCalls

\* Changes to joins, rooms and applies name no other calls.
LEMMA NamedLike ==
    ASSUME NEW c \in Clients, Named(c), NEW d \in Clients, d.call = c.call, SameStart(c, d),
           d.shown = c.shown, \A j \in d.joins : j.call \in DOMAIN calls
    PROVE  Named(d)
BY DEF Named, SameStart

LEMMA TypedTokenAnswered ==
    ASSUME Typed, NEW j \in client.joins, TokenAnswered(j)
    PROVE  Typed' /\ CallsAdvance
<1>1. client \in Clients /\ Named(client) /\ calls \in Seq(Calls) /\ Kept
  BY TypedParts
<1>2. j \in Joins /\ j.call \in DOMAIN calls
  BY <1>1 DEF Named, Clients
<1>3. \/ client' = Left(client, j) \/ client' = WithRoom(client, j)
  BY DEF TokenAnswered
<1>4. CASE client' = Left(client, j)
  <2>1. Left(client, j) \in Clients /\ Named(Left(client, j))
    BY <1>1, LeftFields, NamedLike DEF Named, SameExperience
  <2>2. Named(client)'
    BY <1>4, <2>1 DEF TokenAnswered, Same, Named
  <2> QED
    BY <1>1, <1>4, <2>1, <2>2, TypedClient DEF TokenAnswered, Same, Kept
<1>5. CASE client' = WithRoom(client, j)
  <2> DEFINE d == WithRoom(client, j)
             k == [j EXCEPT !.pc = "connect"]
  <2>1. /\ d \in Clients /\ d.joins = (client.joins \ {j}) \cup {k} /\ d.call = client.call
        /\ SameStart(client, d) /\ d.shown = client.shown
    BY <1>1, <1>2, WithRoomFields DEF SameExperience
  <2>2. k.call = j.call
    BY <1>2 DEF Joins
  <2>3. client' = d
    BY <1>5
  <2> HIDE DEF d, k
  <2>4. Named(d)
    BY <1>1, <1>2, <2>1, <2>2, NamedLike DEF Named
  <2>5. Named(client)'
    BY <2>3, <2>4 DEF TokenAnswered, Same, Named
  <2> QED
    BY <2>1, <2>3, <2>5, TypedClient, <1>1 DEF TokenAnswered, Same, Kept
<1> QED
  BY <1>3, <1>4, <1>5

\* The hang-up that joinRoom's catch sends.
HangUp(call, sess) == [kind |-> "hangup", call |-> call, sess |-> sess, stage |-> "sent"]

LEMMA HangUpKept ==
    ASSUME Kept, NEW call \in 1..Len(calls), NEW sess \in Nat, Len(calls) <= MaxCalls,
           Len(calls) \in Nat
    PROVE  /\ acts \cup {HangUp(call, sess)} \subseteq Requested
           /\ \A a \in acts \cup {HangUp(call, sess)} : a.call <= Len(calls)
<1>1. MaxCalls \in Nat
  BY CallClientAssumption
<1>2. HangUp(call, sess) \in Requested /\ HangUp(call, sess).call = call
  BY <1>1 DEF HangUp, Requested, Kinds
<1> QED
  BY <1>2 DEF Kept

LEMMA NamedStage ==
    ASSUME NEW c \in Clients, Named(c), NEW j \in c.joins,
           NEW pc \in {"token", "connect", "mic", "hangup"}
    PROVE  Stage(c, j, pc) \in Clients /\ Named(Stage(c, j, pc))
<1> DEFINE d == Stage(c, j, pc)
           k == [j EXCEPT !.pc = pc]
<1>1. j \in Joins /\ j.call \in DOMAIN calls
  BY DEF Named, Clients
<1>2. k.call = j.call
  BY <1>1 DEF Joins
<1>3. /\ d \in Clients /\ d.joins = (c.joins \ {j}) \cup {k} /\ d.call = c.call
      /\ SameStart(c, d) /\ d.shown = c.shown
  <2>1. j \in Joins
    BY <1>1
  <2>2. d \in Clients /\ d.joins = (c.joins \ {j}) \cup {k} /\ d.call = c.call
    BY <2>1, StageFields, ZenonT(40)
  <2>3. SameStart(c, d)
    BY <2>1, StageFields, ZenonT(40)
  <2>4. SameExperience(c, d)
    BY <2>1, StageFields, ZenonT(40)
  <2> HIDE DEF d, k
  <2> QED
    BY <2>2, <2>3, <2>4 DEF SameExperience
<1> HIDE DEF d, k
<1>4. Named(d)
  BY <1>1, <1>2, <1>3, NamedLike DEF Named
<1> QED
  BY <1>3, <1>4 DEF d

LEMMA TypedJoinFails ==
    ASSUME Typed, NEW c \in Clients, Named(c), NEW j \in c.joins, JoinFails(c, j), Same,
           UNCHANGED spent \/ Fault
    PROVE  Typed' /\ CallsAdvance
<1>1. /\ calls \in Seq(Calls) /\ Kept
      /\ Len(calls) \in Nat /\ Len(calls) <= MaxCalls /\ DOMAIN calls = 1..Len(calls)
  BY TypedParts
<1>2. calls' = calls
  BY DEF Same
<1>3. Left(c, j) \in Clients /\ Named(Left(c, j))
  BY <1>1, LeftFields, NamedLike DEF Named, SameExperience
<1>4. CASE client' = Left(c, j) /\ UNCHANGED acts
  <2>1. Named(client)'
    BY <1>3, <1>4 DEF Same, Named
  <2> QED
    BY <1>1, <1>3, <1>4, <2>1, TypedClient DEF Same, Kept
<1>5. CASE Become(EndSession(Left(c, j), "disconnected")) /\ UNCHANGED acts
  <2>1. "disconnected" \in Reasons
    BY DEF Reasons
  <2> DEFINE e == Left(c, j)
             d == EndSession(e, "disconnected")
  <2> HIDE DEF e
  <2>2. e \in Clients /\ Named(e)
    BY <1>3 DEF e
  <2>3. d \in Clients /\ Named(d)
    BY <1>1, <2>1, <2>2, EndSessionFields, NamedEnd
  <2>4. Become(d)
    BY <1>5 DEF e
  <2> HIDE DEF d
  <2>5. client' \in Clients /\ Named(client)'
    BY <1>2, <2>3, <2>4, NamedBecome
  <2> QED
    BY <1>1, <1>5, <2>5, TypedClient DEF Same, Kept
<1>6. CASE /\ client' = Stage(c, j, "hangup")
           /\ acts' = acts \cup {HangUp(c.call, j.sess)} /\ c.call # None
  <2>1. client' \in Clients /\ Named(client')
    BY <1>1, <1>6, NamedStage
  <2>2. Named(client)'
    BY <1>2, <2>1 DEF Named
  <2>3. c.call \in 1..Len(calls) /\ j.sess \in Nat
    BY <1>1, <1>6 DEF Named, Clients, Joins
  <2>4. /\ acts' \subseteq Requested /\ \A a \in acts' : a.call <= Len(calls)
    BY <1>1, <1>6, <2>3, HangUpKept
  <2>5. spent' \in [clicks : 0..MaxClicks, toggles : 0..MaxUpsets, failures : 0..MaxUpsets]
    BY <1>1, CallClientAssumption DEF Kept, Calm, Fault
  <2>6. Kept'
    BY <1>1, <2>4, <2>5 DEF Kept, Same
  <2>7. Typed'
    BY <1>1, <1>2, <2>1, <2>2, <2>6, TypedWhole
  <2> QED
    BY <1>1, <1>2, <2>7, SameCalls
<1> QED
  BY <1>4, <1>5, <1>6 DEF JoinFails, HangUp

LEMMA TypedTokenFails ==
    ASSUME Typed, NEW j \in client.joins, TokenFails(j)
    PROVE  Typed' /\ CallsAdvance
BY TypedJoinFails, TypedParts DEF TokenFails

LEMMA TypedConnectFails ==
    ASSUME Typed, NEW j \in client.joins, ConnectFails(j)
    PROVE  Typed' /\ CallsAdvance
BY TypedJoinFails, TypedParts DEF ConnectFails

LEMMA ConnectedFields ==
    ASSUME NEW c \in Clients, NEW j
    PROVE  LET d == Connected(c, j) IN
           /\ d \in Clients
           /\ d.rooms = {IF r.sess = j.sess THEN [r EXCEPT !.up = TRUE] ELSE r : r \in c.rooms}
           /\ d.status = c.status /\ d.call = c.call /\ d.reason = c.reason
           /\ d.crossed = c.crossed
           /\ d.session = c.session /\ d.room = c.room /\ d.contexts = c.contexts
           /\ d.held = c.held /\ d.joins = c.joins
           /\ SameMicrophone(c, d) /\ SameStart(c, d) /\ SameExperience(c, d)
<1> DEFINE rooms == {IF r.sess = j.sess THEN [r EXCEPT !.up = TRUE] ELSE r : r \in c.rooms}
<1>1. c.rooms \subseteq Rooms
  BY DEF Clients
<1>2. \A r \in Rooms : [r EXCEPT !.up = TRUE] \in Rooms
  BY DEF Rooms
<1>3. rooms \in SUBSET Rooms
  BY <1>1, <1>2
<1>4. Connected(c, j) = [c EXCEPT !.rooms = rooms]
  BY DEF Connected
<1> HIDE DEF rooms
<1>5. [c EXCEPT !.rooms = rooms] \in Clients
  BY <1>3, Zenon DEF Clients
<1>6. LET d == [c EXCEPT !.rooms = rooms] IN
      /\ d.rooms = rooms
      /\ d.status = c.status /\ d.call = c.call /\ d.reason = c.reason
      /\ d.crossed = c.crossed
      /\ d.session = c.session /\ d.room = c.room /\ d.contexts = c.contexts
      /\ d.held = c.held /\ d.joins = c.joins
      /\ SameMicrophone(c, d) /\ SameStart(c, d) /\ SameExperience(c, d)
  BY DEF Clients, SameMicrophone, SameStart, SameExperience
<1> QED
  BY <1>4, <1>5, <1>6 DEF rooms

LEMMA TypedConnectAnswered ==
    ASSUME Typed, NEW j \in client.joins, ConnectAnswered(j)
    PROVE  Typed' /\ CallsAdvance
<1>1. /\ client \in Clients /\ Named(client) /\ calls \in Seq(Calls) /\ Kept
      /\ Len(calls) \in Nat /\ Len(calls) <= MaxCalls /\ DOMAIN calls = 1..Len(calls)
  BY TypedParts
<1>2. j \in Joins /\ j.call \in DOMAIN calls
  BY <1>1 DEF Named, Clients
<1>3. CallsAdvance /\ Len(calls') = Len(calls)
  <2> DEFINE k == [calls[j.call] EXCEPT !.in = "joined"]
  <2>0. calls[j.call] \in Calls
    BY <1>1, <1>2
  <2>1. k \in Calls /\ Advances(calls[j.call], k)
    BY <2>0 DEF Calls, Advances
  <2>2. calls' = [calls EXCEPT ![j.call] = k]
    BY DEF ConnectAnswered
  <2> HIDE DEF k
  <2> QED
    BY <1>1, <1>2, <2>1, <2>2, CallUpdated DEF CallsAdvance, Advances
<1> DEFINE c == Connected(client, j)
<1>4. /\ c \in Clients /\ c.call = client.call /\ c.joins = client.joins
      /\ SameStart(client, c) /\ SameExperience(client, c)
  BY <1>1, ConnectedFields
<1>5. client' = Left(c, j) \/ client' = Apply(Stage(c, j, "mic"), TRUE)
  BY DEF ConnectAnswered
<1> HIDE DEF c
<1>6. Named(c)
  BY <1>1, <1>4, NamedLike DEF Named, SameExperience
<1>7. client' \in Clients /\ Named(client')
  <2>1. Left(c, j) \in Clients /\ Named(Left(c, j))
    BY <1>4, <1>6, LeftFields, NamedLike DEF Named, SameExperience
  <2> DEFINE e == Stage(c, j, "mic")
  <2>2. e \in Clients /\ Named(e)
    BY <1>4, <1>6, NamedStage
  <2> HIDE DEF e
  <2>3. Apply(e, TRUE) \in Clients /\ Named(Apply(e, TRUE))
    BY <2>2, ApplyFields, NamedLike DEF Named, SameExperience, SameRoom
  <2> QED
    BY <1>5, <2>1, <2>3 DEF e
<1>8. Named(client)'
  BY <1>3, <1>7 DEF Named
<1>9. Kept'
  BY <1>1, <1>3 DEF ConnectAnswered, Kept
<1> QED
  BY <1>1, <1>3, <1>7, <1>8, <1>9, TypedWhole DEF CallsAdvance

\* The orchestrator ends its first change.
Popped(c, mic) == [c EXCEPT !.applies = Tail(@), !.mic = mic]

LEMMA PoppedFields ==
    ASSUME NEW c \in Clients, c.applies # <<>>, NEW mic \in BOOLEAN
    PROVE  LET d == Popped(c, mic) IN
           /\ d \in Clients /\ d.applies = Tail(c.applies) /\ d.mic = mic /\ d.muted = c.muted
           /\ d.pref = c.pref /\ d.rev = c.rev
           /\ d.status = c.status /\ d.call = c.call /\ d.reason = c.reason
           /\ d.crossed = c.crossed
           /\ SameRoom(c, d) /\ SameStart(c, d) /\ SameExperience(c, d)
<1> DEFINE applies == Tail(c.applies)
<1>1. c.applies \in Seq(Applies)
  BY DEF Clients
<1>2. applies \in Seq(Applies)
  BY <1>1
<1>3. Popped(c, mic) = [c EXCEPT !.applies = applies, !.mic = mic]
  BY DEF Popped
<1> HIDE DEF applies
<1>4. [c EXCEPT !.applies = applies, !.mic = mic] \in Clients
  BY <1>2, Zenon DEF Clients
<1> DEFINE d == [c EXCEPT !.applies = applies, !.mic = mic]
<1>5. /\ d.applies = applies /\ d.mic = mic
      /\ \A x \in DOMAIN c : x \notin {"applies", "mic"} => d[x] = c[x]
  BY ClientDomain
<1> HIDE DEF d
<1>6. /\ d.muted = c.muted /\ d.pref = c.pref /\ d.rev = c.rev
      /\ d.status = c.status /\ d.call = c.call /\ d.reason = c.reason /\ d.crossed = c.crossed
      /\ SameRoom(c, d) /\ SameStart(c, d) /\ SameExperience(c, d)
  BY <1>5, ClientDomain DEF SameRoom, SameStart, SameExperience
<1> QED
  BY <1>3, <1>4, <1>5, <1>6 DEF d, applies

\* What its caller does then.
Goes(c, muted, own) == [c EXCEPT !.muted = muted, !.joins = @ \ own]

LEMMA GoesFields ==
    ASSUME NEW c \in Clients, NEW muted \in BOOLEAN, NEW own
    PROVE  LET d == Goes(c, muted, own) IN
           /\ d \in Clients /\ d.joins = c.joins \ own /\ d.muted = muted /\ d.mic = c.mic
           /\ d.applies = c.applies /\ d.pref = c.pref /\ d.rev = c.rev
           /\ d.status = c.status /\ d.call = c.call /\ d.reason = c.reason
           /\ d.session = c.session /\ d.room = c.room /\ d.rooms = c.rooms
           /\ d.contexts = c.contexts /\ d.held = c.held
           /\ d.crossed = c.crossed
           /\ SameStart(c, d) /\ SameExperience(c, d)
<1> DEFINE joins == c.joins \ own
<1>1. joins \in SUBSET Joins
  BY DEF Clients
<1>2. Goes(c, muted, own) = [c EXCEPT !.muted = muted, !.joins = joins]
  BY DEF Goes
<1> HIDE DEF joins
<1>3. [c EXCEPT !.muted = muted, !.joins = joins] \in Clients
  BY <1>1, Zenon DEF Clients
<1> DEFINE d == [c EXCEPT !.muted = muted, !.joins = joins]
<1>4. /\ d.muted = muted /\ d.joins = joins
      /\ \A x \in DOMAIN c : x \notin {"muted", "joins"} => d[x] = c[x]
  BY ClientDomain
<1> HIDE DEF d
<1>5. /\ d.mic = c.mic /\ d.applies = c.applies /\ d.pref = c.pref /\ d.rev = c.rev
      /\ d.session = c.session
      /\ d.room = c.room /\ d.rooms = c.rooms /\ d.contexts = c.contexts /\ d.held = c.held
      /\ d.status = c.status /\ d.call = c.call /\ d.reason = c.reason /\ d.crossed = c.crossed
      /\ SameStart(c, d) /\ SameExperience(c, d)
  BY <1>4, ClientDomain DEF SameStart, SameExperience
<1> QED
  BY <1>2, <1>3, <1>4, <1>5 DEF d, joins

\* The two ways the orchestrator's call can end.
AppliedWell(c, a, own) ==
    /\ client' = Goes(c, IF a.sess = client.session THEN ~a.on ELSE client.muted, own)
    /\ UNCHANGED <<acts, spent>>

AppliedBadly(c, a, own) ==
    /\ a.rev = client.rev /\ a.sess = client.session /\ Fault
    /\ \/ own = {} /\ client' = c /\ UNCHANGED acts
       \/ \E j \in own : JoinFails(c, j)

Owned(a) == {j \in client.joins : a.join /\ j.sess = a.sess}

LEMMA AppliedCases ==
    ASSUME Typed, NEW ok \in BOOLEAN, MicrophoneApplied(ok)
    PROVE  \E a \in Applies, mic \in BOOLEAN :
           /\ client.applies # <<>> /\ a = Head(client.applies)
           /\ mic = IF ok /\ a.rev = client.rev /\ a.sess = client.session THEN a.on
                    ELSE client.mic
           /\ IF ok THEN AppliedWell(Popped(client, mic), a, Owned(a))
              ELSE AppliedBadly(Popped(client, mic), a, Owned(a))
<1>1. client \in Clients
  BY TypedParts
<1>2. client.applies \in Seq(Applies) /\ client.applies # <<>> /\ client.mic \in BOOLEAN
  BY <1>1 DEF Clients, MicrophoneApplied
<1>3. PICK a \in Applies : a = Head(client.applies)
  BY <1>2
<1> DEFINE mic == IF ok /\ a.rev = client.rev /\ a.sess = client.session THEN a.on
                  ELSE client.mic
           c == Popped(client, mic)
           own == Owned(a)
<1>4. mic \in BOOLEAN
  BY <1>2 DEF Applies
<1>5. /\ c.joins = client.joins /\ c.session = client.session /\ c.call = client.call
      /\ c.muted = client.muted
  BY <1>1, <1>2, <1>4, PoppedFields DEF SameRoom
<1>6. own = {j \in c.joins : a.join /\ j.sess = a.sess}
  BY <1>5 DEF Owned
<1>7. c = [client EXCEPT !.applies = Tail(@),
              !.mic = IF ok /\ a.rev = client.rev /\ a.sess = client.session THEN a.on ELSE @]
  BY <1>1 DEF Popped, Clients
<1>8. CASE ok
  <2>1. UNCHANGED <<acts, spent>>
    BY <1>8 DEF MicrophoneApplied
  <2> DEFINE d == [client EXCEPT !.applies = Tail(@),
              !.mic = IF ok /\ a.rev = client.rev /\ a.sess = client.session THEN a.on ELSE @]
  <2>2. client' = [d EXCEPT !.muted = IF a.sess = d.session THEN ~a.on ELSE @,
                            !.joins = @ \ {j \in d.joins : a.join /\ j.sess = a.sess}]
    BY <1>3, <1>8, Zenon DEF MicrophoneApplied
  <2>3. c = d
    BY <1>7
  <2> HIDE DEF d, c
  <2>4. client' = [c EXCEPT !.muted = IF a.sess = c.session THEN ~a.on ELSE @,
                            !.joins = @ \ own]
    BY <1>6, <2>2, <2>3, Zenon
  <2> DEFINE muted == IF a.sess = client.session THEN ~a.on ELSE client.muted
  <2>5. c \in Clients
    BY <1>1, <1>2, <1>4, PoppedFields DEF c
  <2>6. client' = Goes(c, muted, own)
    BY <1>5, <2>4, <2>5 DEF Goes, Clients
  <2> HIDE DEF mic, own
  <2>7. AppliedWell(c, a, own)
    BY <2>1, <2>6 DEF AppliedWell
  <2> QED
    BY <1>2, <1>3, <1>4, <1>8, <2>7 DEF mic, c, own
<1>9. CASE ~ok
  <2>1. /\ a.rev = client.rev /\ a.sess = client.session /\ Fault
        /\ IF own = {} THEN client' = c /\ UNCHANGED acts
           ELSE JoinFails(c, CHOOSE x \in own : TRUE)
    BY <1>3, <1>6, <1>7, <1>9 DEF MicrophoneApplied
  <2> HIDE DEF mic, c, own
  <2>2. AppliedBadly(c, a, own)
    BY <1>5, <2>1 DEF AppliedBadly, HangUp
  <2> QED
    BY <1>2, <1>3, <1>4, <1>9, <2>2 DEF mic, c, own
<1> QED
  BY <1>8, <1>9

LEMMA TypedMicrophoneApplied ==
    ASSUME Typed, NEW ok \in BOOLEAN, MicrophoneApplied(ok)
    PROVE  Typed' /\ CallsAdvance
<1>1. /\ client \in Clients /\ Named(client) /\ calls \in Seq(Calls) /\ Kept
      /\ Len(calls) \in Nat /\ Len(calls) <= MaxCalls /\ DOMAIN calls = 1..Len(calls)
  BY TypedParts
<1>2. calls' = calls /\ wire' = wire /\ lost' = lost
  BY DEF MicrophoneApplied, Same
<1>3. PICK a \in Applies, mic \in BOOLEAN :
           /\ client.applies # <<>>
           /\ IF ok THEN AppliedWell(Popped(client, mic), a, Owned(a))
              ELSE AppliedBadly(Popped(client, mic), a, Owned(a))
  BY AppliedCases
<1> DEFINE c == Popped(client, mic)
<1>4. /\ c \in Clients /\ c.joins = client.joins /\ c.call = client.call
      /\ SameStart(client, c) /\ SameExperience(client, c)
  BY <1>1, <1>3, PoppedFields DEF SameRoom
<1>5. IF ok THEN AppliedWell(c, a, Owned(a)) ELSE AppliedBadly(c, a, Owned(a))
  BY <1>3
<1> HIDE DEF c
<1>6. Named(c)
  BY <1>1, <1>4, NamedLike DEF Named, SameExperience
<1>7. CASE ok
  <2> DEFINE muted == IF a.sess = client.session THEN ~a.on ELSE client.muted
             d == Goes(c, muted, Owned(a))
  <2>1. muted \in BOOLEAN
    BY <1>1 DEF Clients, Applies
  <2>2. client' = d /\ UNCHANGED <<acts, spent>>
    BY <1>5, <1>7 DEF AppliedWell
  <2> HIDE DEF muted
  <2>3. d \in Clients /\ Named(d)
    BY <1>1, <1>4, <1>6, <2>1, GoesFields, NamedLike DEF Named, SameExperience
  <2>4. Named(client)'
    BY <1>2, <2>2, <2>3 DEF Named
  <2> QED
    BY <1>1, <1>2, <2>2, <2>3, <2>4, TypedClient DEF Kept
<1>8. CASE ~ok
  <2>1. Fault /\ \/ client' = c /\ UNCHANGED acts
                 \/ \E j \in Owned(a) : JoinFails(c, j)
    BY <1>5, <1>8 DEF AppliedBadly
  <2>2. CASE client' = c /\ UNCHANGED acts
    <3>1. Named(client)'
      BY <1>2, <1>6, <2>2 DEF Named
    <3> QED
      BY <1>1, <1>2, <1>4, <2>1, <2>2, <3>1, TypedClient DEF Kept
  <2>3. CASE \E j \in Owned(a) : JoinFails(c, j)
    <3>1. PICK j \in c.joins : JoinFails(c, j)
      BY <1>4, <2>3 DEF Owned
    <3>2. Same
      BY <1>2 DEF Same
    <3> QED
      BY <1>4, <1>6, <2>1, <3>1, <3>2, TypedJoinFails
  <2> QED
    BY <2>1, <2>2, <2>3
<1> QED
  BY <1>7, <1>8

\* A room goes: any other than the store's, or the call with it.
DropRoom(c, r) == [c EXCEPT !.rooms = @ \ {r}]

LEMMA DropRoomFields ==
    ASSUME NEW c \in Clients, NEW r
    PROVE  LET d == DropRoom(c, r) IN
           /\ d \in Clients /\ d.rooms = c.rooms \ {r} /\ d.session = c.session
           /\ d.room = c.room /\ d.contexts = c.contexts /\ d.held = c.held /\ d.joins = c.joins
           /\ d.status = c.status /\ d.call = c.call /\ d.reason = c.reason
           /\ d.crossed = c.crossed
           /\ SameMicrophone(c, d) /\ SameStart(c, d) /\ SameExperience(c, d)
<1> DEFINE rooms == c.rooms \ {r}
<1>1. rooms \in SUBSET Rooms
  BY DEF Clients
<1>2. DropRoom(c, r) = [c EXCEPT !.rooms = rooms]
  BY DEF DropRoom
<1> HIDE DEF rooms
<1>3. [c EXCEPT !.rooms = rooms] \in Clients
  BY <1>1, Zenon DEF Clients
<1> DEFINE d == [c EXCEPT !.rooms = rooms]
<1>4. /\ d.rooms = rooms
      /\ \A x \in DOMAIN c : x # "rooms" => d[x] = c[x]
  BY ClientDomain
<1> HIDE DEF d
<1>5. /\ d.session = c.session
      /\ d.room = c.room /\ d.contexts = c.contexts /\ d.held = c.held /\ d.joins = c.joins
      /\ d.status = c.status /\ d.call = c.call /\ d.reason = c.reason /\ d.crossed = c.crossed
      /\ SameMicrophone(c, d) /\ SameStart(c, d) /\ SameExperience(c, d)
  BY <1>4, ClientDomain DEF SameMicrophone, SameStart, SameExperience
<1> QED
  BY <1>2, <1>3, <1>4, <1>5 DEF d, rooms

LEMMA NamedDisconnects ==
    ASSUME Typed, NEW r \in client.rooms, Disconnects(r), calls' = calls
    PROVE  client' \in Clients /\ Named(client)'
<1>1. client \in Clients /\ Named(client) /\ calls \in Seq(Calls)
  BY TypedParts
<1>2. CASE client.room # r.sess
  <2> DEFINE d == DropRoom(client, r)
  <2>1. client' = d
    BY <1>2 DEF Disconnects, DropRoom
  <2>2. d \in Clients /\ Named(d)
    BY <1>1, DropRoomFields, NamedLike DEF Named, SameExperience
  <2> HIDE DEF d
  <2> QED
    BY <2>1, <2>2 DEF Named
<1>3. CASE client.room = r.sess
  <2>1. "disconnected" \in Reasons
    BY DEF Reasons
  <2>2. Become(EndSession(client, "disconnected"))
    BY <1>3 DEF Disconnects
  <2> QED
    BY <1>1, <2>1, <2>2, EndSessionFields, NamedEnd, NamedBecome
<1> QED
  BY <1>2, <1>3

LEMMA TypedRoomFails ==
    ASSUME Typed, NEW r \in client.rooms, RoomFails(r)
    PROVE  Typed' /\ CallsAdvance
<1>1. client' \in Clients /\ Named(client)'
  BY NamedDisconnects DEF RoomFails, Same
<1> QED
  BY <1>1, TypedClient, TypedParts DEF RoomFails, Same, Kept

LEMMA TypedReconnecting ==
    ASSUME Typed, NEW on \in BOOLEAN, Reconnecting(on)
    PROVE  Typed' /\ CallsAdvance
<1>1. client \in Clients /\ Named(client)
  BY TypedParts
<1>2. client' \in Clients
  BY <1>1, Zenon DEF Reconnecting, Clients
<1>3. Named(client)'
  BY <1>1, <1>2 DEF Reconnecting, Same, Named, Clients
<1> QED
  BY <1>2, <1>3, TypedClient, TypedParts DEF Reconnecting, Same, Kept

\* Neither the client nor its requests change.
LEMMA TypedServer ==
    ASSUME Typed, client' = client, acts' = acts, spent' = spent, lost' = lost,
           calls' \in Seq(Calls), Len(calls) <= Len(calls'), Len(calls') <= MaxCalls,
           wire' \in Seq(Sent), \A p \in DOMAIN wire' : wire'[p].call <= Len(calls')
    PROVE  Typed'
<1>1. /\ client \in Clients /\ Named(client) /\ calls \in Seq(Calls) /\ Kept
      /\ Len(calls) \in Nat /\ DOMAIN calls = 1..Len(calls)
  BY TypedParts
<1>2. Len(calls') \in Nat /\ DOMAIN calls' = 1..Len(calls')
  OBVIOUS
<1>3. Named(client)'
  BY <1>1, <1>2, SMTT(30) DEF Named, Clients
<1>4. Kept'
  <2>1. \A a \in acts : a.call \in Nat
    BY <1>1 DEF Kept, Requested
  <2> QED
    BY <1>1, <1>2, <2>1 DEF Kept
<1> QED
  BY <1>1, <1>3, <1>4, TypedWhole

\* The signal of a call is sent.
LEMMA SignalTyped ==
    ASSUME Typed, Len(calls') \in Nat, Len(calls) <= Len(calls'), Len(calls') <= MaxCalls,
           NEW i \in Nat, 1 <= i, i <= Len(calls'), NEW event \in Events, NEW reason \in Reasons \cup {NoReason},
           wire' = Signal(i, event, reason)
    PROVE  /\ wire' \in Seq(Sent) /\ \A p \in DOMAIN wire' : wire'[p].call <= Len(calls')
           /\ Len(wire) \in Nat /\ DOMAIN wire = 1..Len(wire)
           /\ DOMAIN wire' = 1..(Len(wire) + 1)
           /\ \A p \in DOMAIN wire : wire'[p] = wire[p]
           /\ wire'[Len(wire) + 1] = [call |-> i, event |-> event, reason |-> reason]
<1> DEFINE s == [call |-> i, event |-> event, reason |-> reason]
<1>1. s \in Sent /\ s.call = i
  BY CallClientAssumption DEF Sent
<1>2. wire \in Seq(Sent) /\ \A p \in DOMAIN wire : wire[p].call <= Len(calls)
  BY TypedParts DEF Kept
<1>3. wire' = Append(wire, s)
  BY DEF Signal
<1> HIDE DEF s
<1>4. /\ wire' \in Seq(Sent) /\ Len(wire) \in Nat /\ DOMAIN wire = 1..Len(wire)
      /\ DOMAIN wire' = 1..(Len(wire) + 1)
      /\ \A p \in DOMAIN wire : wire'[p] = wire[p]
      /\ wire'[Len(wire) + 1] = s
  BY <1>1, <1>2, <1>3
<1>5. \A p \in DOMAIN wire : wire[p].call \in Nat
  <2>1. \A t \in Sent : t.call \in Nat
    BY CallClientAssumption DEF Sent
  <2> QED
    BY <1>2, <2>1
<1>6. Len(calls) \in Nat
  BY TypedParts
<1>7. ASSUME NEW p \in DOMAIN wire'
      PROVE  wire'[p].call <= Len(calls')
  <2>1. CASE p \in DOMAIN wire
    BY <1>2, <1>4, <1>5, <1>6, <2>1
  <2>2. CASE p = Len(wire) + 1
    BY <1>1, <1>4, <2>2
  <2> QED
    BY <1>4, <2>1, <2>2
<1> QED
  BY <1>4, <1>7 DEF s

LEMMA TypedPeerInvites ==
    ASSUME Typed, PeerInvites
    PROVE  Typed' /\ CallsAdvance
<1>1. calls \in Seq(Calls) /\ Len(calls) \in Nat /\ MaxCalls \in Nat
  BY TypedParts, CallClientAssumption
<1>2. calls' = Append(calls, NewCall(FALSE)) /\ Len(calls) < MaxCalls
  BY DEF PeerInvites
<1>3. /\ calls' \in Seq(Calls) /\ Len(calls') = Len(calls) + 1
      /\ DOMAIN calls' = 1..(Len(calls) + 1) /\ DOMAIN calls = 1..Len(calls)
      /\ \A i \in DOMAIN calls : calls'[i] = calls[i]
  BY <1>1, <1>2, CallAppended
<1>4. wire' \in Seq(Sent) /\ \A p \in DOMAIN wire' : wire'[p].call <= Len(calls')
  <2>1. "invite" \in Events /\ NoReason \in Reasons \cup {NoReason}
    BY DEF Events
  <2>2. wire' = Signal(Len(calls) + 1, "invite", NoReason)
    BY DEF PeerInvites
  <2> DEFINE i == Len(calls) + 1
  <2>3. /\ Len(calls') \in Nat /\ Len(calls) <= Len(calls') /\ Len(calls') <= MaxCalls
        /\ i \in Nat /\ 1 <= i /\ i <= Len(calls')
    BY <1>1, <1>2, <1>3
  <2> HIDE DEF i
  <2>4. wire' = Signal(i, "invite", NoReason)
    BY <2>2 DEF i
  <2> QED
    BY <2>1, <2>3, <2>4, SignalTyped
<1>5. Typed'
  BY <1>1, <1>2, <1>3, <1>4, TypedServer DEF PeerInvites
<1> QED
  BY <1>1, <1>3, <1>5 DEF CallsAdvance, Advances

\* The record of the call that a peer's step leaves.
LEMMA PeerAcceptsCall ==
    ASSUME Typed, NEW i \in DOMAIN calls, PeerAccepts(i)
    PROVE  \E k \in Calls :
           /\ calls' = [calls EXCEPT ![i] = k] /\ k.mine /\ k.state = "active"
           /\ calls[i].mine /\ calls[i].state = "ringing"
           /\ k.in = calls[i].in /\ k.by = calls[i].by /\ k.reason = calls[i].reason
           /\ k.rang = calls[i].rang
<1> DEFINE k == [calls[i] EXCEPT !.state = "active"]
<1>1. calls[i] \in Calls
  BY TypedParts
<1>2. k \in Calls
  BY <1>1 DEF Calls
<1>3. calls' = [calls EXCEPT ![i] = k]
  BY DEF PeerAccepts
<1> QED
  BY <1>1, <1>2, <1>3 DEF Calls, PeerAccepts

LEMMA OneAdvances ==
    ASSUME Typed, NEW i \in DOMAIN calls, NEW k \in Calls, calls' = [calls EXCEPT ![i] = k],
           Advances(calls[i], k)
    PROVE  CallsAdvance /\ Len(calls') = Len(calls) /\ DOMAIN calls' = DOMAIN calls
<1>1. calls \in Seq(Calls) /\ Len(calls) \in Nat
  BY TypedParts
<1> QED
  BY <1>1, CallUpdated DEF CallsAdvance, Advances

LEMMA TypedPeerAccepts ==
    ASSUME Typed, NEW i \in DOMAIN calls, PeerAccepts(i)
    PROVE  Typed' /\ CallsAdvance
<1>1. /\ calls \in Seq(Calls) /\ Len(calls) \in Nat /\ Len(calls) <= MaxCalls
      /\ DOMAIN calls = 1..Len(calls)
  BY TypedParts
<1>2. PICK k \in Calls : calls' = [calls EXCEPT ![i] = k] /\ Advances(calls[i], k)
  BY PeerAcceptsCall DEF Advances
<1>3. CallsAdvance /\ Len(calls') = Len(calls)
  BY <1>2, OneAdvances
<1>4. wire' \in Seq(Sent) /\ \A p \in DOMAIN wire' : wire'[p].call <= Len(calls')
  <2>1. "accept" \in Events /\ NoReason \in Reasons \cup {NoReason}
    BY DEF Events
  <2>2. wire' = Signal(i, "accept", NoReason)
    BY DEF PeerAccepts
  <2>3. /\ Len(calls') \in Nat /\ Len(calls) <= Len(calls') /\ Len(calls') <= MaxCalls
        /\ i \in Nat /\ 1 <= i /\ i <= Len(calls')
    BY <1>1, <1>3
  <2> QED
    BY <2>1, <2>2, <2>3, SignalTyped
<1> QED
  BY <1>1, <1>3, <1>4, TypedServer DEF PeerAccepts, CallsAdvance

LEMMA PeerEndsCall ==
    ASSUME Typed, NEW i \in DOMAIN calls, NEW reason \in Reasons, PeerEnds(i, reason)
    PROVE  \E k \in Calls, event \in Events :
           /\ calls' = [calls EXCEPT ![i] = k] /\ k.state = "ended" /\ calls[i].state # "ended"
           /\ k.mine = calls[i].mine /\ k.in = calls[i].in /\ k.by = "peer" /\ k.reason = reason
           /\ k.rang = (calls[i].state = "ringing")
           /\ k.rang => reason \in {"timeout", IF k.mine THEN "rejected" ELSE "canceled"}
           /\ event \notin {"invite", "accept"} /\ wire' = Signal(i, event, reason)
<1>1. calls[i] \in Calls /\ calls \in Seq(Calls)
  BY TypedParts
<1>2. calls[i].state \in {"ringing", "active"}
  BY <1>1 DEF PeerEnds, Calls
<1>3. PICK k \in Calls :
           /\ Ended(i, "peer", reason) = [calls EXCEPT ![i] = k]
           /\ k.mine = calls[i].mine /\ k.in = calls[i].in /\ k.state = "ended"
           /\ k.by = "peer" /\ k.reason = reason /\ k.rang = (calls[i].state = "ringing")
  BY <1>1, EndedFields
<1>4. k.rang => reason \in {"timeout", IF k.mine THEN "rejected" ELSE "canceled"}
  BY <1>3 DEF PeerEnds
<1> DEFINE event == CASE reason = "rejected" -> "reject" [] reason = "canceled" -> "cancel"
                      [] reason = "timeout" -> "timeout" [] OTHER -> "end"
<1>5. event \in Events /\ event \notin {"invite", "accept"}
  BY DEF Events
<1>6. wire' = Signal(i, event, reason) /\ calls' = Ended(i, "peer", reason)
  BY DEF PeerEnds
<1> HIDE DEF event
<1> QED
  BY <1>2, <1>3, <1>4, <1>5, <1>6

LEMMA TypedPeerEnds ==
    ASSUME Typed, NEW i \in DOMAIN calls, NEW reason \in Reasons, PeerEnds(i, reason)
    PROVE  Typed' /\ CallsAdvance
<1>1. /\ calls \in Seq(Calls) /\ Len(calls) \in Nat /\ Len(calls) <= MaxCalls
      /\ DOMAIN calls = 1..Len(calls)
  BY TypedParts
<1>2. calls[i] \in Calls
  BY <1>1
<1>3. PICK k \in Calls, event \in Events :
           /\ calls' = [calls EXCEPT ![i] = k] /\ Advances(calls[i], k)
           /\ wire' = Signal(i, event, reason)
  <2>1. PICK k \in Calls, event \in Events :
           /\ calls' = [calls EXCEPT ![i] = k] /\ k.state = "ended" /\ calls[i].state # "ended"
           /\ k.mine = calls[i].mine /\ k.rang = (calls[i].state = "ringing")
           /\ wire' = Signal(i, event, reason)
    BY PeerEndsCall
  <2>2. Advances(calls[i], k)
    BY <2>1 DEF Advances
  <2> QED
    BY <2>1, <2>2
<1>4. CallsAdvance /\ Len(calls') = Len(calls)
  BY <1>3, OneAdvances
<1>5. wire' \in Seq(Sent) /\ \A p \in DOMAIN wire' : wire'[p].call <= Len(calls')
  <2>1. /\ Len(calls') \in Nat /\ Len(calls) <= Len(calls') /\ Len(calls') <= MaxCalls
        /\ i \in Nat /\ 1 <= i /\ i <= Len(calls')
    BY <1>1, <1>4
  <2> QED
    BY <1>3, <2>1, SignalTyped
<1> QED
  BY <1>1, <1>4, <1>5, TypedServer DEF PeerEnds, CallsAdvance

LEMMA TypedPeerVanishes ==
    ASSUME Typed, NEW i \in DOMAIN calls, PeerVanishes(i)
    PROVE  Typed' /\ CallsAdvance
<1>1. /\ calls \in Seq(Calls) /\ Len(calls) \in Nat /\ Len(calls) <= MaxCalls
      /\ DOMAIN calls = 1..Len(calls) /\ Kept
  BY TypedParts
<1>2. "disconnected" \in Reasons
  BY DEF Reasons
<1>3. PICK k \in Calls :
           /\ Ended(i, "peer", "disconnected") = [calls EXCEPT ![i] = k]
           /\ k.mine = calls[i].mine /\ k.state = "ended" /\ k.rang = (calls[i].state = "ringing")
  BY <1>1, <1>2, EndedFields
<1>4. Advances(calls[i], k) /\ calls' = [calls EXCEPT ![i] = k]
  BY <1>3 DEF Advances, PeerVanishes
<1>5. CallsAdvance /\ Len(calls') = Len(calls)
  BY <1>4, OneAdvances
<1> QED
  BY <1>1, <1>5, TypedServer DEF PeerVanishes, CallsAdvance, Kept

\* What a webhook makes of the record of the call.
LEMMA SeesCall ==
    ASSUME Typed, NEW i \in DOMAIN calls, ServerSeesRoom(i)
    PROVE  \/ /\ calls' = calls /\ calls[i].state = "ended"
              /\ \E r \in client.rooms : r.up /\ r.call = i /\ Disconnects(r)
           \/ /\ client' = client
              /\ \E k \in Calls :
                 /\ calls' = [calls EXCEPT ![i] = k] /\ k.mine = calls[i].mine
                 /\ \/ /\ k.in = "seen" /\ calls[i].in = "joined"
                       /\ \E r \in client.rooms : r.up /\ r.call = i
                       /\ calls[i].state = "active"
                       /\ k.state = calls[i].state /\ k.by = calls[i].by
                       /\ k.reason = calls[i].reason /\ k.rang = calls[i].rang
                    \/ /\ k.in = "no" /\ calls[i].in # "no"
                       /\ \A r \in client.rooms : ~(r.up /\ r.call = i)
                       /\ \/ /\ calls[i].state # "active"
                             /\ k.state = calls[i].state /\ k.by = calls[i].by
                             /\ k.reason = calls[i].reason /\ k.rang = calls[i].rang
                          \/ /\ calls[i].state = "active" /\ k.state = "ended" /\ k.by = "me"
                             /\ k.reason = "disconnected" /\ ~k.rang
<1>1. calls[i] \in Calls /\ calls \in Seq(Calls)
  BY TypedParts
<1> DEFINE up == {r \in client.rooms : r.up /\ r.call = i}
<1>2. CASE up # {} /\ calls[i].in = "joined" /\ calls[i].state = "active"
           /\ calls' = [calls EXCEPT ![i].in = "seen"] /\ UNCHANGED client
  <2> DEFINE k == [calls[i] EXCEPT !.in = "seen"]
  <2>1. k \in Calls /\ calls' = [calls EXCEPT ![i] = k]
    BY <1>1, <1>2 DEF Calls
  <2>2. /\ k.mine = calls[i].mine /\ k.in = "seen" /\ k.state = calls[i].state
        /\ k.by = calls[i].by /\ k.reason = calls[i].reason /\ k.rang = calls[i].rang
    BY <1>1 DEF Calls
  <2> HIDE DEF k
  <2> QED
    BY <1>2, <2>1, <2>2
<1>3. CASE up # {} /\ calls[i].state = "ended" /\ (\E r \in up : Disconnects(r))
           /\ UNCHANGED calls
  BY <1>3
<1>4. CASE /\ up = {} /\ calls[i].in # "no" /\ UNCHANGED client
           /\ calls' = [(IF calls[i].state = "active" THEN Ended(i, "me", "disconnected")
                         ELSE calls) EXCEPT ![i].in = "no"]
  <2>1. CASE calls[i].state = "active"
    <3>1. "disconnected" \in Reasons
      BY DEF Reasons
    <3>2. PICK k \in Calls :
           /\ Ended(i, "me", "disconnected") = [calls EXCEPT ![i] = k]
           /\ k.mine = calls[i].mine /\ k.state = "ended" /\ k.by = "me"
           /\ k.reason = "disconnected" /\ k.rang = (calls[i].state = "ringing")
      BY <1>1, <3>1, EndedFields
    <3> DEFINE m == [k EXCEPT !.in = "no"]
    <3>3. /\ m \in Calls /\ m.mine = k.mine /\ m.in = "no" /\ m.state = k.state /\ m.by = k.by
          /\ m.reason = k.reason /\ m.rang = k.rang
      BY DEF Calls
    <3>4. calls' = [[calls EXCEPT ![i] = k] EXCEPT ![i].in = "no"]
      BY <1>4, <2>1, <3>2
    <3>5. calls' = [calls EXCEPT ![i] = m]
      BY <3>4
    <3> HIDE DEF m
    <3>6. /\ client' = client /\ calls[i].in # "no"
          /\ \A r \in client.rooms : ~(r.up /\ r.call = i)
      BY <1>4
    <3> QED
      BY <2>1, <3>2, <3>3, <3>5, <3>6
  <2>2. CASE calls[i].state # "active"
    <3> DEFINE k == [calls[i] EXCEPT !.in = "no"]
    <3>1. k \in Calls /\ calls' = [calls EXCEPT ![i] = k]
      BY <1>1, <1>4, <2>2 DEF Calls
    <3>2. /\ k.mine = calls[i].mine /\ k.in = "no" /\ k.state = calls[i].state
          /\ k.by = calls[i].by /\ k.reason = calls[i].reason /\ k.rang = calls[i].rang
      BY <1>1 DEF Calls
    <3> HIDE DEF k
    <3> QED
      BY <1>4, <2>2, <3>1, <3>2
  <2> QED
    BY <2>1, <2>2
<1> QED
  BY <1>2, <1>3, <1>4 DEF ServerSeesRoom

LEMMA TypedServerSeesRoom ==
    ASSUME Typed, NEW i \in DOMAIN calls, ServerSeesRoom(i)
    PROVE  Typed' /\ CallsAdvance
<1>1. /\ calls \in Seq(Calls) /\ Len(calls) \in Nat /\ Len(calls) <= MaxCalls
      /\ DOMAIN calls = 1..Len(calls) /\ Kept
  BY TypedParts
<1>2. CASE calls' = calls /\ \E r \in client.rooms : Disconnects(r)
  <2>1. client' \in Clients /\ Named(client)'
    BY <1>2, NamedDisconnects
  <2> QED
    BY <1>1, <1>2, <2>1, TypedClient DEF ServerSeesRoom, Kept
<1>3. ASSUME NEW k \in Calls, client' = client, calls' = [calls EXCEPT ![i] = k],
             Advances(calls[i], k)
      PROVE  Typed' /\ CallsAdvance
  <2>1. CallsAdvance /\ Len(calls') = Len(calls)
    BY <1>3, OneAdvances
  <2> QED
    BY <1>1, <1>3, <2>1, TypedServer DEF ServerSeesRoom, CallsAdvance, Kept
<1> QED
  BY <1>2, <1>3, SeesCall DEF Advances

LEMMA TypedServerStarts ==
    ASSUME Typed, ServerStarts
    PROVE  Typed' /\ CallsAdvance
<1>1. /\ client \in Clients /\ Named(client) /\ calls \in Seq(Calls) /\ Kept
      /\ Len(calls) \in Nat /\ Len(calls) <= MaxCalls /\ DOMAIN calls = 1..Len(calls)
      /\ MaxCalls \in Nat
  BY TypedParts, CallClientAssumption
<1>2. CASE Len(calls) < MaxCalls /\ calls' = Append(calls, NewCall(TRUE))
           /\ client' = [client EXCEPT !.starting = "created", !.created = Len(calls) + 1]
  <2>1. /\ calls' \in Seq(Calls) /\ Len(calls') = Len(calls) + 1
        /\ DOMAIN calls' = 1..(Len(calls) + 1)
        /\ \A i \in DOMAIN calls : calls'[i] = calls[i]
    BY <1>1, <1>2, CallAppended
  <2> DEFINE n == Len(calls) + 1
  <2>2. n \in Nat /\ n # None /\ client' = [client EXCEPT !.starting = "created", !.created = n]
    BY <1>1, <1>2
  <2> HIDE DEF n
  <2>3. client' \in Clients
    BY <1>1, <2>2, Zenon DEF Clients
  <2>4. /\ client'.call = client.call /\ client'.created = n /\ client'.starting = "created"
        /\ client'.shown = client.shown
        /\ client'.joins = client.joins /\ client'.pending = client.pending
    BY <1>1, <2>2 DEF Clients
  <2>5. client.call \in Nat /\ client.shown \in Nat
    BY <1>1 DEF Clients
  <2>6. Named(client)'
    BY <1>1, <2>1, <2>2, <2>4, <2>5 DEF Named, n
  <2>7. Kept'
    <3>1. \A a \in acts : a.call <= Len(calls)'
      <4>1. \A a \in acts : a.call \in Nat
        BY <1>1 DEF Kept, Requested
      <4> QED
        BY <1>1, <2>1, <4>1 DEF Kept
    <3>2. \A p \in DOMAIN wire : wire[p].call <= Len(calls)'
      <4>1. \A t \in Sent : t.call \in Nat
        BY <1>1 DEF Sent
      <4> QED
        BY <1>1, <2>1, <4>1 DEF Kept
    <3> QED
      BY <1>1, <3>1, <3>2 DEF Kept, ServerStarts
  <2>8. Typed'
    BY <1>1, <1>2, <2>1, <2>3, <2>6, <2>7, TypedWhole
  <2>9. CallsAdvance
    BY <1>1, <2>1 DEF CallsAdvance, Advances
  <2> QED
    BY <2>8, <2>9
<1>3. CASE client' = [client EXCEPT !.starting = "refused"] /\ UNCHANGED calls
  <2>1. client' \in Clients
    BY <1>1, <1>3, Zenon DEF Clients
  <2>2. client.starting = "posted"
    BY DEF ServerStarts
  <2>3. Named(client)'
    BY <1>1, <1>3, <2>2 DEF Named, Clients
  <2> QED
    BY <1>1, <1>3, <2>1, <2>3, TypedClient DEF ServerStarts, Kept
<1> QED
  BY <1>2, <1>3 DEF ServerStarts

LEMMA TypedStartLost ==
    ASSUME Typed, StartLost
    PROVE  Typed' /\ CallsAdvance
<1>1. client \in Clients /\ Named(client)
  BY TypedParts
<1>2. client' = [client EXCEPT !.starting = "failed", !.created = 0]
  BY DEF StartLost
<1>3. client' \in Clients
  BY <1>1, <1>2, Zenon DEF Clients
<1>4. Named(client)'
  BY <1>1, <1>2 DEF Named, Clients, StartLost
<1> QED
  BY <1>3, <1>4, TypedClient DEF StartLost

\* Requests move on, and others' calls stay named.
LEMMA StagedAct ==
    ASSUME Kept, NEW a \in acts, NEW stage \in {"sent", "ok", "refused", "gone", "failed"},
           acts' = (acts \ {a}) \cup {[a EXCEPT !.stage = stage]}
    PROVE  /\ acts' \subseteq Requested /\ \A b \in acts' : b.call <= Len(calls)
           /\ a \in Requested
<1>1. a \in Requested /\ a.call <= Len(calls)
  BY DEF Kept
<1>2. [a EXCEPT !.stage = stage] \in Requested /\ [a EXCEPT !.stage = stage].call = a.call
  BY <1>1 DEF Requested
<1> QED
  BY <1>1, <1>2 DEF Kept

\* The record of the call that a request leaves.
LEMMA ActsCall ==
    ASSUME Typed, NEW a \in acts, ServerActs(a)
    PROVE  \E stage \in {"ok", "gone", "refused"} :
           /\ acts' = (acts \ {a}) \cup {[a EXCEPT !.stage = stage]}
           /\ a.stage = "sent" /\ a \in Requested /\ a.call \in DOMAIN calls
           /\ \/ stage # "ok" /\ calls' = calls /\ calls[a.call].state # Wanted(a.kind)
                 /\ a.kind # "block" /\ (stage = "gone" <=> calls[a.call].state = "ended")
              \/ stage = "ok" /\ a.kind = "block" /\ calls' = calls
              \/ /\ stage = "ok" /\ a.kind # "block" /\ calls[a.call].state = Wanted(a.kind)
                 /\ \E k \in Calls :
                    /\ calls' = [calls EXCEPT ![a.call] = k]
                    /\ k.mine = calls[a.call].mine /\ k.in = calls[a.call].in
                    /\ \/ /\ a.kind = "accept" /\ k.state = "active" /\ k.by = calls[a.call].by
                          /\ k.reason = calls[a.call].reason /\ k.rang = calls[a.call].rang
                       \/ /\ a.kind # "accept" /\ k.state = "ended" /\ k.by = "me"
                          /\ k.reason = EndOf(a.kind) /\ k.rang = (calls[a.call].state = "ringing")
<1>1. /\ calls \in Seq(Calls) /\ Len(calls) \in Nat /\ DOMAIN calls = 1..Len(calls) /\ Kept
      /\ MaxCalls \in Nat
  BY TypedParts, CallClientAssumption
<1>2. a \in Requested /\ a.call <= Len(calls)
  BY <1>1 DEF Kept
<1>3. a.call \in DOMAIN calls
  BY <1>1, <1>2 DEF Requested
<1> DEFINE n == a.call
<1>4. calls[n] \in Calls
  BY <1>1, <1>3
<1> DEFINE state == calls[n].state
           stage == IF a.kind = "block" \/ state = Wanted(a.kind) THEN "ok"
                    ELSE IF state = "ended" THEN "gone" ELSE "refused"
<1>5. /\ acts' = (acts \ {a}) \cup {[a EXCEPT !.stage = stage]} /\ a.stage = "sent"
      /\ calls' = IF stage # "ok" \/ a.kind = "block" THEN calls
                  ELSE IF a.kind = "accept" THEN [calls EXCEPT ![n].state = "active"]
                  ELSE Ended(n, "me", EndOf(a.kind))
  BY DEF ServerActs
<1>6. CASE stage # "ok"
  BY <1>2, <1>3, <1>5, <1>6
<1>7. CASE a.kind = "block"
  BY <1>2, <1>3, <1>5, <1>7
<1>8. CASE stage = "ok" /\ a.kind = "accept"
  <2> DEFINE k == [calls[n] EXCEPT !.state = "active"]
  <2>1. k \in Calls /\ calls' = [calls EXCEPT ![n] = k]
    BY <1>4, <1>5, <1>8 DEF Calls
  <2>2. /\ k.mine = calls[n].mine /\ k.in = calls[n].in /\ k.state = "active"
        /\ k.by = calls[n].by /\ k.reason = calls[n].reason /\ k.rang = calls[n].rang
    BY <1>4 DEF Calls
  <2> HIDE DEF k
  <2> QED
    BY <1>2, <1>3, <1>5, <1>8, <2>1, <2>2
<1>9. CASE stage = "ok" /\ a.kind \notin {"accept", "block"}
  <2>1. PICK reason \in Reasons : reason = EndOf(a.kind)
    BY DEF EndOf, Reasons
  <2>2. PICK k \in Calls :
           /\ Ended(n, "me", reason) = [calls EXCEPT ![n] = k]
           /\ k.mine = calls[n].mine /\ k.in = calls[n].in /\ k.state = "ended"
           /\ k.by = "me" /\ k.reason = reason /\ k.rang = (calls[n].state = "ringing")
    <3> HIDE DEF n
    <3>1. n \in DOMAIN calls
      BY <1>3 DEF n
    <3>2. "me" \in {"me", "peer"}
      OBVIOUS
    <3> QED
      BY <1>1, <3>1, <3>2, EndedFields
  <2> QED
    BY <1>2, <1>3, <1>5, <1>9, <2>1, <2>2
<1> QED
  BY <1>6, <1>7, <1>8, <1>9

LEMMA TypedServerActs ==
    ASSUME Typed, NEW a \in acts, ServerActs(a)
    PROVE  Typed' /\ CallsAdvance
<1>1. /\ client \in Clients /\ Named(client) /\ calls \in Seq(Calls) /\ Kept
      /\ Len(calls) \in Nat /\ Len(calls) <= MaxCalls
  BY TypedParts
<1>2. PICK stage \in {"ok", "gone", "refused"} :
           acts' = (acts \ {a}) \cup {[a EXCEPT !.stage = stage]}
  BY ActsCall
<1>3. acts' \subseteq Requested /\ \A b \in acts' : b.call <= Len(calls)
  BY <1>1, <1>2, StagedAct
<1>4. CallsAdvance /\ Len(calls') = Len(calls) /\ DOMAIN calls' = DOMAIN calls
  <2>1. CASE calls' = calls
    BY <1>1, <2>1, SameCalls
  <2>2. ASSUME NEW k \in Calls, calls' = [calls EXCEPT ![a.call] = k], a.call \in DOMAIN calls,
               Advances(calls[a.call], k)
        PROVE  CallsAdvance /\ Len(calls') = Len(calls) /\ DOMAIN calls' = DOMAIN calls
    BY <2>2, OneAdvances
  <2>3. a.kind # "block" /\ calls' # calls =>
            \E k \in Calls : /\ calls' = [calls EXCEPT ![a.call] = k] /\ a.call \in DOMAIN calls
                             /\ Advances(calls[a.call], k)
    BY ActsCall DEF Advances, Wanted
  <2>4. a.kind = "block" => calls' = calls
    BY ActsCall
  <2> QED
    BY <2>1, <2>2, <2>3, <2>4
<1>5. Named(client)'
  BY <1>1, <1>4 DEF Named, ServerActs
<1>6. Kept'
  BY <1>1, <1>3, <1>4 DEF Kept, ServerActs
<1>7. client' \in Clients
  BY <1>1 DEF ServerActs
<1> QED
  BY <1>1, <1>4, <1>5, <1>6, <1>7, TypedWhole DEF CallsAdvance

LEMMA TypedAct ==
    ASSUME Typed, NEW kind \in Kinds, Act(kind)
    PROVE  Typed' /\ CallsAdvance
<1>1. /\ client \in Clients /\ Named(client) /\ calls \in Seq(Calls) /\ Kept
      /\ Len(calls) \in Nat /\ Len(calls) <= MaxCalls /\ MaxCalls \in Nat /\ MaxClicks \in Nat
  BY TypedParts, CallClientAssumption
<1> DEFINE a == [kind |-> kind, call |-> client.call, sess |-> None, stage |-> "sent"]
<1>2. client.call \in 1..Len(calls)
  BY <1>1 DEF Act, Named, Clients
<1>3. a \in Requested /\ a.call <= Len(calls)
  BY <1>1, <1>2 DEF Requested
<1>4. spent' \in [clicks : 0..MaxClicks, toggles : 0..MaxUpsets, failures : 0..MaxUpsets]
  BY <1>1 DEF Kept, Act, Click
<1>5. Kept'
  BY <1>1, <1>3, <1>4 DEF Kept, Act, Same
<1>6. Named(client)'
  BY <1>1 DEF Named, Act, Same
<1>7. client' \in Clients /\ calls' = calls
  BY <1>1 DEF Act, Same
<1> QED
  BY <1>1, <1>5, <1>6, <1>7, TypedWhole, SameCalls

LEMMA FaultSpent ==
    ASSUME Kept, Fault
    PROVE  spent' \in [clicks : 0..MaxClicks, toggles : 0..MaxUpsets, failures : 0..MaxUpsets]
BY CallClientAssumption DEF Kept, Fault, Calm

LEMMA TypedActLost ==
    ASSUME Typed, NEW a \in acts, ActLost(a)
    PROVE  Typed' /\ CallsAdvance
<1>1. /\ client \in Clients /\ Named(client) /\ calls \in Seq(Calls) /\ Kept
      /\ Len(calls) \in Nat /\ Len(calls) <= MaxCalls
  BY TypedParts
<1>2. acts' \subseteq Requested /\ \A b \in acts' : b.call <= Len(calls)
  BY <1>1, StagedAct DEF ActLost
<1>3. spent' \in [clicks : 0..MaxClicks, toggles : 0..MaxUpsets, failures : 0..MaxUpsets]
  BY <1>1, FaultSpent DEF ActLost
<1>4. Kept'
  BY <1>1, <1>2, <1>3 DEF Kept, ActLost
<1>5. Named(client)'
  BY <1>1 DEF Named, ActLost
<1>6. client' \in Clients /\ calls' = calls
  BY <1>1 DEF ActLost
<1> QED
  BY <1>1, <1>4, <1>5, <1>6, TypedWhole, SameCalls

LEMMA TypedSignalLost ==
    ASSUME Typed, SignalLost
    PROVE  Typed' /\ CallsAdvance
<1>1. /\ client \in Clients /\ Named(client) /\ calls \in Seq(Calls) /\ Kept
      /\ Len(calls) \in Nat /\ Len(calls) <= MaxCalls
  BY TypedParts
<1>2. wire' \in Seq(Sent) /\ \A p \in DOMAIN wire' : wire'[p].call <= Len(calls)
  BY <1>1 DEF Kept, SignalLost
<1>3. spent' \in [clicks : 0..MaxClicks, toggles : 0..MaxUpsets, failures : 0..MaxUpsets]
  BY <1>1, FaultSpent DEF SignalLost
<1>4. Kept'
  BY <1>1, <1>2, <1>3 DEF Kept, SignalLost
<1>5. Named(client)'
  BY <1>1 DEF Named, SignalLost
<1>6. client' \in Clients /\ calls' = calls
  BY <1>1 DEF SignalLost
<1> QED
  BY <1>1, <1>4, <1>5, <1>6, TypedWhole, SameCalls

LEMMA TypedStep ==
    ASSUME Typed, [Next]_vars
    PROVE  Typed' /\ CallsAdvance
<1>1. CASE Requests
  BY <1>1, TypedStartAnswered, TypedServerStarts, TypedServerActs, TypedActAnswered DEF Requests
<1>2. CASE Joining
  BY <1>2, TypedTokenAnswered, TypedConnectAnswered, TypedTokenFails, TypedConnectFails,
     TypedMicrophoneApplied DEF Joining
<1>3. CASE Watching
  BY <1>3, TypedServerSeesRoom DEF Watching
<1>4. CASE DeliverSignal
  BY <1>4, TypedDeliverSignal
<1>5. CASE User
  BY <1>5, TypedStartCall, TypedTogglePreference, TypedAct DEF User
<1>6. CASE Peer
  BY <1>6, TypedPeerInvites, TypedPeerAccepts, TypedPeerVanishes, TypedPeerEnds DEF Peer
<1>7. CASE Faults
  BY <1>7, TypedStartLost, TypedSignalLost, TypedActLost, TypedRoomFails DEF Faults
<1>8. CASE \E on \in BOOLEAN : Reconnecting(on)
  BY <1>8, TypedReconnecting
<1>9. CASE UNCHANGED vars
  <2>1. Typed'
    BY <1>9 DEF Typed, TypeOK, InRange, Named, vars
  <2> QED
    BY <1>9, <2>1, SameCalls, TypedParts DEF vars
<1> QED
  BY <1>1, <1>2, <1>3, <1>4, <1>5, <1>6, <1>7, <1>8, <1>9 DEF Next

LEMMA TypedInit ==
    ASSUME Init
    PROVE  Typed
<1>1. /\ acts = {} /\ calls = <<>> /\ wire = <<>> /\ lost = FALSE
      /\ spent = [clicks |-> 0, toggles |-> 0, failures |-> 0]
      /\ \E pref \in BOOLEAN :
            client = [status |-> "idle", call |-> 0, reason |-> NoReason, starting |-> "no",
                  created |-> 0, pending |-> <<>>, session |-> 0, room |-> 0,
                  reconnecting |-> FALSE, rooms |-> {}, contexts |-> {}, held |-> 0,
                  joins |-> {}, pref |-> pref, mic |-> FALSE, muted |-> FALSE, rev |-> 0,
                  applies |-> <<>>, seen |-> "idle", loop |-> "none", deafen |-> FALSE,
                  toast |-> NoReason, shown |-> 0, crossed |-> "no"]
  BY DEF Init
<1>2. <<>> \in Seq(Signals) /\ <<>> \in Seq(Applies) /\ {} \in SUBSET Rooms
      /\ {} \in SUBSET Nat /\ {} \in SUBSET Joins /\ NoReason \in Reasons \cup {NoReason}
  OBVIOUS
<1>3. client \in Clients
  BY <1>1, <1>2 DEF Clients, Statuses, Crossings
<1>4. /\ client.call = 0 /\ client.created = 0 /\ client.shown = 0 /\ client.starting = "no"
      /\ client.joins = {} /\ client.pending = <<>>
  BY <1>1
<1>5. <<>> \in Seq(Calls) /\ <<>> \in Seq(Sent)
  OBVIOUS
<1>6. InRange
  BY <1>1, <1>4, CallClientAssumption DEF InRange, Named
<1>7. spent \in [clicks : 0..MaxClicks, toggles : 0..MaxUpsets, failures : 0..MaxUpsets]
  BY <1>1, CallClientAssumption
<1>8. acts \subseteq Requested /\ calls \in Seq(Calls) /\ wire \in Seq(Sent) /\ lost \in BOOLEAN
  BY <1>1, <1>5
<1> QED
  BY <1>3, <1>6, <1>7, <1>8 DEF Typed, TypeOK

THEOREM AlwaysTyped == Spec => []Typed
<1>1. Init => Typed
  BY TypedInit
<1>2. Typed /\ [Next]_vars => Typed'
  BY TypedStep
<1> QED
  BY <1>1, <1>2, PTL DEF Spec

\* Every variable of the client's side of calls keeps its type: no handler, in
\* whatever order answers and signals come, leaves a request or a join without
\* a call, and the bounds hold.
THEOREM TypeCorrect == Spec => []TypeOK
<1>1. Typed => TypeOK
  BY DEF Typed
<1> QED
  BY <1>1, AlwaysTyped, PTL

-----------------------------------------------------------------------------
(* The server's calls, and what the signals say of them *)

ServerFits == CallsFit /\ SignalsFit

\* What a step does to the pending signals, but for one that is delivered.
LEMMA PendingAnswered ==
    ASSUME Typed, StartAnswered
    PROVE  client'.pending = <<>>
<1>1. client \in Clients /\ Named(client) /\ calls \in Seq(Calls)
  BY TypedParts
<1>2. CASE client.starting = "created"
  <2>1. client.created # None /\ client.created \in Nat
    BY <1>1, <1>2 DEF Named, Clients
  <2>2. PICK e \in Clients :
           /\ e = Replayed(Begun(client, client.created), client.pending)
           /\ SameStart(Begun(client, client.created), e)
    BY <1>1, <2>1, NamedReplayed
  <2> DEFINE d == StartCreated(client, client.created)
  <2>3. d \in Clients /\ d.pending = e.pending
    BY <1>1, <2>1, <2>2, StartCreatedFields
  <2>4. e.pending = <<>>
    BY <1>1, <2>1, <2>2, BegunFields DEF SameStart
  <2>5. Become(d)
    BY <1>2 DEF StartAnswered
  <2> HIDE DEF d
  <2> QED
    BY <2>3, <2>4, <2>5, BecomeFields DEF Alike, SameStart
<1>3. CASE client.starting \in {"refused", "failed"}
  <2>1. PICK r \in Reasons \cup {NoReason} : Become(StartRefused(client, r))
    BY <1>3 DEF StartAnswered, Reasons
  <2> DEFINE d == StartRefused(client, r)
  <2>2. d \in Clients /\ d.pending = <<>>
    BY <1>1, StartRefusedFields
  <2> HIDE DEF d
  <2> QED
    BY <2>1, <2>2, BecomeFields DEF Alike, SameStart, d
<1> QED
  BY <1>2, <1>3 DEF StartAnswered

\* The steps of the browser that leave startCall's request alone.
LEMMA ActAnsweredStart ==
    ASSUME Typed, NEW a \in acts, ActAnswered(a)
    PROVE  SameStart(client, client')
<1>1. client \in Clients /\ calls \in Seq(Calls)
  BY TypedParts
<1>2. CASE Accepts(a)
  <2> DEFINE x == Crossed(client, a, "over")
             c == Crossing(client, x)
             d == JoinRoom([c EXCEPT !.status = "active"])
  <2>1. x \in Crossings
    BY <1>1, CrossingTypes
  <2>2. Become(d)
    BY <1>2 DEF Accepts
  <2> HIDE DEF x
  <2>3. c \in Clients /\ SameStart(client, c)
    BY <1>1, <2>1, CrossingFields
  <2> HIDE DEF c
  <2>4. d \in Clients /\ SameStart(c, d)
    BY <2>3, JoinRoomFields
  <2> HIDE DEF d
  <2> QED
    BY <2>2, <2>3, <2>4, BecomeFields DEF Alike, SameStart
<1>3. CASE HangsUp(a)
  <2> DEFINE c == LeftBy(client, a.sess)
             d == EndSession(c, "disconnected")
  <2>1. c \in Clients /\ SameStart(client, c)
    BY <1>1, LeftByFields
  <2>2. client' = c \/ Become(d)
    BY <1>3 DEF HangsUp
  <2> HIDE DEF c
  <2>3. "disconnected" \in Reasons
    BY DEF Reasons
  <2>4. d \in Clients /\ SameStart(c, d)
    BY <2>1, <2>3, EndSessionFields
  <2> HIDE DEF d
  <2> QED
    BY <2>1, <2>2, <2>4, BecomeFields DEF Alike, SameStart
<1>4. CASE LeavesAlone(a)
  BY <1>4 DEF LeavesAlone, SameStart
<1>5. ASSUME NEW reason \in Reasons, NEW crossed \in Crossings, EndsWith(a, reason, crossed)
      PROVE  SameStart(client, client')
  <2> DEFINE d == EndSession(client, reason)
             e == Crossing(d, crossed)
  <2>1. d \in Clients /\ SameStart(client, d)
    BY <1>1, EndSessionFields
  <2>2. Become(e)
    BY <1>5 DEF EndsWith
  <2> HIDE DEF d
  <2>3. e \in Clients /\ SameStart(d, e)
    BY <2>1, CrossingFields
  <2> HIDE DEF e
  <2> QED
    BY <2>1, <2>2, <2>3, BecomeFields DEF Alike, SameStart
<1> QED
  BY <1>2, <1>3, <1>4, <1>5, AnsweredCases

LEMMA JoinFailsStart ==
    ASSUME NEW c \in Clients, NEW j \in c.joins, JoinFails(c, j)
    PROVE  SameStart(c, client')
<1>1. "disconnected" \in Reasons /\ j \in Joins
  BY DEF Reasons, Clients
<1>2. Left(c, j) \in Clients /\ SameStart(c, Left(c, j))
  BY LeftFields
<1>3. SameStart(c, Stage(c, j, "hangup"))
  BY <1>1, StageFields
<1> DEFINE e == Left(c, j)
           d == EndSession(e, "disconnected")
<1> HIDE DEF e
<1>4. d \in Clients /\ SameStart(e, d)
  BY <1>1, <1>2, EndSessionFields DEF e
<1>5. \/ client' = Left(c, j) \/ client' = Stage(c, j, "hangup") \/ Become(d)
  BY DEF JoinFails, e
<1> HIDE DEF d
<1>6. CASE Become(d)
  BY <1>2, <1>4, <1>6, BecomeFields DEF Alike, SameStart, e
<1> QED
  BY <1>2, <1>3, <1>5, <1>6

LEMMA DisconnectsStart ==
    ASSUME NEW r, client \in Clients, Disconnects(r)
    PROVE  SameStart(client, client')
<1>1. CASE client.room # r.sess
  <2>1. client' = DropRoom(client, r)
    BY <1>1 DEF Disconnects, DropRoom
  <2> QED
    BY <2>1, DropRoomFields
<1>2. CASE client.room = r.sess
  <2>1. "disconnected" \in Reasons
    BY DEF Reasons
  <2> DEFINE d == EndSession(client, "disconnected")
  <2>2. Become(d)
    BY <1>2 DEF Disconnects
  <2>3. d \in Clients /\ SameStart(client, d)
    BY <2>1, EndSessionFields
  <2> HIDE DEF d
  <2> QED
    BY <2>2, <2>3, BecomeFields DEF Alike, SameStart
<1> QED
  BY <1>1, <1>2

LEMMA JoiningStart ==
    ASSUME Typed, Joining
    PROVE  SameStart(client, client')
<1>1. client \in Clients
  BY TypedParts
<1>2. ASSUME NEW j \in client.joins, TokenAnswered(j)
      PROVE  SameStart(client, client')
  <2>1. j \in Joins
    BY <1>1 DEF Clients
  <2>2. SameStart(client, Left(client, j)) /\ SameStart(client, WithRoom(client, j))
    BY <1>1, <2>1, LeftFields, WithRoomFields
  <2> QED
    BY <1>2, <2>2 DEF TokenAnswered
<1>3. ASSUME NEW j \in client.joins, ConnectAnswered(j)
      PROVE  SameStart(client, client')
  <2> DEFINE c == Connected(client, j)
             e == Stage(c, j, "mic")
  <2>1. j \in Joins
    BY <1>1 DEF Clients
  <2>2. c \in Clients /\ SameStart(client, c)
    BY <1>1, ConnectedFields
  <2>3. client' = Left(c, j) \/ client' = Apply(e, TRUE)
    BY <1>3 DEF ConnectAnswered
  <2> HIDE DEF c
  <2>4. SameStart(c, Left(c, j)) /\ e \in Clients /\ SameStart(c, e)
    BY <2>1, <2>2, LeftFields, StageFields
  <2> HIDE DEF e
  <2>5. SameStart(e, Apply(e, TRUE))
    BY <2>4, ApplyFields
  <2> QED
    BY <2>2, <2>3, <2>4, <2>5 DEF SameStart
<1>4. ASSUME NEW j \in client.joins, TokenFails(j) \/ ConnectFails(j)
      PROVE  SameStart(client, client')
  BY <1>1, <1>4, JoinFailsStart DEF TokenFails, ConnectFails
<1>5. ASSUME NEW ok \in BOOLEAN, MicrophoneApplied(ok)
      PROVE  SameStart(client, client')
  <2>1. PICK a \in Applies, mic \in BOOLEAN :
           /\ client.applies # <<>>
           /\ IF ok THEN AppliedWell(Popped(client, mic), a, Owned(a))
              ELSE AppliedBadly(Popped(client, mic), a, Owned(a))
    BY <1>5, AppliedCases
  <2> DEFINE c == Popped(client, mic)
  <2>2. c \in Clients /\ SameStart(client, c) /\ c.joins = client.joins
    BY <1>1, <2>1, PoppedFields DEF SameRoom
  <2>3. IF ok THEN AppliedWell(c, a, Owned(a)) ELSE AppliedBadly(c, a, Owned(a))
    BY <2>1
  <2> HIDE DEF c
  <2>4. CASE AppliedWell(c, a, Owned(a))
    <3> DEFINE muted == IF a.sess = client.session THEN ~a.on ELSE client.muted
    <3>1. muted \in BOOLEAN
      BY <1>1 DEF Clients, Applies
    <3>2. client' = Goes(c, muted, Owned(a))
      BY <2>4 DEF AppliedWell
    <3> HIDE DEF muted
    <3>3. SameStart(c, Goes(c, muted, Owned(a)))
      BY <2>2, <3>1, GoesFields
    <3> QED
      BY <2>2, <3>2, <3>3 DEF SameStart
  <2>5. CASE AppliedBadly(c, a, Owned(a))
    <3>1. CASE client' = c
      BY <2>2, <3>1 DEF SameStart
    <3>2. CASE \E j \in Owned(a) : JoinFails(c, j)
      <4>1. PICK j \in c.joins : JoinFails(c, j)
        BY <2>2, <3>2 DEF Owned
      <4> QED
        BY <2>2, <4>1, JoinFailsStart DEF SameStart
    <3> QED
      BY <2>5, <3>1, <3>2 DEF AppliedBadly
  <2> QED
    BY <2>3, <2>4, <2>5
<1> QED
  BY <1>2, <1>3, <1>4, <1>5 DEF Joining

LEMMA UserStart ==
    ASSUME Typed, User
    PROVE  client'.pending = client.pending /\ client'.starting \in {client.starting, "posted"}
<1>1. client \in Clients
  BY TypedParts
<1>2. CASE StartCall
  <2> DEFINE c == [client EXCEPT !.status = "outgoing", !.call = None, !.reason = NoReason,
                                 !.starting = "posted", !.shown = None]
  <2>1. c \in Clients
    BY <1>1, Zenon DEF Clients, Statuses
  <2>2. c.pending = client.pending /\ c.starting = "posted"
    BY <1>1 DEF Clients
  <2>3. Become(c)
    BY <1>2 DEF StartCall
  <2> HIDE DEF c
  <2> QED
    BY <2>1, <2>2, <2>3, BecomeFields DEF Alike, SameStart
<1>3. CASE TogglePreference
  BY <1>1, <1>3 DEF TogglePreference, Apply, Clients
<1>4. CASE client' = client
  BY <1>4
<1> QED
  BY <1>2, <1>3, <1>4 DEF User, Act

\* What is said of a call stays so.
LEMMA SignalStays ==
    ASSUME NEW k \in Calls, NEW m \in Calls, Advances(k, m), NEW s \in Signals,
           SignalHolds(k, s)
    PROVE  SignalHolds(m, s)
<1>1. s.type \in Reasons \cup {"invite", "accept"}
  BY DEF Signals
<1> QED
  BY <1>1 DEF SignalHolds, Advances, Accepted, Calls

LEMMA ToldFacts ==
    ASSUME Typed, NEW p \in DOMAIN wire
    PROVE  /\ Told(p) \in Signals /\ Told(p).call = wire[p].call
           /\ Told(p).call \in DOMAIN calls /\ wire[p] \in Sent
           /\ Told(p).type = "invite" <=> wire[p].event = "invite"
<1>1. /\ wire \in Seq(Sent) /\ wire[p].call <= Len(calls) /\ Len(calls) \in Nat
      /\ DOMAIN calls = 1..Len(calls) /\ MaxCalls \in Nat
  BY TypedParts, CallClientAssumption DEF Kept
<1>2. PICK m \in Sent : m = wire[p]
  BY <1>1
<1>3. m.call \in 1..MaxCalls
  BY DEF Sent
<1> DEFINE s == ParseCallSignal(m)
<1>4. s \in Signals /\ s.call = m.call /\ (s.type = "invite" <=> m.event = "invite")
  BY ReasonFacts
<1> HIDE DEF s
<1>5. Told(p) = s
  BY <1>2 DEF Told, s
<1> QED
  BY <1>1, <1>2, <1>3, <1>4, <1>5

LEMMA PendingFacts ==
    ASSUME Typed, NEW p \in DOMAIN client.pending
    PROVE  client.pending[p] \in Signals /\ client.pending[p].call \in DOMAIN calls
BY TypedParts DEF Named, Clients

LEMMA SignalsStay ==
    ASSUME Typed, SignalsFit, CallsAdvance
    PROVE  /\ \A p \in DOMAIN client.pending :
                  SignalHolds(calls'[client.pending[p].call], client.pending[p])
           /\ \A p \in DOMAIN wire : SignalHolds(calls'[wire[p].call], Told(p))
<1>1. \A i \in DOMAIN calls : /\ calls[i] \in Calls /\ calls'[i] \in Calls
                             /\ Advances(calls[i], calls'[i])
  BY TypedParts DEF CallsAdvance
<1>2. ASSUME NEW p \in DOMAIN client.pending
      PROVE  SignalHolds(calls'[client.pending[p].call], client.pending[p])
  <2> DEFINE s == client.pending[p]
  <2>1. s \in Signals /\ s.call \in DOMAIN calls
    BY PendingFacts
  <2>2. SignalHolds(calls[s.call], s)
    BY DEF SignalsFit
  <2> HIDE DEF s
  <2>3. SignalHolds(calls'[s.call], s)
    BY <1>1, <2>1, <2>2, SignalStays
  <2> QED
    BY <2>3 DEF s
<1>3. ASSUME NEW p \in DOMAIN wire
      PROVE  SignalHolds(calls'[wire[p].call], Told(p))
  <2>1. Told(p) \in Signals /\ wire[p].call \in DOMAIN calls
    BY ToldFacts
  <2>2. SignalHolds(calls[wire[p].call], Told(p))
    BY DEF SignalsFit
  <2> QED
    BY <1>1, <2>1, <2>2, SignalStays
<1> QED
  BY <1>2, <1>3

\* No signal comes or goes, and pending signals only all at once.
LEMMA SignalsSame ==
    ASSUME Typed, SignalsFit, CallsAdvance, wire' = wire,
           client'.pending = client.pending \/ client'.pending = <<>>
    PROVE  SignalsFit'
<1>1. CASE client'.pending = client.pending
  BY <1>1, SignalsStay DEF SignalsFit, Told
<1>2. CASE client'.pending = <<>>
  BY <1>2, SignalsStay DEF SignalsFit, Told
<1> QED
  BY <1>1, <1>2

\* A signal of the last call comes behind all others.
LEMMA SignalsMore ==
    ASSUME Typed, SignalsFit, CallsAdvance, client' = client,
           Len(wire) \in Nat, DOMAIN wire = 1..Len(wire),
           DOMAIN wire' = 1..(Len(wire) + 1), \A p \in DOMAIN wire : wire'[p] = wire[p],
           NEW m \in Sent, wire'[Len(wire) + 1] = m,
           SignalHolds(calls'[m.call], ParseCallSignal(m)),
           \A i \in DOMAIN calls : i <= m.call,
           m.event # "invite" \/ m.call \notin DOMAIN calls
    PROVE  SignalsFit'
<1> DEFINE n == Len(wire) + 1
           t == ParseCallSignal(m)
<1>1. t \in Signals /\ t.call = m.call /\ (t.type = "invite" <=> m.event = "invite")
  BY ReasonFacts
<1>2. ParseCallSignal(wire'[n]) = t /\ n \in Nat /\ \A p \in DOMAIN wire : p < n
  OBVIOUS
<1>3. ASSUME NEW s \in Signals, s.call \in DOMAIN calls
      PROVE  InOrder(s, t)
  BY <1>1, <1>3 DEF InOrder
<1> HIDE DEF t
<1>4. ASSUME NEW p \in DOMAIN wire'
      PROVE  SignalHolds(calls'[wire'[p].call], ParseCallSignal(wire'[p]))
  <2>1. CASE p = n
    BY <1>1, <1>2, <2>1 DEF t
  <2>2. CASE p \in DOMAIN wire
    BY <2>2, SignalsStay DEF Told
  <2> QED
    BY <2>1, <2>2
<1>5. ASSUME NEW p \in DOMAIN wire', NEW q \in DOMAIN wire', p < q
      PROVE  InOrder(ParseCallSignal(wire'[p]), ParseCallSignal(wire'[q]))
  <2>1. p \in DOMAIN wire
    BY <1>5
  <2>2. CASE q = n
    BY <1>2, <1>3, <2>1, <2>2, ToldFacts DEF Told
  <2>3. CASE q \in DOMAIN wire
    BY <1>5, <2>1, <2>3 DEF SignalsFit, Told
  <2> QED
    BY <2>2, <2>3
<1>6. ASSUME NEW p \in DOMAIN client.pending, NEW q \in DOMAIN wire'
      PROVE  InOrder(client.pending[p], ParseCallSignal(wire'[q]))
  <2>1. CASE q = n
    BY <1>2, <1>3, <2>1, PendingFacts
  <2>2. CASE q \in DOMAIN wire
    BY <2>2 DEF SignalsFit, Told
  <2> QED
    BY <2>1, <2>2
<1> QED
  BY <1>4, <1>5, <1>6, SignalsStay DEF SignalsFit, Told

\* The first signal has come: it is handled, or waits behind the others.
LEMMA SignalsLess ==
    ASSUME Typed, SignalsFit, wire # <<>>, wire' = Tail(wire), calls' = calls,
           client'.pending = client.pending \/ client'.pending = Append(client.pending, Told(1))
    PROVE  SignalsFit'
<1>1. wire \in Seq(Sent) /\ client.pending \in Seq(Signals)
  BY TypedParts DEF Kept, Clients
<1>2. \A p \in DOMAIN wire' : p + 1 \in DOMAIN wire /\ wire'[p] = wire[p + 1] /\ p \in Nat
  BY <1>1
<1>3. 1 \in DOMAIN wire
  BY <1>1
<1>4. \A p \in DOMAIN wire' : SignalHolds(calls'[wire'[p].call], ParseCallSignal(wire'[p]))
  BY <1>2 DEF SignalsFit, Told
<1>5. \A p, q \in DOMAIN wire' :
            p < q => InOrder(ParseCallSignal(wire'[p]), ParseCallSignal(wire'[q]))
  <2> SUFFICES ASSUME NEW p \in DOMAIN wire', NEW q \in DOMAIN wire', p < q
               PROVE  InOrder(ParseCallSignal(wire'[p]), ParseCallSignal(wire'[q]))
    OBVIOUS
  <2>1. p + 1 < q + 1
    BY <1>2
  <2> QED
    BY <1>2, <2>1 DEF SignalsFit, Told
<1>6. CASE client'.pending = client.pending
  BY <1>2, <1>4, <1>5, <1>6 DEF SignalsFit, Told
<1>7. CASE client'.pending = Append(client.pending, Told(1))
  <2> DEFINE n == Len(client.pending) + 1
             t == Told(1)
             pending == client'.pending
  <2>1. /\ DOMAIN pending = DOMAIN client.pending \cup {n}
        /\ pending[n] = t /\ \A p \in DOMAIN client.pending : pending[p] = client.pending[p] /\ p < n
    BY <1>1, <1>7
  <2>2. SignalHolds(calls[t.call], t)
    BY <1>3, ToldFacts DEF SignalsFit
  <2>3. \A p \in DOMAIN client.pending : InOrder(client.pending[p], t)
    BY <1>3 DEF SignalsFit
  <2>4. \A q \in DOMAIN wire' : InOrder(t, ParseCallSignal(wire'[q]))
    <3> SUFFICES ASSUME NEW q \in DOMAIN wire'
                 PROVE  InOrder(t, ParseCallSignal(wire'[q]))
      OBVIOUS
    <3>1. 1 < q + 1 /\ q + 1 \in DOMAIN wire
      BY <1>1, <1>2
    <3> QED
      BY <1>2, <1>3, <3>1 DEF SignalsFit, Told
  <2> HIDE DEF t
  <2>5. \A p \in DOMAIN pending : SignalHolds(calls'[pending[p].call], pending[p])
    BY <2>1, <2>2 DEF SignalsFit
  <2>6. \A p, q \in DOMAIN pending : p < q => InOrder(pending[p], pending[q])
    <3> SUFFICES ASSUME NEW p \in DOMAIN pending, NEW q \in DOMAIN pending, p < q
                 PROVE  InOrder(pending[p], pending[q])
      OBVIOUS
    <3>1. p # n
      BY <1>1, <2>1
    <3>2. CASE q = n
      BY <2>1, <2>3, <3>1, <3>2
    <3>3. CASE q # n
      BY <2>1, <3>1, <3>3 DEF SignalsFit
    <3> QED
      BY <3>2, <3>3
  <2>7. \A p \in DOMAIN pending, q \in DOMAIN wire' :
            InOrder(pending[p], ParseCallSignal(wire'[q]))
    BY <1>2, <2>1, <2>4 DEF SignalsFit, Told
  <2> HIDE DEF pending
  <2> QED
    BY <1>4, <1>5, <2>5, <2>6, <2>7 DEF SignalsFit, Told, pending
<1> QED
  BY <1>6, <1>7

\* Only the last call can move on, and its end must be told as it was.
LEMMA CallsFitKept ==
    ASSUME Typed, CallsFit, CallsAdvance, Len(calls') = Len(calls),
           \A i \in DOMAIN calls : calls[i].state # "ended" => EndedWell(calls'[i])
    PROVE  CallsFit'
<1>1. /\ calls \in Seq(Calls) /\ calls' \in Seq(Calls) /\ Len(calls) \in Nat
      /\ DOMAIN calls = 1..Len(calls) /\ DOMAIN calls' = 1..Len(calls)
  BY TypedParts DEF CallsAdvance
<1>2. ASSUME NEW i \in DOMAIN calls', i < Len(calls)
      PROVE  calls'[i].state = "ended"
  BY <1>1, <1>2 DEF CallsFit, CallsAdvance, Advances
<1>3. ASSUME NEW i \in DOMAIN calls'
      PROVE  EndedWell(calls'[i])
  <2>1. CASE calls[i].state = "ended"
    BY <1>1, <2>1 DEF CallsFit, CallsAdvance, Advances, EndedWell
  <2>2. CASE calls[i].state # "ended"
    BY <1>1, <2>2
  <2> QED
    BY <2>1, <2>2
<1> QED
  BY <1>1, <1>2, <1>3 DEF CallsFit

\* Steps that leave the calls and the wire alone.
LEMMA ServerSame ==
    ASSUME Typed, ServerFits, CallsAdvance, calls' = calls, wire' = wire,
           client'.pending = client.pending \/ client'.pending = <<>>
    PROVE  ServerFits'
<1>1. CallsFit'
  BY DEF ServerFits, CallsFit
<1> QED
  BY <1>1, SignalsSame DEF ServerFits

\* Steps that move one call on without a word.
LEMMA ServerUpdates ==
    ASSUME Typed, ServerFits, CallsAdvance, NEW i \in DOMAIN calls, NEW k \in Calls,
           calls' = [calls EXCEPT ![i] = k],
           calls[i].state = "ended" \/ EndedWell(k), wire' = wire,
           client'.pending = client.pending \/ client'.pending = <<>>
    PROVE  ServerFits'
<1>1. calls \in Seq(Calls)
  BY TypedParts
<1>2. /\ Len(calls') = Len(calls) /\ calls'[i] = k
      /\ \A x \in DOMAIN calls : x # i => calls'[x] = calls[x]
  BY <1>1, CallUpdated
<1>3. CallsFit'
  BY <1>2, CallsFitKept DEF ServerFits, CallsFit
<1> QED
  BY <1>3, SignalsSame DEF ServerFits

LEMMA CallsFitMore ==
    ASSUME Typed, CallsFit, Live = {}, NEW mine \in BOOLEAN,
           calls' = Append(calls, NewCall(mine))
    PROVE  CallsFit'
<1>1. calls \in Seq(Calls)
  BY TypedParts
<1> DEFINE n == Len(calls) + 1
<1>2. /\ Len(calls') = n /\ DOMAIN calls' = 1..n /\ DOMAIN calls = 1..Len(calls)
      /\ \A i \in DOMAIN calls : calls'[i] = calls[i]
      /\ calls'[n] = NewCall(mine) /\ Len(calls) \in Nat
  BY <1>1, CallAppended
<1>3. \A i \in DOMAIN calls : calls[i].state = "ended"
  BY DEF Live
<1>4. EndedWell(NewCall(mine))
  BY DEF EndedWell, NewCall
<1>5. \A i \in DOMAIN calls' : i = n \/ i \in DOMAIN calls
  BY <1>2
<1>6. \A i \in DOMAIN calls' : EndedWell(calls'[i])
  BY <1>2, <1>4, <1>5 DEF CallsFit
<1>7. \A i \in DOMAIN calls' : i < Len(calls') => calls'[i].state = "ended"
  BY <1>2, <1>3, <1>5
<1> QED
  BY <1>6, <1>7 DEF CallsFit

LEMMA ServerFitsStarts ==
    ASSUME Typed, ServerFits, ServerStarts
    PROVE  ServerFits'
<1>1. /\ client \in Clients /\ calls \in Seq(Calls) /\ Len(calls) \in Nat
      /\ DOMAIN calls = 1..Len(calls)
  BY TypedParts
<1>2. CallsAdvance /\ wire' = wire /\ client'.pending = client.pending
  BY <1>1, TypedServerStarts DEF ServerStarts, Clients
<1>3. CASE calls' = Append(calls, NewCall(TRUE)) /\ Live = {}
  <2>1. CallsFit'
    BY <1>3, CallsFitMore DEF ServerFits
  <2> QED
    BY <1>2, <2>1, SignalsSame DEF ServerFits
<1>4. CASE UNCHANGED calls
  BY <1>2, <1>4, ServerSame
<1> QED
  BY <1>3, <1>4 DEF ServerStarts

LEMMA ServerFitsInvites ==
    ASSUME Typed, ServerFits, PeerInvites
    PROVE  ServerFits'
<1>1. /\ calls \in Seq(Calls) /\ Len(calls) \in Nat /\ DOMAIN calls = 1..Len(calls)
      /\ MaxCalls \in Nat /\ wire \in Seq(Sent)
  BY TypedParts, CallClientAssumption DEF Kept
<1>2. /\ CallsAdvance /\ calls' = Append(calls, NewCall(FALSE)) /\ client' = client
      /\ Len(calls) < MaxCalls /\ Live = {}
  BY TypedPeerInvites DEF PeerInvites
<1>3. /\ Len(calls') = Len(calls) + 1 /\ DOMAIN calls' = 1..(Len(calls) + 1)
      /\ \A i \in DOMAIN calls : calls'[i] = calls[i]
      /\ calls'[Len(calls) + 1] = NewCall(FALSE)
  BY <1>1, <1>2, CallAppended
<1>4. CallsFit'
  BY <1>2, CallsFitMore DEF ServerFits
<1>5. SignalsFit'
  <2> DEFINE m == [call |-> Len(calls) + 1, event |-> "invite", reason |-> NoReason]
  <2>1. m \in Sent /\ m.call = Len(calls) + 1 /\ m.event = "invite"
    BY <1>1, <1>2 DEF Sent, Events
  <2>2. wire' = Append(wire, m)
    BY DEF PeerInvites, Signal
  <2>3. ParseCallSignal(m).type = "invite"
    BY <2>1, ReasonFacts
  <2> HIDE DEF m
  <2>4. /\ Len(wire) \in Nat /\ DOMAIN wire = 1..Len(wire) /\ DOMAIN wire' = 1..(Len(wire) + 1)
        /\ \A p \in DOMAIN wire : wire'[p] = wire[p]
        /\ wire'[Len(wire) + 1] = m
    BY <1>1, <2>1, <2>2
  <2>5. SignalHolds(calls'[m.call], ParseCallSignal(m))
    BY <1>3, <2>1, <2>3 DEF SignalHolds, NewCall
  <2>6. (\A i \in DOMAIN calls : i <= m.call) /\ m.call \notin DOMAIN calls
    BY <1>1, <2>1
  <2> QED
    BY <1>2, <2>1, <2>4, <2>5, <2>6, SignalsMore DEF ServerFits
<1> QED
  BY <1>4, <1>5 DEF ServerFits

\* The peer's other steps tell of the last call.
LEMMA ServerTells ==
    ASSUME Typed, ServerFits, CallsAdvance, client' = client, NEW i \in DOMAIN calls,
           NEW k \in Calls, calls' = [calls EXCEPT ![i] = k], calls[i].state # "ended",
           EndedWell(k), NEW event \in Events, NEW reason \in Reasons \cup {NoReason},
           event # "invite", wire' = Signal(i, event, reason),
           SignalHolds(k, ParseCallSignal([call |-> i, event |-> event, reason |-> reason]))
    PROVE  ServerFits'
<1>1. /\ calls \in Seq(Calls) /\ Len(calls) \in Nat /\ DOMAIN calls = 1..Len(calls)
      /\ MaxCalls \in Nat /\ wire \in Seq(Sent) /\ Len(calls) <= MaxCalls
  BY TypedParts, CallClientAssumption DEF Kept
<1>2. /\ Len(calls') = Len(calls) /\ calls'[i] = k
      /\ \A x \in DOMAIN calls : x # i => calls'[x] = calls[x]
  BY <1>1, CallUpdated
<1>3. CallsFit'
  BY <1>2, CallsFitKept DEF ServerFits, CallsFit
<1>4. i = Len(calls)
  BY <1>1 DEF ServerFits, CallsFit
<1> DEFINE m == [call |-> i, event |-> event, reason |-> reason]
<1>5. m \in Sent /\ m.call = i /\ m.event = event
  BY <1>1 DEF Sent
<1>6. wire' = Append(wire, m)
  BY DEF Signal
<1>7. SignalHolds(calls'[m.call], ParseCallSignal(m))
  BY <1>2, <1>5
<1> HIDE DEF m
<1>8. /\ Len(wire) \in Nat /\ DOMAIN wire = 1..Len(wire) /\ DOMAIN wire' = 1..(Len(wire) + 1)
      /\ \A p \in DOMAIN wire : wire'[p] = wire[p]
      /\ wire'[Len(wire) + 1] = m
  BY <1>1, <1>5, <1>6
<1>9. \A x \in DOMAIN calls : x <= m.call
  BY <1>1, <1>4, <1>5
<1>10. SignalsFit'
  BY <1>5, <1>7, <1>8, <1>9, SignalsMore DEF ServerFits
<1> QED
  BY <1>3, <1>10 DEF ServerFits

LEMMA ServerFitsPeerAccepts ==
    ASSUME Typed, ServerFits, NEW i \in DOMAIN calls, PeerAccepts(i)
    PROVE  ServerFits'
<1>1. PICK k \in Calls :
           /\ calls' = [calls EXCEPT ![i] = k] /\ k.mine /\ k.state = "active"
           /\ calls[i].state = "ringing"
  BY PeerAcceptsCall
<1>2. CallsAdvance /\ client' = client /\ wire' = Signal(i, "accept", NoReason)
  BY TypedPeerAccepts DEF PeerAccepts
<1>3. EndedWell(k)
  BY <1>1 DEF EndedWell
<1> DEFINE s == ParseCallSignal([call |-> i, event |-> "accept", reason |-> NoReason])
<1>4. s.type = "accept" /\ s.call = i
  BY DEF ParseCallSignal
<1> HIDE DEF s
<1>5. SignalHolds(k, s)
  BY <1>1, <1>4 DEF SignalHolds, Accepted
<1>6. "accept" \in Events /\ NoReason \in Reasons \cup {NoReason}
  BY DEF Events
<1> QED
  BY <1>1, <1>2, <1>3, <1>5, <1>6, ServerTells DEF s

LEMMA ServerFitsPeerEnds ==
    ASSUME Typed, ServerFits, NEW i \in DOMAIN calls, NEW reason \in Reasons, PeerEnds(i, reason)
    PROVE  ServerFits'
<1>1. PICK k \in Calls, event \in Events :
           /\ calls' = [calls EXCEPT ![i] = k] /\ k.state = "ended" /\ calls[i].state # "ended"
           /\ k.by = "peer" /\ k.reason = reason
           /\ k.rang => reason \in {"timeout", IF k.mine THEN "rejected" ELSE "canceled"}
           /\ event \notin {"invite", "accept"} /\ wire' = Signal(i, event, reason)
  <2>1. \E k \in Calls, event \in Events :
           /\ calls' = [calls EXCEPT ![i] = k] /\ k.state = "ended" /\ calls[i].state # "ended"
           /\ k.mine = calls[i].mine /\ k.in = calls[i].in /\ k.by = "peer" /\ k.reason = reason
           /\ k.rang = (calls[i].state = "ringing")
           /\ k.rang => reason \in {"timeout", IF k.mine THEN "rejected" ELSE "canceled"}
           /\ event \notin {"invite", "accept"} /\ wire' = Signal(i, event, reason)
    BY PeerEndsCall
  <2> QED
    BY <2>1
<1>2. CallsAdvance /\ client' = client
  BY TypedPeerEnds DEF PeerEnds
<1>3. EndedWell(k)
  BY <1>1 DEF EndedWell
<1> DEFINE s == ParseCallSignal([call |-> i, event |-> event, reason |-> reason])
<1>4. s.type = reason /\ s.call = i
  BY <1>1 DEF ParseCallSignal
<1> HIDE DEF s
<1>5. SignalHolds(k, s)
  BY <1>1, <1>4, ReasonFacts DEF SignalHolds
<1> QED
  BY <1>1, <1>2, <1>3, <1>5, ServerTells DEF s

LEMMA ServerFitsVanishes ==
    ASSUME Typed, ServerFits, NEW i \in DOMAIN calls, PeerVanishes(i)
    PROVE  ServerFits'
<1>1. "disconnected" \in Reasons /\ calls \in Seq(Calls)
  BY TypedParts DEF Reasons
<1>2. PICK k \in Calls :
           /\ Ended(i, "peer", "disconnected") = [calls EXCEPT ![i] = k]
           /\ k.rang = (calls[i].state = "ringing")
  BY <1>1, EndedFields
<1>3. calls' = [calls EXCEPT ![i] = k] /\ EndedWell(k)
  BY <1>2 DEF PeerVanishes, EndedWell
<1>4. CallsAdvance /\ wire' = wire /\ client' = client
  BY TypedPeerVanishes DEF PeerVanishes
<1> QED
  BY <1>3, <1>4, ServerUpdates

LEMMA ServerFitsSees ==
    ASSUME Typed, ServerFits, NEW i \in DOMAIN calls, ServerSeesRoom(i)
    PROVE  ServerFits'
<1>1. CallsAdvance /\ wire' = wire /\ client \in Clients
  BY TypedServerSeesRoom, TypedParts DEF ServerSeesRoom
<1>2. CASE calls' = calls /\ \E r \in client.rooms : Disconnects(r)
  BY <1>1, <1>2, DisconnectsStart, ServerSame DEF SameStart
<1>3. ASSUME NEW k \in Calls, client' = client, calls' = [calls EXCEPT ![i] = k],
             calls[i].state = "ended" \/ EndedWell(k)
      PROVE  ServerFits'
  BY <1>1, <1>3, ServerUpdates
<1> QED
  BY <1>2, <1>3, SeesCall DEF EndedWell

LEMMA ServerFitsActs ==
    ASSUME Typed, ServerFits, NEW a \in acts, ServerActs(a)
    PROVE  ServerFits'
<1>1. CallsAdvance /\ wire' = wire /\ client' = client
  BY TypedServerActs DEF ServerActs
<1>2. CASE calls' = calls
  BY <1>1, <1>2, ServerSame
<1>3. ASSUME NEW k \in Calls, calls' = [calls EXCEPT ![a.call] = k], a.call \in DOMAIN calls,
             EndedWell(k)
      PROVE  ServerFits'
  BY <1>1, <1>3, ServerUpdates
<1>4. calls' # calls =>
            \E k \in Calls : /\ calls' = [calls EXCEPT ![a.call] = k] /\ a.call \in DOMAIN calls
                             /\ EndedWell(k)
  BY ActsCall DEF EndedWell
<1> QED
  BY <1>2, <1>3, <1>4

LEMMA ServerFitsConnect ==
    ASSUME Typed, ServerFits, NEW j \in client.joins, ConnectAnswered(j)
    PROVE  ServerFits'
<1>1. /\ client \in Clients /\ Named(client) /\ calls \in Seq(Calls) /\ DOMAIN calls = 1..Len(calls)
  BY TypedParts
<1>2. j.call \in DOMAIN calls
  BY <1>1 DEF Named
<1>3. CallsAdvance
  BY TypedConnectAnswered
<1>4. SameStart(client, client')
  BY JoiningStart DEF Joining
<1> DEFINE n == j.call
           k == [calls[n] EXCEPT !.in = "joined"]
<1>5. calls[n] \in Calls
  BY <1>1, <1>2
<1>6. k \in Calls /\ calls' = [calls EXCEPT ![n] = k]
  BY <1>5 DEF Calls, ConnectAnswered
<1>7. calls[n].state = "ended" \/ EndedWell(k)
  BY <1>5 DEF EndedWell, Calls
<1> HIDE DEF n, k
<1> QED
  BY <1>2, <1>3, <1>4, <1>6, <1>7, ServerUpdates DEF ConnectAnswered, SameStart, n

LEMMA ServerFitsDeliver ==
    ASSUME Typed, ServerFits, DeliverSignal
    PROVE  ServerFits'
<1>1. /\ client \in Clients /\ wire \in Seq(Sent) /\ wire # <<>> /\ wire' = Tail(wire)
      /\ calls' = calls
  BY TypedParts DEF Kept, DeliverSignal
<1>2. Head(wire) = wire[1] /\ 1 \in DOMAIN wire
  BY <1>1
<1> DEFINE s == Told(1)
           c == HandleSignal(client, s)
<1>3. s \in Signals
  BY <1>2, ToldFacts
<1>4. Become(c)
  BY <1>2 DEF DeliverSignal, Told
<1> HIDE DEF s
<1>5. c \in Clients /\ (c.pending = client.pending \/ c.pending = Append(client.pending, s))
  <2>1. CASE Waits(client)
    BY <1>1, <1>3, <2>1, WaitingFields
  <2>2. CASE ~Waits(client)
    <3>1. c = Handled(client, s)
      BY <2>2 DEF HandleSignal, Waits
    <3> HIDE DEF c
    <3> QED
      BY <1>1, <1>3, <3>1, HandledFields DEF SameStart
  <2> QED
    BY <2>1, <2>2
<1> HIDE DEF c
<1>6. client'.pending = client.pending \/ client'.pending = Append(client.pending, s)
  BY <1>4, <1>5, BecomeFields DEF Alike, SameStart
<1>7. SignalsFit'
  BY <1>1, <1>6, SignalsLess DEF ServerFits, s
<1> QED
  BY <1>1, <1>7 DEF ServerFits, CallsFit

LEMMA ServerStep ==
    ASSUME Typed, ServerFits, [Next]_vars
    PROVE  ServerFits'
<1>1. CallsAdvance /\ client \in Clients /\ wire \in Seq(Sent)
  BY TypedStep, TypedParts DEF Kept
<1>2. CASE Requests
  <2>1. CASE StartAnswered
    BY <1>1, <2>1, PendingAnswered, ServerSame DEF StartAnswered, Same
  <2>2. ASSUME NEW a \in acts, ActAnswered(a)
        PROVE  ServerFits'
    BY <1>1, <2>2, ActAnsweredStart, ServerSame DEF ActAnswered, Same, SameStart
  <2> QED
    BY <1>2, <2>1, <2>2, ServerFitsStarts, ServerFitsActs DEF Requests
<1>3. CASE Joining
  <2>1. SameStart(client, client')
    BY <1>3, JoiningStart
  <2>2. CASE calls' = calls /\ wire' = wire
    BY <1>1, <2>1, <2>2, ServerSame DEF SameStart
  <2>3. ASSUME NEW j \in client.joins, ConnectAnswered(j)
        PROVE  ServerFits'
    BY <2>3, ServerFitsConnect
  <2> QED
    BY <1>3, <2>2, <2>3 DEF Joining, TokenAnswered, TokenFails, ConnectFails,
                            MicrophoneApplied, Same
<1>4. CASE Watching
  BY <1>4, ServerFitsSees DEF Watching
<1>5. CASE DeliverSignal
  BY <1>5, ServerFitsDeliver
<1>6. CASE User
  <2>1. calls' = calls /\ wire' = wire
    BY <1>6 DEF User, StartCall, TogglePreference, Act, Same
  <2>2. client'.pending = client.pending
    BY <1>6, UserStart
  <2> QED
    BY <1>1, <2>1, <2>2, ServerSame
<1>7. CASE Peer
  BY <1>7, ServerFitsInvites, ServerFitsPeerAccepts, ServerFitsVanishes, ServerFitsPeerEnds
     DEF Peer
<1>8. CASE Faults
  <2>1. CASE StartLost
    BY <1>1, <2>1, ServerSame DEF StartLost, Clients
  <2>2. CASE SignalLost
    <3>1. CallsFit'
      BY <2>2 DEF ServerFits, CallsFit, SignalLost
    <3> QED
      BY <2>2, <3>1, SignalsLess DEF ServerFits, SignalLost
  <2>3. ASSUME NEW a \in acts, ActLost(a)
        PROVE  ServerFits'
    BY <1>1, <2>3, ServerSame DEF ActLost
  <2>4. ASSUME NEW r \in client.rooms, RoomFails(r)
        PROVE  ServerFits'
    BY <1>1, <2>4, DisconnectsStart, ServerSame DEF RoomFails, Same, SameStart
  <2> QED
    BY <1>8, <2>1, <2>2, <2>3, <2>4 DEF Faults
<1>9. CASE \E on \in BOOLEAN : Reconnecting(on)
  BY <1>1, <1>9, ServerSame DEF Reconnecting, Same, Clients
<1>10. CASE UNCHANGED vars
  BY <1>1, <1>10, ServerSame DEF vars
<1> QED
  BY <1>2, <1>3, <1>4, <1>5, <1>6, <1>7, <1>8, <1>9, <1>10 DEF Next

LEMMA ServerInit ==
    ASSUME Init
    PROVE  ServerFits
<1>1. calls = <<>> /\ wire = <<>> /\ client.pending = <<>>
  BY DEF Init
<1> QED
  BY <1>1 DEF ServerFits, CallsFit, SignalsFit

-----------------------------------------------------------------------------
(* Rooms, sessions and joins *)

LEMMA ClientFields ==
    ASSUME NEW c \in Clients
    PROVE  /\ c.session \in Nat /\ c.room \in Nat /\ c.held \in Nat /\ c.call \in Nat
           /\ c.rooms \subseteq Rooms /\ c.contexts \subseteq Nat /\ c.joins \subseteq Joins
           /\ c.applies \in Seq(Applies) /\ c.pending \in Seq(Signals)
           /\ c.status \in Statuses /\ c.created \in Nat /\ c.shown \in Nat
           /\ c.pref \in BOOLEAN /\ c.mic \in BOOLEAN /\ c.muted \in BOOLEAN /\ c.rev \in Nat
           /\ c.crossed \in Crossings /\ c.reason \in Reasons \cup {NoReason}
           /\ c.seen \in Statuses /\ c.toast \in Reasons \cup {NoReason}
           /\ c.starting \in {"no", "posted", "refused", "created", "failed"}
BY DEF Clients

LEMMA JoinFields ==
    ASSUME NEW c \in Clients, NEW j \in c.joins
    PROVE  j \in Joins /\ j.sess \in Nat /\ j.call \in Nat
           /\ j.pc \in {"token", "connect", "mic", "hangup"}
BY DEF Clients, Joins

LEMMA ApplyField ==
    ASSUME NEW c \in Clients, NEW p \in DOMAIN c.applies
    PROVE  c.applies[p] \in Applies /\ c.applies[p].sess \in Nat
<1>1. c.applies \in Seq(Applies)
  BY DEF Clients
<1>2. c.applies[p] \in Applies
  BY <1>1
<1> QED
  BY <1>2 DEF Applies

\* The same room, joins and microphone, in the same call.
LEMMA ShapeAlike ==
    ASSUME NEW c \in Clients, NEW d, Shape(c), d.status = c.status, d.call = c.call,
           SameRoom(c, d), d.applies = c.applies
    PROVE  Shape(d)
BY DEF Shape, RoomFits, JoinsFit, JoinFits, AppliesFit, SameRoom, Up, Down

\* Outside of a call there is no room, and no join under way.
LEMMA ShapeOutside ==
    ASSUME NEW c \in Clients, Shape(c), c.status # "active"
    PROVE  /\ c.room = None /\ c.held = None /\ c.rooms = {} /\ c.contexts = {}
           /\ \A j \in c.joins : j.sess < c.session /\ j.sess >= 1
<1>1. c.room = None /\ c.held = None /\ c.rooms = {} /\ c.contexts = {}
  BY DEF Shape, RoomFits
<1>2. ASSUME NEW j \in c.joins
      PROVE  j.sess < c.session /\ j.sess >= 1
  BY JoinFields, ClientFields DEF Shape, JoinsFit, JoinFits
<1> QED
  BY <1>1, <1>2

LEMMA ShapeStill ==
    ASSUME NEW c \in Clients, NEW d, Shape(c), c.status # "active", d.status # "active",
           SameRoom(c, d), d.applies = c.applies
    PROVE  Shape(d)
<1>1. /\ c.room = None /\ c.held = None /\ c.rooms = {} /\ c.contexts = {}
      /\ \A j \in c.joins : j.sess < c.session /\ j.sess >= 1
  BY ShapeOutside
<1>2. RoomFits(d)
  BY <1>1 DEF RoomFits, SameRoom
<1>3. JoinsFit(d)
  <2>1. ASSUME NEW j \in d.joins
        PROVE  JoinFits(d, j)
    BY <1>1, JoinFields, ClientFields DEF JoinFits, SameRoom
  <2> QED
    BY <2>1 DEF JoinsFit, SameRoom, Shape
<1>4. AppliesFit(d)
  BY DEF AppliesFit, SameRoom, Shape
<1> QED
  BY <1>2, <1>3, <1>4 DEF Shape

\* endSession leaves no room, whatever it ends.
LEMMA ShapeEnd ==
    ASSUME NEW c \in Clients, Shape(c), NEW reason \in Reasons
    PROVE  Shape(EndSession(c, reason))
<1> DEFINE d == EndSession(c, reason)
<1>1. /\ d \in Clients /\ d.status = "idle" /\ d.call = None
      /\ d.session = c.session + 1 /\ d.room = None /\ d.held = None
      /\ d.rooms = {r \in c.rooms : r.sess # c.room}
      /\ d.contexts = c.contexts \ {c.held} /\ d.joins = c.joins /\ d.applies = c.applies
  BY EndSessionFields
<1> SUFFICES Shape(d)
  OBVIOUS
<1> HIDE DEF d
<1>2. RoomFits(d)
  <2>1. d.rooms = {}
    BY <1>1 DEF Shape, RoomFits, Up, Down
  <2>2. d.contexts = {}
    BY <1>1 DEF Shape, RoomFits
  <2> QED
    BY <1>1, <2>1, <2>2 DEF RoomFits
<1>3. JoinsFit(d)
  <2>1. ASSUME NEW j \in d.joins
        PROVE  JoinFits(d, j)
    BY <1>1, JoinFields, ClientFields DEF JoinFits, JoinsFit, Shape
  <2> QED
    BY <1>1, <2>1 DEF JoinsFit, Shape
<1>4. AppliesFit(d)
  <2>1. ASSUME NEW p \in DOMAIN d.applies
        PROVE  d.applies[p].sess <= d.session
    BY <1>1, ApplyField, ClientFields DEF Shape, AppliesFit
  <2> QED
    BY <1>1, <2>1 DEF Shape, AppliesFit
<1> QED
  BY <1>2, <1>3, <1>4 DEF Shape

\* joinRoom begins a session that nothing of before belongs to.
LEMMA ShapeJoin ==
    ASSUME NEW c \in Clients, Shape(c), c.status # "active", c.call # None
    PROVE  Shape(JoinRoom([c EXCEPT !.status = "active"]))
<1> DEFINE d == JoinRoom([c EXCEPT !.status = "active"])
           join == [sess |-> c.session + 1, call |-> c.call, pc |-> "token"]
<1>1. /\ d \in Clients /\ d.status = "active" /\ d.call = c.call
      /\ SameMicrophone(c, d) /\ d.room = c.room /\ d.rooms = c.rooms
      /\ d.session = c.session + 1 /\ d.held = None /\ d.contexts = c.contexts \ {c.held}
      /\ d.joins = c.joins \cup {join}
  BY JoinRoomFields
<1>2. /\ c.room = None /\ c.held = None /\ c.rooms = {} /\ c.contexts = {}
      /\ \A j \in c.joins : j.sess < c.session /\ j.sess >= 1
  BY ShapeOutside
<1> SUFFICES Shape(d)
  OBVIOUS
<1>3. join.sess = c.session + 1 /\ join.call = c.call /\ join.pc = "token"
  OBVIOUS
<1> HIDE DEF d, join
<1>4. RoomFits(d)
  BY <1>1, <1>2 DEF RoomFits
<1>5. JoinsFit(d)
  <2>1. ASSUME NEW j \in c.joins
        PROVE  JoinFits(d, j) /\ j.sess # join.sess
    BY <1>1, <1>2, <1>3, JoinFields, ClientFields DEF JoinFits
  <2>2. JoinFits(d, join)
    BY <1>1, <1>2, <1>3, ClientFields DEF JoinFits
  <2>3. \A i, j \in d.joins : i.sess = j.sess => i = j
    BY <1>1, <2>1 DEF Shape, JoinsFit
  <2> QED
    BY <1>1, <1>3, <2>1, <2>2, <2>3 DEF JoinsFit
<1>6. AppliesFit(d)
  <2>1. ASSUME NEW p \in DOMAIN d.applies
        PROVE  d.applies[p].sess <= d.session /\ d.applies[p].sess # join.sess
    BY <1>1, <1>3, ApplyField, ClientFields DEF Shape, AppliesFit, SameMicrophone
  <2> QED
    BY <1>1, <2>1 DEF Shape, AppliesFit, SameMicrophone
<1> QED
  BY <1>4, <1>5, <1>6 DEF Shape

\* A join can go that is not the session's, or has connected its room.
LEMMA ShapeDrop ==
    ASSUME NEW c \in Clients, NEW d, Shape(c), d.joins \subseteq c.joins,
           \/ c.status # "active"
           \/ c.room # None /\ Up(c)
           \/ \A j \in c.joins : j.sess = c.session => j \in d.joins,
           d.status = c.status, d.call = c.call, d.session = c.session, d.room = c.room,
           d.rooms = c.rooms, d.contexts = c.contexts, d.held = c.held, d.applies = c.applies
    PROVE  Shape(d)
<1>1. RoomFits(d)
  BY DEF Shape, RoomFits, Up, Down
<1>2. JoinsFit(d)
  <2>1. \A j \in d.joins : JoinFits(d, j)
    BY DEF Shape, JoinsFit, JoinFits, Up
  <2>2. d.status = "active" =>
            (d.room # None /\ Up(d)) \/ \E j \in d.joins : j.sess = d.session
    BY DEF Shape, JoinsFit, Up
  <2> QED
    BY <2>1, <2>2 DEF Shape, JoinsFit
<1>3. AppliesFit(d)
  BY DEF Shape, AppliesFit
<1> QED
  BY <1>1, <1>2, <1>3 DEF Shape

\* The session's join goes on: j is replaced by k of the same session and call.
LEMMA ShapeReplace ==
    ASSUME NEW c \in Clients, NEW d, Shape(c), NEW j \in c.joins, NEW k \in Joins,
           j.sess = c.session, k.sess = j.sess, k.call = j.call,
           d.joins = (c.joins \ {j}) \cup {k}, JoinFits(d, k), RoomFits(d),
           d.status = c.status, d.call = c.call, d.session = c.session,
           \A i \in c.joins : i.sess = c.session => i = j,
           \A p \in DOMAIN d.applies : d.applies[p].sess <= d.session,
           \A p \in DOMAIN d.applies : d.applies[p].join =>
                /\ d.applies[p].sess = j.sess => k.pc = "mic"
                /\ \A q \in DOMAIN d.applies :
                        d.applies[q].join /\ d.applies[p].sess = d.applies[q].sess => p = q
                /\ \A i \in c.joins : i # j /\ i.sess = d.applies[p].sess => i.pc = "mic"
    PROVE  Shape(d)
<1>1. \A i \in c.joins : i # j => i.sess # c.session
  OBVIOUS
<1>2. JoinsFit(d)
  <2>1. ASSUME NEW i \in c.joins, i # j
        PROVE  JoinFits(d, i)
    BY <1>1, <2>1 DEF Shape, JoinsFit, JoinFits
  <2>2. \A i \in d.joins : JoinFits(d, i)
    BY <2>1
  <2>3. \A x, y \in d.joins : x.sess = y.sess => x = y
    BY <1>1 DEF Shape, JoinsFit
  <2>4. k \in d.joins /\ k.sess = d.session
    OBVIOUS
  <2> QED
    BY <2>2, <2>3, <2>4 DEF JoinsFit
<1>3. AppliesFit(d)
  BY DEF AppliesFit
<1> QED
  BY <1>2, <1>3 DEF Shape

LEMMA CurrentJoin ==
    ASSUME NEW c \in Clients, Shape(c), NEW j \in c.joins, j.sess = c.session
    PROVE  /\ c.status = "active" /\ j.call = c.call
           /\ j.pc = "token" => c.room = None
           /\ j.pc \in {"connect", "mic"} => c.room = c.session
           /\ j.pc = "mic" => Up(c)
           /\ \A i \in c.joins : i.sess = c.session => i = j
           /\ j.sess >= 1
BY DEF Shape, JoinsFit, JoinFits

\* Whoever leaves the token's wait in an old session leaves nothing.
LEMMA ShapeLeft ==
    ASSUME NEW c \in Clients, Shape(c), NEW j \in c.joins, j.sess # c.session
    PROVE  Shape(Left(c, j))
<1> DEFINE d == Left(c, j)
<1>1. /\ d.joins = c.joins \ {j} /\ d.session = c.session
      /\ d.room = c.room /\ d.rooms = c.rooms /\ d.contexts = c.contexts /\ d.held = c.held
      /\ d.status = c.status /\ d.call = c.call /\ d.applies = c.applies
  BY LeftFields DEF SameMicrophone
<1> SUFFICES Shape(d)
  OBVIOUS
<1> HIDE DEF d
<1> QED
  BY <1>1, ShapeDrop

LEMMA ShapeWithRoom ==
    ASSUME NEW c \in Clients, Shape(c), NEW j \in c.joins, j.sess = c.session, j.pc = "token"
    PROVE  Shape(WithRoom(c, j))
<1> DEFINE d == WithRoom(c, j)
           k == [j EXCEPT !.pc = "connect"]
<1>1. j \in Joins
  BY JoinFields
<1>2. /\ d \in Clients /\ d.joins = (c.joins \ {j}) \cup {k}
      /\ d.session = c.session /\ d.room = j.sess /\ d.held = j.sess
      /\ d.rooms = c.rooms \cup {[sess |-> j.sess, call |-> j.call, up |-> FALSE]}
      /\ d.contexts = c.contexts \cup {j.sess}
      /\ d.status = c.status /\ d.call = c.call /\ d.applies = c.applies
  BY <1>1, WithRoomFields DEF SameMicrophone
<1>3. k \in Joins /\ k.sess = j.sess /\ k.call = j.call /\ k.pc = "connect"
  BY <1>1 DEF Joins
<1> SUFFICES Shape(d)
  OBVIOUS
<1> HIDE DEF d, k
<1>4. /\ c.status = "active" /\ j.call = c.call /\ c.room = None
      /\ \A i \in c.joins : i.sess = c.session => i = j
      /\ j.sess >= 1 /\ j.sess # None
  BY CurrentJoin, JoinFields
<1>5. RoomFits(d)
  <2>1. c.rooms = {} /\ c.contexts = {}
    BY <1>4 DEF Shape, RoomFits
  <2> QED
    BY <1>2, <1>4, <2>1 DEF RoomFits, Down
<1>6. JoinFits(d, k)
  BY <1>2, <1>3, <1>4, ClientFields DEF JoinFits
<1>7. /\ \A p \in DOMAIN d.applies : d.applies[p].sess <= d.session
      /\ \A p \in DOMAIN d.applies : d.applies[p].join =>
            /\ d.applies[p].sess # j.sess
            /\ \A q \in DOMAIN d.applies :
                    d.applies[q].join /\ d.applies[p].sess = d.applies[q].sess => p = q
            /\ \A i \in c.joins : i # j /\ i.sess = d.applies[p].sess => i.pc = "mic"
  BY <1>2 DEF Shape, AppliesFit
<1> QED
  BY <1>2, <1>3, <1>4, <1>5, <1>6, <1>7, ShapeReplace

\* The catch of joinRoom waits for the server to be told.
LEMMA ShapeCaught ==
    ASSUME NEW c \in Clients, Shape(c), NEW j \in c.joins, j.sess = c.session,
           \A p \in DOMAIN c.applies : c.applies[p].join => c.applies[p].sess # j.sess
    PROVE  Shape(Stage(c, j, "hangup"))
<1> DEFINE d == Stage(c, j, "hangup")
           k == [j EXCEPT !.pc = "hangup"]
<1>1. j \in Joins
  BY JoinFields
<1>2. /\ d \in Clients /\ d.joins = (c.joins \ {j}) \cup {k}
      /\ d.session = c.session /\ d.room = c.room /\ d.held = c.held
      /\ d.rooms = c.rooms /\ d.contexts = c.contexts
      /\ d.status = c.status /\ d.call = c.call /\ d.applies = c.applies
  BY <1>1, StageFields DEF SameMicrophone
<1>3. k \in Joins /\ k.sess = j.sess /\ k.call = j.call /\ k.pc = "hangup"
  BY <1>1 DEF Joins
<1> SUFFICES Shape(d)
  OBVIOUS
<1> HIDE DEF d, k
<1>4. /\ c.status = "active" /\ j.call = c.call
      /\ \A i \in c.joins : i.sess = c.session => i = j
      /\ j.sess >= 1
  BY CurrentJoin
<1>5. RoomFits(d)
  BY <1>2 DEF Shape, RoomFits, Up, Down
<1>6. JoinFits(d, k)
  BY <1>2, <1>3, <1>4, ClientFields DEF JoinFits
<1>7. /\ \A p \in DOMAIN d.applies : d.applies[p].sess <= d.session
      /\ \A p \in DOMAIN d.applies : d.applies[p].join =>
            /\ d.applies[p].sess # j.sess
            /\ \A q \in DOMAIN d.applies :
                    d.applies[q].join /\ d.applies[p].sess = d.applies[q].sess => p = q
            /\ \A i \in c.joins : i # j /\ i.sess = d.applies[p].sess => i.pc = "mic"
  BY <1>2 DEF Shape, AppliesFit
<1> QED
  BY <1>2, <1>3, <1>4, <1>5, <1>6, <1>7, ShapeReplace

\* A room is what its fields are.
LEMMA RoomIs ==
    ASSUME NEW r \in Rooms
    PROVE  r = [sess |-> r.sess, call |-> r.call, up |-> r.up]
BY DEF Rooms

LEMMA RoomUp ==
    ASSUME NEW r \in Rooms
    PROVE  [r EXCEPT !.up = TRUE] = [sess |-> r.sess, call |-> r.call, up |-> TRUE]
<1> DEFINE e == [r EXCEPT !.up = TRUE]
<1>1. e \in Rooms
  BY DEF Rooms
<1>2. e.sess = r.sess /\ e.call = r.call /\ e.up = TRUE
  BY DEF Rooms
<1> HIDE DEF e
<1>3. e = [sess |-> e.sess, call |-> e.call, up |-> e.up]
  BY <1>1, RoomIs
<1>4. e = [sess |-> r.sess, call |-> r.call, up |-> TRUE]
  BY <1>2, <1>3
<1> QED
  BY <1>4 DEF e

\* The room of the session is connected, and the microphone's first change
\* begins.
LEMMA ShapeConnected ==
    ASSUME NEW c \in Clients, Shape(c), NEW j \in c.joins, j.sess = c.session, j.pc = "connect"
    PROVE  LET d == Apply(Stage(Connected(c, j), j, "mic"), TRUE) IN Shape(d) /\ Up(d)
<1> DEFINE b == Connected(c, j)
           e == Stage(b, j, "mic")
           d == Apply(e, TRUE)
           k == [j EXCEPT !.pc = "mic"]
           change == [rev |-> e.rev + 1, sess |-> e.session, on |-> e.pref, join |-> TRUE]
<1>1. j \in Joins
  BY JoinFields
<1>2. k \in Joins /\ k.sess = j.sess /\ k.call = j.call /\ k.pc = "mic"
  BY <1>1 DEF Joins
<1>3. /\ b \in Clients
      /\ b.rooms = {IF r.sess = j.sess THEN [r EXCEPT !.up = TRUE] ELSE r : r \in c.rooms}
      /\ b.status = c.status /\ b.call = c.call
      /\ b.session = c.session /\ b.room = c.room /\ b.contexts = c.contexts
      /\ b.held = c.held /\ b.joins = c.joins /\ b.applies = c.applies
  <2>1. SameMicrophone(c, b)
    BY ConnectedFields
  <2>2. b.applies = c.applies
    BY <2>1 DEF SameMicrophone
  <2> QED
    BY <2>2, ConnectedFields
<1> HIDE DEF b
<1>4. /\ e \in Clients /\ e.joins = (b.joins \ {j}) \cup {k}
      /\ e.session = b.session /\ e.room = b.room /\ e.held = b.held
      /\ e.rooms = b.rooms /\ e.contexts = b.contexts
      /\ e.status = b.status /\ e.call = b.call /\ e.applies = b.applies
  <2>0. "mic" \in {"token", "connect", "mic", "hangup"}
    OBVIOUS
  <2>1. SameMicrophone(b, e)
    BY <1>1, <1>3, <2>0, StageFields
  <2>2. e.applies = b.applies
    BY <2>1 DEF SameMicrophone
  <2> QED
    BY <1>1, <1>3, <2>0, <2>2, StageFields
<1> HIDE DEF e
<1>5. /\ d \in Clients /\ d.applies = Append(e.applies, change)
      /\ d.joins = e.joins /\ d.session = e.session /\ d.room = e.room /\ d.held = e.held
      /\ d.rooms = e.rooms /\ d.contexts = e.contexts
      /\ d.status = e.status /\ d.call = e.call
  BY <1>4, ApplyFields DEF SameRoom
<1>6. change.sess = c.session /\ change.join
  BY <1>3, <1>4
<1> SUFFICES Shape(d) /\ Up(d)
  BY DEF b, e
<1> HIDE DEF d, k, change
<1>7. /\ c.status = "active" /\ j.call = c.call /\ c.room = c.session
      /\ \A i \in c.joins : i.sess = c.session => i = j
      /\ j.sess >= 1 /\ j.sess # None
  BY CurrentJoin, JoinFields
<1>8. Up(d)
  <2> DEFINE wait == [sess |-> c.session, call |-> c.call, up |-> FALSE]
             open == [sess |-> c.session, call |-> c.call, up |-> TRUE]
             F(r) == IF r.sess = j.sess THEN [r EXCEPT !.up = TRUE] ELSE r
  <2>1. c.rooms = {open} \/ c.rooms = {wait}
    BY <1>7 DEF Shape, RoomFits, Up, Down
  <2>2. open \in Rooms /\ wait \in Rooms
    BY ClientFields DEF Rooms
  <2>3. [open EXCEPT !.up = TRUE] = open /\ [wait EXCEPT !.up = TRUE] = open
    BY <2>2, RoomUp
  <2>4. open.sess = c.session /\ wait.sess = c.session
    OBVIOUS
  <2>5. F(open) = open /\ F(wait) = open
    BY <2>3, <2>4
  <2>6. b.rooms = {F(r) : r \in c.rooms}
    BY <1>3
  <2> HIDE DEF open, wait, F
  <2>7. b.rooms = {open}
    BY <2>1, <2>5, <2>6
  <2> QED
    BY <1>3, <1>4, <1>5, <2>7 DEF Up, open
<1>9. RoomFits(d)
  BY <1>3, <1>4, <1>5, <1>7, <1>8 DEF Shape, RoomFits
<1>10. JoinFits(d, k)
  BY <1>2, <1>3, <1>4, <1>5, <1>7, <1>8, ClientFields DEF JoinFits
<1>11. \A p \in DOMAIN c.applies : c.applies[p].join => c.applies[p].sess # c.session
  BY DEF Shape, AppliesFit
<1>12. c.applies \in Seq(Applies) /\ c.session \in Nat
  BY ClientFields
<1>13. /\ \A p \in DOMAIN d.applies :
              IF p \in DOMAIN c.applies THEN d.applies[p] = c.applies[p]
              ELSE p = Len(c.applies) + 1 /\ d.applies[p] = change
       /\ \A p \in DOMAIN c.applies : p # Len(c.applies) + 1
  BY <1>3, <1>4, <1>5, <1>12
<1>14. \A p \in DOMAIN d.applies : d.applies[p].sess <= d.session
  BY <1>3, <1>4, <1>5, <1>6, <1>12, <1>13 DEF Shape, AppliesFit
<1>15. ASSUME NEW p \in DOMAIN d.applies, d.applies[p].join
       PROVE  /\ \A q \in DOMAIN d.applies :
                    d.applies[q].join /\ d.applies[p].sess = d.applies[q].sess => p = q
              /\ \A i \in c.joins : i # j /\ i.sess = d.applies[p].sess => i.pc = "mic"
  <2>1. CASE p \in DOMAIN c.applies
    BY <1>6, <1>11, <1>13, <1>15, <2>1 DEF Shape, AppliesFit
  <2>2. CASE p \notin DOMAIN c.applies
    BY <1>6, <1>7, <1>11, <1>13, <2>2
  <2> QED
    BY <2>1, <2>2
<1>16. d.joins = (c.joins \ {j}) \cup {k} /\ d.status = c.status /\ d.call = c.call
       /\ d.session = c.session
  BY <1>3, <1>4, <1>5
<1> QED
  BY <1>2, <1>7, <1>8, <1>9, <1>10, <1>14, <1>15, <1>16, ShapeReplace

\* The watchers' change of the microphone belongs to no join.
LEMMA ShapeApply ==
    ASSUME NEW c \in Clients, Shape(c)
    PROVE  Shape(Apply(c, FALSE))
<1> DEFINE d == Apply(c, FALSE)
           change == [rev |-> c.rev + 1, sess |-> c.session, on |-> c.pref, join |-> FALSE]
<1>1. /\ d \in Clients /\ d.applies = Append(c.applies, change)
      /\ d.joins = c.joins /\ d.session = c.session /\ d.room = c.room /\ d.held = c.held
      /\ d.rooms = c.rooms /\ d.contexts = c.contexts
      /\ d.status = c.status /\ d.call = c.call
  BY ApplyFields DEF SameRoom
<1>2. change.sess = c.session /\ ~change.join
  OBVIOUS
<1> SUFFICES Shape(d)
  OBVIOUS
<1> HIDE DEF d, change
<1>3. RoomFits(d) /\ JoinsFit(d)
  BY <1>1 DEF Shape, RoomFits, JoinsFit, JoinFits, Up, Down
<1>4. c.applies \in Seq(Applies) /\ c.session \in Nat
  BY ClientFields
<1>5. /\ \A p \in DOMAIN d.applies :
              IF p \in DOMAIN c.applies THEN d.applies[p] = c.applies[p]
              ELSE p = Len(c.applies) + 1 /\ d.applies[p] = change
  BY <1>1, <1>4
<1>6. AppliesFit(d)
  BY <1>1, <1>2, <1>4, <1>5 DEF Shape, AppliesFit
<1> QED
  BY <1>3, <1>6 DEF Shape

LEMMA ShapePopped ==
    ASSUME NEW c \in Clients, Shape(c), c.applies # <<>>, NEW mic \in BOOLEAN
    PROVE  LET d == Popped(c, mic) IN
           Shape(d) /\ \A p \in DOMAIN d.applies :
                d.applies[p].join => \/ ~Head(c.applies).join
                                     \/ d.applies[p].sess # Head(c.applies).sess
<1> DEFINE d == Popped(c, mic)
<1>1. /\ d \in Clients /\ d.applies = Tail(c.applies)
      /\ d.joins = c.joins /\ d.session = c.session /\ d.room = c.room /\ d.held = c.held
      /\ d.rooms = c.rooms /\ d.contexts = c.contexts
      /\ d.status = c.status /\ d.call = c.call
  BY PoppedFields DEF SameRoom
<1> SUFFICES Shape(d) /\ \A p \in DOMAIN d.applies :
                d.applies[p].join => \/ ~Head(c.applies).join
                                     \/ d.applies[p].sess # Head(c.applies).sess
  OBVIOUS
<1> HIDE DEF d
<1>2. RoomFits(d) /\ JoinsFit(d)
  BY <1>1 DEF Shape, RoomFits, JoinsFit, JoinFits, Up, Down
<1>3. c.applies \in Seq(Applies)
  BY ClientFields
<1>4. ASSUME NEW p \in DOMAIN d.applies
      PROVE  p \in Nat /\ p + 1 \in DOMAIN c.applies /\ d.applies[p] = c.applies[p + 1] /\ p + 1 # 1
  BY <1>1, <1>3
<1>5. 1 \in DOMAIN c.applies /\ Head(c.applies) = c.applies[1]
  BY <1>3
<1>6. \A p \in DOMAIN d.applies : d.applies[p].sess <= d.session
  BY <1>1, <1>4 DEF Shape, AppliesFit
<1>7. \A p \in DOMAIN d.applies, j \in d.joins :
            d.applies[p].join /\ j.sess = d.applies[p].sess => j.pc = "mic"
  BY <1>1, <1>4 DEF Shape, AppliesFit
<1>8. ASSUME NEW p \in DOMAIN d.applies, NEW q \in DOMAIN d.applies,
             d.applies[p].join, d.applies[q].join, d.applies[p].sess = d.applies[q].sess
      PROVE  p = q
  <2>1. p + 1 = q + 1
    BY <1>4, <1>8 DEF Shape, AppliesFit
  <2> QED
    BY <1>4, <2>1
<1>9. ASSUME NEW p \in DOMAIN d.applies, d.applies[p].join, Head(c.applies).join
      PROVE  d.applies[p].sess # Head(c.applies).sess
  BY <1>4, <1>5, <1>9 DEF Shape, AppliesFit
<1> QED
  BY <1>2, <1>6, <1>7, <1>8, <1>9 DEF Shape, AppliesFit

\* The join that its change of the microphone is answered to is done.
LEMMA ShapeGoes ==
    ASSUME NEW c \in Clients, Shape(c), NEW muted \in BOOLEAN, NEW own,
           \A j \in c.joins : j.sess = c.session /\ j \in own => j.pc = "mic"
    PROVE  Shape(Goes(c, muted, own))
<1> DEFINE d == Goes(c, muted, own)
<1>1. /\ d.joins = c.joins \ own /\ d.session = c.session /\ d.applies = c.applies
      /\ d.room = c.room /\ d.rooms = c.rooms /\ d.contexts = c.contexts /\ d.held = c.held
      /\ d.status = c.status /\ d.call = c.call
  BY GoesFields
<1> SUFFICES Shape(d)
  OBVIOUS
<1> HIDE DEF d
<1>2. CASE \E j \in c.joins : j.sess = c.session /\ j \in own
  <2>1. c.room # None /\ Up(c)
    BY <1>2, CurrentJoin
  <2> QED
    BY <1>1, <2>1, ShapeDrop
<1>3. CASE \A j \in c.joins : j.sess = c.session => j \in d.joins
  BY <1>1, <1>3, ShapeDrop
<1> QED
  BY <1>1, <1>2, <1>3

\* The answer to joinRoom's own hang-up.
LEMMA ShapeHungUp ==
    ASSUME NEW c \in Clients, Shape(c), NEW sess, NEW reason \in Reasons
    PROVE  Shape(IF sess = c.session THEN EndSession(LeftBy(c, sess), reason) ELSE LeftBy(c, sess))
<1> DEFINE b == LeftBy(c, sess)
           d == EndSession(b, reason)
           e == EndSession(c, reason)
<1>1. /\ b \in Clients /\ b.joins = {j \in c.joins : j.sess # sess} /\ b.session = c.session
      /\ b.room = c.room /\ b.rooms = c.rooms /\ b.contexts = c.contexts /\ b.held = c.held
      /\ b.status = c.status /\ b.call = c.call /\ b.applies = c.applies
  BY LeftByFields DEF SameMicrophone
<1> SUFFICES Shape(IF sess = c.session THEN d ELSE b)
  OBVIOUS
<1> HIDE DEF b
<1>2. /\ d.status = "idle" /\ d.call = None
      /\ d.session = b.session + 1 /\ d.room = None /\ d.held = None
      /\ d.rooms = {r \in b.rooms : r.sess # b.room}
      /\ d.contexts = b.contexts \ {b.held} /\ d.joins = b.joins /\ d.applies = b.applies
  BY <1>1, EndSessionFields
<1>3. /\ e \in Clients /\ e.status = "idle" /\ e.call = None
      /\ e.session = c.session + 1 /\ e.room = None /\ e.held = None
      /\ e.rooms = {r \in c.rooms : r.sess # c.room}
      /\ e.contexts = c.contexts \ {c.held} /\ e.joins = c.joins /\ e.applies = c.applies
  BY EndSessionFields
<1>4. Shape(e)
  BY ShapeEnd
<1> HIDE DEF d, e
<1>5. Shape(d)
  <2>1. d.rooms = e.rooms
    BY <1>1, <1>2, <1>3
  <2>2. /\ d.joins \subseteq e.joins /\ e.status # "active"
        /\ d.status = e.status /\ d.call = e.call /\ d.session = e.session
        /\ d.room = e.room /\ d.contexts = e.contexts /\ d.held = e.held
        /\ d.applies = e.applies
    BY <1>1, <1>2, <1>3
  <2> QED
    BY <1>3, <1>4, <2>1, <2>2, ShapeDrop
<1>6. CASE sess # c.session
  BY <1>1, <1>6, ShapeDrop
<1> QED
  BY <1>5, <1>6

-----------------------------------------------------------------------------
(* The parts of the invariant, step by step *)

\* What is so of a request's call stays so.
LEMMA ActStays ==
    ASSUME NEW k \in Calls, NEW m \in Calls, Advances(k, m), NEW a, ActHolds(a, k)
    PROVE  ActHolds(a, m)
BY DEF ActHolds, Accepted, Advances, Calls

LEMMA AcceptedStays ==
    ASSUME NEW k \in Calls, NEW m \in Calls, Advances(k, m), Accepted(k)
    PROVE  Accepted(m)
BY DEF Accepted, Advances, Calls

LEMMA RequestedFields ==
    ASSUME NEW a \in Requested
    PROVE  /\ a.sess \in Nat /\ a.call \in Nat /\ a.call # None /\ a.kind \in Kinds
           /\ a.stage \in {"sent", "ok", "refused", "gone", "failed"}
           /\ a = [kind |-> a.kind, call |-> a.call, sess |-> a.sess, stage |-> a.stage]
<1>1. a.call \in 1..MaxCalls /\ MaxCalls \in Nat
  BY CallClientAssumption DEF Requested
<1>2. a = [kind |-> a.kind, call |-> a.call, sess |-> a.sess, stage |-> a.stage]
  BY DEF Requested
<1>3. a.sess \in Nat /\ a.kind \in Kinds /\ a.stage \in {"sent", "ok", "refused", "gone", "failed"}
  BY DEF Requested
<1> QED
  BY <1>1, <1>2, <1>3

\* The calls move on under a client and its requests.
LEMMA FitsStays ==
    ASSUME Typed, CallsAdvance, NEW ws, Fits(client, calls, acts, ws)
    PROVE  Fits(client, calls', acts, ws)
<1>1. /\ client \in Clients /\ Named(client) /\ calls \in Seq(Calls) /\ calls' \in Seq(Calls)
      /\ Len(calls) \in Nat /\ DOMAIN calls = 1..Len(calls) /\ Kept
  BY TypedParts DEF CallsAdvance
<1>2. client.call \in Nat /\ client.created \in Nat
  BY <1>1, ClientFields
<1>3. ASSUME NEW i \in DOMAIN calls
      PROVE  /\ calls[i] \in Calls /\ calls'[i] \in Calls /\ Advances(calls[i], calls'[i])
             /\ calls'[i].mine = calls[i].mine
             /\ Accepted(calls[i]) => Accepted(calls'[i])
  <2>1. calls[i] \in Calls /\ calls'[i] \in Calls /\ Advances(calls[i], calls'[i])
    BY <1>1 DEF CallsAdvance
  <2> QED
    BY <2>1, AcceptedStays DEF Advances
<1>4. StatusFits(client, calls')
  <2>1. client.call # None => client.call \in DOMAIN calls
    BY <1>1, <1>2 DEF Named
  <2>2. client.created # None => client.created \in DOMAIN calls
    BY <1>1, <1>2 DEF Named
  <2> QED
    BY <1>3, <2>1, <2>2 DEF Fits, StatusFits
<1>5. ASSUME NEW a \in acts
      PROVE  ActHolds(a, calls'[a.call])
  <2>1. a.call \in DOMAIN calls
    BY <1>1 DEF Kept, Requested
  <2> QED
    BY <1>3, <2>1, ActStays DEF Fits, ActsFit
<1> QED
  BY <1>4, <1>5 DEF Fits, ActsFit

\* Fewer requests, or one more.
LEMMA FitsFewer ==
    ASSUME NEW c, NEW ks, NEW as, NEW ws, Fits(c, ks, as, ws), NEW bs, bs \subseteq as
    PROVE  Fits(c, ks, bs, ws)
BY DEF Fits, ActsFit, InvitesFit, Answered

LEMMA FitsOneMore ==
    ASSUME NEW c, NEW ks, NEW as, NEW ws, Fits(c, ks, as, ws), NEW b,
           ActHolds(b, ks[b.call]), ActFits(c, b),
           c.status = "active" => ~(b.kind = "accept" /\ b.stage = "ok" /\ b.call = c.call),
           \A p \in DOMAIN ws : ws[p].event = "invite" => b.call # ws[p].call
    PROVE  Fits(c, ks, as \cup {b}, ws)
BY DEF Fits, ActsFit, InvitesFit, Answered

\* Fewer invitations, or none.
LEMMA FitsInvites ==
    ASSUME NEW c, NEW ks, NEW as, NEW ws, Fits(c, ks, as, ws), NEW vs,
           \A p \in DOMAIN vs : vs[p].event = "invite" =>
                \E q \in DOMAIN ws : ws[q].event = "invite" /\ ws[q].call = vs[p].call
    PROVE  Fits(c, ks, as, vs)
BY DEF Fits, InvitesFit

\* The same status, call, session and created call; the room may move on.
LEMMA FitsAlike ==
    ASSUME NEW c, NEW d, NEW ks, NEW as, NEW ws, Fits(c, ks, as, ws), Shape(d),
           d.status = c.status, d.call = c.call, d.session = c.session, d.created = c.created
    PROVE  Fits(d, ks, as, ws)
BY DEF Fits, StatusFits, ActsFit, ActFits, InvitesFit

\* The call is ended: no request is for what is shown.
LEMMA FitsEnd ==
    ASSUME NEW c \in Clients, NEW ks, NEW as, as \subseteq Requested, NEW ws, Fits(c, ks, as, ws),
           \A p \in DOMAIN ws : ws[p].call # None,
           NEW d, Shape(d), d.status = "idle", d.call = None, d.session = c.session + 1,
           d.created = c.created
    PROVE  Fits(d, ks, as, ws)
<1>1. \A a \in as : a.sess \in Nat /\ a.call # None
  BY RequestedFields
<1>2. ASSUME NEW a \in as
      PROVE  ActFits(d, a)
  <2>1. c.session \in Nat /\ a.sess \in Nat /\ a.call # None
    BY <1>1, ClientFields
  <2>2. ActFits(c, a)
    BY DEF Fits, ActsFit
  <2>3. a.sess <= d.session /\ a.sess # d.session
    BY <2>1, <2>2 DEF ActFits
  <2>4. StatusFits(c, ks)
    BY DEF Fits
  <2> QED
    BY <2>1, <2>2, <2>3, <2>4 DEF ActFits
<1>3. StatusFits(d, ks)
  BY DEF Fits, StatusFits
<1>4. ActsFit(d, ks, as)
  BY <1>2 DEF Fits, ActsFit
<1>5. InvitesFit(d, as, ws)
  BY DEF Fits, InvitesFit
<1> QED
  BY <1>3, <1>4, <1>5 DEF Fits

\* The call is joined: it has been accepted, and its answer is used up.
LEMMA FitsJoin ==
    ASSUME NEW c \in Clients, NEW ks, NEW as, as \subseteq Requested, NEW ws, Fits(c, ks, as, ws),
           c.status # "active", c.call # None, Accepted(ks[c.call]),
           ~Answered(as, "accept", c.call),
           NEW d, Shape(d), d.status = "active", d.call = c.call, d.session = c.session + 1,
           d.created = c.created
    PROVE  Fits(d, ks, as, ws)
<1>1. \A a \in as : a.sess \in Nat /\ a.call # None
  BY RequestedFields
<1>2. ASSUME NEW a \in as
      PROVE  ActFits(d, a)
  <2>1. c.session \in Nat /\ a.sess \in Nat /\ a.call # None
    BY <1>1, ClientFields
  <2>2. ActFits(c, a)
    BY DEF Fits, ActsFit
  <2>3. a.sess <= d.session /\ a.sess # d.session
    BY <2>1, <2>2 DEF ActFits
  <2>4. StatusFits(c, ks)
    BY DEF Fits
  <2> QED
    BY <2>1, <2>2, <2>3, <2>4 DEF ActFits
<1>3. StatusFits(d, ks)
  BY DEF Fits, StatusFits
<1>4. ActsFit(d, ks, as)
  BY <1>2 DEF Fits, ActsFit
<1>5. InvitesFit(d, as, ws)
  BY DEF Fits, InvitesFit
<1> QED
  BY <1>3, <1>4, <1>5 DEF Fits

\* A signal is handled that holds of its call.
LEMMA FitsHandled ==
    ASSUME NEW c \in Clients, NEW ks, NEW as, as \subseteq Requested, NEW ws, Fits(c, ks, as, ws),
           \A p \in DOMAIN ws : ws[p].call # None,
           NEW s \in Signals, s.call # None, SignalHolds(ks[s.call], s),
           s.type = "invite" =>
                /\ c.call # s.call
                /\ \A a \in as : a.call # s.call
                /\ \A p \in DOMAIN ws : ws[p].event = "invite" => ws[p].call # s.call
    PROVE  LET d == Handled(c, s) IN
           /\ Fits(d, ks, as, ws)
           /\ d.room = None \/ (SameRoom(c, d) /\ SameMicrophone(c, d))
           /\ d.status = "outgoing" => c.status = "outgoing" /\ d.call = c.call
<1> DEFINE d == Handled(c, s)
<1>1. /\ d \in Clients /\ SameStart(c, d) /\ SameExperience(c, d)
      /\ \/ Ignored(c, d, s) \/ Rings(c, d, s) \/ IsAccepted(c, d, s) \/ IsEnded(c, d, s)
         \/ s.type = "accept" /\ c.status # "outgoing" /\ d = c
  BY HandledFields
<1> SUFFICES /\ Fits(d, ks, as, ws)
             /\ d.room = None \/ (SameRoom(c, d) /\ SameMicrophone(c, d))
             /\ d.status = "outgoing" => c.status = "outgoing" /\ d.call = c.call
  OBVIOUS
<1> HIDE DEF d
<1>2. Shape(c) /\ StatusFits(c, ks) /\ ActsFit(c, ks, as) /\ InvitesFit(c, as, ws)
  BY DEF Fits
<1>3. CASE Ignored(c, d, s)
  <2>1. Shape(d)
    BY <1>2, <1>3, ShapeAlike DEF Ignored, SameMicrophone
  <2>2. Fits(d, ks, as, ws)
    BY <1>1, <1>3, <2>1, FitsAlike DEF Ignored, SameRoom, SameStart
  <2> QED
    BY <1>3, <2>2 DEF Ignored, Beside
<1>4. CASE Rings(c, d, s)
  <2>1. c.status = "idle"
    BY <1>4 DEF Rings
  <2>2. Shape(d)
    BY <1>2, <1>4, <2>1, ShapeStill DEF Rings, SameMicrophone
  <2>3. StatusFits(d, ks)
    BY <1>1, <1>2, <1>4 DEF Rings, StatusFits, SignalHolds, SameStart
  <2>4. ActsFit(d, ks, as)
    <3>1. \A a \in as : ActFits(d, a)
      BY <1>1, <1>2, <1>4, <2>1 DEF Rings, ActsFit, ActFits, SameRoom, SameStart
    <3> QED
      BY <1>2, <1>4, <3>1 DEF Rings, ActsFit
  <2>5. InvitesFit(d, as, ws)
    BY <1>2, <1>4 DEF InvitesFit, Rings
  <2>6. Fits(d, ks, as, ws)
    BY <2>2, <2>3, <2>4, <2>5 DEF Fits
  <2> QED
    BY <1>4, <2>6 DEF Rings
<1>5. CASE IsAccepted(c, d, s)
  <2>1. /\ s.type = "accept" /\ s.call = c.call /\ c.status = "outgoing"
        /\ d = JoinRoom([c EXCEPT !.status = "active"])
    BY <1>5 DEF IsAccepted
  <2>2. Shape(d)
    BY <1>2, <2>1, ShapeJoin
  <2>3. /\ d.status = "active" /\ d.call = c.call /\ d.session = c.session + 1
        /\ d.created = c.created /\ d.room = c.room /\ d.crossed = c.crossed
    BY <2>1, JoinRoomFields DEF SameStart
  <2>4. Accepted(ks[c.call]) /\ ks[c.call].mine
    BY <2>1 DEF SignalHolds
  <2>5. ~Answered(as, "accept", c.call)
    BY <1>2, <2>4 DEF Answered, ActsFit, ActHolds, Refusing
  <2>6. Fits(d, ks, as, ws)
    BY <2>1, <2>2, <2>3, <2>4, <2>5, FitsJoin
  <2>7. c.room = None
    BY <1>2, <2>1, ShapeOutside
  <2> QED
    BY <2>3, <2>6, <2>7
<1>6. CASE IsEnded(c, d, s)
  <2>1. s.type \in Reasons /\ d = EndSession(c, s.type)
    BY <1>6 DEF IsEnded
  <2>2. Shape(d)
    BY <1>2, <2>1, ShapeEnd
  <2>3. /\ d.status = "idle" /\ d.call = None /\ d.session = c.session + 1
        /\ d.created = c.created /\ d.room = None /\ d.crossed = c.crossed
    BY <2>1, EndSessionFields DEF SameStart
  <2>4. Fits(d, ks, as, ws)
    BY <2>2, <2>3, FitsEnd
  <2> QED
    BY <2>3, <2>4
<1>7. CASE d = c
  BY <1>7 DEF SameRoom, SameMicrophone
<1> QED
  BY <1>1, <1>3, <1>4, <1>5, <1>6, <1>7

\* Only an invitation crosses.
LEMMA HandledUncrossed ==
    ASSUME NEW c \in Clients, NEW s \in Signals, c.crossed = "no", s.type # "invite"
    PROVE  Handled(c, s).crossed = "no"
<1> DEFINE d == Handled(c, s)
<1>1. Ignored(c, d, s) \/ Rings(c, d, s) \/ IsAccepted(c, d, s) \/ IsEnded(c, d, s) \/ d = c
  BY HandledFields
<1> HIDE DEF d
<1>2. IsAccepted(c, d, s) => d.crossed = "no"
  BY JoinRoomFields DEF IsAccepted
<1>3. IsEnded(c, d, s) => d.crossed = "no"
  BY EndSessionFields DEF IsEnded
<1>4. d.crossed = "no"
  BY <1>1, <1>2, <1>3 DEF Ignored, Rings, Beside
<1> QED
  BY <1>4 DEF d

\* The microphone's change is left alone, and no room begins.
LEMMA MicrophoneStays ==
    ASSUME NEW c, NEW d, NEW n, NEW m, MicrophoneFits(c, n), m = 0 => n = 0,
           d.room = None \/ (SameRoom(c, d) /\ SameMicrophone(c, d))
    PROVE  MicrophoneFits(d, m)
<1>1. CASE d.room = None
  BY <1>1 DEF MicrophoneFits
<1>2. CASE SameRoom(c, d) /\ SameMicrophone(c, d)
  BY <1>2 DEF MicrophoneFits, SameRoom, SameMicrophone
<1> QED
  BY <1>1, <1>2

LEMMA FailuresGrow ==
    ASSUME Kept, Fault \/ UNCHANGED spent
    PROVE  spent'.failures = 0 => spent.failures = 0
BY DEF Kept, Fault

\* After a failure nothing is said of the microphone.
LEMMA FailureSpent ==
    ASSUME Kept, Fault
    PROVE  spent'.failures # 0
BY DEF Kept, Fault

LEMMA WireCalls ==
    ASSUME Kept
    PROVE  \A p \in DOMAIN wire : wire[p].call # None /\ wire[p] \in Sent
<1>1. ASSUME NEW s \in Sent
      PROVE  s.call # None
  <2>1. s.call \in 1..MaxCalls /\ MaxCalls \in Nat
    BY CallClientAssumption DEF Sent
  <2> QED
    BY <2>1
<1> QED
  BY <1>1 DEF Kept

\* The client, its requests and the bounds are left alone.
LEMMA TogetherStays ==
    ASSUME Typed, Together, CallsAdvance, client' = client, acts' = acts,
           Fault \/ UNCHANGED spent,
           \A p \in DOMAIN wire' : wire'[p].event = "invite" =>
                \/ wire'[p].call = Len(calls) + 1
                \/ \E q \in DOMAIN wire : wire[q].event = "invite" /\ wire[q].call = wire'[p].call
    PROVE  Together'
<1>1. /\ client \in Clients /\ Named(client) /\ Kept /\ DOMAIN calls = 1..Len(calls)
      /\ Len(calls) \in Nat /\ calls \in Seq(Calls)
  BY TypedParts
<1>2. Fits(client, calls', acts, wire)
  BY FitsStays DEF Together
<1>3. client.call \in Nat
  BY <1>1, ClientFields
<1>4. ASSUME NEW p \in DOMAIN wire', wire'[p].event = "invite"
      PROVE  client.call # wire'[p].call /\ \A a \in acts : a.call # wire'[p].call
  <2>1. CASE \E q \in DOMAIN wire : wire[q].event = "invite" /\ wire[q].call = wire'[p].call
    BY <1>2, <2>1 DEF Fits, InvitesFit
  <2>2. CASE wire'[p].call = Len(calls) + 1
    <3>1. \A a \in acts : a.call \in DOMAIN calls
      BY <1>1, RequestedFields DEF Kept
    <3>2. CASE client.call # None
      <4>1. client.call \in DOMAIN calls
        BY <1>1, <1>3, <3>2 DEF Named
      <4> QED
        BY <1>1, <2>2, <3>1, <4>1
    <3>3. CASE client.call = None
      BY <1>1, <2>2, <3>1, <3>3
    <3> QED
      BY <3>2, <3>3
  <2> QED
    BY <1>4, <2>1, <2>2
<1>5. Fits(client, calls', acts, wire')
  BY <1>2, <1>4 DEF Fits, InvitesFit
<1>6. spent'.failures = 0 => spent.failures = 0
  BY <1>1, FailuresGrow
<1>7. MicrophoneFits(client, spent'.failures)
  BY <1>6 DEF Together, MicrophoneFits
<1> QED
  BY <1>5, <1>7 DEF Together

\* One more signal: an invitation only of a new call.
LEMMA TogetherTells ==
    ASSUME Typed, Together, CallsAdvance, client' = client, acts' = acts, UNCHANGED spent,
           NEW i, NEW event, NEW reason, wire' = Signal(i, event, reason),
           event # "invite" \/ i = Len(calls) + 1
    PROVE  Together'
<1> DEFINE m == [call |-> i, event |-> event, reason |-> reason]
<1>1. wire \in Seq(Sent) /\ wire' = Append(wire, m)
  BY TypedParts DEF Signal, Kept
<1>2. m.call = i /\ m.event = event
  OBVIOUS
<1> HIDE DEF m
<1>3. \A p \in DOMAIN wire' : IF p \in DOMAIN wire THEN wire'[p] = wire[p] ELSE wire'[p] = m
  BY <1>1
<1>4. \A p \in DOMAIN wire' : wire'[p].event = "invite" =>
                \/ wire'[p].call = Len(calls) + 1
                \/ \E q \in DOMAIN wire : wire[q].event = "invite" /\ wire[q].call = wire'[p].call
  BY <1>2, <1>3
<1> QED
  BY <1>4, TogetherStays

LEMMA TogetherPeer ==
    ASSUME Typed, Together, Peer
    PROVE  Together'
<1>1. CASE PeerInvites
  <2>1. CallsAdvance
    BY <1>1, TypedPeerInvites
  <2> QED
    BY <1>1, <2>1, TogetherTells DEF PeerInvites
<1>2. ASSUME NEW i \in DOMAIN calls, PeerAccepts(i)
      PROVE  Together'
  <2>1. CallsAdvance
    BY <1>2, TypedPeerAccepts
  <2> QED
    BY <1>2, <2>1, TogetherTells DEF PeerAccepts
<1>3. ASSUME NEW i \in DOMAIN calls, PeerVanishes(i)
      PROVE  Together'
  <2>1. CallsAdvance
    BY <1>3, TypedPeerVanishes
  <2> QED
    BY <1>3, <2>1, TogetherStays DEF PeerVanishes
<1>4. ASSUME NEW i \in DOMAIN calls, NEW reason \in Reasons, PeerEnds(i, reason)
      PROVE  Together'
  <2>1. CallsAdvance
    BY <1>4, TypedPeerEnds
  <2>2. PICK event \in Events : event # "invite" /\ wire' = Signal(i, event, reason)
    BY <1>4, PeerEndsCall
  <2> QED
    BY <1>4, <2>1, <2>2, TogetherTells DEF PeerEnds
<1> QED
  BY <1>1, <1>2, <1>3, <1>4 DEF Peer

LEMMA TogetherSignalLost ==
    ASSUME Typed, Together, SignalLost
    PROVE  Together'
<1>1. wire \in Seq(Sent) /\ wire # <<>> /\ wire' = Tail(wire)
  BY TypedParts DEF Kept, SignalLost
<1>2. \A p \in DOMAIN wire' : p + 1 \in DOMAIN wire /\ wire'[p] = wire[p + 1]
  BY <1>1
<1>3. CallsAdvance
  BY TypedSignalLost
<1> QED
  BY <1>2, <1>3, TogetherStays DEF SignalLost

\* The answer to startCall changes the created call only.
LEMMA TogetherStart ==
    ASSUME Typed, Together, CallsAdvance, acts' = acts, wire' = wire, Fault \/ UNCHANGED spent,
           client' \in Clients, client.starting # "no", client'.starting # "no",
           client'.created # None => /\ client'.created \notin DOMAIN calls
                                     /\ calls'[client'.created].mine,
           client'.status = client.status, client'.call = client.call,
           client'.pending = client.pending,
           SameRoom(client, client'), SameMicrophone(client, client'),
           client'.shown = client.shown, client'.seen = client.seen
    PROVE  Together'
<1>1. client \in Clients /\ Kept /\ DOMAIN calls = 1..Len(calls) /\ Len(calls) \in Nat
  BY TypedParts
<1>2. Fits(client, calls', acts, wire)
  BY FitsStays DEF Together
<1>3. Shape(client')
  BY <1>1, <1>2, ShapeAlike DEF Fits, SameMicrophone
<1>4. StatusFits(client', calls')
  BY <1>2 DEF Fits, StatusFits
<1>5. \A a \in acts : ActHolds(a, calls'[a.call]) /\ ActFits(client', a)
  <2>1. \A a \in acts : a.call \in DOMAIN calls /\ a.call # None
    BY <1>1, RequestedFields DEF Kept
  <2> QED
    BY <1>2, <2>1 DEF Fits, ActsFit, ActFits, SameRoom
<1>6. Fits(client', calls', acts', wire')
  BY <1>2, <1>3, <1>4, <1>5 DEF Fits, ActsFit, InvitesFit
<1>7. Resting(client')
  BY DEF Together, Resting
<1>8. spent'.failures = 0 => spent.failures = 0
  BY <1>1, FailuresGrow
<1>9. MicrophoneFits(client', spent'.failures)
  BY <1>8, MicrophoneStays DEF Together
<1> QED
  BY <1>6, <1>7, <1>9 DEF Together

LEMMA TogetherServerStarts ==
    ASSUME Typed, Together, ServerStarts
    PROVE  Together'
<1>1. client \in Clients /\ Named(client) /\ calls \in Seq(Calls) /\ Len(calls) \in Nat
  BY TypedParts
<1>2. CallsAdvance /\ client' \in Clients
  BY TypedServerStarts, TypedParts DEF Typed, TypeOK
<1>3. CASE /\ calls' = Append(calls, NewCall(TRUE))
           /\ client' = [client EXCEPT !.starting = "created", !.created = Len(calls) + 1]
  <2>1. /\ calls'[Len(calls) + 1] = NewCall(TRUE) /\ DOMAIN calls = 1..Len(calls)
    BY <1>1, <1>3, CallAppended
  <2>2. NewCall(TRUE).mine
    BY DEF NewCall
  <2>3. client'.created = Len(calls) + 1 /\ client'.starting = "created"
    BY <1>1, <1>3 DEF Clients
  <2>4. /\ client'.status = client.status /\ client'.call = client.call
        /\ client'.pending = client.pending
        /\ SameRoom(client, client') /\ SameMicrophone(client, client')
        /\ client'.shown = client.shown /\ client'.seen = client.seen
    BY <1>1, <1>3 DEF Clients, SameRoom, SameMicrophone
  <2>5. /\ client'.created # None => /\ client'.created \notin DOMAIN calls
                                     /\ calls'[client'.created].mine
    <3>1. client'.created \notin DOMAIN calls
      BY <1>1, <2>1, <2>3
    <3>2. calls'[client'.created].mine
      BY <2>1, <2>2, <2>3
    <3> QED
      BY <3>1, <3>2
  <2> QED
    BY <1>2, <2>3, <2>4, <2>5, TogetherStart DEF ServerStarts
<1>4. CASE client' = [client EXCEPT !.starting = "refused"]
  <2>1. client'.created = client.created /\ client'.starting = "refused"
    BY <1>1, <1>4 DEF Clients
  <2>2. /\ client'.status = client.status /\ client'.call = client.call
        /\ client'.pending = client.pending
        /\ SameRoom(client, client') /\ SameMicrophone(client, client')
        /\ client'.shown = client.shown /\ client'.seen = client.seen
    BY <1>1, <1>4 DEF Clients, SameRoom, SameMicrophone
  <2>3. client.created = None
    BY <1>1 DEF Named, ServerStarts
  <2> QED
    BY <1>2, <2>1, <2>2, <2>3, TogetherStart DEF ServerStarts
<1> QED
  BY <1>3, <1>4 DEF ServerStarts

LEMMA TogetherStartLost ==
    ASSUME Typed, Together, StartLost
    PROVE  Together'
<1>1. client \in Clients
  BY TypedParts
<1>2. CallsAdvance /\ client' \in Clients
  BY TypedStartLost DEF Typed, TypeOK
<1>3. client' = [client EXCEPT !.starting = "failed", !.created = None]
  BY DEF StartLost
<1>4. client'.created = None /\ client'.starting = "failed"
  BY <1>1, <1>3 DEF Clients
<1>5. /\ client'.status = client.status /\ client'.call = client.call
      /\ client'.pending = client.pending
      /\ SameRoom(client, client') /\ SameMicrophone(client, client')
      /\ client'.shown = client.shown /\ client'.seen = client.seen
  BY <1>1, <1>3 DEF Clients, SameRoom, SameMicrophone
<1> QED
  BY <1>2, <1>4, <1>5, TogetherStart DEF StartLost

\* One request more, or in another stage.
LEMMA TogetherActs ==
    ASSUME Typed, Together, CallsAdvance, client' = client, wire' = wire,
           spent'.failures = 0 => spent.failures = 0,
           NEW b, acts' \subseteq acts \cup {b},
           ActHolds(b, calls'[b.call]), ActFits(client, b),
           client.status = "active" =>
                ~(b.kind = "accept" /\ b.stage = "ok" /\ b.call = client.call),
           \A p \in DOMAIN wire : wire[p].event = "invite" => b.call # wire[p].call
    PROVE  Together'
<1>1. Fits(client, calls', acts, wire)
  BY FitsStays DEF Together
<1>2. Fits(client, calls', acts \cup {b}, wire)
  BY <1>1, FitsOneMore
<1>3. Fits(client, calls', acts', wire')
  BY <1>2, FitsFewer
<1>4. MicrophoneFits(client, spent'.failures)
  BY DEF Together, MicrophoneFits
<1> QED
  BY <1>3, <1>4 DEF Together

\* The same request in another stage.
LEMMA ActStaged ==
    ASSUME NEW a \in Requested, NEW stage
    PROVE  LET b == [a EXCEPT !.stage = stage] IN
           b.kind = a.kind /\ b.call = a.call /\ b.sess = a.sess /\ b.stage = stage
BY DEF Requested

LEMMA TogetherServerActs ==
    ASSUME Typed, Together, NEW a \in acts, ServerActs(a)
    PROVE  Together'
<1>1. PICK stage \in {"ok", "gone", "refused"} :
           /\ acts' = (acts \ {a}) \cup {[a EXCEPT !.stage = stage]}
           /\ a.stage = "sent" /\ a \in Requested /\ a.call \in DOMAIN calls
           /\ \/ stage # "ok" /\ calls' = calls /\ calls[a.call].state # Wanted(a.kind)
                 /\ a.kind # "block" /\ (stage = "gone" <=> calls[a.call].state = "ended")
              \/ stage = "ok" /\ a.kind = "block" /\ calls' = calls
              \/ /\ stage = "ok" /\ a.kind # "block" /\ calls[a.call].state = Wanted(a.kind)
                 /\ \E k \in Calls :
                    /\ calls' = [calls EXCEPT ![a.call] = k]
                    /\ k.mine = calls[a.call].mine /\ k.in = calls[a.call].in
                    /\ \/ /\ a.kind = "accept" /\ k.state = "active" /\ k.by = calls[a.call].by
                          /\ k.reason = calls[a.call].reason /\ k.rang = calls[a.call].rang
                       \/ /\ a.kind # "accept" /\ k.state = "ended" /\ k.by = "me"
                          /\ k.reason = EndOf(a.kind) /\ k.rang = (calls[a.call].state = "ringing")
  BY ActsCall
<1> DEFINE b == [a EXCEPT !.stage = stage]
<1>2. b.kind = a.kind /\ b.call = a.call /\ b.sess = a.sess /\ b.stage = stage
  BY <1>1, ActStaged
<1>3. acts' = (acts \ {a}) \cup {b}
  BY <1>1
<1> HIDE DEF b
<1>4. CallsAdvance /\ calls \in Seq(Calls) /\ a.call \in DOMAIN calls
  BY <1>1, TypedServerActs, TypedParts
<1>5. Fits(client, calls, acts, wire)
  BY DEF Together
<1>6. ActHolds(a, calls[a.call]) /\ ActFits(client, a)
  BY <1>5 DEF Fits, ActsFit
<1>7. calls[a.call] \in Calls
  BY <1>4
<1>8. ActHolds(b, calls'[b.call])
  <2>1. CASE stage # "ok"
    BY <1>1, <1>2, <1>6, <1>7, <2>1 DEF ActHolds, Wanted, Calls
  <2>2. CASE a.kind = "block"
    BY <1>1, <1>2, <1>6, <2>2 DEF ActHolds, Refusing, Ending
  <2>3. CASE stage = "ok" /\ a.kind # "block"
    <3>1. PICK k \in Calls :
             /\ calls' = [calls EXCEPT ![a.call] = k] /\ k.mine = calls[a.call].mine
             /\ \/ a.kind = "accept" /\ k.state = "active"
                \/ a.kind # "accept" /\ k.state = "ended" /\ k.by = "me"
      BY <1>1, <2>3
    <3>2. calls'[a.call] = k
      BY <1>4, <3>1
    <3> QED
      BY <1>2, <1>6, <2>3, <3>1, <3>2 DEF ActHolds, Accepted, Ending
  <2> QED
    BY <2>1, <2>2, <2>3
<1>9. ActFits(client, b)
  BY <1>2, <1>6 DEF ActFits
<1>10. client.status = "active" => ~(b.kind = "accept" /\ b.stage = "ok" /\ b.call = client.call)
  <2>1. b.kind = "accept" /\ b.stage = "ok" => calls[a.call].state = "ringing"
    BY <1>1, <1>2 DEF Wanted
  <2> QED
    BY <1>2, <1>5, <2>1 DEF Fits, StatusFits, Accepted
<1>11. \A p \in DOMAIN wire : wire[p].event = "invite" => b.call # wire[p].call
  BY <1>2, <1>5 DEF Fits, InvitesFit
<1> QED
  BY <1>2, <1>3, <1>4, <1>8, <1>9, <1>10, <1>11, TogetherActs DEF ServerActs

LEMMA TogetherActLost ==
    ASSUME Typed, Together, NEW a \in acts, ActLost(a)
    PROVE  Together'
<1> DEFINE b == [a EXCEPT !.stage = "failed"]
<1>1. a \in Requested /\ Kept /\ calls \in Seq(Calls)
  BY TypedParts DEF Kept
<1>2. b.kind = a.kind /\ b.call = a.call /\ b.sess = a.sess /\ b.stage = "failed"
  BY <1>1, ActStaged
<1>3. acts' = (acts \ {a}) \cup {b} /\ calls' = calls /\ wire' = wire /\ client' = client
  BY DEF ActLost
<1> HIDE DEF b
<1>4. Fits(client, calls, acts, wire)
  BY DEF Together
<1>5. ActHolds(a, calls[a.call]) /\ ActFits(client, a)
  BY <1>4 DEF Fits, ActsFit
<1>6. ActHolds(b, calls'[b.call])
  BY <1>2, <1>3, <1>5 DEF ActHolds
<1>7. ActFits(client, b)
  BY <1>2, <1>5 DEF ActFits
<1>8. \A p \in DOMAIN wire : wire[p].event = "invite" => b.call # wire[p].call
  BY <1>2, <1>4 DEF Fits, InvitesFit
<1>9. spent'.failures = 0 => spent.failures = 0
  BY <1>1, FailuresGrow DEF ActLost
<1>10. CallsAdvance
  BY TypedActLost
<1> QED
  BY <1>2, <1>3, <1>6, <1>7, <1>8, <1>9, <1>10, TogetherActs

LEMMA TogetherAct ==
    ASSUME Typed, Together, NEW kind \in Kinds, Act(kind)
    PROVE  Together'
<1> DEFINE b == [kind |-> kind, call |-> client.call, sess |-> None, stage |-> "sent"]
<1>1. client \in Clients /\ Named(client) /\ Kept /\ calls \in Seq(Calls)
  BY TypedParts
<1>2. b.kind = kind /\ b.call = client.call /\ b.sess = None /\ b.stage = "sent"
  OBVIOUS
<1>3. acts' = acts \cup {b} /\ calls' = calls /\ wire' = wire /\ client' = client
  BY DEF Act, Same
<1> HIDE DEF b
<1>4. Fits(client, calls, acts, wire) /\ Resting(client)
  BY DEF Together
<1>5. StatusFits(client, calls)
  BY <1>4 DEF Fits
<1>6. /\ client.call # None
      /\ \/ kind = "cancel" /\ client.status = "outgoing"
         \/ kind \in {"accept", "reject", "block"} /\ client.status = "ringing"
         \/ kind = "hangup" /\ client.status = "active"
  BY <1>1 DEF Act, Offered
<1>7. ActHolds(b, calls'[b.call])
  BY <1>2, <1>3, <1>5, <1>6 DEF ActHolds, StatusFits, Accepted, Refusing, Ending
<1>8. client.created = None /\ client.session \in Nat
  BY <1>1, <1>4, <1>6, ClientFields DEF Resting, Named
<1>9. ActFits(client, b)
  BY <1>2, <1>6, <1>8 DEF ActFits
<1>10. \A p \in DOMAIN wire : wire[p].event = "invite" => b.call # wire[p].call
  BY <1>2, <1>4 DEF Fits, InvitesFit
<1>11. spent'.failures = 0 => spent.failures = 0
  BY <1>1 DEF Act, Click, Kept
<1>12. CallsAdvance
  BY TypedAct
<1> QED
  BY <1>2, <1>3, <1>7, <1>9, <1>10, <1>11, <1>12, TogetherActs

LEMMA FitsBecome ==
    ASSUME NEW c \in Clients, Become(c), NEW ks, NEW as, NEW ws, Fits(c, ks, as, ws)
    PROVE  Fits(client', ks, as, ws)
<1>1. client' \in Clients /\ Alike(c, client')
  BY BecomeFields
<1>2. Shape(client')
  BY <1>1, ShapeAlike DEF Alike, Fits, SameMicrophone
<1> QED
  BY <1>1, <1>2, FitsAlike DEF Alike, SameRoom, SameStart

\* Without a call there is little to say.
LEMMA FitsStill ==
    ASSUME NEW c \in Clients, NEW ks, NEW as, NEW ws, Fits(c, ks, as, ws), NEW d,
           c.status # "active", d.status \in {"idle", "outgoing"}, d.call = None,
           SameRoom(c, d), d.applies = c.applies, d.created = c.created,
           as \subseteq Requested, \A p \in DOMAIN ws : ws[p].call # None
    PROVE  Fits(d, ks, as, ws)
<1>1. Shape(d)
  BY ShapeStill DEF Fits
<1>2. StatusFits(d, ks)
  BY DEF Fits, StatusFits
<1>3. \A a \in as : ActHolds(a, ks[a.call]) /\ ActFits(d, a)
  BY RequestedFields DEF Fits, ActsFit, ActFits, SameRoom
<1>4. InvitesFit(d, as, ws)
  BY DEF Fits, InvitesFit
<1> QED
  BY <1>1, <1>2, <1>3, <1>4 DEF Fits, ActsFit

LEMMA TogetherStartCall ==
    ASSUME Typed, Together, StartCall
    PROVE  Together'
<1> DEFINE c == [client EXCEPT !.status = "outgoing", !.call = None, !.reason = NoReason,
                               !.starting = "posted", !.shown = None]
<1>1. client \in Clients /\ Named(client) /\ Kept
  BY TypedParts
<1>2. /\ client.status = "idle" /\ client.starting = "no" /\ Click /\ Become(c)
      /\ UNCHANGED <<acts, calls, wire>>
  BY DEF StartCall, Same
<1>3. NoReason \in Reasons \cup {NoReason} /\ None \in Nat /\ "outgoing" \in Statuses
      /\ "posted" \in {"no", "posted", "refused", "created", "failed"}
  BY DEF Statuses
<1>4. c \in Clients
  BY <1>1, <1>3, Zenon DEF Clients
<1>5. /\ c.status = "outgoing" /\ c.call = None /\ c.starting = "posted" /\ c.shown = None
      /\ c.created = client.created /\ c.pending = client.pending
      /\ SameRoom(client, c) /\ SameMicrophone(client, c)
  BY <1>1 DEF Clients, SameRoom, SameMicrophone
<1> HIDE DEF c
<1>6. Fits(client, calls, acts, wire) /\ Resting(client)
  BY DEF Together
<1>7. Fits(c, calls, acts, wire)
  BY <1>1, <1>2, <1>5, <1>6, FitsStill, WireCalls DEF Kept, SameMicrophone
<1>8. Fits(client', calls', acts', wire')
  BY <1>2, <1>4, <1>7, FitsBecome
<1>9. /\ Alike(c, client') /\ client'.seen = c.status /\ client'.shown = c.shown
  BY <1>2, <1>4, <1>5, BecomeFields
<1>10. Resting(client')
  BY <1>5, <1>6, <1>9 DEF Resting, Alike, SameStart
<1>11. client'.room = None
  BY <1>1, <1>2, <1>5, <1>6, <1>9, ShapeOutside DEF Fits, Alike, SameRoom
<1>12. MicrophoneFits(client', spent'.failures)
  BY <1>11 DEF MicrophoneFits
<1> QED
  BY <1>8, <1>10, <1>12 DEF Together

\* A change of the microphone at the end of the queue is the last word.
LEMMA MicrophoneSaid ==
    ASSUME NEW c \in Clients, NEW join \in BOOLEAN, NEW n
    PROVE  MicrophoneFits(Apply(c, join), n)
<1> DEFINE d == Apply(c, join)
           change == [rev |-> c.rev + 1, sess |-> c.session, on |-> c.pref, join |-> join]
<1>1. /\ d \in Clients /\ d.rev = c.rev + 1 /\ d.pref = c.pref /\ d.session = c.session
      /\ d.applies = Append(c.applies, change)
  BY ApplyFields DEF SameRoom
<1>2. change.rev = c.rev + 1 /\ change.sess = c.session /\ change.on = c.pref
  OBVIOUS
<1> SUFFICES MicrophoneFits(d, n)
  OBVIOUS
<1> HIDE DEF d, change
<1>3. c.applies \in Seq(Applies)
  BY ClientFields
<1>4. d.applies # <<>> /\ d.applies[Len(d.applies)] = change
  BY <1>1, <1>3
<1> QED
  BY <1>1, <1>2, <1>4 DEF MicrophoneFits

LEMMA TogetherTogglePreference ==
    ASSUME Typed, Together, TogglePreference
    PROVE  Together'
<1> DEFINE c == [client EXCEPT !.pref = ~@]
           e == Apply(c, FALSE)
<1>1. client \in Clients /\ Kept
  BY TypedParts
<1>2. /\ UNCHANGED <<acts, calls, wire>>
      /\ client' = IF c.room # None /\ c.status = "active" THEN e ELSE c
  BY DEF TogglePreference, Same
<1>3. c \in Clients
  <2>1. (~client.pref) \in BOOLEAN
    OBVIOUS
  <2> QED
    BY <1>1, <2>1, ZenonT(40) DEF Clients
<1>4. /\ c.status = client.status /\ c.call = client.call /\ SameStart(client, c)
      /\ SameRoom(client, c) /\ SameExperience(client, c) /\ c.applies = client.applies
  BY <1>1 DEF Clients, SameRoom, SameStart, SameExperience
<1> HIDE DEF c
<1>5. /\ e.status = c.status /\ e.call = c.call /\ SameRoom(c, e) /\ SameStart(c, e)
      /\ SameExperience(c, e)
  BY <1>3, ApplyFields
<1>6. MicrophoneFits(e, spent'.failures)
  BY <1>3, MicrophoneSaid
<1>7. Fits(client, calls, acts, wire) /\ Resting(client)
  BY DEF Together
<1>8. Shape(c)
  BY <1>1, <1>4, <1>7, ShapeAlike DEF Fits
<1>9. Fits(c, calls, acts, wire)
  BY <1>4, <1>7, <1>8, FitsAlike DEF SameRoom, SameStart
<1>10. Shape(e)
  BY <1>3, <1>8, ShapeApply
<1>11. Fits(e, calls, acts, wire)
  BY <1>5, <1>9, <1>10, FitsAlike DEF SameRoom, SameStart
<1>12. Resting(c) /\ Resting(e)
  BY <1>4, <1>5, <1>7 DEF Resting, SameStart, SameExperience
<1>13. CASE c.room # None /\ c.status = "active"
  BY <1>2, <1>6, <1>11, <1>12, <1>13 DEF Together
<1>14. CASE ~(c.room # None /\ c.status = "active")
  <2>1. c.room = None
    BY <1>8, <1>14 DEF Shape, RoomFits
  <2>2. MicrophoneFits(c, spent'.failures)
    BY <2>1 DEF MicrophoneFits
  <2> QED
    BY <1>2, <1>9, <1>12, <1>14, <2>2 DEF Together
<1> QED
  BY <1>13, <1>14

LEMMA TogetherReconnecting ==
    ASSUME Typed, Together, NEW on \in BOOLEAN, Reconnecting(on)
    PROVE  Together'
<1>1. client \in Clients /\ Kept
  BY TypedParts
<1>2. client' = [client EXCEPT !.reconnecting = on] /\ UNCHANGED <<acts, calls, wire>>
  BY DEF Reconnecting, Same
<1>3. /\ client'.status = client.status /\ client'.call = client.call /\ SameStart(client, client')
      /\ SameRoom(client, client') /\ SameMicrophone(client, client')
      /\ SameExperience(client, client')
  BY <1>1, <1>2 DEF Clients, SameRoom, SameStart, SameExperience, SameMicrophone
<1>4. Shape(client')
  BY <1>1, <1>3, ShapeAlike DEF Together, Fits, SameMicrophone
<1>5. Fits(client', calls', acts', wire')
  BY <1>2, <1>3, <1>4, FitsAlike DEF Together, SameRoom, SameStart
<1>6. Resting(client')
  BY <1>3 DEF Together, Resting, SameStart, SameExperience
<1>7. spent'.failures = 0 => spent.failures = 0
  BY <1>1, FailuresGrow DEF Reconnecting
<1>8. MicrophoneFits(client', spent'.failures)
  BY <1>3, <1>7, MicrophoneStays DEF Together
<1> QED
  BY <1>5, <1>6, <1>8 DEF Together

LEMMA TogetherStartRefused ==
    ASSUME Typed, Together, NEW reason \in Reasons \cup {NoReason},
           client.starting \in {"refused", "failed"}, Become(StartRefused(client, reason)),
           UNCHANGED <<acts, calls, wire, spent>>
    PROVE  Together'
<1> DEFINE d == StartRefused(client, reason)
<1>1. client \in Clients /\ Named(client) /\ Kept
  BY TypedParts
<1>2. Fits(client, calls, acts, wire) /\ Resting(client)
  BY DEF Together
<1>3. /\ d \in Clients /\ d.status = "idle" /\ d.call = None
      /\ d.starting = "no" /\ d.created = client.created /\ d.pending = <<>>
      /\ d.applies = client.applies /\ SameRoom(client, d) /\ SameExperience(client, d)
  BY <1>1, StartRefusedFields
<1>4. Become(d)
  OBVIOUS
<1> HIDE DEF d
<1>5. client.status = "outgoing"
  BY <1>2 DEF Resting
<1>6. Fits(d, calls, acts, wire)
  BY <1>1, <1>2, <1>3, <1>5, FitsStill, WireCalls DEF Kept
<1>7. Fits(client', calls', acts', wire')
  BY <1>3, <1>4, <1>6, FitsBecome
<1>8. Alike(d, client') /\ client'.seen = d.status
  BY <1>3, <1>4, BecomeFields
<1>9. Resting(client')
  BY <1>3, <1>8 DEF Resting, Alike, SameStart
<1>10. client'.room = None
  BY <1>1, <1>2, <1>3, <1>5, <1>8, ShapeOutside DEF Fits, Alike, SameRoom
<1>11. MicrophoneFits(client', spent'.failures)
  BY <1>10 DEF MicrophoneFits
<1> QED
  BY <1>7, <1>9, <1>11 DEF Together

\* What is so of the client while the pending signals are handled, in the call
\* that was created.
Replaying(b, d) ==
    /\ d \in Clients /\ SameStart(b, d) /\ d.crossed = "no" /\ d.room = None
    /\ Fits(d, calls, acts, wire)
    /\ d.status = "outgoing" => d.call # None

LEMMA BegunReplays ==
    ASSUME Typed, ServerFits, Together, client.created # None, client.crossed = "no"
    PROVE  Replaying(Begun(client, client.created), Begun(client, client.created))
<1> DEFINE b == Begun(client, client.created)
<1>1. client \in Clients /\ Named(client) /\ calls \in Seq(Calls) /\ client.created \in Nat
  BY TypedParts, ClientFields
<1>2. Fits(client, calls, acts, wire) /\ Resting(client)
  BY DEF Together
<1>3. client.status = "outgoing" /\ client.call = None /\ client.room = None
  BY <1>1, <1>2, ShapeOutside DEF Resting, Named, Fits
<1>4. /\ b \in Clients /\ b.call = client.created /\ b.pending = <<>> /\ b.status = client.status
      /\ b.created = client.created /\ b.crossed = client.crossed
      /\ SameRoom(client, b) /\ SameMicrophone(client, b)
  BY <1>1, BegunFields
<1> HIDE DEF b
<1>5. Shape(b)
  BY <1>1, <1>2, <1>3, <1>4, ShapeStill DEF Fits, SameMicrophone
<1>6. StatusFits(b, calls)
  BY <1>2, <1>3, <1>4 DEF Fits, StatusFits
<1>7. \A a \in acts : ActHolds(a, calls[a.call]) /\ ActFits(b, a)
  BY <1>2, <1>3, <1>4 DEF Fits, ActsFit, ActFits, SameRoom
<1>8. ActsFit(b, calls, acts)
  BY <1>3, <1>4, <1>7 DEF ActsFit
<1>9. InvitesFit(b, acts, wire)
  <2>1. ASSUME NEW p \in DOMAIN wire, wire[p].event = "invite"
        PROVE  client.created # wire[p].call
    <3>1. SignalHolds(calls[wire[p].call], Told(p)) /\ Told(p).type = "invite"
      BY <2>1, ToldFacts DEF ServerFits, SignalsFit
    <3>2. ~calls[wire[p].call].mine
      BY <3>1 DEF SignalHolds
    <3> QED
      BY <1>2, <3>2 DEF Fits, StatusFits
  <2> QED
    BY <1>2, <1>4, <2>1 DEF Fits, InvitesFit
<1>10. Fits(b, calls, acts, wire)
  BY <1>5, <1>6, <1>8, <1>9 DEF Fits
<1>11. Replaying(b, b)
  BY <1>3, <1>4, <1>10 DEF Replaying, SameStart, SameRoom
<1> QED
  BY <1>11 DEF b

LEMMA HandledReplays ==
    ASSUME Typed, ServerFits, ~Invited(client), NEW b, NEW d, Replaying(b, d),
           NEW p \in DOMAIN client.pending
    PROVE  /\ HandleSignal(d, client.pending[p]) = Handled(d, client.pending[p])
           /\ Replaying(b, Handled(d, client.pending[p]))
<1> DEFINE s == client.pending[p]
           f == Handled(d, s)
<1>1. Kept /\ None \notin DOMAIN calls
  BY TypedParts
<1>2. s \in Signals /\ s.call # None
  BY <1>1, PendingFacts
<1>3. s.type # "invite" /\ SignalHolds(calls[s.call], s)
  BY DEF ServerFits, SignalsFit, Invited
<1> HIDE DEF s
<1>4. /\ acts \subseteq Requested /\ \A q \in DOMAIN wire : wire[q].call # None
      /\ d \in Clients /\ Fits(d, calls, acts, wire) /\ d.room = None /\ d.crossed = "no"
      /\ SameStart(b, d)
      /\ d.status = "outgoing" => d.call # None
  BY <1>1, WireCalls DEF Kept, Replaying
<1>5. HandleSignal(d, s) = f
  BY <1>4 DEF HandleSignal
<1>6. f \in Clients /\ SameStart(d, f)
  BY <1>2, <1>4, HandledFields
<1>7. s.type = "invite" =>
          /\ d.call # s.call
          /\ \A a \in acts : a.call # s.call
          /\ \A q \in DOMAIN wire : wire[q].event = "invite" => wire[q].call # s.call
  BY <1>3
<1>8. /\ Fits(f, calls, acts, wire)
      /\ f.room = None \/ (SameRoom(d, f) /\ SameMicrophone(d, f))
      /\ f.status = "outgoing" => d.status = "outgoing" /\ f.call = d.call
  BY <1>2, <1>3, <1>4, <1>7, FitsHandled
<1>10. f.crossed = "no"
  BY <1>2, <1>3, <1>4, HandledUncrossed
<1> HIDE DEF f
<1>9. Replaying(b, f)
  BY <1>3, <1>4, <1>6, <1>8, <1>10 DEF Replaying, SameStart, SameRoom
<1> QED
  BY <1>5, <1>9 DEF s, f

\* So it is when all of them are handled.
LEMMA FitsReplayed ==
    ASSUME Typed, ServerFits, Together, client.created # None, ~Invited(client), client.crossed = "no"
    PROVE  LET e == Replayed(Begun(client, client.created), client.pending) IN
           /\ e \in Clients /\ Fits(e, calls, acts, wire) /\ e.room = None /\ e.crossed = "no"
           /\ e.created = client.created /\ e.pending = <<>>
           /\ e.status = "outgoing" => e.call # None
<1> DEFINE b == Begun(client, client.created)
           G == {d \in Clients : Replaying(b, d)}
           Good == [n \in Nat |-> G]
<1>1. client \in Clients /\ client.pending \in Seq(Signals) /\ client.created \in Nat
  BY TypedParts, ClientFields
<1>2. Len(client.pending) \in Nat /\ DOMAIN client.pending = 1..Len(client.pending)
  BY <1>1
<1>3. b.pending = <<>> /\ b.created = client.created
  BY <1>1, BegunFields
<1>4. b \in Good[0]
  BY BegunReplays DEF Replaying
<1> HIDE DEF b
<1>5. \A n \in 1..Len(client.pending) : \A d \in G : HandleSignal(d, client.pending[n]) \in G
  BY <1>2, HandledReplays DEF Replaying
<1>6. \A n \in 1..Len(client.pending) : \A d \in Good[n - 1] :
          HandleSignal(d, client.pending[n]) \in Good[n]
  BY <1>2, <1>5
<1> HIDE DEF Good
<1>7. Replayed(b, client.pending) \in Good[Len(client.pending)]
  BY <1>2, <1>4, <1>6, ReplayKeeps
<1>8. Replayed(b, client.pending) \in G
  BY <1>2, <1>7 DEF Good
<1> QED
  BY <1>8, <1>3 DEF Replaying, b, SameStart

LEMMA TogetherStartCreated ==
    ASSUME Typed, ServerFits, Together, client.created # None, client.crossed = "no", client'.crossed = "no",
           Become(StartCreated(client, client.created)), UNCHANGED <<acts, calls, wire, spent>>
    PROVE  Together'
<1> DEFINE e == Replayed(Begun(client, client.created), client.pending)
           d == StartCreated(client, client.created)
<1>1. client \in Clients /\ Named(client) /\ Kept /\ calls \in Seq(Calls)
  BY TypedParts
<1>2. client.created \in Nat /\ e \in Clients
  BY <1>1, ClientFields, NamedReplayed
<1>3. /\ d \in Clients /\ d.starting = "no" /\ d.created = None
      /\ d.crossed = Beside(e.crossed, Invited(client))
      /\ d.pending = e.pending /\ d.status = e.status /\ d.call = e.call
      /\ SameRoom(e, d) /\ SameMicrophone(e, d)
  BY <1>1, <1>2, StartCreatedFields
<1>4. Become(d)
  OBVIOUS
<1> HIDE DEF d
<1>5. Alike(d, client') /\ client'.seen = d.status /\ client'.shown = IF d.call # None THEN d.call ELSE d.shown
  BY <1>3, <1>4, BecomeFields
<1>6. ~Invited(client)
  BY <1>3, <1>5 DEF Alike, Beside
<1>7. /\ Fits(e, calls, acts, wire) /\ e.room = None
      /\ e.created = client.created /\ e.pending = <<>>
      /\ e.status = "outgoing" => e.call # None
  BY <1>6, FitsReplayed
<1> HIDE DEF e
<1>8. Fits(d, calls, acts, wire)
  <2>1. Shape(d)
    BY <1>2, <1>3, <1>7, ShapeAlike DEF Fits, SameMicrophone
  <2>2. \A a \in acts : a.call # None
    BY <1>1, RequestedFields DEF Kept
  <2>3. StatusFits(d, calls)
    BY <1>3, <1>7 DEF Fits, StatusFits
  <2>4. ActsFit(d, calls, acts)
    BY <1>3, <1>7, <2>2 DEF Fits, ActsFit, ActFits, SameRoom
  <2>5. InvitesFit(d, acts, wire)
    BY <1>3, <1>7 DEF Fits, InvitesFit
  <2> QED
    BY <2>1, <2>3, <2>4, <2>5 DEF Fits
<1>9. Fits(client', calls', acts', wire')
  BY <1>3, <1>4, <1>8, FitsBecome
<1>10. Resting(client')
  BY <1>3, <1>5, <1>7 DEF Resting, Alike, SameStart
<1>11. MicrophoneFits(client', spent'.failures)
  BY <1>3, <1>5, <1>7 DEF MicrophoneFits, Alike, SameRoom
<1> QED
  BY <1>9, <1>10, <1>11 DEF Together

LEMMA TogetherStartAnswered ==
    ASSUME Typed, ServerFits, Together, StartAnswered, client.crossed = "no", client'.crossed = "no"
    PROVE  Together'
<1>1. Named(client) /\ UNCHANGED <<acts, calls, wire, spent>>
  BY TypedParts DEF StartAnswered, Same
<1>2. CASE client.starting = "created"
  <2>1. client.created # None /\ Become(StartCreated(client, client.created))
    BY <1>1, <1>2 DEF StartAnswered, Named
  <2> QED
    BY <1>1, <2>1, TogetherStartCreated
<1>3. CASE client.starting = "refused"
  <2>1. PICK r \in Refusals : Become(StartRefused(client, r))
    BY <1>3 DEF StartAnswered
  <2>2. r \in Reasons \cup {NoReason}
    BY DEF Reasons
  <2> QED
    BY <1>1, <1>3, <2>1, <2>2, TogetherStartRefused
<1>4. CASE client.starting = "failed"
  BY <1>1, <1>4, TogetherStartRefused DEF StartAnswered
<1> QED
  BY <1>2, <1>3, <1>4 DEF StartAnswered

\* The first signal's invitation is no other's.
LEMMA InvitesLess ==
    ASSUME Typed, ServerFits, NEW c, InvitesFit(c, acts, wire), wire # <<>>, wire' = Tail(wire)
    PROVE  /\ InvitesFit(c, acts, wire')
           /\ Told(1).type = "invite" =>
                /\ c.call # Told(1).call
                /\ \A a \in acts : a.call # Told(1).call
                /\ \A p \in DOMAIN wire' : wire'[p].event = "invite" => wire'[p].call # Told(1).call
<1>1. wire \in Seq(Sent)
  BY TypedParts DEF Kept
<1>2. \A p \in DOMAIN wire' : p \in Nat /\ p + 1 \in DOMAIN wire /\ wire'[p] = wire[p + 1] /\ 1 < p + 1
  BY <1>1
<1>3. 1 \in DOMAIN wire
  BY <1>1
<1>4. Told(1).call = wire[1].call /\ (Told(1).type = "invite" <=> wire[1].event = "invite")
  BY <1>3, ToldFacts
<1>5. InvitesFit(c, acts, wire')
  BY <1>2 DEF InvitesFit
<1>6. ASSUME NEW p \in DOMAIN wire', wire'[p].event = "invite"
      PROVE  wire'[p].call # Told(1).call
  <2>1. p + 1 \in DOMAIN wire /\ wire'[p] = wire[p + 1] /\ 1 < p + 1
    BY <1>2
  <2> DEFINE q == p + 1
  <2>2. q \in DOMAIN wire /\ wire'[p] = wire[q] /\ 1 < q
    BY <2>1
  <2> HIDE DEF q
  <2>3. Told(q).type = "invite" /\ Told(q).call = wire[q].call
    BY <1>6, <2>2, ToldFacts
  <2>4. InOrder(Told(1), Told(q))
    BY <1>3, <2>2 DEF ServerFits, SignalsFit
  <2> QED
    BY <2>2, <2>3, <2>4 DEF InOrder
<1> QED
  BY <1>3, <1>4, <1>5, <1>6 DEF InvitesFit

LEMMA TogetherDeliverSignal ==
    ASSUME Typed, ServerFits, Together, DeliverSignal, client.crossed = "no", client'.crossed = "no"
    PROVE  Together'
<1> DEFINE s == Told(1)
<1>1. client \in Clients /\ Named(client) /\ Kept /\ calls \in Seq(Calls)
  BY TypedParts
<1>2. /\ wire # <<>> /\ wire' = Tail(wire) /\ UNCHANGED <<acts, calls, spent>>
      /\ Become(HandleSignal(client, s))
  BY DEF DeliverSignal, Told
<1>3. wire \in Seq(Sent) /\ 1 \in DOMAIN wire
  BY <1>1, <1>2 DEF Kept
<1>4. s \in Signals /\ s.call \in DOMAIN calls /\ s.call # None /\ SignalHolds(calls[s.call], s)
  BY <1>1, <1>3, ToldFacts DEF ServerFits, SignalsFit
<1>5. Fits(client, calls, acts, wire) /\ Resting(client)
  BY DEF Together
<1>6. /\ InvitesFit(client, acts, wire')
      /\ s.type = "invite" =>
            /\ client.call # s.call
            /\ \A a \in acts : a.call # s.call
            /\ \A p \in DOMAIN wire' : wire'[p].event = "invite" => wire'[p].call # s.call
  BY <1>2, <1>5, InvitesLess DEF Fits
<1> HIDE DEF s
<1>7. Fits(client, calls, acts, wire')
  BY <1>5, <1>6 DEF Fits
<1>8. \A p \in DOMAIN wire' : wire'[p].call # None
  <2>1. \A p \in DOMAIN wire' : p + 1 \in DOMAIN wire /\ wire'[p] = wire[p + 1]
    BY <1>2, <1>3
  <2> QED
    BY <1>1, <2>1, WireCalls
<1>9. CASE Waits(client)
  <2> DEFINE d == HandleSignal(client, s)
  <2>1. /\ d \in Clients /\ d.status = client.status /\ d.call = client.call
        /\ d.starting = client.starting /\ d.created = client.created
        /\ SameRoom(client, d) /\ SameMicrophone(client, d) /\ SameExperience(client, d)
    BY <1>1, <1>4, <1>9, WaitingFields
  <2>2. Become(d)
    BY <1>2
  <2> HIDE DEF d
  <2>3. Shape(d)
    BY <1>1, <1>7, <2>1, ShapeAlike DEF Fits, SameMicrophone
  <2>4. Fits(d, calls, acts, wire')
    BY <1>7, <2>1, <2>3, FitsAlike DEF SameRoom
  <2>5. Fits(client', calls', acts', wire')
    BY <1>2, <2>1, <2>2, <2>4, FitsBecome
  <2>6. Alike(d, client') /\ client'.seen = d.status /\ client'.shown = IF d.call # None THEN d.call ELSE d.shown
    BY <2>1, <2>2, BecomeFields
  <2>7. Resting(client')
    BY <1>5, <1>9, <2>1, <2>6 DEF Resting, Alike, SameStart, SameExperience, Waits
  <2>8. MicrophoneFits(client', spent'.failures)
    <3>1. SameRoom(client, client') /\ SameMicrophone(client, client')
      BY <2>1, <2>6 DEF Alike, SameRoom, SameMicrophone
    <3> QED
      BY <1>2, <3>1, MicrophoneStays DEF Together
  <2> QED
    BY <2>5, <2>7, <2>8 DEF Together
<1>10. CASE ~Waits(client)
  <2> DEFINE d == Handled(client, s)
  <2>1. d \in Clients /\ SameStart(client, d) /\ SameExperience(client, d)
    BY <1>1, <1>4, HandledFields
  <2>2. /\ Fits(d, calls, acts, wire')
        /\ d.room = None \/ (SameRoom(client, d) /\ SameMicrophone(client, d))
        /\ d.status = "outgoing" => client.status = "outgoing" /\ d.call = client.call
    <3>1. acts \subseteq Requested
      BY <1>1 DEF Kept
    <3>2. s.type = "invite" =>
            /\ client.call # s.call
            /\ \A a \in acts : a.call # s.call
            /\ \A p \in DOMAIN wire' : wire'[p].event = "invite" => wire'[p].call # s.call
      BY <1>6
    <3> QED
      BY <1>1, <1>4, <1>7, <1>8, <3>1, <3>2, FitsHandled, Z3T(60)
  <2>3. Become(d)
    BY <1>2, <1>10 DEF HandleSignal, Waits
  <2> HIDE DEF d
  <2>4. Fits(client', calls', acts', wire')
    BY <1>2, <2>1, <2>2, <2>3, FitsBecome
  <2>5. Alike(d, client') /\ client'.seen = d.status /\ client'.shown = IF d.call # None THEN d.call ELSE d.shown
    BY <2>1, <2>3, BecomeFields
  <2>6. Resting(client')
    BY <1>5, <1>10, <2>1, <2>2, <2>5 DEF Resting, Alike, SameStart, SameExperience, Waits
  <2>7. MicrophoneFits(client', spent'.failures)
    <3>1. client'.room = None \/ (SameRoom(client, client') /\ SameMicrophone(client, client'))
      BY <2>2, <2>5 DEF Alike, SameRoom, SameMicrophone
    <3> QED
      BY <1>2, <3>1, MicrophoneStays DEF Together
  <2> QED
    BY <2>4, <2>6, <2>7 DEF Together
<1> QED
  BY <1>9, <1>10

\* The session has ended, or begins.
LEMMA TogetherBecomes ==
    ASSUME NEW d \in Clients, Become(d), Fits(d, calls', acts', wire'), d.room = None,
           d.starting = "no", d.pending = <<>>, d.status # "outgoing"
    PROVE  Together'
<1>1. Fits(client', calls', acts', wire')
  BY FitsBecome
<1>2. Alike(d, client') /\ client'.seen = d.status /\ client'.shown = IF d.call # None THEN d.call ELSE d.shown
  BY BecomeFields
<1>3. Resting(client')
  BY <1>2 DEF Resting, Alike, SameStart
<1>4. MicrophoneFits(client', spent'.failures)
  BY <1>2 DEF MicrophoneFits, Alike, SameRoom
<1> QED
  BY <1>1, <1>3, <1>4 DEF Together

\* The client ends its session, with requests that fit.
LEMMA TogetherEnds ==
    ASSUME NEW c \in Clients, NEW reason \in Reasons, Fits(c, calls', acts', wire'),
           acts' \subseteq Requested, \A p \in DOMAIN wire' : wire'[p].call # None,
           c.starting = "no", c.pending = <<>>,
           NEW d \in Clients, Become(d), Shape(d), d.status = "idle", d.call = None,
           d.session = c.session + 1, d.room = None, SameStart(c, d)
    PROVE  Together'
<1>1. Fits(d, calls', acts', wire')
  BY FitsEnd DEF SameStart
<1> QED
  BY <1>1, TogetherBecomes DEF SameStart

\* An answer is taken; a block goes on to reject.
LEMMA FitsAnswered ==
    ASSUME Typed, Together, NEW a \in acts, ActAnswered(a)
    PROVE  /\ Fits(client, calls, acts', wire) /\ acts' \subseteq Requested
           /\ \A b \in acts' : b.stage # "sent" => b \in acts /\ b # a
<1>1. /\ a \in Requested /\ acts \subseteq Requested
  BY TypedParts DEF Kept
<1>2. Fits(client, calls, acts, wire)
  BY DEF Together
<1>3. CASE a.kind = "block" /\ a.stage = "ok"
  <2> DEFINE b == [a EXCEPT !.kind = "rejectBlocked", !.stage = "sent"]
  <2>1. acts' = (acts \ {a}) \cup {b}
    BY <1>3 DEF ActAnswered
  <2>2. b \in Requested /\ b.kind = "rejectBlocked" /\ b.stage = "sent" /\ b.call = a.call /\ b.sess = a.sess
    BY <1>1 DEF Requested, Kinds
  <2> HIDE DEF b
  <2>3. ActHolds(a, calls[a.call]) /\ ActFits(client, a)
    BY <1>2 DEF Fits, ActsFit
  <2>4. ActHolds(b, calls[b.call]) /\ ActFits(client, b)
    BY <1>3, <2>2, <2>3 DEF ActHolds, ActFits, Refusing, Ending
  <2>5. \A p \in DOMAIN wire : wire[p].event = "invite" => b.call # wire[p].call
    BY <1>2, <2>2 DEF Fits, InvitesFit
  <2>6. Fits(client, calls, acts \cup {b}, wire)
    BY <1>2, <2>2, <2>4, <2>5, FitsOneMore
  <2>7. acts' \subseteq acts \cup {b}
    BY <2>1
  <2>8. Fits(client, calls, acts', wire)
    BY <2>6, <2>7, FitsFewer
  <2> QED
    BY <1>1, <2>1, <2>2, <2>8
<1>4. CASE ~(a.kind = "block" /\ a.stage = "ok")
  <2>1. acts' = acts \ {a}
    BY <1>4 DEF ActAnswered
  <2>2. acts' \subseteq acts
    BY <2>1
  <2>3. Fits(client, calls, acts', wire)
    BY <1>2, <2>2, FitsFewer
  <2> QED
    BY <1>1, <2>1, <2>3
<1> QED
  BY <1>3, <1>4

LEMMA TogetherAccepts ==
    ASSUME Typed, Together, NEW a \in acts, ActAnswered(a), Accepts(a), client'.crossed = "no"
    PROVE  Together'
<1> DEFINE c == Crossing(client, Crossed(client, a, "over"))
           d == JoinRoom([c EXCEPT !.status = "active"])
<1>1. client \in Clients /\ Kept /\ a \in Requested
  BY TypedParts DEF Kept
<1>2. /\ Fits(client, calls, acts, wire) /\ Resting(client)
      /\ Fits(client, calls, acts', wire) /\ acts' \subseteq Requested
      /\ \A b \in acts' : b.stage # "sent" => b \in acts /\ b # a
  BY FitsAnswered DEF Together
<1>3. a.kind = "accept" /\ a.stage = "ok" /\ Become(d) /\ UNCHANGED <<calls, wire, spent>>
  BY DEF Accepts, ActAnswered, Same
<1>4. /\ c \in Clients /\ c.crossed = Crossed(client, a, "over")
      /\ c.status = client.status /\ c.call = client.call
      /\ SameRoom(client, c) /\ SameMicrophone(client, c) /\ SameStart(client, c)
  <2>1. Crossed(client, a, "over") \in Crossings
    BY <1>1, CrossingTypes
  <2> QED
    BY <1>1, <2>1, CrossingFields
<1> HIDE DEF c
<1>5. /\ d \in Clients /\ d.status = "active" /\ d.call = c.call /\ d.crossed = c.crossed
      /\ d.room = c.room /\ SameStart(c, d)
      /\ c.call # None => d.session = c.session + 1
  BY <1>4, JoinRoomFields
<1>6. client.call = a.call /\ a.call # None
  BY <1>1, <1>3, <1>4, <1>5, BecomeFields, RequestedFields, CrossingTypes DEF Alike
<1>7. ActHolds(a, calls[a.call])
  BY <1>2 DEF Fits, ActsFit
<1>8. ~calls[a.call].mine /\ Accepted(calls[a.call])
  BY <1>3, <1>7 DEF ActHolds, Refusing
<1>9. client.status # "active"
  BY <1>2, <1>3, <1>6 DEF Fits, ActsFit, Answered
<1>10. client.status # "outgoing"
  BY <1>2, <1>6, <1>8 DEF Fits, StatusFits
<1>11. client.starting = "no" /\ client.pending = <<>>
  BY <1>2, <1>6 DEF Resting
<1>12. Fits(c, calls, acts', wire)
  <2>1. Shape(c)
    BY <1>1, <1>2, <1>4, ShapeAlike DEF Fits, SameMicrophone
  <2> QED
    BY <1>2, <1>4, <2>1, FitsAlike DEF SameRoom, SameStart
<1>13. ~Answered(acts', "accept", c.call)
  <2> SUFFICES ASSUME NEW b \in acts', b.kind = "accept", b.call = c.call, b.stage = "ok"
               PROVE  FALSE
    BY DEF Answered
  <2>1. b \in acts /\ b # a
    BY <1>2
  <2>2. ActHolds(b, calls[b.call])
    BY <1>2, <2>1 DEF Fits, ActsFit
  <2>3. b.sess = None /\ a.sess = None
    BY <1>3, <1>7, <2>2 DEF ActHolds
  <2>4. b \in Requested
    BY <1>2
  <2>5. b = a
    BY <1>1, <1>3, <1>4, <1>6, <2>3, <2>4, RequestedFields
  <2> QED
    BY <2>1, <2>5
<1>14. Shape(d) /\ c.room = None
  BY <1>4, <1>6, <1>9, <1>12, ShapeJoin, ShapeOutside DEF Fits
<1> HIDE DEF d
<1>15. Fits(d, calls, acts', wire)
  BY <1>2, <1>4, <1>5, <1>6, <1>8, <1>9, <1>12, <1>13, <1>14, FitsJoin DEF SameStart
<1> QED
  BY <1>3, <1>4, <1>5, <1>11, <1>14, <1>15, TogetherBecomes DEF SameStart

LEMMA TogetherEndsWith ==
    ASSUME Typed, Together, NEW a \in acts, ActAnswered(a), client'.crossed = "no",
           NEW reason \in Reasons, NEW crossed \in Crossings, EndsWith(a, reason, crossed)
    PROVE  Together'
<1> DEFINE e == EndSession(client, reason)
           d == Crossing(e, crossed)
<1>1. client \in Clients /\ Kept /\ a \in Requested
  BY TypedParts DEF Kept
<1>2. /\ Fits(client, calls, acts', wire) /\ acts' \subseteq Requested /\ Resting(client)
  BY FitsAnswered DEF Together
<1>3. Become(d) /\ UNCHANGED <<calls, wire, spent>>
  BY DEF EndsWith, ActAnswered, Same
<1>4. Shape(e)
  BY <1>1, <1>2, ShapeEnd DEF Fits
<1>5. /\ e \in Clients /\ e.status = "idle" /\ e.call = None /\ e.session = client.session + 1
      /\ e.room = None /\ SameStart(client, e)
  BY <1>1, EndSessionFields
<1> HIDE DEF e
<1>6. /\ d \in Clients /\ d.crossed = crossed /\ d.status = e.status /\ d.call = e.call
      /\ SameRoom(e, d) /\ SameMicrophone(e, d) /\ SameStart(e, d)
  BY <1>5, CrossingFields
<1> HIDE DEF d
<1>7. (client.call = a.call /\ a.call # None) \/ client.status = "idle"
  BY <1>1, <1>3, <1>6, BecomeFields, RequestedFields, CrossingTypes DEF Alike, EndsWith
<1>8. client.starting = "no" /\ client.pending = <<>>
  BY <1>2, <1>7 DEF Resting
<1>9. Shape(d)
  BY <1>4, <1>5, <1>6, ShapeAlike DEF SameMicrophone
<1>10. \A p \in DOMAIN wire : wire[p].call # None
  BY <1>1, WireCalls
<1> QED
  BY <1>1, <1>2, <1>3, <1>5, <1>6, <1>8, <1>9, <1>10, TogetherEnds DEF SameRoom, SameStart

LEMMA TogetherHangsUp ==
    ASSUME Typed, Together, NEW a \in acts, ActAnswered(a), HangsUp(a)
    PROVE  Together'
<1> DEFINE c == LeftBy(client, a.sess)
           d == EndSession(c, "disconnected")
<1>1. client \in Clients /\ Kept /\ a \in Requested
  BY TypedParts DEF Kept
<1>2. /\ Fits(client, calls, acts, wire) /\ Resting(client)
      /\ Fits(client, calls, acts', wire) /\ acts' \subseteq Requested
  BY FitsAnswered DEF Together
<1>3. /\ UNCHANGED <<calls, wire, spent>> /\ a.sess # None
      /\ IF a.sess = client.session THEN Become(d) ELSE client' = c
  BY DEF HangsUp, ActAnswered, Same
<1>4. "disconnected" \in Reasons
  BY DEF Reasons
<1>5. /\ c \in Clients /\ c.joins = {j \in client.joins : j.sess # a.sess}
      /\ c.session = client.session /\ c.room = client.room /\ c.rooms = client.rooms
      /\ c.status = client.status /\ c.call = client.call
      /\ SameMicrophone(client, c) /\ SameStart(client, c) /\ SameExperience(client, c)
  BY <1>1, LeftByFields
<1>6. Shape(IF a.sess = client.session THEN d ELSE c)
  BY <1>1, <1>2, <1>4, ShapeHungUp DEF Fits
<1> HIDE DEF c
<1>7. /\ d \in Clients /\ d.status = "idle" /\ d.call = None /\ d.session = c.session + 1
      /\ d.room = None /\ SameStart(c, d)
  BY <1>4, <1>5, EndSessionFields
<1> HIDE DEF d
<1>8. CASE a.sess = client.session
  <2>1. ActFits(client, a)
    BY <1>2 DEF Fits, ActsFit
  <2>2. client.starting = "no" /\ client.pending = <<>>
    BY <1>2, <1>3, <1>8, <2>1 DEF ActFits, Resting
  <2>3. \A p \in DOMAIN wire : wire[p].call # None
    BY <1>1, WireCalls
  <2>4. Shape(d) /\ Become(d) /\ SameStart(client, d) /\ d.session = client.session + 1
    BY <1>3, <1>5, <1>6, <1>7, <1>8 DEF SameStart
  <2> QED
    BY <1>1, <1>2, <1>3, <1>4, <1>7, <2>2, <2>3, <2>4, TogetherEnds
<1>9. CASE a.sess # client.session
  <2>1. client' = c /\ Shape(c)
    BY <1>3, <1>6, <1>9
  <2>2. Fits(client', calls', acts', wire')
    BY <1>2, <1>3, <1>5, <2>1, FitsAlike DEF SameStart
  <2>3. Resting(client')
    BY <1>2, <1>5, <2>1 DEF Resting, SameStart, SameExperience
  <2>4. MicrophoneFits(client', spent'.failures)
    BY <1>3, <1>5, <1>9, <2>1 DEF Together, MicrophoneFits, SameMicrophone
  <2> QED
    BY <2>2, <2>3, <2>4 DEF Together
<1> QED
  BY <1>8, <1>9

LEMMA TogetherActAnswered ==
    ASSUME Typed, Together, NEW a \in acts, ActAnswered(a), client'.crossed = "no"
    PROVE  Together'
<1>1. CASE LeavesAlone(a)
  <2>1. client' = client /\ UNCHANGED <<calls, wire, spent>>
    BY <1>1 DEF LeavesAlone, ActAnswered, Same
  <2>2. Fits(client, calls, acts', wire)
    BY FitsAnswered
  <2> QED
    BY <2>1, <2>2 DEF Together
<1> QED
  BY <1>1, AnsweredCases, TogetherAccepts, TogetherHangsUp, TogetherEndsWith

\* A step of joinRoom leaves status, call and requests alone.
LEMMA TogetherRoom ==
    ASSUME Typed, Together, NEW d \in Clients, Shape(d), client' = d,
           CallsAdvance, UNCHANGED <<acts, wire>>,
           d.status = client.status, d.call = client.call, d.session = client.session,
           SameStart(client, d), SameExperience(client, d), MicrophoneFits(d, spent'.failures)
    PROVE  Together'
<1>1. Fits(client, calls', acts, wire) /\ Resting(client)
  BY FitsStays DEF Together
<1>2. Fits(d, calls', acts, wire)
  BY <1>1, FitsAlike DEF SameStart
<1>3. Resting(d)
  BY <1>1 DEF Resting, SameStart, SameExperience
<1> QED
  BY <1>2, <1>3 DEF Together

\* The session is joining still: nothing is said of the microphone.
LEMMA MicrophoneWaits ==
    ASSUME NEW c, NEW n, NEW j \in c.joins, j.sess = c.session, j.pc # "mic"
    PROVE  MicrophoneFits(c, n)
BY DEF MicrophoneFits

LEMMA TogetherTokenAnswered ==
    ASSUME Typed, Together, NEW j \in client.joins, TokenAnswered(j)
    PROVE  Together'
<1>1. client \in Clients /\ Shape(client) /\ j \in Joins
  BY TypedParts, JoinFields DEF Together, Fits
<1>2. UNCHANGED <<acts, calls, wire, spent>> /\ j.pc = "token" /\ CallsAdvance
  BY TypedTokenAnswered DEF TokenAnswered, Same
<1>3. CASE j.sess # client.session
  <2> DEFINE d == Left(client, j)
  <2>1. client' = d
    BY <1>3 DEF TokenAnswered
  <2>2. /\ d \in Clients /\ d.joins = client.joins \ {j} /\ d.session = client.session
        /\ d.room = client.room
        /\ d.status = client.status /\ d.call = client.call
        /\ SameMicrophone(client, d) /\ SameStart(client, d) /\ SameExperience(client, d)
    BY <1>1, LeftFields
  <2>3. Shape(d)
    BY <1>1, <1>3, ShapeLeft
  <2> HIDE DEF d
  <2>4. MicrophoneFits(d, spent'.failures)
    BY <1>2, <1>3, <2>2 DEF Together, MicrophoneFits, SameMicrophone
  <2> QED
    BY <1>2, <2>1, <2>2, <2>3, <2>4, TogetherRoom
<1>4. CASE j.sess = client.session
  <2> DEFINE d == WithRoom(client, j)
             k == [j EXCEPT !.pc = "connect"]
  <2>1. client' = d
    BY <1>1, <1>4, CurrentJoin DEF TokenAnswered
  <2>2. /\ d \in Clients /\ d.joins = (client.joins \ {j}) \cup {k} /\ d.session = client.session
        /\ d.status = client.status /\ d.call = client.call
        /\ SameStart(client, d) /\ SameExperience(client, d)
    BY <1>1, WithRoomFields
  <2>3. Shape(d)
    BY <1>1, <1>2, <1>4, ShapeWithRoom
  <2>4. k.sess = j.sess /\ k.pc = "connect"
    BY <1>1 DEF Joins
  <2> HIDE DEF d, k
  <2>5. MicrophoneFits(d, spent'.failures)
    <3>1. k \in d.joins /\ k.sess = d.session /\ k.pc # "mic"
      BY <1>4, <2>2, <2>4
    <3> QED
      BY <3>1, MicrophoneWaits
  <2> QED
    BY <1>2, <2>1, <2>2, <2>3, <2>5, TogetherRoom
<1> QED
  BY <1>3, <1>4

\* The catch of joinRoom, with the client c that the failed call has left.
LEMMA TogetherJoinFails ==
    ASSUME Typed, Together, NEW c \in Clients, Shape(c), NEW j \in c.joins, JoinFails(c, j),
           UNCHANGED <<calls, wire>>, Fault \/ UNCHANGED spent,
           c.status = client.status, c.call = client.call, c.session = client.session,
           c.joins = client.joins, c.room = client.room,
           SameStart(client, c), SameExperience(client, c),
           Fault \/ SameMicrophone(client, c),
           \A p \in DOMAIN c.applies : c.applies[p].join => c.applies[p].sess # j.sess
    PROVE  Together'
<1>1. /\ client \in Clients /\ Named(client) /\ j \in Joins /\ calls \in Seq(Calls) /\ Kept
  BY TypedParts, JoinFields DEF Together, Fits
<1>2. CallsAdvance
  BY <1>1, SameCalls
<1>3. CASE j.sess # c.session
  <2> DEFINE d == Left(c, j)
  <2>1. client' = d /\ UNCHANGED acts
    BY <1>3 DEF JoinFails
  <2>2. /\ d \in Clients /\ d.joins = c.joins \ {j} /\ d.session = c.session
        /\ d.room = c.room
        /\ d.status = c.status /\ d.call = c.call
        /\ SameMicrophone(c, d) /\ SameStart(c, d) /\ SameExperience(c, d)
    BY LeftFields
  <2>3. Shape(d)
    BY <1>3, ShapeLeft
  <2> HIDE DEF d
  <2>4. CASE Fault
    <3>1. spent'.failures # 0
      BY <1>1, <2>4, FailureSpent
    <3>2. MicrophoneFits(d, spent'.failures)
      BY <3>1 DEF MicrophoneFits
    <3> QED
      BY <1>2, <2>1, <2>2, <2>3, <3>2, TogetherRoom DEF SameStart, SameExperience
  <2>5. CASE UNCHANGED spent /\ SameMicrophone(client, c)
    <3>1. MicrophoneFits(d, spent'.failures)
      BY <1>3, <2>2, <2>5 DEF Together, MicrophoneFits, SameMicrophone
    <3> QED
      BY <1>2, <2>1, <2>2, <2>3, <3>1, TogetherRoom DEF SameStart, SameExperience
  <2> QED
    BY <2>4, <2>5
<1>4. CASE j.sess = c.session
  <2> DEFINE d == Stage(c, j, "hangup")
             k == [j EXCEPT !.pc = "hangup"]
             b == [kind |-> "hangup", call |-> c.call, sess |-> j.sess, stage |-> "sent"]
  <2>1. c.status = "active" /\ j.call = c.call /\ j.sess >= 1
    BY <1>4, CurrentJoin
  <2>2. Fits(client, calls, acts, wire) /\ Resting(client)
    BY DEF Together
  <2>3. c.call # None
    BY <2>1, <2>2 DEF Fits, StatusFits
  <2>4. client' = d /\ acts' = acts \cup {b}
    BY <1>4, <2>3 DEF JoinFails
  <2>5. /\ d \in Clients /\ d.joins = (c.joins \ {j}) \cup {k} /\ d.session = c.session
        /\ d.status = c.status /\ d.call = c.call
        /\ SameStart(c, d) /\ SameExperience(c, d)
    BY <1>1, StageFields
  <2>6. Shape(d)
    BY <1>4, ShapeCaught
  <2>7. k.sess = j.sess /\ k.pc = "hangup"
    BY <1>1 DEF Joins
  <2>8. b.kind = "hangup" /\ b.call = c.call /\ b.sess = j.sess /\ b.stage = "sent"
    OBVIOUS
  <2> HIDE DEF d, k, b
  <2>9. ActHolds(b, calls[b.call])
    BY <2>1, <2>2, <2>8 DEF Fits, StatusFits, Accepted, ActHolds, Refusing
  <2>10. client.created = None
    BY <1>1, <2>1, <2>2 DEF Resting, Named
  <2>11. ActFits(client, b)
    BY <1>1, <1>4, <2>1, <2>3, <2>8, <2>10, ClientFields DEF ActFits
  <2>12. \A p \in DOMAIN wire : wire[p].event = "invite" => b.call # wire[p].call
    BY <2>2, <2>8 DEF Fits, InvitesFit
  <2>13. Fits(client, calls, acts', wire)
    BY <2>2, <2>4, <2>8, <2>9, <2>11, <2>12, FitsOneMore
  <2>14. Fits(d, calls, acts', wire)
    BY <2>5, <2>6, <2>13, FitsAlike DEF SameStart
  <2>15. Resting(d)
    BY <2>2, <2>5 DEF Resting, SameStart, SameExperience
  <2>16. MicrophoneFits(d, spent'.failures)
    <3>1. k \in d.joins /\ k.sess = d.session /\ k.pc # "mic"
      BY <1>4, <2>5, <2>7
    <3> QED
      BY <3>1, MicrophoneWaits
  <2> QED
    BY <2>4, <2>14, <2>15, <2>16 DEF Together
<1> QED
  BY <1>3, <1>4

\* A token or a connection fails.
LEMMA TogetherFails ==
    ASSUME Typed, Together, NEW j \in client.joins, TokenFails(j) \/ ConnectFails(j)
    PROVE  Together'
<1>1. client \in Clients /\ Shape(client)
  BY TypedParts DEF Together, Fits
<1>2. /\ JoinFails(client, j) /\ UNCHANGED <<calls, wire>> /\ j.pc # "mic"
      /\ Fault \/ UNCHANGED spent
  BY DEF TokenFails, ConnectFails, Same
<1>3. \A p \in DOMAIN client.applies : client.applies[p].join => client.applies[p].sess # j.sess
  BY <1>1, <1>2 DEF Shape, AppliesFit
<1>4. SameStart(client, client) /\ SameExperience(client, client) /\ SameMicrophone(client, client)
  BY DEF SameStart, SameExperience, SameMicrophone
<1> QED
  BY <1>1, <1>2, <1>3, <1>4, TogetherJoinFails

LEMMA TogetherConnectAnswered ==
    ASSUME Typed, Together, NEW j \in client.joins, ConnectAnswered(j)
    PROVE  Together'
<1> DEFINE c == Connected(client, j)
           e == Stage(c, j, "mic")
           d == Apply(e, TRUE)
<1>1. client \in Clients /\ Shape(client) /\ j \in Joins
  BY TypedParts, JoinFields DEF Together, Fits
<1>2. /\ UNCHANGED <<acts, wire, spent>> /\ j.pc = "connect" /\ CallsAdvance
      /\ client' = IF j.sess # c.session \/ c.room # j.sess THEN Left(c, j) ELSE d
  BY TypedConnectAnswered DEF ConnectAnswered
<1>3. j.sess = client.session
  BY <1>1 DEF ConnectAnswered, Open, Shape, RoomFits, Up, Down
<1>4. client.room = client.session
  BY <1>1, <1>2, <1>3, CurrentJoin
<1>5. /\ c \in Clients /\ c.session = client.session /\ c.room = client.room
      /\ c.status = client.status /\ c.call = client.call
      /\ SameStart(client, c) /\ SameExperience(client, c)
  BY <1>1, ConnectedFields
<1>6. Shape(d)
  BY <1>1, <1>2, <1>3, ShapeConnected
<1> HIDE DEF c
<1>7. /\ e \in Clients /\ e.session = c.session /\ e.status = c.status /\ e.call = c.call
      /\ SameStart(c, e) /\ SameExperience(c, e)
  BY <1>1, <1>5, StageFields
<1> HIDE DEF e
<1>8. /\ d \in Clients /\ d.session = e.session /\ d.status = e.status /\ d.call = e.call
      /\ SameStart(e, d) /\ SameExperience(e, d)
  BY <1>7, ApplyFields DEF SameRoom
<1>9. MicrophoneFits(d, spent'.failures)
  BY <1>7, MicrophoneSaid
<1>10. client' = d
  BY <1>2, <1>3, <1>4, <1>5
<1> HIDE DEF d
<1> QED
  BY <1>2, <1>5, <1>6, <1>7, <1>8, <1>9, <1>10, TogetherRoom DEF SameStart, SameExperience

\* What is left behind the first element.
LEMMA TailFacts ==
    ASSUME NEW S, NEW q \in Seq(S), q # <<>>
    PROVE  /\ Len(q) \in Nat /\ Len(q) >= 1 /\ Len(Tail(q)) = Len(q) - 1
           /\ Tail(q) = <<>> => Len(q) = 1
           /\ Tail(q) # <<>> => Len(q) >= 2 /\ Tail(q)[Len(Tail(q))] = q[Len(q)]
<1>1. Len(q) \in Nat /\ Len(q) >= 1 /\ Len(Tail(q)) = Len(q) - 1 /\ Tail(q) \in Seq(S)
  OBVIOUS
<1>2. Tail(q) = <<>> => Len(q) = 1
  <2> DEFINE t == Tail(q)
  <2>1. Len(t) = Len(q) - 1 /\ Len(q) \in Nat
    BY <1>1
  <2> HIDE DEF t
  <2>2. t = <<>> => Len(t) = 0
    OBVIOUS
  <2>3. t = <<>> => Len(q) = 1
    BY <2>1, <2>2
  <2> QED
    BY <2>3 DEF t
<1>3. ASSUME Tail(q) # <<>>
      PROVE  Len(q) >= 2 /\ Tail(q)[Len(Tail(q))] = q[Len(q)]
  <2> DEFINE t == Tail(q)
  <2>1. t \in Seq(S) /\ t # <<>> /\ Len(t) = Len(q) - 1
    BY <1>1, <1>3
  <2>2. Len(t) >= 1
    <3> HIDE DEF t
    <3> QED
      BY <2>1
  <2>3. Len(q) >= 2
    BY <1>1, <2>1, <2>2
  <2>4. \A i \in 1..Len(t) : t[i] = q[i + 1]
    OBVIOUS
  <2> QED
    BY <1>1, <2>1, <2>3, <2>4
<1> QED
  BY <1>1, <1>2, <1>3

\* The first change of the microphone was made: it is the last, or is not.
LEMMA MicrophoneMade ==
    ASSUME NEW c \in Clients, Shape(c), c.applies # <<>>, NEW n, NEW m,
           MicrophoneFits(c, n), m = 0 => n = 0,
           NEW mic \in BOOLEAN, NEW muted \in BOOLEAN, NEW own, NEW a \in Applies,
           a = Head(c.applies), mic = IF a.rev = c.rev /\ a.sess = c.session THEN a.on ELSE c.mic,
           muted = IF a.sess = c.session THEN ~a.on ELSE c.muted,
           \A j \in c.joins : j.sess = c.session /\ j \in own => j.pc = "mic"
    PROVE  MicrophoneFits(Goes(Popped(c, mic), muted, own), m)
<1> DEFINE b == Popped(c, mic)
           d == Goes(b, muted, own)
<1>1. /\ b \in Clients /\ b.applies = Tail(c.applies) /\ b.mic = mic
      /\ b.pref = c.pref /\ b.rev = c.rev /\ SameRoom(c, b)
  BY PoppedFields
<1> SUFFICES MicrophoneFits(d, m)
  OBVIOUS
<1> HIDE DEF b
<1>2. /\ d.joins = b.joins \ own /\ d.muted = muted /\ d.mic = b.mic
      /\ d.applies = b.applies /\ d.pref = b.pref /\ d.rev = b.rev
      /\ d.session = b.session /\ d.room = b.room
  BY <1>1, GoesFields
<1> HIDE DEF d
<1>3. c.applies \in Seq(Applies) /\ a = c.applies[1] /\ Len(c.applies) \in Nat
  BY ClientFields
<1> SUFFICES ASSUME m = 0, d.room # None, \A j \in d.joins : j.sess = d.session => j.pc = "mic"
             PROVE  IF d.applies = <<>> THEN d.mic = d.pref /\ d.muted = ~d.pref
                    ELSE LET x == d.applies[Len(d.applies)] IN
                         x.rev = d.rev /\ x.sess = d.session /\ x.on = d.pref
  BY DEF MicrophoneFits
<1>4. \A j \in c.joins : j.sess = c.session => j.pc = "mic"
  BY <1>1, <1>2 DEF SameRoom
<1> DEFINE z == c.applies[Len(c.applies)]
<1>5. z.rev = c.rev /\ z.sess = c.session /\ z.on = c.pref
  BY <1>1, <1>2, <1>4 DEF MicrophoneFits, SameRoom
<1>6. CASE d.applies = <<>>
  <2>1. Len(c.applies) = 1
    BY <1>1, <1>2, <1>3, <1>6, TailFacts
  <2>2. a.rev = c.rev /\ a.sess = c.session /\ a.on = c.pref
    BY <1>3, <1>5, <2>1
  <2>3. mic = c.pref /\ muted = ~c.pref
    BY <2>2
  <2> QED
    BY <1>1, <1>2, <1>6, <2>3
<1>7. CASE d.applies # <<>>
  <2>1. d.applies[Len(d.applies)] = z
    BY <1>1, <1>2, <1>3, <1>7, TailFacts
  <2> HIDE DEF z
  <2> QED
    BY <1>1, <1>2, <1>5, <1>7, <2>1 DEF SameRoom
<1> QED
  BY <1>6, <1>7

LEMMA TogetherMicrophoneApplied ==
    ASSUME Typed, Together, NEW ok \in BOOLEAN, MicrophoneApplied(ok)
    PROVE  Together'
<1>1. client \in Clients /\ Shape(client) /\ Kept /\ calls \in Seq(Calls)
  BY TypedParts DEF Together, Fits
<1>2. PICK a \in Applies, mic \in BOOLEAN :
           /\ client.applies # <<>> /\ a = Head(client.applies)
           /\ mic = IF ok /\ a.rev = client.rev /\ a.sess = client.session THEN a.on
                    ELSE client.mic
           /\ IF ok THEN AppliedWell(Popped(client, mic), a, Owned(a))
              ELSE AppliedBadly(Popped(client, mic), a, Owned(a))
  BY AppliedCases
<1>3. UNCHANGED <<calls, wire>>
  BY DEF MicrophoneApplied, Same
<1> DEFINE b == Popped(client, mic)
           own == Owned(a)
<1>4. /\ b \in Clients /\ b.status = client.status /\ b.call = client.call
      /\ SameRoom(client, b) /\ SameStart(client, b) /\ SameExperience(client, b)
  BY <1>1, <1>2, PoppedFields
<1>5. Shape(b) /\ \A p \in DOMAIN b.applies :
                b.applies[p].join => \/ ~a.join
                                     \/ b.applies[p].sess # a.sess
  BY <1>1, <1>2, ShapePopped
<1>6. \A j \in client.joins : j \in own => a.join /\ j.sess = a.sess /\ j.pc = "mic"
  <2>1. client.applies \in Seq(Applies)
    BY <1>1, ClientFields
  <2>2. 1 \in DOMAIN client.applies /\ a = client.applies[1]
    BY <1>2, <2>1
  <2> QED
    BY <1>1, <2>2 DEF Shape, AppliesFit, Owned
<1>7. CallsAdvance
  BY <1>1, <1>3, SameCalls
<1>8. CASE ok
  <2> DEFINE muted == IF a.sess = client.session THEN ~a.on ELSE client.muted
             d == Goes(b, muted, own)
  <2>1. client' = d /\ UNCHANGED <<acts, spent>>
    BY <1>2, <1>8 DEF AppliedWell
  <2>2. muted \in BOOLEAN
    BY <1>1, ClientFields
  <2>3. MicrophoneFits(d, spent'.failures)
    <3>1. MicrophoneFits(client, spent.failures)
      BY DEF Together
    <3>2. mic = IF a.rev = client.rev /\ a.sess = client.session THEN a.on ELSE client.mic
      BY <1>2, <1>8
    <3>3. \A j \in client.joins : j.sess = client.session /\ j \in own => j.pc = "mic"
      BY <1>6
    <3> HIDE DEF own
    <3> QED
      BY <1>1, <1>2, <2>1, <2>2, <3>1, <3>2, <3>3, MicrophoneMade
  <2> HIDE DEF b, own, muted
  <2>4. /\ d \in Clients /\ d.status = b.status /\ d.call = b.call
        /\ d.session = b.session
        /\ SameStart(b, d) /\ SameExperience(b, d)
    BY <1>4, <2>2, GoesFields
  <2>5. Shape(d)
    BY <1>4, <1>5, <1>6, <2>2, ShapeGoes DEF SameRoom
  <2> HIDE DEF d
  <2> QED
    BY <1>3, <1>4, <1>7, <2>1, <2>3, <2>4, <2>5, TogetherRoom DEF SameRoom, SameStart, SameExperience
<1>9. CASE ~ok
  <2>1. Fault /\ ((own = {} /\ client' = b /\ UNCHANGED acts) \/ \E j \in own : JoinFails(b, j))
    BY <1>2, <1>9 DEF AppliedBadly
  <2> HIDE DEF b
  <2>2. CASE client' = b /\ UNCHANGED acts
    <3>1. spent'.failures # 0
      BY <1>1, <2>1, FailureSpent
    <3>2. MicrophoneFits(b, spent'.failures)
      BY <3>1 DEF MicrophoneFits
    <3> QED
      BY <1>3, <1>4, <1>5, <1>7, <2>2, <3>2, TogetherRoom DEF SameRoom
  <2>3. ASSUME NEW j \in own, JoinFails(b, j)
        PROVE  Together'
    <3>1. j \in client.joins /\ j \in b.joins
      BY <1>4 DEF Owned, SameRoom
    <3>2. \A p \in DOMAIN b.applies : b.applies[p].join => b.applies[p].sess # j.sess
      BY <1>5, <1>6, <3>1
    <3> HIDE DEF own
    <3> QED
      BY <1>3, <1>4, <1>5, <2>1, <2>3, <3>1, <3>2, TogetherJoinFails DEF SameRoom
  <2> QED
    BY <2>1, <2>2, <2>3
<1> QED
  BY <1>8, <1>9

\* LiveKit gives the room of the call up: there is no other.
LEMMA TogetherDisconnects ==
    ASSUME Typed, Together, NEW r \in client.rooms, Disconnects(r), UNCHANGED <<acts, calls, wire>>
    PROVE  Together'
<1> DEFINE d == EndSession(client, "disconnected")
<1>1. client \in Clients /\ Shape(client) /\ Kept /\ calls \in Seq(Calls)
  BY TypedParts DEF Together, Fits
<1>2. Fits(client, calls, acts, wire) /\ Resting(client)
  BY DEF Together
<1>3. "disconnected" \in Reasons
  BY DEF Reasons
<1>4. client.room = r.sess /\ client.status = "active"
  BY <1>1 DEF Shape, RoomFits, Up, Down
<1>5. Become(d)
  BY <1>4 DEF Disconnects
<1>6. /\ d \in Clients /\ d.status = "idle" /\ d.call = None /\ d.session = client.session + 1
      /\ d.room = None /\ SameStart(client, d)
  BY <1>1, <1>3, EndSessionFields
<1>7. Shape(d)
  BY <1>1, <1>3, ShapeEnd
<1> HIDE DEF d
<1>8. client.starting = "no" /\ client.pending = <<>>
  BY <1>2, <1>4 DEF Resting
<1>9. acts' \subseteq Requested /\ \A p \in DOMAIN wire : wire[p].call # None
  BY <1>1, WireCalls DEF Kept
<1> QED
  BY <1>1, <1>2, <1>3, <1>5, <1>6, <1>7, <1>8, <1>9, TogetherEnds

LEMMA TogetherWatching ==
    ASSUME Typed, Together, Watching
    PROVE  Together'
<1>1. PICK i \in DOMAIN calls : ServerSeesRoom(i)
  BY DEF Watching
<1>2. UNCHANGED <<acts, wire, spent>> /\ CallsAdvance
  BY <1>1, TypedServerSeesRoom DEF ServerSeesRoom
<1>3. CASE calls' = calls /\ \E r \in client.rooms : Disconnects(r)
  BY <1>2, <1>3, TogetherDisconnects
<1>4. CASE client' = client
  BY <1>2, <1>4, TogetherStays
<1> QED
  BY <1>1, <1>3, <1>4, SeesCall

LEMMA TogetherFaults ==
    ASSUME Typed, Together, Faults
    PROVE  Together'
<1>1. ASSUME NEW r \in client.rooms, RoomFails(r)
      PROVE  Together'
  BY <1>1, TogetherDisconnects DEF RoomFails, Same
<1> QED
  BY <1>1, TogetherStartLost, TogetherSignalLost, TogetherActLost DEF Faults

LEMMA TogetherJoining ==
    ASSUME Typed, Together, Joining
    PROVE  Together'
BY TogetherTokenAnswered, TogetherConnectAnswered, TogetherFails, TogetherMicrophoneApplied
   DEF Joining

-----------------------------------------------------------------------------
(* A crossing is remembered, and "other" is the last of them; "over" comes with *)
(* the answer to an accept only                                                 *)

LEMMA CrossedSignal ==
    ASSUME NEW S, "other" \in S, NEW c \in Clients, NEW s \in Signals, c.crossed \in S
    PROVE  HandleSignal(c, s) \in Clients /\ HandleSignal(c, s).crossed \in S
<1>1. CASE Waits(c)
  BY <1>1, WaitingFields
<1>2. CASE ~Waits(c)
  <2> DEFINE d == Handled(c, s)
  <2>1. HandleSignal(c, s) = d
    BY <1>2 DEF HandleSignal, Waits
  <2>2. /\ d \in Clients
        /\ \/ Ignored(c, d, s) \/ Rings(c, d, s) \/ IsAccepted(c, d, s) \/ IsEnded(c, d, s)
           \/ d = c
    BY HandledFields
  <2>3. IsAccepted(c, d, s) => d.crossed \in S
    BY JoinRoomFields DEF IsAccepted
  <2>4. IsEnded(c, d, s) => d.crossed \in S
    BY EndSessionFields DEF IsEnded
  <2> HIDE DEF d
  <2> QED
    BY <2>1, <2>2, <2>3, <2>4 DEF Ignored, Rings, Beside
<1> QED
  BY <1>1, <1>2

LEMMA CrossedReplayed ==
    ASSUME NEW S, "other" \in S, NEW c \in Clients, NEW signals \in Seq(Signals),
           c.crossed \in S
    PROVE  Replayed(c, signals) \in Clients /\ Replayed(c, signals).crossed \in S
<1> DEFINE G == {d \in Clients : d.crossed \in S}
           Good == [n \in Nat |-> G]
<1>1. Len(signals) \in Nat
  OBVIOUS
<1>2. c \in Good[0]
  OBVIOUS
<1>3. \A n \in 1..Len(signals) : \A d \in Good[n - 1] : HandleSignal(d, signals[n]) \in Good[n]
  <2> SUFFICES ASSUME NEW n \in 1..Len(signals), NEW d \in Good[n - 1]
               PROVE  HandleSignal(d, signals[n]) \in Good[n]
    OBVIOUS
  <2>1. d \in Clients /\ d.crossed \in S /\ n \in Nat
    BY <1>1
  <2>2. signals[n] \in Signals
    OBVIOUS
  <2> QED
    BY <2>1, <2>2, CrossedSignal
<1> HIDE DEF Good
<1>4. Replayed(c, signals) \in Good[Len(signals)]
  BY <1>1, <1>2, <1>3, ReplayKeeps
<1> QED
  BY <1>1, <1>4 DEF Good

LEMMA CrossedBecome ==
    ASSUME NEW S, NEW c \in Clients, Become(c), c.crossed \in S
    PROVE  client'.crossed \in S
BY BecomeFields DEF Alike

LEMMA CrossedStartAnswered ==
    ASSUME NEW S, "other" \in S, Typed, StartAnswered, client.crossed \in S
    PROVE  client'.crossed \in S
<1>1. client \in Clients /\ Named(client)
  BY TypedParts
<1>2. CASE client.starting = "created"
  <2> DEFINE b == Begun(client, client.created)
             e == Replayed(b, client.pending)
             d == StartCreated(client, client.created)
  <2>1. Become(d)
    BY <1>2 DEF StartAnswered
  <2>2. client.created \in Nat /\ client.pending \in Seq(Signals)
    BY <1>1, ClientFields
  <2>3. b \in Clients /\ b.crossed \in S
    BY <1>1, <2>2, BegunFields
  <2>4. e \in Clients /\ e.crossed \in S
    <3> HIDE DEF b
    <3> QED
      BY <2>2, <2>3, CrossedReplayed
  <2>5. d \in Clients /\ d.crossed \in S
    BY <1>1, <2>2, <2>4, StartCreatedFields DEF Beside
  <2> HIDE DEF d
  <2> QED
    BY <2>1, <2>5, CrossedBecome
<1>3. ASSUME NEW r \in Reasons \cup {NoReason}, Become(StartRefused(client, r))
      PROVE  client'.crossed \in S
  <2> DEFINE d == StartRefused(client, r)
  <2>1. d \in Clients /\ d.crossed \in S
    BY <1>1, StartRefusedFields DEF Beside
  <2>2. Become(d)
    BY <1>3
  <2> HIDE DEF d
  <2> QED
    BY <2>1, <2>2, CrossedBecome
<1> QED
  BY <1>2, <1>3 DEF StartAnswered, Reasons

LEMMA CrossedActAnswered ==
    ASSUME NEW S, "other" \in S, Typed, NEW a \in acts, ActAnswered(a), client.crossed \in S,
           "over" \in S \/ ~Accepts(a) \/ client.status # "idle"
    PROVE  client'.crossed \in S
<1>1. client \in Clients
  BY TypedParts
<1>2. CASE Accepts(a)
  <2> DEFINE c == Crossing(client, Crossed(client, a, "over"))
             d == JoinRoom([c EXCEPT !.status = "active"])
  <2>1. Crossed(client, a, "over") \in Crossings
    BY <1>1, CrossingTypes
  <2>2. c \in Clients /\ c.crossed \in S
    BY <1>1, <1>2, <2>1, CrossingFields DEF Crossed
  <2>3. Become(d)
    BY <1>2 DEF Accepts
  <2> HIDE DEF c
  <2>4. d \in Clients /\ d.crossed \in S
    BY <2>2, JoinRoomFields
  <2> HIDE DEF d
  <2> QED
    BY <2>3, <2>4, CrossedBecome
<1>3. ASSUME NEW reason \in Reasons, NEW crossed \in Crossings, EndsWith(a, reason, crossed)
      PROVE  client'.crossed \in S
  <2> DEFINE e == EndSession(client, reason)
             d == Crossing(e, crossed)
  <2>1. Become(d) /\ crossed \in S
    BY <1>3 DEF EndsWith, Crossed
  <2>2. e \in Clients
    BY <1>1, EndSessionFields
  <2> HIDE DEF e
  <2>3. d \in Clients /\ d.crossed \in S
    BY <2>1, <2>2, CrossingFields
  <2> HIDE DEF d
  <2> QED
    BY <2>1, <2>3, CrossedBecome
<1>4. CASE HangsUp(a)
  <2> DEFINE c == LeftBy(client, a.sess)
             d == EndSession(c, "disconnected")
  <2>1. "disconnected" \in Reasons
    BY DEF Reasons
  <2>2. c \in Clients /\ c.crossed \in S
    BY <1>1, LeftByFields
  <2>3. client' = c \/ Become(d)
    BY <1>4 DEF HangsUp
  <2> HIDE DEF c
  <2>4. d \in Clients /\ d.crossed \in S
    BY <2>1, <2>2, EndSessionFields
  <2> HIDE DEF d
  <2> QED
    BY <2>2, <2>3, <2>4, CrossedBecome
<1> QED
  BY <1>2, <1>3, <1>4, AnsweredCases DEF LeavesAlone

LEMMA CrossedJoinFails ==
    ASSUME NEW S, NEW c \in Clients, NEW j \in c.joins, JoinFails(c, j), c.crossed \in S
    PROVE  client'.crossed \in S
<1>1. "disconnected" \in Reasons /\ j \in Joins
  BY JoinFields DEF Reasons
<1> DEFINE b == Left(c, j)
           e == Stage(c, j, "hangup")
           d == EndSession(b, "disconnected")
<1>2. b \in Clients /\ b.crossed \in S
  BY LeftFields
<1>3. e \in Clients /\ e.crossed \in S
  BY <1>1, StageFields
<1>4. client' = b \/ client' = e \/ Become(d)
  BY DEF JoinFails
<1> HIDE DEF b, e
<1>5. d \in Clients /\ d.crossed \in S
  BY <1>1, <1>2, EndSessionFields
<1> HIDE DEF d
<1> QED
  BY <1>2, <1>3, <1>4, <1>5, CrossedBecome

LEMMA CrossedJoining ==
    ASSUME NEW S, Typed, Joining, client.crossed \in S
    PROVE  client'.crossed \in S
<1>1. client \in Clients
  BY TypedParts
<1>2. ASSUME NEW j \in client.joins, TokenAnswered(j)
      PROVE  client'.crossed \in S
  <2>1. j \in Joins
    BY <1>1, JoinFields
  <2>2. client' = Left(client, j) \/ client' = WithRoom(client, j)
    BY <1>2 DEF TokenAnswered
  <2> QED
    BY <1>1, <2>1, <2>2, LeftFields, WithRoomFields
<1>3. ASSUME NEW j \in client.joins, ConnectAnswered(j)
      PROVE  client'.crossed \in S
  <2> DEFINE c == Connected(client, j)
             e == Stage(c, j, "mic")
  <2>1. j \in Joins
    BY <1>1, JoinFields
  <2>2. c \in Clients /\ c.crossed \in S
    BY <1>1, ConnectedFields
  <2>3. client' = Left(c, j) \/ client' = Apply(e, TRUE)
    BY <1>3 DEF ConnectAnswered
  <2> HIDE DEF c
  <2>4. Left(c, j).crossed \in S
    BY <2>2, LeftFields
  <2>5. e \in Clients /\ e.crossed \in S
    BY <2>1, <2>2, StageFields
  <2> HIDE DEF e
  <2>6. Apply(e, TRUE).crossed \in S
    BY <2>5, ApplyFields
  <2> QED
    BY <2>3, <2>4, <2>6
<1>4. ASSUME NEW j \in client.joins, TokenFails(j) \/ ConnectFails(j)
      PROVE  client'.crossed \in S
  BY <1>1, <1>4, CrossedJoinFails DEF TokenFails, ConnectFails
<1>5. ASSUME NEW ok \in BOOLEAN, MicrophoneApplied(ok)
      PROVE  client'.crossed \in S
  <2>1. PICK a \in Applies, mic \in BOOLEAN :
           /\ client.applies # <<>>
           /\ IF ok THEN AppliedWell(Popped(client, mic), a, Owned(a))
              ELSE AppliedBadly(Popped(client, mic), a, Owned(a))
    BY <1>5, AppliedCases
  <2> DEFINE b == Popped(client, mic)
             muted == IF a.sess = client.session THEN ~a.on ELSE client.muted
  <2>2. b \in Clients /\ b.crossed \in S /\ b.joins = client.joins
    BY <1>1, <2>1, PoppedFields DEF SameRoom
  <2>3. \/ client' = Goes(b, muted, Owned(a)) \/ client' = b
        \/ \E j \in Owned(a) : JoinFails(b, j)
    BY <2>1 DEF AppliedWell, AppliedBadly
  <2>4. muted \in BOOLEAN
    BY <1>1, ClientFields DEF Applies
  <2>5. Owned(a) \subseteq b.joins
    BY <2>2 DEF Owned
  <2> HIDE DEF b, muted
  <2>6. Goes(b, muted, Owned(a)).crossed \in S
    BY <2>2, <2>4, GoesFields
  <2> QED
    BY <2>2, <2>3, <2>5, <2>6, CrossedJoinFails
<1> QED
  BY <1>2, <1>3, <1>4, <1>5 DEF Joining

LEMMA CrossedDisconnects ==
    ASSUME NEW S, client \in Clients, NEW r \in client.rooms, Disconnects(r),
           client.crossed \in S
    PROVE  client'.crossed \in S
<1> DEFINE b == DropRoom(client, r)
           d == EndSession(client, "disconnected")
<1>1. "disconnected" \in Reasons
  BY DEF Reasons
<1>2. b.crossed \in S
  BY DropRoomFields
<1>3. d \in Clients /\ d.crossed \in S
  BY <1>1, EndSessionFields
<1>4. client' = b \/ Become(d)
  BY DEF Disconnects, DropRoom
<1> HIDE DEF b, d
<1> QED
  BY <1>2, <1>3, <1>4, CrossedBecome

LEMMA CrossedUser ==
    ASSUME NEW S, Typed, User, client.crossed \in S
    PROVE  client'.crossed \in S
<1>1. client \in Clients
  BY TypedParts
<1>2. CASE StartCall
  <2> DEFINE c == [client EXCEPT !.status = "outgoing", !.call = None, !.reason = NoReason,
                                 !.starting = "posted", !.shown = None]
  <2>1. NoReason \in Reasons \cup {NoReason} /\ None \in Nat /\ "outgoing" \in Statuses
        /\ "posted" \in {"no", "posted", "refused", "created", "failed"}
    BY DEF Statuses
  <2>2. c \in Clients
    BY <1>1, <2>1, Zenon DEF Clients
  <2>3. c.crossed \in S
    BY <1>1 DEF Clients
  <2>4. Become(c)
    BY <1>2 DEF StartCall
  <2> HIDE DEF c
  <2> QED
    BY <2>2, <2>3, <2>4, CrossedBecome
<1>3. CASE TogglePreference
  <2> DEFINE c == [client EXCEPT !.pref = ~@]
  <2>1. (~client.pref) \in BOOLEAN
    OBVIOUS
  <2>2. c \in Clients
    BY <1>1, <2>1, ZenonT(40) DEF Clients
  <2>3. c.crossed \in S
    BY <1>1 DEF Clients
  <2>4. client' = c \/ client' = Apply(c, FALSE)
    BY <1>3 DEF TogglePreference
  <2> HIDE DEF c
  <2>5. Apply(c, FALSE).crossed = c.crossed
    BY <2>2, ApplyFields
  <2> QED
    BY <2>3, <2>4, <2>5
<1> QED
  BY <1>2, <1>3 DEF User, Act

LEMMA CrossedStays ==
    ASSUME NEW S, "other" \in S, Typed, [Next]_vars, client.crossed \in S,
           "over" \in S \/ client.status # "idle"
                \/ \A a \in acts : ActAnswered(a) => ~Accepts(a)
    PROVE  client'.crossed \in S
<1>1. client \in Clients
  BY TypedParts
<1>2. CASE Requests
  <2>1. CASE ServerStarts
    BY <1>1, <2>1 DEF ServerStarts, Clients
  <2> QED
    BY <1>2, <2>1, CrossedStartAnswered, CrossedActAnswered DEF Requests, ServerActs
<1>3. CASE Watching
  <2>1. PICK i \in DOMAIN calls : ServerSeesRoom(i)
    BY <1>3 DEF Watching
  <2> QED
    BY <1>1, <2>1, SeesCall, CrossedDisconnects
<1>4. CASE DeliverSignal
  <2> DEFINE s == Told(1)
             d == HandleSignal(client, s)
  <2>1. wire \in Seq(Sent) /\ wire # <<>>
    BY <1>4, TypedParts DEF Kept, DeliverSignal
  <2>2. 1 \in DOMAIN wire
    BY <2>1
  <2>3. s \in Signals
    BY <2>2, ToldFacts
  <2>4. Become(d)
    BY <1>4, <2>1 DEF DeliverSignal, Told
  <2>5. d \in Clients /\ d.crossed \in S
    BY <1>1, <2>3, CrossedSignal
  <2> HIDE DEF d
  <2> QED
    BY <2>4, <2>5, CrossedBecome
<1>5. CASE Peer
  BY <1>5 DEF Peer, PeerInvites, PeerAccepts, PeerVanishes, PeerEnds
<1>6. CASE Faults
  <2>1. CASE StartLost
    BY <1>1, <2>1 DEF StartLost, Clients
  <2> QED
    BY <1>1, <1>6, <2>1, CrossedDisconnects DEF Faults, SignalLost, ActLost, RoomFails
<1>7. ASSUME NEW on \in BOOLEAN, Reconnecting(on)
      PROVE  client'.crossed \in S
  BY <1>1, <1>7 DEF Reconnecting, Clients
<1> QED
  BY <1>2, <1>3, <1>4, <1>5, <1>6, <1>7, CrossedJoining, CrossedUser DEF Next, vars

-----------------------------------------------------------------------------
(* The room and the microphone are the call's *)

LEMMA Uncrossed ==
    ASSUME Typed, [Next]_vars, client'.crossed = "no"
    PROVE  client.crossed = "no"
<1> DEFINE S == {"over", "other"}
<1>1. "over" \in S /\ "other" \in S /\ client'.crossed \notin S
  OBVIOUS
<1>2. client.crossed \in Crossings
  BY TypedParts, ClientFields
<1>3. client.crossed \in S \/ client.crossed = "no"
  BY <1>2 DEF Crossings
<1> HIDE DEF S
<1> QED
  BY <1>1, <1>3, CrossedStays

LEMMA RoomStep ==
    ASSUME Typed, ServerFits, RoomInvariant, [Next]_vars
    PROVE  RoomInvariant'
<1> SUFFICES ASSUME client'.crossed = "no"
             PROVE  Together'
  BY DEF RoomInvariant
<1>1. client.crossed = "no" /\ Together
  BY Uncrossed DEF RoomInvariant
<1>2. CASE Requests
  BY <1>1, <1>2, TogetherStartAnswered, TogetherServerStarts, TogetherServerActs,
     TogetherActAnswered DEF Requests
<1>3. CASE User
  BY <1>1, <1>3, TogetherStartCall, TogetherTogglePreference, TogetherAct DEF User
<1>4. CASE \E on \in BOOLEAN : Reconnecting(on)
  BY <1>1, <1>4, TogetherReconnecting
<1>5. CASE UNCHANGED vars
  BY <1>1, <1>5 DEF vars, Together
<1> QED
  BY <1>1, <1>2, <1>3, <1>4, <1>5, TogetherJoining, TogetherWatching, TogetherDeliverSignal,
     TogetherPeer, TogetherFaults DEF Next

LEMMA RoomInit ==
    ASSUME Init
    PROVE  RoomInvariant
<1>1. /\ client.status = "idle" /\ client.call = None /\ client.starting = "no"
      /\ client.created = None /\ client.pending = <<>> /\ client.session = 0
      /\ client.room = None /\ client.rooms = {} /\ client.contexts = {} /\ client.held = None
      /\ client.joins = {} /\ client.applies = <<>> /\ client.seen = "idle" /\ client.shown = None
      /\ acts = {} /\ wire = <<>>
  BY DEF Init
<1>2. Shape(client)
  BY <1>1 DEF Shape, RoomFits, JoinsFit, AppliesFit
<1>3. Fits(client, calls, acts, wire)
  BY <1>1, <1>2 DEF Fits, StatusFits, ActsFit, InvitesFit
<1>4. Resting(client) /\ MicrophoneFits(client, spent.failures)
  BY <1>1 DEF Resting, MicrophoneFits
<1> QED
  BY <1>3, <1>4 DEF RoomInvariant, Together

-----------------------------------------------------------------------------
(* A client whose accept was answered after the end of its call *)

\* It shows an active call that is none, and no step it takes changes that.
LEMMA StrandedKept ==
    ASSUME NEW c, NEW d, NEW as, NEW bs, Stranded(c, as), d.status = c.status, d.call = c.call,
           SameStart(c, d), d.session = c.session, d.room = c.room, d.rooms = c.rooms,
           d.contexts = c.contexts, d.held = c.held, d.joins \subseteq c.joins,
           \A b \in bs : b.sess # None => \E a \in as : a.sess = b.sess
    PROVE  Stranded(d, bs)
BY DEF Stranded, SameStart

\* As it begins: the call was forgotten, the session ended and no room built.
LEMMA StrandedBegins ==
    ASSUME Typed, Together, NEW a \in acts, ActAnswered(a), Accepts(a), client.status = "idle"
    PROVE  Stranded(client', acts')
<1> DEFINE c == Crossing(client, Crossed(client, a, "over"))
           d == JoinRoom([c EXCEPT !.status = "active"])
<1>1. /\ client \in Clients /\ Resting(client) /\ StatusFits(client, calls) /\ RoomFits(client)
      /\ JoinsFit(client) /\ ActsFit(client, calls, acts)
  BY TypedParts DEF Together, Fits, Shape
<1>2. Crossed(client, a, "over") \in Crossings
  BY <1>1, CrossingTypes
<1>3. c \in Clients /\ c.call = client.call /\ SameRoom(client, c) /\ SameStart(client, c)
  BY <1>1, <1>2, CrossingFields
<1>4. a.kind = "accept" /\ a.stage = "ok" /\ Become(d)
  BY DEF Accepts
<1> HIDE DEF c
<1>5. client.call = None
  BY <1>1 DEF StatusFits
<1>6. d \in Clients /\ d.status = "active" /\ d.call = None /\ SameStart(c, d) /\ SameRoom(c, d)
  BY <1>3, <1>5, JoinRoomFields
<1> HIDE DEF d
<1>7. /\ client'.status = "active" /\ client'.call = None
      /\ SameStart(client, client') /\ SameRoom(client, client')
  BY <1>3, <1>4, <1>6, BecomeFields DEF Alike, SameStart, SameRoom
<1>8. client.starting = "no" /\ client.pending = <<>> /\ client.created = None
  <2>1. client.starting = "no"
    BY <1>1 DEF Resting
  <2>2. client.pending = <<>>
    BY <1>1, <2>1 DEF Resting
  <2>3. client.created = None
    BY <1>1, <2>1, TypedParts DEF Named
  <2> QED
    BY <2>1, <2>2, <2>3
<1>9. /\ client.room = None /\ client.rooms = {} /\ client.held = None /\ client.contexts = {}
  BY <1>1 DEF RoomFits
<1>10. \A j \in client.joins : j.sess # client.session
  BY <1>1 DEF JoinsFit, JoinFits
<1>11. ASSUME NEW b \in acts', b.sess # None
       PROVE  b.sess # client.session
  <2>1. b \in acts \/ b = [a EXCEPT !.kind = "rejectBlocked", !.stage = "sent"]
    BY DEF ActAnswered
  <2>2. a.sess = None
    BY <1>1, <1>4 DEF ActsFit, ActHolds
  <2>3. a \in Requested
    BY TypedParts DEF Kept
  <2>4. b \in acts
    BY <1>11, <2>1, <2>2, <2>3 DEF Requested
  <2> QED
    BY <1>1, <1>11, <2>4 DEF ActsFit, ActFits
<1> QED
  BY <1>7, <1>8, <1>9, <1>10, <1>11 DEF Stranded, SameStart, SameRoom

LEMMA StrandedAnswered ==
    ASSUME Typed, Stranded(client, acts), client.crossed = "over",
           NEW a \in acts, ActAnswered(a), client'.crossed = "over"
    PROVE  Stranded(client', acts')
<1>1. client \in Clients /\ a \in Requested
  BY TypedParts DEF Kept
<1>2. \A b \in acts' : b.sess # None => \E x \in acts : x.sess = b.sess
  <2>1. \A b \in acts' : b \in acts \/ b = [a EXCEPT !.kind = "rejectBlocked", !.stage = "sent"]
    BY DEF ActAnswered
  <2>2. [a EXCEPT !.kind = "rejectBlocked", !.stage = "sent"].sess = a.sess
    BY <1>1 DEF Requested
  <2> QED
    BY <2>1, <2>2
<1>3. client.call # a.call /\ client.status = "active"
  BY <1>1, RequestedFields DEF Stranded
<1>4. Crossed(client, a, "over") = "other" /\ Crossed(client, a, client.crossed) = "other"
  BY <1>3 DEF Crossed
<1>5. CASE Accepts(a)
  <2> DEFINE c == Crossing(client, "other")
             d == JoinRoom([c EXCEPT !.status = "active"])
  <2>1. c \in Clients /\ c.crossed = "other"
    BY <1>1, CrossingFields DEF Crossings
  <2>2. Become(d)
    BY <1>4, <1>5 DEF Accepts
  <2> HIDE DEF c
  <2>3. d \in Clients /\ d.crossed = "other"
    BY <2>1, JoinRoomFields
  <2> HIDE DEF d
  <2> QED
    BY <2>2, <2>3, BecomeFields DEF Alike
<1>6. ASSUME NEW reason \in Reasons, NEW crossed \in Crossings, EndsWith(a, reason, crossed)
      PROVE  FALSE
  <2> DEFINE e == EndSession(client, reason)
             d == Crossing(e, crossed)
  <2>1. Become(d) /\ crossed = "other"
    BY <1>4, <1>6 DEF EndsWith
  <2>2. e \in Clients
    BY <1>1, EndSessionFields
  <2> HIDE DEF e
  <2>3. d \in Clients /\ d.crossed = "other"
    BY <2>1, <2>2, CrossingFields
  <2> HIDE DEF d
  <2> QED
    BY <2>1, <2>3, BecomeFields DEF Alike
<1>7. CASE HangsUp(a)
  <2> DEFINE c == LeftBy(client, a.sess)
  <2>1. client' = c
    BY <1>7 DEF HangsUp, Stranded
  <2>2. /\ c \in Clients /\ c.joins = {j \in client.joins : j.sess # a.sess}
        /\ c.session = client.session
        /\ c.room = client.room /\ c.rooms = client.rooms /\ c.contexts = client.contexts
        /\ c.held = client.held /\ c.status = client.status /\ c.call = client.call
        /\ SameStart(client, c)
    BY <1>1, LeftByFields
  <2> HIDE DEF c
  <2>3. c.joins \subseteq client.joins
    BY <2>2
  <2> QED
    BY <1>2, <2>1, <2>2, <2>3, StrandedKept
<1>8. CASE LeavesAlone(a)
  <2>1. client' = client
    BY <1>8 DEF LeavesAlone
  <2> QED
    BY <1>2, <2>1, StrandedKept DEF SameStart
<1> QED
  BY <1>5, <1>6, <1>7, <1>8, AnsweredCases

\* joinRoom of an older session goes on without a trace.
LEMMA StrandedLeft ==
    ASSUME NEW c \in Clients, NEW j, Stranded(c, acts), UNCHANGED acts, client' = Left(c, j)
    PROVE  Stranded(client', acts')
<1> DEFINE d == Left(c, j)
<1>1. /\ d.joins = c.joins \ {j} /\ d.session = c.session
      /\ d.room = c.room /\ d.rooms = c.rooms /\ d.contexts = c.contexts /\ d.held = c.held
      /\ d.status = c.status /\ d.call = c.call /\ SameStart(c, d)
  BY LeftFields
<1>2. client' = d
  OBVIOUS
<1> HIDE DEF d
<1>3. d.joins \subseteq c.joins
  BY <1>1
<1> QED
  BY <1>1, <1>2, <1>3, StrandedKept

LEMMA StrandedJoinFails ==
    ASSUME NEW c \in Clients, NEW j \in c.joins, Stranded(c, acts), JoinFails(c, j)
    PROVE  Stranded(client', acts')
BY StrandedLeft DEF JoinFails, Stranded

LEMMA StrandedJoining ==
    ASSUME Typed, Stranded(client, acts), Joining
    PROVE  Stranded(client', acts')
<1>1. client \in Clients
  BY TypedParts
<1>2. ASSUME NEW j \in client.joins, TokenAnswered(j)
      PROVE  Stranded(client', acts')
  <2>1. client' = Left(client, j) /\ UNCHANGED acts
    BY <1>2 DEF TokenAnswered, Stranded
  <2> QED
    BY <1>1, <2>1, StrandedLeft
<1>3. ASSUME NEW j \in client.joins, ConnectAnswered(j)
      PROVE  FALSE
  BY <1>3 DEF ConnectAnswered, Open, Stranded
<1>4. ASSUME NEW j \in client.joins, TokenFails(j) \/ ConnectFails(j)
      PROVE  Stranded(client', acts')
  BY <1>1, <1>4, StrandedJoinFails DEF TokenFails, ConnectFails
<1>5. ASSUME NEW ok \in BOOLEAN, MicrophoneApplied(ok)
      PROVE  Stranded(client', acts')
  <2>1. PICK a \in Applies, mic \in BOOLEAN :
           /\ client.applies # <<>>
           /\ IF ok THEN AppliedWell(Popped(client, mic), a, Owned(a))
              ELSE AppliedBadly(Popped(client, mic), a, Owned(a))
    BY <1>5, AppliedCases
  <2> DEFINE b == Popped(client, mic)
             muted == IF a.sess = client.session THEN ~a.on ELSE client.muted
             d == Goes(b, muted, Owned(a))
  <2>2. /\ b \in Clients /\ b.status = client.status /\ b.call = client.call
        /\ SameRoom(client, b) /\ SameStart(client, b)
    BY <1>1, <2>1, PoppedFields
  <2>3. \/ client' = d /\ UNCHANGED acts
        \/ client' = b /\ UNCHANGED acts
        \/ \E j \in Owned(a) : JoinFails(b, j)
    BY <2>1 DEF AppliedWell, AppliedBadly
  <2>4. muted \in BOOLEAN
    BY <1>1, ClientFields DEF Applies
  <2> HIDE DEF b, muted
  <2>5. Stranded(b, acts)
    BY <2>2, StrandedKept DEF SameRoom
  <2>6. /\ d.joins = b.joins \ Owned(a) /\ d.session = b.session
        /\ d.room = b.room /\ d.rooms = b.rooms /\ d.contexts = b.contexts /\ d.held = b.held
        /\ d.status = b.status /\ d.call = b.call /\ SameStart(b, d)
    BY <2>2, <2>4, GoesFields
  <2> HIDE DEF d
  <2>7. Stranded(d, acts)
    <3>1. d.joins \subseteq b.joins
      BY <2>6
    <3> QED
      BY <2>5, <2>6, <3>1, StrandedKept
  <2>8. ASSUME NEW j \in Owned(a), JoinFails(b, j)
        PROVE  Stranded(client', acts')
    <3>1. j \in b.joins
      BY <2>2 DEF Owned, SameRoom
    <3> QED
      BY <2>2, <2>5, <2>8, <3>1, StrandedJoinFails
  <2> QED
    BY <2>3, <2>5, <2>7, <2>8
<1> QED
  BY <1>2, <1>3, <1>4, <1>5 DEF Joining

LEMMA StrandedDelivered ==
    ASSUME Typed, Stranded(client, acts), DeliverSignal
    PROVE  Stranded(client', acts')
<1> DEFINE s == Told(1)
           d == Handled(client, s)
<1>1. client \in Clients /\ wire \in Seq(Sent) /\ wire # <<>> /\ Kept
  BY TypedParts DEF Kept, DeliverSignal
<1>2. 1 \in DOMAIN wire
  BY <1>1
<1>3. s \in Signals /\ s.call # None
  BY <1>1, <1>2, ToldFacts, WireCalls
<1>4. Become(HandleSignal(client, s)) /\ UNCHANGED acts
  BY <1>1 DEF DeliverSignal, Told
<1>5. Become(d)
  BY <1>4 DEF HandleSignal, Stranded
<1>6. s.call # client.call /\ client.status = "active"
  BY <1>3 DEF Stranded
<1> HIDE DEF s
<1>7. /\ d \in Clients /\ SameStart(client, d)
      /\ \/ Ignored(client, d, s) \/ Rings(client, d, s) \/ IsAccepted(client, d, s)
         \/ IsEnded(client, d, s) \/ d = client
  BY <1>1, <1>3, HandledFields
<1> HIDE DEF d
<1>8. d.status = client.status /\ d.call = client.call /\ SameRoom(client, d)
  BY <1>6, <1>7 DEF Ignored, Rings, IsAccepted, IsEnded, SameRoom
<1>9. /\ client'.status = client.status /\ client'.call = client.call
      /\ SameRoom(client, client') /\ SameStart(client, client')
  BY <1>5, <1>7, <1>8, BecomeFields DEF Alike, SameRoom, SameStart
<1> QED
  BY <1>4, <1>9, StrandedKept DEF SameRoom

LEMMA StrandedUser ==
    ASSUME Typed, Stranded(client, acts), User
    PROVE  Stranded(client', acts')
<1>1. client \in Clients
  BY TypedParts
<1>2. CASE TogglePreference
  <2> DEFINE c == [client EXCEPT !.pref = ~@]
  <2>1. client' = c /\ UNCHANGED acts
    BY <1>1, <1>2 DEF TogglePreference, Stranded, Clients
  <2>2. c.status = client.status /\ c.call = client.call /\ SameRoom(client, c) /\ SameStart(client, c)
    BY <1>1 DEF Clients, SameRoom, SameStart
  <2> HIDE DEF c
  <2> QED
    BY <2>1, <2>2, StrandedKept DEF SameRoom
<1> QED
  BY <1>2 DEF User, StartCall, Act, Stranded

LEMMA StrandedOthers ==
    ASSUME Typed, Stranded(client, acts),
           \/ ServerStarts \/ StartAnswered \/ Watching \/ Peer \/ Faults
           \/ \E a \in acts : ServerActs(a)
           \/ \E on \in BOOLEAN : Reconnecting(on)
           \/ UNCHANGED vars
    PROVE  Stranded(client', acts')
<1>1. acts \subseteq Requested
  BY TypedParts DEF Kept
<1>2. CASE ServerStarts \/ StartAnswered \/ \E on \in BOOLEAN : Reconnecting(on)
  BY <1>2 DEF ServerStarts, StartAnswered, Reconnecting, Stranded
<1>3. CASE Watching \/ Peer \/ UNCHANGED vars
  <2>1. client' = client /\ UNCHANGED acts
    BY <1>3 DEF Watching, ServerSeesRoom, Peer, PeerInvites, PeerAccepts, PeerVanishes, PeerEnds,
                vars, Stranded
  <2> QED
    BY <2>1
<1>4. CASE \E a \in acts : ServerActs(a) \/ ActLost(a)
  <2>1. PICK a \in acts : ServerActs(a) \/ ActLost(a)
    BY <1>4
  <2>2. PICK stage : client' = client /\ acts' = (acts \ {a}) \cup {[a EXCEPT !.stage = stage]}
    BY <2>1 DEF ServerActs, ActLost
  <2>3. [a EXCEPT !.stage = stage].sess = a.sess
    BY <1>1 DEF Requested
  <2>4. \A b \in acts' : b.sess # None => \E x \in acts : x.sess = b.sess
    BY <2>2, <2>3
  <2> QED
    BY <2>2, <2>4, StrandedKept DEF SameStart
<1>5. CASE Faults /\ ~\E a \in acts : ActLost(a)
  BY <1>5 DEF Faults, StartLost, SignalLost, RoomFails, Stranded
<1> QED
  BY <1>2, <1>3, <1>4, <1>5

\* Only the answer to an accept can begin it.
LEMMA StrandedFromAccept ==
    ASSUME Typed, [Next]_vars, client'.crossed = "over", client.crossed # "over"
    PROVE  /\ client.crossed = "no" /\ client.status = "idle"
           /\ \E a \in acts : ActAnswered(a) /\ Accepts(a)
<1>1. client.crossed \in {"no", "other"}
  <2>1. client.crossed \in Crossings
    BY TypedParts, ClientFields
  <2> QED
    BY <2>1 DEF Crossings
<1>2. client.status = "idle" /\ \E a \in acts : ActAnswered(a) /\ Accepts(a)
  <2> DEFINE S == {"no", "other"}
  <2>1. "other" \in S /\ client.crossed \in S /\ client'.crossed \notin S
    BY <1>1
  <2> HIDE DEF S
  <2> QED
    BY <2>1, CrossedStays
<1>3. client.crossed # "other"
  <2> SUFFICES ASSUME client.crossed = "other" PROVE FALSE
    OBVIOUS
  <2>1. PICK a \in acts : ActAnswered(a) /\ Accepts(a)
    BY <1>2
  <2> DEFINE c == Crossing(client, Crossed(client, a, "over"))
             d == JoinRoom([c EXCEPT !.status = "active"])
  <2>2. Crossed(client, a, "over") = "other" /\ "other" \in Crossings /\ client \in Clients
    BY TypedParts DEF Crossed, Crossings
  <2>3. c \in Clients /\ c.crossed = "other"
    BY <2>2, CrossingFields
  <2>4. Become(d)
    BY <2>1 DEF Accepts
  <2> HIDE DEF c
  <2>5. d \in Clients /\ d.crossed = "other"
    BY <2>3, JoinRoomFields
  <2> HIDE DEF d
  <2> QED
    BY <2>4, <2>5, BecomeFields DEF Alike
<1> QED
  BY <1>1, <1>2, <1>3

LEMMA StrandedStep ==
    ASSUME Typed, RoomInvariant, StrandedInvariant, [Next]_vars
    PROVE  StrandedInvariant'
<1> SUFFICES ASSUME client'.crossed = "over"
             PROVE  Stranded(client', acts')
  BY DEF StrandedInvariant
<1>1. CASE client.crossed # "over"
  BY <1>1, StrandedFromAccept, StrandedBegins DEF RoomInvariant
<1>2. CASE client.crossed = "over"
  <2>1. Stranded(client, acts)
    BY <1>2 DEF StrandedInvariant
  <2>2. CASE \E a \in acts : ActAnswered(a)
    BY <1>2, <2>1, <2>2, StrandedAnswered
  <2> QED
    BY <2>1, <2>2, StrandedJoining, StrandedDelivered, StrandedUser, StrandedOthers
       DEF Next, Requests
<1> QED
  BY <1>1, <1>2

LEMMA RoomAlways == Spec => [](Typed /\ ServerFits /\ RoomInvariant /\ StrandedInvariant)
<1> DEFINE All == Typed /\ ServerFits /\ RoomInvariant /\ StrandedInvariant
<1>1. Init => All
  <2>1. Init => StrandedInvariant
    BY DEF Init, StrandedInvariant
  <2> QED
    BY <2>1, TypedInit, ServerInit, RoomInit
<1>2. All /\ [Next]_vars => All'
  BY TypedStep, ServerStep, RoomStep, StrandedStep
<1> QED
  BY <1>1, <1>2, PTL DEF Spec

LEMMA CrossingCases ==
    ASSUME Typed, client.crossed # "other"
    PROVE  client.crossed = "no" \/ client.crossed = "over"
BY TypedParts, ClientFields DEF Crossings

LEMMA NoRoomLeftHolds ==
    ASSUME Typed, RoomInvariant, StrandedInvariant
    PROVE  NoRoomLeft
<1>0. CASE client.crossed = "over"
  BY <1>0 DEF NoRoomLeft, StrandedInvariant, Stranded
<1> SUFFICES ASSUME client.crossed = "no" PROVE NoRoomLeft
  BY <1>0, CrossingCases DEF NoRoomLeft
<1>1. Shape(client)
  BY DEF RoomInvariant, Together, Fits
<1>2. RoomFits(client)
  BY <1>1 DEF Shape
<1>3. \A r \in client.rooms : r.sess = client.room
  BY <1>2 DEF RoomFits, Up, Down
<1>4. client.room # None => client.status = "active" /\ client.rooms # {}
  BY <1>2 DEF RoomFits, Up, Down
<1>5. client.held = client.room /\ client.contexts = IF client.held = None THEN {} ELSE {client.held}
  BY <1>2 DEF RoomFits
<1> QED
  BY <1>3, <1>4, <1>5 DEF NoRoomLeft

\* Nobody leaves a room behind: whatever order the answers to tokens,
\* connections, requests and signals come in, and whichever of them fail, the
\* only room is the store's, in an active call, unless the crossing was "other".
THEOREM NoRoomIsLeft == Spec => []NoRoomLeft
<1>1. Typed /\ ServerFits /\ RoomInvariant /\ StrandedInvariant => NoRoomLeft
  BY NoRoomLeftHolds
<1> QED
  BY <1>1, RoomAlways, PTL

LEMMA MicrophoneHolds ==
    ASSUME Typed, RoomInvariant, StrandedInvariant
    PROVE  MicrophoneAsPreferred
<1> SUFFICES ASSUME Quiet, client.room # None, spent.failures = 0, client.crossed = "no"
             PROVE  client.mic = client.pref /\ client.muted = ~client.pref
  BY CrossingCases DEF MicrophoneAsPreferred, StrandedInvariant, Stranded
<1>1. MicrophoneFits(client, 0)
  BY DEF RoomInvariant, Together
<1>2. client.joins = {} /\ client.applies = <<>>
  BY DEF Quiet
<1> QED
  BY <1>1, <1>2 DEF MicrophoneFits

\* The last change of the microphone is what the preference wants: toggles
\* while the call is joined are not lost.
THEOREM MicrophoneFollows == Spec => []MicrophoneAsPreferred
<1>1. Typed /\ ServerFits /\ RoomInvariant /\ StrandedInvariant => MicrophoneAsPreferred
  BY MicrophoneHolds
<1> QED
  BY <1>1, RoomAlways, PTL
-----------------------------------------------------------------------------
(* The overlay and the toasts. *)

\* The signals still under way.
Ahead == {client.pending[p] : p \in DOMAIN client.pending} \cup {Told(p) : p \in DOMAIN wire}
Invite(i) == [call |-> i, type |-> "invite"]
Accept(i) == [call |-> i, type |-> "accept"]
Ends(i, signals) == \E s \in signals : s.call = i /\ s.type \in Reasons

\* The call that is shown, or was created to be.
Shown(c) == IF c.status = "outgoing" /\ c.call = None THEN c.created ELSE c.call

\* The client shows the call's state, or what changes that is under way.
OutgoingFits(i, k, as, signals) ==
    /\ k.in = "no"
    /\ k.state = "active" => Accept(i) \in signals
    /\ k.state = "ended" =>
            Ends(i, signals) \/ Accept(i) \in signals \/ Answered(as, "cancel", i)

RingingFits(i, k, as, signals) ==
    /\ k.in = "no"
    /\ k.state = "active" => Answered(as, "accept", i)
    /\ k.state = "ended" =>
            \/ Ends(i, signals) \/ Answered(as, "accept", i)
            \/ Answered(as, "reject", i) \/ Answered(as, "rejectBlocked", i)

ActiveFits(i, k, as, signals) ==
    k.state = "ended" => Ends(i, signals) \/ Answered(as, "hangup", i) \/ k.in # "seen"

ShownFits(c, ks, as, signals) ==
    /\ c.status = "outgoing" /\ Shown(c) # None =>
            OutgoingFits(Shown(c), ks[Shown(c)], as, signals)
    /\ c.status = "ringing" => RingingFits(c.call, ks[c.call], as, signals)
    /\ c.status = "active" => ActiveFits(c.call, ks[c.call], as, signals)
    /\ c.room # None /\ Up(c) => ks[c.call].in # "no"

\* A call that is not shown is being told of, or has been left.
OthersFit(c, ks, signals) ==
    \A i \in DOMAIN ks : ks[i].state # "ended" /\ i # Shown(c) =>
        \/ ks[i].state = "ringing" /\ Invite(i) \in signals
        \/ ks[i].state = "active" /\ ks[i].in # "no" /\ c.created = None

InvitedFit(ks, signals) ==
    \A i \in DOMAIN ks : Invite(i) \in signals =>
        /\ ks[i].in = "no" /\ ks[i].state # "active"
        /\ ks[i].state = "ended" => Ends(i, signals)

Agrees(c, ks, as, signals) ==
    ShownFits(c, ks, as, signals) /\ OthersFit(c, ks, signals) /\ InvitedFit(ks, signals)

\* A call older than the one being created, or that one, unless an invitation
\* comes first.
CreatedFits(c, ws) ==
    c.created # None =>
        /\ \A p \in DOMAIN c.pending : c.pending[p].call <= c.created
        /\ \A p \in DOMAIN ws : ws[p].call > c.created =>
                \E q \in DOMAIN ws : q <= p /\ ws[q].event = "invite"

\* The toast says how the call last shown ended.
ToastFits(c, ks) ==
    c.status = "idle" /\ c.shown # None =>
        LET k == ks[c.shown] IN
        /\ k.state # "ringing"
        /\ k.state = "ended" /\ k.rang =>
                c.toast = IF k.by = "me" THEN NoReason ELSE k.reason

\* A request that failed was lost.
FailuresLost ==
    /\ \A a \in acts : a.stage = "failed" => lost
    /\ client.starting = "failed" => lost

Undisturbed == ~lost /\ client.crossed = "no" /\ ~Invited(client)

Telling ==
    /\ Agrees(client, calls, acts, Ahead)
    /\ CreatedFits(client, wire)
    /\ ToastFits(client, calls)

TellingInvariant == FailuresLost /\ (Undisturbed => Telling)

InviteFields ==
    \A i : /\ Invite(i).call = i /\ Invite(i).type = "invite"
           /\ Accept(i).call = i /\ Accept(i).type = "accept"

LEMMA InviteFacts == InviteFields
BY DEF InviteFields, Invite, Accept

\* A signal is an invitation, an acceptance or an end.
LEMMA SignalIs ==
    ASSUME NEW s \in Signals
    PROVE  /\ s.type = "invite" => s = Invite(s.call)
           /\ s.type = "accept" => s = Accept(s.call)
           /\ s.type \in Reasons \cup {"invite", "accept"} /\ s.call \in Nat
<1>1. s = [call |-> s.call, type |-> s.type]
  BY DEF Signals
<1>2. s.type \in Reasons \cup {"invite", "accept"} /\ s.call \in Nat
  BY DEF Signals
<1> QED
  BY <1>1, <1>2 DEF Invite, Accept

\* The call that is shown is one of these.
IsShown(c, ks) ==
    /\ c.status = "outgoing" /\ Shown(c) # None => Shown(c) \in DOMAIN ks
    /\ c.status \in {"ringing", "active"} => c.call \in DOMAIN ks
    /\ c.room # None => c.status = "active"

\* What Agrees says of one call, whose record is k.
CallFits(c, i, k, as, signals) ==
    /\ c.status = "outgoing" /\ Shown(c) = i => OutgoingFits(i, k, as, signals)
    /\ c.status = "ringing" /\ c.call = i => RingingFits(i, k, as, signals)
    /\ c.status = "active" /\ c.call = i => ActiveFits(i, k, as, signals)
    /\ c.room # None /\ Up(c) /\ c.call = i => k.in # "no"
    /\ i # Shown(c) /\ k.state # "ended" =>
            \/ k.state = "ringing" /\ Invite(i) \in signals
            \/ k.state = "active" /\ k.in # "no" /\ c.created = None
    /\ Invite(i) \in signals =>
            /\ k.in = "no" /\ k.state # "active"
            /\ k.state = "ended" => Ends(i, signals)

\* Nothing is done to another call than i, nor said of one.
OnlyCall(i, ks, ms, X, Y) ==
    /\ DOMAIN ms = DOMAIN ks /\ \A x \in DOMAIN ks : x # i => ms[x] = ks[x]
    /\ X \subseteq Y /\ \A t \in Y : t \in X \/ t.call = i
NoneForgotten(as, bs) ==
    \A kind, call : Answered(as, kind, call) => Answered(bs, kind, call)

\* One call moves on, and is told of or answered for.
LEMMA AgreesCall ==
    ASSUME NEW c, NEW ks, NEW ms, NEW as, NEW bs, NEW X, NEW Y, NEW i,
           Agrees(c, ks, as, X), IsShown(c, ks), OnlyCall(i, ks, ms, X, Y),
           NoneForgotten(as, bs), CallFits(c, i, ms[i], bs, Y)
    PROVE  Agrees(c, ms, bs, Y)
<1> USE DEF OnlyCall, NoneForgotten, CallFits, IsShown
<1>1. ShownFits(c, ks, as, X) /\ OthersFit(c, ks, X) /\ InvitedFit(ks, X)
  BY DEF Agrees
<1>2. \A x : Ends(x, X) => Ends(x, Y)
  BY DEF Ends
<1>3. ShownFits(c, ms, bs, Y)
  <2>1. c.status = "outgoing" /\ Shown(c) # None =>
            OutgoingFits(Shown(c), ms[Shown(c)], bs, Y)
    BY <1>1, <1>2 DEF ShownFits, OutgoingFits
  <2>2. c.status = "ringing" => RingingFits(c.call, ms[c.call], bs, Y)
    BY <1>1, <1>2 DEF ShownFits, RingingFits
  <2>3. c.status = "active" => ActiveFits(c.call, ms[c.call], bs, Y)
    BY <1>1, <1>2 DEF ShownFits, ActiveFits
  <2>4. c.room # None /\ Up(c) => ms[c.call].in # "no"
    BY <1>1 DEF ShownFits
  <2> QED
    BY <2>1, <2>2, <2>3, <2>4 DEF ShownFits
<1>4. OthersFit(c, ms, Y)
  BY <1>1 DEF OthersFit
<1>5. ASSUME NEW x \in DOMAIN ms, Invite(x) \in Y
      PROVE  /\ ms[x].in = "no" /\ ms[x].state # "active"
             /\ ms[x].state = "ended" => Ends(x, Y)
  <2>1. CASE x = i
    BY <1>5, <2>1
  <2>2. CASE x # i
    <3>1. Invite(x) \in X
      BY <1>5, <2>2, InviteFacts DEF InviteFields
    <3> QED
      BY <1>1, <1>2, <2>2, <3>1 DEF InvitedFit
  <2> QED
    BY <2>1, <2>2
<1> QED
  BY <1>3, <1>4, <1>5 DEF Agrees, InvitedFit

\* What a request for the call i was answered is known still.
Keeps(as, bs, i) ==
    \A kind \in Kinds \ {"block"} : Answered(as, kind, i) => Answered(bs, kind, i)

\* The same call is shown, the same signals are under way, and a room is up only
\* in a call that was joined.
LEMMA AgreesAlike ==
    ASSUME NEW c, NEW d, NEW ks, NEW as, NEW bs, NEW X, Agrees(c, ks, as, X),
           d.status = c.status, d.created \in {c.created, None},
           d.call = c.call \/ (c.status = "outgoing" /\ d.room = None),
           Shown(d) = Shown(c), Keeps(as, bs, Shown(c)),
           d.room # None /\ Up(d) => (c.room # None /\ Up(c)) \/ ks[d.call].in # "no"
    PROVE  Agrees(d, ks, bs, X)
<1>1. ShownFits(c, ks, as, X) /\ OthersFit(c, ks, X) /\ InvitedFit(ks, X)
  BY DEF Agrees
<1>2. \A kind \in {"accept", "reject", "rejectBlocked", "cancel", "hangup"} :
            Answered(as, kind, Shown(c)) => Answered(bs, kind, Shown(c))
  BY DEF Keeps, Kinds
<1>3. c.status # "outgoing" => Shown(c) = c.call
  BY DEF Shown
<1>4. d.status = "outgoing" /\ Shown(d) # None => OutgoingFits(Shown(d), ks[Shown(d)], bs, X)
  BY <1>1, <1>2 DEF ShownFits, OutgoingFits
<1>5. d.status = "ringing" => RingingFits(d.call, ks[d.call], bs, X)
  BY <1>1, <1>2, <1>3 DEF ShownFits, RingingFits
<1>6. d.status = "active" => ActiveFits(d.call, ks[d.call], bs, X)
  BY <1>1, <1>2, <1>3 DEF ShownFits, ActiveFits
<1>7. d.room # None /\ Up(d) => ks[d.call].in # "no"
  BY <1>1 DEF ShownFits
<1>8. ShownFits(d, ks, bs, X)
  BY <1>4, <1>5, <1>6, <1>7 DEF ShownFits
<1>9. OthersFit(d, ks, X)
  BY <1>1 DEF OthersFit
<1> QED
  BY <1>1, <1>8, <1>9 DEF Agrees

\* No call is shown any more: that which was has ended, or was left.
LEMMA AgreesIdle ==
    ASSUME NEW c, NEW d, NEW ks, NEW as, NEW bs, NEW X, NEW Y, Agrees(c, ks, as, X),
           Shown(c) \in DOMAIN ks =>
                \/ ks[Shown(c)].state = "ended"
                \/ ks[Shown(c)].state = "active" /\ ks[Shown(c)].in # "no" /\ d.created = None,
           d.status \in {"idle", "outgoing"}, d.status = "outgoing" => Shown(d) = None,
           d.room = None, d.created = c.created,
           \A i \in DOMAIN ks : Invite(i) \in X => Invite(i) \in Y,
           InvitedFit(ks, Y)
    PROVE  Agrees(d, ks, bs, Y)
<1>1. OthersFit(c, ks, X)
  BY DEF Agrees
<1>2. ShownFits(d, ks, bs, Y)
  BY DEF ShownFits
<1>3. ASSUME NEW i \in DOMAIN ks, ks[i].state # "ended"
      PROVE  \/ ks[i].state = "ringing" /\ Invite(i) \in Y
             \/ ks[i].state = "active" /\ ks[i].in # "no" /\ d.created = None
  <2>1. CASE i = Shown(c)
    BY <1>3, <2>1
  <2>2. CASE i # Shown(c)
    BY <1>1, <1>3, <2>2 DEF OthersFit
  <2> QED
    BY <2>1, <2>2
<1> QED
  BY <1>2, <1>3 DEF Agrees, OthersFit

\* The call that is shown is joined: its room is not up yet.
LEMMA AgreesJoin ==
    ASSUME NEW c, NEW d, NEW ks, NEW as, NEW bs, NEW X, NEW Y, Agrees(c, ks, as, X),
           c.status \in {"outgoing", "ringing"}, c.call # None,
           d.status = "active", d.call = c.call, d.room = None, d.created = c.created,
           \A i \in DOMAIN ks : Invite(i) \in X => Invite(i) \in Y,
           InvitedFit(ks, Y)
    PROVE  Agrees(d, ks, bs, Y)
<1>1. ShownFits(c, ks, as, X) /\ OthersFit(c, ks, X)
  BY DEF Agrees
<1>2. Shown(c) = c.call /\ Shown(d) = c.call
  BY DEF Shown
<1>3. ks[c.call].in = "no"
  BY <1>1, <1>2 DEF ShownFits, OutgoingFits, RingingFits
<1>4. ShownFits(d, ks, bs, Y)
  BY <1>3 DEF ShownFits, ActiveFits
<1>5. OthersFit(d, ks, Y)
  BY <1>1, <1>2 DEF OthersFit
<1> QED
  BY <1>4, <1>5 DEF Agrees

\* A signal is handled, that no invitation to its call comes behind.
LEMMA InvitedLess ==
    ASSUME NEW ks, NEW X, NEW Y, InvitedFit(ks, X), NEW s \in Signals,
           Y \subseteq X, X \subseteq Y \cup {s}, Invite(s.call) \notin Y
    PROVE  InvitedFit(ks, Y)
BY InviteFacts DEF InvitedFit, Ends, InviteFields

\* A signal is handled: what is under way is one signal less.
LEMMA AgreesHandled ==
    ASSUME NEW c \in Clients, NEW ks, NEW as, as \subseteq Requested, NEW ws, Fits(c, ks, as, ws),
           NEW X, NEW Y, Agrees(c, ks, as, X),
           NEW s \in Signals, s.call \in DOMAIN ks, s.call # None, SignalHolds(ks[s.call], s),
           s \in X, Y \subseteq X, X \subseteq Y \cup {s}, Invite(s.call) \notin Y,
           ~(c.status = "outgoing" /\ c.call = None),
           None \notin DOMAIN ks, s.type = "invite" => c.call # s.call,
           Handled(c, s).crossed = "no"
    PROVE  Agrees(Handled(c, s), ks, as, Y)
<1> DEFINE d == Handled(c, s)
<1> SUFFICES ASSUME d.crossed = "no" PROVE Agrees(d, ks, as, Y)
  OBVIOUS
<1>1. /\ d \in Clients /\ SameStart(c, d) /\ SameExperience(c, d)
      /\ \/ Ignored(c, d, s) \/ Rings(c, d, s) \/ IsAccepted(c, d, s) \/ IsEnded(c, d, s)
         \/ s.type = "accept" /\ c.status # "outgoing" /\ d = c
  BY HandledFields
<1> HIDE DEF d
<1>2. ShownFits(c, ks, as, X) /\ OthersFit(c, ks, X) /\ InvitedFit(ks, X)
  BY DEF Agrees
<1>3. StatusFits(c, ks) /\ Shape(c)
  BY DEF Fits
<1>4. InvitedFit(ks, Y)
  BY <1>2, InvitedLess
<1>5. Shown(c) = c.call
  BY DEF Shown
<1>6. \A x : x # s.call => /\ Ends(x, X) => Ends(x, Y)
                           /\ Invite(x) \in X => Invite(x) \in Y
                           /\ Accept(x) \in X => Accept(x) \in Y
  BY InviteFacts DEF Ends, InviteFields
<1>7. s.type # "invite" => \A x : Invite(x) \in X => Invite(x) \in Y
  BY InviteFacts DEF InviteFields
<1>8. s.type \notin Reasons => \A x : Ends(x, X) => Ends(x, Y)
  BY DEF Ends
<1>9. CASE Ignored(c, d, s)
  <2>1. /\ s.call # c.call /\ s.type # "invite" /\ d.status = c.status /\ d.call = c.call
        /\ SameRoom(c, d)
    BY <1>9 DEF Ignored, Beside
  <2>2. Shown(d) = c.call
    BY <2>1 DEF Shown
  <2>3. ShownFits(d, ks, as, Y)
    BY <1>2, <1>5, <1>6, <2>1, <2>2
       DEF ShownFits, OutgoingFits, RingingFits, ActiveFits, SameRoom, Up
  <2>4. OthersFit(d, ks, Y)
    BY <1>1, <1>2, <1>5, <1>7, <2>1, <2>2 DEF OthersFit, SameStart
  <2> QED
    BY <1>4, <2>3, <2>4 DEF Agrees
<1>10. CASE Rings(c, d, s)
  <2>1. /\ s.type = "invite" /\ d.status = "ringing" /\ d.call = s.call /\ SameRoom(c, d)
        /\ s.call = c.call \/ c.status = "idle"
    BY <1>10 DEF Rings
  <2>2. Shown(d) = s.call
    BY <2>1 DEF Shown
  <2>3. s = Invite(s.call)
    BY <2>1, SignalIs
  <2>4. /\ ks[s.call].in = "no" /\ ks[s.call].state # "active"
        /\ ks[s.call].state = "ended" => Ends(s.call, X)
    BY <1>2, <2>3 DEF InvitedFit
  <2>5. RingingFits(s.call, ks[s.call], as, Y)
    BY <1>8, <2>1, <2>4, ReasonFacts DEF RingingFits
  <2>6. c.status = "idle" /\ c.call = None /\ c.room = None /\ d.room = None
    BY <1>3, <2>1, ShapeOutside DEF StatusFits, SameRoom
  <2>7. ShownFits(d, ks, as, Y)
    BY <2>1, <2>5, <2>6 DEF ShownFits
  <2>8. ASSUME NEW i \in DOMAIN ks, ks[i].state # "ended", i # s.call
        PROVE  \/ ks[i].state = "ringing" /\ Invite(i) \in Y
               \/ ks[i].state = "active" /\ ks[i].in # "no" /\ d.created = None
    BY <1>1, <1>2, <1>5, <1>6, <2>6, <2>8 DEF OthersFit, SameStart
  <2>9. OthersFit(d, ks, Y)
    BY <2>2, <2>8 DEF OthersFit
  <2> QED
    BY <1>4, <2>7, <2>9 DEF Agrees
<1>11. CASE IsAccepted(c, d, s)
  <2>1. /\ c.status = "outgoing" /\ c.call # None /\ s.type # "invite"
        /\ d = JoinRoom([c EXCEPT !.status = "active"])
    BY <1>11 DEF IsAccepted
  <2>2. d.status = "active" /\ d.call = c.call /\ d.room = c.room /\ d.created = c.created
    BY <1>1, <2>1, JoinRoomFields DEF SameStart
  <2>3. d.room = None
    BY <1>3, <2>1, <2>2, ShapeOutside
  <2>4. \A i \in DOMAIN ks : Invite(i) \in X => Invite(i) \in Y
    BY <1>7, <2>1
  <2> QED
    BY <1>4, <2>1, <2>2, <2>3, <2>4, AgreesJoin
<1>12. CASE IsEnded(c, d, s)
  <2>1. s.type \in Reasons /\ (s.call = c.call \/ c.status = "idle") /\ d = EndSession(c, s.type)
    BY <1>12 DEF IsEnded
  <2>2. ks[s.call].state = "ended" /\ s.type # "invite"
    BY <2>1, ReasonFacts DEF SignalHolds
  <2>3. d.status = "idle" /\ d.room = None /\ d.created = c.created
    BY <1>1, <2>1, EndSessionFields DEF SameStart
  <2>4. Shown(c) \in DOMAIN ks => ks[Shown(c)].state = "ended"
    BY <1>3, <1>5, <2>1, <2>2 DEF StatusFits
  <2>5. \A i \in DOMAIN ks : Invite(i) \in X => Invite(i) \in Y
    BY <1>7, <2>2
  <2> QED
    BY <1>4, <2>3, <2>4, <2>5, AgreesIdle
<1>13. CASE s.type = "accept" /\ c.status # "outgoing" /\ d = c
  <2>1. s.type # "invite" /\ s.type \notin Reasons
    BY <1>13, ReasonFacts
  <2>2. ShownFits(c, ks, as, Y)
    <3>1. c.status = "ringing" => RingingFits(c.call, ks[c.call], as, Y)
      BY <1>2, <1>8, <2>1 DEF ShownFits, RingingFits
    <3>2. c.status = "active" => ActiveFits(c.call, ks[c.call], as, Y)
      BY <1>2, <1>8, <2>1 DEF ShownFits, ActiveFits
    <3> QED
      BY <1>2, <1>13, <3>1, <3>2 DEF ShownFits
  <2>3. OthersFit(c, ks, Y)
    BY <1>2, <1>7, <2>1 DEF OthersFit
  <2> QED
    BY <1>4, <1>13, <2>2, <2>3 DEF Agrees
<1> QED
  BY <1>1, <1>9, <1>10, <1>11, <1>12, <1>13

\* One more call: it rings, and its callee is told of it, or its caller is this
\* client.
LEMMA AgreesNew ==
    ASSUME NEW c, NEW d, NEW ks, NEW ms, NEW as, NEW X, NEW Y, NEW n, Agrees(c, ks, as, X),
           n \notin DOMAIN ks, DOMAIN ms = DOMAIN ks \cup {n},
           \A i \in DOMAIN ks : ms[i] = ks[i] /\ ks[i].state = "ended",
           ms[n].state = "ringing", ms[n].in = "no",
           d.status = c.status, d.call = c.call, d.room = c.room, Up(d) <=> Up(c),
           X \subseteq Y, \A t \in Y : t \in X \/ t.call = n,
           IsShown(c, ks),
           Shown(d) = Shown(c) \/ (d.status = "outgoing" /\ Shown(d) = n),
           Shown(d) = n \/ Invite(n) \in Y
    PROVE  Agrees(d, ms, as, Y)
<1> USE DEF IsShown
<1>1. ShownFits(c, ks, as, X) /\ OthersFit(c, ks, X) /\ InvitedFit(ks, X)
  BY DEF Agrees
<1>2. \A x : Ends(x, X) => Ends(x, Y)
  BY DEF Ends
<1>3. ShownFits(d, ms, as, Y)
  <2>1. ASSUME d.status = "outgoing", Shown(d) # None
        PROVE  OutgoingFits(Shown(d), ms[Shown(d)], as, Y)
    <3>1. CASE Shown(d) = n
      BY <3>1 DEF OutgoingFits
    <3>2. CASE Shown(d) # n
      BY <1>1, <1>2, <2>1, <3>2 DEF ShownFits, OutgoingFits
    <3> QED
      BY <3>1, <3>2
  <2>2. d.status = "ringing" => RingingFits(d.call, ms[d.call], as, Y)
    BY <1>1, <1>2 DEF ShownFits, RingingFits
  <2>3. d.status = "active" => ActiveFits(d.call, ms[d.call], as, Y)
    BY <1>1, <1>2 DEF ShownFits, ActiveFits
  <2>4. d.room # None /\ Up(d) => ms[d.call].in # "no"
    BY <1>1 DEF ShownFits
  <2> QED
    BY <2>1, <2>2, <2>3, <2>4 DEF ShownFits
<1>4. OthersFit(d, ms, Y)
  BY DEF OthersFit
<1>5. ASSUME NEW x \in DOMAIN ms, Invite(x) \in Y
      PROVE  /\ ms[x].in = "no" /\ ms[x].state # "active"
             /\ ms[x].state = "ended" => Ends(x, Y)
  <2>1. CASE x = n
    BY <2>1
  <2>2. CASE x # n
    <3>1. Invite(x) \in X
      BY <1>5, <2>2, InviteFacts DEF InviteFields
    <3> QED
      BY <1>1, <1>2, <2>2, <3>1 DEF InvitedFit
  <2> QED
    BY <2>1, <2>2
<1> QED
  BY <1>3, <1>4, <1>5 DEF Agrees, InvitedFit

-----------------------------------------------------------------------------
(* What is known before a step, and when nothing disturbs it *)

Known == Typed /\ ServerFits /\ Together /\ FailuresLost /\ Undisturbed /\ Telling
Moves == Known /\ Typed' /\ ServerFits' /\ Together' /\ CallsAdvance /\ Undisturbed'

LEMMA KnownParts ==
    ASSUME Known
    PROVE  /\ Typed /\ client \in Clients /\ Named(client) /\ calls \in Seq(Calls)
           /\ Len(calls) \in Nat /\ DOMAIN calls = 1..Len(calls) /\ None \notin DOMAIN calls
           /\ Kept /\ ServerFits /\ Together
           /\ Fits(client, calls, acts, wire) /\ StatusFits(client, calls) /\ Shape(client)
           /\ ActsFit(client, calls, acts) /\ InvitesFit(client, acts, wire) /\ Resting(client)
           /\ Agrees(client, calls, acts, Ahead) /\ ShownFits(client, calls, acts, Ahead)
           /\ OthersFit(client, calls, Ahead) /\ InvitedFit(calls, Ahead)
           /\ CreatedFits(client, wire) /\ ToastFits(client, calls)
<1>1. Typed /\ ServerFits /\ Together /\ Telling
  BY DEF Known
<1>2. /\ client \in Clients /\ Named(client) /\ calls \in Seq(Calls)
      /\ Len(calls) \in Nat /\ DOMAIN calls = 1..Len(calls) /\ Kept
  BY <1>1, TypedParts
<1>3. None \notin DOMAIN calls
  BY <1>2
<1> QED
  BY <1>1, <1>2, <1>3 DEF Together, Fits, Telling, Agrees

\* Which call is shown: while the answer to startCall is awaited, the one that
\* was created.
LEMMA ShownFacts ==
    ASSUME Known
    PROVE  /\ Waits(client) <=> client.starting # "no"
           /\ ~Waits(client) => /\ client.created = None /\ client.pending = <<>>
                                /\ Shown(client) = client.call
           /\ Waits(client) => Shown(client) = client.created
           /\ Shown(client) # None => Shown(client) \in DOMAIN calls
           /\ client.status \in {"ringing", "active"} =>
                    client.call \in DOMAIN calls /\ ~Waits(client)
           /\ client.call # None => client.call \in DOMAIN calls /\ ~Waits(client)
           /\ client.room # None => client.status = "active"
           /\ client.status = "idle" => Shown(client) = None
<1>1. /\ client \in Clients /\ Named(client) /\ DOMAIN calls = 1..Len(calls) /\ Len(calls) \in Nat
      /\ StatusFits(client, calls) /\ Shape(client) /\ Resting(client)
  BY KnownParts
<1>2. client.call \in Nat /\ client.created \in Nat
  BY <1>1, ClientFields
<1>3. Waits(client) <=> client.starting # "no"
  BY <1>1 DEF Waits, Resting
<1>4. ~Waits(client) => client.created = None /\ client.pending = <<>>
  BY <1>1, <1>3 DEF Named, Resting
<1>5. ~Waits(client) => Shown(client) = client.call
  BY <1>1, <1>3 DEF Shown, Resting
<1>6. Waits(client) => Shown(client) = client.created /\ client.call = None
                       /\ client.status = "outgoing"
  BY DEF Waits, Shown
<1>7. client.call # None => client.call \in DOMAIN calls
  BY <1>1, <1>2 DEF Named
<1>8. client.created # None => client.created \in DOMAIN calls
  BY <1>1, <1>2 DEF Named
<1>9. client.room # None => client.status = "active"
  BY <1>1, ShapeOutside
<1>10. client.status \in {"ringing", "active"} => client.call # None
  BY <1>1 DEF StatusFits
<1>11. client.status = "idle" => client.call = None
  BY <1>1 DEF StatusFits
<1> QED
  BY <1>3, <1>4, <1>5, <1>6, <1>7, <1>8, <1>9, <1>10, <1>11

\* What is so of a request under way.
LEMMA KnownAct ==
    ASSUME Known, NEW a \in acts
    PROVE  /\ a \in Requested /\ a.call \in DOMAIN calls /\ a.call # None
           /\ ActHolds(a, calls[a.call]) /\ ActFits(client, a)
           /\ a.stage # "failed"
<1>1. /\ Kept /\ DOMAIN calls = 1..Len(calls) /\ Len(calls) \in Nat
      /\ ActsFit(client, calls, acts)
  BY KnownParts
<1>2. a \in Requested /\ a.call <= Len(calls)
  BY <1>1 DEF Kept
<1>3. a.call \in Nat /\ a.call # None
  BY <1>2, RequestedFields
<1>4. a.stage # "failed"
  BY DEF Known, FailuresLost, Undisturbed
<1> QED
  BY <1>1, <1>2, <1>3, <1>4 DEF ActsFit

\* What is so of a signal under way.
LEMMA AheadFacts ==
    ASSUME Typed, ServerFits, NEW s \in Ahead
    PROVE  s \in Signals /\ s.call \in DOMAIN calls /\ SignalHolds(calls[s.call], s)
<1>1. CASE \E p \in DOMAIN client.pending : s = client.pending[p]
  BY <1>1, PendingFacts DEF ServerFits, SignalsFit
<1>2. CASE \E p \in DOMAIN wire : s = Told(p)
  <2>1. PICK p \in DOMAIN wire : s = Told(p)
    BY <1>2
  <2>2. s \in Signals /\ s.call = wire[p].call /\ s.call \in DOMAIN calls
    BY <2>1, ToldFacts
  <2>3. SignalHolds(calls[wire[p].call], Told(p))
    BY DEF ServerFits, SignalsFit
  <2> QED
    BY <2>1, <2>2, <2>3
<1> QED
  BY <1>1, <1>2 DEF Ahead

\* Nobody has acted on a call whose invitation is under way, and it is the
\* peer's.
LEMMA InvitedFacts ==
    ASSUME Known, NEW i, Invite(i) \in Ahead
    PROVE  /\ i \in DOMAIN calls /\ ~calls[i].mine /\ i # client.call
           /\ \A a \in acts : a.call # i
           /\ \E p \in DOMAIN wire : wire[p].event = "invite" /\ wire[p].call = i
<1>1. Typed /\ ServerFits /\ InvitesFit(client, acts, wire)
  BY KnownParts
<1>2. Invite(i).call = i /\ Invite(i).type = "invite"
  BY InviteFacts DEF InviteFields
<1>3. i \in DOMAIN calls /\ ~calls[i].mine
  BY <1>1, <1>2, AheadFacts DEF SignalHolds
<1>4. \A p \in DOMAIN client.pending : Invite(i) # client.pending[p]
  BY <1>2 DEF Known, Undisturbed, Invited
<1>5. PICK p \in DOMAIN wire : Invite(i) = Told(p)
  BY <1>4 DEF Ahead
<1>6. wire[p].event = "invite" /\ wire[p].call = i
  BY <1>1, <1>2, <1>5, ToldFacts
<1> QED
  BY <1>1, <1>3, <1>6 DEF InvitesFit

\* A call that rings is shown, or its invitation is under way.
LEMMA RingingShown ==
    ASSUME Known, NEW i \in DOMAIN calls, calls[i].state = "ringing", i # Shown(client)
    PROVE  Invite(i) \in Ahead
BY KnownParts DEF OthersFit

\* The signals under way, after a step.
LEMMA AheadSame ==
    ASSUME client'.pending = client.pending, wire' = wire
    PROVE  Ahead' = Ahead
BY DEF Ahead, Told

LEMMA AheadMore ==
    ASSUME Typed, client'.pending = client.pending, NEW i, NEW event, NEW reason,
           wire' = Signal(i, event, reason)
    PROVE  Ahead' = Ahead \cup
                    {ParseCallSignal([call |-> i, event |-> event, reason |-> reason])}
<1> DEFINE m == [call |-> i, event |-> event, reason |-> reason]
<1>1. wire \in Seq(Sent)
  BY TypedParts DEF Kept
<1>2. /\ Len(wire) \in Nat /\ DOMAIN wire = 1..Len(wire) /\ DOMAIN wire' = 1..(Len(wire) + 1)
      /\ \A p \in DOMAIN wire : wire'[p] = wire[p]
      /\ wire'[Len(wire) + 1] = m
  BY <1>1 DEF Signal
<1> HIDE DEF m
<1>3. DOMAIN wire' = DOMAIN wire \cup {Len(wire) + 1}
  BY <1>2
<1>4. {ParseCallSignal(wire'[p]) : p \in DOMAIN wire'} =
            {ParseCallSignal(wire[p]) : p \in DOMAIN wire} \cup {ParseCallSignal(m)}
  BY <1>2, <1>3
<1>5. {Told(p)' : p \in DOMAIN wire'} = {Told(p) : p \in DOMAIN wire} \cup {ParseCallSignal(m)}
  BY <1>4 DEF Told
<1> QED
  BY <1>5 DEF Ahead, m

\* The first signal is handled.
LEMMA WireTail ==
    ASSUME Typed, wire # <<>>, wire' = Tail(wire)
    PROVE  /\ Len(wire) \in Nat /\ DOMAIN wire = 1..Len(wire) /\ 1 \in DOMAIN wire
           /\ DOMAIN wire' = 1..(Len(wire) - 1)
           /\ \A p \in DOMAIN wire' : p + 1 \in DOMAIN wire /\ wire'[p] = wire[p + 1]
                                      /\ Told(p)' = Told(p + 1) /\ p \in Nat
           /\ \A p \in DOMAIN wire : p # 1 => p - 1 \in DOMAIN wire' /\ wire'[p - 1] = wire[p]
                                      /\ Told(p - 1)' = Told(p)
<1>1. wire \in Seq(Sent)
  BY TypedParts DEF Kept
<1>2. /\ Len(wire) \in Nat /\ DOMAIN wire = 1..Len(wire) /\ 1 \in DOMAIN wire
      /\ DOMAIN wire' = 1..(Len(wire) - 1)
  BY <1>1
<1>3. \A p \in DOMAIN wire' : p + 1 \in DOMAIN wire /\ wire'[p] = wire[p + 1] /\ p \in Nat
  BY <1>1, <1>2
<1>4. \A p \in DOMAIN wire : p # 1 => p - 1 \in DOMAIN wire' /\ p = (p - 1) + 1
  BY <1>2
<1>5. \A p \in DOMAIN wire : p # 1 => wire'[p - 1] = wire[p]
  BY <1>3, <1>4
<1> QED
  BY <1>2, <1>3, <1>4, <1>5 DEF Told

LEMMA AheadLess ==
    ASSUME Typed, wire # <<>>, wire' = Tail(wire), client'.pending = client.pending
    PROVE  /\ Ahead' \subseteq Ahead /\ Ahead \subseteq Ahead' \cup {Told(1)}
           /\ Told(1) \in Ahead
<1>1. /\ \A p \in DOMAIN wire' : p + 1 \in DOMAIN wire /\ Told(p)' = Told(p + 1)
      /\ \A p \in DOMAIN wire : p # 1 => p - 1 \in DOMAIN wire' /\ Told(p - 1)' = Told(p)
      /\ 1 \in DOMAIN wire
  BY WireTail
<1>2. ASSUME NEW s \in {Told(p)' : p \in DOMAIN wire'}
      PROVE  s \in {Told(p) : p \in DOMAIN wire}
  BY <1>1
<1>3. ASSUME NEW s \in {Told(p) : p \in DOMAIN wire}
      PROVE  s \in {Told(p)' : p \in DOMAIN wire'} \cup {Told(1)}
  BY <1>1
<1>4. Told(1) \in {Told(p) : p \in DOMAIN wire}
  BY <1>1
<1> QED
  BY <1>2, <1>3, <1>4 DEF Ahead

\* It waits for the answer to startCall.
LEMMA AheadWaits ==
    ASSUME Typed, wire # <<>>, wire' = Tail(wire),
           client'.pending = Append(client.pending, Told(1))
    PROVE  Ahead' = Ahead
<1>1. /\ \A p \in DOMAIN wire' : p + 1 \in DOMAIN wire /\ Told(p)' = Told(p + 1)
      /\ \A p \in DOMAIN wire : p # 1 => p - 1 \in DOMAIN wire' /\ Told(p - 1)' = Told(p)
      /\ 1 \in DOMAIN wire
  BY WireTail
<1>2. client.pending \in Seq(Signals)
  BY TypedParts, ClientFields
<1> DEFINE m == Told(1)
<1> HIDE DEF m
<1>3. client'.pending = Append(client.pending, m)
  BY DEF m
<1>4. /\ DOMAIN client'.pending = DOMAIN client.pending \cup {Len(client.pending) + 1}
      /\ \A p \in DOMAIN client.pending : client'.pending[p] = client.pending[p]
      /\ client'.pending[Len(client.pending) + 1] = m
  BY <1>2, <1>3
<1>5. {client'.pending[p] : p \in DOMAIN client'.pending} =
            {client.pending[p] : p \in DOMAIN client.pending} \cup {m}
  BY <1>4
<1>6. {Told(p)' : p \in DOMAIN wire'} \cup {m} = {Told(p) : p \in DOMAIN wire}
  <2>1. \A p \in DOMAIN wire : p = 1 \/ p - 1 \in DOMAIN wire'
    BY <1>1
  <2> DEFINE P == {Told(p) : p \in DOMAIN wire}
             Q == {Told(p)' : p \in DOMAIN wire'}
  <2>2. ASSUME NEW s \in Q PROVE s \in P
    BY <1>1
  <2>3. ASSUME NEW s \in P PROVE s \in Q \cup {m}
    <3>1. PICK p \in DOMAIN wire : s = Told(p)
      OBVIOUS
    <3>2. CASE p = 1
      BY <3>1, <3>2 DEF m
    <3>3. CASE p # 1
      BY <1>1, <3>1, <3>3
    <3> QED
      BY <3>2, <3>3
  <2>4. m \in P
    BY <1>1 DEF m
  <2> HIDE DEF P, Q
  <2>5. Q \cup {m} = P
    BY <2>2, <2>3, <2>4
  <2> QED
    BY <2>5 DEF P, Q
<1>7. Ahead' = {client'.pending[p] : p \in DOMAIN client'.pending}
               \cup {Told(p)' : p \in DOMAIN wire'}
  BY DEF Ahead
<1>8. Ahead = {client.pending[p] : p \in DOMAIN client.pending}
               \cup {Told(p) : p \in DOMAIN wire}
  BY DEF Ahead
<1> QED
  BY <1>5, <1>6, <1>7, <1>8

\* The same toast, of a call that can only move on.
LEMMA ToastStays ==
    ASSUME Known, CallsAdvance, client'.status = client.status, client'.shown = client.shown,
           client'.toast = client.toast
    PROVE  ToastFits(client', calls')
<1>1. /\ client \in Clients /\ Named(client) /\ DOMAIN calls = 1..Len(calls)
      /\ Len(calls) \in Nat /\ ToastFits(client, calls) /\ calls \in Seq(Calls)
  BY KnownParts
<1>2. SUFFICES ASSUME client.status = "idle", client.shown # None
               PROVE  LET m == calls'[client.shown] IN
                      /\ m.state # "ringing"
                      /\ m.state = "ended" /\ m.rang =>
                            client.toast = IF m.by = "me" THEN NoReason ELSE m.reason
  BY DEF ToastFits
<1>3. client.shown \in DOMAIN calls
  BY <1>1, <1>2, ClientFields DEF Named
<1> DEFINE k == calls[client.shown]
           m == calls'[client.shown]
<1>4. Advances(k, m) /\ k \in Calls
  BY <1>1, <1>3 DEF CallsAdvance
<1>5. /\ k.state # "ringing"
      /\ k.state = "ended" /\ k.rang => client.toast = IF k.by = "me" THEN NoReason ELSE k.reason
  BY <1>1, <1>2 DEF ToastFits
<1>6. k.state \in {"active", "ended"}
  BY <1>4, <1>5 DEF Calls
<1> HIDE DEF k, m
<1>7. /\ m.state # "ringing"
      /\ m.state = "ended" /\ m.rang => client.toast = IF m.by = "me" THEN NoReason ELSE m.reason
  BY <1>4, <1>5, <1>6 DEF Advances
<1> QED
  BY <1>7 DEF m


-----------------------------------------------------------------------------
(* Steps that change nothing of what is shown *)

\* Requests that are answered, but for one that says nothing of the call i.
LEMMA KeepsMore ==
    ASSUME NEW as, NEW bs, NEW i, as \subseteq bs
    PROVE  Keeps(as, bs, i)
BY DEF Keeps, Answered

LEMMA KeepsLess ==
    ASSUME NEW as, NEW bs, NEW a, NEW i, as \ {a} \subseteq bs,
           a.stage # "ok" \/ a.kind = "block" \/ a.call # i
    PROVE  Keeps(as, bs, i)
<1> SUFFICES ASSUME NEW kind \in Kinds \ {"block"}, Answered(as, kind, i)
             PROVE  Answered(bs, kind, i)
  BY DEF Keeps
<1>1. PICK b \in as : b.kind = kind /\ b.call = i /\ b.stage = "ok"
  BY DEF Answered
<1>2. b # a
  BY <1>1
<1>3. b \in bs
  BY <1>1, <1>2
<1> QED
  BY <1>1, <1>3 DEF Answered

LEMMA TellingAlike ==
    ASSUME Moves, UNCHANGED <<calls, wire>>,
           client'.status = client.status, client'.call = client.call,
           client'.created = client.created, client'.pending = client.pending,
           client'.shown = client.shown, client'.toast = client.toast,
           Keeps(acts, acts', Shown(client)),
           client'.room # None /\ Up(client') =>
                (client.room # None /\ Up(client)) \/ calls[client.call].in # "no"
    PROVE  Telling'
<1>1. /\ Agrees(client, calls, acts, Ahead) /\ CreatedFits(client, wire) /\ Known /\ CallsAdvance
  BY KnownParts DEF Moves
<1>2. Ahead' = Ahead
  BY AheadSame
<1>3. Shown(client') = Shown(client)
  BY DEF Shown
<1>4. Agrees(client', calls, acts', Ahead)
  BY <1>1, <1>3, AgreesAlike
<1>5. CreatedFits(client', wire)
  BY <1>1 DEF CreatedFits
<1>6. ToastFits(client', calls')
  BY <1>1, ToastStays
<1> QED
  BY <1>2, <1>4, <1>5, <1>6 DEF Telling

SameShown(c, d) ==
    /\ d.status = c.status /\ d.call = c.call /\ SameStart(c, d) /\ SameExperience(c, d)
    /\ d.session = c.session /\ d.room = c.room /\ d.rooms = c.rooms

LEMMA TellingSame ==
    ASSUME Moves, UNCHANGED <<calls, wire>>, SameShown(client, client'),
           Keeps(acts, acts', Shown(client))
    PROVE  Telling'
BY TellingAlike DEF SameShown, SameStart, SameExperience, Up

LEMMA TellingTogglePreference ==
    ASSUME Moves, TogglePreference
    PROVE  Telling'
<1> DEFINE c == [client EXCEPT !.pref = ~@]
           e == Apply(c, FALSE)
<1>1. client \in Clients
  BY KnownParts DEF Moves
<1>2. UNCHANGED <<acts, calls, wire>> /\ (client' = e \/ client' = c)
  BY DEF TogglePreference, Same
<1>3. c \in Clients
  <2>1. (~client.pref) \in BOOLEAN
    OBVIOUS
  <2> QED
    BY <1>1, <2>1, ZenonT(40) DEF Clients
<1>4. SameShown(client, c)
  BY <1>1 DEF Clients, SameShown, SameStart, SameExperience
<1> HIDE DEF c
<1>5. SameShown(client, e)
  <2>1. /\ e.status = c.status /\ e.call = c.call /\ SameRoom(c, e) /\ SameStart(c, e)
        /\ SameExperience(c, e)
    BY <1>3, ApplyFields
  <2> HIDE DEF e
  <2> QED
    BY <1>4, <2>1 DEF SameShown, SameRoom, SameStart, SameExperience
<1> HIDE DEF e
<1>6. SameShown(client, client')
  BY <1>2, <1>4, <1>5
<1> QED
  BY <1>2, <1>6, TellingSame, KeepsMore

LEMMA TellingReconnecting ==
    ASSUME Moves, NEW on \in BOOLEAN, Reconnecting(on)
    PROVE  Telling'
<1>1. client \in Clients
  BY KnownParts DEF Moves
<1>2. client' = [client EXCEPT !.reconnecting = on] /\ UNCHANGED <<acts, calls, wire>>
  BY DEF Reconnecting, Same
<1>3. SameShown(client, client')
  BY <1>1, <1>2 DEF Clients, SameShown, SameStart, SameExperience
<1> QED
  BY <1>2, <1>3, TellingSame, KeepsMore

LEMMA TellingAct ==
    ASSUME Moves, NEW kind \in Kinds, Act(kind)
    PROVE  Telling'
<1>1. client' = client /\ UNCHANGED <<calls, wire>> /\ acts \subseteq acts'
  BY DEF Act, Same
<1>2. SameShown(client, client')
  BY <1>1 DEF SameShown, SameStart, SameExperience
<1> QED
  BY <1>1, <1>2, TellingSame, KeepsMore

LEMMA TellingTokenAnswered ==
    ASSUME Moves, NEW j \in client.joins, TokenAnswered(j)
    PROVE  Telling'
<1>1. client \in Clients /\ j \in Joins
  BY KnownParts, JoinFields DEF Moves
<1>2. UNCHANGED <<acts, calls, wire>>
  BY DEF TokenAnswered, Same
<1>3. Keeps(acts, acts', Shown(client))
  BY <1>2, KeepsMore
<1>4. CASE client' = Left(client, j)
  <2>1. SameShown(client, client')
    BY <1>1, <1>4, LeftFields DEF SameShown
  <2> QED
    BY <1>2, <1>3, <2>1, TellingSame
<1>5. CASE client' = WithRoom(client, j)
  <2> DEFINE r == [sess |-> j.sess, call |-> j.call, up |-> FALSE]
             d == WithRoom(client, j)
  <2>1. /\ d.status = client.status /\ d.call = client.call /\ d.rooms = client.rooms \cup {r}
        /\ SameStart(client, d) /\ SameExperience(client, d)
    BY <1>1, WithRoomFields
  <2>2. r.up = FALSE /\ \A sess, call : [sess |-> sess, call |-> call, up |-> TRUE].up = TRUE
    OBVIOUS
  <2> HIDE DEF r, d
  <2>3. ~Up(d)
    BY <2>1, <2>2 DEF Up
  <2> QED
    BY <1>2, <1>3, <1>5, <2>1, <2>3, TellingAlike DEF d, SameStart, SameExperience
<1> QED
  BY <1>4, <1>5 DEF TokenAnswered

\* A step of joinRoom that fails, in the client c that it was seen by.
LEMMA TellingJoinFails ==
    ASSUME Moves, NEW c \in Clients, Shape(c), NEW j \in c.joins, JoinFails(c, j),
           UNCHANGED <<calls, wire>>, SameShown(client, c)
    PROVE  Telling'
<1>1. j \in Joins /\ StatusFits(client, calls)
  BY KnownParts, JoinFields DEF Moves
<1>2. CASE client' = Left(c, j) /\ UNCHANGED acts
  <2>1. SameShown(c, client')
    BY <1>2, LeftFields DEF SameShown
  <2>2. SameShown(client, client')
    BY <2>1 DEF SameShown, SameStart, SameExperience
  <2> QED
    BY <1>2, <2>2, TellingSame, KeepsMore
<1>3. CASE client' = Stage(c, j, "hangup") /\ acts \subseteq acts'
  <2>1. SameShown(c, client')
    BY <1>1, <1>3, StageFields DEF SameShown
  <2>2. SameShown(client, client')
    BY <2>1 DEF SameShown, SameStart, SameExperience
  <2> QED
    BY <1>3, <2>2, TellingSame, KeepsMore
<1>4. j.sess = c.session => c.call # None
  BY <1>1, CurrentJoin DEF StatusFits, SameShown
<1> QED
  BY <1>2, <1>3, <1>4 DEF JoinFails

LEMMA TellingFails ==
    ASSUME Moves, NEW j \in client.joins, TokenFails(j) \/ ConnectFails(j)
    PROVE  Telling'
<1>1. client \in Clients /\ Shape(client)
  BY KnownParts DEF Moves
<1>2. JoinFails(client, j) /\ UNCHANGED <<calls, wire>>
  BY DEF TokenFails, ConnectFails, Same
<1>3. SameShown(client, client)
  BY DEF SameShown, SameStart, SameExperience
<1> QED
  BY <1>1, <1>2, <1>3, TellingJoinFails

LEMMA TellingMicrophoneApplied ==
    ASSUME Moves, NEW ok \in BOOLEAN, MicrophoneApplied(ok)
    PROVE  Telling'
<1>1. client \in Clients /\ Shape(client) /\ Typed
  BY KnownParts DEF Moves
<1>2. PICK a \in Applies, mic \in BOOLEAN :
           /\ client.applies # <<>>
           /\ IF ok THEN AppliedWell(Popped(client, mic), a, Owned(a))
              ELSE AppliedBadly(Popped(client, mic), a, Owned(a))
  BY <1>1, AppliedCases
<1>3. UNCHANGED <<calls, wire>>
  BY DEF MicrophoneApplied, Same
<1> DEFINE b == Popped(client, mic)
           own == Owned(a)
<1>4. b \in Clients /\ SameShown(client, b) /\ b.joins = client.joins
  BY <1>1, <1>2, PoppedFields DEF SameShown, SameRoom
<1>5. Shape(b)
  BY <1>1, <1>2, ShapePopped
<1> HIDE DEF b
<1>6. CASE ok
  <2> DEFINE muted == IF a.sess = client.session THEN ~a.on ELSE client.muted
  <2>1. client' = Goes(b, muted, own) /\ UNCHANGED acts
    BY <1>2, <1>6 DEF AppliedWell, b
  <2>2. muted \in BOOLEAN
    BY <1>1, ClientFields
  <2> HIDE DEF muted, own
  <2>3. SameShown(b, client')
    BY <1>4, <2>1, <2>2, GoesFields DEF SameShown
  <2>4. SameShown(client, client')
    BY <1>4, <2>3 DEF SameShown, SameStart, SameExperience
  <2> QED
    BY <1>3, <2>1, <2>4, TellingSame, KeepsMore
<1>7. CASE ~ok
  <2>1. CASE client' = b /\ UNCHANGED acts
    BY <1>3, <1>4, <2>1, TellingSame, KeepsMore
  <2>2. ASSUME NEW j \in own, JoinFails(b, j)
        PROVE  Telling'
    BY <1>3, <1>4, <1>5, <2>2, TellingJoinFails DEF Owned
  <2> QED
    BY <1>2, <1>7, <2>1, <2>2 DEF AppliedBadly, b
<1> QED
  BY <1>6, <1>7

-----------------------------------------------------------------------------
(* Steps of the server and the peer *)

LEMMA ShownIs ==
    ASSUME Known
    PROVE  IsShown(client, calls)
BY ShownFacts DEF IsShown

\* One call moves on under the client.
LEMMA TellingCall ==
    ASSUME Moves, client' = client, NEW i \in DOMAIN calls, NEW k \in Calls,
           calls' = [calls EXCEPT ![i] = k], CreatedFits(client, wire'),
           NoneForgotten(acts, acts'),
           NEW Y, Ahead' = Y, Ahead \subseteq Y, \A t \in Y : t \in Ahead \/ t.call = i,
           CallFits(client, i, k, acts', Y)
    PROVE  Telling'
<1>1. Known /\ CallsAdvance
  BY DEF Moves
<1>2. Agrees(client, calls, acts, Ahead) /\ calls \in Seq(Calls) /\ IsShown(client, calls)
  BY <1>1, KnownParts, ShownIs
<1> DEFINE ms == calls'
<1>3. ms[i] = k /\ OnlyCall(i, calls, ms, Ahead, Y)
  BY <1>2, CallUpdated DEF OnlyCall
<1> HIDE DEF ms
<1>4. CallFits(client, i, ms[i], acts', Y)
  BY <1>3
<1>5. Agrees(client, ms, acts', Y)
  BY <1>2, <1>3, <1>4, AgreesCall
<1>6. ToastFits(client', calls')
  BY <1>1, ToastStays
<1> QED
  BY <1>5, <1>6 DEF Telling, ms

\* A call that somebody has asked something for: while it rings it is shown.
LEMMA ActedShown ==
    ASSUME Known, NEW a \in acts, calls[a.call].state = "ringing"
    PROVE  client.call = a.call /\ Shown(client) = a.call /\ Invite(a.call) \notin Ahead
<1>1. a.call \in DOMAIN calls /\ ActFits(client, a)
  BY KnownAct
<1>2. Invite(a.call) \notin Ahead
  BY InvitedFacts
<1>3. Shown(client) = a.call
  BY <1>1, <1>2, RingingShown
<1>4. a.call # client.created
  BY <1>1 DEF ActFits
<1> QED
  BY <1>2, <1>3, <1>4, ShownFacts

LEMMA TellingPeerAccepts ==
    ASSUME Moves, NEW i \in DOMAIN calls, PeerAccepts(i)
    PROVE  Telling'
<1>1. /\ Known /\ Typed /\ ShownFits(client, calls, acts, Ahead) /\ CreatedFits(client, wire)
      /\ StatusFits(client, calls) /\ None \notin DOMAIN calls
  BY KnownParts DEF Moves
<1>2. PICK k \in Calls :
           /\ calls' = [calls EXCEPT ![i] = k] /\ k.state = "active" /\ k.in = calls[i].in
           /\ calls[i].mine /\ calls[i].state = "ringing"
  BY <1>1, PeerAcceptsCall
<1>3. client' = client /\ acts' = acts /\ wire' = Signal(i, "accept", NoReason)
  BY DEF PeerAccepts
<1>4. Invite(i) \notin Ahead
  BY <1>1, <1>2, InvitedFacts
<1>5. i = Shown(client)
  BY <1>1, <1>2, <1>4, RingingShown
<1>6. client.status = "outgoing"
  <2>1. client.status \in Statuses
    BY <1>1, KnownParts, ClientFields
  <2>2. client.status # "idle"
    BY <1>1, <1>5, ShownFacts
  <2>3. client.status \in {"ringing", "active"} => client.call = i
    BY <1>1, <1>5, ShownFacts
  <2>4. ~Accepted(calls[i])
    BY <1>2 DEF Accepted
  <2> QED
    BY <1>1, <1>2, <2>1, <2>2, <2>3, <2>4 DEF StatusFits, Statuses
<1> DEFINE Y == Ahead \cup {Accept(i)}
<1>7. Ahead' = Y
  <2>1. ParseCallSignal([call |-> i, event |-> "accept", reason |-> NoReason]) = Accept(i)
    BY DEF ParseCallSignal, Accept
  <2> QED
    BY <1>1, <1>3, <2>1, AheadMore
<1>8. Accept(i).call = i /\ Invite(i) # Accept(i)
  BY InviteFacts DEF InviteFields
<1>9. Ahead \subseteq Y /\ (\A t \in Y : t \in Ahead \/ t.call = i) /\ Accept(i) \in Y
      /\ Invite(i) \notin Y
  BY <1>4, <1>8
<1> HIDE DEF Y
<1>10. OutgoingFits(i, k, acts', Y)
  BY <1>1, <1>2, <1>5, <1>6, <1>9 DEF ShownFits, OutgoingFits
<1>11. CreatedFits(client, wire')
  <2>1. wire \in Seq(Sent) /\ (client.created # None => client.created = i)
    BY <1>1, <1>5, TypedParts, ShownFacts DEF Kept
  <2> SUFFICES ASSUME client.created # None, NEW p \in DOMAIN wire', wire'[p].call > client.created
               PROVE  \E q \in DOMAIN wire' : q <= p /\ wire'[q].event = "invite"
    BY <1>1 DEF CreatedFits
  <2>2. /\ DOMAIN wire = 1..Len(wire) /\ DOMAIN wire' = 1..(Len(wire) + 1) /\ Len(wire) \in Nat
        /\ \A q \in DOMAIN wire : wire'[q] = wire[q]
        /\ wire'[Len(wire) + 1].call = i
    BY <1>3, <2>1 DEF Signal
  <2>3. i \in Nat
    BY <1>1, TypedParts
  <2>4. p \in DOMAIN wire
    <3>1. p = Len(wire) + 1 => wire'[p].call = client.created
      BY <2>1, <2>2
    <3>2. client.created \in Nat
      BY <2>1, <2>3
    <3>3. p # Len(wire) + 1
      BY <3>1, <3>2
    <3> QED
      BY <2>2, <3>3
  <2>5. PICK q \in DOMAIN wire : q <= p /\ wire[q].event = "invite"
    BY <1>1, <2>2, <2>4 DEF CreatedFits
  <2> QED
    BY <2>2, <2>5
<1>12. CallFits(client, i, k, acts', Y)
  <2>1. client.room = None
    BY <1>1, <1>6, ShownFacts
  <2> QED
    BY <1>2, <1>5, <1>6, <1>9, <1>10, <2>1 DEF CallFits
<1>13. NoneForgotten(acts, acts')
  BY <1>3 DEF NoneForgotten
<1> QED
  BY <1>2, <1>3, <1>7, <1>9, <1>11, <1>12, <1>13, TellingCall

LEMMA TellingPeerEnds ==
    ASSUME Moves, NEW i \in DOMAIN calls, NEW reason \in Reasons, PeerEnds(i, reason)
    PROVE  Telling'
<1>1. /\ Known /\ Typed /\ ShownFits(client, calls, acts, Ahead) /\ CreatedFits(client, wire)
      /\ OthersFit(client, calls, Ahead) /\ InvitedFit(calls, Ahead)
  BY KnownParts DEF Moves
<1>2. PICK k \in Calls, event \in Events :
           /\ calls' = [calls EXCEPT ![i] = k] /\ k.state = "ended" /\ calls[i].state # "ended"
           /\ k.in = calls[i].in
           /\ event \notin {"invite", "accept"} /\ wire' = Signal(i, event, reason)
  BY <1>1, PeerEndsCall
<1>3. client' = client /\ acts' = acts
  BY DEF PeerEnds
<1> DEFINE s == [call |-> i, type |-> reason]
           Y == Ahead \cup {s}
<1>4. Ahead' = Y
  <2>1. ParseCallSignal([call |-> i, event |-> event, reason |-> reason]) = s
    BY <1>2 DEF ParseCallSignal
  <2> HIDE DEF s
  <2> QED
    BY <1>1, <1>2, <1>3, <2>1, AheadMore
<1>5. s.call = i /\ s.type \in Reasons /\ s # Invite(i)
  <2>1. s.call = i /\ s.type = reason
    OBVIOUS
  <2> HIDE DEF s
  <2> QED
    BY <2>1, InviteFacts, ReasonFacts DEF InviteFields
<1> HIDE DEF s
<1>6. Ahead \subseteq Y /\ (\A t \in Y : t \in Ahead \/ t.call = i) /\ Ends(i, Y)
      /\ (Invite(i) \in Y => Invite(i) \in Ahead)
  BY <1>5 DEF Ends
<1> HIDE DEF Y
<1>7. client.status = "outgoing" /\ Shown(client) = i => OutgoingFits(i, k, acts', Y)
  <2>1. i # None
    BY <1>1, KnownParts
  <2> QED
    BY <1>1, <1>2, <1>6, <2>1 DEF ShownFits, OutgoingFits
<1>8. client.status = "ringing" /\ client.call = i => RingingFits(i, k, acts', Y)
  BY <1>1, <1>2, <1>6 DEF ShownFits, RingingFits
<1>9. client.status = "active" /\ client.call = i => ActiveFits(i, k, acts', Y)
  BY <1>6 DEF ActiveFits
<1>10. client.room # None /\ Up(client) /\ client.call = i => k.in # "no"
  BY <1>1, <1>2 DEF ShownFits
<1>11. Invite(i) \in Y => k.in = "no"
  BY <1>1, <1>2, <1>6 DEF InvitedFit
<1>12. CreatedFits(client, wire')
  <2> SUFFICES ASSUME client.created # None, NEW p \in DOMAIN wire', wire'[p].call > client.created
               PROVE  \E q \in DOMAIN wire' : q <= p /\ wire'[q].event = "invite"
    BY <1>1 DEF CreatedFits
  <2>1. wire \in Seq(Sent) /\ client.created \in Nat /\ i \in Nat
    BY <1>1, TypedParts, ClientFields DEF Kept
  <2>2. /\ DOMAIN wire = 1..Len(wire) /\ DOMAIN wire' = 1..(Len(wire) + 1) /\ Len(wire) \in Nat
        /\ \A q \in DOMAIN wire : wire'[q] = wire[q]
        /\ wire'[Len(wire) + 1].call = i
    BY <1>2, <2>1 DEF Signal
  <2>3. CASE p \in DOMAIN wire
    <3>1. PICK q \in DOMAIN wire : q <= p /\ wire[q].event = "invite"
      BY <1>1, <2>2, <2>3 DEF CreatedFits
    <3> QED
      BY <2>2, <3>1
  <2>4. CASE p \notin DOMAIN wire
    <3>1. p = Len(wire) + 1 /\ i > client.created
      BY <2>2, <2>4
    <3>2. Shown(client) # i
      BY <1>1, <2>1, <3>1, ShownFacts
    <3>3. Invite(i) \in Ahead
      BY <1>1, <1>2, <3>2 DEF OthersFit
    <3>4. PICK q \in DOMAIN wire : wire[q].event = "invite"
      BY <1>1, <3>3, InvitedFacts
    <3> QED
      BY <2>2, <3>1, <3>4
  <2> QED
    BY <2>3, <2>4
<1>13. CallFits(client, i, k, acts', Y)
  BY <1>2, <1>6, <1>7, <1>8, <1>9, <1>10, <1>11 DEF CallFits
<1>14. NoneForgotten(acts, acts')
  BY <1>3 DEF NoneForgotten
<1> QED
  BY <1>2, <1>3, <1>4, <1>6, <1>12, <1>13, <1>14, TellingCall

LEMMA TellingVanishes ==
    ASSUME Moves, NEW i \in DOMAIN calls, PeerVanishes(i)
    PROVE  Telling'
<1>1. /\ Known /\ ShownFits(client, calls, acts, Ahead) /\ CreatedFits(client, wire)
      /\ InvitedFit(calls, Ahead) /\ calls \in Seq(Calls) /\ None \notin DOMAIN calls
  BY KnownParts DEF Moves
<1>2. /\ client' = client /\ acts' = acts /\ wire' = wire
      /\ calls[i].state = "active" /\ calls[i].in # "seen"
      /\ calls' = Ended(i, "peer", "disconnected")
  BY DEF PeerVanishes
<1>3. "disconnected" \in Reasons /\ "peer" \in {"me", "peer"}
  BY DEF Reasons
<1>4. PICK k \in Calls :
           /\ Ended(i, "peer", "disconnected") = [calls EXCEPT ![i] = k]
           /\ k.in = calls[i].in /\ k.state = "ended"
  BY <1>1, <1>3, EndedFields
<1>5. Ahead' = Ahead
  BY <1>2, AheadSame
<1>6. Invite(i) \notin Ahead
  BY <1>1, <1>2 DEF InvitedFit
<1>7. client.status = "outgoing" /\ Shown(client) = i => OutgoingFits(i, k, acts', Ahead)
  BY <1>1, <1>2, <1>4 DEF ShownFits, OutgoingFits
<1>8. client.status = "ringing" /\ client.call = i => RingingFits(i, k, acts', Ahead)
  BY <1>1, <1>2, <1>4 DEF ShownFits, RingingFits
<1>9. client.status = "active" /\ client.call = i => ActiveFits(i, k, acts', Ahead)
  BY <1>2, <1>4 DEF ActiveFits
<1>10. client.room # None /\ Up(client) /\ client.call = i => k.in # "no"
  BY <1>1, <1>4 DEF ShownFits
<1>11. CallFits(client, i, k, acts', Ahead)
  BY <1>4, <1>6, <1>7, <1>8, <1>9, <1>10 DEF CallFits
<1>12. NoneForgotten(acts, acts')
  BY <1>2 DEF NoneForgotten
<1> QED
  BY <1>1, <1>2, <1>4, <1>5, <1>11, <1>12, TellingCall

\* A room is up in the call that is shown only.
LEMMA UpShown ==
    ASSUME Known, NEW r \in client.rooms, r.up
    PROVE  client.status = "active" /\ client.call = r.call /\ Up(client) /\ client.room # None
<1>1. RoomFits(client)
  BY KnownParts DEF Shape
<1>2. client.room # None /\ client.status = "active" /\ (Up(client) \/ Down(client))
  BY <1>1 DEF RoomFits
<1>3. ~Down(client)
  BY DEF Down
<1> QED
  BY <1>2, <1>3 DEF Up

LEMMA TellingSees ==
    ASSUME Moves, NEW i \in DOMAIN calls, ServerSeesRoom(i), client' = client
    PROVE  Telling'
<1>1. /\ Known /\ Typed /\ ShownFits(client, calls, acts, Ahead) /\ CreatedFits(client, wire)
      /\ OthersFit(client, calls, Ahead) /\ InvitedFit(calls, Ahead) /\ calls \in Seq(Calls)
      /\ None \notin DOMAIN calls /\ client \in Clients
  BY KnownParts DEF Moves
<1>2. acts' = acts /\ wire' = wire
  BY DEF ServerSeesRoom
<1>3. Ahead' = Ahead
  BY <1>2, AheadSame
<1>4. CASE /\ calls' = calls /\ calls[i].state = "ended"
           /\ \E r \in client.rooms : r.up /\ r.call = i /\ Disconnects(r)
  <2>1. SameShown(client, client')
    BY DEF SameShown, SameStart, SameExperience
  <2> QED
    BY <1>2, <1>4, <2>1, TellingSame, KeepsMore
<1>5. ASSUME NEW k \in Calls, calls' = [calls EXCEPT ![i] = k],
             k.in = "seen", calls[i].in = "joined", calls[i].state = "active",
             \E r \in client.rooms : r.up /\ r.call = i, k.state = calls[i].state
      PROVE  Telling'
  <2>1. client.status = "active" /\ client.call = i
    BY <1>1, <1>5, UpShown
  <2>2. Shown(client) = i
    BY <1>1, <2>1, ShownFacts
  <2>3. Invite(i) \notin Ahead
    BY <1>1, <1>5 DEF InvitedFit
  <2>4. CallFits(client, i, k, acts', Ahead)
    BY <1>5, <2>1, <2>2, <2>3 DEF CallFits, ActiveFits
  <2>5. NoneForgotten(acts, acts')
    BY <1>2 DEF NoneForgotten
  <2> QED
    BY <1>1, <1>2, <1>3, <1>5, <2>4, <2>5, TellingCall
<1>6. ASSUME NEW k \in Calls, calls' = [calls EXCEPT ![i] = k],
             k.in = "no", calls[i].in # "no", \A r \in client.rooms : ~(r.up /\ r.call = i),
             \/ calls[i].state # "active" /\ k.state = calls[i].state
             \/ calls[i].state = "active" /\ k.state = "ended"
      PROVE  Telling'
  <2>1. Invite(i) \notin Ahead
    BY <1>1, <1>6 DEF InvitedFit
  <2>2. ~(client.status = "outgoing" /\ Shown(client) = i)
    BY <1>1, <1>6 DEF ShownFits, OutgoingFits
  <2>3. ~(client.status = "ringing" /\ client.call = i)
    BY <1>1, <1>6 DEF ShownFits, RingingFits
  <2>4. ~(Up(client) /\ client.call = i)
    <3> SUFFICES ASSUME Up(client), client.call = i PROVE FALSE
      OBVIOUS
    <3> DEFINE r == [sess |-> client.session, call |-> client.call, up |-> TRUE]
    <3>1. r \in client.rooms /\ r.up /\ r.call = client.call
      BY DEF Up
    <3> HIDE DEF r
    <3> QED
      BY <1>6, <3>1
  <2>5. i # Shown(client) => k.state = "ended"
    BY <1>1, <1>6, <2>1 DEF OthersFit
  <2>6. ActiveFits(i, k, acts', Ahead)
    BY <1>6 DEF ActiveFits
  <2>7. CallFits(client, i, k, acts', Ahead)
    BY <2>1, <2>2, <2>3, <2>4, <2>5, <2>6 DEF CallFits
  <2>8. NoneForgotten(acts, acts')
    BY <1>2 DEF NoneForgotten
  <2> QED
    BY <1>1, <1>2, <1>3, <1>6, <2>7, <2>8, TellingCall
<1> QED
  BY <1>1, <1>4, <1>5, <1>6, SeesCall

LEMMA TellingServerActs ==
    ASSUME Moves, NEW a \in acts, ServerActs(a)
    PROVE  Telling'
<1>1. /\ Known /\ Typed /\ ShownFits(client, calls, acts, Ahead) /\ CreatedFits(client, wire)
      /\ OthersFit(client, calls, Ahead) /\ InvitedFit(calls, Ahead) /\ calls \in Seq(Calls)
      /\ None \notin DOMAIN calls /\ client \in Clients /\ StatusFits(client, calls)
  BY KnownParts DEF Moves
<1>2. PICK stage \in {"ok", "gone", "refused"} :
           /\ acts' = (acts \ {a}) \cup {[a EXCEPT !.stage = stage]}
           /\ a.stage = "sent" /\ a \in Requested /\ a.call \in DOMAIN calls
           /\ \/ calls' = calls
              \/ /\ stage = "ok" /\ a.kind # "block" /\ calls[a.call].state = Wanted(a.kind)
                 /\ \E k \in Calls :
                    /\ calls' = [calls EXCEPT ![a.call] = k] /\ k.in = calls[a.call].in
                    /\ \/ a.kind = "accept" /\ k.state = "active"
                       \/ a.kind # "accept" /\ k.state = "ended"
  BY <1>1, ActsCall
<1> DEFINE b == [a EXCEPT !.stage = stage]
           i == a.call
<1>3. b.kind = a.kind /\ b.call = i /\ b.stage = stage
  BY <1>2, ActStaged
<1>4. acts' = (acts \ {a}) \cup {b}
  BY <1>2
<1> HIDE DEF b
<1>5. client' = client /\ wire' = wire
  BY DEF ServerActs
<1>6. Ahead' = Ahead
  BY <1>5, AheadSame
<1>7. NoneForgotten(acts, acts')
  <2> SUFFICES ASSUME NEW kind, NEW call, Answered(acts, kind, call)
               PROVE  Answered(acts', kind, call)
    BY DEF NoneForgotten
  <2>1. PICK e \in acts : e.kind = kind /\ e.call = call /\ e.stage = "ok"
    BY DEF Answered
  <2>2. e \in acts'
    BY <1>2, <1>4, <2>1
  <2> QED
    BY <2>1, <2>2 DEF Answered
<1>8. CASE calls' = calls
  <2>1. SameShown(client, client')
    BY <1>5 DEF SameShown, SameStart, SameExperience
  <2>2. Keeps(acts, acts', Shown(client))
    BY <1>7 DEF NoneForgotten, Keeps
  <2> QED
    BY <1>5, <1>8, <2>1, <2>2, TellingSame
<1>9. ASSUME stage = "ok", a.kind # "block", calls[i].state = Wanted(a.kind),
             NEW k \in Calls, calls' = [calls EXCEPT ![i] = k], k.in = calls[i].in,
             \/ a.kind = "accept" /\ k.state = "active"
             \/ a.kind # "accept" /\ k.state = "ended"
      PROVE  Telling'
  <2>1. i \in DOMAIN calls /\ i # None /\ ActHolds(a, calls[i]) /\ a.kind \in Kinds
    BY <1>1, KnownAct, RequestedFields
  <2>2. Invite(i) \notin Ahead
    BY <1>1, InvitedFacts
  <2>3. Answered(acts', a.kind, i)
    BY <1>3, <1>4, <1>9 DEF Answered
  <2>4. client.room # None /\ Up(client) /\ client.call = i => k.in # "no"
    BY <1>1, <1>9 DEF ShownFits
  <2>5. ASSUME a.kind = "hangup"
        PROVE  CallFits(client, i, k, acts', Ahead)
    <3>1. calls[i].state = "active" /\ k.state = "ended"
      BY <1>9, <2>5 DEF Wanted
    <3>2. client.status = "outgoing" /\ Shown(client) = i => OutgoingFits(i, k, acts', Ahead)
      BY <1>1, <1>9, <2>1, <3>1 DEF ShownFits, OutgoingFits
    <3>3. Answered(acts, "accept", i) => Answered(acts', "accept", i)
      BY <1>7 DEF NoneForgotten
    <3>4. client.status = "ringing" /\ client.call = i => RingingFits(i, k, acts', Ahead)
      BY <1>1, <1>9, <3>1, <3>3 DEF ShownFits, RingingFits
    <3>5. ActiveFits(i, k, acts', Ahead)
      BY <2>3, <2>5 DEF ActiveFits
    <3> QED
      BY <2>2, <2>4, <3>1, <3>2, <3>4, <3>5 DEF CallFits
  <2>6. ASSUME a.kind # "hangup"
        PROVE  CallFits(client, i, k, acts', Ahead)
    <3>1. calls[i].state = "ringing"
      BY <1>9, <2>6 DEF Wanted
    <3>2. client.call = i /\ Shown(client) = i
      BY <1>1, <3>1, ActedShown
    <3>3. client.status # "active"
      BY <1>1, <3>1, <3>2 DEF StatusFits, Accepted
    <3>4. client.status = "outgoing" => a.kind = "cancel"
      BY <1>1, <1>9, <2>1, <2>6, <3>2 DEF StatusFits, ActHolds, Refusing, Kinds
    <3>5. client.status = "ringing" => a.kind \in {"accept", "reject", "rejectBlocked"}
      BY <1>1, <1>9, <2>1, <2>6, <3>2 DEF StatusFits, ActHolds, Kinds
    <3>6. client.status = "outgoing" => OutgoingFits(i, k, acts', Ahead)
      BY <1>1, <1>9, <2>1, <2>3, <3>2, <3>4 DEF ShownFits, OutgoingFits
    <3>7. client.status = "ringing" => RingingFits(i, k, acts', Ahead)
      BY <1>1, <1>9, <2>3, <3>2, <3>5 DEF ShownFits, RingingFits
    <3> QED
      BY <2>2, <2>4, <3>2, <3>3, <3>6, <3>7 DEF CallFits
  <2>7. CallFits(client, i, k, acts', Ahead)
    BY <2>5, <2>6
  <2> QED
    BY <1>1, <1>5, <1>6, <1>7, <1>9, <2>1, <2>7, TellingCall
<1> QED
  BY <1>2, <1>8, <1>9

LEMMA TellingPeerInvites ==
    ASSUME Moves, PeerInvites
    PROVE  Telling'
<1>1. /\ Known /\ Typed /\ CallsAdvance /\ Agrees(client, calls, acts, Ahead)
      /\ CreatedFits(client, wire) /\ IsShown(client, calls) /\ calls \in Seq(Calls)
      /\ client \in Clients /\ None \notin DOMAIN calls
  BY KnownParts, ShownIs DEF Moves
<1> DEFINE n == Len(calls) + 1
           ms == calls'
           Y == Ahead \cup {Invite(n)}
<1>2. /\ client' = client /\ acts' = acts /\ Live = {}
      /\ calls' = Append(calls, NewCall(FALSE)) /\ wire' = Signal(n, "invite", NoReason)
  BY DEF PeerInvites
<1>3. /\ DOMAIN calls = 1..Len(calls) /\ DOMAIN ms = 1..(Len(calls) + 1) /\ Len(calls) \in Nat
      /\ \A i \in DOMAIN calls : ms[i] = calls[i]
      /\ ms[n] = NewCall(FALSE)
  BY <1>1, <1>2, CallAppended
<1>4. n \notin DOMAIN calls /\ DOMAIN ms = DOMAIN calls \cup {n}
  BY <1>3
<1>5. \A i \in DOMAIN calls : ms[i] = calls[i] /\ calls[i].state = "ended"
  BY <1>2, <1>3 DEF Live
<1>6. ms[n].state = "ringing" /\ ms[n].in = "no"
  BY <1>3 DEF NewCall
<1>7. Ahead' = Y
  <2>1. ParseCallSignal([call |-> n, event |-> "invite", reason |-> NoReason]) = Invite(n)
    BY DEF ParseCallSignal, Invite
  <2> HIDE DEF n
  <2>2. client'.pending = client.pending
    BY <1>2
  <2>3. Ahead' = Ahead \cup {ParseCallSignal([call |-> n, event |-> "invite", reason |-> NoReason])}
    BY <1>1, <1>2, <2>2, AheadMore
  <2> QED
    BY <2>1, <2>3
<1>8. Ahead \subseteq Y /\ (\A t \in Y : t \in Ahead \/ t.call = n) /\ Invite(n) \in Y
  BY InviteFacts DEF InviteFields
<1>9. CreatedFits(client, wire')
  <2> SUFFICES ASSUME client.created # None, NEW p \in DOMAIN wire', wire'[p].call > client.created
               PROVE  \E q \in DOMAIN wire' : q <= p /\ wire'[q].event = "invite"
    BY <1>1 DEF CreatedFits
  <2>1. wire \in Seq(Sent)
    BY <1>1, TypedParts DEF Kept
  <2>2. /\ DOMAIN wire = 1..Len(wire) /\ DOMAIN wire' = 1..(Len(wire) + 1) /\ Len(wire) \in Nat
        /\ \A q \in DOMAIN wire : wire'[q] = wire[q]
        /\ wire'[Len(wire) + 1].event = "invite"
    BY <1>2, <2>1 DEF Signal
  <2>3. CASE p \in DOMAIN wire
    <3>1. PICK q \in DOMAIN wire : q <= p /\ wire[q].event = "invite"
      BY <1>1, <2>2, <2>3 DEF CreatedFits
    <3> QED
      BY <2>2, <3>1
  <2>4. CASE p \notin DOMAIN wire
    <3>1. p = Len(wire) + 1
      BY <2>2, <2>4
    <3> QED
      BY <2>2, <3>1
  <2> QED
    BY <2>3, <2>4
<1> HIDE DEF n, ms, Y
<1>10. Agrees(client, ms, acts, Y)
  BY <1>1, <1>4, <1>5, <1>6, <1>8, AgreesNew
<1>11. ToastFits(client', calls')
  BY <1>1, <1>2, ToastStays
<1> QED
  BY <1>2, <1>7, <1>9, <1>10, <1>11 DEF Telling, ms

LEMMA TellingServerStarts ==
    ASSUME Moves, ServerStarts
    PROVE  Telling'
<1>1. /\ Known /\ Typed /\ CallsAdvance /\ Agrees(client, calls, acts, Ahead)
      /\ CreatedFits(client, wire) /\ IsShown(client, calls) /\ calls \in Seq(Calls)
      /\ client \in Clients /\ Named(client)
  BY KnownParts, ShownIs DEF Moves
<1>2. acts' = acts /\ wire' = wire /\ client.starting = "posted"
  BY DEF ServerStarts
<1>3. CASE client' = [client EXCEPT !.starting = "refused"] /\ calls' = calls
  <2>1. /\ client'.status = client.status /\ client'.call = client.call
        /\ client'.created = client.created /\ client'.pending = client.pending
        /\ client'.shown = client.shown /\ client'.toast = client.toast
        /\ client'.room = client.room /\ client'.rooms = client.rooms
        /\ client'.session = client.session
    BY <1>1, <1>3 DEF Clients
  <2>2. Keeps(acts, acts', Shown(client))
    BY <1>2, KeepsMore
  <2> QED
    BY <1>2, <1>3, <2>1, <2>2, TellingAlike DEF Up
<1>4. CASE /\ Live = {} /\ calls' = Append(calls, NewCall(TRUE))
           /\ client' = [client EXCEPT !.starting = "created", !.created = Len(calls) + 1]
  <2> DEFINE n == Len(calls) + 1
             ms == calls'
             d == client'
  <2>1. /\ d.status = client.status /\ d.call = client.call
        /\ d.created = n /\ d.pending = client.pending
        /\ d.room = client.room /\ d.rooms = client.rooms /\ d.session = client.session
    BY <1>1, <1>4 DEF Clients
  <2>2. client.created = None /\ client.status = "outgoing" /\ client.call = None
    BY <1>1, <1>2, ShownFacts DEF Named, Waits
  <2>3. /\ DOMAIN calls = 1..Len(calls) /\ DOMAIN ms = 1..(Len(calls) + 1) /\ Len(calls) \in Nat
        /\ \A i \in DOMAIN calls : ms[i] = calls[i]
        /\ ms[n] = NewCall(TRUE)
    BY <1>1, <1>4, CallAppended
  <2>4. n \notin DOMAIN calls /\ DOMAIN ms = DOMAIN calls \cup {n}
    BY <2>3
  <2>5. \A i \in DOMAIN calls : ms[i] = calls[i] /\ calls[i].state = "ended"
    BY <1>4, <2>3 DEF Live
  <2>6. ms[n].state = "ringing" /\ ms[n].in = "no"
    BY <2>3 DEF NewCall
  <2>7. Ahead' = Ahead
    BY <1>2, <2>1, AheadSame
  <2>8. Ahead \subseteq Ahead /\ \A t \in Ahead : t \in Ahead \/ t.call = n
    OBVIOUS
  <2>9. Shown(d) = n /\ d.status = "outgoing" /\ (Up(d) <=> Up(client))
    BY <2>1, <2>2 DEF Shown, Up
  <2>10. CreatedFits(d, wire')
    <3>1. \A p \in DOMAIN client.pending : client.pending[p].call <= n
      <4>1. \A p \in DOMAIN client.pending : client.pending[p].call \in DOMAIN calls
        BY <1>1, PendingFacts
      <4> QED
        BY <2>3, <4>1
    <3>2. \A p \in DOMAIN wire : ~(wire[p].call > n)
      <4>1. \A p \in DOMAIN wire : wire[p].call \in DOMAIN calls
        BY <1>1, ToldFacts
      <4> QED
        BY <2>3, <4>1
    <3> HIDE DEF d, n
    <3> QED
      BY <1>2, <2>1, <3>1, <3>2 DEF CreatedFits
  <2>11. ToastFits(d, calls')
    BY <2>1, <2>2 DEF ToastFits
  <2> HIDE DEF n, ms, d
  <2>12. Agrees(d, ms, acts, Ahead)
    BY <1>1, <2>1, <2>4, <2>5, <2>6, <2>8, <2>9, AgreesNew
  <2> QED
    BY <1>2, <2>7, <2>10, <2>11, <2>12 DEF Telling, ms, d
<1> QED
  BY <1>3, <1>4 DEF ServerStarts

\* The room is connected: the server will see it.
LEMMA TellingConnectAnswered ==
    ASSUME Moves, NEW j \in client.joins, ConnectAnswered(j)
    PROVE  Telling'
<1>1. /\ Known /\ Typed /\ CallsAdvance /\ Agrees(client, calls, acts, Ahead)
      /\ CreatedFits(client, wire) /\ IsShown(client, calls) /\ calls \in Seq(Calls)
      /\ client \in Clients /\ Named(client) /\ Shape(client) /\ j \in Joins
      /\ None \notin DOMAIN calls
  BY KnownParts, ShownIs, JoinFields DEF Moves
<1>2. acts' = acts /\ wire' = wire
  BY DEF ConnectAnswered
<1>3. j.sess = client.session
  BY <1>1 DEF ConnectAnswered, Open, Shape, RoomFits, Up, Down
<1>4. client.status = "active" /\ client.call = j.call
  BY <1>1, <1>3, CurrentJoin
<1>5. Shown(client) = j.call /\ client.created = None
  BY <1>1, <1>4, ShownFacts
<1> DEFINE i == j.call
           k == [calls[i] EXCEPT !.in = "joined"]
           ms == calls'
           c == Connected(client, j)
           e == Stage(c, j, "mic")
           d == client'
<1>6. i \in DOMAIN calls
  BY <1>1 DEF Named
<1>7. calls[i] \in Calls
  BY <1>1, <1>6
<1>8. k \in Calls /\ k.in = "joined" /\ ms = [calls EXCEPT ![i] = k]
  BY <1>7 DEF Calls, ConnectAnswered
<1>9. /\ d.status = client.status /\ d.call = client.call
      /\ SameStart(client, d) /\ SameExperience(client, d)
  <2>1. d = Left(c, j) \/ d = Apply(e, TRUE)
    BY DEF ConnectAnswered
  <2>2. /\ c \in Clients /\ c.status = client.status /\ c.call = client.call
        /\ SameStart(client, c) /\ SameExperience(client, c)
    BY <1>1, ConnectedFields
  <2> HIDE DEF c
  <2>3. CASE d = Left(c, j)
    <3>1. /\ d.status = c.status /\ d.call = c.call
          /\ SameStart(c, d) /\ SameExperience(c, d)
      BY <2>2, <2>3, LeftFields
    <3> QED
      BY <2>2, <3>1 DEF SameStart, SameExperience
  <2>4. CASE d = Apply(e, TRUE)
    <3>1. /\ e \in Clients /\ e.status = c.status /\ e.call = c.call
          /\ SameStart(c, e) /\ SameExperience(c, e)
      BY <1>1, <2>2, StageFields
    <3> HIDE DEF e
    <3>2. /\ d.status = e.status /\ d.call = e.call
          /\ SameStart(e, d) /\ SameExperience(e, d)
      BY <2>4, <3>1, ApplyFields
    <3> QED
      BY <2>2, <3>1, <3>2 DEF SameStart, SameExperience
  <2> QED
    BY <2>1, <2>3, <2>4
<1>10. ms[i] = k /\ OnlyCall(i, calls, ms, Ahead, Ahead)
  BY <1>1, <1>6, <1>8, CallUpdated DEF OnlyCall
<1>11. Invite(i) \notin Ahead
  BY <1>1, <1>4, InvitedFacts
<1>12. CallFits(client, i, k, acts, Ahead)
  BY <1>4, <1>5, <1>8, <1>11 DEF CallFits, ActiveFits
<1>13. NoneForgotten(acts, acts)
  BY DEF NoneForgotten
<1>14. Ahead' = Ahead
  BY <1>2, <1>9, AheadSame DEF SameStart
<1>15. Shown(d) = Shown(client) /\ ms[d.call].in # "no"
  BY <1>4, <1>8, <1>9, <1>10 DEF Shown, SameStart
<1>16. ToastFits(d, calls')
  BY <1>1, <1>9, ToastStays DEF SameExperience
<1>17. CreatedFits(d, wire')
  BY <1>5, <1>9 DEF CreatedFits, SameStart
<1> HIDE DEF k, ms, d
<1>18. CallFits(client, i, ms[i], acts, Ahead)
  BY <1>10, <1>12
<1>19. Agrees(client, ms, acts, Ahead)
  BY <1>1, <1>10, <1>13, <1>18, AgreesCall
<1>20. Keeps(acts, acts, Shown(client))
  BY KeepsMore
<1>21. Agrees(d, ms, acts, Ahead)
  BY <1>9, <1>15, <1>19, <1>20, AgreesAlike DEF SameStart
<1> QED
  BY <1>2, <1>14, <1>16, <1>17, <1>21 DEF Telling, ms, d

\* The watcher has run: what is agreed of a client stays so.
LEMMA AgreesBecome ==
    ASSUME NEW c \in Clients, Become(c), NEW ks, NEW as, NEW X, Agrees(c, ks, as, X)
    PROVE  Agrees(client', ks, as, X)
<1> DEFINE d == client'
<1>1. Alike(c, d)
  BY BecomeFields
<1> HIDE DEF d
<1>2. Shown(d) = Shown(c)
  BY <1>1 DEF Shown, Alike, SameStart
<1>3. Keeps(as, as, Shown(c))
  BY KeepsMore
<1>4. d.room # None /\ Up(d) => c.room # None /\ Up(c)
  BY <1>1 DEF Alike, SameRoom, Up
<1>5. Agrees(d, ks, as, X)
  BY <1>1, <1>2, <1>3, <1>4, AgreesAlike DEF Alike, SameStart
<1> QED
  BY <1>5 DEF d

LEMMA TellingStartCall ==
    ASSUME Moves, StartCall
    PROVE  Telling'
<1> DEFINE c == [client EXCEPT !.status = "outgoing", !.call = None, !.reason = NoReason,
                               !.starting = "posted", !.shown = None]
<1>1. /\ Known /\ Agrees(client, calls, acts, Ahead) /\ client \in Clients
      /\ None \notin DOMAIN calls /\ InvitedFit(calls, Ahead) /\ Shape(client)
  BY KnownParts DEF Moves
<1>2. /\ client.status = "idle" /\ client.starting = "no" /\ Become(c)
      /\ UNCHANGED <<acts, calls, wire>>
  BY DEF StartCall, Same
<1>3. NoReason \in Reasons \cup {NoReason} /\ None \in Nat /\ "outgoing" \in Statuses
      /\ "posted" \in {"no", "posted", "refused", "created", "failed"}
  BY DEF Statuses
<1>4. c \in Clients
  BY <1>1, <1>3, Zenon DEF Clients
<1>5. /\ c.status = "outgoing" /\ c.call = None
      /\ c.created = client.created /\ c.pending = client.pending /\ c.room = client.room
  BY <1>1 DEF Clients
<1> HIDE DEF c
<1>6. client.created = None /\ Shown(client) = None /\ client.room = None
  BY <1>1, <1>2, ShownFacts, ShapeOutside
<1>7. Shown(c) = None
  BY <1>5, <1>6 DEF Shown
<1>8. Alike(c, client')
  BY <1>2, <1>4, BecomeFields
<1>9. Ahead' = Ahead
  BY <1>2, <1>5, <1>8, AheadSame DEF Alike, SameStart
<1>10. Agrees(c, calls, acts, Ahead)
  BY <1>1, <1>5, <1>6, <1>7, AgreesIdle
<1>11. Agrees(client', calls', acts', Ahead')
  BY <1>2, <1>4, <1>9, <1>10, AgreesBecome
<1>12. CreatedFits(client', wire')
  BY <1>5, <1>6, <1>8 DEF CreatedFits, Alike, SameStart
<1>13. ToastFits(client', calls')
  BY <1>5, <1>8 DEF ToastFits, Alike
<1> QED
  BY <1>11, <1>12, <1>13 DEF Telling

-----------------------------------------------------------------------------
(* A signal is delivered *)

\* Whoever waited on a ringing call is told how it ended.
LEMMA MessageTells ==
    ASSUME NEW k \in Calls, EndedWell(k), k.state = "ended", k.rang, k.by = "peer",
           NEW status,
           (status = "outgoing" /\ k.mine) \/ (status = "ringing" /\ ~k.mine)
    PROVE  CallTerminalMessage(k.reason, CallTerminalSide(status)) = k.reason
<1>1. k.reason \in {"timeout", IF k.mine THEN "rejected" ELSE "canceled"}
  BY DEF EndedWell
<1>2. CASE status = "outgoing"
  BY <1>1, <1>2 DEF CallTerminalMessage, CallTerminalSide
<1>3. CASE status = "ringing"
  BY <1>1, <1>3 DEF CallTerminalMessage, CallTerminalSide
<1> QED
  BY <1>2, <1>3

\* It waits for the answer to startCall.
LEMMA TellingWaits ==
    ASSUME Moves, DeliverSignal, Waits(client)
    PROVE  Telling'
<1> DEFINE s == Told(1)
           c == HandleSignal(client, s)
           d == client'
<1>1. /\ Known /\ Typed /\ Agrees(client, calls, acts, Ahead) /\ CreatedFits(client, wire)
      /\ client \in Clients /\ client.pending \in Seq(Signals)
  BY KnownParts, ClientFields DEF Moves
<1>2. wire # <<>> /\ wire' = Tail(wire) /\ UNCHANGED <<acts, calls>> /\ Become(c)
  BY DEF DeliverSignal, Told
<1>3. wire \in Seq(Sent) /\ 1 \in DOMAIN wire
  BY <1>1, <1>2, TypedParts DEF Kept
<1>4. s \in Signals
  BY <1>1, <1>3, ToldFacts
<1>5. /\ c \in Clients /\ c.pending = Append(client.pending, s)
      /\ c.status = client.status /\ c.call = client.call /\ c.created = client.created
      /\ SameRoom(client, c)
  BY <1>1, <1>4, WaitingFields
<1> HIDE DEF c
<1>6. Alike(c, d)
  BY <1>2, <1>5, BecomeFields
<1>7. d.pending = Append(client.pending, s) /\ d.status = client.status /\ d.call = client.call
      /\ d.created = client.created /\ SameRoom(client, d)
  BY <1>5, <1>6 DEF Alike, SameStart, SameRoom
<1> HIDE DEF d, s
<1>8. Ahead' = Ahead
  BY <1>1, <1>2, <1>7, AheadWaits DEF d, s
<1>9. Agrees(d, calls, acts, Ahead)
  <2>1. Shown(d) = Shown(client)
    BY <1>7 DEF Shown
  <2>2. Keeps(acts, acts, Shown(client))
    BY KeepsMore
  <2>3. d.room # None /\ Up(d) => client.room # None /\ Up(client)
    BY <1>7 DEF SameRoom, Up
  <2> QED
    BY <1>1, <1>7, <2>1, <2>2, <2>3, AgreesAlike
<1>10. /\ DOMAIN d.pending = DOMAIN client.pending \cup {Len(client.pending) + 1}
       /\ \A p \in DOMAIN client.pending : d.pending[p] = client.pending[p]
       /\ d.pending[Len(client.pending) + 1] = s
  BY <1>1, <1>7
<1>11. s.type # "invite" /\ wire[1].event # "invite" /\ s.call = wire[1].call
  <2>1. ~Invited(d)
    BY DEF Moves, Undisturbed, d, Invited
  <2>2. s.type # "invite"
    BY <1>10, <2>1 DEF Invited
  <2> QED
    BY <1>1, <1>3, <2>2, ToldFacts DEF s
<1>12. CreatedFits(d, wire')
  <2> SUFFICES ASSUME client.created # None
               PROVE  /\ \A p \in DOMAIN d.pending : d.pending[p].call <= client.created
                      /\ \A p \in DOMAIN wire' : wire'[p].call > client.created =>
                            \E q \in DOMAIN wire' : q <= p /\ wire'[q].event = "invite"
    BY <1>7 DEF CreatedFits
  <2>1. /\ DOMAIN wire = 1..Len(wire) /\ Len(wire) \in Nat
        /\ \A p \in DOMAIN wire' : p + 1 \in DOMAIN wire /\ wire'[p] = wire[p + 1] /\ p \in Nat
        /\ \A p \in DOMAIN wire : p # 1 => p - 1 \in DOMAIN wire' /\ wire'[p - 1] = wire[p]
    BY <1>1, <1>2, WireTail
  <2>2. wire[1].call <= client.created
    <3>1. wire[1].call \in Nat /\ client.created \in Nat
      <4>1. s \in Signals
        BY <1>4
      <4>2. s.call \in Nat
        BY <4>1, SignalIs
      <4> QED
        BY <1>1, <1>11, <4>2, ClientFields
    <3>2. wire[1].call > client.created =>
                \E q \in DOMAIN wire : q <= 1 /\ wire[q].event = "invite"
      BY <1>1, <1>3 DEF CreatedFits
    <3>3. \A q \in DOMAIN wire : q <= 1 => q = 1
      BY <2>1
    <3>4. ~(wire[1].call > client.created)
      BY <1>11, <3>2, <3>3
    <3> QED
      BY <3>1, <3>4
  <2>3. \A p \in DOMAIN d.pending : d.pending[p].call <= client.created
    BY <1>1, <1>10, <1>11, <2>2 DEF CreatedFits
  <2>4. ASSUME NEW p \in DOMAIN wire', wire'[p].call > client.created
        PROVE  \E q \in DOMAIN wire' : q <= p /\ wire'[q].event = "invite"
    <3>1. p + 1 \in DOMAIN wire /\ wire[p + 1].call > client.created /\ p \in Nat
      BY <2>1, <2>4
    <3>2. PICK q \in DOMAIN wire : q <= p + 1 /\ wire[q].event = "invite"
      BY <1>1, <3>1 DEF CreatedFits
    <3>3. q # 1
      BY <1>11, <3>2
    <3>4. q - 1 \in DOMAIN wire' /\ wire'[q - 1] = wire[q] /\ q \in Nat
      BY <2>1, <3>3
    <3>5. q - 1 <= p
      BY <3>1, <3>2, <3>4
    <3> QED
      BY <3>2, <3>4, <3>5
  <2> QED
    BY <2>3, <2>4
<1>13. ToastFits(d, calls')
  BY <1>7 DEF ToastFits, Waits
<1> QED
  BY <1>2, <1>8, <1>9, <1>12, <1>13 DEF Telling, d

\* It is handled at once: the toast tells how the call that was shown ended.
LEMMA ToastHandled ==
    ASSUME Moves, calls' = calls, ~Waits(client), NEW s \in Signals, s.call \in DOMAIN calls,
           SignalHolds(calls[s.call], s), Become(Handled(client, s))
    PROVE  ToastFits(client', calls')
<1> DEFINE d == Handled(client, s)
<1>1. /\ Known /\ CallsAdvance /\ client \in Clients /\ Resting(client)
      /\ StatusFits(client, calls) /\ calls \in Seq(Calls)
  BY KnownParts DEF Moves
<1>2. /\ d \in Clients /\ SameStart(client, d) /\ SameExperience(client, d)
      /\ \/ Ignored(client, d, s) \/ Rings(client, d, s) \/ IsAccepted(client, d, s)
         \/ IsEnded(client, d, s)
         \/ s.type = "accept" /\ client.status # "outgoing" /\ d = client
  BY <1>1, HandledFields
<1>3. Become(d)
  OBVIOUS
<1> HIDE DEF d
<1>4. /\ client'.status = d.status
      /\ client'.shown = IF d.call # None THEN d.call ELSE d.shown
      /\ client'.toast = IF d.status = d.seen THEN d.toast
                         ELSE IF d.status # "idle" \/ d.reason = NoReason THEN NoReason
                         ELSE CallTerminalMessage(d.reason, CallTerminalSide(d.seen))
  BY <1>2, <1>3, BecomeFields DEF Alike
<1>5. client.seen = client.status
  BY <1>1 DEF Resting
<1>6. CASE d.status # "idle"
  BY <1>4, <1>6 DEF ToastFits
<1>7. CASE d.status = "idle" /\ client.status = "idle"
  <2>1. d.call = None
    <3>1. ~Ignored(client, d, s) /\ ~Rings(client, d, s)
      BY <1>7 DEF Ignored, Rings
    <3>2. ~IsAccepted(client, d, s)
      BY <1>7 DEF IsAccepted
    <3>3. CASE IsEnded(client, d, s)
      BY <1>1, <3>3, EndSessionFields DEF IsEnded
    <3>4. CASE d = client
      BY <1>1, <1>7, <3>4 DEF StatusFits
    <3> QED
      BY <1>2, <3>1, <3>2, <3>3, <3>4
  <2>2. client'.shown = client.shown /\ client'.toast = client.toast
    BY <1>2, <1>4, <1>5, <1>7, <2>1 DEF SameExperience
  <2> QED
    BY <1>1, <1>4, <1>7, <2>2, ToastStays
<1>8. CASE d.status = "idle" /\ client.status # "idle"
  <2>1. s.type \in Reasons /\ s.call = client.call /\ d.call = None /\ d.reason = s.type
    <3>1. ~Ignored(client, d, s) /\ ~Rings(client, d, s) /\ d # client
      BY <1>8 DEF Ignored, Rings
    <3>2. ~IsAccepted(client, d, s)
      BY <1>1, <1>8, JoinRoomFields DEF IsAccepted
    <3>3. IsEnded(client, d, s)
      BY <1>2, <3>1, <3>2
    <3> QED
      BY <1>1, <1>8, <3>3, EndSessionFields DEF IsEnded
  <2> DEFINE k == calls[s.call]
  <2>2. k \in Calls /\ EndedWell(k)
    BY <1>1 DEF Known, ServerFits, CallsFit
  <2>3. k.state = "ended" /\ k.by = "peer" /\ k.reason = s.type
    BY <2>1, ReasonFacts DEF SignalHolds
  <2>4. client.call # None
    BY <1>1, <1>8, ShownFacts, KnownParts, ClientFields DEF StatusFits, Resting, Waits, Statuses
  <2>5. client.shown = client.call
    BY <1>1, <2>4 DEF Resting
  <2>6. k.rang => \/ client.status = "outgoing" /\ k.mine
                  \/ client.status = "ringing" /\ ~k.mine
    <3>1. client.status \in {"outgoing", "ringing", "active"}
      BY <1>1, <1>8, ClientFields DEF Statuses
    <3>2. client.status = "active" => Accepted(k)
      BY <1>1, <2>1 DEF StatusFits
    <3> QED
      BY <1>1, <2>1, <2>3, <2>4, <3>1, <3>2 DEF StatusFits, Accepted
  <2>7. client'.shown = s.call /\ client'.status = "idle"
    BY <1>2, <1>4, <1>8, <2>1, <2>5 DEF SameExperience
  <2>8. client'.toast = CallTerminalMessage(k.reason, CallTerminalSide(client.status))
    BY <1>2, <1>4, <1>5, <1>8, <2>1, <2>3, ReasonFacts DEF SameExperience
  <2> HIDE DEF k
  <2>9. k.rang => client'.toast = k.reason
    BY <2>2, <2>3, <2>6, <2>8, MessageTells
  <2> QED
    BY <2>3, <2>7, <2>9 DEF ToastFits, k
<1> QED
  BY <1>6, <1>7, <1>8

LEMMA TellingHandled ==
    ASSUME Moves, DeliverSignal, ~Waits(client)
    PROVE  Telling'
<1> DEFINE s == Told(1)
           d == Handled(client, s)
           Y == Ahead'
<1>1. /\ Known /\ Typed /\ Agrees(client, calls, acts, Ahead) /\ client \in Clients
      /\ Fits(client, calls, acts, wire) /\ Resting(client) /\ Kept /\ ServerFits
      /\ None \notin DOMAIN calls
  BY KnownParts DEF Moves
<1>2. wire # <<>> /\ wire' = Tail(wire) /\ UNCHANGED <<acts, calls>> /\ Become(d)
  BY DEF DeliverSignal, Told, HandleSignal, Waits
<1>3. wire \in Seq(Sent) /\ 1 \in DOMAIN wire
  BY <1>1, <1>2 DEF Kept
<1>4. s \in Signals /\ s.call \in DOMAIN calls /\ s.call # None /\ SignalHolds(calls[s.call], s)
  BY <1>1, <1>3, ToldFacts DEF ServerFits, SignalsFit
<1>5. /\ s.type = "invite" => client.call # s.call
      /\ InvitesFit(client, acts, wire)
  BY <1>1, <1>2, InvitesLess DEF Fits
<1>6. client.pending = <<>> /\ client.created = None /\ ~(client.status = "outgoing" /\ client.call = None)
  BY <1>1, ShownFacts DEF Resting
<1>7. /\ d \in Clients /\ SameStart(client, d)
  BY <1>1, <1>4, HandledFields
<1>8. Alike(d, client')
  BY <1>2, <1>7, BecomeFields
<1>9. d.crossed = "no"
  BY <1>8 DEF Moves, Undisturbed, Alike
<1>10. client'.pending = client.pending /\ client'.created = None
  BY <1>6, <1>7, <1>8 DEF Alike, SameStart
<1>11. Y \subseteq Ahead /\ Ahead \subseteq Y \cup {s} /\ s \in Ahead
  BY <1>1, <1>2, <1>10, AheadLess
<1>12. Invite(s.call) \notin Y
  <2> SUFFICES ASSUME Invite(s.call) \in Y PROVE FALSE
    OBVIOUS
  <2>1. Y = {Told(p)' : p \in DOMAIN wire'}
    BY <1>6, <1>10 DEF Ahead
  <2>2. PICK p \in DOMAIN wire' : Invite(s.call) = Told(p)'
    BY <2>1
  <2>3. p + 1 \in DOMAIN wire /\ Told(p)' = Told(p + 1) /\ p \in Nat /\ DOMAIN wire' = 1..(Len(wire) - 1)
    BY <1>1, <1>2, WireTail
  <2> DEFINE q == p + 1
  <2>4. q \in DOMAIN wire /\ Invite(s.call) = Told(q) /\ 1 < q
    BY <2>2, <2>3
  <2> HIDE DEF q
  <2>5. InOrder(s, Told(q))
    BY <1>1, <1>3, <2>4 DEF ServerFits, SignalsFit
  <2>6. Told(q).call = s.call /\ Told(q).type = "invite"
    BY <2>4, InviteFacts DEF InviteFields
  <2> QED
    BY <2>5, <2>6 DEF InOrder
<1>13. ToastFits(client', calls')
  BY <1>2, <1>4, ToastHandled
<1>14. CreatedFits(client', wire')
  BY <1>10 DEF CreatedFits
<1> HIDE DEF s, Y
<1>15. acts \subseteq Requested /\ Handled(client, s).crossed = "no"
  BY <1>1, <1>9 DEF Kept
<1>16. Agrees(Handled(client, s), calls, acts, Y)
  BY <1>1, <1>4, <1>5, <1>6, <1>11, <1>12, <1>15, AgreesHandled
<1>17. Agrees(d, calls, acts, Y)
  BY <1>16
<1> HIDE DEF d
<1>18. Agrees(client', calls', acts', Ahead')
  BY <1>2, <1>7, <1>17, AgreesBecome DEF Y
<1> QED
  BY <1>13, <1>14, <1>18 DEF Telling

LEMMA TellingDeliverSignal ==
    ASSUME Moves, DeliverSignal
    PROVE  Telling'
BY TellingWaits, TellingHandled

-----------------------------------------------------------------------------
(* A session ends *)

\* Whatever ends the session, the call has ended or was joined; and nobody is
\* told of his own end.
LEMMA TellingEnds ==
    ASSUME Moves, UNCHANGED <<calls, wire>>, NEW d \in Clients, Become(d),
           d.status = "idle", d.call = None, d.room = None,
           SameStart(client, d), d.shown = client.shown, client.call # None,
           \/ calls[client.call].state = "ended"
           \/ calls[client.call].state = "active" /\ calls[client.call].in # "no",
           calls[client.call].state = "ended" /\ calls[client.call].rang =>
                calls[client.call].by = "me" /\ client'.toast = NoReason
    PROVE  Telling'
<1>1. /\ Known /\ Agrees(client, calls, acts, Ahead) /\ InvitedFit(calls, Ahead)
      /\ Resting(client)
  BY KnownParts DEF Moves
<1>2. client.created = None /\ Shown(client) = client.call /\ client.shown = client.call
  BY <1>1, ShownFacts DEF Resting
<1> DEFINE X == Ahead
<1>3. Alike(d, client') /\ client'.shown = client.call
  BY <1>2, BecomeFields
<1>4. Ahead' = X
  BY <1>3, AheadSame DEF Alike, SameStart
<1>5. Agrees(client, calls, acts, X) /\ InvitedFit(calls, X)
  BY <1>1
<1> DEFINE bs == acts'
<1> HIDE DEF X, bs
<1>6. Agrees(d, calls, bs, X)
  <2>1. Shown(client) \in DOMAIN calls =>
            \/ calls[Shown(client)].state = "ended"
            \/ /\ calls[Shown(client)].state = "active" /\ calls[Shown(client)].in # "no"
               /\ d.created = None
    BY <1>2 DEF SameStart
  <2>2. d.created = client.created /\ d.status \in {"idle", "outgoing"}
        /\ (d.status = "outgoing" => Shown(d) = None)
    BY DEF SameStart
  <2>3. \A i \in DOMAIN calls : Invite(i) \in X => Invite(i) \in X
    OBVIOUS
  <2> QED
    BY <1>5, <2>1, <2>2, <2>3, AgreesIdle
<1>7. Agrees(client', calls, bs, X)
  BY <1>6, AgreesBecome
<1>8. Agrees(client', calls', acts', Ahead')
  BY <1>4, <1>7 DEF bs
<1>9. CreatedFits(client', wire')
  BY <1>2, <1>3 DEF CreatedFits, Alike, SameStart
<1>10. ToastFits(client', calls')
  BY <1>3 DEF ToastFits
<1> QED
  BY <1>8, <1>9, <1>10 DEF Telling

\* The call is answered.
LEMMA TellingAccepts ==
    ASSUME Moves, NEW a \in acts, ActAnswered(a), Accepts(a)
    PROVE  Telling'
<1> DEFINE c == Crossing(client, Crossed(client, a, "over"))
           d == JoinRoom([c EXCEPT !.status = "active"])
           X == Ahead
           bs == acts'
<1>1. /\ Known /\ client \in Clients /\ StatusFits(client, calls) /\ Shape(client)
      /\ Agrees(client, calls, acts, X) /\ InvitedFit(calls, X) /\ ActsFit(client, calls, acts)
      /\ a \in Requested /\ a.call # None
  BY KnownParts, KnownAct DEF Moves
<1>2. a.kind = "accept" /\ a.stage = "ok" /\ Become(d) /\ UNCHANGED <<calls, wire>>
  BY DEF Accepts, ActAnswered, Same
<1>3. /\ c \in Clients /\ c.crossed = Crossed(client, a, "over")
      /\ c.status = client.status /\ c.call = client.call
      /\ SameRoom(client, c) /\ SameStart(client, c)
  <2>1. Crossed(client, a, "over") \in Crossings
    BY <1>1, CrossingTypes
  <2> QED
    BY <1>1, <2>1, CrossingFields
<1> HIDE DEF c, X, bs
<1>4. /\ d \in Clients /\ d.status = "active" /\ d.call = c.call /\ d.crossed = c.crossed
      /\ d.room = c.room /\ SameStart(c, d)
  BY <1>3, JoinRoomFields
<1> HIDE DEF d
<1>5. Alike(d, client')
  BY <1>2, <1>4, BecomeFields
<1>6. client.call = a.call
  BY <1>1, <1>3, <1>4, <1>5, CrossingTypes DEF Moves, Undisturbed, Alike
<1>7. client.status \in {"outgoing", "ringing"}
  <2>1. client.status # "active"
    BY <1>1, <1>2, <1>6 DEF ActsFit, Answered
  <2>2. client.status # "idle"
    BY <1>1, <1>6 DEF StatusFits
  <2> QED
    BY <1>1, <2>1, <2>2, ClientFields DEF Statuses
<1>8. client.room = None /\ client.created = None
  BY <1>1, <1>6, <1>7, ShownFacts
<1>9. d.room = None /\ d.created = client.created /\ d.pending = client.pending
      /\ d.call = client.call
  BY <1>3, <1>4, <1>8 DEF SameRoom, SameStart
<1>10. Ahead' = X
  BY <1>2, <1>5, <1>9, AheadSame DEF Alike, SameStart, X
<1>11. Agrees(d, calls, bs, X)
  <2>1. client.call # None
    BY <1>1, <1>6
  <2>2. \A i \in DOMAIN calls : Invite(i) \in X => Invite(i) \in X
    OBVIOUS
  <2> QED
    BY <1>1, <1>4, <1>7, <1>9, <2>1, <2>2, AgreesJoin
<1>12. Agrees(client', calls, bs, X)
  BY <1>2, <1>4, <1>11, AgreesBecome
<1>13. Agrees(client', calls', acts', Ahead')
  BY <1>2, <1>10, <1>12 DEF bs
<1>14. CreatedFits(client', wire') /\ ToastFits(client', calls')
  BY <1>4, <1>5, <1>8, <1>9 DEF CreatedFits, ToastFits, Alike, SameStart
<1> QED
  BY <1>13, <1>14 DEF Telling

\* The call is refused, withdrawn or left, as was asked for.
LEMMA TellingEndsWith ==
    ASSUME Moves, NEW a \in acts, ActAnswered(a),
           NEW reason \in Reasons, NEW crossed \in Crossings, EndsWith(a, reason, crossed)
    PROVE  Telling'
<1> DEFINE e == EndSession(client, reason)
           d == Crossing(e, crossed)
           k == calls[client.call]
<1>1. /\ Known /\ client \in Clients /\ StatusFits(client, calls) /\ Resting(client)
      /\ a \in Requested /\ a.call # None /\ ActHolds(a, calls[a.call]) /\ ActFits(client, a)
  BY KnownParts, KnownAct DEF Moves
<1>2. Become(d) /\ UNCHANGED <<calls, wire>>
  BY DEF EndsWith, ActAnswered, Same
<1>3. /\ e \in Clients /\ e.status = "idle" /\ e.call = None /\ e.room = None
      /\ e.reason = reason /\ SameStart(client, e) /\ SameExperience(client, e)
  BY <1>1, EndSessionFields
<1> HIDE DEF e
<1>4. /\ d \in Clients /\ d.crossed = crossed /\ d.status = e.status /\ d.call = e.call
      /\ d.reason = e.reason /\ SameRoom(e, d) /\ SameStart(e, d) /\ SameExperience(e, d)
  BY <1>3, CrossingFields
<1> HIDE DEF d
<1>5. /\ Alike(d, client')
      /\ client'.toast = IF d.status = d.seen THEN d.toast
                         ELSE IF d.status # "idle" \/ d.reason = NoReason THEN NoReason
                         ELSE CallTerminalMessage(d.reason, CallTerminalSide(d.seen))
  BY <1>2, <1>4, BecomeFields
<1>6. crossed = "no"
  BY <1>4, <1>5 DEF Moves, Undisturbed, Alike
\* No call is shown: the answer is to one that was over already.
<1>13. CASE client.status = "idle"
  <2>1. client.call = None /\ client.seen = "idle" /\ Shown(client) = None
    BY <1>1, <1>13, ShownFacts DEF StatusFits, Resting
  <2>2. d.status = "idle" /\ d.call = None /\ d.room = None /\ SameStart(client, d)
        /\ SameExperience(client, d)
    BY <1>3, <1>4 DEF SameRoom, SameStart, SameExperience
  <2>3. /\ client'.status = "idle" /\ client'.call = None /\ client'.room = None
        /\ client'.created = client.created /\ client'.pending = client.pending
        /\ client'.toast = client.toast
    BY <1>5, <2>1, <2>2 DEF Alike, SameRoom, SameStart, SameExperience
  <2>4. client'.shown = client.shown
    BY <1>2, <1>4, <2>2, BecomeFields DEF SameExperience
  <2>5. acts \ {a} \subseteq acts'
    BY DEF ActAnswered
  <2>6. Keeps(acts, acts', Shown(client))
    BY <1>1, <2>1, <2>5, KeepsLess
  <2> QED
    BY <1>2, <1>13, <2>1, <2>3, <2>4, <2>6, TellingAlike
<1> SUFFICES ASSUME client.status # "idle" PROVE Telling'
  BY <1>13
<1>7. /\ client.call = a.call /\ a.stage = "ok" /\ ~(a.kind = "hangup" /\ a.sess # None)
      /\ \/ a.kind \in {"reject", "rejectBlocked"} /\ reason = "rejected"
         \/ a.kind = "cancel" /\ reason = "canceled"
         \/ a.kind = "hangup" /\ reason = "ended"
  BY <1>1, <1>6, CrossingTypes DEF EndsWith
<1>8. k.state = "ended" /\ k.by = "me"
  BY <1>1, <1>7 DEF ActHolds, Ending
<1>9. client.status \in {"outgoing", "ringing", "active"} /\ client.seen = client.status
  BY <1>1, <1>7, ClientFields DEF StatusFits, Statuses, Resting
<1>10. client'.toast = CallTerminalMessage(reason, CallTerminalSide(client.status))
  BY <1>3, <1>4, <1>5, <1>9, ReasonFacts DEF SameExperience
<1>11. k.rang => client'.toast = NoReason
  <2> SUFFICES ASSUME k.rang PROVE client'.toast = NoReason
    OBVIOUS
  <2>1. client.status # "active"
    BY <1>1, <1>8 DEF StatusFits, Accepted
  <2>2. a.kind # "hangup"
    BY <1>1, <1>7, <2>1 DEF ActFits
  <2>3. CASE a.kind \in {"reject", "rejectBlocked"} /\ reason = "rejected"
    <3>1. ~k.mine
      BY <1>1, <1>7, <2>3 DEF ActHolds, Refusing
    <3>2. client.status = "ringing"
      BY <1>1, <1>7, <1>9, <2>1, <3>1 DEF StatusFits
    <3> QED
      BY <1>10, <2>3, <3>2 DEF CallTerminalMessage, CallTerminalSide, Refusals
  <2>4. CASE a.kind = "cancel" /\ reason = "canceled"
    <3>1. k.mine
      BY <1>1, <1>7, <2>4 DEF ActHolds
    <3>2. client.status = "outgoing"
      BY <1>1, <1>9, <2>1, <3>1 DEF StatusFits
    <3> QED
      BY <1>10, <2>4, <3>2 DEF CallTerminalMessage, CallTerminalSide, Refusals
  <2> QED
    BY <1>7, <2>2, <2>3, <2>4
<1>12. /\ d.status = "idle" /\ d.call = None /\ d.room = None /\ SameStart(client, d)
       /\ d.shown = client.shown /\ client.call # None
  BY <1>1, <1>3, <1>4, <1>7 DEF SameRoom, SameStart, SameExperience
<1> QED
  BY <1>2, <1>4, <1>8, <1>11, <1>12, TellingEnds

\* joinRoom's own hangup is answered, whatever the answer.
LEMMA TellingHangsUp ==
    ASSUME Moves, NEW a \in acts, ActAnswered(a), HangsUp(a)
    PROVE  Telling'
<1> DEFINE c == LeftBy(client, a.sess)
           d == EndSession(c, "disconnected")
           k == calls[client.call]
<1>1. /\ Known /\ client \in Clients /\ StatusFits(client, calls) /\ Shape(client)
      /\ a \in Requested /\ a.call # None /\ ActHolds(a, calls[a.call]) /\ ActFits(client, a)
      /\ a.stage # "failed"
  BY KnownParts, KnownAct DEF Moves
<1>2. /\ UNCHANGED <<calls, wire>> /\ a.kind = "hangup" /\ a.sess # None /\ a.stage # "sent"
      /\ acts \ {a} \subseteq acts'
      /\ IF a.sess = client.session THEN Become(d) ELSE client' = c
  BY DEF HangsUp, ActAnswered, Same
<1>3. "disconnected" \in Reasons
  BY DEF Reasons
<1>4. /\ c \in Clients /\ c.session = client.session /\ c.room = client.room
      /\ c.rooms = client.rooms /\ c.status = client.status /\ c.call = client.call
      /\ SameStart(client, c) /\ SameExperience(client, c)
  BY <1>1, LeftByFields
<1> HIDE DEF c
<1>5. /\ d \in Clients /\ d.status = "idle" /\ d.call = None /\ d.room = None
      /\ SameStart(c, d) /\ SameExperience(c, d)
  BY <1>3, <1>4, EndSessionFields
<1> HIDE DEF d
<1>6. CASE a.sess = client.session
  <2>1. client.status = "active" /\ a.call = client.call
    BY <1>1, <1>2, <1>6 DEF ActFits
  <2>2. a.stage \in {"ok", "gone"}
    <3>1. a.stage \in {"sent", "ok", "refused", "gone", "failed"}
      BY <1>1 DEF Requested
    <3>2. a.stage # "refused"
      BY <1>1, <1>2 DEF ActHolds
    <3> QED
      BY <1>1, <1>2, <3>1, <3>2
  <2>3. k.state = "ended"
    BY <1>1, <1>2, <2>1, <2>2 DEF ActHolds, Ending
  <2>4. ~k.rang
    BY <1>1, <2>1, <2>3 DEF StatusFits, Accepted
  <2>5. SameStart(client, d) /\ d.shown = client.shown /\ Become(d) /\ client.call # None
    BY <1>1, <1>2, <1>4, <1>5, <1>6, <2>1 DEF SameStart, SameExperience
  <2> QED
    BY <1>2, <1>5, <2>3, <2>4, <2>5, TellingEnds
<1>7. CASE a.sess # client.session
  <2>1. client' = c
    BY <1>2, <1>7
  <2>2. SameShown(client, client')
    BY <1>4, <2>1 DEF SameShown
  <2>3. a.call # Shown(client)
    <3>1. a.call # client.created
      BY <1>1 DEF ActFits
    <3>2. a.call # client.call
      BY <1>1, <1>2, <1>7 DEF ActFits
    <3> QED
      BY <3>1, <3>2 DEF Shown
  <2>4. Keeps(acts, acts', Shown(client))
    BY <1>2, <2>3, KeepsLess
  <2> QED
    BY <1>2, <2>2, <2>4, TellingSame
<1> QED
  BY <1>6, <1>7

LEMMA TellingActAnswered ==
    ASSUME Moves, NEW a \in acts, ActAnswered(a)
    PROVE  Telling'
<1>1. CASE LeavesAlone(a)
  <2>1. /\ client' = client /\ UNCHANGED <<calls, wire>> /\ acts \ {a} \subseteq acts'
        /\ a.stage # "ok" \/ a.kind = "block"
    BY <1>1 DEF LeavesAlone, ActAnswered, Same
  <2>2. SameShown(client, client')
    BY <2>1 DEF SameShown, SameStart, SameExperience
  <2>3. Keeps(acts, acts', Shown(client))
    BY <2>1, KeepsLess
  <2> QED
    BY <2>1, <2>2, <2>3, TellingSame
<1>2. Typed
  BY KnownParts DEF Moves
<1> QED
  BY <1>1, <1>2, AnsweredCases, TellingAccepts, TellingHangsUp, TellingEndsWith

\* The room of the call is given up.
LEMMA TellingDisconnects ==
    ASSUME Moves, NEW r \in client.rooms, r.up, Disconnects(r), UNCHANGED <<acts, calls, wire>>
    PROVE  Telling'
<1> DEFINE d == EndSession(client, "disconnected")
           k == calls[client.call]
<1>1. /\ Known /\ client \in Clients /\ StatusFits(client, calls) /\ RoomFits(client)
      /\ ShownFits(client, calls, acts, Ahead) /\ calls \in Seq(Calls)
  BY KnownParts DEF Moves, Shape
<1>2. client.status = "active" /\ Up(client) /\ client.room # None /\ client.call \in DOMAIN calls
  BY <1>1, UpShown, ShownFacts
<1>3. client.room = r.sess
  <2>1. r = [sess |-> client.session, call |-> client.call, up |-> TRUE]
    BY <1>2 DEF Up
  <2>2. r.sess = client.session
    BY <2>1
  <2> QED
    BY <1>1, <1>2, <2>2 DEF RoomFits
<1>4. Become(d)
  BY <1>3 DEF Disconnects
<1>5. "disconnected" \in Reasons
  BY DEF Reasons
<1>6. /\ d \in Clients /\ d.status = "idle" /\ d.call = None /\ d.room = None
      /\ SameStart(client, d) /\ d.shown = client.shown
  BY <1>1, <1>5, EndSessionFields DEF SameExperience
<1> HIDE DEF d
<1>7. Accepted(k) /\ k.in # "no" /\ k \in Calls
  BY <1>1, <1>2 DEF StatusFits, ShownFits
<1>8. k.state \in {"active", "ended"} /\ (k.state = "ended" => ~k.rang)
  BY <1>7 DEF Accepted, Calls
<1>9. client.call # None
  BY <1>1, <1>2 DEF StatusFits
<1> QED
  BY <1>4, <1>6, <1>7, <1>8, <1>9, TellingEnds

-----------------------------------------------------------------------------
(* startCall is answered *)

\* The server has refused the call, or its answer is lost.
LEMMA TellingRefused ==
    ASSUME Moves, StartAnswered, client.starting # "created"
    PROVE  Telling'
<1>1. /\ Known /\ Agrees(client, calls, acts, Ahead) /\ InvitedFit(calls, Ahead)
      /\ client \in Clients /\ Typed /\ ServerFits /\ Named(client)
      /\ StatusFits(client, calls) /\ Shape(client) /\ Resting(client)
      /\ None \notin DOMAIN calls
  BY KnownParts DEF Moves
<1>2. client.starting = "refused" /\ UNCHANGED <<acts, calls, wire>>
  BY DEF StartAnswered, Same, Moves, Known, FailuresLost, Undisturbed
<1>3. PICK reason \in Refusals : Become(StartRefused(client, reason))
  BY <1>2 DEF StartAnswered
<1> DEFINE d == StartRefused(client, reason)
<1>4. reason \in Reasons \cup {NoReason}
  BY DEF Reasons
<1>5. /\ d \in Clients /\ d.status = "idle" /\ d.call = None /\ d.created = client.created
      /\ d.pending = <<>> /\ SameRoom(client, d) /\ SameExperience(client, d)
  BY <1>1, <1>4, StartRefusedFields
<1>6. Become(d)
  BY <1>3
<1> HIDE DEF d
<1>7. Alike(d, client') /\ client'.shown = d.shown
  BY <1>5, <1>6, BecomeFields
<1>8. /\ client.status = "outgoing" /\ client.call = None /\ client.created = None
      /\ client.shown = None /\ Shown(client) = None /\ client.room = None
  <2>1. client.status = "outgoing" /\ client.call = None /\ client.shown = None
    BY <1>1, <1>2 DEF Resting
  <2>2. client.created = None
    BY <1>1, <1>2 DEF Named
  <2>3. client.room = None
    BY <1>1, <2>1, ShapeOutside
  <2> QED
    BY <2>1, <2>2, <2>3 DEF Shown
<1> DEFINE X == Ahead
           Y == Ahead'
<1>9. Y = {Told(p) : p \in DOMAIN wire}
  <2>1. {Told(p)' : p \in DOMAIN wire'} = {Told(p) : p \in DOMAIN wire}
    BY <1>2 DEF Told
  <2>2. client'.pending = <<>>
    BY <1>5, <1>7 DEF Alike, SameStart
  <2> QED
    BY <2>1, <2>2 DEF Ahead
<1>10. \A i : Invite(i) \in X => Invite(i) \in Y
  <2> SUFFICES ASSUME NEW i, Invite(i) \in X PROVE Invite(i) \in Y
    OBVIOUS
  <2>1. \A p \in DOMAIN client.pending : client.pending[p] # Invite(i)
    BY InviteFacts DEF Moves, Known, Undisturbed, Invited, InviteFields
  <2> QED
    BY <1>9, <2>1 DEF Ahead
<1>11. ASSUME NEW i \in DOMAIN calls, Invite(i) \in Y
       PROVE  /\ calls[i].in = "no" /\ calls[i].state # "active"
              /\ calls[i].state = "ended" => Ends(i, Y)
  <2>1. Invite(i) \in X
    BY <1>9, <1>11 DEF Ahead
  <2>2. /\ calls[i].in = "no" /\ calls[i].state # "active"
        /\ calls[i].state = "ended" => Ends(i, X)
    BY <1>1, <2>1 DEF InvitedFit
  <2>3. ASSUME NEW s \in X, s.call = i PROVE s \in Y
    <3>1. PICK q \in DOMAIN wire : Told(q) = Invite(i)
      BY <1>9, <1>11
    <3>2. ASSUME NEW p \in DOMAIN client.pending PROVE client.pending[p] # s
      <4>1. InOrder(client.pending[p], Told(q))
        BY <1>1 DEF ServerFits, SignalsFit
      <4> QED
        BY <2>3, <3>1, <4>1, InviteFacts DEF InOrder, InviteFields
    <3> QED
      BY <1>9, <3>2 DEF Ahead
  <2> QED
    BY <2>2, <2>3 DEF Ends
<1> HIDE DEF X, Y
<1>12. Agrees(d, calls, acts, Y)
  <2>1. Agrees(client, calls, acts, X)
    BY <1>1 DEF X
  <2>2. InvitedFit(calls, Y)
    BY <1>11 DEF InvitedFit
  <2>3. d.room = None
    BY <1>5, <1>8 DEF SameRoom
  <2>4. Shown(client) \notin DOMAIN calls
    BY <1>1, <1>8
  <2> QED
    BY <1>5, <1>10, <2>1, <2>2, <2>3, <2>4, AgreesIdle
<1>13. Agrees(client', calls, acts, Y)
  BY <1>5, <1>6, <1>12, AgreesBecome
<1>14. Agrees(client', calls', acts', Ahead')
  BY <1>2, <1>13 DEF Y
<1>15. CreatedFits(client', wire') /\ ToastFits(client', calls')
  BY <1>5, <1>7, <1>8 DEF CreatedFits, ToastFits, Alike, SameStart, SameExperience
<1> QED
  BY <1>14, <1>15 DEF Telling

\* What is under way when n of the pending signals are handled.
Behind(n) ==
    {client.pending[p] : p \in (n + 1)..Len(client.pending)} \cup {Told(p) : p \in DOMAIN wire}

\* The call is shown, or has ended as a signal said.
EndKnown(d, n) ==
    /\ d.status \in {"outgoing", "active"} => d.call = client.created
    /\ d.status # "ringing"
    /\ d.status = "idle" =>
        /\ calls[client.created].state = "ended" /\ calls[client.created].by = "peer"
        /\ calls[client.created].reason = d.reason /\ d.reason \in Reasons
        /\ \E m \in 1..n : client.pending[m].call = client.created

LEMMA BehindLess ==
    ASSUME Known, client.created # None, NEW n \in 1..Len(client.pending)
    PROVE  LET s == client.pending[n] IN
           /\ s \in Behind(n - 1) /\ Behind(n) \subseteq Behind(n - 1)
           /\ Behind(n - 1) \subseteq Behind(n) \cup {s} /\ Invite(s.call) \notin Behind(n)
<1> DEFINE s == client.pending[n]
           last == Len(client.pending)
<1>1. /\ Typed /\ ServerFits /\ client.pending \in Seq(Signals) /\ ~Invited(client)
      /\ last \in Nat /\ DOMAIN client.pending = 1..last
  BY KnownParts, ClientFields DEF Known, Undisturbed
<1>2. (n - 1) + 1 = n /\ n \in Nat
  BY <1>1
<1>3. \A p : p \in n..last <=> p = n \/ p \in (n + 1)..last
  BY <1>1
<1>4. \A p \in (n + 1)..last : p \in DOMAIN client.pending
  BY <1>1
<1>5. \A p \in DOMAIN client.pending : client.pending[p].type # "invite"
  BY <1>1 DEF Invited
<1>6. \A q \in DOMAIN wire : InOrder(s, Told(q))
  BY <1>1 DEF ServerFits, SignalsFit
<1> HIDE DEF last
<1>7. /\ Behind(n) = {client.pending[p] : p \in (n + 1)..last} \cup {Told(p) : p \in DOMAIN wire}
      /\ Behind(n - 1) = {client.pending[p] : p \in n..last} \cup {Told(p) : p \in DOMAIN wire}
  BY <1>2 DEF Behind, last
<1>8. Invite(s.call) \notin Behind(n)
  <2>1. ASSUME NEW q \in DOMAIN wire PROVE Told(q) # Invite(s.call)
    BY <1>6, InviteFacts DEF InOrder, InviteFields
  <2>2. ASSUME NEW p \in (n + 1)..last PROVE client.pending[p] # Invite(s.call)
    BY <1>4, <1>5, InviteFacts DEF InviteFields
  <2> QED
    BY <1>7, <2>1, <2>2
<1> HIDE DEF s
<1>9. \A p : p \in n..last => client.pending[p] = s \/ p \in (n + 1)..last
  BY <1>3 DEF s
<1>10. \E p \in n..last : s = client.pending[p]
  BY <1>3 DEF s
<1>11. s \in Behind(n - 1) /\ Behind(n) \subseteq Behind(n - 1)
       /\ Behind(n - 1) \subseteq Behind(n) \cup {s}
  BY <1>3, <1>7, <1>9, <1>10
<1> QED
  BY <1>8, <1>11 DEF s

\* After one signal of the call the others are of that call too.
LEMMA EndKnownHandled ==
    ASSUME Known, client.created # None, NEW n \in 1..Len(client.pending),
           NEW d \in Clients, EndKnown(d, n - 1)
    PROVE  EndKnown(Handled(d, client.pending[n]), n)
<1> DEFINE s == client.pending[n]
           f == Handled(d, s)
           id == client.created
<1> SUFFICES EndKnown(f, n)
  OBVIOUS
<1>1. /\ Typed /\ ServerFits /\ client \in Clients /\ CreatedFits(client, wire) /\ ~Invited(client)
      /\ client.pending \in Seq(Signals) /\ Len(client.pending) \in Nat
      /\ DOMAIN client.pending = 1..Len(client.pending) /\ id \in Nat
  BY KnownParts, ClientFields DEF Known, Undisturbed
<1>2. n \in DOMAIN client.pending /\ n \in Nat
  BY <1>1
<1>3. s \in Signals /\ SignalHolds(calls[s.call], s) /\ s.type # "invite" /\ s.call <= id
  BY <1>1, <1>2, PendingFacts DEF ServerFits, SignalsFit, Invited, CreatedFits
<1>4. s.call \in Nat /\ s.type \in Reasons \cup {"accept"}
  BY <1>3, SignalIs
<1>5. d.status = "idle" => s.call = id
  <2> SUFFICES ASSUME d.status = "idle" PROVE s.call = id
    OBVIOUS
  <2>1. PICK m \in 1..(n - 1) : client.pending[m].call = id
    BY DEF EndKnown
  <2>2. m \in DOMAIN client.pending /\ m < n
    BY <1>1, <1>2
  <2>3. InOrder(client.pending[m], s)
    BY <1>1, <1>2, <2>2 DEF ServerFits, SignalsFit
  <2> QED
    BY <1>1, <1>3, <1>4, <2>1, <2>3 DEF InOrder
<1>6. \A m \in 1..(n - 1) : m \in 1..n
  BY <1>2
<1>7. client.pending[n].call = s.call /\ n \in 1..n
  BY <1>2
<1> HIDE DEF s
<1>8. /\ f \in Clients
      /\ \/ Ignored(d, f, s) \/ Rings(d, f, s) \/ IsAccepted(d, f, s) \/ IsEnded(d, f, s)
         \/ s.type = "accept" /\ d.status # "outgoing" /\ f = d
  BY <1>3, HandledFields
<1> HIDE DEF f
<1>9. CASE Ignored(d, f, s)
  BY <1>6, <1>9 DEF Ignored, EndKnown
<1>10. CASE IsAccepted(d, f, s)
  <2>1. f.status = "active" /\ f.call = d.call /\ d.status = "outgoing"
    BY <1>10, JoinRoomFields DEF IsAccepted
  <2> QED
    BY <2>1 DEF EndKnown
<1>11. CASE IsEnded(d, f, s)
  <2>1. s.type \in Reasons /\ (s.call = d.call \/ d.status = "idle") /\ f.status = "idle"
        /\ f.reason = s.type
    BY <1>11, EndSessionFields DEF IsEnded
  <2>2. s.call = id
    <3>1. d.status \in {"idle", "outgoing", "active"}
      BY ClientFields DEF Statuses, EndKnown
    <3> QED
      BY <1>5, <2>1, <3>1 DEF EndKnown
  <2>3. calls[id].state = "ended" /\ calls[id].by = "peer" /\ calls[id].reason = s.type
    BY <1>3, <2>1, <2>2, ReasonFacts DEF SignalHolds
  <2> QED
    BY <1>7, <2>1, <2>2, <2>3 DEF EndKnown
<1>12. CASE s.type = "accept" /\ d.status # "outgoing" /\ f = d
  BY <1>6, <1>12 DEF EndKnown
<1>13. ~Rings(d, f, s)
  BY <1>3 DEF Rings
<1> QED
  BY <1>8, <1>9, <1>10, <1>11, <1>12, <1>13

\* What is agreed while the pending signals are handled.
LEMMA AgreesBegun ==
    ASSUME Known, client.created # None
    PROVE  LET b == Begun(client, client.created) IN
           Agrees(b, calls, acts, Behind(0)) /\ EndKnown(b, 0)
<1> DEFINE b == Begun(client, client.created)
<1>1. /\ client \in Clients /\ client.created \in Nat /\ client.pending \in Seq(Signals)
      /\ Agrees(client, calls, acts, Ahead) /\ Resting(client) /\ Named(client) /\ Shape(client)
  BY KnownParts, ClientFields
<1>2. /\ client.status = "outgoing" /\ client.call = None /\ client.room = None
      /\ Shown(client) = client.created
  <2>1. client.status = "outgoing" /\ client.call = None
    BY <1>1 DEF Resting, Named
  <2>2. client.room = None
    BY <1>1, <2>1, ShapeOutside
  <2> QED
    BY <2>1, <2>2 DEF Shown
<1>3. /\ b \in Clients /\ b.call = client.created /\ b.status = client.status
      /\ b.created = client.created /\ SameRoom(client, b)
  BY <1>1, BegunFields
<1> HIDE DEF b
<1>4. Behind(0) = Ahead
  BY <1>1 DEF Behind, Ahead
<1>5. Shown(b) = Shown(client)
  BY <1>2, <1>3 DEF Shown
<1>6. Keeps(acts, acts, Shown(client))
  BY KeepsMore
<1>7. b.room = None
  BY <1>2, <1>3 DEF SameRoom
<1>8. Agrees(b, calls, acts, Ahead)
  BY <1>1, <1>2, <1>3, <1>5, <1>6, <1>7, AgreesAlike
<1>9. EndKnown(b, 0)
  BY <1>2, <1>3 DEF EndKnown
<1> QED
  BY <1>4, <1>8, <1>9 DEF b

LEMMA AgreesNext ==
    ASSUME Known, client.created # None, NEW n \in 1..Len(client.pending),
           NEW b, NEW d, Replaying(b, d), Agrees(d, calls, acts, Behind(n - 1))
    PROVE  Agrees(Handled(d, client.pending[n]), calls, acts, Behind(n))
<1> DEFINE s == client.pending[n]
           X == Behind(n - 1)
           Y == Behind(n)
<1>1. /\ Typed /\ ServerFits /\ Kept /\ client \in Clients /\ None \notin DOMAIN calls
      /\ client.pending \in Seq(Signals) /\ ~Invited(client)
  BY KnownParts, ClientFields DEF Known, Undisturbed
<1>2. n \in DOMAIN client.pending
  BY <1>1
<1>3. s \in Signals /\ s.call \in DOMAIN calls /\ s.call # None /\ SignalHolds(calls[s.call], s)
      /\ s.type # "invite"
  BY <1>1, <1>2, PendingFacts DEF ServerFits, SignalsFit, Invited
<1>4. s \in X /\ Y \subseteq X /\ X \subseteq Y \cup {s} /\ Invite(s.call) \notin Y
  BY BehindLess
<1>5. /\ d \in Clients /\ Fits(d, calls, acts, wire) /\ acts \subseteq Requested
      /\ ~(d.status = "outgoing" /\ d.call = None)
  BY <1>1 DEF Replaying, Kept
<1>6. Handled(d, s).crossed = "no"
  BY <1>1, <1>2, HandledReplays DEF Replaying
<1>7. Agrees(d, calls, acts, X) 
  OBVIOUS
<1> HIDE DEF s, X, Y
<1>8. Agrees(Handled(d, s), calls, acts, Y)
  BY <1>1, <1>3, <1>4, <1>5, <1>6, <1>7, AgreesHandled
<1> QED
  BY <1>8 DEF s, Y

LEMMA AgreesReplayed ==
    ASSUME Known, client.created # None
    PROVE  LET e == Replayed(Begun(client, client.created), client.pending) IN
           /\ e \in Clients /\ Replaying(Begun(client, client.created), e)
           /\ Agrees(e, calls, acts, {Told(p) : p \in DOMAIN wire})
           /\ EndKnown(e, Len(client.pending))
<1> DEFINE b == Begun(client, client.created)
           last == Len(client.pending)
           In(d, n) == Replaying(b, d) /\ Agrees(d, calls, acts, Behind(n)) /\ EndKnown(d, n)
           Good == [n \in Nat |-> {d \in Clients : In(d, n)}]
<1>1. /\ Typed /\ ServerFits /\ Together /\ ~Invited(client) /\ client.crossed = "no"
      /\ client.pending \in Seq(Signals) /\ last \in Nat /\ DOMAIN client.pending = 1..last
  BY KnownParts, ClientFields DEF Known, Undisturbed
<1>2. b \in Clients /\ In(b, 0)
  BY <1>1, BegunReplays, AgreesBegun DEF Replaying
<1> HIDE DEF b
<1>3. ASSUME NEW n \in 1..last, NEW d \in Clients, In(d, n - 1)
      PROVE  /\ HandleSignal(d, client.pending[n]) \in Clients
             /\ In(HandleSignal(d, client.pending[n]), n)
  <2> DEFINE f == Handled(d, client.pending[n])
  <2>1. HandleSignal(d, client.pending[n]) = f /\ Replaying(b, f)
    BY <1>1, <1>3, HandledReplays
  <2>2. Agrees(f, calls, acts, Behind(n))
    BY <1>3, AgreesNext
  <2>3. EndKnown(f, n)
    BY <1>3, EndKnownHandled
  <2> HIDE DEF f
  <2> QED
    BY <2>1, <2>2, <2>3 DEF Replaying
<1> HIDE DEF In
<1>4. b \in Good[0]
  BY <1>2
<1>5. \A n \in 1..last : \A d \in Good[n - 1] : HandleSignal(d, client.pending[n]) \in Good[n]
  <2> SUFFICES ASSUME NEW n \in 1..last, NEW d \in Good[n - 1]
               PROVE  HandleSignal(d, client.pending[n]) \in Good[n]
    OBVIOUS
  <2>1. n \in Nat /\ n - 1 \in Nat
    BY <1>1
  <2>2. d \in Clients /\ In(d, n - 1)
    BY <2>1
  <2> QED
    BY <1>3, <2>1, <2>2
<1> HIDE DEF Good
<1>6. Replayed(b, client.pending) \in Good[last]
  BY <1>1, <1>4, <1>5, ReplayKeeps
<1>7. /\ Replayed(b, client.pending) \in Clients
      /\ In(Replayed(b, client.pending), last)
  BY <1>1, <1>6 DEF Good
<1>8. Behind(last) = {Told(p) : p \in DOMAIN wire}
  <2>1. (last + 1)..last = {}
    BY <1>1
  <2> QED
    BY <2>1 DEF Behind
<1> QED
  BY <1>7, <1>8 DEF In, b

\* The caller is told why the call he was creating has ended.
LEMMA TellingCreated ==
    ASSUME Moves, StartAnswered, client.starting = "created"
    PROVE  Telling'
<1> DEFINE e == Replayed(Begun(client, client.created), client.pending)
           d == StartCreated(client, client.created)
           id == client.created
           k == calls[id]
           Y == {Told(p) : p \in DOMAIN wire}
<1>1. /\ Known /\ client \in Clients /\ Named(client) /\ StatusFits(client, calls)
      /\ Resting(client) /\ ServerFits /\ calls \in Seq(Calls) /\ client.created \in Nat
  BY KnownParts, ClientFields DEF Moves
<1>2. id # None /\ Become(d) /\ UNCHANGED <<acts, calls, wire>>
  BY <1>1 DEF StartAnswered, Same, Named
<1>3. id \in DOMAIN calls /\ k \in Calls /\ k.mine /\ EndedWell(k)
  <2>1. id \in DOMAIN calls
    BY <1>1, <1>2 DEF Named
  <2>2. k \in Calls
    BY <1>1, <2>1
  <2>3. k.mine
    BY <1>1, <1>2 DEF StatusFits
  <2>4. EndedWell(k)
    BY <1>1, <2>1 DEF ServerFits, CallsFit
  <2> QED
    BY <2>1, <2>2, <2>3, <2>4
<1>4. /\ e \in Clients /\ Replaying(Begun(client, id), e) /\ Agrees(e, calls, acts, Y)
      /\ EndKnown(e, Len(client.pending))
  BY <1>1, <1>2, AgreesReplayed
<1>5. /\ e.pending = <<>> /\ SameExperience(client, e) /\ e.room = None
      /\ e.status = "outgoing" => e.call # None
  <2>1. Begun(client, id).pending = <<>> /\ SameExperience(client, Begun(client, id))
    BY <1>1, BegunFields
  <2>2. SameExperience(Begun(client, id), e)
    BY <1>1, <1>2, NamedReplayed
  <2>3. SameStart(Begun(client, id), e)
    BY <1>4 DEF Replaying
  <2>4. e.pending = <<>>
    BY <2>1, <2>3 DEF SameStart
  <2>5. SameExperience(client, e)
    BY <2>1, <2>2 DEF SameExperience
  <2> QED
    BY <1>4, <2>4, <2>5 DEF Replaying
<1>6. /\ d \in Clients /\ d.created = None /\ d.shown = id /\ d.pending = e.pending
      /\ d.seen = e.seen /\ d.toast = e.toast
      /\ d.status = e.status /\ d.call = e.call /\ d.reason = e.reason
      /\ SameRoom(e, d)
  BY <1>1, <1>4, StartCreatedFields
<1> HIDE DEF e, d, Y
<1>7. /\ Alike(d, client')
      /\ client'.shown = IF d.call # None THEN d.call ELSE d.shown
      /\ client'.toast = IF d.status = d.seen THEN d.toast
                         ELSE IF d.status # "idle" \/ d.reason = NoReason THEN NoReason
                         ELSE CallTerminalMessage(d.reason, CallTerminalSide(d.seen))
  BY <1>2, <1>6, BecomeFields
<1>8. Ahead' = Y
  <2>1. {Told(p)' : p \in DOMAIN wire'} = {Told(p) : p \in DOMAIN wire}
    BY <1>2 DEF Told
  <2>2. client'.pending = <<>>
    BY <1>5, <1>6, <1>7 DEF Alike, SameStart
  <2> QED
    BY <2>1, <2>2 DEF Ahead, Y
<1>9. Agrees(d, calls, acts, Y)
  <2>1. Shown(d) = Shown(e)
    BY <1>5, <1>6 DEF Shown
  <2>2. Keeps(acts, acts, Shown(e))
    BY KeepsMore
  <2>3. d.room = None
    BY <1>5, <1>6 DEF SameRoom
  <2> QED
    BY <1>4, <1>6, <2>1, <2>2, <2>3, AgreesAlike
<1>10. Agrees(client', calls, acts, Y)
  BY <1>2, <1>6, <1>9, AgreesBecome
<1>11. Agrees(client', calls', acts', Ahead')
  BY <1>2, <1>8, <1>10
<1>12. CreatedFits(client', wire')
  BY <1>6, <1>7 DEF CreatedFits, Alike, SameStart
<1>13. ToastFits(client', calls')
  <2> SUFFICES ASSUME client'.status = "idle", client'.shown # None
               PROVE  LET m == calls'[client'.shown] IN
                      /\ m.state # "ringing"
                      /\ m.state = "ended" /\ m.rang =>
                            client'.toast = IF m.by = "me" THEN NoReason ELSE m.reason
    BY DEF ToastFits
  <2>1. e.status = "idle"
    BY <1>6, <1>7 DEF Alike
  <2>2. /\ k.state = "ended" /\ k.by = "peer" /\ k.reason = e.reason /\ e.reason \in Reasons
    BY <1>4, <2>1 DEF EndKnown
  <2>3. client.seen = "outgoing"
    BY <1>1, <1>2 DEF Resting, Named
  <2>4. d.seen = "outgoing"
    BY <1>5, <1>6, <2>3 DEF SameExperience
  <2>5. client'.toast = CallTerminalMessage(k.reason, CallTerminalSide("outgoing"))
    BY <1>6, <1>7, <2>1, <2>2, <2>4, ReasonFacts
  <2>6. k.rang => client'.toast = k.reason
    <3> HIDE DEF k
    <3> QED
      BY <1>3, <2>2, <2>5, MessageTells
  <2>7. client'.shown = id
    <3>1. StatusFits(client', calls')
      BY DEF Moves, Together, Fits
    <3>2. d.call = None
      BY <1>7, <3>1 DEF StatusFits, Alike
    <3> QED
      BY <1>6, <1>7, <3>2
  <2> QED
    BY <1>2, <2>2, <2>6, <2>7
<1> QED
  BY <1>11, <1>12, <1>13 DEF Telling

LEMMA TellingStartAnswered ==
    ASSUME Moves, StartAnswered
    PROVE  Telling'
BY TellingRefused, TellingCreated

-----------------------------------------------------------------------------
(* A disturbance is remembered *)

LEMMA LostStays ==
    ASSUME [Next]_vars, lost
    PROVE  lost'
<1>1. CASE Requests
  BY <1>1 DEF Requests, StartAnswered, ServerStarts, ServerActs, ActAnswered, Same
<1>2. CASE Joining
  BY <1>2 DEF Joining, TokenAnswered, ConnectAnswered, TokenFails, ConnectFails,
              MicrophoneApplied, Same
<1>3. CASE Watching \/ DeliverSignal
  BY <1>3 DEF Watching, ServerSeesRoom, DeliverSignal
<1>4. CASE User
  BY <1>4 DEF User, StartCall, TogglePreference, Act, Same
<1>5. CASE Peer
  BY <1>5 DEF Peer, PeerInvites, PeerAccepts, PeerVanishes, PeerEnds
<1>6. CASE Faults
  BY <1>6 DEF Faults, StartLost, SignalLost, ActLost, RoomFails, Same
<1>7. CASE \E on \in BOOLEAN : Reconnecting(on)
  BY <1>7 DEF Reconnecting, Same
<1> QED
  BY <1>1, <1>2, <1>3, <1>4, <1>5, <1>6, <1>7 DEF Next, vars

\* startCall's answer forgets or handles the pending signals.
LEMMA StartAnsweredEnds ==
    ASSUME Typed, StartAnswered
    PROVE  client'.starting = "no" /\ (Invited(client) => client'.crossed # "no")
<1>1. client \in Clients /\ Named(client) /\ calls \in Seq(Calls)
  BY TypedParts
<1>2. CASE client.starting = "created"
  <2>1. client.created # None /\ client.created \in Nat
    BY <1>1, <1>2 DEF Named, Clients
  <2>2. PICK e \in Clients : e = Replayed(Begun(client, client.created), client.pending)
    BY <1>1, <2>1, NamedReplayed
  <2> DEFINE d == StartCreated(client, client.created)
  <2>3. d \in Clients /\ d.starting = "no" /\ d.crossed = Beside(e.crossed, Invited(client))
    BY <1>1, <2>1, <2>2, StartCreatedFields
  <2>4. Become(d)
    BY <1>2 DEF StartAnswered
  <2> HIDE DEF d
  <2> QED
    BY <2>3, <2>4, BecomeFields DEF Alike, SameStart, Beside
<1>3. CASE client.starting \in {"refused", "failed"}
  <2>1. PICK r \in Reasons \cup {NoReason} : Become(StartRefused(client, r))
    BY <1>3 DEF StartAnswered, Reasons
  <2> DEFINE d == StartRefused(client, r)
  <2>2. d \in Clients /\ d.starting = "no" /\ d.crossed = Beside(client.crossed, Invited(client))
    BY <1>1, StartRefusedFields
  <2> HIDE DEF d
  <2> QED
    BY <2>1, <2>2, BecomeFields DEF Alike, SameStart, d, Beside
<1> QED
  BY <1>2, <1>3 DEF StartAnswered

\* A signal waits, or is handled and leaves the pending ones alone.
LEMMA DeliverSignalStart ==
    ASSUME Typed, DeliverSignal
    PROVE  /\ client'.starting = client.starting
           /\ \/ client'.pending = client.pending
              \/ client'.pending = Append(client.pending, Told(1))
<1> DEFINE s == Told(1)
           d == HandleSignal(client, s)
<1>1. client \in Clients /\ wire \in Seq(Sent) /\ wire # <<>> /\ Become(d)
  BY TypedParts DEF Kept, DeliverSignal, Told
<1>2. 1 \in DOMAIN wire
  BY <1>1
<1>3. s \in Signals
  BY <1>2, ToldFacts
<1> HIDE DEF s
<1>4. CASE Waits(client)
  <2>1. d \in Clients /\ d.pending = Append(client.pending, s) /\ d.starting = client.starting
    BY <1>1, <1>3, <1>4, WaitingFields
  <2> HIDE DEF d
  <2> QED
    BY <1>1, <2>1, BecomeFields DEF Alike, SameStart, s
<1>5. CASE ~Waits(client)
  <2>1. d = Handled(client, s)
    BY <1>5 DEF HandleSignal, Waits
  <2>2. d \in Clients /\ SameStart(client, d)
    BY <1>1, <1>3, <2>1, HandledFields
  <2> HIDE DEF d
  <2> QED
    BY <1>1, <2>2, BecomeFields DEF Alike, SameStart
<1> QED
  BY <1>4, <1>5

\* What a step does to the answer that startCall awaits, and to the signals
\* that wait for it.
LEMMA StartSteps ==
    ASSUME Typed, [Next]_vars
    PROVE  /\ client'.starting \in {client.starting, "no", "posted", "refused", "created"} \/ lost'
           /\ \/ client'.pending = client.pending
              \/ client'.pending = Append(client.pending, Told(1))
              \/ StartAnswered
<1>1. client \in Clients
  BY TypedParts
<1>2. CASE StartAnswered
  BY <1>2, StartAnsweredEnds
<1>3. CASE ServerStarts \/ StartLost
  BY <1>1, <1>3 DEF ServerStarts, StartLost, Clients
<1>4. CASE SameStart(client, client')
  BY <1>4 DEF SameStart
<1>5. CASE DeliverSignal
  BY <1>5, DeliverSignalStart
<1>6. CASE User
  BY <1>6, UserStart
<1>7. CASE Requests
  BY <1>2, <1>3, <1>4, <1>7, ActAnsweredStart DEF Requests, ServerActs, SameStart
<1>8. CASE Watching
  <2>1. PICK i \in DOMAIN calls : ServerSeesRoom(i)
    BY <1>8 DEF Watching
  <2>2. client' = client \/ \E r \in client.rooms : Disconnects(r)
    BY <2>1, SeesCall
  <2> QED
    BY <1>1, <1>4, <2>2, DisconnectsStart DEF SameStart
<1>9. CASE Peer \/ SignalLost \/ (\E a \in acts : ActLost(a)) \/ UNCHANGED vars
  <2>1. client' = client
    BY <1>9 DEF Peer, PeerInvites, PeerAccepts, PeerVanishes, PeerEnds, SignalLost, ActLost, vars
  <2> QED
    BY <1>4, <2>1 DEF SameStart
<1>10. CASE \E r \in client.rooms : RoomFails(r)
  BY <1>1, <1>4, <1>10, DisconnectsStart DEF RoomFails
<1>11. CASE \E on \in BOOLEAN : Reconnecting(on)
  BY <1>1, <1>11 DEF Reconnecting, Clients
<1> QED
  BY <1>3, <1>4, <1>5, <1>6, <1>7, <1>8, <1>9, <1>10, <1>11, JoiningStart DEF Next, Faults

LEMMA InvitedStays ==
    ASSUME Typed, [Next]_vars, Invited(client)
    PROVE  Invited(client') \/ client'.crossed # "no"
<1>1. client.pending \in Seq(Signals)
  BY TypedParts, ClientFields
<1>2. PICK p \in DOMAIN client.pending : client.pending[p].type = "invite"
  BY DEF Invited
<1>3. CASE client'.pending = Append(client.pending, Told(1))
  <2>1. p \in DOMAIN client'.pending /\ client'.pending[p] = client.pending[p]
    BY <1>1, <1>3
  <2> QED
    BY <1>2, <2>1 DEF Invited
<1> QED
  BY <1>2, <1>3, StartSteps, StartAnsweredEnds DEF Invited

LEMMA DisturbedStays ==
    ASSUME Typed, [Next]_vars, Undisturbed'
    PROVE  Undisturbed
BY LostStays, Uncrossed, InvitedStays DEF Undisturbed

\* Only a request that is lost fails.
LEMMA JoinFailsActs ==
    ASSUME NEW c, NEW j, JoinFails(c, j), NEW a \in acts', a.stage = "failed"
    PROVE  a \in acts
BY DEF JoinFails

LEMMA FailedActs ==
    ASSUME Typed, [Next]_vars, NEW a \in acts', a.stage = "failed"
    PROVE  a \in acts \/ lost'
<1>1. \A b \in acts : b \in Requested
  BY TypedParts DEF Kept
<1>2. ASSUME NEW b \in acts, NEW stage, acts' = (acts \ {b}) \cup {[b EXCEPT !.stage = stage]},
             stage # "failed"
      PROVE  a \in acts
  <2>1. [b EXCEPT !.stage = stage].stage = stage
    BY <1>1, ActStaged
  <2> QED
    BY <1>2, <2>1
<1>3. ASSUME NEW b \in acts, ServerActs(b)
      PROVE  a \in acts
  BY <1>2, <1>3, ActsCall
<1>4. ASSUME NEW b \in acts, ActAnswered(b)
      PROVE  a \in acts
  <2>1. [b EXCEPT !.kind = "rejectBlocked", !.stage = "sent"].stage = "sent"
    BY <1>1 DEF Requested
  <2> QED
    BY <1>4, <2>1 DEF ActAnswered
<1>5. ASSUME NEW kind \in Kinds, Act(kind)
      PROVE  a \in acts
  BY <1>5 DEF Act
<1>6. CASE acts' = acts
  BY <1>6
<1>7. CASE Requests
  BY <1>3, <1>4, <1>6, <1>7 DEF Requests, StartAnswered, ServerStarts
<1>8. CASE Joining
  <2>1. acts' = acts \/ \E c, j : JoinFails(c, j)
    BY <1>8 DEF Joining, TokenAnswered, ConnectAnswered, TokenFails, ConnectFails,
                MicrophoneApplied
  <2> QED
    BY <2>1, JoinFailsActs
<1>9. CASE User
  BY <1>5, <1>6, <1>9 DEF User, StartCall, TogglePreference
<1>10. CASE Watching \/ DeliverSignal \/ Peer
  BY <1>6, <1>10 DEF Watching, ServerSeesRoom, DeliverSignal, Peer, PeerInvites, PeerAccepts,
                     PeerVanishes, PeerEnds
<1>11. CASE Faults
  BY <1>6, <1>11 DEF Faults, StartLost, SignalLost, ActLost, RoomFails
<1>12. CASE \E on \in BOOLEAN : Reconnecting(on)
  BY <1>6, <1>12 DEF Reconnecting
<1> QED
  BY <1>6, <1>7, <1>8, <1>9, <1>10, <1>11, <1>12 DEF Next, vars

LEMMA FailuresLostStep ==
    ASSUME Typed, FailuresLost, [Next]_vars
    PROVE  FailuresLost'
BY FailedActs, StartSteps, LostStays DEF FailuresLost

-----------------------------------------------------------------------------
(* What is shown and told, of every step *)

LEMMA TellingStep ==
    ASSUME Moves, [Next]_vars
    PROVE  Telling'
<1>1. Typed /\ ~lost'
  BY KnownParts DEF Moves, Undisturbed
<1>2. CASE Requests
  BY <1>2, TellingStartAnswered, TellingServerStarts, TellingServerActs, TellingActAnswered
     DEF Requests
<1>3. CASE Joining
  BY <1>3, TellingTokenAnswered, TellingConnectAnswered, TellingFails, TellingMicrophoneApplied
     DEF Joining
<1>4. CASE Watching
  <2>1. PICK i \in DOMAIN calls : ServerSeesRoom(i)
    BY <1>4 DEF Watching
  <2>2. CASE client' = client
    BY <2>1, <2>2, TellingSees
  <2>3. CASE calls' = calls /\ \E r \in client.rooms : r.up /\ Disconnects(r)
    <3>1. UNCHANGED <<acts, calls, wire>>
      BY <2>1, <2>3 DEF ServerSeesRoom
    <3> QED
      BY <2>3, <3>1, TellingDisconnects
  <2> QED
    BY <1>1, <2>1, <2>2, <2>3, SeesCall
<1>5. CASE User
  BY <1>5, TellingStartCall, TellingTogglePreference, TellingAct DEF User
<1>6. CASE Peer
  BY <1>6, TellingPeerInvites, TellingPeerAccepts, TellingPeerEnds, TellingVanishes DEF Peer
<1>7. CASE Faults
  <2>1. PICK r \in client.rooms : RoomFails(r)
    BY <1>1, <1>7 DEF Faults, StartLost, SignalLost, ActLost
  <2>2. r.up /\ Disconnects(r) /\ UNCHANGED <<acts, calls, wire>>
    BY <2>1 DEF RoomFails, Same
  <2> QED
    BY <2>2, TellingDisconnects
<1>8. CASE \E on \in BOOLEAN : Reconnecting(on)
  BY <1>8, TellingReconnecting
<1>9. CASE UNCHANGED vars
  <2>1. SameShown(client, client') /\ UNCHANGED <<calls, wire>>
    BY <1>9 DEF vars, SameShown, SameStart, SameExperience
  <2>2. Keeps(acts, acts', Shown(client))
    BY <1>9, KeepsMore DEF vars
  <2> QED
    BY <2>1, <2>2, TellingSame
<1> QED
  BY <1>2, <1>3, <1>4, <1>5, <1>6, <1>7, <1>8, <1>9, TellingDeliverSignal DEF Next

LEMMA TellingInvariantStep ==
    ASSUME Typed, ServerFits, RoomInvariant, TellingInvariant, [Next]_vars
    PROVE  TellingInvariant'
<1>1. FailuresLost'
  BY FailuresLostStep DEF TellingInvariant
<1>2. ASSUME Undisturbed'
      PROVE  Telling'
  <2>1. Undisturbed
    BY <1>2, DisturbedStays
  <2>2. Known
    BY <2>1 DEF Known, TellingInvariant, RoomInvariant, Undisturbed
  <2>3. Typed' /\ CallsAdvance /\ ServerFits' /\ RoomInvariant'
    BY TypedStep, ServerStep, RoomStep
  <2>4. Together'
    BY <1>2, <2>3 DEF RoomInvariant, Undisturbed
  <2> QED
    BY <1>2, <2>2, <2>3, <2>4, TellingStep DEF Moves
<1> QED
  BY <1>1, <1>2 DEF TellingInvariant

LEMMA TellingInit ==
    ASSUME Init
    PROVE  TellingInvariant
<1>1. /\ client.status = "idle" /\ client.call = None /\ client.starting = "no"
      /\ client.created = None /\ client.pending = <<>> /\ client.room = None
      /\ client.shown = None /\ acts = {} /\ calls = <<>> /\ wire = <<>>
  BY DEF Init
<1>2. Agrees(client, calls, acts, Ahead)
  BY <1>1 DEF Agrees, ShownFits, OthersFit, InvitedFit
<1>3. CreatedFits(client, wire) /\ ToastFits(client, calls)
  BY <1>1 DEF CreatedFits, ToastFits
<1>4. FailuresLost
  BY <1>1 DEF FailuresLost
<1> QED
  BY <1>2, <1>3, <1>4 DEF TellingInvariant, Telling

LEMMA TellingAlways ==
    Spec => [](Typed /\ ServerFits /\ RoomInvariant /\ StrandedInvariant /\ TellingInvariant)
<1> DEFINE All == Typed /\ ServerFits /\ RoomInvariant /\ TellingInvariant
<1>1. Init => All
  BY TypedInit, ServerInit, RoomInit, TellingInit
<1>2. All /\ [Next]_vars => All'
  BY TypedStep, ServerStep, RoomStep, TellingInvariantStep
<1> QED
  BY <1>1, <1>2, RoomAlways, PTL DEF Spec

\* With nothing under way, what is left is the server's word.
LEMMA QuietParts ==
    ASSUME Quiet, ~lost, client.crossed = "no", Typed, ServerFits, RoomInvariant, TellingInvariant
    PROVE  /\ Known /\ Ahead = {} /\ ~Waits(client) /\ \A kind, i : ~Answered(acts, kind, i)
           /\ client.joins = {}
<1>1. acts = {} /\ wire = <<>> /\ client.starting = "no" /\ client.joins = {}
  BY DEF Quiet
<1>2. Together
  BY DEF RoomInvariant
<1>3. client.pending = <<>>
  BY <1>1, <1>2 DEF Together, Resting
<1>4. Undisturbed
  BY <1>3 DEF Undisturbed, Invited
<1> QED
  BY <1>1, <1>2, <1>3, <1>4 DEF Known, TellingInvariant, Ahead, Waits, Answered

\* So it agrees with what the server knows of each live call.
LEMMA OverlayHolds ==
    ASSUME Typed, ServerFits, RoomInvariant, StrandedInvariant, TellingInvariant
    PROVE  OverlayAgrees
<1> SUFFICES ASSUME Quiet, ~lost, client.crossed = "no"
             PROVE  IF Live = {} THEN client.status = "idle" /\ client.call = None
                    ELSE \A i \in Live :
                            /\ client.call = i
                            /\ client.status = IF calls[i].state = "active" THEN "active"
                                               ELSE IF calls[i].mine THEN "outgoing" ELSE "ringing"
  BY CrossingCases DEF OverlayAgrees, StrandedInvariant, Stranded
<1>1. /\ Known /\ Ahead = {} /\ ~Waits(client) /\ \A kind, i : ~Answered(acts, kind, i)
      /\ client.joins = {}
  BY QuietParts
<1>2. /\ client \in Clients /\ calls \in Seq(Calls) /\ StatusFits(client, calls)
      /\ ShownFits(client, calls, acts, Ahead) /\ OthersFit(client, calls, Ahead)
      /\ RoomFits(client) /\ JoinsFit(client)
  BY <1>1, KnownParts DEF Shape
<1>3. client.created = None /\ Shown(client) = client.call
  BY <1>1, ShownFacts
<1>4. \A i : ~Ends(i, Ahead) /\ Accept(i) \notin Ahead /\ Invite(i) \notin Ahead
  BY <1>1 DEF Ends
<1>5. client.status \in Statuses /\ (client.call # None => client.call \in DOMAIN calls)
  BY <1>1, <1>2, ClientFields, ShownFacts
<1>6. client.status # "idle" => client.call # None
  BY <1>1, <1>2, <1>5 DEF StatusFits, Statuses, Known, Together, Resting, Waits
<1>7. client.room # None /\ Up(client) =>
            \E r \in client.rooms : r.up /\ r.call = client.call
  BY DEF Up
<1>8. client.status = "active" => client.room # None /\ Up(client)
  BY <1>1, <1>2 DEF JoinsFit
<1>9. \A i \in DOMAIN calls : calls[i] \in Calls
  BY <1>2
<1> DEFINE i == client.call
           k == calls[i]
<1>10. CASE client.status = "idle"
  <2>1. client.call = None /\ client.room = None
    BY <1>2, <1>10 DEF StatusFits, RoomFits
  <2>2. client.rooms = {}
    BY <1>2, <2>1 DEF RoomFits
  <2>3. \A x \in DOMAIN calls : calls[x].in = "no"
    BY <2>2 DEF Quiet
  <2>4. Live = {}
    BY <1>2, <1>3, <1>4, <2>1, <2>3 DEF OthersFit, Live
  <2> QED
    BY <1>10, <2>1, <2>4
<1>11. CASE client.status # "idle"
  <2>1. i \in DOMAIN calls /\ k \in Calls
    BY <1>5, <1>6, <1>9, <1>11
  <2>2. /\ client.status = "outgoing" => OutgoingFits(i, k, acts, Ahead) /\ k.mine
        /\ client.status = "ringing" => RingingFits(i, k, acts, Ahead) /\ ~k.mine
        /\ client.status = "active" => ActiveFits(i, k, acts, Ahead) /\ Accepted(k)
    BY <1>2, <1>3, <1>6, <1>11 DEF ShownFits, StatusFits
  <2>3. client.status = "active" => k.in = "seen"
    BY <1>7, <1>8, <2>1 DEF Quiet
  <2>4. /\ client.status = "outgoing" => k.state = "ringing"
        /\ client.status = "ringing" => k.state = "ringing"
        /\ client.status = "active" => k.state = "active"
    <3>1. k.state \in {"ringing", "active", "ended"}
      BY <2>1 DEF Calls
    <3> QED
      BY <1>1, <1>4, <2>2, <2>3, <3>1 DEF OutgoingFits, RingingFits, ActiveFits, Accepted
  <2>5. ASSUME NEW x \in Live PROVE x = i
    <3> SUFFICES ASSUME x # i PROVE FALSE
      OBVIOUS
    <3>1. x \in DOMAIN calls /\ calls[x].state = "active" /\ calls[x].in # "no"
      BY <1>2, <1>3, <1>4 DEF OthersFit, Live
    <3>2. PICK r \in client.rooms : r.up /\ r.call = x
      BY <3>1 DEF Quiet
    <3> QED
      BY <1>1, <3>2, UpShown
  <2>6. i \in Live
    BY <1>5, <1>11, <2>1, <2>4 DEF Live, Statuses
  <2> HIDE DEF k
  <2>7. client.status = IF k.state = "active" THEN "active"
                        ELSE IF k.mine THEN "outgoing" ELSE "ringing"
    BY <1>5, <1>11, <2>2, <2>4 DEF Statuses
  <2> QED
    BY <2>5, <2>6, <2>7 DEF k
<1> QED
  BY <1>10, <1>11

LEMMA ToldHolds ==
    ASSUME Typed, ServerFits, RoomInvariant, StrandedInvariant, TellingInvariant
    PROVE  EndsAreTold
<1> SUFFICES ASSUME Quiet, ~lost, client.crossed = "no", client.status = "idle", client.shown # None,
                    calls[client.shown].state = "ended", calls[client.shown].rang
             PROVE  client.toast = IF calls[client.shown].by = "me" THEN NoReason
                                   ELSE calls[client.shown].reason
  BY CrossingCases DEF EndsAreTold, StrandedInvariant, Stranded
<1>1. Known
  BY QuietParts
<1> QED
  BY <1>1, KnownParts DEF ToastFits

\* The overlay, the room and the microphone are those of the call the server
\* knows: at rest, when nothing was lost and no crossing was "other", whatever
\* order signals and answers came in, a live call is shown in its state, and
\* none else; but where an accept was answered after the end of its own call,
\* an active call is shown that is none, without a room, whatever comes next.
THEOREM CallsAgree == Spec => []CallAgrees
<1>1. Typed /\ ServerFits /\ RoomInvariant /\ StrandedInvariant /\ TellingInvariant => CallAgrees
  BY NoRoomLeftHolds, OverlayHolds, MicrophoneHolds DEF CallAgrees
<1> QED
  BY <1>1, TellingAlways, PTL

\* The toast says how a call that rang has ended: callers and callees are told
\* of the other's end and of the timeout, and of none of their own making.
THEOREM EndsTold == Spec => []EndsAreTold
<1>1. Typed /\ ServerFits /\ RoomInvariant /\ StrandedInvariant /\ TellingInvariant => EndsAreTold
  BY ToldHolds
<1> QED
  BY <1>1, TellingAlways, PTL
=============================================================================
