-------------------------- MODULE VoiceSession_proofs --------------------------
(***************************************************************************)
(* Proofs about VoiceSession, for any set of channels and any number of     *)
(* joins, leaves and failures.                                              *)
(***************************************************************************)
EXTENDS VoiceSession, TLAPS

-----------------------------------------------------------------------------
(* The invariant *)

\* A join has its session once it has begun, which a join that waits for its
\* leave has not.
Begun(j) == j.at # "leaving"
Now(j) == Begun(j) /\ j.session = store.session

\* Joins are told apart by their numbers and, once begun, by their sessions.
Numbered ==
    /\ \A j \in joins : j.id <= used.joins
    /\ \A i, j \in joins : i.id = j.id => i = j
    /\ \A j \in joins : Begun(j) => j.session <= store.session
    /\ \A i, j \in joins : Begun(i) /\ Begun(j) /\ i.session = j.session => i = j
    /\ \A l \in leaves, j \in joins : l.join = j.id => j.at = "leaving"
    /\ \A l, m \in leaves : l.join = m.join => l.join = 0 \/ l = m
    /\ \A l \in leaves : l.join <= used.joins

\* The join of the session waits for its token, in no room yet.
Awaiting ==
    \A j \in joins : j.at = "token" /\ Now(j) =>
        /\ store.room = Nothing /\ store.status = "connecting" /\ store.channel = j.channel
        /\ \A l \in leaves : l.at # "contexts"

\* A leave gives up the room it began with, before anything else.
Leaving ==
    store.room # Nothing => \A l \in leaves : l.at = "audio" /\ l.target = store.room

\* The join of the session holds the room it is connecting.
Connects ==
    \A j \in joins :
        /\ j.at \in {"connect", "preferences"} /\ Now(j) => store.room = j.id
        /\ j.at = "connect" /\ store.room = j.id => Now(j)
        /\ j.at = "failed" /\ Now(j) => store.room = Nothing

\* The room that is held is the one shown, and who is in it.
RoomFits ==
    /\ store.room = Nothing <=> store.rooms = {}
    /\ \A r \in store.rooms :
        /\ r.id = store.room /\ r.channel = store.channel
        /\ r.up => store.listed = store.room
        /\ ~r.up => \E j \in joins : j.at = "connect" /\ j.id = r.id

\* What may still change a status that the room does not bear out.
Unsettled ==
    \/ \E j \in joins : Now(j) /\ j.at = "failed"
    \/ \E l \in leaves : l.at = "contexts"

StatusFits ==
    /\ store.status \in {"idle", "error"} => store.room = Nothing /\ store.channel = Nothing
    /\ store.status = "connecting" =>
        Unsettled \/ \E j \in joins : Now(j) /\ j.at \in {"token", "connect", "preferences"}
    /\ store.status \in {"connected", "reconnecting"} => Unsettled \/ store.room # Nothing

\* A removal nobody has told of finds the room it is of, or that it was left.
RemovalFits ==
    Removing =>
        /\ removal.told <= 1 /\ (removal.event => removal.told = 0)
        /\ removal.state = "clean" =>
            /\ joins = {} /\ leaves = {}
            /\ ~raced => IF removal.event
                         THEN \/ removal.channel = store.channel
                              \/ store.room = Nothing /\ removal.channel = store.ended
                         ELSE removal.told = 1

Fits == Awaiting /\ Leaving /\ Connects /\ RoomFits /\ StatusFits

SessionInvariant ==
    /\ SessionTypeOK /\ Numbered /\ RemovalFits
    /\ NothingLeftOpen
    /\ ~raced => Fits

USE DEF Nothing, Begun

-----------------------------------------------------------------------------
(* The parts of a step *)

\* The audio contexts of the session are closed.
LEMMA DestroyedFields ==
    ASSUME NEW s \in Stores
    PROVE  LET d == DestroyContexts(s) IN
           /\ d \in Stores /\ d.status = s.status /\ d.channel = s.channel /\ d.room = s.room
           /\ d.session = s.session /\ d.rooms = s.rooms /\ d.ended = s.ended
           /\ d.listed = s.listed /\ d.held = Nothing /\ d.contexts = s.contexts \ {s.held}
BY DEF DestroyContexts, Stores

\* A room is given up and disconnected.
LEMMA DisconnectedFields ==
    ASSUME NEW s \in Stores, NEW n
    PROVE  LET d == Disconnected([s EXCEPT !.room = Nothing], n) IN
           /\ d \in Stores /\ d.status = s.status /\ d.channel = s.channel /\ d.room = Nothing
           /\ d.session = s.session /\ d.rooms = {r \in s.rooms : r.id # n}
           /\ d.ended = s.ended /\ d.listed = s.listed /\ d.held = s.held
           /\ d.contexts = s.contexts
BY DEF Disconnected, Stores

\* A join goes on to a place past its leave, or returns: joins stay told apart.
LEMMA GoesOn ==
    ASSUME SessionTypeOK, Numbered, NEW j \in joins, Begun(j),
           NEW moved \in JoinCalls, moved.id = j.id, moved.session = j.session, Begun(moved),
           \A i \in joins' : i = moved \/ (i \in joins /\ i # j),
           UNCHANGED leaves, used'.joins = used.joins, store'.session = store.session
    PROVE  Numbered' /\ joins' \subseteq JoinCalls
<1>1. joins' \subseteq JoinCalls
  BY DEF SessionTypeOK
<1>2. \A i \in joins : i.session \in Nat /\ i.id \in Nat
  BY DEF SessionTypeOK, JoinCalls
<1> QED
  BY <1>1, <1>2 DEF Numbered, SessionTypeOK, Stores

\* While a join or a leave is under way no removal is undisturbed.
LEMMA DisturbedRemoval ==
    ASSUME RemovalFits, joins # {} \/ leaves # {}, removal' = removal
    PROVE  RemovalFits'
BY DEF RemovalFits, Removing

\* What the user does next disturbs a removal.
LEMMA UserDisturbs ==
    ASSUME SessionInvariant,
           removal' = [removal EXCEPT !.state = IF @ = "clean" THEN "past" ELSE @]
    PROVE  removal' \in Removals /\ RemovalFits'
<1>1. CASE ~Removing
  BY <1>1 DEF SessionInvariant, SessionTypeOK, Removals, Removing, RemovalFits
<1>2. CASE Removing
  <2>1. removal \in [state : {"clean", "past"}, channel : Channels, event : BOOLEAN,
                      drop : BOOLEAN, room : Nat, told : Nat]
    BY <1>2 DEF SessionInvariant, SessionTypeOK, Removals, Removing
  <2> QED
    BY <1>2, <2>1 DEF SessionInvariant, Removals, Removing, RemovalFits
<1> QED
  BY <1>1, <1>2

\* A join whose session is over ends without a trace.
LEMMA ReturnKeeps ==
    ASSUME SessionInvariant, NEW j \in joins, Begun(j), ~raced => j.session # store.session,
           joins' = joins \ {j}, UNCHANGED <<store, leaves, removal, raced>>,
           used' \in [joins : {used.joins}, leaves : {used.leaves}, upsets : 0..MaxFaults]
    PROVE  SessionInvariant'
<1>1. used'.joins = used.joins /\ used' \in [joins : 0..MaxJoins, leaves : 0..MaxLeaves, upsets : 0..MaxFaults]
  BY DEF SessionInvariant, SessionTypeOK
<1>2. Numbered' /\ SessionTypeOK' /\ NothingLeftOpen'
  BY <1>1 DEF SessionInvariant, Numbered, SessionTypeOK, NothingLeftOpen
<1>3. RemovalFits'
  BY DisturbedRemoval DEF SessionInvariant
<1>4. ASSUME ~raced
      PROVE  Fits'
  <2>1. \A i \in joins : Now(i) \/ (i.at = "connect" /\ i.id = store.room) => i \in joins'
    BY <1>4 DEF SessionInvariant, Fits, Connects, Now
  <2>2. joins' \subseteq joins /\ Fits
    BY <1>4 DEF SessionInvariant
  <2>3. Awaiting' /\ Leaving' /\ Connects'
    BY <2>2 DEF Fits, Awaiting, Leaving, Connects, Now
  <2>4. RoomFits'
    BY <2>1, <2>2 DEF Fits, RoomFits
  <2>5. StatusFits'
    BY <2>1, <2>2 DEF Fits, StatusFits, Unsettled, Now
  <2> QED
    BY <2>3, <2>4, <2>5 DEF Fits
<1> QED
  BY <1>2, <1>3, <1>4 DEF SessionInvariant

-----------------------------------------------------------------------------
(* The steps of a join *)

LEMMA TokenAnsweredKeeps ==
    ASSUME SessionInvariant, NEW j \in joins, JoinTokenAnswered(j)
    PROVE  SessionInvariant'
<1>1. CASE j.session # store.session
  <2>1. used' \in [joins : {used.joins}, leaves : {used.leaves}, upsets : 0..MaxFaults]
    BY DEF JoinTokenAnswered, SessionInvariant, SessionTypeOK
  <2> QED
    BY <1>1, <2>1, ReturnKeeps DEF JoinTokenAnswered, Returns
<1>2. CASE j.session = store.session
  <2> DEFINE moved == [j EXCEPT !.at = "connect"]
             new == [id |-> j.id, channel |-> j.channel, up |-> FALSE]
  <2>1. /\ j.at = "token" /\ joins' = (joins \ {j}) \cup {moved}
        /\ UNCHANGED <<leaves, removal, used>>
        /\ raced' = (raced \/ leaves # {})
    BY <1>2 DEF JoinTokenAnswered, Goes
  <2>2. /\ store'.status = store.status /\ store'.channel = store.channel
        /\ store'.room = j.id /\ store'.session = store.session
        /\ store'.rooms = store.rooms \cup {new} /\ store'.contexts = store.contexts \cup {j.id}
        /\ store'.held = j.id
    <3>1. store' = NewRoom(j)
      BY <1>2 DEF JoinTokenAnswered
    <3>2. store \in Stores
      BY DEF SessionInvariant, SessionTypeOK
    <3> QED
      BY <3>1, <3>2 DEF NewRoom, Stores
  <2>3. /\ moved.id = j.id /\ moved.session = j.session /\ moved.channel = j.channel
        /\ moved.at = "connect" /\ new.id = j.id /\ new.channel = j.channel /\ new.up = FALSE
        /\ moved \in JoinCalls /\ new \in Connections /\ j.id \in 1..MaxJoins
    BY DEF SessionInvariant, SessionTypeOK, Connections, JoinCalls
  <2> HIDE DEF moved, new
  <2>4. Numbered' /\ SessionTypeOK'
    <3>1. Numbered' /\ joins' \subseteq JoinCalls
      <4>1. SessionTypeOK /\ Numbered /\ moved \in JoinCalls /\ Begun(j) /\ Begun(moved)
            /\ moved.id = j.id /\ moved.session = j.session
        BY <2>1, <2>3 DEF SessionInvariant
      <4>2. \A i \in joins' : i = moved \/ (i \in joins /\ i # j)
        BY <2>1
      <4>3. UNCHANGED <<leaves, used>> /\ store'.session = store.session
        BY <2>1, <2>2
      <4> QED
        BY <4>1, <4>2, <4>3, GoesOn
    <3>2. store' \in Stores
      <4>1. store' = [store EXCEPT !.room = j.id, !.rooms = @ \cup {new}, !.held = j.id,
                                   !.contexts = @ \cup {j.id}]
        BY <1>2 DEF JoinTokenAnswered, NewRoom, new
      <4>2. store \in Stores
        BY DEF SessionInvariant, SessionTypeOK
      <4>3. store.rooms \cup {new} \in SUBSET Connections /\ store.contexts \cup {j.id} \in SUBSET Nat
            /\ j.id \in Nat
        BY <2>3, <4>2 DEF Stores
      <4> QED
        BY <4>1, <4>2, <4>3 DEF Stores
    <3> QED
      BY <2>1, <3>1, <3>2 DEF SessionInvariant, SessionTypeOK
  <2>5. RemovalFits'
    BY <2>1, DisturbedRemoval DEF SessionInvariant
  <2>6. ASSUME ~raced'
        PROVE  NothingLeftOpen' /\ Fits'
    <3>1. ~raced /\ leaves = {} /\ Fits /\ Now(j) /\ NothingLeftOpen
      BY <1>2, <2>1, <2>6 DEF SessionInvariant, Now
    <3>2. store.room = Nothing /\ store.rooms = {} /\ store.held = Nothing /\ store.contexts = {}
          /\ store.channel = j.channel /\ store.status = "connecting"
      BY <2>1, <3>1 DEF Fits, Awaiting, RoomFits, NothingLeftOpen
    <3>3. NothingLeftOpen'
      BY <2>2, <2>3, <3>2 DEF NothingLeftOpen
    <3>4. \A i \in joins' : Now(i)' => i = moved
      BY <2>1, <2>2, <3>1 DEF SessionInvariant, Numbered, Now
    <3>5. \A i \in joins' : i.id = j.id => i = moved
      BY <2>1 DEF SessionInvariant, Numbered
    <3>6. moved \in joins' /\ Now(moved)'
      BY <2>1, <2>2, <2>3, <3>1 DEF Now
    <3>7. Awaiting' /\ Leaving'
      BY <2>1, <2>3, <3>1, <3>4 DEF Awaiting, Leaving
    <3>8. Connects'
      BY <2>2, <2>3, <3>4, <3>5, <3>6 DEF Connects
    <3>9. RoomFits'
      BY <2>2, <2>3, <3>2, <3>6 DEF RoomFits
    <3>10. StatusFits'
      BY <2>2, <2>3, <3>2, <3>6 DEF StatusFits
    <3> QED
      BY <3>3, <3>7, <3>8, <3>9, <3>10 DEF Fits
  <2>7. NothingLeftOpen'
    BY <2>6 DEF NothingLeftOpen
  <2> QED
    BY <2>4, <2>5, <2>6, <2>7 DEF SessionInvariant
<1> QED
  BY <1>1, <1>2

\* The room of the join connects, and shows who is in it.
LEMMA ConnectAnsweredKeeps ==
    ASSUME SessionInvariant, NEW j \in joins, RoomConnected(j)
    PROVE  SessionInvariant'
<1> DEFINE up(r) == IF r.id = j.id THEN [r EXCEPT !.up = TRUE] ELSE r
           moved == [j EXCEPT !.at = "preferences"]
<1>1. /\ j.at = "connect" /\ UNCHANGED <<leaves, removal, used, raced>>
      /\ joins' = IF Current(j) THEN (joins \ {j}) \cup {moved} ELSE joins \ {j}
      /\ store \in Stores
  BY DEF RoomConnected, Goes, Returns, SessionInvariant, SessionTypeOK
<1>2. \A r \in store.rooms : /\ up(r) \in Connections /\ up(r).id = r.id /\ up(r).channel = r.channel
                             /\ r.id = j.id => up(r).up
                             /\ r.id # j.id => up(r) = r
  BY <1>1 DEF Stores, Connections
<1>3. /\ moved \in JoinCalls /\ moved.id = j.id /\ moved.session = j.session
      /\ moved.channel = j.channel /\ moved.at = "preferences"
  BY DEF SessionInvariant, SessionTypeOK, JoinCalls
<1>4. store' \in Stores /\ store'.rooms = {up(r) : r \in store.rooms}
      /\ store'.status = store.status /\ store'.channel = store.channel
      /\ store'.room = store.room /\ store'.session = store.session
      /\ store'.contexts = store.contexts /\ store'.held = store.held
      /\ store'.ended = store.ended
      /\ (Current(j) => store'.listed = j.id \/ store.room = Nothing)
  <2> DEFINE s == [store EXCEPT !.rooms = {up(r) : r \in @}]
  <2>1. store' = IF Current(j) THEN Synced(s) ELSE s
    BY DEF RoomConnected
  <2>2. {up(r) : r \in store.rooms} \in SUBSET Connections
    BY <1>2
  <2>3. /\ s \in Stores /\ s.rooms = {up(r) : r \in store.rooms}
        /\ s.status = store.status /\ s.channel = store.channel
        /\ s.room = store.room /\ s.session = store.session
        /\ s.contexts = store.contexts /\ s.held = store.held /\ s.ended = store.ended
    BY <1>1, <2>2 DEF Stores
  <2> HIDE DEF s, up
  <2> QED
    BY <2>1, <2>3 DEF Synced, Stores, Current
<1> HIDE DEF up, moved
<1>5. Numbered' /\ joins' \subseteq JoinCalls
  <2>1. SessionTypeOK /\ Numbered /\ Begun(j) /\ Begun(moved)
    BY <1>1, <1>3 DEF SessionInvariant
  <2>2. \A i \in joins' : i = moved \/ (i \in joins /\ i # j)
    BY <1>1
  <2> QED
    BY <1>1, <1>3, <1>4, <2>1, <2>2, GoesOn
<1>6. SessionTypeOK'
  BY <1>1, <1>4, <1>5 DEF SessionInvariant, SessionTypeOK
<1>7. RemovalFits'
  BY <1>1, DisturbedRemoval DEF SessionInvariant
<1>8. NothingLeftOpen'
  BY <1>1, <1>2, <1>4 DEF SessionInvariant, NothingLeftOpen
<1>9. ASSUME ~raced
      PROVE  Fits'
  <2>1. Fits /\ store.room = j.id /\ Now(j) /\ Current(j) /\ store.rooms # {}
    <3>1. store.room = j.id /\ Fits /\ store.rooms # {}
      BY <1>9 DEF SessionInvariant, NothingLeftOpen, RoomConnected
    <3> QED
      BY <1>1, <3>1 DEF Fits, Connects, Current, Now
  <2>2. /\ moved \in joins' /\ Now(moved)'
        /\ \A i \in joins' : i = moved \/ (i \in joins /\ i # j /\ ~Now(i)' /\ i.id # j.id)
    BY <1>1, <1>3, <1>4, <2>1 DEF SessionInvariant, Numbered, Now
  <2>3. j.id # 0 /\ \A r \in store.rooms : r.id = j.id
    BY <1>9, <2>1 DEF SessionInvariant, SessionTypeOK, JoinCalls, NothingLeftOpen
  <2>4. Awaiting' /\ Leaving'
    BY <1>1, <1>3, <1>4, <2>1, <2>2 DEF Fits, Awaiting, Leaving
  <2>5. Connects'
    BY <1>3, <1>4, <2>1, <2>2 DEF Connects
  <2>6. RoomFits'
    BY <1>2, <1>4, <2>1, <2>3 DEF Fits, RoomFits
  <2>7. StatusFits'
    BY <1>3, <1>4, <2>1, <2>2, <2>3 DEF Fits, StatusFits
  <2> QED
    BY <2>4, <2>5, <2>6, <2>7 DEF Fits
<1> QED
  BY <1>1, <1>5, <1>6, <1>7, <1>8, <1>9 DEF SessionInvariant

LEMMA PreferencesAppliedKeeps ==
    ASSUME SessionInvariant, NEW j \in joins, PreferencesApplied(j)
    PROVE  SessionInvariant'
<1> DEFINE moved == [j EXCEPT !.at = "refresh"]
<1>1. /\ j.at = "preferences" /\ UNCHANGED <<leaves, removal, used, raced>>
      /\ store \in Stores
      /\ ~raced /\ ~Current(j) => j.session # store.session
  BY DEF PreferencesApplied, SessionInvariant, SessionTypeOK, Fits, Connects, Current, Now
<1>2. CASE ~Current(j)
  <2>1. used' \in [joins : {used.joins}, leaves : {used.leaves}, upsets : 0..MaxFaults]
    BY <1>1 DEF SessionInvariant, SessionTypeOK
  <2> QED
    BY <1>1, <1>2, <2>1, ReturnKeeps DEF PreferencesApplied, Returns
<1>3. CASE Current(j)
  <2>1. /\ joins' = (joins \ {j}) \cup {moved}
        /\ store' = [store EXCEPT !.status = "connected"]
    BY <1>3 DEF PreferencesApplied, Goes
  <2>2. /\ moved \in JoinCalls /\ moved.id = j.id /\ moved.session = j.session
        /\ moved.at = "refresh"
    BY DEF SessionInvariant, SessionTypeOK, JoinCalls
  <2>3. store' \in Stores /\ store'.rooms = store.rooms
        /\ store'.status = "connected" /\ store'.channel = store.channel
        /\ store'.room = store.room /\ store'.session = store.session
        /\ store'.contexts = store.contexts /\ store'.held = store.held
        /\ store'.ended = store.ended /\ store'.listed = store.listed
    BY <1>1, <2>1 DEF Stores, SessionStatuses
  <2> HIDE DEF moved
  <2>4. Numbered' /\ joins' \subseteq JoinCalls
    <3>1. SessionTypeOK /\ Numbered /\ Begun(j) /\ Begun(moved)
      BY <1>1, <2>2 DEF SessionInvariant
    <3>2. \A i \in joins' : i = moved \/ (i \in joins /\ i # j)
      BY <2>1
    <3> QED
      BY <1>1, <2>2, <2>3, <3>1, <3>2, GoesOn
  <2>5. SessionTypeOK'
    BY <1>1, <2>3, <2>4 DEF SessionInvariant, SessionTypeOK
  <2>6. RemovalFits'
    BY <1>1, DisturbedRemoval DEF SessionInvariant
  <2>7. NothingLeftOpen'
    BY <1>1, <2>3 DEF SessionInvariant, NothingLeftOpen
  <2>8. ASSUME ~raced
        PROVE  Fits'
    <3>1. Fits /\ store.room = j.id /\ j.id # 0 /\ Now(j)
      BY <1>1, <1>3, <2>8 DEF SessionInvariant, Current, Now, SessionTypeOK, JoinCalls
    <3>2. /\ \A i \in joins' : i = moved \/ (i \in joins /\ i # j /\ ~Now(i)')
          /\ \A i \in joins : i.at = "connect" => i \in joins'
      BY <1>1, <2>1, <2>3, <3>1 DEF SessionInvariant, Numbered, Now
    <3>3. Awaiting' /\ Leaving' /\ Connects'
      BY <1>1, <2>2, <2>3, <3>1, <3>2 DEF Fits, Awaiting, Leaving, Connects, Now
    <3>4. RoomFits' /\ StatusFits'
      BY <1>1, <2>2, <2>3, <3>1, <3>2 DEF Fits, RoomFits, StatusFits
    <3> QED
      BY <3>3, <3>4 DEF Fits
  <2> QED
    BY <1>1, <2>4, <2>5, <2>6, <2>7, <2>8 DEF SessionInvariant
<1> QED
  BY <1>2, <1>3

LEMMA RefreshedKeeps ==
    ASSUME SessionInvariant, NEW j \in joins, Refreshed(j)
    PROVE  SessionInvariant'
<1>1. /\ j.at = "refresh" /\ UNCHANGED <<leaves, removal, used, raced>>
      /\ joins' = joins \ {j} /\ store \in Stores /\ store' = Synced(store)
  BY DEF Refreshed, Returns, SessionInvariant, SessionTypeOK
<1>2. store' \in Stores /\ store'.rooms = store.rooms
      /\ store'.status = store.status /\ store'.channel = store.channel
      /\ store'.room = store.room /\ store'.session = store.session
      /\ store'.contexts = store.contexts /\ store'.held = store.held
      /\ store'.ended = store.ended
      /\ (store.room = Nothing \/ store'.listed = store.room)
  BY <1>1 DEF Synced, Stores
<1>3. SessionTypeOK' /\ Numbered' /\ NothingLeftOpen'
  BY <1>1, <1>2 DEF SessionInvariant, SessionTypeOK, Numbered, NothingLeftOpen
<1>4. RemovalFits'
  BY <1>1, DisturbedRemoval DEF SessionInvariant
<1>5. ASSUME ~raced
      PROVE  Fits'
  <2>1. /\ Fits /\ joins' \subseteq joins
        /\ \A i \in joins : i.at # "refresh" => i \in joins'
        /\ \A i \in joins : Now(i)' = Now(i)
    BY <1>1, <1>2, <1>5 DEF SessionInvariant, Now
  <2>2. Awaiting' /\ Leaving' /\ Connects'
    BY <1>1, <1>2, <2>1 DEF Fits, Awaiting, Leaving, Connects
  <2>3. RoomFits' /\ StatusFits'
    BY <1>1, <1>2, <2>1 DEF Fits, RoomFits, StatusFits, Unsettled
  <2> QED
    BY <2>2, <2>3 DEF Fits
<1> QED
  BY <1>1, <1>3, <1>4, <1>5 DEF SessionInvariant

\* The contexts closed, a failed join gives up the room it had.
LEMMA JoinFailsKeeps ==
    ASSUME VoiceSessionAssumption, SessionInvariant, NEW j \in joins, AttemptFails(j)
    PROVE  SessionInvariant'
<1> DEFINE moved == [j EXCEPT !.at = "failed"]
<1>1. /\ j.at \in {"token", "connect", "preferences"} /\ UNCHANGED <<leaves, removal, raced>>
      /\ store \in Stores
      /\ used' \in [joins : {used.joins}, leaves : {used.leaves}, upsets : 0..MaxFaults]
  <2>1. used \in [joins : 0..MaxJoins, leaves : 0..MaxLeaves, upsets : 0..MaxFaults]
        /\ MaxFaults \in Nat
    BY DEF SessionInvariant, SessionTypeOK, VoiceSessionAssumption
  <2>2. used' = used \/ (used.upsets < MaxFaults /\ used' = [used EXCEPT !.upsets = @ + 1])
    BY DEF AttemptFails, Upset
  <2> QED
    BY <2>1, <2>2 DEF AttemptFails, SessionInvariant, SessionTypeOK
<1>2. CASE j.session # store.session
  BY <1>1, <1>2, ReturnKeeps DEF AttemptFails, Returns
<1>3. CASE j.session = store.session
  <2>1. joins' = (joins \ {j}) \cup {moved}
    BY <1>3 DEF AttemptFails, Goes
  <2>2. /\ moved \in JoinCalls /\ moved.id = j.id /\ moved.session = j.session
        /\ moved.at = "failed"
    BY DEF SessionInvariant, SessionTypeOK, JoinCalls
  <2>3. store' \in Stores /\ store'.rooms = {r \in store.rooms : r.id # store.room}
        /\ store'.status = store.status /\ store'.channel = store.channel
        /\ store'.room = Nothing /\ store'.session = store.session
        /\ store'.contexts = store.contexts \ {store.held} /\ store'.held = Nothing
        /\ store'.ended = store.ended
    <3>1. store' = DestroyContexts(Disconnected([store EXCEPT !.room = Nothing], store.room))
      BY <1>3 DEF AttemptFails
    <3> QED
      BY <1>1, <3>1, DestroyedFields, DisconnectedFields
  <2> HIDE DEF moved
  <2>4. Numbered' /\ joins' \subseteq JoinCalls
    <3>1. SessionTypeOK /\ Numbered /\ Begun(j) /\ Begun(moved)
      BY <1>1, <2>2 DEF SessionInvariant
    <3>2. \A i \in joins' : i = moved \/ (i \in joins /\ i # j)
      BY <2>1
    <3> QED
      BY <1>1, <2>2, <2>3, <3>1, <3>2, GoesOn
  <2>5. SessionTypeOK'
    BY <1>1, <2>3, <2>4 DEF SessionInvariant, SessionTypeOK
  <2>6. RemovalFits'
    BY <1>1, DisturbedRemoval DEF SessionInvariant
  <2>7. NothingLeftOpen'
    BY <1>1, <2>3 DEF SessionInvariant, NothingLeftOpen
  <2>8. ASSUME ~raced
        PROVE  Fits'
    <3>1. Fits /\ Now(j) /\ NothingLeftOpen
      BY <1>1, <1>3, <2>8 DEF SessionInvariant, Now
    <3>2. /\ \A i \in joins' : i = moved \/ (i \in joins /\ i # j /\ ~Now(i)')
          /\ \A i \in joins' : i.id # Nothing
          /\ moved \in joins' /\ Now(moved)'
      BY <1>1, <2>1, <2>2, <2>3, <2>4, <3>1 DEF SessionInvariant, Numbered, Now, JoinCalls
    <3>3. store'.rooms = {}
      BY <2>3, <2>8, <3>1 DEF NothingLeftOpen
    <3>4. Awaiting' /\ Leaving' /\ Connects'
      BY <1>1, <2>2, <2>3, <3>1, <3>2 DEF Awaiting, Leaving, Connects
    <3>5. RoomFits' /\ StatusFits'
      BY <1>1, <2>2, <2>3, <3>1, <3>2, <3>3 DEF Fits, RoomFits, StatusFits, Unsettled
    <3> QED
      BY <3>4, <3>5 DEF Fits
  <2> QED
    BY <1>1, <2>4, <2>5, <2>6, <2>7, <2>8 DEF SessionInvariant
<1> QED
  BY <1>2, <1>3

\* The panel is cleared by a join that has failed.
LEMMA JoinFailedKeeps ==
    ASSUME SessionInvariant, NEW j \in joins, JoinFailed(j)
    PROVE  SessionInvariant'
<1>1. /\ j.at = "failed" /\ UNCHANGED <<leaves, removal, used>>
      /\ joins' = joins \ {j} /\ store \in Stores
      /\ store' = [store EXCEPT !.channel = Nothing, !.status = "error"]
      /\ raced' = (raced \/ j.session # store.session)
  BY DEF JoinFailed, Cleared, Returns, SessionInvariant, SessionTypeOK
<1>2. store' \in Stores /\ store'.rooms = store.rooms
      /\ store'.status = "error" /\ store'.channel = Nothing
      /\ store'.room = store.room /\ store'.session = store.session
      /\ store'.contexts = store.contexts /\ store'.held = store.held
      /\ store'.ended = store.ended /\ store'.listed = store.listed
  BY <1>1 DEF Stores, SessionStatuses
<1>3. SessionTypeOK' /\ Numbered' /\ NothingLeftOpen'
  BY <1>1, <1>2 DEF SessionInvariant, SessionTypeOK, Numbered, NothingLeftOpen
<1>4. RemovalFits'
  BY <1>1, DisturbedRemoval DEF SessionInvariant
<1>5. ASSUME ~raced'
      PROVE  Fits'
  <2>1. /\ Fits /\ Now(j) /\ store.room = Nothing /\ store.rooms = {}
    BY <1>1, <1>5 DEF SessionInvariant, Now, Fits, Connects, RoomFits
  <2>2. \A i \in joins' : i \in joins /\ i.id # Nothing /\ ~Now(i)'
    BY <1>1, <1>2, <2>1 DEF SessionInvariant, Numbered, Now, SessionTypeOK, JoinCalls
  <2>3. Awaiting' /\ Leaving' /\ Connects'
    BY <1>1, <1>2, <2>1, <2>2 DEF Awaiting, Leaving, Connects
  <2>4. RoomFits' /\ StatusFits'
    BY <1>1, <1>2, <2>1, <2>2 DEF RoomFits, StatusFits
  <2> QED
    BY <2>3, <2>4 DEF Fits
<1> QED
  BY <1>1, <1>3, <1>4, <1>5 DEF SessionInvariant

-----------------------------------------------------------------------------
(* Joins and leaves begin, and the steps of a leave *)

\* A new leave is a leave.
LEMMA NewLeaveType ==
    ASSUME VoiceSessionAssumption, SessionTypeOK, NEW n \in 0..MaxJoins, NEW notify \in BOOLEAN,
           used.leaves < MaxLeaves \/ used.joins < MaxJoins
    PROVE  [id |-> used.leaves + used.joins + 1, target |-> store.room, was |-> FALSE,
            notify |-> notify, join |-> n, at |-> "audio"] \in Leaves
<1>1. store.room \in Nat /\ used.joins \in 0..MaxJoins /\ used.leaves \in 0..MaxLeaves
  BY DEF SessionTypeOK, Stores
<1>2. used.leaves + used.joins + 1 \in 1..(MaxLeaves + MaxJoins)
  BY <1>1 DEF VoiceSessionAssumption
<1> QED
  BY <1>1, <1>2 DEF Leaves

LEMMA LeaveKeeps ==
    ASSUME VoiceSessionAssumption, SessionInvariant, NEW notify \in BOOLEAN, Leave(notify)
    PROVE  SessionInvariant'
<1> DEFINE new == [id |-> used.leaves + used.joins + 1, target |-> store.room, was |-> FALSE,
                   notify |-> notify, join |-> 0, at |-> "audio"]
<1>1. /\ used.leaves < MaxLeaves /\ UNCHANGED <<joins, raced>>
      /\ store \in Stores /\ leaves' = leaves \cup {new}
      /\ used' = [used EXCEPT !.leaves = @ + 1]
      /\ removal' = [removal EXCEPT !.state = IF @ = "clean" THEN "past" ELSE @]
      /\ used \in [joins : 0..MaxJoins, leaves : 0..MaxLeaves, upsets : 0..MaxFaults]
  BY DEF Leave, StartLeave, SessionInvariant, SessionTypeOK
<1>2. /\ new \in Leaves
  BY <1>1, NewLeaveType DEF SessionInvariant, VoiceSessionAssumption
<1>3. new.at = "audio" /\ new.target = store.room /\ new.join = 0
  OBVIOUS
<1> HIDE DEF new
<1>4. store' \in Stores /\ store'.rooms = store.rooms
      /\ store'.status = store.status /\ store'.channel = store.channel
      /\ store'.room = store.room /\ store'.session = store.session
      /\ store'.contexts = store.contexts /\ store'.held = store.held
      /\ store'.listed = store.listed
  BY <1>1 DEF Leave, RememberEnded, Stores
<1>5. used' \in [joins : {used.joins}, leaves : 0..MaxLeaves, upsets : 0..MaxFaults]
  BY <1>1 DEF VoiceSessionAssumption
<1>6. Numbered'
  <2>1. \A i \in joins : i.id # 0
    BY DEF SessionInvariant, SessionTypeOK, JoinCalls
  <2>2. used.joins >= 0 /\ used'.joins = used.joins
    BY <1>1, <1>5
  <2> QED
    BY <1>1, <1>3, <1>4, <2>1, <2>2 DEF SessionInvariant, Numbered
<1>7. removal' \in Removals /\ RemovalFits'
  BY <1>1, UserDisturbs
<1>8. SessionTypeOK'
  BY <1>1, <1>2, <1>4, <1>5, <1>7 DEF SessionInvariant, SessionTypeOK
<1>9. NothingLeftOpen'
  BY <1>1, <1>4 DEF SessionInvariant, NothingLeftOpen
<1>10. ASSUME ~raced
       PROVE  Fits'
  <2>1. Fits
    BY <1>10 DEF SessionInvariant
  <2>2. Awaiting' /\ Leaving' /\ Connects'
    BY <1>1, <1>3, <1>4, <2>1 DEF Fits, Awaiting, Leaving, Connects, Now
  <2>3. RoomFits' /\ StatusFits'
    BY <1>1, <1>4, <2>1 DEF Fits, RoomFits, StatusFits, Unsettled, Now
  <2> QED
    BY <2>2, <2>3 DEF Fits
<1> QED
  BY <1>1, <1>6, <1>7, <1>8, <1>9, <1>10 DEF SessionInvariant

\* A join is begun: the panel shows it, and its session is the new one.
LEMMA BegunFields ==
    ASSUME NEW s \in Stores, NEW j, j.channel \in Channels
    PROVE  LET b == Begins(s, j) IN
           /\ b \in Stores /\ b.status = "connecting" /\ b.channel = j.channel
           /\ b.room = s.room /\ b.session = s.session + 1 /\ b.rooms = s.rooms
           /\ b.ended = Nothing /\ b.listed = s.listed /\ b.held = Nothing
           /\ b.contexts = s.contexts \ {s.held}
<1> DEFINE d == DestroyContexts(s)
           b == [d EXCEPT !.session = s.session + 1, !.ended = Nothing, !.status = "connecting",
                          !.channel = j.channel]
<1>1. /\ d \in Stores /\ d.room = s.room /\ d.session = s.session /\ d.rooms = s.rooms
      /\ d.listed = s.listed /\ d.held = Nothing /\ d.contexts = s.contexts \ {s.held}
  BY DestroyedFields
<1>2. s.session + 1 \in Nat
  BY DEF Stores
<1> HIDE DEF d
<1>3. Begins(s, j) = b
  BY <1>1 DEF Begins, d
<1>4. /\ b \in Stores /\ b.status = "connecting" /\ b.channel = j.channel
      /\ b.room = d.room /\ b.session = s.session + 1 /\ b.rooms = d.rooms
      /\ b.ended = Nothing /\ b.listed = d.listed /\ b.held = d.held /\ b.contexts = d.contexts
  BY <1>1, <1>2 DEF Stores, SessionStatuses
<1> HIDE DEF b
<1> QED
  BY <1>1, <1>3, <1>4

\* The join of a new session is the only one of it.
LEMMA BegunNumbered ==
    ASSUME SessionTypeOK, Numbered, NEW b \in JoinCalls, b.session = store.session + 1,
           \A i \in joins' : i = b \/ (i \in joins /\ i.id # b.id),
           b.id <= used'.joins, used'.joins \in Nat, used'.joins >= used.joins,
           store'.session = store.session + 1,
           leaves' \subseteq leaves, \A l \in leaves' : l.join # b.id
    PROVE  Numbered'
<1>1. \A i \in joins : i.session \in Nat /\ i.id \in Nat
  BY DEF SessionTypeOK, JoinCalls
<1>2. store.session \in Nat /\ used.joins \in Nat /\ \A l \in leaves : l.join \in Nat
  BY DEF SessionTypeOK, Stores, Leaves
<1>3. \A i \in joins : i.id <= used'.joins /\ (Begun(i) => i.session < b.session)
  BY <1>1, <1>2 DEF Numbered
<1>4. \A l \in leaves : l.join <= used'.joins
  BY <1>2 DEF Numbered
<1> QED
  BY <1>1, <1>2, <1>3, <1>4 DEF Numbered

\* What a leave that has ended leaves behind, and the join that waited for it.
LEMMA LeftFields ==
    ASSUME SessionTypeOK, NEW s \in Stores, NEW l \in leaves, NEW ok \in BOOLEAN, LeaveEnds(s, l, ok)
    PROVE  \/ /\ store' = s /\ raced' = raced
              /\ joins' \subseteq joins /\ \A i \in joins \ joins' : i.id = l.join
           \/ \E j \in joins : \E b \in JoinCalls :
                /\ j.id = l.join /\ b.id = j.id /\ b.channel = j.channel
                /\ b.session = s.session + 1 /\ b.at = "token"
                /\ joins' = (joins \ {j}) \cup {b}
                /\ store' = Begins(s, j)
                /\ raced' = (raced \/ s.room # Nothing \/ \E o \in leaves \ {l} : o.at # "post")
<1> DEFINE waiting == {j \in joins : j.id = l.join}
           first == CHOOSE x \in waiting : TRUE
           b == [first EXCEPT !.at = "token", !.session = s.session + 1]
<1>1. CASE ~ok \/ waiting = {}
  BY <1>1 DEF LeaveEnds
<1>2. CASE ok /\ waiting # {}
  <2>1. first \in waiting
    BY <1>2
  <2>2. /\ store' = Begins(s, first)
        /\ joins' = (joins \ {first}) \cup {b}
        /\ raced' = (raced \/ s.room # Nothing \/ \E o \in leaves \ {l} : o.at # "post")
    BY <1>2 DEF LeaveEnds
  <2>3. first \in joins /\ first.id = l.join
    BY <2>1
  <2> HIDE DEF first
  <2>4. /\ b \in JoinCalls /\ b.id = first.id /\ b.channel = first.channel
        /\ b.session = s.session + 1 /\ b.at = "token"
    <3>1. first \in JoinCalls /\ s.session + 1 \in Nat
      BY <2>3 DEF SessionTypeOK, Stores
    <3> QED
      BY <3>1 DEF JoinCalls
  <2> QED
    BY <2>2, <2>3, <2>4
<1> QED
  BY <1>1, <1>2

LEMMA LeftKeeps ==
    ASSUME SessionInvariant, NEW s \in Stores, NEW l \in leaves, NEW ok \in BOOLEAN,
           LeaveEnds(s, l, ok), leaves' = leaves \ {l}, removal' = removal,
           used' \in [joins : {used.joins}, leaves : {used.leaves}, upsets : 0..MaxFaults],
           s.room = store.room, s.session = store.session, s.rooms = store.rooms,
           s.held = store.held, s.contexts = store.contexts,
           \/ l.at = "post" /\ s = store
           \/ l.at = "contexts" /\ s.status = "idle" /\ s.channel = Nothing
    PROVE  SessionInvariant'
<1>1. /\ SessionTypeOK /\ Numbered /\ used'.joins = used.joins /\ store.session \in Nat
      /\ used' \in [joins : 0..MaxJoins, leaves : 0..MaxLeaves, upsets : 0..MaxFaults]
  BY DEF SessionInvariant, SessionTypeOK, Stores
<1>2. RemovalFits'
  BY DisturbedRemoval DEF SessionInvariant
<1>3. ASSUME ~raced
      PROVE  Fits /\ store.room = Nothing /\ store.rooms = {} /\ store.held = Nothing
             /\ store.contexts = {}
  BY <1>3 DEF SessionInvariant, Fits, Leaving, RoomFits, NothingLeftOpen
<1>4. \A i \in joins : i.id # Nothing /\ (i.id = l.join => i.at = "leaving")
  BY <1>1 DEF Numbered, SessionTypeOK, JoinCalls
<1>5. CASE /\ store' = s /\ raced' = raced
           /\ joins' \subseteq joins /\ \A i \in joins \ joins' : i.id = l.join
  <2>1. SessionTypeOK' /\ Numbered' /\ NothingLeftOpen'
    BY <1>1, <1>5 DEF SessionInvariant, SessionTypeOK, Numbered, NothingLeftOpen
  <2>2. ASSUME ~raced
        PROVE  Fits'
    <3>1. /\ \A i \in joins : i.at # "leaving" => i \in joins'
          /\ \A i \in joins : Now(i)' = Now(i)
          /\ \A i \in joins : Now(i) => i.at # "leaving"
      BY <1>4, <1>5 DEF Now
    <3>2. Awaiting' /\ Leaving' /\ Connects'
      BY <1>3, <1>4, <1>5, <2>2, <3>1 DEF Fits, Awaiting, Leaving, Connects
    <3>3. RoomFits'
      BY <1>3, <1>5, <2>2 DEF RoomFits
    <3>4. StatusFits'
      BY <1>3, <1>5, <2>2, <3>1 DEF Fits, StatusFits, Unsettled
    <3> QED
      BY <3>2, <3>3, <3>4 DEF Fits
  <2> QED
    BY <1>2, <1>5, <2>1, <2>2 DEF SessionInvariant
<1>6. ASSUME NEW j \in joins, NEW b \in JoinCalls,
             /\ j.id = l.join /\ b.id = j.id /\ b.channel = j.channel
             /\ b.session = s.session + 1 /\ b.at = "token"
             /\ joins' = (joins \ {j}) \cup {b}
             /\ store' = Begins(s, j)
             /\ raced' = (raced \/ s.room # Nothing \/ \E o \in leaves \ {l} : o.at # "post")
      PROVE  SessionInvariant'
  <2>1. j.channel \in Channels /\ b.channel \in Channels
    BY <1>1, <1>6 DEF SessionTypeOK, JoinCalls
  <2>2. /\ store' \in Stores /\ store'.status = "connecting" /\ store'.channel = j.channel
        /\ store'.room = store.room /\ store'.session = store.session + 1
        /\ store'.rooms = store.rooms /\ store'.held = Nothing
        /\ store'.contexts = store.contexts \ {store.held}
    BY <1>6, <2>1, BegunFields
  <2>3. \A i \in joins' : i = b \/ (i \in joins /\ i.id # b.id)
    BY <1>1, <1>6 DEF Numbered
  <2>4. Numbered'
    <3>1. used'.joins \in Nat /\ used'.joins >= used.joins /\ b.id <= used'.joins
      BY <1>1, <1>6 DEF SessionTypeOK, Numbered
    <3>2. leaves' \subseteq leaves /\ \A k \in leaves' : k.join # b.id
      BY <1>1, <1>6, <1>4 DEF Numbered
    <3> QED
      BY <1>1, <1>6, <2>2, <2>3, <3>1, <3>2, BegunNumbered
  <2>5. SessionTypeOK'
    BY <1>1, <1>6, <2>2 DEF SessionTypeOK
  <2>6. ASSUME ~raced'
        PROVE  NothingLeftOpen' /\ Fits'
    <3>1. /\ ~raced /\ Fits /\ store'.room = Nothing /\ store'.rooms = {} /\ store'.contexts = {}
          /\ \A k \in leaves' : k.at = "post"
      BY <1>3, <1>6, <2>2, <2>6
    <3>2. \A i \in joins : Begun(i) => i.session < b.session
      BY <1>1, <1>6 DEF Numbered, SessionTypeOK, JoinCalls
    <3>3. /\ b \in joins' /\ Now(b)' /\ \A i \in joins' : i = b \/ ~Now(i)'
          /\ \A i \in joins' : i.id # Nothing
      BY <1>1, <1>4, <1>6, <2>2, <2>3, <3>2 DEF Now, JoinCalls, SessionTypeOK
    <3>4. NothingLeftOpen'
      BY <2>2, <3>1 DEF NothingLeftOpen
    <3>5. Awaiting' /\ Leaving' /\ Connects'
      BY <1>6, <2>2, <3>1, <3>3 DEF Awaiting, Leaving, Connects
    <3>6. RoomFits' /\ StatusFits'
      BY <1>6, <2>2, <3>1, <3>3 DEF RoomFits, StatusFits
    <3> QED
      BY <3>4, <3>5, <3>6 DEF Fits
  <2>7. NothingLeftOpen'
    BY <2>6 DEF NothingLeftOpen
  <2> QED
    BY <1>2, <2>4, <2>5, <2>6, <2>7 DEF SessionInvariant
<1> QED
  BY <1>1, <1>5, <1>6, LeftFields

\* A leave goes on to another place: leaves stay told apart.
LEMMA LeaveGoesOn ==
    ASSUME SessionTypeOK, Numbered, NEW l \in leaves, NEW moved \in Leaves, moved.join = l.join,
           leaves' = (leaves \ {l}) \cup {moved}, UNCHANGED <<joins, used>>,
           store'.session \in Nat, store'.session >= store.session
    PROVE  Numbered' /\ leaves' \subseteq Leaves
<1>1. leaves' \subseteq Leaves
  BY DEF SessionTypeOK
<1>2. \A i \in joins : i.session \in Nat
  BY DEF SessionTypeOK, JoinCalls
<1>3. store.session \in Nat
  BY DEF SessionTypeOK, Stores
<1> QED
  BY <1>1, <1>2, <1>3 DEF Numbered

\* The room the leave began with is given up, if it is the one that is held.
LEMMA AudioStoppedKeeps ==
    ASSUME SessionInvariant, NEW l \in leaves, AudioStopped(l)
    PROVE  SessionInvariant'
<1> DEFINE was == l.target # Nothing /\ store.room = l.target
           moved == [l EXCEPT !.at = "contexts", !.was = was]
           over == [store EXCEPT !.session = @ + 1]
<1>1. /\ l.at = "audio" /\ UNCHANGED <<joins, removal, used, raced>>
      /\ store \in Stores /\ leaves' = (leaves \ {l}) \cup {moved}
      /\ store' = DestroyContexts(IF was THEN Disconnected([over EXCEPT !.room = Nothing], l.target)
                                  ELSE over)
  BY DEF AudioStopped, SessionInvariant, SessionTypeOK
<1>2. /\ moved \in Leaves /\ moved.join = l.join /\ moved.at = "contexts"
  BY DEF SessionInvariant, SessionTypeOK, Leaves
<1>3. /\ over \in Stores /\ over.status = store.status /\ over.channel = store.channel
      /\ over.room = store.room /\ over.session = store.session + 1
      /\ over.rooms = store.rooms /\ over.held = store.held /\ over.contexts = store.contexts
  BY <1>1 DEF Stores
<1> HIDE DEF moved, over
<1>4. /\ store' \in Stores /\ store'.status = store.status /\ store'.channel = store.channel
      /\ store'.session = store.session + 1
      /\ store'.held = Nothing /\ store'.contexts = store.contexts \ {store.held}
      /\ IF was THEN store'.room = Nothing /\ store'.rooms = {r \in store.rooms : r.id # l.target}
                ELSE store'.room = store.room /\ store'.rooms = store.rooms
  BY <1>1, <1>3, DestroyedFields, DisconnectedFields
<1>5. store.session \in Nat /\ \A i \in joins : i.session \in Nat /\ i.id # Nothing
  BY DEF SessionInvariant, SessionTypeOK, Stores, JoinCalls
<1>6. Numbered' /\ leaves' \subseteq Leaves
  BY <1>1, <1>2, <1>4, <1>5, LeaveGoesOn DEF SessionInvariant
<1>7. SessionTypeOK'
  BY <1>1, <1>4, <1>6 DEF SessionInvariant, SessionTypeOK
<1>8. RemovalFits'
  BY <1>1, DisturbedRemoval DEF SessionInvariant
<1>9. ASSUME ~raced
      PROVE  NothingLeftOpen' /\ Fits'
  <2>1. Fits /\ NothingLeftOpen
    BY <1>9 DEF SessionInvariant
  <2>2. store'.room = Nothing /\ store'.rooms = {} /\ store'.contexts = {}
    BY <1>1, <1>4, <1>9, <2>1 DEF Fits, Leaving, RoomFits, NothingLeftOpen
  <2>3. \A i \in joins' : ~Now(i)'
    BY <1>1, <1>4, <1>5 DEF SessionInvariant, Numbered, Now
  <2>4. moved \in leaves'
    BY <1>1
  <2>5. NothingLeftOpen'
    BY <1>4, <2>2 DEF NothingLeftOpen
  <2>6. Awaiting' /\ Leaving' /\ Connects'
    BY <1>1, <1>5, <2>2, <2>3 DEF Awaiting, Leaving, Connects
  <2>7. RoomFits' /\ StatusFits'
    BY <1>2, <1>4, <2>1, <2>2, <2>4 DEF Fits, RoomFits, StatusFits, Unsettled
  <2> QED
    BY <2>5, <2>6, <2>7 DEF Fits
<1>10. NothingLeftOpen'
  BY <1>1, <1>9 DEF NothingLeftOpen
<1> QED
  BY <1>1, <1>6, <1>7, <1>8, <1>9, <1>10 DEF SessionInvariant

\* Its contexts closed, a leave clears the panel.
LEMMA ContextsClosedKeeps ==
    ASSUME SessionInvariant, NEW l \in leaves, ContextsClosed(l)
    PROVE  SessionInvariant'
<1> DEFINE s == [Cleared(store, "idle") EXCEPT !.listed = Nothing]
           moved == [l EXCEPT !.at = "post"]
<1>1. /\ l.at = "contexts" /\ UNCHANGED <<removal, used>> /\ store \in Stores
  BY DEF ContextsClosed, SessionInvariant, SessionTypeOK
<1>2. /\ s \in Stores /\ s.status = "idle" /\ s.channel = Nothing
      /\ s.room = store.room /\ s.session = store.session
      /\ s.rooms = store.rooms /\ s.held = store.held /\ s.contexts = store.contexts
  BY <1>1 DEF Stores, SessionStatuses, Cleared
<1>3. /\ moved \in Leaves /\ moved.join = l.join /\ moved.at = "post"
  BY DEF SessionInvariant, SessionTypeOK, Leaves
<1>4. CASE ~(l.was /\ l.notify)
  <2>1. leaves' = leaves \ {l} /\ LeaveEnds(s, l, TRUE)
    BY <1>4 DEF ContextsClosed
  <2>2. used' \in [joins : {used.joins}, leaves : {used.leaves}, upsets : 0..MaxFaults]
    BY <1>1 DEF SessionInvariant, SessionTypeOK
  <2> HIDE DEF s
  <2> QED
    BY <1>1, <1>2, <2>1, <2>2, LeftKeeps
<1>5. CASE l.was /\ l.notify
  <2>1. leaves' = (leaves \ {l}) \cup {moved} /\ store' = s /\ UNCHANGED <<joins, raced>>
    BY <1>5 DEF ContextsClosed, Waits
  <2> HIDE DEF s, moved
  <2>2. Numbered' /\ leaves' \subseteq Leaves
    <3>1. store'.session \in Nat /\ store'.session >= store.session
      BY <1>1, <1>2, <2>1 DEF Stores
    <3> QED
      BY <1>1, <1>3, <2>1, <3>1, LeaveGoesOn DEF SessionInvariant
  <2>3. SessionTypeOK' /\ NothingLeftOpen'
    BY <1>1, <1>2, <2>1, <2>2 DEF SessionInvariant, SessionTypeOK, NothingLeftOpen
  <2>4. RemovalFits'
    BY <1>1, DisturbedRemoval DEF SessionInvariant
  <2>5. ASSUME ~raced
        PROVE  Fits'
    <3>1. Fits /\ store'.room = Nothing /\ store'.rooms = {}
      BY <1>1, <1>2, <2>1, <2>5 DEF SessionInvariant, Fits, Leaving, RoomFits
    <3>2. \A i \in joins' : Now(i)' = Now(i) /\ i \in joins /\ i.id # Nothing
      BY <1>2, <2>1 DEF SessionInvariant, SessionTypeOK, JoinCalls, Now
    <3>3. Awaiting' /\ Leaving' /\ Connects'
      BY <1>1, <1>2, <2>1, <3>1, <3>2 DEF Fits, Awaiting, Leaving, Connects
    <3>4. RoomFits' /\ StatusFits'
      BY <1>2, <2>1, <3>1 DEF RoomFits, StatusFits
    <3> QED
      BY <3>3, <3>4 DEF Fits
  <2> QED
    BY <2>1, <2>2, <2>3, <2>4, <2>5 DEF SessionInvariant
<1> QED
  BY <1>4, <1>5

LEMMA LeavePostedKeeps ==
    ASSUME VoiceSessionAssumption, SessionInvariant, NEW l \in leaves, NEW ok \in BOOLEAN,
           LeavePosted(l, ok)
    PROVE  SessionInvariant'
<1>1. l.at = "post" /\ store \in Stores /\ leaves' = leaves \ {l} /\ LeaveEnds(store, l, ok)
      /\ UNCHANGED removal
  BY DEF LeavePosted, SessionInvariant, SessionTypeOK
<1>2. used' \in [joins : {used.joins}, leaves : {used.leaves}, upsets : 0..MaxFaults]
  <2>1. used \in [joins : 0..MaxJoins, leaves : 0..MaxLeaves, upsets : 0..MaxFaults]
        /\ MaxFaults \in Nat
    BY DEF SessionInvariant, SessionTypeOK, VoiceSessionAssumption
  <2>2. used' = used \/ (used.upsets < MaxFaults /\ used' = [used EXCEPT !.upsets = @ + 1])
    BY DEF LeavePosted, Upset
  <2> QED
    BY <2>1, <2>2
<1> QED
  BY <1>1, <1>2, LeftKeeps

\* A join begins at once, or waits for the leave of the room that is held.
LEMMA JoinKeeps ==
    ASSUME VoiceSessionAssumption, SessionInvariant, NEW channel \in Channels, Join(channel)
    PROVE  SessionInvariant'
<1> PICK j : j = [id |-> used.joins + 1, channel |-> channel, session |-> store.session + 1,
                  at |-> "token"]
  OBVIOUS
<1> DEFINE k == [j EXCEPT !.at = "leaving"]
<1>1. /\ used.joins < MaxJoins /\ store \in Stores /\ SessionTypeOK /\ Numbered
      /\ used' = [used EXCEPT !.joins = @ + 1]
      /\ used \in [joins : 0..MaxJoins, leaves : 0..MaxLeaves, upsets : 0..MaxFaults]
      /\ raced' = (raced \/ \E l \in leaves : l.at # "post")
      /\ removal' = [removal EXCEPT !.state = IF @ = "clean" THEN "past" ELSE @]
  BY DEF Join, SessionInvariant, SessionTypeOK
<1>2. /\ used' \in [joins : {used.joins + 1}, leaves : {used.leaves}, upsets : {used.upsets}]
      /\ used' \in [joins : 0..MaxJoins, leaves : 0..MaxLeaves, upsets : 0..MaxFaults]
  BY <1>1 DEF VoiceSessionAssumption
<1>3. /\ j \in JoinCalls /\ j.id = used.joins + 1 /\ j.channel = channel
      /\ j.session = store.session + 1 /\ j.at = "token"
      /\ k \in JoinCalls /\ k.id = used.joins + 1 /\ k.at = "leaving"
  BY <1>1 DEF JoinCalls, Stores, VoiceSessionAssumption
<1>4. removal' \in Removals /\ RemovalFits'
  BY <1>1, UserDisturbs
<1>5. /\ \A i \in joins : i.id \in Nat \ {Nothing} /\ i.id < used.joins + 1 /\ i.session \in Nat
      /\ \A l \in leaves : l.join \in Nat /\ l.join < used.joins + 1
      /\ used.joins \in Nat /\ store.session \in Nat
  BY <1>1 DEF Numbered, SessionTypeOK, JoinCalls, Leaves, Stores
<1>6. ASSUME ~raced'
      PROVE  Fits /\ NothingLeftOpen /\ \A l \in leaves : l.at = "post"
  BY <1>1, <1>6 DEF SessionInvariant, SessionTypeOK
<1>7. CASE store.room = Nothing
  <2>1. store' = Begins(store, j) /\ joins' = joins \cup {j} /\ leaves' = leaves
    BY <1>7 DEF Join
  <2> HIDE DEF k
  <2>2. /\ store' \in Stores /\ store'.status = "connecting" /\ store'.channel = channel
        /\ store'.room = Nothing /\ store'.session = store.session + 1
        /\ store'.rooms = store.rooms /\ store'.held = Nothing
        /\ store'.contexts = store.contexts \ {store.held}
    <3>1. store \in Stores /\ j.channel = channel /\ j.channel \in Channels
      BY <1>1, <1>3 DEF SessionTypeOK
    <3> QED
      BY <1>7, <2>1, <3>1, BegunFields
  <2>3. Numbered'
    <3>1. \A i \in joins' : i = j \/ (i \in joins /\ i.id # j.id)
      BY <1>3, <1>5, <2>1
    <3>2. leaves' \subseteq leaves /\ \A l \in leaves' : l.join # j.id
      BY <1>3, <1>5, <2>1
    <3>3. j.id <= used'.joins /\ used'.joins \in Nat /\ used'.joins >= used.joins
      BY <1>2, <1>3, <1>5
    <3> QED
      BY <1>1, <1>3, <2>2, <3>1, <3>2, <3>3, BegunNumbered
  <2>4. SessionTypeOK'
    BY <1>1, <1>2, <1>3, <1>4, <2>1, <2>2 DEF SessionTypeOK
  <2>5. ASSUME ~raced'
        PROVE  NothingLeftOpen' /\ Fits'
    <3>1. Fits /\ store'.rooms = {} /\ store'.contexts = {} /\ \A l \in leaves' : l.at = "post"
      BY <1>1, <1>6, <1>7, <2>1, <2>2, <2>5 DEF Fits, RoomFits, NothingLeftOpen
    <3>2. /\ j \in joins' /\ Now(j)' /\ \A i \in joins' : i = j \/ ~Now(i)'
          /\ \A i \in joins' : i.id # Nothing
      <4>1. \A i \in joins : Begun(i) => i.session < store.session + 1
        BY <1>1, <1>5 DEF Numbered
      <4>2. j.id # Nothing /\ Begun(j)
        BY <1>3, <1>5
      <4> QED
        BY <1>3, <1>5, <2>1, <2>2, <4>1, <4>2 DEF Now
    <3>3. NothingLeftOpen'
      BY <2>2, <3>1 DEF NothingLeftOpen
    <3>4. Awaiting' /\ Leaving' /\ Connects'
      BY <1>3, <2>2, <3>1, <3>2 DEF Awaiting, Leaving, Connects
    <3>5. RoomFits'
      BY <2>2, <3>1 DEF RoomFits
    <3>6. StatusFits'
      <4>1. \E i \in joins' : Now(i)' /\ i.at = "token"
        BY <1>3, <3>2
      <4> QED
        BY <2>2, <4>1 DEF StatusFits
    <3> QED
      BY <3>3, <3>4, <3>5, <3>6 DEF Fits
  <2>6. NothingLeftOpen'
    BY <2>5 DEF NothingLeftOpen
  <2> QED
    BY <1>4, <2>3, <2>4, <2>5, <2>6 DEF SessionInvariant
<1>8. CASE store.room # Nothing
  <2> DEFINE l == [id |-> used.leaves + used.joins + 1, target |-> store.room, was |-> FALSE,
                   notify |-> TRUE, join |-> used.joins + 1, at |-> "audio"]
  <2>1. store' = RememberEnded(store) /\ joins' = joins \cup {k} /\ leaves' = leaves \cup {l}
    BY <1>8 DEF Join, StartLeave
  <2>2. l \in Leaves
    <3>1. used.joins + 1 \in 0..MaxJoins
      BY <1>1 DEF VoiceSessionAssumption
    <3> QED
      BY <1>1, <3>1, NewLeaveType
  <2>3. l.at = "audio" /\ l.target = store.room /\ l.join = used.joins + 1
    OBVIOUS
  <2> HIDE DEF k, l
  <2>4. store' \in Stores /\ store'.rooms = store.rooms
        /\ store'.status = store.status /\ store'.channel = store.channel
        /\ store'.room = store.room /\ store'.session = store.session
        /\ store'.contexts = store.contexts /\ store'.held = store.held
        /\ store'.listed = store.listed
    BY <1>1, <2>1 DEF RememberEnded, Stores
  <2>5. Numbered'
    <3>1. /\ \A i \in joins' : i = k \/ (i \in joins /\ i.id # k.id)
          /\ \A i \in leaves' : i = l \/ (i \in leaves /\ i.join # k.id)
      BY <1>3, <1>5, <2>1
    <3>2. l.join = k.id /\ k.at = "leaving" /\ k.id = used'.joins /\ used'.joins = used.joins + 1
      BY <1>2, <1>3, <2>3
    <3>3. \A i \in joins' : i.id <= used'.joins
      BY <1>5, <3>1, <3>2
    <3>4. \A i \in leaves' : i.join <= used'.joins /\ (i # l => i.join < used'.joins)
      BY <1>5, <3>1, <3>2
    <3>5. \A m, i \in leaves' : m.join = i.join => m.join = 0 \/ m = i
      BY <1>1, <3>1, <3>2 DEF Numbered
    <3>6. \A m \in leaves', i \in joins' : m.join = i.id => i.at = "leaving"
      BY <1>1, <3>1, <3>2 DEF Numbered
    <3>7. /\ \A h, i \in joins' : h.id = i.id => h = i
          /\ \A i \in joins' : Begun(i) => i.session <= store.session
          /\ \A h, i \in joins' : Begun(h) /\ Begun(i) /\ h.session = i.session => h = i
      BY <1>1, <3>1, <3>2 DEF Numbered
    <3> QED
      BY <2>4, <3>3, <3>4, <3>5, <3>6, <3>7 DEF Numbered
  <2>6. SessionTypeOK'
    BY <1>1, <1>2, <1>3, <1>4, <2>1, <2>2, <2>4 DEF SessionTypeOK
  <2>7. ASSUME ~raced'
        PROVE  NothingLeftOpen' /\ Fits'
    <3>1. /\ Fits /\ NothingLeftOpen /\ ~raced /\ leaves' = {l}
          /\ \A i \in joins : i.at # "token" \/ ~Now(i)
      BY <1>1, <1>6, <1>8, <2>1, <2>7 DEF Fits, Leaving, Awaiting, SessionTypeOK
    <3>2. /\ \A i \in joins : i \in joins' /\ Now(i)' = Now(i)
          /\ \A i \in joins' : i \in joins \/ i.at = "leaving"
      BY <1>3, <2>1, <2>4 DEF Now
    <3>3. NothingLeftOpen'
      BY <2>4, <3>1 DEF NothingLeftOpen
    <3>4. Awaiting' /\ Leaving' /\ Connects'
      BY <2>3, <2>4, <3>1, <3>2 DEF Fits, Awaiting, Leaving, Connects
    <3>5. RoomFits'
      BY <2>4, <3>1, <3>2 DEF Fits, RoomFits
    <3>6. StatusFits'
      <4>1. Unsettled => Unsettled'
        BY <1>8, <3>1, <3>2, <1>6, <2>7 DEF Unsettled
      <4> QED
        BY <2>4, <3>1, <3>2, <4>1 DEF Fits, StatusFits
    <3> QED
      BY <3>3, <3>4, <3>5, <3>6 DEF Fits
  <2>8. NothingLeftOpen'
    BY <2>7 DEF NothingLeftOpen
  <2> QED
    BY <1>4, <2>5, <2>6, <2>7, <2>8 DEF SessionInvariant
<1> QED
  BY <1>7, <1>8

-----------------------------------------------------------------------------
(* LiveKit's events and a moderator's removal *)

\* A handler that changes at most what is shown of the room that is held.
LEMMA ShownKeeps ==
    ASSUME SessionInvariant, UNCHANGED <<joins, leaves, removal>>, store' \in Stores,
           used' \in [joins : {used.joins}, leaves : {used.leaves}, upsets : 0..MaxFaults],
           raced' \in BOOLEAN, raced => raced',
           store'.rooms = store.rooms, store'.room = store.room,
           store'.session = store.session, store'.channel = store.channel,
           store'.contexts = store.contexts, store'.held = store.held,
           store'.ended = store.ended,
           ~raced' => /\ store.room = Nothing => store'.listed = store.listed
                      /\ store'.listed \in {store.listed, store.room}
                      /\ \/ store'.status = store.status
                         \/ store.room # Nothing /\ store'.status \in {"connected", "reconnecting"}
    PROVE  SessionInvariant'
<1>1. /\ used'.joins = used.joins
      /\ used' \in [joins : 0..MaxJoins, leaves : 0..MaxLeaves, upsets : 0..MaxFaults]
  BY DEF SessionInvariant, SessionTypeOK
<1>2. SessionTypeOK' /\ Numbered' /\ NothingLeftOpen'
  BY <1>1 DEF SessionInvariant, SessionTypeOK, Numbered, NothingLeftOpen
<1>3. RemovalFits'
  BY DEF SessionInvariant, RemovalFits, Removing
<1>4. ASSUME ~raced'
      PROVE  Fits'
  <2>1. Fits /\ \A i \in joins : Now(i)' = Now(i)
    BY <1>4 DEF SessionInvariant, Now
  <2>2. Awaiting' /\ Leaving' /\ Connects'
    BY <1>4, <2>1 DEF Fits, Awaiting, Leaving, Connects
  <2>3. RoomFits'
    BY <1>4, <2>1 DEF Fits, RoomFits
  <2>4. StatusFits'
    BY <1>4, <2>1 DEF Fits, StatusFits, Unsettled
  <2> QED
    BY <2>2, <2>3, <2>4 DEF Fits
<1> QED
  BY <1>2, <1>3, <1>4 DEF SessionInvariant

\* The room that is held is lost: what a lost connection leaves.
LEMMA DroppedFields ==
    ASSUME NEW s \in Stores, NEW r
    PROVE  LET d == Dropped(s, r) IN
           /\ d \in Stores /\ d.rooms = {q \in s.rooms : q.id # r.id}
           /\ s.room = r.id =>
                /\ d.status = "idle" /\ d.channel = Nothing /\ d.room = Nothing
                /\ d.session = s.session + 1 /\ d.held = Nothing
                /\ d.contexts = s.contexts \ {s.held} /\ d.listed = Nothing
                /\ d.ended = IF s.channel = Nothing THEN s.ended ELSE s.channel
           /\ s.room # r.id =>
                /\ d.session = s.session /\ d.contexts = s.contexts /\ d.held = s.held
                /\ d.room = s.room
<1> DEFINE a == Disconnected(s, r.id)
           b == RememberEnded(a)
           e == [b EXCEPT !.session = @ + 1, !.room = Nothing, !.listed = Nothing]
           c == Cleared(e, "idle")
<1>1. /\ a \in Stores /\ a.rooms = {q \in s.rooms : q.id # r.id} /\ a.status = s.status
      /\ a.channel = s.channel /\ a.room = s.room /\ a.session = s.session
      /\ a.held = s.held /\ a.contexts = s.contexts /\ a.ended = s.ended
  BY DEF Disconnected, Stores
<1> HIDE DEF a
<1>2. /\ b \in Stores /\ b.rooms = a.rooms /\ b.session = a.session /\ b.held = a.held
      /\ b.contexts = a.contexts
      /\ b.ended = IF a.channel = Nothing THEN a.ended ELSE a.channel
  BY <1>1 DEF RememberEnded, Stores
<1> HIDE DEF b
<1>3. /\ e \in Stores /\ e.rooms = b.rooms /\ e.session = b.session + 1 /\ e.held = b.held
      /\ e.contexts = b.contexts /\ e.ended = b.ended /\ e.room = Nothing /\ e.listed = Nothing
  <2>1. b.session + 1 \in Nat
    BY <1>2 DEF Stores
  <2> QED
    BY <1>2, <2>1 DEF Stores
<1> HIDE DEF e
<1>4. /\ c \in Stores /\ c.rooms = e.rooms /\ c.session = e.session /\ c.held = e.held
      /\ c.contexts = e.contexts /\ c.ended = e.ended /\ c.status = "idle"
      /\ c.channel = Nothing /\ c.room = Nothing /\ c.listed = Nothing
  BY <1>3 DEF Cleared, Stores, SessionStatuses
<1> HIDE DEF c
<1>5. Dropped(s, r) = IF s.room # r.id THEN a ELSE DestroyContexts(c)
  BY DEF Dropped, a, b, c, e
<1> QED
  BY <1>1, <1>2, <1>3, <1>4, <1>5, DestroyedFields

LEMMA DroppedKeeps ==
    ASSUME VoiceSessionAssumption, SessionInvariant, NEW r \in store.rooms,
           store' = Dropped(store, r), UNCHANGED <<joins, leaves, raced>>,
           used' \in [joins : {used.joins}, leaves : {used.leaves}, upsets : 0..MaxFaults],
           removal' \in Removals, removal'.state = removal.state,
           Removing => /\ removal'.event = removal.event /\ removal'.told = removal.told
                       /\ removal'.channel = removal.channel
    PROVE  SessionInvariant'
<1>1. /\ used'.joins = used.joins /\ SessionTypeOK /\ Numbered /\ store \in Stores
      /\ used' \in [joins : 0..MaxJoins, leaves : 0..MaxLeaves, upsets : 0..MaxFaults]
  BY DEF SessionInvariant, SessionTypeOK
<1>2. /\ store' \in Stores /\ store'.rooms = {q \in store.rooms : q.id # r.id}
      /\ store.room = r.id =>
            /\ store'.status = "idle" /\ store'.channel = Nothing /\ store'.room = Nothing
            /\ store'.session = store.session + 1 /\ store'.held = Nothing
            /\ store'.contexts = store.contexts \ {store.held} /\ store'.listed = Nothing
            /\ store'.ended = IF store.channel = Nothing THEN store.ended ELSE store.channel
      /\ store.room # r.id => store'.session = store.session
  <2>1. store' \in Stores /\ store'.rooms = {q \in store.rooms : q.id # r.id}
    BY <1>1, DroppedFields
  <2>2. CASE store.room = r.id
    <3> DEFINE d == Dropped(store, r)
    <3>1. /\ d.status = "idle" /\ d.channel = Nothing /\ d.room = Nothing
          /\ d.session = store.session + 1 /\ d.held = Nothing
          /\ d.contexts = store.contexts \ {store.held} /\ d.listed = Nothing
          /\ d.ended = IF store.channel = Nothing THEN store.ended ELSE store.channel
      BY <1>1, <2>2, DroppedFields
    <3>2. store' = d
      OBVIOUS
    <3> HIDE DEF d
    <3> QED
      BY <2>1, <2>2, <3>1, <3>2
  <2>3. CASE store.room # r.id
    BY <1>1, <2>1, <2>3, DroppedFields
  <2> QED
    BY <2>2, <2>3
<1>3. /\ store.session \in Nat /\ store'.session \in {store.session, store.session + 1}
      /\ \A i \in joins : i.session \in Nat /\ i.id # Nothing
  BY <1>1, <1>2 DEF SessionTypeOK, Stores, JoinCalls
<1>4. Numbered'
  BY <1>1, <1>3 DEF Numbered
<1>5. SessionTypeOK'
  BY <1>1, <1>2 DEF SessionTypeOK
<1>6. ASSUME ~raced
      PROVE  /\ Fits /\ NothingLeftOpen /\ store.room = r.id /\ store.room # Nothing
             /\ store.channel # Nothing
  <2>1. Fits /\ NothingLeftOpen /\ store.room = r.id /\ store.room # Nothing
        /\ r.channel = store.channel
    BY <1>6 DEF SessionInvariant, Fits, RoomFits, NothingLeftOpen
  <2>2. r.channel \in Channels
    BY <1>1 DEF Stores, Connections
  <2> QED
    BY <2>1, <2>2 DEF VoiceSessionAssumption
<1>7. RemovalFits'
  <2>1. Removing' => Removing
    BY DEF Removing
  <2>2. RemovalFits
    BY DEF SessionInvariant
  <2> QED
    BY <1>2, <1>6, <2>1, <2>2 DEF RemovalFits
<1>8. ASSUME ~raced
      PROVE  NothingLeftOpen' /\ Fits'
  <2>1. /\ store'.rooms = {} /\ store'.contexts = {} /\ store'.room = Nothing
        /\ store'.held = Nothing /\ store'.status = "idle" /\ store'.channel = Nothing
    BY <1>2, <1>6, <1>8 DEF NothingLeftOpen
  <2>2. \A i \in joins' : ~Now(i)' /\ i.id # Nothing
    BY <1>1, <1>2, <1>3, <1>6, <1>8 DEF Numbered, Now
  <2>3. NothingLeftOpen' /\ Awaiting' /\ Leaving' /\ Connects' /\ RoomFits'
    BY <2>1, <2>2 DEF NothingLeftOpen, Awaiting, Leaving, Connects, RoomFits
  <2>4. StatusFits'
    BY <2>1 DEF StatusFits
  <2> QED
    BY <2>3, <2>4 DEF Fits
<1>9. NothingLeftOpen'
  BY <1>8 DEF NothingLeftOpen
<1> QED
  BY <1>4, <1>5, <1>7, <1>8, <1>9 DEF SessionInvariant

\* The bounds allow a failure: the counter stays within them.
LEMMA UpsetType ==
    ASSUME VoiceSessionAssumption, SessionInvariant, Upset \/ UNCHANGED used
    PROVE  used' \in [joins : {used.joins}, leaves : {used.leaves}, upsets : 0..MaxFaults]
<1>1. used \in [joins : 0..MaxJoins, leaves : 0..MaxLeaves, upsets : 0..MaxFaults]
      /\ MaxFaults \in Nat
  BY DEF SessionInvariant, SessionTypeOK, VoiceSessionAssumption
<1>2. used' = used \/ (used.upsets < MaxFaults /\ used' = [used EXCEPT !.upsets = @ + 1])
  BY DEF Upset
<1> QED
  BY <1>1, <1>2

\* What LiveKit tells of a room.
LEMMA RoomEventKeeps ==
    ASSUME VoiceSessionAssumption, SessionInvariant, NEW r \in store.rooms,
           RoomDrops(r) \/ RoomReconnects(r) \/ Reconnected(r) \/ ParticipantsChange(r)
    PROVE  SessionInvariant'
<1>1. /\ store \in Stores /\ raced \in BOOLEAN /\ UNCHANGED <<joins, leaves, removal>>
      /\ used' \in [joins : {used.joins}, leaves : {used.leaves}, upsets : 0..MaxFaults]
  <2>1. Upset \/ UNCHANGED used
    BY DEF RoomDrops, RoomReconnects, Reconnected, ParticipantsChange
  <2> QED
    BY <2>1, UpsetType
       DEF RoomDrops, RoomReconnects, Reconnected, ParticipantsChange, SessionInvariant, SessionTypeOK
<1>2. r.up /\ (store.room = r.id /\ ~raced => store.room # Nothing)
  BY DEF RoomDrops, RoomReconnects, Reconnected, ParticipantsChange, SessionInvariant, Fits,
         RoomFits
<1>3. CASE RoomDrops(r)
  <2>1. store' = Dropped(store, r) /\ UNCHANGED raced /\ removal' \in Removals
    BY <1>1, <1>3 DEF RoomDrops, SessionInvariant, SessionTypeOK
  <2> QED
    BY <1>1, <2>1, DroppedKeeps
<1>4. CASE RoomReconnects(r)
  <2>1. store' = [store EXCEPT !.status = "reconnecting"]
        /\ raced' = (raced \/ store.room # r.id)
    BY <1>4 DEF RoomReconnects
  <2>2. /\ store' \in Stores /\ store'.status = "reconnecting"
        /\ store'.rooms = store.rooms /\ store'.room = store.room
        /\ store'.session = store.session /\ store'.channel = store.channel
        /\ store'.contexts = store.contexts /\ store'.held = store.held
        /\ store'.ended = store.ended /\ store'.listed = store.listed
    BY <1>1, <2>1 DEF Stores, SessionStatuses
  <2> QED
    BY <1>1, <1>2, <2>1, <2>2, ShownKeeps
<1>5. CASE Reconnected(r)
  <2> DEFINE s == [store EXCEPT !.status = "connected"]
  <2>1. UNCHANGED raced /\ store' = IF store.room = r.id THEN Synced(s) ELSE store
    BY <1>5 DEF Reconnected
  <2>3. /\ s \in Stores /\ s.status = "connected" /\ s.rooms = store.rooms
        /\ s.room = store.room /\ s.session = store.session /\ s.channel = store.channel
        /\ s.contexts = store.contexts /\ s.held = store.held /\ s.ended = store.ended
        /\ s.listed = store.listed
    BY <1>1 DEF Stores, SessionStatuses
  <2> HIDE DEF s
  <2>2. /\ store' \in Stores /\ store'.rooms = store.rooms /\ store'.room = store.room
        /\ store'.session = store.session /\ store'.channel = store.channel
        /\ store'.contexts = store.contexts /\ store'.held = store.held
        /\ store'.ended = store.ended
        /\ IF store.room = r.id
           THEN store'.status = "connected"
                /\ store'.listed = (IF store.room = Nothing THEN store.listed ELSE store.room)
           ELSE store'.status = store.status /\ store'.listed = store.listed
    BY <1>1, <2>1, <2>3 DEF Stores, Synced
  <2> QED
    BY <1>1, <1>2, <2>1, <2>2, ShownKeeps
<1>6. CASE ParticipantsChange(r)
  <2>1. store' \in {store, Synced(store)} /\ UNCHANGED raced
    BY <1>6 DEF ParticipantsChange
  <2>2. /\ store' \in Stores /\ store'.rooms = store.rooms /\ store'.room = store.room
        /\ store'.session = store.session /\ store'.channel = store.channel
        /\ store'.contexts = store.contexts /\ store'.held = store.held
        /\ store'.ended = store.ended /\ store'.status = store.status
        /\ store'.listed \in {store.listed, IF store.room = Nothing THEN store.listed ELSE store.room}
    BY <1>1, <2>1 DEF Stores, Synced
  <2> QED
    BY <1>1, <2>1, <2>2, ShownKeeps
<1> QED
  BY <1>3, <1>4, <1>5, <1>6

\* A removal begins about the room that is held, or about one already left.
LEMMA ModeratorRemovesKeeps ==
    ASSUME VoiceSessionAssumption, SessionInvariant, NEW r \in store.rooms, ModeratorRemoves(r)
    PROVE  SessionInvariant'
<1>1. /\ Upset /\ UNCHANGED <<store, joins, leaves, raced>> /\ store \in Stores
      /\ r.id \in Nat /\ r.channel \in Channels
  BY DEF ModeratorRemoves, SessionInvariant, SessionTypeOK, Stores, Connections
<1>2. used' \in [joins : {used.joins}, leaves : {used.leaves}, upsets : 0..MaxFaults]
  BY <1>1, UpsetType
<1>3. PICK state \in {"clean", "past"} :
        /\ removal' = [state |-> state, channel |-> r.channel, event |-> TRUE, drop |-> TRUE,
                       room |-> r.id, told |-> 0]
        /\ state = "clean" => joins = {} /\ leaves = {}
  BY DEF ModeratorRemoves
<1>4. removal' \in Removals
  BY <1>1, <1>3 DEF Removals
<1>5. ~raced => r.channel = store.channel
  BY DEF SessionInvariant, Fits, RoomFits
<1>6. RemovalFits'
  BY <1>1, <1>3, <1>5 DEF RemovalFits
<1>7. SessionTypeOK' /\ Numbered' /\ NothingLeftOpen'
  BY <1>1, <1>2, <1>4 DEF SessionInvariant, SessionTypeOK, Numbered, NothingLeftOpen
<1>8. ~raced => Fits'
  BY <1>1 DEF SessionInvariant, Fits, Awaiting, Leaving, Connects, RoomFits, StatusFits,
              Unsettled, Now
<1> QED
  BY <1>1, <1>6, <1>7, <1>8 DEF SessionInvariant

LEMMA RemovalDropsKeeps ==
    ASSUME VoiceSessionAssumption, SessionInvariant, RemovalDrops
    PROVE  SessionInvariant'
<1> DEFINE mine == {r \in store.rooms : r.id = removal.room}
<1>1. /\ Removing /\ UNCHANGED <<joins, leaves, used, raced>>
      /\ removal' = [removal EXCEPT !.drop = FALSE]
      /\ store' = IF mine = {} THEN store ELSE Dropped(store, CHOOSE r \in mine : TRUE)
  BY DEF RemovalDrops
<1>2. used' \in [joins : {used.joins}, leaves : {used.leaves}, upsets : 0..MaxFaults]
  BY <1>1, UpsetType
<1>3. /\ removal' \in Removals /\ removal'.state = removal.state
      /\ removal'.event = removal.event /\ removal'.told = removal.told
      /\ removal'.channel = removal.channel
  <2>1. removal \in [state : {"clean", "past"}, channel : Channels, event : BOOLEAN,
                     drop : BOOLEAN, room : Nat, told : Nat]
    BY <1>1 DEF SessionInvariant, SessionTypeOK, Removals, Removing
  <2> QED
    BY <1>1, <2>1 DEF Removals
<1>4. CASE mine = {}
  <2>1. UNCHANGED store
    BY <1>1, <1>4
  <2>2. SessionTypeOK' /\ Numbered' /\ NothingLeftOpen'
    BY <1>1, <1>3, <2>1 DEF SessionInvariant, SessionTypeOK, Numbered, NothingLeftOpen
  <2>3. RemovalFits'
    BY <1>1, <1>3, <2>1 DEF SessionInvariant, RemovalFits, Removing
  <2>4. ASSUME ~raced
        PROVE  Fits'
    <3>1. Fits /\ \A j : Now(j)' = Now(j)
      BY <2>1, <2>4 DEF SessionInvariant, Now
    <3>2. Awaiting' /\ Leaving' /\ Connects'
      BY <1>1, <2>1, <3>1 DEF Fits, Awaiting, Leaving, Connects
    <3>3. RoomFits' /\ StatusFits'
      BY <1>1, <2>1, <3>1 DEF Fits, RoomFits, StatusFits, Unsettled
    <3> QED
      BY <3>2, <3>3 DEF Fits
  <2> QED
    BY <1>1, <2>2, <2>3, <2>4 DEF SessionInvariant
<1>5. CASE mine # {}
  <2>1. PICK r \in store.rooms : store' = Dropped(store, r)
    BY <1>1, <1>5
  <2> QED
    BY <1>1, <1>2, <1>3, <2>1, DroppedKeeps
<1> QED
  BY <1>4, <1>5

LEMMA RemovalToldKeeps ==
    ASSUME VoiceSessionAssumption, SessionInvariant, RemovalTold
    PROVE  SessionInvariant'
<1> DEFINE matches == Matches(store, removal.channel)
<1>1. /\ Removing /\ removal.event /\ UNCHANGED <<joins, leaves, used, raced>>
      /\ removal' = [removal EXCEPT !.event = FALSE, !.told = @ + IF matches THEN 1 ELSE 0]
      /\ store' = IF matches THEN [store EXCEPT !.ended = Nothing] ELSE store
      /\ store \in Stores
  BY DEF RemovalTold, SessionInvariant, SessionTypeOK
<1>2. removal \in [state : {"clean", "past"}, channel : Channels, event : BOOLEAN,
                   drop : BOOLEAN, room : Nat, told : Nat]
  BY <1>1 DEF SessionInvariant, SessionTypeOK, Removals, Removing
<1>3. removal.told = 0
  BY <1>1 DEF SessionInvariant, RemovalFits
<1>4. /\ removal' \in Removals /\ removal'.state = removal.state
      /\ removal'.event = FALSE /\ removal'.told = IF matches THEN 1 ELSE 0
  <2> DEFINE n == IF matches THEN 1 ELSE 0
  <2>1. removal.told + n = n /\ n \in Nat
    BY <1>3
  <2> HIDE DEF matches, n
  <2>2. removal' = [removal EXCEPT !.event = FALSE, !.told = n]
    BY <1>1, <2>1 DEF n
  <2> QED
    BY <1>2, <2>1, <2>2 DEF Removals, n
<1>5. /\ store' \in Stores /\ store'.rooms = store.rooms
      /\ store'.status = store.status /\ store'.channel = store.channel
      /\ store'.room = store.room /\ store'.session = store.session
      /\ store'.contexts = store.contexts /\ store'.held = store.held
      /\ store'.listed = store.listed
  BY <1>1 DEF Stores
<1>6. removal.state = "clean" /\ ~raced => matches
  BY <1>1 DEF SessionInvariant, RemovalFits, Matches
<1>7. RemovalFits'
  BY <1>1, <1>4, <1>6 DEF SessionInvariant, RemovalFits
<1>8. SessionTypeOK' /\ Numbered' /\ NothingLeftOpen'
  BY <1>1, <1>4, <1>5 DEF SessionInvariant, SessionTypeOK, Numbered, NothingLeftOpen
<1>9. ~raced => Fits'
  BY <1>1, <1>5 DEF SessionInvariant, Fits, Awaiting, Leaving, Connects, RoomFits, StatusFits,
                    Unsettled, Now
<1> QED
  BY <1>1, <1>7, <1>8, <1>9 DEF SessionInvariant

LEMMA EndedForgottenKeeps ==
    ASSUME SessionInvariant, EndedForgotten
    PROVE  SessionInvariant'
<1>1. /\ UNCHANGED <<joins, leaves, used, raced>> /\ store \in Stores
      /\ store' = [store EXCEPT !.ended = Nothing]
      /\ removal' = [removal EXCEPT !.state = IF @ = "clean" THEN "past" ELSE @]
  BY DEF EndedForgotten, SessionInvariant, SessionTypeOK
<1>2. /\ store' \in Stores /\ store'.rooms = store.rooms
      /\ store'.status = store.status /\ store'.channel = store.channel
      /\ store'.room = store.room /\ store'.session = store.session
      /\ store'.contexts = store.contexts /\ store'.held = store.held
      /\ store'.listed = store.listed
  BY <1>1 DEF Stores
<1>3. removal' \in Removals /\ RemovalFits'
  BY <1>1, UserDisturbs
<1>4. SessionTypeOK' /\ Numbered' /\ NothingLeftOpen'
  BY <1>1, <1>2, <1>3 DEF SessionInvariant, SessionTypeOK, Numbered, NothingLeftOpen
<1>5. ~raced => Fits'
  BY <1>1, <1>2 DEF SessionInvariant, Fits, Awaiting, Leaving, Connects, RoomFits, StatusFits,
                    Unsettled, Now
<1> QED
  BY <1>1, <1>3, <1>4, <1>5 DEF SessionInvariant

-----------------------------------------------------------------------------
(* The invariant of every behaviour *)

LEMMA Initially ==
    ASSUME VoiceSessionAssumption, SessionInit
    PROVE  SessionInvariant
<1>1. store \in Stores /\ store.room = Nothing /\ store.rooms = {} /\ store.contexts = {}
      /\ store.held = Nothing /\ store.status = "idle" /\ store.channel = Nothing
  BY DEF SessionInit, Stores, SessionStatuses
<1>2. removal \in Removals /\ ~Removing
  BY DEF SessionInit, Removals, Removing
<1>3. used \in [joins : 0..MaxJoins, leaves : 0..MaxLeaves, upsets : 0..MaxFaults]
  BY DEF SessionInit, VoiceSessionAssumption
<1>4. SessionTypeOK /\ Numbered /\ RemovalFits /\ NothingLeftOpen
  BY <1>1, <1>2, <1>3 DEF SessionInit, SessionTypeOK, Numbered, RemovalFits, NothingLeftOpen
<1>5. Fits
  BY <1>1 DEF SessionInit, Fits, Awaiting, Leaving, Connects, RoomFits, StatusFits
<1> QED
  BY <1>4, <1>5 DEF SessionInvariant

LEMMA Inductive ==
    ASSUME VoiceSessionAssumption, SessionInvariant, [SessionNext]_vsVars
    PROVE  SessionInvariant'
<1>1. CASE Answers
  <2>1. ASSUME NEW j \in joins,
               JoinTokenAnswered(j) \/ RoomConnected(j) \/ PreferencesApplied(j)
               \/ Refreshed(j) \/ AttemptFails(j) \/ JoinFailed(j)
        PROVE  SessionInvariant'
    BY <2>1, TokenAnsweredKeeps, ConnectAnsweredKeeps, PreferencesAppliedKeeps, RefreshedKeeps,
       JoinFailsKeeps, JoinFailedKeeps
  <2>2. ASSUME NEW l \in leaves,
               AudioStopped(l) \/ ContextsClosed(l) \/ \E ok \in BOOLEAN : LeavePosted(l, ok)
        PROVE  SessionInvariant'
    BY <2>2, AudioStoppedKeeps, ContextsClosedKeeps, LeavePostedKeeps
  <2> QED
    BY <1>1, <2>1, <2>2 DEF Answers
<1>2. CASE LiveKit
  BY <1>2, RoomEventKeeps, ModeratorRemovesKeeps, RemovalDropsKeeps, RemovalToldKeeps,
     EndedForgottenKeeps DEF LiveKit
<1>3. CASE UserActs
  BY <1>3, JoinKeeps, LeaveKeeps DEF UserActs
<1>4. CASE UNCHANGED vsVars
  BY <1>4 DEF vsVars, SessionInvariant, SessionTypeOK, Numbered, RemovalFits, Removing, NothingLeftOpen,
              Fits, Awaiting, Leaving, Connects, RoomFits, StatusFits, Unsettled, Now
<1> QED
  BY <1>1, <1>2, <1>3, <1>4 DEF SessionNext

\* With nothing under way the panel has settled.
LEMMA AtRestAgrees == SessionInvariant => PanelAgrees
<1> SUFFICES ASSUME SessionInvariant, AtRest, ~raced
             PROVE  IF store.status \in {"connected", "reconnecting"}
                    THEN /\ store.listed = store.room
                         /\ \E r \in store.rooms :
                              r.id = store.room /\ r.up /\ r.channel = store.channel
                    ELSE store.room = Nothing /\ store.channel = Nothing
  BY DEF PanelAgrees
<1>1. joins = {} /\ leaves = {} /\ StatusFits /\ RoomFits /\ store \in Stores
  BY DEF SessionInvariant, Fits, AtRest, SessionTypeOK
<1>2. store.status \in SessionStatuses /\ \A r \in store.rooms : r.up \in BOOLEAN
  BY <1>1 DEF Stores, Connections
<1>3. store.status # "connecting"
  BY <1>1 DEF StatusFits, Unsettled
<1>4. CASE store.status \in {"connected", "reconnecting"}
  <2>1. store.rooms # {}
    BY <1>1, <1>4 DEF StatusFits, Unsettled, RoomFits
  <2>2. \A r \in store.rooms : r.id = store.room /\ r.channel = store.channel /\ r.up
                               /\ store.listed = store.room
    BY <1>1, <1>2 DEF RoomFits
  <2> QED
    BY <1>4, <2>1, <2>2
<1>5. CASE store.status \in {"idle", "error"}
  BY <1>1, <1>5 DEF StatusFits
<1> QED
  BY <1>2, <1>3, <1>4, <1>5 DEF SessionStatuses

\* However joins, leaves, failures, drops, reconnects and a moderator's removal
\* overlap, but for the overlaps "raced" records: no LiveKit connection and no
\* audio context is left open behind the store's back; once nothing is under
\* way the panel shows the connection there is; and a removal is told once.
THEOREM SessionAlwaysAgrees ==
    ASSUME VoiceSessionAssumption
    PROVE  SessionSpec => []SessionAgrees
<1>1. SessionInit => SessionInvariant
  BY Initially
<1>2. SessionInvariant /\ [SessionNext]_vsVars => SessionInvariant'
  BY Inductive
<1>3. SessionInvariant => SessionAgrees
  <2>1. SessionInvariant => RemovalToldOnce
    BY DEF SessionInvariant, RemovalFits, RemovalToldOnce
  <2> QED
    BY <2>1, AtRestAgrees DEF SessionInvariant, SessionAgrees
<1> QED
  BY <1>1, <1>2, <1>3, PTL DEF SessionSpec
=============================================================================
