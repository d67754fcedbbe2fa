-------------------------- MODULE OnlineTime_proofs --------------------------
(***************************************************************************)
(* The accounting of online time for any number of accounts, any length of  *)
(* a second and of a flush interval, and any run of the hub:                *)
(* internal/httpapi/hub.go never credits more than was spent online, and    *)
(* what it loses is bounded.                                                *)
(*                                                                         *)
(* Three things make the two properties inductive.  An interval is held     *)
(* exactly for the accounts with a socket, except after the shutdown has    *)
(* settled them (Held); it never holds more than the time since the last    *)
(* flush and a part of a second, and the flush is not late (Recent); and    *)
(* once the process is about to exit, what the new intervals hold counts    *)
(* as lost already (Closing).                                               *)
(***************************************************************************)
EXTENDS OnlineTime, TLAPS

\* What an account may have lost.
Lost(u) ==   (PerSecond - 1) * settled[u] + (Interval + PerSecond - 1) * crashes[u]
           + unwritten[u] * PerSecond + leaked[u]

Typed ==
    /\ now \in Nat /\ flushed \in Nat /\ flushed <= now /\ closing \in BOOLEAN
    /\ counts \in [Users -> Nat] /\ online \in [Users -> Intervals]
    /\ stored \in [Users -> Nat] /\ spent \in [Users -> Nat] /\ settled \in [Users -> Nat]
    /\ crashes \in [Users -> Nat] /\ unwritten \in [Users -> Nat] /\ leaked \in [Users -> Nat]

Held ==
    \A u \in Users :
        /\ online[u].on => counts[u] > 0 /\ online[u].since <= now
        /\ ~closing /\ counts[u] > 0 => online[u].on

Recent ==
    ~closing =>
        /\ now <= flushed + Interval
        /\ \A u \in Users : Pending(online[u]) <= now - flushed + PerSecond - 1

Closing == closing => \A u \in Users : spent[u] - stored[u] * PerSecond <= Lost(u)

IInv == Typed /\ Held /\ Recent /\ Closing /\ NeverOvercredited /\ LossBounded

-----------------------------------------------------------------------------
(* The arithmetic. *)

\* Whole seconds of a time, and what is left of it.
LEMMA SecondsFacts ==
  ASSUME TimeAssumption, NEW n \in Nat
  PROVE  /\ WholeSeconds(n) \in Nat
         /\ WholeSeconds(n) * PerSecond <= n
         /\ n - WholeSeconds(n) * PerSecond <= PerSecond - 1
  BY SMT DEF WholeSeconds, TimeAssumption

\* The parts of an interval.
LEMMA IntervalFacts ==
  ASSUME Typed, NEW u \in Users
  PROVE  online[u].on \in BOOLEAN /\ online[u].since \in Nat /\ online[u].accum \in Nat
  BY DEF Typed, Intervals

\* An interval's pending time is a natural number.
LEMMA PendingFacts ==
  ASSUME Typed, Held, NEW u \in Users
  PROVE  Pending(online[u]) \in Nat
  BY SMT DEF Typed, Held, Pending, Intervals

\* What one account's numbers mean: both properties, for it.
LEMMA PerAccount ==
  ASSUME TimeAssumption, Typed, Held, NEW u \in Users
  PROVE  /\ Credit(u) = stored[u] * PerSecond + Pending(online[u])
         /\ Credit(u) \in Nat /\ Lost(u) \in Nat
         /\ stored[u] * PerSecond \in Nat
  <1>1. Pending(online[u]) \in Nat
    BY PendingFacts
  <1>2. stored[u] \in Nat /\ settled[u] \in Nat /\ crashes[u] \in Nat /\ unwritten[u] \in Nat
        /\ leaked[u] \in Nat
    BY DEF Typed
  <1>3. PerSecond \in Nat \ {0} /\ Interval \in Nat
    BY DEF TimeAssumption
  <1> QED
    BY <1>1, <1>2, <1>3, SMT DEF Credit, Lost

-----------------------------------------------------------------------------
\* The hub starts with nothing.
LEMMA Initially == TimeAssumption /\ Init => IInv
<1> SUFFICES ASSUME TimeAssumption, Init PROVE IInv
  OBVIOUS
<1>1. Typed
  <2>1. Offline \in Intervals
    BY DEF Offline, Intervals
  <2>2. online \in [Users -> Intervals]
    BY <2>1 DEF Init
  <2>3. closing \in BOOLEAN
    BY DEF Init
  <2>4. now \in Nat /\ flushed \in Nat /\ flushed <= now
    BY DEF Init
  <2>5. [u \in Users |-> 0] \in [Users -> Nat]
    OBVIOUS
  <2> QED
    BY <2>2, <2>3, <2>4, <2>5, Zenon DEF Init, Typed
<1>2. Held
  BY DEF Init, Held, Offline
<1>3. \A u \in Users : /\ Pending(online[u]) = 0 /\ spent[u] = 0 /\ stored[u] = 0 /\ settled[u] = 0
                       /\ crashes[u] = 0 /\ unwritten[u] = 0 /\ leaked[u] = 0
  BY DEF Init, Pending, Offline
<1>4. now = 0 /\ flushed = 0 /\ ~closing /\ PerSecond \in Nat \ {0} /\ Interval \in Nat
  BY DEF Init, TimeAssumption
<1>5. Recent
  BY <1>3, <1>4 DEF Recent
<1>6. Closing
  BY <1>4 DEF Closing
<1>7. NeverOvercredited /\ LossBounded
  BY <1>3, <1>4, SMT DEF NeverOvercredited, LossBounded, Credit
<1> QED
  BY <1>1, <1>2, <1>5, <1>6, <1>7 DEF IInv

-----------------------------------------------------------------------------
\* Time goes by.
LEMMA TickStep == TimeAssumption /\ IInv /\ Tick => IInv'
<1> SUFFICES ASSUME TimeAssumption, IInv, Tick PROVE IInv'
  OBVIOUS
<1>1. Typed /\ Held /\ Recent /\ Closing /\ NeverOvercredited /\ LossBounded
  BY DEF IInv
<1>2. PerSecond \in Nat \ {0} /\ Interval \in Nat
  BY DEF TimeAssumption
<1>3. /\ now' = now + 1 /\ (now < flushed + Interval \/ closing)
      /\ UNCHANGED <<flushed, counts, online, stored, closing, settled, crashes, unwritten>>
  BY DEF Tick
<1>4. \A u \in Users : /\ spent'[u] = IF counts[u] > 0 THEN spent[u] + 1 ELSE spent[u]
                       /\ leaked'[u] = IF counts[u] > 0 /\ closing THEN leaked[u] + 1 ELSE leaked[u]
  BY DEF Tick
<1>5. Typed'
  <2>1. spent' \in [Users -> Nat] /\ leaked' \in [Users -> Nat]
    BY <1>1 DEF Tick, Typed
  <2> QED
    BY <1>1, <1>3, <2>1 DEF Typed
<1>6. Held'
  BY <1>1, <1>3 DEF Held, Typed, Intervals
<1>7. ASSUME NEW u \in Users
      PROVE  (Pending(online[u]))' = Pending(online[u]) + (IF online[u].on THEN 1 ELSE 0)
  <2>1. online[u].since \in Nat /\ online[u].accum \in Nat /\ now \in Nat
    BY <1>1, IntervalFacts DEF Typed
  <2>2. now' = now + 1 /\ online' = online
    BY <1>3
  <2>3. CASE online[u].on
    BY <2>1, <2>2, <2>3 DEF Pending
  <2>4. CASE ~online[u].on
    BY <2>2, <2>4 DEF Pending
  <2> QED
    BY <2>3, <2>4
<1>8. Recent'
  BY <1>1, <1>2, <1>3, <1>7, PendingFacts DEF Recent, Typed
<1>9. ASSUME NEW u \in Users
      PROVE  /\ (Credit(u))' <= spent'[u]
             /\ spent'[u] - (Credit(u))' <= (Lost(u))'
             /\ closing' => spent'[u] - stored'[u] * PerSecond <= (Lost(u))'
  <2>1. /\ Credit(u) \in Nat /\ Lost(u) \in Nat /\ stored[u] * PerSecond \in Nat
        /\ Credit(u) = stored[u] * PerSecond + Pending(online[u])
        /\ Pending(online[u]) \in Nat /\ spent[u] \in Nat
    BY <1>1, PerAccount, PendingFacts DEF Typed
  <2>2. (Credit(u))' = Credit(u) + (IF online[u].on THEN 1 ELSE 0)
    BY <1>3, <1>7, <2>1 DEF Credit
  <2>3. (Lost(u))' = Lost(u) + (IF counts[u] > 0 /\ closing THEN 1 ELSE 0)
    <3>1. (Lost(u))' = Lost(u) - leaked[u] + leaked'[u]
      BY <1>1, <1>2, <1>3, <1>5, SMT DEF Lost, Typed
    <3> QED
      BY <3>1, <1>1, <1>4, <2>1 DEF Typed
  <2>4. /\ Credit(u) <= spent[u] /\ spent[u] - Credit(u) <= Lost(u)
        /\ closing => spent[u] - stored[u] * PerSecond <= Lost(u)
        /\ online[u].on => counts[u] > 0
        /\ ~closing /\ counts[u] > 0 => online[u].on
    BY <1>1 DEF NeverOvercredited, LossBounded, Lost, Closing, Held
  <2> QED
    BY <1>3, <1>4, <2>1, <2>2, <2>3, <2>4
<1> QED
  BY <1>5, <1>6, <1>8, <1>9 DEF IInv, Closing, NeverOvercredited, LossBounded, Lost
-----------------------------------------------------------------------------
\* A socket more or less.
LEMMA SocketStep ==
  TimeAssumption /\ IInv /\ (\E u \in Users : ComeOnline(u) \/ LoseSocket(u)) => IInv'
<1> SUFFICES ASSUME TimeAssumption, IInv, NEW v \in Users, ComeOnline(v) \/ LoseSocket(v)
             PROVE  IInv'
  OBVIOUS
<1>1. Typed /\ Held /\ Recent /\ Closing /\ NeverOvercredited /\ LossBounded
  BY DEF IInv
<1>2. PerSecond \in Nat \ {0} /\ Interval \in Nat
  BY DEF TimeAssumption
<1>3. UNCHANGED <<now, flushed, stored, closing, spent, settled, crashes, unwritten, leaked>>
  BY DEF ComeOnline, LoseSocket, history
<1>4. counts' \in [Users -> Nat]
  <2>1. CASE ComeOnline(v)
    BY <1>1, <2>1 DEF ComeOnline, Typed
  <2>2. CASE LoseSocket(v)
    BY <1>1, <2>2 DEF LoseSocket, Typed
  <2> QED
    BY <2>1, <2>2
<1>5. \A u \in Users : \/ u # v /\ online'[u] = online[u] /\ counts'[u] = counts[u]
                       \/ u = v /\ online'[u] = online[u] /\ counts[u] > 0 /\ counts'[u] > 0
                       \/ /\ u = v /\ counts[u] = 0 /\ counts'[u] = 1
                          /\ online'[u] = [on |-> TRUE, since |-> now, accum |-> 0]
  <2>1. CASE ComeOnline(v)
    BY <1>1, <2>1 DEF ComeOnline, Started, Typed
  <2>2. CASE LoseSocket(v)
    BY <1>1, <2>2 DEF LoseSocket, Typed
  <2> QED
    BY <2>1, <2>2
<1>6. online' \in [Users -> Intervals]
  <2>1. [on |-> TRUE, since |-> now, accum |-> 0] \in Intervals
    BY <1>1 DEF Typed, Intervals
  <2>2. CASE ComeOnline(v)
    BY <1>1, <2>1, <2>2 DEF ComeOnline, Typed
  <2>3. CASE LoseSocket(v)
    BY <1>1, <2>3 DEF LoseSocket, Typed
  <2> QED
    BY <2>2, <2>3
<1>7. Typed'
  BY <1>1, <1>3, <1>4, <1>6 DEF Typed
<1>8. Held'
  BY <1>1, <1>3, <1>5 DEF Held, Typed
<1>9. ASSUME NEW u \in Users PROVE (Pending(online[u]))' = Pending(online[u])
  <2>1. CASE online'[u] = online[u]
    BY <1>3, <2>1 DEF Pending
  <2>2. CASE counts[u] = 0 /\ online'[u] = [on |-> TRUE, since |-> now, accum |-> 0]
    <3>1. Pending(online[u]) = 0
      BY <1>1, <2>2 DEF Pending, Held
    <3>2. Pending(online[u])' = 0
      BY <1>1, <1>3, <2>2 DEF Pending, Typed
    <3> QED
      BY <3>1, <3>2
  <2> QED
    BY <1>5, <2>1, <2>2
<1>10. Recent'
  BY <1>1, <1>3, <1>9 DEF Recent
<1>11. Closing' /\ NeverOvercredited' /\ LossBounded'
  BY <1>1, <1>3, <1>9 DEF Closing, NeverOvercredited, LossBounded, Lost, Credit
<1> QED
  BY <1>7, <1>8, <1>10, <1>11 DEF IInv

-----------------------------------------------------------------------------
\* The process ends, after a shutdown or by a crash.
LEMMA ExitStep == TimeAssumption /\ IInv /\ Exit => IInv'
<1> SUFFICES ASSUME TimeAssumption, IInv, Exit PROVE IInv'
  OBVIOUS
<1>1. Typed /\ Held /\ Recent /\ Closing /\ NeverOvercredited /\ LossBounded
  BY DEF IInv
<1>2. PerSecond \in Nat \ {0} /\ Interval \in Nat
  BY DEF TimeAssumption
<1>3. /\ closing' = FALSE /\ flushed' = now
      /\ UNCHANGED <<now, stored, spent, settled, unwritten, leaked>>
  BY DEF Exit
<1>4. \A u \in Users : /\ counts'[u] = 0 /\ online'[u] = Offline
                       /\ crashes'[u] = IF Pending(online[u]) > 0 /\ ~closing
                                          THEN crashes[u] + 1 ELSE crashes[u]
  BY DEF Exit
<1>5. Typed'
  <2>1. counts' \in [Users -> Nat] /\ crashes' \in [Users -> Nat]
    BY <1>1 DEF Exit, Typed
  <2>2. online' \in [Users -> Intervals]
    <3>1. Offline \in Intervals
      BY DEF Offline, Intervals
    <3> QED
      BY <3>1 DEF Exit
  <2>3. /\ now' \in Nat /\ flushed' \in Nat /\ flushed' <= now'
        /\ stored' \in [Users -> Nat] /\ spent' \in [Users -> Nat] /\ settled' \in [Users -> Nat]
        /\ unwritten' \in [Users -> Nat] /\ leaked' \in [Users -> Nat]
    BY <1>1, <1>3 DEF Typed
  <2>4. closing' \in BOOLEAN
    BY <1>3
  <2> QED
    BY <2>1, <2>2, <2>3, <2>4, Zenon DEF Typed
<1>6. Held'
  BY <1>3, <1>4 DEF Held, Offline
<1>7. \A u \in Users : (Pending(online[u]))' = 0
  BY <1>4 DEF Pending, Offline
<1>8. Recent'
  BY <1>1, <1>2, <1>3, <1>7 DEF Recent, Typed
<1>9. ASSUME NEW u \in Users
      PROVE  (Credit(u))' <= spent'[u] /\ spent'[u] - (Credit(u))' <= (Lost(u))'
  <2>1. /\ Credit(u) \in Nat /\ Lost(u) \in Nat /\ stored[u] * PerSecond \in Nat
        /\ Credit(u) = stored[u] * PerSecond + Pending(online[u])
        /\ Pending(online[u]) \in Nat /\ spent[u] \in Nat
    BY <1>1, PerAccount, PendingFacts DEF Typed
  <2>2. (Credit(u))' = stored[u] * PerSecond
    BY <1>3, <1>7, <2>1 DEF Credit
  <2>3. /\ Credit(u) <= spent[u] /\ spent[u] - Credit(u) <= Lost(u)
        /\ closing => spent[u] - stored[u] * PerSecond <= Lost(u)
    BY <1>1 DEF NeverOvercredited, LossBounded, Lost, Closing
  <2>4. CASE Pending(online[u]) > 0 /\ ~closing
    <3>1. (Lost(u))' = Lost(u) + (Interval + PerSecond - 1)
      <4>1. crashes[u] \in Nat /\ crashes'[u] = crashes[u] + 1
        BY <1>1, <1>4, <2>4 DEF Typed
      <4>2. /\ settled[u] \in Nat /\ unwritten[u] \in Nat /\ leaked[u] \in Nat
            /\ settled'[u] = settled[u] /\ unwritten'[u] = unwritten[u] /\ leaked'[u] = leaked[u]
        BY <1>1, <1>3 DEF Typed
      <4> QED
        BY <1>2, <4>1, <4>2, SMT DEF Lost
    <3>2. Pending(online[u]) <= Interval + PerSecond - 1
      BY <1>1, <1>2, <2>1, <2>4 DEF Recent, Typed
    <3> QED
      BY <1>2, <1>3, <2>1, <2>2, <2>3, <3>1, <3>2
  <2>5. CASE ~(Pending(online[u]) > 0 /\ ~closing)
    <3>1. (Lost(u))' = Lost(u)
      BY <1>3, <1>4, <2>5 DEF Lost
    <3> QED
      BY <1>3, <2>1, <2>2, <2>3, <2>5, <3>1
  <2> QED
    BY <2>4, <2>5
<1> QED
  BY <1>3, <1>5, <1>6, <1>8, <1>9 DEF IInv, Closing, NeverOvercredited, LossBounded, Lost
-----------------------------------------------------------------------------
\* What writing the due seconds of some accounts does to one of them.
LEMMA PersistFacts ==
  ASSUME TimeAssumption, Typed, Held, NEW us, NEW failed, Persist(us, Due, failed), NEW u \in Users
  PROVE  LET w == WholeSeconds(Pending(online[u])) IN
         /\ stored'[u] \in Nat /\ unwritten'[u] \in Nat
         /\ \/ u \in us /\ stored'[u] = stored[u] + w /\ unwritten'[u] = unwritten[u]
            \/ u \in us /\ stored'[u] = stored[u] /\ unwritten'[u] = unwritten[u] + w
            \/ u \notin us /\ stored'[u] = stored[u] /\ unwritten'[u] = unwritten[u]
<1> DEFINE w == WholeSeconds(Pending(online[u]))
<1>1. w \in Nat /\ stored[u] \in Nat /\ unwritten[u] \in Nat
  BY PendingFacts, SecondsFacts DEF Typed
<1>2. Due[u] = w
  BY DEF Due
<1>3. stored'[u] = IF u \in us \ failed THEN stored[u] + w ELSE stored[u]
  BY <1>2 DEF Persist
<1>4. unwritten'[u] = IF u \in us \cap failed THEN unwritten[u] + w ELSE unwritten[u]
  BY <1>2 DEF Persist
<1> QED
  BY <1>1, <1>3, <1>4

\* The written seconds and those that failed keep their types.
LEMMA PersistTypes ==
  ASSUME TimeAssumption, Typed, Held, NEW us, NEW failed, Persist(us, Due, failed)
  PROVE  stored' \in [Users -> Nat] /\ unwritten' \in [Users -> Nat]
<1>1. \A u \in Users : stored'[u] \in Nat /\ unwritten'[u] \in Nat
  BY PersistFacts
<1>2. stored' = [u \in Users |-> stored'[u]] /\ unwritten' = [u \in Users |-> unwritten'[u]]
  BY DEF Persist
<1> QED
  BY <1>1, <1>2

\* The written seconds leave the account's loss as it was, and what is lost
\* with the rest of a second is less than one.
LEMMA WrittenFacts ==
  ASSUME TimeAssumption, Typed, Held, NEW us, NEW failed, Persist(us, Due, failed), NEW u \in Users
  PROVE  LET p == Pending(online[u])
             s == WholeSeconds(p) * PerSecond
         IN  /\ s \in Nat /\ s <= p /\ p - s <= PerSecond - 1
             /\ stored'[u] * PerSecond \in Nat /\ unwritten'[u] * PerSecond \in Nat
             /\ stored[u] * PerSecond \in Nat /\ unwritten[u] * PerSecond \in Nat
             /\ \/ /\ u \in us /\ stored'[u] * PerSecond = stored[u] * PerSecond + s
                   /\ unwritten'[u] * PerSecond = unwritten[u] * PerSecond
                \/ /\ u \in us /\ stored'[u] * PerSecond = stored[u] * PerSecond
                   /\ unwritten'[u] * PerSecond = unwritten[u] * PerSecond + s
                \/ /\ u \notin us /\ stored'[u] * PerSecond = stored[u] * PerSecond
                   /\ unwritten'[u] * PerSecond = unwritten[u] * PerSecond
<1> DEFINE p == Pending(online[u])
           w == WholeSeconds(p)
<1>1. PerSecond \in Nat \ {0}
  BY DEF TimeAssumption
<1>2. w \in Nat /\ w * PerSecond <= p /\ p - w * PerSecond <= PerSecond - 1
  BY PendingFacts, SecondsFacts
<1>3. stored[u] \in Nat /\ unwritten[u] \in Nat /\ stored'[u] \in Nat /\ unwritten'[u] \in Nat
  BY PersistFacts DEF Typed
<1>4. \/ u \in us /\ stored'[u] = stored[u] + w /\ unwritten'[u] = unwritten[u]
      \/ u \in us /\ stored'[u] = stored[u] /\ unwritten'[u] = unwritten[u] + w
      \/ u \notin us /\ stored'[u] = stored[u] /\ unwritten'[u] = unwritten[u]
  BY PersistFacts
<1>5. /\ (stored[u] + w) * PerSecond = stored[u] * PerSecond + w * PerSecond
      /\ (unwritten[u] + w) * PerSecond = unwritten[u] * PerSecond + w * PerSecond
  BY <1>1, <1>2, <1>3, SMT
<1>6. /\ w * PerSecond \in Nat /\ stored[u] * PerSecond \in Nat /\ unwritten[u] * PerSecond \in Nat
      /\ stored'[u] * PerSecond \in Nat /\ unwritten'[u] * PerSecond \in Nat
  BY <1>1, <1>2, <1>3, SMT
<1> HIDE DEF w
<1>7. \/ /\ u \in us /\ stored'[u] * PerSecond = stored[u] * PerSecond + w * PerSecond
         /\ unwritten'[u] * PerSecond = unwritten[u] * PerSecond
      \/ /\ u \in us /\ stored'[u] * PerSecond = stored[u] * PerSecond
         /\ unwritten'[u] * PerSecond = unwritten[u] * PerSecond + w * PerSecond
      \/ /\ u \notin us /\ stored'[u] * PerSecond = stored[u] * PerSecond
         /\ unwritten'[u] * PerSecond = unwritten[u] * PerSecond
  BY <1>4, <1>5
<1> QED
  BY <1>2, <1>6, <1>7 DEF w
-----------------------------------------------------------------------------
\* Settling an account: nothing is left to write, it gains no credit, and
\* what it loses by it is counted.
LEMMA SettleFacts ==
  ASSUME TimeAssumption, Typed, Held, NEW us, Settle(us),
         UNCHANGED <<now, spent, crashes, leaked>>, NEW u \in Users
  PROVE  /\ u \in us => online'[u] = Offline /\ (Pending(online[u]))' = 0
         /\ u \notin us => online'[u] = online[u] /\ (Pending(online[u]))' = Pending(online[u])
         /\ settled'[u] \in Nat
         /\ (Credit(u))' \in Nat /\ (Credit(u))' <= Credit(u)
         /\ (Lost(u))' \in Nat /\ Credit(u) - (Credit(u))' <= (Lost(u))' - Lost(u)
         /\ stored'[u] * PerSecond \in Nat /\ stored[u] * PerSecond <= stored'[u] * PerSecond
<1> DEFINE p == Pending(online[u])
           s == WholeSeconds(p) * PerSecond
<1>1. PerSecond \in Nat \ {0} /\ Interval \in Nat
  BY DEF TimeAssumption
<1>2. PICK failed \in Failures : Persist(us, Due, failed)
  BY DEF Settle
<1>3. /\ s \in Nat /\ s <= p /\ p - s <= PerSecond - 1
      /\ stored'[u] * PerSecond \in Nat /\ unwritten'[u] * PerSecond \in Nat
      /\ stored[u] * PerSecond \in Nat /\ unwritten[u] * PerSecond \in Nat
      /\ \/ /\ u \in us /\ stored'[u] * PerSecond = stored[u] * PerSecond + s
            /\ unwritten'[u] * PerSecond = unwritten[u] * PerSecond
         \/ /\ u \in us /\ stored'[u] * PerSecond = stored[u] * PerSecond
            /\ unwritten'[u] * PerSecond = unwritten[u] * PerSecond + s
         \/ /\ u \notin us /\ stored'[u] * PerSecond = stored[u] * PerSecond
            /\ unwritten'[u] * PerSecond = unwritten[u] * PerSecond
  BY <1>2, WrittenFacts
<1>4. p \in Nat
  BY PendingFacts
<1>5. online'[u] = IF u \in us THEN Offline ELSE online[u]
  BY DEF Settle
<1>6. (Pending(online[u]))' = IF u \in us THEN 0 ELSE p
  BY <1>5 DEF Pending, Offline
<1>7. settled'[u] = IF u \in us /\ p > 0 THEN settled[u] + 1 ELSE settled[u]
  BY DEF Settle
<1>8. /\ settled[u] \in Nat /\ crashes[u] \in Nat /\ leaked[u] \in Nat /\ settled'[u] \in Nat
      /\ crashes'[u] = crashes[u] /\ leaked'[u] = leaked[u]
  BY <1>7 DEF Typed
<1>9. (PerSecond - 1) * settled'[u] =
        (PerSecond - 1) * settled[u] + (IF u \in us /\ p > 0 THEN PerSecond - 1 ELSE 0)
  <2>1. CASE u \in us /\ p > 0
    <3>1. settled'[u] = settled[u] + 1
      BY <1>7, <2>1
    <3>2. (PerSecond - 1) * (settled[u] + 1) = (PerSecond - 1) * settled[u] + (PerSecond - 1)
      BY <1>1, <1>8, SMT
    <3> QED
      BY <2>1, <3>1, <3>2
  <2>2. CASE ~(u \in us /\ p > 0)
    <3>1. (PerSecond - 1) * settled[u] \in Int
      BY <1>1, <1>8, SMT
    <3> QED
      BY <1>7, <2>2, <3>1
  <2> QED
    BY <2>1, <2>2
<1>10. /\ (PerSecond - 1) * settled[u] \in Nat
       /\ (Interval + PerSecond - 1) * crashes[u] \in Nat
  BY <1>1, <1>8, SMT
<1> HIDE DEF p, s
<1>11. (Lost(u))' = Lost(u) + (IF u \in us /\ p > 0 THEN PerSecond - 1 ELSE 0)
                            + (unwritten'[u] * PerSecond - unwritten[u] * PerSecond)
  BY <1>1, <1>3, <1>8, <1>9, <1>10 DEF Lost
<1>12. Credit(u) = stored[u] * PerSecond + p
  BY DEF Credit, p
<1>13. (Credit(u))' = stored'[u] * PerSecond + (IF u \in us THEN 0 ELSE p)
  BY <1>6 DEF Credit
<1>14. Lost(u) \in Nat
  BY PerAccount
<1>15. (Credit(u))' \in Nat /\ (Credit(u))' <= Credit(u)
  BY <1>1, <1>3, <1>4, <1>12, <1>13
<1>16. (Lost(u))' \in Nat /\ Credit(u) - (Credit(u))' <= (Lost(u))' - Lost(u)
  BY <1>1, <1>3, <1>4, <1>11, <1>12, <1>13, <1>14
<1>17. stored[u] * PerSecond <= stored'[u] * PerSecond
  BY <1>3
<1> QED
  BY <1>3, <1>5, <1>6, <1>8, <1>15, <1>16, <1>17 DEF p

\* Settling keeps the types.
LEMMA SettleTypes ==
  ASSUME TimeAssumption, Typed, Held, NEW us, Settle(us),
         UNCHANGED <<now, flushed, spent, crashes, leaked>>,
         counts' \in [Users -> Nat], closing' \in BOOLEAN
  PROVE  Typed'
<1>1. PICK failed \in Failures : Persist(us, Due, failed)
  BY DEF Settle
<1>2. stored' \in [Users -> Nat] /\ unwritten' \in [Users -> Nat]
  BY <1>1, PersistTypes
<1>3. \A u \in Users : online'[u] \in Intervals /\ settled'[u] \in Nat
  <2>1. Offline \in Intervals
    BY DEF Offline, Intervals
  <2>2. \A u \in Users : online[u] \in Intervals
    BY DEF Typed
  <2> QED
    BY <2>1, <2>2, SettleFacts
<1>4. online' \in [Users -> Intervals] /\ settled' \in [Users -> Nat]
  <2>1. /\ online' = [u \in Users |-> online'[u]]
        /\ settled' = [u \in Users |-> settled'[u]]
    BY DEF Settle
  <2> QED
    BY <1>3, <2>1
<1>5. /\ now' \in Nat /\ flushed' \in Nat /\ flushed' <= now'
      /\ spent' \in [Users -> Nat] /\ crashes' \in [Users -> Nat] /\ leaked' \in [Users -> Nat]
  BY DEF Typed
<1> QED
  BY <1>2, <1>4, <1>5, Zenon DEF Typed
-----------------------------------------------------------------------------
\* An account goes offline, or all are settled at the shutdown.
LEMMA SettleStep ==
  TimeAssumption /\ IInv /\ (Shutdown \/ \E u \in Users : GoOffline(u)) => IInv'
<1> SUFFICES ASSUME TimeAssumption, IInv, NEW us \in SUBSET Users,
                    \/ us = Users /\ Shutdown
                    \/ \E v \in Users : us = {v} /\ GoOffline(v)
             PROVE  IInv'
  OBVIOUS
<1>1. Typed /\ Held /\ Recent /\ Closing /\ NeverOvercredited /\ LossBounded
  BY DEF IInv
<1>2. Settle(us) /\ UNCHANGED <<now, flushed, spent, crashes, leaked>>
  BY DEF Shutdown, GoOffline
<1>3. counts' \in [Users -> Nat] /\ closing' \in BOOLEAN
  <2>1. CASE Shutdown
    BY <1>1, <2>1 DEF Shutdown, Typed
  <2>2. CASE \E v \in Users : GoOffline(v)
    <3>1. PICK v \in Users : GoOffline(v)
      BY <2>2
    <3>2. counts' \in [Users -> Nat]
      BY <1>1, <3>1 DEF GoOffline, Typed
    <3>3. closing' = closing
      BY <3>1 DEF GoOffline
    <3> QED
      BY <1>1, <3>2, <3>3 DEF Typed
  <2> QED
    BY <2>1, <2>2
<1>4. Typed'
  BY <1>1, <1>2, <1>3, SettleTypes
<1>5. \A u \in Users : /\ u \in us => online'[u] = Offline /\ (Pending(online[u]))' = 0
                       /\ u \notin us => /\ online'[u] = online[u]
                                         /\ (Pending(online[u]))' = Pending(online[u])
  BY <1>1, <1>2, SettleFacts
<1>6. \/ closing' /\ us = Users /\ counts' = counts
      \/ /\ closing' = closing
         /\ \A u \in Users : counts'[u] = IF u \in us THEN 0 ELSE counts[u]
  <2>1. CASE us = Users /\ Shutdown
    BY <2>1 DEF Shutdown
  <2>2. CASE \E v \in Users : us = {v} /\ GoOffline(v)
    BY <1>1, <2>2 DEF GoOffline, Typed
  <2> QED
    BY <2>1, <2>2
<1>7. Held'
  BY <1>1, <1>2, <1>5, <1>6 DEF Held, Offline
<1>8. Recent'
  <2>1. PerSecond \in Nat \ {0}
    BY DEF TimeAssumption
  <2>2. SUFFICES ASSUME ~closing' PROVE Recent'
    BY DEF Recent
  <2>3. ~closing
    BY <1>6, <2>2
  <2> QED
    BY <1>1, <1>2, <1>5, <2>1, <2>3 DEF Recent, Typed
<1>9. ASSUME NEW u \in Users
      PROVE  /\ (Credit(u))' <= spent'[u]
             /\ spent'[u] - (Credit(u))' <= (Lost(u))'
             /\ closing' => spent'[u] - stored'[u] * PerSecond <= (Lost(u))'
  <2>1. /\ Credit(u) \in Nat /\ Lost(u) \in Nat /\ stored[u] * PerSecond \in Nat
        /\ spent[u] \in Nat /\ spent'[u] = spent[u]
    BY <1>1, <1>2, PerAccount DEF Typed
  <2>2. /\ (Credit(u))' \in Nat /\ (Credit(u))' <= Credit(u)
        /\ (Lost(u))' \in Nat /\ Credit(u) - (Credit(u))' <= (Lost(u))' - Lost(u)
        /\ stored'[u] * PerSecond \in Nat /\ stored[u] * PerSecond <= stored'[u] * PerSecond
    BY <1>1, <1>2, SettleFacts
  <2>3. /\ Credit(u) <= spent[u] /\ spent[u] - Credit(u) <= Lost(u)
        /\ closing => spent[u] - stored[u] * PerSecond <= Lost(u)
    BY <1>1 DEF NeverOvercredited, LossBounded, Lost, Closing
  <2>4. us = Users => stored'[u] * PerSecond = (Credit(u))'
    <3>1. SUFFICES ASSUME us = Users PROVE stored'[u] * PerSecond = (Credit(u))'
      OBVIOUS
    <3>2. (Pending(online[u]))' = 0
      BY <1>5, <3>1
    <3> QED
      BY <2>2, <3>2 DEF Credit
  <2>5. closing' => us = Users \/ closing
    BY <1>6
  <2> QED
    BY <2>1, <2>2, <2>3, <2>4, <2>5
<1> QED
  BY <1>4, <1>7, <1>8, <1>9 DEF IInv, Closing, NeverOvercredited, LossBounded, Lost

-----------------------------------------------------------------------------
\* The periodic flush: what is written leaves the interval, and a write that
\* fails is counted.
LEMMA FlushStep == TimeAssumption /\ IInv /\ Flush => IInv'
<1> SUFFICES ASSUME TimeAssumption, IInv, Flush PROVE IInv'
  OBVIOUS
<1>1. Typed /\ Held /\ Recent /\ Closing /\ NeverOvercredited /\ LossBounded
  BY DEF IInv
<1>2. PerSecond \in Nat \ {0} /\ Interval \in Nat
  BY DEF TimeAssumption
<1>3. /\ ~closing /\ flushed' = now
      /\ UNCHANGED <<now, counts, closing, spent, settled, crashes, leaked>>
  BY DEF Flush
<1>4. PICK failed \in Failures : Persist(Users, Due, failed)
  BY DEF Flush
<1>5. \A u \in Users : online'[u] = IF online[u].on THEN Carried(online[u]) ELSE online[u]
  BY DEF Flush
<1>6. ASSUME NEW u \in Users
      PROVE  LET p == Pending(online[u])
                 s == WholeSeconds(p) * PerSecond
             IN  /\ online'[u] \in Intervals /\ online'[u].on = online[u].on
                 /\ online'[u].on => online'[u].since <= now
                 /\ (Pending(online[u]))' = p - s
                 /\ p \in Nat /\ s \in Nat /\ p - s \in Nat /\ p - s <= PerSecond - 1
  <2> DEFINE p == Pending(online[u])
             s == WholeSeconds(p) * PerSecond
  <2>1. p \in Nat /\ s \in Nat /\ s <= p /\ p - s <= PerSecond - 1
    BY <1>1, <1>4, PendingFacts, WrittenFacts
  <2>2. p - s \in Nat
    BY <2>1
  <2>3. online[u].on \in BOOLEAN /\ online[u] \in Intervals
    BY <1>1, IntervalFacts DEF Typed
  <2>4. CASE online[u].on
    <3>1. online'[u] = [online[u] EXCEPT !.since = now, !.accum = p - s]
      BY <1>5, <2>4 DEF Carried
    <3>2. now \in Nat
      BY <1>1 DEF Typed
    <3> HIDE DEF p, s
    <3>3. online'[u] = [on |-> online[u].on, since |-> now, accum |-> p - s]
      BY <2>3, <3>1 DEF Intervals
    <3>4. online'[u] \in Intervals
      BY <2>2, <2>3, <3>2, <3>3 DEF Intervals
    <3>5. (Pending(online[u]))' = p - s
      BY <1>3, <2>2, <2>4, <3>2, <3>3 DEF Pending
    <3>6. online'[u].on = online[u].on /\ online'[u].since <= now
      BY <3>2, <3>3
    <3> QED
      BY <2>1, <2>2, <3>4, <3>5, <3>6 DEF p, s
  <2>5. CASE ~online[u].on
    <3>1. online'[u] = online[u] /\ p = 0
      BY <1>5, <2>5 DEF Pending
    <3>2. (Pending(online[u]))' = 0
      BY <2>5, <3>1 DEF Pending
    <3> HIDE DEF p, s
    <3>3. s = 0
      BY <2>1, <3>1
    <3> QED
      BY <2>1, <2>2, <2>3, <2>5, <3>1, <3>2, <3>3 DEF p, s
  <2> QED
    BY <2>4, <2>5
<1>7. Typed'
  <2>1. stored' \in [Users -> Nat] /\ unwritten' \in [Users -> Nat]
    BY <1>1, <1>4, PersistTypes
  <2>2. online' \in [Users -> Intervals]
    <3>1. online' = [u \in Users |-> online'[u]]
      BY DEF Flush
    <3> QED
      BY <1>6, <3>1
  <2>3. closing' \in BOOLEAN
    BY <1>1, <1>3 DEF Typed
  <2>4. /\ now' \in Nat /\ flushed' \in Nat /\ flushed' <= now' /\ counts' \in [Users -> Nat]
        /\ spent' \in [Users -> Nat] /\ settled' \in [Users -> Nat] /\ crashes' \in [Users -> Nat]
        /\ leaked' \in [Users -> Nat]
    BY <1>1, <1>3 DEF Typed
  <2> QED
    BY <2>1, <2>2, <2>3, <2>4, Zenon DEF Typed
<1>8. Held'
  BY <1>1, <1>3, <1>6 DEF Held
<1>9. Recent'
  <2>1. now \in Nat
    BY <1>1 DEF Typed
  <2> QED
    BY <1>2, <1>3, <1>6, <2>1 DEF Recent
<1>10. ASSUME NEW u \in Users
       PROVE  (Credit(u))' <= spent'[u] /\ spent'[u] - (Credit(u))' <= (Lost(u))'
  <2> DEFINE p == Pending(online[u])
             s == WholeSeconds(p) * PerSecond
  <2>1. /\ s \in Nat /\ s <= p
        /\ stored'[u] * PerSecond \in Nat /\ unwritten'[u] * PerSecond \in Nat
        /\ stored[u] * PerSecond \in Nat /\ unwritten[u] * PerSecond \in Nat
        /\ \/ /\ stored'[u] * PerSecond = stored[u] * PerSecond + s
              /\ unwritten'[u] * PerSecond = unwritten[u] * PerSecond
           \/ /\ stored'[u] * PerSecond = stored[u] * PerSecond
              /\ unwritten'[u] * PerSecond = unwritten[u] * PerSecond + s
    BY <1>1, <1>4, WrittenFacts
  <2>2. p \in Nat /\ (Pending(online[u]))' = p - s
    BY <1>6
  <2>3. /\ (PerSecond - 1) * settled[u] \in Nat /\ (Interval + PerSecond - 1) * crashes[u] \in Nat
        /\ leaked[u] \in Nat /\ spent[u] \in Nat
    <3>1. settled[u] \in Nat /\ crashes[u] \in Nat /\ leaked[u] \in Nat /\ spent[u] \in Nat
      BY <1>1 DEF Typed
    <3> QED
      BY <1>2, <3>1, SMT
  <2>4. Credit(u) <= spent[u] /\ spent[u] - Credit(u) <= Lost(u)
    BY <1>1 DEF NeverOvercredited, LossBounded, Lost
  <2>5. Credit(u) = stored[u] * PerSecond + p
    BY DEF Credit
  <2> HIDE DEF p, s
  <2>6. (Credit(u))' = stored'[u] * PerSecond + (p - s)
    BY <2>2 DEF Credit
  <2>7. (Lost(u))' = Lost(u) + (unwritten'[u] * PerSecond - unwritten[u] * PerSecond)
    BY <1>3, <2>1, <2>3 DEF Lost
  <2>8. Lost(u) \in Nat
    BY <1>1, PerAccount
  <2> QED
    BY <1>3, <2>1, <2>2, <2>3, <2>4, <2>5, <2>6, <2>7, <2>8
<1> QED
  BY <1>3, <1>7, <1>8, <1>9, <1>10 DEF IInv, Closing, NeverOvercredited, LossBounded, Lost

-----------------------------------------------------------------------------
\* Every step of the hub, or none, keeps the inductive invariant.
LEMMA Inductive == TimeAssumption /\ IInv /\ [Next]_vars => IInv'
<1> SUFFICES ASSUME TimeAssumption, IInv, [Next]_vars PROVE IInv'
  OBVIOUS
<1>1. CASE Tick
  BY <1>1, TickStep
<1>2. CASE Flush
  BY <1>2, FlushStep
<1>3. CASE Shutdown
  BY <1>3, SettleStep
<1>4. CASE Exit
  BY <1>4, ExitStep
<1>5. CASE \E u \in Users : ComeOnline(u) \/ LoseSocket(u)
  BY <1>5, SocketStep
<1>6. CASE \E u \in Users : GoOffline(u)
  BY <1>6, SettleStep
<1>7. CASE UNCHANGED vars
  BY <1>7 DEF vars, IInv, Typed, Held, Recent, Closing, NeverOvercredited, LossBounded,
              Lost, Credit, Pending
<1> QED
  BY <1>1, <1>2, <1>3, <1>4, <1>5, <1>6, <1>7 DEF Next

\* No online time is credited that was not spent, and what is lost of it is
\* bounded by the ends of intervals, crashes, failed writes and the time after
\* a shutdown's last flush: hub.go's settleOnlineLocked and flushOnlineTime.  The
\* bound grants each failed write its seconds, as hub.go drops them; that the next
\* flush retries it, as persistOnline's comment has it, is FlushRetried and false.
THEOREM TimeIsAccounted == TimeAssumption => (Spec => []TimeAccounted)
<1> SUFFICES ASSUME TimeAssumption PROVE Spec => []TimeAccounted
  OBVIOUS
<1>1. Init => IInv
  BY Initially
<1>2. IInv /\ [Next]_vars => IInv'
  BY Inductive
<1>3. IInv => TimeAccounted
  BY DEF IInv, TimeAccounted
<1> QED
  BY <1>1, <1>2, <1>3, PTL DEF Spec
=============================================================================
