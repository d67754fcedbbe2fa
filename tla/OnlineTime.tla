------------------------------ MODULE OnlineTime ------------------------------
(***************************************************************************)
(* How long an account has been online: the online intervals of            *)
(* internal/httpapi/hub.go, which are written to the store as whole        *)
(* seconds by the periodic flush, when the account goes offline and when   *)
(* the server shuts down.                                                  *)
(*                                                                         *)
(* Time is counted in fractions of a second.  Each function of the hub     *)
(* here runs under h.mu, writes included, and is one step.                 *)
(*                                                                         *)
(* An operator named X_Fault is X with a plausible mistake in it, unused.  *)
(***************************************************************************)
EXTENDS Integers, FiniteSets

CONSTANTS
    Users,
    PerSecond,   \* ticks of the clock in a second
    Interval,    \* ticks between two flushes (60 s in the code)
    MaxTime,     \* bound: ticks of a behaviour
    MaxSockets,  \* bound: sockets of one account
    Scope        \* what an instance exercises, a subset of:
                 \*   "fail"   writes to the store fail
                 \*   "crash"  the process dies without a shutdown

TimeAssumption ==
    /\ PerSecond \in Nat \ {0} /\ Interval \in Nat \ {0}
    /\ MaxTime \in Nat /\ MaxSockets \in Nat
    /\ Scope \subseteq {"fail", "crash"}

VARIABLES
    now,       \* the clock
    flushed,   \* when the flush ticker last fired
    counts,    \* h.counts: sockets and leases of the account
    online,    \* h.online: the account's interval
    stored,    \* store: whole seconds credited to the account
    closing,   \* FlushOnlineTime has run: the process is about to exit
    spent,     \* history: ticks the account has been online
    settled,   \* history: intervals of the account, not empty, that were settled
    crashes,   \* history: intervals of the account that a crash has cut off
    unwritten, \* history: the account's seconds whose write has failed
    leaked     \* history: ticks spent online between the last flush and the exit

vars == <<now, flushed, counts, online, stored, closing, spent, settled, crashes,
          unwritten, leaked>>
history == <<spent, settled, crashes, unwritten, leaked>>

Offline == [on |-> FALSE, since |-> 0, accum |-> 0]
Intervals == [on : BOOLEAN, since : Nat, accum : Nat]

TypeOK ==
    /\ now \in 0..MaxTime /\ flushed \in 0..now
    /\ counts \in [Users -> 0..MaxSockets]
    /\ online \in [Users -> Intervals]
    /\ stored \in [Users -> Nat]
    /\ closing \in BOOLEAN
    /\ spent \in [Users -> Nat] /\ settled \in [Users -> Nat]
    /\ crashes \in [Users -> Nat] /\ unwritten \in [Users -> Nat]
    /\ leaked \in [Users -> Nat]

Init ==
    /\ now = 0 /\ flushed = 0 /\ closing = FALSE
    /\ counts = [u \in Users |-> 0]
    /\ online = [u \in Users |-> Offline]
    /\ stored = [u \in Users |-> 0]
    /\ spent = [u \in Users |-> 0] /\ settled = [u \in Users |-> 0]
    /\ crashes = [u \in Users |-> 0] /\ unwritten = [u \in Users |-> 0]
    /\ leaked = [u \in Users |-> 0]

-----------------------------------------------------------------------------
\* What an interval holds and has not been written yet.
Pending(iv) == IF iv.on THEN iv.accum + (now - iv.since) ELSE 0

WholeSeconds(ticks) == ticks \div PerSecond

\* The flush ticker is not late by as much as a tick.
Tick ==
    /\ now < MaxTime /\ (now < flushed + Interval \/ closing)
    /\ now' = now + 1
    /\ spent' = [u \in Users |-> IF counts[u] > 0 THEN spent[u] + 1 ELSE spent[u]]
    /\ leaked' = [u \in Users |-> IF counts[u] > 0 /\ closing THEN leaked[u] + 1 ELSE leaked[u]]
    /\ UNCHANGED <<flushed, counts, online, stored, closing, settled, crashes,
                   unwritten>>

\* register: an interval starts with the account's first socket.
Started(u) == counts[u] = 0

ComeOnline(u) ==
    /\ counts[u] < MaxSockets
    /\ counts' = [counts EXCEPT ![u] = @ + 1]
    /\ online' = IF Started(u)
                   THEN [online EXCEPT ![u] = [on |-> TRUE, since |-> now, accum |-> 0]]
                   ELSE online
    /\ UNCHANGED <<now, flushed, stored, closing, history>>

\* The writes of these accounts' seconds fail; the error is dropped.
Failures == IF "fail" \in Scope THEN SUBSET Users ELSE {{}}

\* persistOnline of these accounts' seconds; nothing is done about a failure.
Persist(us, seconds, failed) ==
    /\ stored' = [u \in Users |-> IF u \in us \ failed THEN stored[u] + seconds[u] ELSE stored[u]]
    /\ unwritten' = [u \in Users |-> IF u \in us \cap failed THEN unwritten[u] + seconds[u]
                                                              ELSE unwritten[u]]

Due == [u \in Users |-> WholeSeconds(Pending(online[u]))]

\* settleOnlineLocked for a set of accounts: what is left under a second is
\* discarded.
Settle(us) ==
    /\ online' = [u \in Users |-> IF u \in us THEN Offline ELSE online[u]]
    /\ \E failed \in Failures : Persist(us, Due, failed)
    /\ settled' = [u \in Users |-> IF u \in us /\ Pending(online[u]) > 0
                                     THEN settled[u] + 1 ELSE settled[u]]

\* expire, for a lease that is not the account's last one, and for the last.
LoseSocket(u) ==
    /\ counts[u] > 1
    /\ counts' = [counts EXCEPT ![u] = @ - 1]
    /\ UNCHANGED <<now, flushed, online, stored, closing, history>>

\* The last lease runs out, or DisconnectUser ends the account's sockets.
GoOffline(u) ==
    /\ counts[u] > 0
    /\ counts' = [counts EXCEPT ![u] = 0]
    /\ Settle({u})
    /\ UNCHANGED <<now, flushed, closing, spent, crashes, leaked>>

\* An interval after its seconds have been written.
Carried_KeepsSince(iv) ==
    [iv EXCEPT !.accum = Pending(iv) - WholeSeconds(Pending(iv)) * PerSecond]
Carried(iv) ==
    [iv EXCEPT !.since = now, !.accum = Pending(iv) - WholeSeconds(Pending(iv)) * PerSecond]

\* flushOnlineTime: the written seconds leave the interval whether or not the
\* write has succeeded.
Flush ==
    /\ ~closing
    /\ flushed' = now
    /\ flushed' # flushed
    /\ online' = [u \in Users |-> IF online[u].on THEN Carried(online[u]) ELSE online[u]]
    /\ \E failed \in Failures : Persist(Users, Due, failed)
    /\ UNCHANGED <<now, counts, closing, spent, settled, crashes, leaked>>

\* FlushOnlineTime at shutdown.  Sockets are hijacked connections: Shutdown
\* does not close them, and they live until the process exits.
Shutdown ==
    /\ ~closing
    /\ closing' = TRUE
    /\ Settle(Users)
    /\ UNCHANGED <<now, flushed, counts, spent, crashes, leaked>>

\* A new process starts with nothing but the store.
Exit ==
    /\ closing \/ "crash" \in Scope
    /\ closing' = FALSE
    /\ crashes' = [u \in Users |-> IF Pending(online[u]) > 0 /\ ~closing
                                   THEN crashes[u] + 1 ELSE crashes[u]]
    /\ counts' = [u \in Users |-> 0]
    /\ online' = [u \in Users |-> Offline]
    /\ flushed' = now
    /\ UNCHANGED <<now, stored, spent, settled, unwritten, leaked>>

Next ==
    \/ Tick \/ Flush \/ Shutdown \/ Exit
    \/ \E u \in Users : ComeOnline(u) \/ LoseSocket(u) \/ GoOffline(u)

Spec == Init /\ [][Next]_vars

-----------------------------------------------------------------------------
(* Properties *)

\* The account's credit: what is written, and what its interval still holds.
Credit(u) == stored[u] * PerSecond + Pending(online[u])

\* No time is credited twice and none that the account was offline, whatever
\* sockets, flushes, crashes and shutdowns come together.
NeverOvercredited == \A u \in Users : Credit(u) <= spent[u]

\* An account loses less than a second each time its interval ends, less than a
\* flush interval and a second to each crash, the seconds of a failed write, and
\* nothing else: second sockets and flushes cost nothing.  The bound grants the
\* failed writes to the code as it is; persistOnline's comment does not
\* (FlushRetried).
LossBounded ==
    \A u \in Users :
        spent[u] - Credit(u) <=   (PerSecond - 1) * settled[u]
                                + (Interval + PerSecond - 1) * crashes[u]
                                + unwritten[u] * PerSecond + leaked[u]

\* Online time is never credited twice, and what is lost is bounded.
TimeAccounted == NeverOvercredited /\ LossBounded

\* "The next flush retries the delta while the interval is still tracked in
\* memory" (persistOnline): an account whose first interval is still open has
\* lost nothing, whatever writes have failed.  The flush takes the seconds off
\* the interval before it knows, so this is violated.
FlushRetried ==
    \A u \in Users :
        online[u].on /\ settled[u] + crashes[u] + leaked[u] = 0 => Credit(u) = spent[u]
=============================================================================
