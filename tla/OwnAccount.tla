----------------------------- MODULE OwnAccount ------------------------------
(***************************************************************************)
(* The signed-in account on the page: what web/src/stores/app.ts does when *)
(* its settings are saved, announced and read again, against the handlers   *)
(* of internal/httpapi/auth.go and call_permissions.go.                    *)
(*                                                                         *)
(* Three settings stand for them all: "recv", whether calls are received,   *)
(* shown before it is saved; "away", the fixed status, shown afterwards;    *)
(* and "bio", saved with the name by one request and left out of the        *)
(* account's JSON when it is empty, TRUE here when it is not.               *)
(***************************************************************************)
EXTENDS Naturals, Sequences

CONSTANTS
    MaxSaves,   \* bound: requests of this page
    MaxOthers,  \* bound: requests of the account's other devices
    MaxUpsets   \* bound: failures, lost connections, changes by moderators

OwnAccountAssumption == MaxSaves \in Nat /\ MaxOthers \in Nat /\ MaxUpsets \in Nat

VARIABLES
    account,   \* the account in the store
    requests,  \* under way, of the page and of others
    feed,      \* events on their way to the page, in order
    sync,      \* synchronizeSocket
    user,      \* app.user
    spent,     \* bounds
    excused    \* settings that a crossing named below may have left wrong

oaVars == <<account, requests, feed, sync, user, spent, excused>>

Fields == {"recv", "away", "bio"}
Account == [Fields -> BOOLEAN]

\* A request of the page remembers what it replaced, and whether app.user is
\* still the object it put there (same), no later request was sent (latest),
\* and no account update came in between (fresh).
Request == [id : 1..MaxSaves + MaxOthers, own : BOOLEAN, field : Fields, value : BOOLEAN,
            stage : {"sent", "read", "written", "ready", "answered", "failed"},
            user : Account, previous : BOOLEAN, same : BOOLEAN, latest : BOOLEAN, fresh : BOOLEAN]

Event == [account : BOOLEAN, user : Account]

Off == [stage |-> "off", user |-> [f \in Fields |-> FALSE], dirty |-> FALSE]

TypeOK ==
    /\ account \in Account /\ user \in Account
    /\ \A r \in requests : r \in Request
    /\ \A i \in DOMAIN feed : feed[i] \in Event
    /\ sync \in [stage : {"off", "asked", "read", "guild", "applied"},
                user : Account, dirty : BOOLEAN]
    /\ excused \subseteq Fields

Init ==
    /\ account \in {a \in Account : a.recv} /\ user = account
    /\ requests = {} /\ feed = <<>> /\ sync = Off /\ excused = {}
    /\ spent = [saves |-> 0, others |-> 0, upsets |-> 0]

Spend(bound, k) == spent[k] < bound /\ spent' = [spent EXCEPT ![k] = @ + 1]
Upset == Spend(MaxUpsets, "upsets")

Differing(u) == {f \in Fields : u[f] # account[f]}

\* { ...user.value, ...update }: an empty bio is not in the update.
Spread(old, update) == [update EXCEPT !.bio = @ \/ old.bio]

\* What the page's requests know after app.user was replaced, after an account
\* update, and after a further request.
Replaced(R) == {[r EXCEPT !.same = FALSE] : r \in R}
Revised(R) == {[r EXCEPT !.same = FALSE, !.fresh = FALSE] : r \in R}
Superseded(R) == {[r EXCEPT !.same = FALSE, !.latest = @ /\ r.field # "recv"] : r \in R}

NewRequest(own, f, value) ==
    [id |-> spent.saves + spent.others + 1, own |-> own, field |-> f, value |-> value,
     stage |-> "sent", user |-> account, previous |-> user[f],
     same |-> TRUE, latest |-> TRUE, fresh |-> TRUE]

-----------------------------------------------------------------------------
(* The page asks. *)

\* The switch is off only while the tab that sent the last request is shown.
SetMyCallReceiving(enabled) ==
    /\ Spend(MaxSaves, "saves")
    /\ user' = [user EXCEPT !.recv = enabled]
    /\ requests' = Superseded(requests) \cup {NewRequest(TRUE, "recv", enabled)}
    /\ UNCHANGED <<account, feed, sync, excused>>

SetMyStatusSetting(value) ==
    /\ Spend(MaxSaves, "saves")
    /\ requests' = requests \cup {NewRequest(TRUE, "away", value)}
    /\ UNCHANGED <<account, feed, sync, user, excused>>

UpdateProfile(value) ==
    /\ Spend(MaxSaves, "saves")
    /\ requests' = requests \cup {NewRequest(TRUE, "bio", value)}
    /\ UNCHANGED <<account, feed, sync, user, excused>>

OtherDevice(f, value) ==
    /\ Spend(MaxOthers, "others")
    /\ requests' = requests \cup {NewRequest(FALSE, f, value)}
    /\ UNCHANGED <<account, feed, sync, user, excused>>

-----------------------------------------------------------------------------
(* The server. *)

Becomes(r, next) == requests' = (requests \ {r}) \cup {next}

\* requireAuth reads the account that the handler goes on with.
Authenticate(r) ==
    /\ r.stage = "sent"
    /\ Becomes(r, [r EXCEPT !.stage = "read", !.user = account])
    /\ UNCHANGED <<account, feed, sync, user, spent, excused>>

\* handleUpdateMe reads the account again, the others patch what they read.
Write(r) ==
    /\ r.stage = "read"
    /\ account' = [account EXCEPT ![r.field] = r.value]
    /\ Becomes(r, IF r.field = "bio" THEN [r EXCEPT !.stage = "written"]
                  ELSE [r EXCEPT !.stage = "ready", !.user[r.field] = r.value])
    /\ excused' = excused \cup {f \in {"bio"} : r.field = f /\ account[f] /\ ~r.value}
    /\ UNCHANGED <<feed, sync, user, spent>>

ReadAgain(r) ==
    /\ r.stage = "written"
    /\ Becomes(r, [r EXCEPT !.stage = "ready", !.user = account])
    /\ UNCHANGED <<account, feed, sync, user, spent, excused>>

\* Announced to every device, then answered.  What another handler has changed
\* since it was read is announced as it was.
Broadcast(r) ==
    /\ r.stage = "ready"
    /\ feed' = Append(feed, [account |-> TRUE, user |-> r.user])
    /\ excused' = excused \cup Differing(r.user)
    /\ requests' = (requests \ {r}) \cup {s \in {[r EXCEPT !.stage = "answered"]} : r.own}
    /\ UNCHANGED <<account, sync, user, spent>>

\* The store refuses, or the page loses the answer the server goes on to give.
Fails(r) ==
    /\ r.own /\ r.stage # "failed" /\ Upset
    /\ requests' = (requests \ {r}) \cup {[r EXCEPT !.stage = "failed"]}
                     \cup {s \in {[r EXCEPT !.own = FALSE]} : r.stage # "answered"}
    /\ UNCHANGED <<account, feed, sync, user, excused>>

Refused(r) ==
    /\ r.own /\ r.stage = "read" /\ Upset
    /\ Becomes(r, [r EXCEPT !.stage = "failed"])
    /\ UNCHANGED <<account, feed, sync, user, excused>>

\* A moderator changes a membership: the event replaces app.user and has none
\* of the account's own settings.
MemberUpdated ==
    /\ Upset /\ feed' = Append(feed, [account |-> FALSE, user |-> account])
    /\ UNCHANGED <<account, requests, sync, user, excused>>

-----------------------------------------------------------------------------
(* The page hears. *)

\* An answer is kept only if it is to the last request and nothing the server
\* has announced since says otherwise.
\* Merged into a snapshot, it may be older than that: excused.
Answered(r) ==
    /\ r.own /\ r.stage = "answered" /\ r.field = "recv"
    /\ LET others == requests \ {r}
           kept == r.latest /\ r.fresh
       IN
       /\ user' = IF ~kept THEN user
                  ELSE IF r.same THEN Spread(user, r.user) ELSE [user EXCEPT !.recv = r.user.recv]
       /\ requests' = IF ~kept THEN others
                      ELSE IF r.same THEN Revised(others) ELSE Replaced(others)
       /\ excused' = excused \cup {f \in {"recv"} : kept /\ ~r.same /\ f \in Differing(r.user)}
    /\ UNCHANGED <<account, feed, sync, spent>>

\* The other answers are applied whenever they come: excused when late.
Saved(r) ==
    /\ r.own /\ r.stage = "answered" /\ r.field # "recv"
    /\ user' = Spread(user, r.user) /\ requests' = Revised(requests \ {r})
    /\ excused' = excused \cup Differing(r.user)
    /\ UNCHANGED <<account, feed, sync, spent>>

\* The switch goes back if app.user is what the request made it.  One that was
\* replaced for another reason keeps the wish, and so does one whose own
\* "previous" was a wish: excused.
Failed(r) ==
    /\ r.own /\ r.stage = "failed"
    /\ LET back == r.field = "recv" /\ r.latest /\ r.fresh /\ r.same IN
       /\ user' = IF back THEN [user EXCEPT !.recv = r.previous] ELSE user
       /\ requests' = IF back THEN Replaced(requests \ {r}) ELSE requests \ {r}
       /\ excused' = excused \cup {f \in {"recv"} : r.field = f /\ user'[f] # account[f]}
    /\ UNCHANGED <<account, feed, sync, spent>>

\* While the page synchronizes, an event only makes it start again.
Deliver ==
    /\ feed # <<>> /\ feed' = Tail(feed)
    /\ IF sync.stage # "off"
         THEN sync' = [sync EXCEPT !.dirty = TRUE] /\ UNCHANGED <<user, requests>>
         ELSE /\ user' = IF Head(feed).account THEN Spread(user, Head(feed).user) ELSE user
              /\ requests' = IF Head(feed).account THEN Revised(requests) ELSE Replaced(requests)
              /\ UNCHANGED sync
    /\ UNCHANGED <<account, spent, excused>>

\* The socket is lost with what was on its way, and another is opened.
Reconnect ==
    /\ Upset /\ feed' = <<>> /\ sync' = [Off EXCEPT !.stage = "asked"]
    /\ UNCHANGED <<account, requests, user, excused>>

SyncRead ==
    /\ sync.stage = "asked"
    /\ sync' = [sync EXCEPT !.stage = "read", !.user = account]
    /\ UNCHANGED <<account, requests, feed, user, spent, excused>>

Again == sync' = [Off EXCEPT !.stage = "asked"]

SyncApply ==
    /\ sync.stage = "read"
    /\ IF sync.dirty THEN Again /\ UNCHANGED <<user, requests>>
       ELSE /\ sync' = [sync EXCEPT !.stage = "guild"]
            /\ user' = sync.user /\ requests' = Replaced(requests)
    /\ UNCHANGED <<account, feed, spent, excused>>

\* With the guild's answer the same account is put there once more.
SyncApplyGuild ==
    /\ sync.stage = "guild"
    /\ IF sync.dirty THEN Again /\ UNCHANGED <<user, requests>>
       ELSE /\ sync' = [sync EXCEPT !.stage = "applied"]
            /\ user' = sync.user /\ requests' = Replaced(requests)
    /\ UNCHANGED <<account, feed, spent, excused>>

SyncDone ==
    /\ sync.stage = "applied"
    /\ IF sync.dirty THEN Again ELSE sync' = Off
    /\ UNCHANGED <<account, requests, feed, user, spent, excused>>

-----------------------------------------------------------------------------
Next ==
    \/ \E value \in BOOLEAN :
         \/ SetMyCallReceiving(value) \/ SetMyStatusSetting(value) \/ UpdateProfile(value)
         \/ \E f \in Fields : OtherDevice(f, value)
    \/ \E r \in requests :
         \/ Authenticate(r) \/ Write(r) \/ ReadAgain(r) \/ Broadcast(r) \/ Fails(r) \/ Refused(r)
         \/ Answered(r) \/ Saved(r) \/ Failed(r)
    \/ MemberUpdated \/ Deliver \/ Reconnect \/ SyncRead \/ SyncApply \/ SyncApplyGuild
    \/ SyncDone

Spec == Init /\ [][Next]_oaVars

-----------------------------------------------------------------------------
\* When every request is answered and every event has come, the page shows the
\* account as the store has it, however answers, announcements, failures and
\* reconnections crossed, but for the crossings "excused" records.
AccountAgrees ==
    (requests = {} /\ feed = <<>> /\ sync.stage = "off") =>
        \A f \in Fields \ excused : user[f] = account[f]
=============================================================================
