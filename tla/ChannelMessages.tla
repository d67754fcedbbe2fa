--------------------------- MODULE ChannelMessages ---------------------------
(***************************************************************************)
(* The messages of the channel a page shows and how many are unread:        *)
(* web/src/stores/app.ts (loadChannelMessages, loadEarlier, markChannelRead *)
(* and the events of messages) driven by components/ChatPane.vue.           *)
(*                                                                         *)
(* A list is the set of its messages' numbers: the server counts them up,   *)
(* so the set has one order.  A reconnection is the part of ClientSync that *)
(* concerns messages.                                                      *)
(***************************************************************************)
EXTENDS Naturals, Sequences, FiniteSets

CONSTANTS
    PageSize,      \* messages a request returns (50 in the code)
    Retention,     \* messages a channel keeps
    First,         \* messages there are when the page opens
    MaxMessages,   \* bound: messages ever sent
    MaxChanges,    \* bound: deletions, clearings, reads elsewhere
    MaxActs,       \* bound: what the user does
    MaxLosses      \* bound: lost connections and failed requests

ChannelMessagesAssumption ==
    /\ {PageSize, Retention} \subseteq Nat \ {0} /\ PageSize <= Retention
    /\ {First, MaxMessages, MaxChanges, MaxActs, MaxLosses} \subseteq Nat

VARIABLES
    chat,      \* the page: the list, the read state, the connection, the pane
    channel,   \* the server: messages, the last one sent, the last one read
    feed,      \* events sent and not handled yet
    calls,     \* requests under way
    spent,     \* bounds: changes, acts and losses so far
    missed     \* history: an answer was overtaken or a request failed

chatVars == <<chat, channel, feed, calls, spent, missed>>

MaxOf(set) == IF set = {} THEN 0 ELSE CHOOSE m \in set : \A n \in set : n <= m
MinOf(set) == CHOOSE m \in set : \A n \in set : m <= n
Least(a, b) == IF a <= b THEN a ELSE b
Newest(set, n) == {m \in set : Cardinality({k \in set : k > m}) < n}

\* The account's read state as the server counts it, and as a read answers.
ReadState(c) ==
    LET unread == {m \in c.messages : m > c.read} IN
    [last |-> c.read, latest |-> MaxOf(unread), unread |-> Cardinality(unread)]
AllRead(c) == [last |-> MaxOf(c.messages), latest |-> MaxOf(c.messages), unread |-> 0]

Init ==
    /\ channel \in [messages : {Newest(1 .. First, Retention)}, sent : {First}, read : 0 .. First]
    /\ chat = [list |-> {}, loaded |-> FALSE, earlier |-> FALSE, loading |-> FALSE, version |-> 0,
               rd |-> ReadState(channel), bottom |-> TRUE, restoring |-> FALSE, timer |-> FALSE,
               link |-> "online", activity |-> 0]
    /\ feed = <<>> /\ calls = {} /\ missed = FALSE
    /\ spent = [changes |-> 0, acts |-> 0, losses |-> 0]

TypeOK ==
    /\ chat.list \subseteq 1 .. MaxMessages /\ Cardinality(chat.list) <= Retention
    /\ chat.rd.unread \in 0 .. Retention
    /\ chat.link \in {"lost", "synchronizing", "online"}
    /\ \A c \in calls : c.kind \in {"load", "earlier", "read", "sync", "syncload"}
    /\ Cardinality({c \in calls : c.kind \in {"sync", "syncload"}}) <= IF chat.link = "synchronizing" THEN 1 ELSE 0

-----------------------------------------------------------------------------
(* Requests. *)

Call(kind) ==
    [kind |-> kind, answered |-> FALSE, late |-> FALSE, version |-> 0, before |-> 0, activity |-> 0,
     messages |-> {}, more |-> FALSE, rd |-> [last |-> 0, latest |-> 0, unread |-> 0]]

\* An event; old says that a synchronization has read the state after it.
Event(kind, id, rd) == [kind |-> kind, id |-> id, rd |-> rd, old |-> FALSE]

\* What the server reads for a request, and what it does.
Serve(c) ==
    /\ c \in calls /\ ~c.answered
    /\ LET older == {m \in channel.messages : m < c.before \/ c.before = 0}
           asked == Newest(older, PageSize) IN
       calls' = (calls \ {c}) \cup
           {[c EXCEPT !.answered = TRUE,
                      !.messages = IF c.kind \in {"load", "earlier", "syncload"} THEN asked ELSE {},
                      !.more = c.kind \in {"load", "earlier", "syncload"} /\ asked # older,
                      !.rd = IF c.kind = "sync" THEN ReadState(channel)
                             ELSE IF c.kind = "read" THEN AllRead(channel) ELSE @]}
    /\ IF c.kind = "read"
       THEN /\ channel' = [channel EXCEPT !.read = MaxOf({@, MaxOf(channel.messages)})]
            /\ feed' = IF chat.link = "lost" THEN feed
                       ELSE Append(feed, Event("read", 0, AllRead(channel)))
       ELSE /\ feed' = IF c.kind = "sync" THEN [i \in DOMAIN feed |-> [feed[i] EXCEPT !.old = TRUE]] ELSE feed
            /\ UNCHANGED channel
    /\ UNCHANGED <<chat, spent, missed>>

Load(kind) == [Call(kind) EXCEPT !.version = chat.version + 1, !.activity = chat.activity]
Done(c) == c \in calls /\ c.answered
Without(c) == calls' = calls \ {c}
Late(set) == {[c EXCEPT !.late = c.answered] : c \in set}
Acts == spent.acts < MaxActs /\ spent' = [spent EXCEPT !.acts = @ + 1]
Loses == spent.losses < MaxLosses /\ spent' = [spent EXCEPT !.losses = @ + 1]

Trim(list) == Newest(list, Retention)

\* The pane shows the channel: its messages are loaded unless they are there
\* or on their way; meanwhile scrolling is not looked at.
OpenChannel ==
    /\ ~chat.restoring /\ Acts
    /\ IF chat.loaded \/ chat.loading THEN UNCHANGED <<chat, calls>>
       ELSE /\ chat' = [chat EXCEPT !.version = @ + 1, !.loading = TRUE, !.restoring = TRUE]
            /\ calls' = calls \cup {Load("load")}
    /\ UNCHANGED <<channel, feed, missed>>

Loaded(c, w) ==
    IF w.version # c.version THEN w
    ELSE [w EXCEPT !.list = Trim(c.messages), !.earlier = c.more, !.loaded = TRUE, !.loading = FALSE]

\* A list that is replaced while an older page is on its way may get a gap.
Paging == \E c \in calls : c.kind = "earlier"

LoadAnswered(c) ==
    /\ Done(c) /\ c.kind = "load"
    /\ chat' = [Loaded(c, chat) EXCEPT !.restoring = FALSE]
    /\ Without(c)
    /\ missed' = (missed \/ (chat.version = c.version /\ (c.late \/ Paging)))
    /\ UNCHANGED <<channel, feed, spent>>

LoadEarlier ==
    /\ chat.list # {} /\ chat.earlier /\ ~chat.loading /\ Acts
    /\ chat' = [chat EXCEPT !.loading = TRUE]
    /\ calls' = calls \cup {[Call("earlier") EXCEPT !.before = MinOf(chat.list)]}
    /\ UNCHANGED <<channel, feed, missed>>

EarlierAnswered(c) ==
    /\ Done(c) /\ c.kind = "earlier"
    /\ chat' = [chat EXCEPT !.list = Trim(@ \cup c.messages), !.earlier = c.more, !.loading = FALSE]
    /\ Without(c) /\ missed' = (missed \/ c.late)
    /\ UNCHANGED <<channel, feed, spent>>

\* handleScroll, scheduleMarkRead and its timer.
Scroll(bottom) ==
    /\ ~chat.restoring /\ Acts
    /\ chat' = [chat EXCEPT !.bottom = bottom, !.timer = @ \/ (bottom /\ chat.rd.unread > 0)]
    /\ UNCHANGED <<channel, feed, calls, missed>>

MarkReadDue ==
    /\ chat.timer /\ chat' = [chat EXCEPT !.timer = FALSE]
    /\ calls' = IF chat.bottom THEN calls \cup {Call("read")} ELSE calls
    /\ UNCHANGED <<channel, feed, spent, missed>>

\* An answer that names a message not yet delivered: its event will be taken
\* for one already handled.
Outruns(c) == \E i \in DOMAIN feed : feed[i].kind = "created" /\ feed[i].id <= c.rd.latest

ReadAnswered(c) ==
    /\ Done(c) /\ c.kind = "read"
    /\ chat' = [chat EXCEPT !.rd = c.rd] /\ Without(c) /\ missed' = (missed \/ c.late \/ Outruns(c))
    /\ UNCHANGED <<channel, feed, spent>>

RequestFails(c) ==
    /\ c \in calls /\ c.kind \in {"load", "earlier", "read"} /\ Loses
    /\ chat' = [chat EXCEPT !.loading = IF c.kind = "read" \/ (c.kind = "load" /\ @ /\ chat.version # c.version)
                                        THEN @ ELSE FALSE,
                            !.restoring = @ /\ c.kind # "load"]
    /\ Without(c)
    /\ UNCHANGED <<channel, feed, missed>>

-----------------------------------------------------------------------------
(* A lost connection and its synchronization (app-socket.ts). *)

Lost ==
    /\ chat.link = "online" /\ Loses
    /\ chat' = [chat EXCEPT !.link = "lost"] /\ feed' = <<>>
    /\ UNCHANGED <<channel, calls, missed>>

Synchronize == [Call("sync") EXCEPT !.activity = chat.activity]

Opened ==
    /\ chat.link = "lost"
    /\ chat' = [chat EXCEPT !.link = "synchronizing", !.activity = 0]
    /\ calls' = calls \cup {[Call("sync") EXCEPT !.activity = 0]}
    /\ UNCHANGED <<channel, feed, spent, missed>>

Again(c) == chat' = chat /\ calls' = (calls \ {c}) \cup {Synchronize}

\* applyBootstrap and the forced load of the active channel.
SyncAnswered(c) ==
    /\ Done(c) /\ c.kind = "sync"
    /\ IF c.activity # chat.activity THEN Again(c) /\ UNCHANGED missed
       ELSE /\ missed' = FALSE
            /\ chat' = [chat EXCEPT !.rd = c.rd, !.loaded = FALSE, !.list = Trim(@),
                                    !.version = @ + 1, !.loading = TRUE]
            /\ calls' = Late(calls \ {c}) \cup {Load("syncload")}
    /\ UNCHANGED <<channel, feed, spent>>

SyncLoaded(c) ==
    /\ Done(c) /\ c.kind = "syncload"
    /\ LET w == Loaded(c, chat) IN
       IF c.activity # chat.activity
       THEN chat' = w /\ calls' = (calls \ {c}) \cup {Synchronize}
       ELSE chat' = [w EXCEPT !.link = "online"] /\ Without(c)
    /\ missed' = (missed \/ Paging)
    /\ UNCHANGED <<channel, feed, spent>>

-----------------------------------------------------------------------------
(* Events. *)

Created(w, id) ==
    IF id <= w.rd.latest THEN w
    ELSE [w EXCEPT !.list = IF w.loaded THEN Trim(@ \cup {id}) ELSE @,
                   !.rd.unread = IF id > w.rd.last THEN Least(@ + 1, Retention) ELSE @,
                   !.rd.latest = id]

Deleted(w, id) ==
    [w EXCEPT !.list = @ \ {id},
              !.rd.unread = IF id > w.rd.last /\ @ > 0 THEN @ - 1 ELSE @]

Cleared(w) == [w EXCEPT !.list = {}, !.earlier = FALSE, !.rd.unread = 0]

Handled(w, e) ==
    IF e.kind = "created" THEN Created(w, e.id)
    ELSE IF e.kind = "deleted" THEN Deleted(w, e.id)
    ELSE IF e.kind = "cleared" THEN Cleared(w)
    ELSE [w EXCEPT !.rd = e.rd]

Received_NotCounted(w, e) == IF w.link = "synchronizing" THEN w ELSE Handled(w, e)
Received(w, e) ==
    IF w.link = "synchronizing" THEN [w EXCEPT !.activity = @ + 1] ELSE Handled(w, e)

\* An event older than what was read: a change that is already counted is
\* counted again, a message is pushed behind a newer one.
Unforeseen(e) ==
    \/ e.old /\ e.kind # "created"
    \/ e.kind = "created" /\ e.id \notin chat.list /\ \E m \in chat.list : m > e.id

OnMessage ==
    /\ feed # <<>> /\ chat.link # "lost"
    /\ chat' = Received(chat, Head(feed)) /\ feed' = Tail(feed) /\ calls' = Late(calls)
    /\ missed' = (missed \/ (chat.link = "online" /\ Unforeseen(Head(feed))))
    /\ UNCHANGED <<channel, spent>>

-----------------------------------------------------------------------------
(* Other members and other pages of the account. *)

Sends(kind, id, rd) ==
    feed' = IF chat.link = "lost" THEN feed ELSE Append(feed, Event(kind, id, rd))
NoState == [last |-> 0, latest |-> 0, unread |-> 0]
Changes == spent.changes < MaxChanges /\ spent' = [spent EXCEPT !.changes = @ + 1]

MessageSent ==
    LET id == channel.sent + 1 IN
    /\ channel.sent < MaxMessages
    /\ channel' = [channel EXCEPT !.sent = id, !.messages = Trim(@ \cup {id})]
    /\ Sends("created", id, NoState)
    /\ UNCHANGED <<chat, calls, spent, missed>>

MessageDeleted(id) ==
    /\ id \in channel.messages /\ Changes
    /\ channel' = [channel EXCEPT !.messages = @ \ {id}]
    /\ Sends("deleted", id, NoState)
    /\ UNCHANGED <<chat, calls, missed>>

ChannelCleared ==
    /\ channel.messages # {} /\ Changes
    /\ channel' = [channel EXCEPT !.messages = {}]
    /\ Sends("cleared", 0, NoState)
    /\ UNCHANGED <<chat, calls, missed>>

ReadElsewhere ==
    /\ Changes
    /\ channel' = [channel EXCEPT !.read = MaxOf({@, MaxOf(channel.messages)})]
    /\ Sends("read", 0, AllRead(channel))
    /\ UNCHANGED <<chat, calls, missed>>

-----------------------------------------------------------------------------
Next ==
    \/ OpenChannel \/ LoadEarlier \/ MarkReadDue \/ Lost \/ Opened \/ OnMessage
    \/ \E b \in BOOLEAN : Scroll(b)
    \/ \E c \in calls :
         \/ Serve(c) \/ LoadAnswered(c) \/ EarlierAnswered(c) \/ ReadAnswered(c)
         \/ RequestFails(c) \/ SyncAnswered(c) \/ SyncLoaded(c)
    \/ MessageSent \/ ChannelCleared \/ ReadElsewhere
    \/ \E id \in 1 .. MaxMessages : MessageDeleted(id)

Spec == Init /\ [][Next]_chatVars

-----------------------------------------------------------------------------
\* A connected page with nothing under way shows the channel's messages
\* without a gap down to where it offers earlier ones, and counts as unread
\* what the server counts: no message lost between a load and the events, none
\* counted twice, none back after its deletion (app.ts:182-286,434-469).
MessagesAgree ==
    chat.link = "online" /\ calls = {} /\ feed = <<>> /\ ~missed =>
        /\ chat.rd.unread = ReadState(channel).unread
        /\ chat.loaded =>
             /\ chat.list \subseteq channel.messages
             /\ \A m \in channel.messages : (~chat.earlier \/ \E n \in chat.list : n < m) => m \in chat.list
=============================================================================
