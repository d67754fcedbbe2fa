--------------------------- MODULE CallPermissions ---------------------------
(***************************************************************************)
(* The call blocks an account's page shows: web/src/stores/                 *)
(* call-permissions.ts, driven by the profile card (CallBlockMenu.vue), the *)
(* settings page (CallSettingsTab.vue) and the overlay of an incoming call. *)
(* One account's blocks are read one by one, as a list and by a search, and *)
(* written from three places; answers come back in any order.               *)
(*                                                                         *)
(* A block is a number, 0 for none: each one set gets the next.  Its kind   *)
(* does not matter here, but for the temporary one's end: a permanent block *)
(* is one whose end does not come.                                          *)
(***************************************************************************)
EXTENDS Naturals, FiniteSets, TLC

CONSTANTS
    Users,         \* the others
    MaxEvents      \* bound: what the user does, what changes elsewhere, and failures

CallPermissionsAssumption ==
    IsFiniteSet(Users) /\ MaxEvents \in Nat

VARIABLES
    block,    \* the server: each user's block
    ended,    \* blocks whose time is over
    view,     \* the store
    calls,    \* requests under way
    spent,    \* bounds
    stale     \* history: what may be out of date, and not by the store's doing

cpVars == <<block, ended, view, calls, spent, stale>>

Shown == {"card", "known", "list"}
NoCard == [active |-> FALSE, status |-> "ready", block |-> 0]

Init ==
    /\ block = [u \in Users |-> 0] /\ ended = {}
    /\ view = [list |-> [u \in Users |-> 0], issue |-> FALSE, loading |-> FALSE, searching |-> FALSE,
               known |-> [u \in Users |-> {}], found |-> {}, card |-> [u \in Users |-> NoCard]]
    /\ calls = {}
    /\ spent = [events |-> 0, blocks |-> 0]
    /\ stale = [u \in Users |-> {"list"}]

TypeOK ==
    /\ view.found \subseteq Users
    /\ \A u \in Users : /\ view.list[u] <= spent.blocks /\ Cardinality(view.known[u]) <= 1
                        /\ view.card[u].status \in {"loading", "ready", "error"}
    /\ \A c \in calls : c.kind \in {"list", "card", "search", "set", "remove"} /\ c.of \subseteq Users

-----------------------------------------------------------------------------
(* Requests.  The versions and revisions a request compares when it returns *)
(* say whether it is the latest of its kind, and whether a block of its     *)
(* users (of any user, for a list and a search) was written meanwhile.      *)

Reads == {"list", "card", "search"}

Request(kind, of) ==
    [kind |-> kind, of |-> of, id |-> spent.events, latest |-> TRUE, untouched |-> TRUE, loud |-> FALSE,
     brief |-> FALSE, answered |-> FALSE, late |-> FALSE, result |-> [u \in of |-> 0]]

\* Requests of a kind about of are the latest no more.
Outdated(kind, of, cs) == {[c EXCEPT !.latest = @ /\ ~(c.kind = kind /\ c.of = of)] : c \in cs}

\* bumpMutationVersion
Touched(u, cs) == {[c EXCEPT !.untouched = @ /\ ~(c.kind \in {"list", "search"} \/ c.of = {u})] : c \in cs}

Start(c, cs) == Outdated(c.kind, c.of, cs) \cup {c}

Acts == spent.events < MaxEvents /\ spent' = [spent EXCEPT !.events = @ + 1]
Done(c) == c \in calls /\ c.answered

\* The answers of cs that tell of a user whose block changes.
Late(cs, u, kinds) == {[c EXCEPT !.late = @ \/ (c.answered /\ u \in c.of /\ c.kind \in kinds)] : c \in cs}

\* What the server does.  The store answers for its own writes overtaking a
\* read, not for the answers to two of its writes changing places.
ServeRead(c) ==
    /\ c \in calls /\ ~c.answered /\ c.kind \in Reads
    /\ calls' = (calls \ {c}) \cup {[c EXCEPT !.answered = TRUE, !.result = [u \in c.of |-> block[u]]]}
    /\ UNCHANGED <<block, ended, view, spent, stale>>

ServeWrite(c) ==
    /\ c \in calls /\ ~c.answered /\ c.kind \notin Reads
    /\ LET to == IF c.kind = "set" THEN spent.blocks + 1 ELSE 0 IN
       \E u \in c.of :
         /\ block' = [block EXCEPT ![u] = to]
         /\ calls' = Late(calls \ {c}, u, {"set", "remove"}) \cup
                     {[c EXCEPT !.answered = TRUE, !.result = (u :> to)]}
    /\ spent' = IF c.kind = "set" THEN [spent EXCEPT !.blocks = @ + 1] ELSE spent
    /\ UNCHANGED <<ended, view, stale>>

\* A block's time is over, or another page sets or removes one.
Foreign(u) ==
    /\ spent.events < MaxEvents
    /\ \E to \in {0, spent.blocks + 1} :
         /\ to # block[u] /\ block' = [block EXCEPT ![u] = to]
         /\ spent' = [spent EXCEPT !.events = @ + 1, !.blocks = IF to = 0 THEN @ ELSE to]
    /\ calls' = Late(calls, u, Reads \cup {"set", "remove"})
    /\ stale' = [stale EXCEPT ![u] = Shown]
    /\ UNCHANGED <<ended, view>>

Ends(u) ==
    /\ Acts /\ block[u] # 0
    /\ ended' = ended \cup {block[u]} /\ block' = [block EXCEPT ![u] = 0]
    /\ UNCHANGED <<view, calls, stale>>

\* History: what an answer that is applied leaves out of date.
Marks(of, what, late) ==
    stale' = [u \in Users |-> IF u \notin of THEN stale[u] ELSE IF late THEN stale[u] \cup what ELSE stale[u] \ what]

-----------------------------------------------------------------------------
(* The card. *)

SetKnown(u, b, w) ==
    [w EXCEPT !.known[u] = {b},
              !.card[u] = IF @.active THEN [@ EXCEPT !.block = b, !.status = "ready"] ELSE @]

\* fetchBlock, when the card opens and when a failed read is tried again.
FetchBlock(u) ==
    /\ Acts
    /\ ~view.card[u].active \/ view.card[u].status = "error"
    /\ view' = [view EXCEPT !.card[u] = [active |-> TRUE, status |-> "loading",
                                         block |-> IF @.active THEN @.block ELSE 0]]
    /\ calls' = Start(Request("card", {u}), calls)
    /\ UNCHANGED <<block, ended, stale>>

Fetched(c) == c.latest /\ c.untouched

FetchAnswered(c) ==
    /\ Done(c) /\ c.kind = "card" /\ calls' = calls \ {c}
    /\ \E u \in c.of :
         IF Fetched(c)
         THEN view' = SetKnown(u, c.result[u], view) /\ Marks({u}, {"card", "known"}, c.late)
         ELSE UNCHANGED <<view, stale>>
    /\ UNCHANGED <<block, ended, spent>>

FetchFailed(c) ==
    /\ c \in calls /\ c.kind = "card" /\ Acts /\ calls' = calls \ {c}
    /\ \E u \in c.of :
         view' = IF c.latest /\ c.untouched /\ view.card[u].active
                 THEN [view EXCEPT !.card[u].status = "error"] ELSE view
    /\ UNCHANGED <<block, ended, stale>>

\* expireBlockLocally, from the menu's tick.
Expire(u) ==
    /\ view.card[u].active /\ view.card[u].block \in ended
    /\ view' = [view EXCEPT !.known[u] = {0}, !.card[u] = [active |-> TRUE, status |-> "ready", block |-> 0]]
    /\ calls' = Outdated("card", {u}, calls)
    /\ UNCHANGED <<block, ended, spent, stale>>

\* clearBlockLocally
CloseCard(u) ==
    /\ view.card[u].active
    /\ view' = [view EXCEPT !.card[u] = NoCard]
    /\ calls' = Outdated("card", {u}, calls)
    /\ UNCHANGED <<block, ended, spent, stale>>

-----------------------------------------------------------------------------
(* The list. *)

\* refreshBlocks: the settings page reads it loudly, a write does not.
RefreshRequest(loud) == [Request("list", Users) EXCEPT !.loud = loud]
Refresh(loud, cs) ==
    Start(RefreshRequest(loud), IF loud THEN {[c EXCEPT !.loud = FALSE] : c \in cs} ELSE cs)

Initialize ==
    /\ Acts
    /\ view' = [view EXCEPT !.issue = FALSE, !.loading = TRUE]
    /\ calls' = Refresh(TRUE, calls)
    /\ UNCHANGED <<block, ended, stale>>

\* applyListSnapshot
Snapshot(result, w) ==
    [w EXCEPT !.list = result,
              !.known = [u \in Users |-> IF result[u] # 0 THEN {result[u]}
                                         ELSE IF u \in w.found THEN {0} ELSE {}]]

ListAnswered(c) ==
    /\ Done(c) /\ c.kind = "list" /\ calls' = calls \ {c}
    /\ LET w == [view EXCEPT !.loading = @ /\ ~c.loud] IN
       IF c.latest /\ c.untouched
       THEN view' = Snapshot(c.result, w) /\ Marks(Users, {"known", "list"}, c.late)
       ELSE view' = w /\ UNCHANGED stale
    /\ UNCHANGED <<block, ended, spent>>

ListFailed(c) ==
    /\ c \in calls /\ c.kind = "list" /\ Acts /\ calls' = calls \ {c}
    /\ view' = [view EXCEPT !.loading = @ /\ ~c.loud, !.issue = TRUE]
    /\ UNCHANGED <<block, ended, stale>>

-----------------------------------------------------------------------------
(* The search; it finds everybody. *)

Search ==
    /\ Acts
    /\ view' = [view EXCEPT !.searching = TRUE]
    /\ calls' = Start(Request("search", Users), calls)
    /\ UNCHANGED <<block, ended, stale>>

\* clearSearch, and a search for nothing.
ClearSearch ==
    /\ view.searching \/ view.found # {}
    /\ view' = [view EXCEPT !.searching = FALSE, !.found = {}]
    /\ calls' = Outdated("search", Users, calls)
    /\ UNCHANGED <<block, ended, spent, stale>>

SearchAnswered(c) ==
    /\ Done(c) /\ c.kind = "search" /\ calls' = calls \ {c}
    /\ LET w == [view EXCEPT !.searching = @ /\ ~c.latest] IN
       IF c.latest /\ c.untouched
       THEN /\ view' = [w EXCEPT !.found = Users, !.known = [u \in Users |-> {c.result[u]}]]
            /\ Marks(Users, {"known"}, c.late)
       ELSE view' = w /\ UNCHANGED stale
    /\ UNCHANGED <<block, ended, spent>>

SearchFailed(c) ==
    /\ c \in calls /\ c.kind = "search" /\ Acts /\ calls' = calls \ {c}
    /\ view' = [view EXCEPT !.searching = @ /\ ~c.latest]
    /\ UNCHANGED <<block, ended, stale>>

-----------------------------------------------------------------------------
(* Writes: from a card or the settings, followed by a reading of the list,  *)
(* and from an incoming call, which is not (brief).                         *)

Write(u) ==
    /\ Acts
    /\ \E kind \in {"set", "remove"}, brief \in BOOLEAN :
         /\ brief => kind = "set"
         /\ calls' = calls \cup {[Request(kind, {u}) EXCEPT !.brief = brief]}
    /\ UNCHANGED <<block, ended, view, stale>>

\* updateListProjection
InList(u, b, w) == [w EXCEPT !.list[u] = IF b = 0 \/ @ # 0 THEN b ELSE @]

\* setBlock, setBlockForCall and removeBlock, once the server has answered.
WriteAnswered(c) ==
    /\ Done(c) /\ c.kind \notin Reads
    /\ \E u \in c.of :
         LET cs == Touched(u, calls \ {c})
             w == InList(u, c.result[u], SetKnown(u, c.result[u], view))
             dropped == \E d \in calls : d.kind = "list" /\ d.latest IN
         /\ view' = IF c.brief THEN w ELSE [w EXCEPT !.issue = FALSE]
         /\ calls' = IF c.brief THEN cs ELSE Refresh(FALSE, cs)
         /\ stale' = [v \in Users |->
              (IF v # u THEN stale[v]
               ELSE IF c.late THEN Shown
               ELSE stale[v] \ (IF w.list[u] = c.result[u] THEN Shown ELSE {"card", "known"}))
              \cup (IF c.brief /\ (dropped \/ (v = u /\ w.list[u] # c.result[u])) THEN {"list"} ELSE {})]
    /\ UNCHANGED <<block, ended, spent>>

\* No answer comes, whether or not the server has done it.
WriteFailed(c) ==
    /\ c \in calls /\ c.kind \notin Reads /\ Acts
    /\ \E u \in c.of :
         /\ calls' = IF c.answered THEN Late(calls \ {c}, u, Reads \cup {"set", "remove"}) ELSE calls \ {c}
         /\ stale' = IF c.answered THEN [stale EXCEPT ![u] = Shown] ELSE stale
    /\ UNCHANGED <<block, ended, view>>

Next ==
    \/ \E u \in Users : Foreign(u) \/ Ends(u) \/ FetchBlock(u) \/ Expire(u) \/ CloseCard(u) \/ Write(u)
    \/ Initialize \/ Search \/ ClearSearch
    \/ \E c \in calls : \/ ServeRead(c) \/ ServeWrite(c) \/ FetchAnswered(c) \/ FetchFailed(c)
                        \/ ListAnswered(c) \/ ListFailed(c) \/ SearchAnswered(c) \/ SearchFailed(c)
                        \/ WriteAnswered(c) \/ WriteFailed(c)

Spec == Init /\ [][Next]_cpVars

-----------------------------------------------------------------------------
(* Properties. *)

\* A block as it is shown once its time is over.
Live(b) == IF b \in ended THEN 0 ELSE b

\* When every request has returned, an open card that is ready, the result of a
\* search and, unless the page says that it could not read it, the list show
\* the blocks the server has, whatever order reads and writes came back in;
\* except for what another page has changed since, for two writes of one
\* user's block whose answers changed places, and for the list while a block
\* is set from a call (call-permissions.ts:143-287).
BlocksAgree ==
    calls = {} =>
        /\ ~view.loading /\ ~view.searching
        /\ \A u \in Users :
             /\ view.card[u].active /\ view.card[u].status = "ready" /\ "card" \notin stale[u]
                    => Live(view.card[u].block) = block[u]
             /\ u \in view.found
                    => view.known[u] # {} /\ ("known" \notin stale[u] => \A b \in view.known[u] : Live(b) = block[u])
             /\ ~view.issue /\ "list" \notin stale[u] => Live(view.list[u]) = block[u]
=============================================================================
