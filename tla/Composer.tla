------------------------------- MODULE Composer -------------------------------
(***************************************************************************)
(* The message composer: the input part of web/src/components/ChatPane.vue, *)
(* mention-autocomplete.ts, message-mentions.ts and the drafts of app.ts.   *)
(* A mention chosen from the suggestions is bound to a span of the text;    *)
(* every way to change the text (typing, an input method, another channel,  *)
(* a message sent) has to keep the spans and the stored draft in step.      *)
(*                                                                         *)
(* Text is a sequence over four characters: the member u's name is u times  *)
(* "a", the only character legal in a name.  Positions count from 0, as in  *)
(* the code.  Case folding, ranking and layout are left out.                *)
(***************************************************************************)
EXTENDS Naturals, Sequences, FiniteSets

CONSTANTS
    Members,     \* who can be mentioned, numbers from 1
    MaxPending,  \* mentions of one message (10 in the code)
    MaxLength,   \* bound: length of the text
    MaxEdits,    \* bound: edits
    MaxActs      \* bound: messages sent, channels opened, compositions

ComposerAssumption ==
    /\ Members \subseteq Nat \ {0} /\ MaxPending \in Nat
    /\ MaxLength \in Nat /\ MaxEdits \in Nat /\ MaxActs \in Nat

VARIABLES
    c,        \* the composer: text, mentions, caret, suggestions, flags
    drafts,   \* local storage: text and mentions of each channel
    posts,    \* messages on their way
    spent,    \* bounds
    excused   \* history: a moment at which the code does not follow the text

cmVars == <<c, drafts, posts, spent, excused>>

Chars == {"@", "a", " ", "/"}
Channels == {1, 2}
None == {}

Init ==
    /\ c = [text |-> <<>>, pending |-> {}, caret |-> 0, channel |-> 1,
            kind |-> "slash", offered |-> {}, capped |-> FALSE, dismissed |-> None,
            slashDismissed |-> FALSE, ignore |-> FALSE, composing |-> None,
            restoring |-> FALSE, sending |-> FALSE]
    /\ drafts = [h \in Channels |-> [text |-> <<>>, pending |-> {}]]
    /\ posts = {}
    /\ spent = [edits |-> 0, acts |-> 0]
    /\ excused = FALSE

Mentions == [user : Members, start : Nat, end : Nat]

TypeOK ==
    /\ c.text \in Seq(Chars) /\ Len(c.text) <= MaxLength /\ c.caret <= Len(c.text)
    /\ c.pending \subseteq Mentions /\ Cardinality(c.pending) <= MaxPending
    /\ c.offered \subseteq Members \cup {0} /\ c.kind \in {"slash", "mention"}
    /\ c.sending => Cardinality(posts) = 1

-----------------------------------------------------------------------------
(* mention-autocomplete.ts. *)

Name(u) == [i \in 1 .. u |-> "a"]
Token(u) == <<"@">> \o Name(u)
Legal(char) == char = "a"

Slice(text, from, to) == SubSeq(text, from + 1, to)
CharAt(text, i) == text[i + 1]

RECURSIVE Trimmed(_)
Trimmed(text) ==
    IF text # <<>> /\ Head(text) = " " THEN Trimmed(Tail(text))
    ELSE IF text # <<>> /\ text[Len(text)] = " " THEN Trimmed(SubSeq(text, 1, Len(text) - 1))
    ELSE text

IsSlashInput(text) == Trimmed(text) # <<>> /\ Head(Trimmed(text)) = "/"

\* The trigger at the caret, {} for null: the last "@" with only legal
\* characters behind it, none legal before it, outside every bound span.
FindMentionTrigger(text, caret, pending, dismissed) ==
    LET ats == {i \in 0 .. caret - 1 : CharAt(text, i) = "@"}
        at == CHOOSE i \in ats : \A j \in ats : j <= i
        query == Slice(text, at + 1, caret)
        trigger == [at |-> at, length |-> Len(query)] IN
    IF \/ caret < 1 \/ IsSlashInput(text)
       \/ \E m \in pending : caret > m.start /\ caret <= m.end
       \/ ats = {}
    THEN None
    ELSE IF \/ at > 0 /\ Legal(CharAt(text, at - 1))
            \/ \E i \in 1 .. Len(query) : ~Legal(query[i])
            \/ dismissed = {trigger}
    THEN None
    ELSE {trigger}

\* listMentionCandidates, below the cap: a name that starts with the query.
Candidates(length, pending) ==
    {u \in Members : u >= length /\ \A m \in pending : m.user # u}

BoundSpanMatches(text, m) ==
    /\ m.end <= Len(text) /\ m.end > m.start
    /\ Slice(text, m.start, m.end) = Token(m.user)
    /\ m.start > 0 => ~Legal(CharAt(text, m.start - 1))
    /\ m.end < Len(text) => ~Legal(CharAt(text, m.end))

Shifted(m, by, from) == [m EXCEPT !.start = @ + by - from, !.end = @ + by - from]

\* insertMention: the text and the mentions with the trigger replaced.
InsertMention(text, trigger, u, pending) ==
    LET end == trigger.at + 1 + trigger.length
        kept == {m \in pending : m.end <= trigger.at \/ m.start >= end}
        moved == {IF m.start >= end THEN Shifted(m, u + 2, end - trigger.at) ELSE m : m \in kept} IN
    [text |-> Slice(text, 0, trigger.at) \o Token(u) \o <<" ">> \o Slice(text, end, Len(text)),
     pending |-> IF Cardinality(moved) < MaxPending /\ \A m \in moved : m.user # u
                 THEN moved \cup {[user |-> u, start |-> trigger.at, end |-> trigger.at + u + 1]}
                 ELSE moved]

\* editRange: the common prefix and, behind it, the common suffix.
EditRange(before, after) ==
    LET shorter == IF Len(before) < Len(after) THEN Len(before) ELSE Len(after)
        Same(n) == SubSeq(before, 1, n) = SubSeq(after, 1, n)
        start == CHOOSE n \in 0 .. shorter : Same(n) /\ (n = shorter \/ ~Same(n + 1))
        Tails(n) == \A i \in 0 .. n - 1 : before[Len(before) - i] = after[Len(after) - i]
        suffix == CHOOSE n \in 0 .. shorter - start :
                      Tails(n) /\ (n = shorter - start \/ ~Tails(n + 1)) IN
    [start |-> start, before |-> Len(before) - suffix, after |-> Len(after) - suffix]

RealignPendingMentions(after, before, pending) ==
    LET edit == EditRange(before, after)
        Next(m) == IF BoundSpanMatches(after, m) \/ m.end <= edit.start THEN {m}
                   ELSE IF m.start >= edit.before THEN {Shifted(m, edit.after, edit.before)}
                   ELSE {} IN
    {m \in UNION {Next(m) : m \in pending} : BoundSpanMatches(after, m)}

ParseDraftMentions(stored, text) == {m \in stored : BoundSpanMatches(text, m)}

-----------------------------------------------------------------------------
(* message-mentions.ts: the spans a reader of the message sees. *)

CompleteTokens(text, u) ==
    {i \in 0 .. Len(text) - 1 : BoundSpanMatches(text, [user |-> u, start |-> i, end |-> i + 1 + u])}

MentionHits(text, users) ==
    {[user |-> u, start |-> CHOOSE i \in CompleteTokens(text, u) : \A j \in CompleteTokens(text, u) : i <= j] :
        u \in {v \in users : CompleteTokens(text, v) # {}}}

-----------------------------------------------------------------------------
(* ChatPane.vue: functions of the composer. *)

CloseSuggestions(x) == [x EXCEPT !.offered = {}, !.capped = FALSE]

SlashOffers(text) == IF Trimmed(text) = <<"/">> THEN {0} ELSE {}

RefreshMentions(x) ==
    LET trigger == FindMentionTrigger(x.text, x.caret, x.pending, x.dismissed)
        y == [x EXCEPT !.slashDismissed = FALSE,
                       !.dismissed = IF trigger = @ THEN @ ELSE None] IN
    IF trigger = None THEN CloseSuggestions([y EXCEPT !.kind = "slash"])
    ELSE IF Cardinality(y.pending) >= MaxPending
         THEN [y EXCEPT !.kind = "mention", !.offered = {}, !.capped = TRUE]
    ELSE [y EXCEPT !.kind = "mention", !.capped = FALSE,
                   !.offered = UNION {Candidates(t.length, y.pending) : t \in trigger}]

RefreshSuggestions(x) ==
    IF x.composing # None THEN x
    ELSE IF ~IsSlashInput(x.text) THEN RefreshMentions(x)
    ELSE LET y == [x EXCEPT !.dismissed = None, !.kind = "slash", !.capped = FALSE] IN
         IF y.slashDismissed THEN CloseSuggestions(y) ELSE [y EXCEPT !.offered = SlashOffers(y.text)]

\* The watcher of the text: the draft is stored first, then the flags decide.
Skips(x) == x.ignore \/ x.restoring \/ x.composing # None

Watched(x, before) ==
    IF x.text = before THEN x
    ELSE IF x.ignore THEN [x EXCEPT !.ignore = FALSE]
    ELSE IF Skips(x) THEN x
    ELSE RefreshSuggestions([x EXCEPT !.slashDismissed = FALSE,
                                      !.pending = RealignPendingMentions(x.text, before, @)])

Write(x, mentions) == [drafts EXCEPT ![x.channel] = [text |-> x.text, pending |-> mentions]]

\* The composer's own writes announce themselves to the watcher.
Becomes(x, text, caret) ==
    Watched([x EXCEPT !.ignore = TRUE, !.text = text, !.caret = caret], c.text)

Act == spent.acts < MaxActs /\ spent' = [spent EXCEPT !.acts = @ + 1]

-----------------------------------------------------------------------------
(* Actions. *)

\* Typing: a range of the text becomes one character, or none.
Edit ==
    \E from \in 0 .. Len(c.text), to \in 0 .. Len(c.text), typed \in {<<>>} \cup {<<h>> : h \in Chars} :
        LET text == Slice(c.text, 0, from) \o typed \o Slice(c.text, to, Len(c.text))
            x == Watched([c EXCEPT !.text = text, !.caret = from + Len(typed)], c.text) IN
        /\ from <= to /\ to <= from + 1 /\ text # c.text /\ Len(text) <= MaxLength
        /\ spent.edits < MaxEdits
        /\ spent' = [spent EXCEPT !.edits = @ + 1]
        /\ c' = x
        /\ drafts' = Write(x, IF Skips(c) THEN drafts[c.channel].pending ELSE x.pending)
        /\ excused' = (excused \/ c.restoring)
        /\ UNCHANGED posts

CaretMove ==
    \E i \in 0 .. Len(c.text) :
        /\ i # c.caret
        /\ c' = RefreshSuggestions([c EXCEPT !.caret = i])
        /\ UNCHANGED <<drafts, posts, spent, excused>>

AcceptSlash ==
    /\ c.kind = "slash" /\ c.offered # {}
    /\ LET x == CloseSuggestions(Becomes([c EXCEPT !.slashDismissed = FALSE, !.dismissed = None], <<"/", " ">>, 2)) IN
       /\ c' = x
       /\ drafts' = Write(x, drafts[c.channel].pending)
    /\ UNCHANGED <<posts, spent, excused>>

AcceptMention ==
    \E u \in c.offered, t \in FindMentionTrigger(c.text, c.caret, c.pending, None) :
        LET inserted == InsertMention(c.text, t, u, c.pending)
            x == [Becomes(c, inserted.text, t.at + u + 2) EXCEPT !.pending = inserted.pending, !.dismissed = None] IN
        /\ c.kind = "mention" /\ Len(inserted.text) <= MaxLength
        /\ c' = CloseSuggestions(x)
        /\ drafts' = Write(x, x.pending)
        /\ UNCHANGED <<posts, spent, excused>>

Escape ==
    /\ c.composing = None /\ (c.capped \/ c.offered # {})
    /\ c' = CloseSuggestions(
                IF c.kind = "mention"
                THEN [c EXCEPT !.dismissed = FindMentionTrigger(c.text, c.caret, c.pending, None)]
                ELSE [c EXCEPT !.slashDismissed = TRUE])
    /\ UNCHANGED <<drafts, posts, spent, excused>>

\* The composer loses the focus, or the call overlay opens.
Blur ==
    /\ c.offered # {} \/ c.capped
    /\ c' = CloseSuggestions(c)
    /\ UNCHANGED <<drafts, posts, spent, excused>>

CompositionStart ==
    /\ c.composing = None /\ Act
    /\ c' = CloseSuggestions([c EXCEPT !.composing = {c.text}])
    /\ UNCHANGED <<drafts, posts, excused>>

CompositionEnd ==
    \E before \in c.composing :
        LET x == [c EXCEPT !.composing = None,
                           !.pending = IF before = c.text THEN @ ELSE RealignPendingMentions(c.text, before, @)] IN
        /\ c' = RefreshSuggestions(x)
        /\ drafts' = IF before = c.text THEN drafts ELSE [drafts EXCEPT ![c.channel].pending = x.pending]
        /\ UNCHANGED <<posts, spent, excused>>

\* Another text channel: its draft is read, its messages load, then its place.
OpenChannel ==
    \E h \in Channels \ {c.channel} :
        LET text == drafts[h].text
            x == [c EXCEPT !.channel = h, !.text = text, !.caret = Len(text), !.ignore = c.ignore /\ text = c.text,
                           !.pending = ParseDraftMentions(drafts[h].pending, text),
                           !.restoring = TRUE, !.dismissed = None, !.slashDismissed = FALSE] IN
        /\ Act
        /\ c' = CloseSuggestions(x)
        /\ drafts' = [drafts EXCEPT ![h].pending = x.pending]
        /\ excused' = (excused \/ c.composing # None)
        /\ UNCHANGED posts

Restored ==
    /\ c.restoring
    /\ c' = [c EXCEPT !.restoring = FALSE]
    /\ UNCHANGED <<drafts, posts, spent, excused>>

\* Enter or the button; a slash command takes the same way.
Send ==
    LET value == Trimmed(c.text) IN
    /\ value # <<>> /\ ~c.sending /\ Act
    /\ c' = [c EXCEPT !.sending = TRUE]
    /\ posts' = posts \cup {[text |-> value, channel |-> c.channel,
                             users |-> IF IsSlashInput(value) THEN {} ELSE {m.user : m \in c.pending}]}
    /\ excused' = (excused \/ c.composing # None)
    /\ UNCHANGED drafts

\* clearCurrentInput empties the channel's draft, and the composer if it still
\* shows that channel, with what was typed meanwhile.
Sent ==
    \E p \in posts :
        LET here == p.channel = c.channel
            x == IF here THEN CloseSuggestions(Becomes([c EXCEPT !.pending = {}, !.dismissed = None, !.slashDismissed = FALSE],
                                                       <<>>, 0))
                 ELSE c IN
        /\ c' = RefreshSuggestions([x EXCEPT !.sending = FALSE])
        /\ drafts' = [drafts EXCEPT ![p.channel] = [text |-> <<>>, pending |-> {}]]
        /\ posts' = posts \ {p}
        /\ UNCHANGED <<spent, excused>>

\* The request fails, or the command answers that the input is to stay.
NotSent ==
    \E p \in posts :
        /\ c' = RefreshSuggestions([c EXCEPT !.sending = FALSE])
        /\ posts' = posts \ {p}
        /\ UNCHANGED <<drafts, spent, excused>>

Next ==
    \/ Edit \/ CaretMove \/ AcceptSlash \/ AcceptMention \/ Escape \/ Blur
    \/ CompositionStart \/ CompositionEnd \/ OpenChannel \/ Restored \/ Send \/ Sent \/ NotSent

Spec == Init /\ [][Next]_cmVars

-----------------------------------------------------------------------------
(* Properties. *)

\* Unless the text changed while a channel was being restored, or a message
\* was sent or a channel opened in the middle of a composition: every mention
\* kept for the message is written where it is bound, no two share a place or
\* a member, the stored draft is the text with its mentions, and each message
\* on its way names every member it mentions, so that its readers see all of
\* them (ChatPane.vue:121-133, 245-360, mention-autocomplete.ts:110-209,
\* message-mentions.ts:13-69).
MentionsAreWritten ==
    excused \/
    /\ c.composing = None =>
          /\ \A m \in c.pending : BoundSpanMatches(c.text, m)
          /\ drafts[c.channel] = [text |-> c.text, pending |-> c.pending]
    /\ \A m, n \in c.pending : m = n \/ (m.user # n.user /\ (m.end <= n.start \/ n.end <= m.start))
    /\ \A p \in posts : {hit.user : hit \in MentionHits(p.text, p.users)} = p.users
    /\ c.kind = "mention" /\ c.offered # {} =>
          FindMentionTrigger(c.text, c.caret, c.pending, None) # None
=============================================================================
