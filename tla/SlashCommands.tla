----------------------------- MODULE SlashCommands -----------------------------
(***************************************************************************)
(* The slash commands of the composer: web/src/slash-commands.ts, with      *)
(* executeSlashCommand (app.ts) and send (ChatPane.vue).  A command is      *)
(* offered word by word, parsed when it is sent, and answered later, while  *)
(* the members change; one channel is modelled.                             *)
(*                                                                         *)
(* An input is the sequence of words after its slash, with an empty last    *)
(* word when it ends in a space, and one empty word for the slash alone;    *)
(* `Text' and `Escaped' (two slashes) are no commands.  A member is the     *)
(* word that names it.                                                      *)
(***************************************************************************)
EXTENDS Naturals, Sequences, FiniteSets

CONSTANTS
    MaxActs,      \* bound: changes of the user, commands given
    MaxWords      \* bound: words of an input

SlashCommandsAssumption == MaxActs \in Nat /\ MaxWords \in Nat

VARIABLES
    input,     \* what the composer of the channel holds
    members,   \* the member list: role and whether the account is active
    me,        \* the own role in the guild, and platform administration
    sending,   \* the command or message under way, {} for none
    answers,   \* how many answers the channel shows
    spent,     \* bounds
    given      \* history: commands sent

scVars == <<input, members, me, sending, answers, spent, given>>

Me == "@me"
Names == {Me, "@an", "@ann"}

Numbers == {"5"}
NoNumbers == {"1.5", "9999999999"}
Partial == {"@", "@a"}

\* The words tried at each place of an input.
Words(place) ==
    {"", "zz"} \cup CASE place = 1 -> {"xp"} [] place = 2 -> {"get", "set"} [] place = 3 -> Names \cup Partial
                      [] OTHER -> Numbers \cup NoNumbers

Text == <<"text">>
Escaped == <<"escaped">>
IsCommand(words) == words # Text /\ words # Escaped /\ words # <<>>

\* What startsWith says of a typed word and a name.
Begins(typed, name) ==
    \/ typed \in {"", "@"} \/ typed = name
    \/ typed \in {"@a", "@an"} /\ name \in {"@an", "@ann"}

Init ==
    /\ input = <<>>
    /\ me \in [role : {"owner", "admin", "member"}, platform : BOOLEAN]
    /\ members = [n \in Names |-> [role |-> CASE n = Me -> me.role [] n = "@ann" -> "admin" [] OTHER -> "member",
                                   active |-> TRUE]]
    /\ sending = {}
    /\ answers = 0
    /\ spent = 0
    /\ given = 0

TypeOK ==
    /\ Len(input) <= MaxWords + 1
    /\ Cardinality(sending) <= 1 /\ \A s \in sending : s.stage \in {"get", "set", "message"}

-----------------------------------------------------------------------------
(* Who may be named. *)

Found(n) == n \in Names /\ members[n].active

CanUseSet == me.role \in {"owner", "admin"} \/ me.platform

CanManageTarget(n) ==
    /\ CanUseSet
    /\ CASE members[n].role = "owner" -> me.role = "owner" /\ n = Me
         [] members[n].role = "admin" -> me.role = "owner" \/ me.platform
         [] OTHER -> TRUE

-----------------------------------------------------------------------------
(* Suggestions: what is offered, and the input once it is accepted. *)

Trailing(words) == Len(words) > 1 /\ words[Len(words)] = ""
Word(words, i) == IF i <= Len(words) THEN words[i] ELSE ""

Visible == {"get"} \cup (IF CanUseSet THEN {"set"} ELSE {})
BeginsWord(typed, word) == typed = "" \/ typed = word

Offer(of, words) == [of |-> of, words |-> words]

\* getMemberSuggestions: the name replaces what was typed of it, found by its
\* last occurrence; where nothing was typed and no space either, the name is
\* written on to the word before.
Glued == "set@name"

MemberWords(words, n) ==
    IF Len(words) >= 3 THEN SubSeq(words, 1, 2) \o <<n, "">> ELSE <<words[1], Glued, "">>

Candidates(words, sub) ==
    {n \in Names : /\ members[n].active
                   /\ sub = "set" => CanManageTarget(n)
                   /\ Begins(Word(words, 3), n)}

MemberSuggestions(words, sub) ==
    IF \/ Len(words) > 3 \/ (sub = "get" /\ Len(words) < 3)
       \/ Word(words, 3) \notin Names \cup Partial \cup {""}
       \/ ~Trailing(words) /\ Candidates(words, sub) = {Word(words, 3)}
    THEN {} ELSE {Offer(n, MemberWords(words, n)) : n \in Candidates(words, sub)}

SlashSuggestions(words) ==
    CASE ~IsCommand(words) -> {}
      [] Len(words) = 1 -> IF BeginsWord(words[1], "xp") THEN {Offer("xp", <<"xp", "">>)} ELSE {}
      [] words[1] # "xp" -> {}
      [] Len(words) <= 2 /\ Word(words, 2) \notin {"get", "set"} ->
            {Offer(s, <<"xp", s, "">>) : s \in {v \in Visible : BeginsWord(Word(words, 2), v)}}
      [] Word(words, 2) \in {"get", "set"} -> MemberSuggestions(words, Word(words, 2))
      [] OTHER -> {}

-----------------------------------------------------------------------------
(* Sending. *)

Trimmed(words) == IF Trailing(words) THEN SubSeq(words, 1, Len(words) - 1) ELSE words

\* submitSlashCommand, submitGet, submitSet: what a command does before it asks
\* the server, an error or a request about a member.
Ask(of, n) == [outcome |-> of, target |-> n]
Wrong(error) == Ask(error, Me)

Parsed(words) ==
    CASE ~IsCommand(words) -> Ask("message", Me)
      [] Word(words, 1) # "xp" -> Wrong("unknown command")
      [] Word(words, 2) = "get" ->
            CASE Len(words) > 3 -> Wrong("parameters")
              [] Len(words) = 2 -> Ask("get", Me)
              [] Found(words[3]) -> Ask("get", words[3])
              [] OTHER -> Wrong("no such member")
      [] Word(words, 2) = "set" ->
            CASE ~CanUseSet -> Wrong("not allowed")
              [] Len(words) # 4 -> Wrong("parameters")
              [] ~(Found(words[3]) /\ CanManageTarget(words[3])) -> Wrong("no such member")
              [] words[4] \notin Numbers -> Wrong("parameters")
              [] OTHER -> Ask("set", words[3])
      [] OTHER -> Wrong("unknown subcommand")

Acts == spent < MaxActs /\ spent' = spent + 1

Front(words) == SubSeq(words, 1, Len(words) - 1)

Typed(words) ==
    CASE words = <<>> -> {Text, Escaped} \cup {<<w>> : w \in Words(1)}
      [] IsCommand(words) -> {Trimmed(words), Front(Trimmed(words))} \cup {Append(Trimmed(words), w) : w \in Words(Len(Trimmed(words)) + 1)}
      [] OTHER -> {<<>>}

\* The user types a word, a space, or takes the last word back.
Type ==
    /\ \E words \in Typed(input) :
        Len(words) <= MaxWords /\ input' = words
    /\ UNCHANGED <<members, me, sending, answers, spent, given>>

Accept ==
    /\ \E o \in SlashSuggestions(input) : input' = o.words
    /\ UNCHANGED <<members, me, sending, answers, spent, given>>

\* A member is banned, comes back, or gets another role; so do I.
MembersChange ==
    /\ Acts
    /\ \E n \in Names :
          \/ n # Me /\ members' = [members EXCEPT ![n].active = ~@]
          \/ members' = [members EXCEPT ![n].role = IF @ = "member" THEN "admin" ELSE "member"]
    /\ me' = [me EXCEPT !.role = members'[Me].role]
    /\ UNCHANGED <<input, sending, answers, given>>

\* send: an error is answered at once and keeps the text; a message takes the
\* same way as any other.
Send ==
    /\ Acts /\ sending = {} /\ Trimmed(input) # <<>>
    /\ LET p == Parsed(Trimmed(input)) IN
       /\ given' = IF IsCommand(input) THEN given + 1 ELSE given
       /\ IF p.outcome \in {"message", "get", "set"}
          THEN sending' = {[stage |-> p.outcome, target |-> p.target]} /\ UNCHANGED answers
          ELSE answers' = answers + 1 /\ UNCHANGED sending
    /\ UNCHANGED <<input, members, me>>

\* The server's answer: a refusal keeps the text.
Answered ==
    \E s \in sending :
        /\ sending' = {}
        /\ input' \in {input, <<>>}
        /\ answers' = IF s.stage = "message" THEN answers ELSE answers + 1
        /\ UNCHANGED <<members, me, spent, given>>

Next == Type \/ Accept \/ MembersChange \/ Send \/ Answered

Spec == Init /\ [][Next]_scVars

-----------------------------------------------------------------------------
(* Properties. *)

\* The command an offer is completed to, with what still has to be typed.
Completed(o) == Trimmed(o.words) \o (IF Word(o.words, 2) = "set" THEN <<"5">> ELSE <<>>)

\* What is offered works: a word of a command leads to offers or to a request,
\* and a member is the one the finished command then asks the server about.  The
\* member list offered to "/xp set" without a space is excused: the name is
\* written on to the word.  And every command is answered once, or
\* still with the server (slash-commands.ts:104-311,
\* app.ts:244-252, ChatPane.vue:295-336).
CommandsAreAnswered ==
    /\ \A o \in SlashSuggestions(input) :
          \/ o.of \in Names /\ Parsed(Completed(o)) = Ask(Word(o.words, 2), o.of)
          \/ o.of = "get" /\ Parsed(Trimmed(o.words)) = Ask("get", Me)
          \/ o.of = "xp" /\ SlashSuggestions(o.words) # {}
          \/ o.of = "set" /\ {q.of : q \in SlashSuggestions(o.words)} = {n \in Names : Found(n) /\ CanManageTarget(n)}
          \/ input = <<"xp", "set">>
    /\ given = answers + Cardinality({s \in sending : s.stage # "message"})
=============================================================================
