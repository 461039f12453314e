----------------------------- MODULE TokenSaver -----------------------------
(***************************************************************************)
(* The optimizer of chat requests (optimizer.rs, optimize_prompt): one     *)
(* action per pass over the messages of a request.                         *)
(*                                                                         *)
(* A content is a sequence of lines.  A line has a text, may hold escape   *)
(* codes of a terminal, and may carry the marker of as many lines as were  *)
(* folded into it.  Sizes are in characters of the serialized body; of the *)
(* rest of the body there is only an empty array of tools.  Contents that  *)
(* are not strings, which the passes leave alone, are left out.            *)
(***************************************************************************)
EXTENDS FiniteSets, Integers, Sequences, SequencesExt

CONSTANTS
  Bodies,      \* that clients may send
  Configs,     \* that the policies of groups may come to
  TextLength,  \* text -> its characters
  EscapeLength,
  MarkerLength,
  MessageOverhead,
  NoBudget,
  NoBody       \* the state before a request

\* A text that is not blank has characters.
ASSUME TextsHaveLength ==
  /\ TextLength \in [DOMAIN TextLength -> Nat]
  /\ \A text \in DOMAIN TextLength : text # "blank" => TextLength[text] > 0
ASSUME LengthsAreNumbers == EscapeLength \in Nat /\ MarkerLength \in Nat

\* A client's lines are not folded.
Line == [text : DOMAIN TextLength, escape : BOOLEAN, count : Nat \ {0}]
Message == [role : STRING, content : Seq(Line)]
ASSUME BodiesAreBodies ==
  \A b \in Bodies :
    /\ b.messages \in Seq(Message)
    /\ \A i \in DOMAIN b.messages : \A k \in DOMAIN b.messages[i].content :
         b.messages[i].content[k].count = 1

ASSUME BudgetsAreNumbers == \A c \in Configs : c.budget = NoBudget \/ c.budget \in Nat

VARIABLES
  stage,       \* the pass that is next
  body,        \* as it was sent
  config,
  messages,    \* those that remain
  changed,
  surviving,   \* history: the messages that the budget was applied to
  sent         \* what goes to the provider, once that is decided

saverVars == <<stage, body, config, messages, changed, surviving, sent>>

LineLength(l) ==
  TextLength[l.text] + (IF l.escape THEN EscapeLength ELSE 0)
    + (IF l.count > 1 THEN MarkerLength ELSE 0)

\* Lines and the newlines between them.
ContentLength(content) ==
  IF content = <<>> THEN 0
  ELSE SumFunction([i \in DOMAIN content |-> LineLength(content[i])]) + Len(content) - 1

\* estimate_tokens: four characters are a token.
Estimate(chars) == (chars + 3) \div 4
TokensOf(m) == Estimate(ContentLength(m.content))
TokensIn(ms) == SumFunction([i \in DOMAIN ms |-> TokensOf(ms[i])])
EstimateBody(ms, emptyTools) ==
  LET MessageLength(m) == ContentLength(m.content) + MessageOverhead IN
  Estimate(SumFunction([i \in DOMAIN ms |-> MessageLength(ms[i])])
             + (IF emptyTools THEN Len("[]") ELSE 0))

\* The members of a sequence at some places, in their order.
At(seq, places) ==
  LET upTo[n \in 0..Len(seq)] ==
        IF n = 0 THEN <<>>
        ELSE IF n \in places THEN Append(upTo[n - 1], seq[n])
        ELSE upTo[n - 1]
  IN upTo[Len(seq)]

Before == EstimateBody(body.messages, body.emptyTools)
After == EstimateBody(messages, FALSE)

-----------------------------------------------------------------------------
Receive(b, c) ==
  /\ stage = "idle"
  /\ stage' = "dedup"
  /\ body' = b /\ config' = c /\ messages' = b.messages
  /\ UNCHANGED <<changed, surviving, sent>>

Proceed(next, remaining) ==
  /\ stage' = next
  /\ messages' = remaining
  /\ changed' = (changed \/ remaining # messages)
  /\ UNCHANGED <<body, config, surviving, sent>>

IsBlank(content) ==
  \A i \in DOMAIN content : content[i].text = "blank" /\ ~content[i].escape

\* Pass 1: blank messages go, and those that occurred before.
DropBlankAndRepeated ==
  LET Retained(i) ==
        ~IsBlank(messages[i].content) /\ \A j \in 1..(i - 1) : messages[j] # messages[i] IN
  /\ stage = "dedup"
  /\ Proceed("collapse", At(messages, {i \in DOMAIN messages : Retained(i)}))

\* Deliberately wrong: lines are counted wherever they occur again.
Repeats(content, i) == {j \in DOMAIN content : content[j] = content[i]}

\* The consecutive lines around line i that are the same.
Run(content, i) ==
  {j \in DOMAIN content : \A k \in (i..j) \cup (j..i) : content[k] = content[i]}

\* A run is folded if that makes it no longer.
Folds(content, i) ==
  LET n == Cardinality(Run(content, i)) IN
  n > 1 /\ MarkerLength + LineLength(content[i]) <= n * LineLength(content[i]) + n - 1

\* Of a run that is folded the first line stays, with the marker.
CollapseRepeatedLines(content) ==
  At([i \in DOMAIN content |->
        IF Folds(content, i)
          THEN [content[i] EXCEPT !.count = Cardinality(Run(content, i))]
          ELSE content[i]],
     {i \in DOMAIN content :
        Folds(content, i) => i = 1 \/ content[i - 1] # content[i]})

\* Pass 1.5.
Collapse ==
  LET Collapsed(m) == [m EXCEPT !.content = CollapseRepeatedLines(@)] IN
  /\ stage = "collapse"
  /\ Proceed("strip",
       IF config.collapse THEN [i \in DOMAIN messages |-> Collapsed(messages[i])]
       ELSE messages)

StripAnsiEscapes(content) ==
  [i \in DOMAIN content |-> [content[i] EXCEPT !.escape = FALSE]]

\* Pass 1.6: a message of nothing but escape codes goes.
Strip ==
  LET Stripped(m) == [m EXCEPT !.content = StripAnsiEscapes(@)]
      Remains(m) == Stripped(m) = m \/ ContentLength(Stripped(m).content) > 0
      kept == At(messages, {i \in DOMAIN messages : Remains(messages[i])}) IN
  /\ stage = "strip"
  /\ Proceed("trim",
       IF config.strip THEN [i \in DOMAIN kept |-> Stripped(kept[i])] ELSE messages)

\* Of the turns, from the last one, those that fit into what is left of the
\* budget; the last one in any case.
NewestThatFit(turns, tokens, budget) ==
  LET kept[n \in 0..Len(turns)] ==   \* of the last n turns
        IF n = 0 THEN <<>>
        ELSE LET m == turns[Len(turns) + 1 - n] IN
             IF tokens + TokensIn(kept[n - 1]) + TokensOf(m) <= budget \/ kept[n - 1] = <<>>
               THEN <<m>> \o kept[n - 1]
               ELSE kept[n - 1]
  IN kept[Len(turns)]

Systems(ms) == At(ms, {i \in DOMAIN ms : ms[i].role = "system"})
Turns(ms) == At(ms, {i \in DOMAIN ms : ms[i].role # "system"})

\* Deliberately wrong: the system prompts have no special place.
TrimmedAlike == NewestThatFit(messages, 0, config.budget)

Trimmed ==
  Systems(messages) \o
    NewestThatFit(Turns(messages), TokensIn(Systems(messages)), config.budget)

\* Pass 2, which does not count a new order as a change.
Trim ==
  LET remaining ==
        IF config.budget # NoBudget /\ Before > config.budget THEN Trimmed
        ELSE messages IN
  /\ stage = "trim" /\ messages # <<>>
  /\ stage' = "decide"
  /\ messages' = remaining
  /\ changed' = (changed \/ Len(remaining) < Len(messages))
  /\ surviving' = messages
  /\ UNCHANGED <<body, config, sent>>

Send(ms) ==
  /\ stage' = "sent"
  /\ sent' = ms
  /\ UNCHANGED <<body, config, messages, changed, surviving>>

SendAsReceived ==
  /\ \/ stage = "dedup" /\ ~config.enabled
     \/ stage = "trim" /\ messages = <<>>
     \/ stage = "decide" /\ ~changed /\ ~body.emptyTools
     \/ stage = "decide" /\ After >= Before
  /\ Send(body.messages)

SendOptimized ==
  /\ stage = "decide"
  /\ changed \/ body.emptyTools
  /\ After < Before
  /\ Send(messages)

SaverInit ==
  /\ stage = "idle" /\ body = NoBody /\ config = NoBody
  /\ messages = <<>> /\ changed = FALSE
  /\ surviving = <<>> /\ sent = <<>>

SaverNext ==
  \/ \E b \in Bodies, c \in Configs : Receive(b, c)
  \/ stage = "dedup" /\ config.enabled /\ DropBlankAndRepeated
  \/ Collapse \/ Strip \/ Trim
  \/ SendAsReceived \/ SendOptimized

SaverSpec == SaverInit /\ [][SaverNext]_saverVars

-----------------------------------------------------------------------------
\* What a message tells a model: folded lines count as often as they occurred,
\* and escape codes do not count.
Expanded(l) == [i \in 1..l.count |-> l.text]
Meaning(m) ==
  [role |-> m.role,
   lines |-> FlattenSeq([i \in DOMAIN m.content |-> Expanded(m.content[i])])]
Says(x) == \E k \in DOMAIN x.lines : x.lines[k] # "blank"
Meanings(ms) == {x \in {Meaning(ms[i]) : i \in DOMAIN ms} : Says(x)}

(***************************************************************************)
(* Without a budget that cuts turns, every message that says something is  *)
(* still said, line by line and as often as in the request, by a message   *)
(* of the same role, whichever passes are switched on; and nothing new is  *)
(* said (the safe set of optimizer.rs).                                    *)
(***************************************************************************)
LosesOnlyRepeats ==
  stage = "sent" /\ Len(messages) = Len(surviving) =>
    Meanings(sent) = Meanings(body.messages)

(***************************************************************************)
(* What a budget leaves of the messages that survived the other passes is  *)
(* all system prompts, the last turn, and only turns that fit besides; and *)
(* no request goes out empty (pass 2 of optimizer.rs).                     *)
(***************************************************************************)
TrimKeepsTheTask ==
  stage = "sent" /\ sent # body.messages =>
    LET turns == Turns(sent)
        before == Turns(surviving) IN
    /\ sent # <<>>
    /\ Systems(sent) = Systems(surviving)
    /\ before # <<>> => turns # <<>> /\ Last(turns) = Last(before)
    /\ Len(turns) > 1 /\ Len(sent) < Len(surviving) => TokensIn(sent) <= config.budget

(***************************************************************************)
(* The token saver saves without changing what is asked.                   *)
(***************************************************************************)
SavesSafely == LosesOnlyRepeats /\ TrimKeepsTheTask
=============================================================================
