------------------------------ MODULE LogLines ------------------------------
(***************************************************************************)
(* What the log on stderr shows of an event (logging.rs): the formatter    *)
(* writes a line of JSON into a buffer of its own; when the line is        *)
(* complete the buffer is redacted as text and written out.  The previews  *)
(* of tool arguments in the audit log are redacted by a walk of the JSON   *)
(* value instead (parse.rs).                                               *)
(*                                                                         *)
(* A line is a sequence of tokens: a string with its quotes is one, a      *)
(* literal another, and so is each bracket, comma and colon.  A name is    *)
(* sensitive or not (the lists of the two files differ); no value spells a *)
(* sensitive name, and no string holds braces.                             *)
(***************************************************************************)
EXTENDS FiniteSetsExt, Integers, Sequences

CONSTANTS
  FieldNames,
  SENSITIVE_FIELDS,
  MaxNesting,   \* bounds how deep values are inside of others
  Events        \* the JSON values that are logged

Brackets == {"lbrace", "rbrace", "lbracket", "rbracket"}
Punctuation == Brackets \cup {"comma", "colon"}

ASSUME NamesAreNames ==
  /\ FieldNames \cap (Punctuation \cup {"text", "literal", "redaction"}) = {}
  /\ SENSITIVE_FIELDS \subseteq FieldNames

ASSUME NestingIsBounded == MaxNesting \in Nat

VARIABLES
  event,   \* what is logged
  stderr   \* the lines written

lineVars == <<event, stderr>>

-----------------------------------------------------------------------------
(* JSON values, and the lines that stand for them *)

Text   == [kind |-> "text"]
Number == [kind |-> "number"]
Redacted == [kind |-> "redacted"]
Object(fields) == [kind |-> "object", fields |-> fields]
Array(items)   == [kind |-> "array", items |-> items]

Scalars == {Text, Number, Redacted}
Fields(values) == [key : FieldNames, value : values]
Nested(values) ==
  [kind : {"object"}, fields : Seq(Fields(values))] \cup [kind : {"array"}, items : Seq(values)]

\* The values with at most n others around one.
Json[n \in 0..MaxNesting] ==
  IF n = 0 THEN Scalars ELSE Scalars \cup Nested(Json[n - 1])

ASSUME EventsAreJson == Events \subseteq Json[MaxNesting]

\* A text with its n-th part.
WithPart(text, n, part) == text \o (IF n = 1 THEN <<>> ELSE <<"comma">>) \o part

Commas(parts) ==
  LET upTo[n \in 0..Len(parts)] ==
        IF n = 0 THEN <<>> ELSE WithPart(upTo[n - 1], n, parts[n])
  IN upTo[Len(parts)]

\* The text of a value, by the texts of those in it.
Format(value, inner) ==
  CASE value.kind = "text"     -> <<"text">>
    [] value.kind = "number"   -> <<"literal">>
    [] value.kind = "redacted" -> <<"redaction">>
    [] value.kind = "object"   ->
         <<"lbrace">> \o Commas([i \in DOMAIN value.fields |->
                              <<value.fields[i].key, "colon">> \o inner[value.fields[i].value]])
           \o <<"rbrace">>
    [] value.kind = "array"    ->
         <<"lbracket">> \o Commas([i \in DOMAIN value.items |-> inner[value.items[i]]]) \o <<"rbracket">>

Formatted[n \in 0..MaxNesting] ==
  [value \in Json[n] |-> Format(value, IF n = 0 THEN <<>> ELSE Formatted[n - 1])]

Serialize(value) == Formatted[MaxNesting][value]

-----------------------------------------------------------------------------
(* Redaction of a value, and of a line *)

\* A value without what is sensitive in it, by what is done to those in it.
Redact(value, inner) ==
  CASE value.kind = "object" ->
         Object([i \in DOMAIN value.fields |->
           LET field == value.fields[i]
           IN [key   |-> field.key,
               value |-> IF field.key \in SENSITIVE_FIELDS THEN Redacted
                         ELSE inner[field.value]]])
    [] value.kind = "array" -> Array([i \in DOMAIN value.items |-> inner[value.items[i]]])
    [] OTHER -> value

Redaction[n \in 0..MaxNesting] ==
  [value \in Json[n] |-> Redact(value, IF n = 0 THEN <<>> ELSE Redaction[n - 1])]

RedactSensitiveValues(value) == Redaction[MaxNesting][value]

\* The first of some places of a line, from one on; behind the line if none is.
NextAt(line, from, places) == Min({i \in from..Len(line) : i \in places} \cup {Len(line) + 1})

Closing(bracket) == IF bracket = "lbrace" THEN "rbrace" ELSE "rbracket"

\* Deliberately wrong: the next closing bracket is taken for the matching one.
NextBracket(line, start) ==
  NextAt(line, start, {i \in DOMAIN line : line[i] = Closing(line[start])})

Often(line, token, i, j) == Cardinality({k \in i..j : line[k] = token})

\* The first place at which as many brackets of the kind are closed as opened.
MatchingBracket(line, start) ==
  NextAt(line, start,
         {i \in DOMAIN line : Often(line, line[start], start, i)
                                = Often(line, Closing(line[start]), start, i)})

\* Behind the value that starts there.
FindValueEnd(line, start) ==
  IF line[start] \in {"lbrace", "lbracket"} THEN MatchingBracket(line, start) + 1
  ELSE IF line[start] \notin Punctuation \cup {"literal"} THEN start + 1
  ELSE NextAt(line, start, {i \in DOMAIN line : line[i] \in {"comma", "rbrace", "rbracket"}})

\* A turn of the loop in redact_json_fields, with what has been read and written.
ReadOn(line, done) ==
  LET i == done.place
      start == NextAt(line, i + 1, {j \in DOMAIN line : line[j] # "colon"})
  IN CASE i > Len(line) -> done
       [] i <= Len(line) /\ line[i] \notin SENSITIVE_FIELDS ->
            [place |-> i + 1, out |-> Append(done.out, line[i])]
       [] i <= Len(line) /\ line[i] \in SENSITIVE_FIELDS /\ start > Len(line) ->
            [place |-> i + 1, out |-> done.out \o SubSeq(line, i, start - 1) \o <<line[i]>>]
       [] i <= Len(line) /\ line[i] \in SENSITIVE_FIELDS /\ start <= Len(line) ->
            [place |-> FindValueEnd(line, start),
             out   |-> done.out \o SubSeq(line, i, start - 1) \o <<"redaction">>]

RedactJsonFields(line) ==
  LET after[n \in 0..Len(line)] ==   \* n turns, each of which reads something
        IF n = 0 THEN [place |-> 1, out |-> <<>>] ELSE ReadOn(line, after[n - 1])
  IN after[Len(line)].out

-----------------------------------------------------------------------------
LineInit == event \in Events /\ stderr = <<>>

\* The writer of an event is dropped, which flushes it.
DropWriter ==
  /\ stderr = <<>>
  /\ stderr' = Append(stderr, RedactJsonFields(Serialize(event)))
  /\ UNCHANGED event

LineNext == DropWriter

LineSpec == LineInit /\ [][LineNext]_lineVars

-----------------------------------------------------------------------------
(* Redacting the text of a line is redacting the value that it stands for: *)
(* every value of a sensitive key is hidden as a whole, at any depth,      *)
(* nothing else is, and the line is still the JSON of an event             *)
(* (redact_json_fields against redact_sensitive_values).                   *)
LinesAreRedactedEvents ==
  \A i \in DOMAIN stderr : stderr[i] = Serialize(RedactSensitiveValues(event))
=============================================================================
