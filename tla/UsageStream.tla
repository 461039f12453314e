---------------------------- MODULE UsageStream -----------------------------
(***************************************************************************)
(* The usage of a streamed answer (proxy/forward.rs): bytes arrive in      *)
(* chunks that may end anywhere, lines are cut out of a buffer, and when   *)
(* the stream is over a task that waits for it counts the last usage.      *)
(*                                                                         *)
(* The line of a usage report is "data" and one of Reports; another line,  *)
(* as a comment, [DONE], a delta without usage or half a report, yields    *)
(* nothing.                                                                *)
(***************************************************************************)
EXTENDS Naturals, Sequences

CONSTANTS
  Reports,     \* usages a backend may report
  NoUsage,
  MaxBytes,    \* bound on the length of a stream
  MaxChunk     \* bound on the length of a chunk

ASSUME NoUsageIsNoReport == NoUsage \notin Reports

VARIABLES
  stream,      \* history: all that has arrived
  buffer,
  usage,       \* the shared handle
  phase,       \* of the stream
  signal,      \* of the oneshot channel
  counted      \* what the accounting task has taken for the usage, once it ran

streamVars == <<stream, buffer, usage, phase, signal, counted>>

Bytes == {"data", "newline"} \cup Reports

\* extract_usage_from_sse_line.
Extracted(line) ==
  IF Len(line) = 2 /\ line[1] = "data" /\ line[2] \in Reports
    THEN line[2] ELSE NoUsage

\* The usage after a line: the last one found is kept.
Scanned(line) == IF Extracted(line) = NoUsage THEN usage ELSE Extracted(line)

EndsLine(i) ==
  /\ i \in DOMAIN buffer /\ buffer[i] = "newline"
  /\ \A k \in 1..(i - 1) : buffer[k] # "newline"

\* The loop of extract_usage_from_sse_buffer is over: the next poll may come.
Drained == \A i \in DOMAIN buffer : buffer[i] # "newline"

\* Deliberately wrong: every chunk is read by itself.
ChunkAlone(bytes) ==
  /\ phase = "open" /\ Drained
  /\ stream' = stream \o bytes
  /\ buffer' = bytes
  /\ UNCHANGED <<usage, phase, signal, counted>>

Chunk(bytes) ==
  /\ phase = "open" /\ Drained
  /\ stream' = stream \o bytes
  /\ buffer' = buffer \o bytes
  /\ UNCHANGED <<usage, phase, signal, counted>>

\* A turn of the loop; nothing else happens to the stream before the last one.
TakeLine ==
  /\ phase = "open"
  /\ \E i \in DOMAIN buffer :
       /\ EndsLine(i)
       /\ usage' = Scanned(SubSeq(buffer, 1, i - 1))
       /\ buffer' = SubSeq(buffer, i + 1, Len(buffer))
  /\ UNCHANGED <<stream, phase, signal, counted>>

\* The end of the stream, or an error of the upstream: the buffer is flushed.
Finish ==
  /\ phase = "open" /\ Drained
  /\ phase' = "over"
  /\ usage' = Scanned(buffer) /\ buffer' = <<>>
  /\ signal' = "sent"
  /\ UNCHANGED <<stream, counted>>

\* The client goes away: the stream is dropped, and the sender with it.
DropStream ==
  /\ phase = "open" /\ Drained
  /\ phase' = "dropped"
  /\ signal' = "closed"
  /\ UNCHANGED <<stream, buffer, usage, counted>>

\* The task that waits for the signal takes either outcome for the end.
Count ==
  /\ signal # "none" /\ counted = <<>>
  /\ counted' = <<usage>>
  /\ UNCHANGED <<stream, buffer, usage, phase, signal>>

StreamInit ==
  /\ stream = <<>> /\ buffer = <<>>
  /\ usage = NoUsage
  /\ phase = "open" /\ signal = "none"
  /\ counted = <<>>

StreamNext ==
  \/ \E n \in 1..MaxChunk : \E bytes \in [1..n -> Bytes] :
       Len(stream) + n <= MaxBytes /\ Chunk(bytes)
  \/ TakeLine \/ Finish \/ DropStream \/ Count

StreamSpec == StreamInit /\ [][StreamNext]_streamVars

-----------------------------------------------------------------------------
\* A line of the whole stream: between two newlines, or after the last one.
LineAt(i, j) ==
  /\ i \in 1..(Len(stream) + 1) /\ j \in i..(Len(stream) + 1)
  /\ i = 1 \/ (i > 1 /\ stream[i - 1] = "newline")
  /\ \A k \in i..(j - 1) : stream[k] # "newline"
  /\ IF j <= Len(stream) THEN stream[j] = "newline" ELSE phase = "over"

Reported(i, j, r) == LineAt(i, j) /\ SubSeq(stream, i, j - 1) = <<"data", r>>

(***************************************************************************)
(* What is counted is the last usage in the lines of the stream that were  *)
(* completed, or in its last line if the stream ended by itself, however   *)
(* it was cut into chunks; and nothing if there is none (forward.rs,       *)
(* wrap_stream_with_usage_extraction).                                     *)
(***************************************************************************)
CountsLastReport ==
  LET places == 1..(Len(stream) + 1) IN
  \A u \in {counted[n] : n \in DOMAIN counted} :
    IF u = NoUsage
      THEN ~\E i, j \in places, r \in Reports : Reported(i, j, r)
      ELSE \E i, j \in places :
             /\ Reported(i, j, u)
             /\ ~\E k, l \in places, r \in Reports : k > i /\ Reported(k, l, r)
=============================================================================
