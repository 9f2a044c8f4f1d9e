------------------------------ MODULE SseStream ------------------------------
(***************************************************************************)
(* The stream of server-sent events of a response (streaming.rs).          *)
(*                                                                         *)
(* A response is a sequence of bytes, which the network delivers in any    *)
(* chunks.  The three parts of a line stand for its bytes: what comes      *)
(* before the colon of "data:", some of the value, and the rest of it; a   *)
(* chunk may end between any two.  A line without an event is a comment, a *)
(* blank line or a field other than data.                                  *)
(***************************************************************************)
EXTENDS Naturals, Sequences, SequencesExt, FiniteSetsExt, WireTypes

CONSTANTS
    Bodies,         \* the responses: sequences of bytes
    Sources,        \* the streams a custom transport makes: sequences of items
    MaxGiveUps      \* bound on the polls an application drops

VARIABLES
    stream,         \* "closed", "open", "drained" or "failed" (no more bytes), "over"
    kind,           \* "typed", "raw" or "custom" (SseStream::from_stream)
    body,           \* bytes (or items) that have not been read
    buffer,         \* StreamState.buffer
    lines,          \* StreamState.lines
    polling,        \* the consumer waits in next()
    got,            \* the items it got
    giveUps
streamVars == <<stream, kind, body, buffer, lines, polling, got, giveUps>>

Nothing == <<"no data">>
Done == <<"[DONE]">>
NL == <<"newline">>
Part(event, k) == <<event, k>>
Line(event) == <<Part(event, 1), Part(event, 2), Part(event, 3)>>

NetworkError == <<"network error">>
ParseError == <<"serialization error">>

\* What each event of the responses is read as.
EventsOf(bytes) == {bytes[k][1] : k \in {j \in DOMAIN bytes : bytes[j] # NL}}
Item ==
    [as \in {"typed", "raw"} |-> [event \in UNION {EventsOf(b) : b \in Bodies} |->
        LET value == Read(IF as = "typed" THEN One("StreamEvent") ELSE Json, event)
        IN  IF value = Bad THEN ParseError ELSE value]]
\* parse_sse_data: no item, or one.
Parse(as, line) ==
    IF Len(line) < 2 \/ line[1][1] = Nothing \/ line = Line(Done) THEN <<>>
    ELSE IF Len(line) = 3 THEN <<Item[as][line[1][1]]>> ELSE <<ParseError>>
ParseAll(as, ls) == FlattenSeq([k \in DOMAIN ls |-> Parse(as, ls[k])])

\* The lines of some bytes that are ended, and the bytes behind the last of them.
Newlines(bytes) == {k \in DOMAIN bytes : bytes[k] = NL}
Before(bytes, end) == Max({0} \cup {k \in Newlines(bytes) : k < end})
LineAt(bytes, end) == SubSeq(bytes, Before(bytes, end) + 1, end - 1)
Complete(bytes) ==
    LET ends == SelectSeq([k \in DOMAIN bytes |-> k], LAMBDA k : bytes[k] = NL)
    IN  [n \in DOMAIN ends |-> LineAt(bytes, ends[n])]
Rest(bytes) == LineAt(bytes, Len(bytes) + 1)

StreamInit ==
    /\ stream = "closed" /\ kind = "raw" /\ body = <<>> /\ buffer = <<>> /\ lines = <<>>
    /\ polling = FALSE /\ got = <<>> /\ giveUps = 0

OpenStream(as, from) ==
    /\ stream = "closed" /\ stream' = "open"
    /\ kind' = as /\ body' = from
    /\ UNCHANGED <<buffer, lines, polling, got, giveUps>>

Poll ==
    /\ stream \in {"open", "drained", "failed"} /\ ~polling
    /\ polling' = TRUE
    /\ UNCHANGED <<stream, kind, body, buffer, lines, got, giveUps>>

\* A poll that waits for the network is dropped: what is read stays with the stream.
GiveUp ==
    /\ polling /\ lines = <<>> /\ stream = "open" /\ giveUps < MaxGiveUps
    /\ polling' = FALSE /\ giveUps' = giveUps + 1
    /\ UNCHANGED <<stream, kind, body, buffer, lines, got>>

Yield(items) == got' = got \o items /\ polling' = (items = <<>>)

TakeLine ==
    /\ polling /\ lines # <<>>
    /\ lines' = Tail(lines)
    /\ Yield(Parse(kind, Head(lines)))
    /\ UNCHANGED <<stream, kind, body, buffer, giveUps>>

\* Forgets the beginning of a line that came in an earlier chunk.
ReadChunkAlone(bytes) == lines' = Complete(bytes) /\ buffer' = Rest(bytes)
ReadChunk(bytes) == lines' = Complete(buffer \o bytes) /\ buffer' = Rest(buffer \o bytes)

Chunk ==
    /\ polling /\ lines = <<>> /\ stream = "open" /\ kind # "custom" /\ body # <<>>
    /\ \E n \in 1..Len(body) :
        /\ ReadChunk(SubSeq(body, 1, n))
        /\ body' = SubSeq(body, n + 1, Len(body))
    /\ UNCHANGED <<stream, kind, polling, got, giveUps>>

ConnectionFails ==
    /\ polling /\ lines = <<>> /\ stream = "open" /\ kind # "custom"
    /\ stream' = "failed" /\ body' = <<>>
    /\ Yield(<<NetworkError>>)
    /\ UNCHANGED <<kind, buffer, lines, giveUps>>

\* No more bytes: the line that is not ended is the last.
EndOfBody ==
    /\ polling /\ lines = <<>> /\ stream \in {"open", "drained", "failed"} /\ body = <<>>
    /\ IF buffer = <<>>
       THEN stream' = "over" /\ polling' = FALSE /\ UNCHANGED lines
       ELSE /\ lines' = <<buffer>>
            /\ stream' = (IF stream = "open" THEN "drained" ELSE stream)
            /\ UNCHANGED polling
    /\ buffer' = <<>>
    /\ UNCHANGED <<kind, body, got, giveUps>>

FromSource ==
    /\ polling /\ stream = "open" /\ kind = "custom" /\ body # <<>>
    /\ body' = Tail(body) /\ Yield(<<Head(body)>>)
    /\ UNCHANGED <<stream, kind, buffer, lines, giveUps>>

StreamStep ==
    Poll \/ GiveUp \/ TakeLine \/ Chunk \/ ConnectionFails \/ EndOfBody \/ FromSource

-----------------------------------------------------------------------------
\* The items of a whole response.
Script(as, bytes) ==
    IF as = "custom" THEN bytes
    ELSE ParseAll(as, Complete(bytes)) \o Parse(as, Rest(bytes))
AllScripts == {Script(as, b) : as \in {"typed", "raw"}, b \in Bodies} \cup Sources

\* What the consumer has yet to get: the lines that were split off, then what they leave.
Left ==
    IF stream \in {"closed", "over"} THEN <<>>
    ELSE ParseAll(kind, lines) \o Script(kind, buffer \o body)

Events == INSTANCE EventStream WITH
    state <- IF stream = "drained" THEN "open" ELSE stream, left <- Left,
    Scripts <- AllScripts

=============================================================================
