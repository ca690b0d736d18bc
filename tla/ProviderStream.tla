---------------------------- MODULE ProviderStream ----------------------------
(***************************************************************************)
(* A streamed answer of a model provider (cognition/streaming.py, and      *)
(* _postStreaming of both gateways).  The provider writes its events as    *)
(* lines of bytes; the network hands them over in chunks of any size and   *)
(* may end anywhere, which looks the same as the end of the answer.  The   *)
(* line reader, the event assembler and the accumulator of the provider's  *)
(* dialect must put together the whole answer or none.                     *)
(*                                                                         *)
(* The data of an event is written in two halves, on one line or on two; a *)
(* piece of text is the position of the event that carries it.             *)
(***************************************************************************)
EXTENDS Integers, Sequences, FiniteSets, SequencesExt, Filters

CONSTANTS
    MaxStreamBytes,        \* MAX_PROVIDER_STREAM_BYTES
    MaxContentCharacters,  \* MAX_PROVIDER_CONTENT_CHARACTERS
    ChunkBytes             \* PROVIDER_STREAM_READ_CHUNK_BYTES

ASSUME ProviderStreamAssumption ==
    {MaxStreamBytes, MaxContentCharacters, ChunkBytes} \subseteq Nat \ {0}

VARIABLES
    stream,    \* what the provider writes: dialect, events, line ends, layout
    received,  \* receivedBytes
    pending,   \* the bytes of the line that has not ended
    reader,    \* dataLines and the fields of the accumulator
    reply      \* where _postStreaming stands, and its outcome

streamVars == <<stream, received, pending, reader, reply>>

-----------------------------------------------------------------------------
(* The providers: which events they send, external.                        *)

Dialects == {"chat", "openai", "anthropic", "google", "legacyGoogle"}

Openings == {<<"text", "text">>, <<"reasoning", "text">>, <<"comment", "text", "text", "text">>}

Closings(dialect) ==
    CASE dialect = "chat"      -> {<<"finish", "usage", "done">>, <<"finish", "done", "usage">>}
      [] dialect = "openai"    -> {<<"whole", "completed">>, <<"completedBare">>}
      [] dialect = "anthropic" -> {<<"finish", "stop">>}
      [] dialect = "google"    -> {<<"completed">>, <<"completedBare">>}
      [] OTHER                 -> {<<"finish">>}

Answers(dialect) ==
    {opening \o closing : opening \in Openings, closing \in Closings(dialect)}
        \union (IF dialect = "openai" THEN {<<"whole", "completedBare">>} ELSE {})

Transcripts(dialect) ==
    {IF dialect = "anthropic" THEN <<"start">> \o t ELSE t :
        t \in Answers(dialect) \union {<<"text", "error">>}}

\* The bytes of no event: the line ends, and the colon of a comment.
CR == <<0, 1>>
LF == <<0, 2>>
Colon == <<0, 3>>

Delimiters == {<<LF>>, <<CR>>, <<CR, LF>>}

\* The lines of event i: a comment and [DONE] take one, data one or two, and data ends
\* with an empty one.
Written(s, i) ==
    LET first == <<i, 1>>
        second == <<i, 2>> IN
    CASE s.events[i] = "comment" -> <<<<Colon>>>>
      [] s.split /\ s.events[i] \notin {"comment", "done"} -> <<<<first>>, <<second>>, <<>>>>
      [] OTHER -> <<<<first, second>>, <<>>>>

\* One sequence after the other.
Joined(parts) ==
    LET upTo[n \in 0..Len(parts)] == IF n = 0 THEN <<>> ELSE upTo[n - 1] \o parts[n]
    IN  upTo[Len(parts)]

Lines(s) == Joined([i \in 1..Len(s.events) |-> Written(s, i)])

Bytes(s) ==
    LET lines == Lines(s)
    IN  Joined([n \in 1..Len(lines) |-> lines[n] \o s.delimiter])

\* The events that carry text: the last piece of a legacy Google answer ends it.
CarriesText(s, i) ==
    \/ s.events[i] = "text"
    \/ s.events[i] = "finish" /\ s.dialect = "legacyGoogle"

\* The answer the provider gave.
Answer(s) ==
    LET places == 1..Len(s.events)
        pieces == Filtered([i \in places |-> i], {i \in places : CarriesText(s, i)})
    IN  IF pieces = <<>> /\ s.events[1] = "whole" THEN <<1>> ELSE pieces

-----------------------------------------------------------------------------
(* The accumulator.                                                        *)

NewReader ==
    [dataLines |-> <<>>, content |-> <<>>, finishReason |-> FALSE, done |-> FALSE,
     terminal |-> FALSE, finalBody |-> <<>>, inputUsage |-> {}, usage |-> {}, failed |-> FALSE]

Fail(r) == [r EXCEPT !.failed = TRUE]

\* Nothing is appended past the limit.
AppendContent(r, text) ==
    IF text = <<>> THEN r
    ELSE IF Len(r.content) + Len(text) > MaxContentCharacters THEN Fail(r)
    ELSE [r EXCEPT !.content = @ \o text]

AllUsage == {"input", "output"}

AcceptChat(r, kind, i) ==
    CASE kind = "text"   -> AppendContent(r, <<i>>)
      [] kind = "finish" -> [r EXCEPT !.finishReason = TRUE]
      [] kind = "usage"  -> [r EXCEPT !.usage = AllUsage]
      [] OTHER           -> r

\* The full text counts only when no delta came.
AcceptOpenAi(r, kind, i) ==
    CASE kind = "text"  -> AppendContent(r, <<i>>)
      [] kind = "whole" /\ r.content = <<>> -> AppendContent(r, Answer(stream))
      [] kind = "completed" ->
            [r EXCEPT !.terminal = TRUE, !.finalBody = <<Answer(stream)>>, !.usage = AllUsage]
      [] kind = "completedBare" ->
            [r EXCEPT !.terminal = TRUE, !.finalBody = <<<<>>>>, !.usage = AllUsage]
      [] OTHER -> r

\* The usage of the end is merged into the usage of the start.
AcceptAnthropic(r, kind, i) ==
    CASE kind = "start"  -> [r EXCEPT !.inputUsage = {"input"}]
      [] kind = "text"   -> AppendContent(r, <<i>>)
      [] kind = "finish" ->
            [r EXCEPT !.finishReason = TRUE, !.usage = r.inputUsage \union {"output"}]
      [] kind = "stop"   -> [r EXCEPT !.terminal = TRUE]
      [] OTHER           -> r

AcceptLegacyGoogle(r, kind, i) ==
    CASE kind = "text"   -> AppendContent(r, <<i>>)
      [] kind = "finish" ->
            [AppendContent(r, <<i>>) EXCEPT
                !.finishReason = TRUE, !.terminal = TRUE, !.usage = AllUsage]
      [] OTHER           -> r

AcceptGoogle(r, kind, i) ==
    CASE kind = "text" -> AppendContent(r, <<i>>)
      [] kind = "completed" ->
            [r EXCEPT !.terminal = TRUE, !.finalBody = <<Answer(stream)>>, !.usage = AllUsage]
      [] kind = "completedBare" ->
            [r EXCEPT !.terminal = TRUE, !.finalBody = <<<<>>>>, !.usage = AllUsage]
      [] OTHER -> r

Dispatch(r, kind, i) ==
    CASE stream.dialect = "openai"       -> AcceptOpenAi(r, kind, i)
      [] stream.dialect = "anthropic"    -> AcceptAnthropic(r, kind, i)
      [] stream.dialect = "google"       -> AcceptGoogle(r, kind, i)
      [] stream.dialect = "legacyGoogle" -> AcceptLegacyGoogle(r, kind, i)
      [] OTHER                           -> AcceptChat(r, kind, i)

\* accept: data that is not one whole event is no JSON, and nothing may follow [DONE].
AcceptEvent(r, data) ==
    LET i == data[1][1]
        whole == data = <<<<i, 1>>, <<i, 2>>>>
        kind == stream.events[i] IN
    IF whole /\ kind = "done" THEN [r EXCEPT !.done = TRUE]
    ELSE IF r.done \/ ~whole \/ kind = "error" THEN Fail(r)
    ELSE Dispatch(r, kind, i)

\* The data lines gathered so far are one event.
EndEvent(r) ==
    IF r.dataLines = <<>> THEN r
    ELSE [AcceptEvent(r, r.dataLines) EXCEPT !.dataLines = <<>>]

\* iterSseEvents on one line; nothing is read after a failure.
TakeLine(r, line) ==
    IF r.failed THEN r
    ELSE IF line = <<>> THEN EndEvent(r)
    ELSE IF line[1] = Colon THEN r
    ELSE [r EXCEPT !.dataLines = @ \o line]

-----------------------------------------------------------------------------
(* The line reader.                                                        *)

\* A line end is a CR, an LF or both: a CR that ends the bytes waits for the next ones.
LineEnds(bytes) ==
    {i \in 1 .. Len(bytes) :
        \/ bytes[i] = CR /\ i < Len(bytes)
        \/ bytes[i] = LF /\ ~(i > 1 /\ bytes[i - 1] = CR)}

\* Where the line after the end at i begins.
After(bytes, i) ==
    IF bytes[i] = CR /\ i < Len(bytes) /\ bytes[i + 1] = LF THEN i + 2 ELSE i + 1

\* The bytes are scanned: each line that ends is taken, and the next begins behind it.
Scanned(r, bytes) ==
    LET upTo[i \in 0..Len(bytes)] ==
            IF i = 0 THEN [reader |-> r, next |-> 1]
            ELSE LET before == upTo[i - 1]
                 IN  IF i \notin LineEnds(bytes) THEN before
                     ELSE [reader |-> TakeLine(before.reader, SubSeq(bytes, before.next, i - 1)),
                           next |-> After(bytes, i)]
    IN  upTo[Len(bytes)]

-----------------------------------------------------------------------------
(* _postStreaming.                                                         *)

Unanswered == [stage |-> "reading", ended |-> FALSE, body |-> <<>>, usage |-> {}]

StreamRecords ==
    UNION {[dialect : {d}, events : Transcripts(d), delimiter : Delimiters, split : BOOLEAN]
               : d \in Dialects}

StreamInit ==
    /\ stream \in StreamRecords
    /\ received = 0
    /\ pending = <<>>
    /\ reader = NewReader
    /\ reply = Unanswered

Reading == reply.stage = "reading"

\* No body: the bytes ended or were still coming.
Broken(stage, ended) == [stage |-> stage, ended |-> ended, body |-> <<>>, usage |-> {}]

\* The next n bytes: the limit is checked before they are kept.
Chunk(n) ==
    LET bytes == pending \o SubSeq(Bytes(stream), received + 1, received + n)
        scanned == Scanned(reader, bytes) IN
    /\ Reading
    /\ received + n <= Len(Bytes(stream))
    /\ received' = received + n
    /\ IF received + n > MaxStreamBytes
       THEN reply' = Broken("invalid", FALSE) /\ UNCHANGED <<pending, reader>>
       ELSE /\ pending' = SubSeq(bytes, scanned.next, Len(bytes))
            /\ reader' = scanned.reader
            /\ reply' = IF scanned.reader.failed THEN Broken("invalid", FALSE) ELSE reply
    /\ UNCHANGED stream

\* The end of the bytes is no success: each dialect has its own end of an answer.
RequireComplete(r) ==
    CASE stream.dialect = "chat"      -> r.done /\ r.finishReason
      [] stream.dialect = "openai"    -> r.terminal /\ r.finalBody # <<>>
      [] stream.dialect = "anthropic" -> r.terminal /\ r.finishReason
      [] OTHER -> r.terminal /\ (r.finalBody # <<>> \/ r.finishReason)

\* The text of a final body counts, unless it is empty.
BuildBody(r) ==
    IF r.finalBody # <<>> /\ r.finalBody[1] # <<>> THEN r.finalBody[1] ELSE r.content

UsageOf(r) == IF r.usage # {} THEN r.usage ELSE r.inputUsage

\* The last line needs no end, and the last event no blank line.
LastLine == IF Last(pending) = CR THEN Front(pending) ELSE pending

EndOfStream ==
    LET taken == IF pending = <<>> THEN reader ELSE TakeLine(reader, LastLine)
        ended == IF taken.failed THEN taken ELSE EndEvent(taken) IN
    /\ Reading
    /\ reader' = ended
    /\ pending' = <<>>
    /\ reply' = IF ended.failed \/ ~RequireComplete(ended)
                THEN Broken("invalid", TRUE)
                ELSE [stage |-> "built", ended |-> TRUE, body |-> BuildBody(ended),
                      usage |-> UsageOf(ended)]
    /\ UNCHANGED <<stream, received>>

\* The timeout of the policy, or a connection that breaks with an error.
ConnectionFails ==
    /\ Reading
    /\ reply' = Broken("lost", FALSE)
    /\ UNCHANGED <<stream, received, pending, reader>>

StreamNext ==
    \/ \E n \in 1 .. ChunkBytes : Chunk(n)
    \/ EndOfStream
    \/ ConnectionFails

StreamSpec == StreamInit /\ [][StreamNext]_streamVars

-----------------------------------------------------------------------------
Byte == Nat \X Nat
Readers ==
    [dataLines : Seq(Byte), content : Seq(Nat), finishReason : BOOLEAN, done : BOOLEAN,
     terminal : BOOLEAN, finalBody : Seq(Seq(Nat)), inputUsage : SUBSET AllUsage,
     usage : SUBSET AllUsage, failed : BOOLEAN]

\* The type invariant of the stream.
StreamTypeOK ==
    /\ stream \in StreamRecords
    /\ received \in 0 .. Len(Bytes(stream))
    /\ Reading => \E n \in 0 .. received : pending = SubSeq(Bytes(stream), n + 1, received)
    /\ reader \in Readers /\ Len(reader.content) <= MaxContentCharacters
    /\ reply.stage \in {"reading", "built", "invalid", "lost"} /\ reply.usage \subseteq AllUsage

\* An error is no answer, and neither is one that goes on after [DONE].
Answered(s) ==
    /\ ~\E i \in 1 .. Len(s.events) : s.events[i] = "error"
    /\ Last(s.events) = "done" \/ s.dialect # "chat"

\* Wherever the network cuts the bytes, and however it divides them, an answer is put
\* together whole, in its order and with its usage, or it is not put together; and one
\* that arrived within the limits is (buildBody, _iterBoundedUtf8Lines).
StreamIsWhole ==
    /\ reply.stage = "built" =>
          reply.body = Answer(stream) /\ (Answered(stream) => reply.usage = AllUsage)
    /\ /\ reply.stage = "invalid"
       /\ reply.ended => received = Len(Bytes(stream))
       /\ received <= MaxStreamBytes
       /\ Len(Answer(stream)) <= MaxContentCharacters
       => ~Answered(stream)
=============================================================================
