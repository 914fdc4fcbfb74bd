----------------------------- MODULE CloudStream -----------------------------
(***************************************************************************)
(* A cloud answer on its way to the client (internal/proxy/cloudtranslate  *)
(* .go and cloudtranslate_anthropic.go).  Up to two goroutines translate   *)
(* it, each reading from the one before through an unbuffered pipe:        *)
(*   provider -> translateAnthropicSSEToOpenAI -> translateSSEToNDJSON ->  *)
(*   client;  any of the four may stop at any time.  A body that is not a  *)
(* stream is translated in one piece, and so is the request.               *)
(***************************************************************************)
EXTENDS Integers, Sequences, SequencesExt, FiniteSets

CONSTANTS
    Texts,          \* pieces of text; "" is a member
    Tokens,         \* token counts a provider reports
    StopReasons,    \* Anthropic stop reasons; "" is a member
    Roles,          \* roles of the messages of a request
    MaxMessages,    \* bound: messages of a request
    MaxFrames       \* bound: frames the provider sends

VARIABLES
    via,        \* which translators the request goes through, and the client's shape
    wire,       \* provider: state of the connection and the frame in flight
    anthropic,  \* first translator: lines to write, how it ended, what it has read
    ndjson,     \* second translator
    client,     \* "here" or "gone"
    seen,       \* lines the client has received
    ended,      \* how the client's body ended: "no", "clean", "error"
    said,       \* history: what the provider's frames said
    reply       \* the whole answer, when it is not a stream
streamVars == <<via, wire, anthropic, ndjson, client, seen, ended, said, reply>>

NoFrame == [t |-> "none"]
NoReply == [t |-> "none"]

----------------------------------------------------------------------------
(* Lines of the three formats.                                                *)

Text(s) == [t |-> "text", s |-> s]
StopChunk(reason) == [t |-> "finish", reason |-> reason]
Usage(p, c) == [t |-> "usage", p |-> p, c |-> c]
Fault == [t |-> "fault"]
Marker == [t |-> "marker"]          \* data: [DONE]
Done(reason, p, c) == [t |-> "done", reason |-> reason, p |-> p, c |-> c]

OpenAIFinishReason(stop) ==
    CASE stop = "" -> ""
      [] stop = "max_tokens" -> "length"
      [] stop = "tool_use" -> "tool_calls"
      [] stop = "refusal" -> "content_filter"
      [] OTHER -> "stop"

\* Frames a provider may send.
AnthropicFrames ==
    {[t |-> "start", n |-> n] : n \in Tokens} \cup {[t |-> "text", s |-> s] : s \in Texts}
    \cup {[t |-> "delta", n |-> n, stop |-> r] : n \in Tokens, r \in StopReasons}
    \cup {[t |-> "ping"], [t |-> "fault"], [t |-> "message_stop"]}
OpenAIFrames ==
    {Text(s) : s \in Texts} \cup {StopChunk("length")} \cup {Usage(p, c) : p, c \in Tokens}
    \cup {[t |-> "ping"], Fault, Marker}
Terminal(f) == f.t \in {"fault", "marker", "message_stop"}

----------------------------------------------------------------------------
(* The request.                                                               *)

IsSystem(m) == m.role \in {"system", "developer"}

\* translateOpenAIRequestToAnthropic: system messages move out of the list.
TranslateRequest(in) ==
    LET system == SelectSeq(in.messages, LAMBDA m : IsSystem(m) /\ m.text # "")
        rest == SelectSeq(in.messages, LAMBDA m : ~IsSystem(m))
    IN  [system |-> [i \in DOMAIN system |-> system[i].text],
         messages |-> IF in.messages # <<>> THEN rest
                      ELSE IF in.prompt # "" THEN <<[role |-> "user", text |-> in.prompt]>> ELSE <<>>,
         limit |-> IF in.maxTokens > 0 THEN in.maxTokens
                   ELSE IF in.maxCompletion > 0 THEN in.maxCompletion ELSE 4096,
         temp |-> IF in.temp > 1 THEN 1 ELSE IF in.temp < 0 THEN 0 ELSE in.temp,
         stream |-> in.stream]

Requests ==
    [messages : SeqOf([role : Roles, text : Texts], MaxMessages), prompt : Texts,
     maxTokens : {0, 5}, maxCompletion : {0, 6}, temp : {-1, 0, 1, 2}, stream : BOOLEAN]

----------------------------------------------------------------------------
(* A body that is not a stream.                                               *)

\* What the provider's body says; "big" and "broken" bodies cannot be used.
CloudBodies == [shape : {"openai", "anthropic", "error", "empty", "garbage", "embedding"},
           size : {"ok", "big", "broken"}, status : {200, 429},
           texts : {<<>>, <<"x">>, <<"x", "y">>}, stop : StopReasons, p : Tokens, c : Tokens]

Raw(b) == [t |-> "raw", status |-> b.status, shape |-> b.shape]
Refused(ollama) == [t |-> "error", status |-> 502, ollama |-> ollama]

\* translateAnthropicJSONToOpenAI: an error or an unreadable body goes through.
AnthropicToOpenAI(b) ==
    IF b.shape \in {"error", "garbage"} THEN b
    ELSE [b EXCEPT !.shape = "openai", !.texts = IF b.shape = "anthropic" THEN b.texts ELSE <<>>,
                   !.stop = OpenAIFinishReason(IF b.shape = "anthropic" THEN b.stop ELSE ""),
                   !.p = IF b.shape = "anthropic" THEN b.p ELSE 0, !.c = IF b.shape = "anthropic" THEN b.c ELSE 0]

Reason(r) == IF r = "" THEN "stop" ELSE r

\* translateJSONToNDJSON, or translateJSONToSingleOllama when the client does
\* not want a stream.
OpenAIToOllama(b) ==
    IF b.status >= 400 THEN IF b.shape = "error" THEN [t |-> "error", status |-> b.status, ollama |-> TRUE] ELSE Raw(b)
    ELSE IF via.path = "/api/embed" /\ b.shape = "embedding" THEN [t |-> "embedding", status |-> b.status, c |-> b.p + b.c]
    ELSE IF b.shape = "openai"
    THEN [t |-> "answer", status |-> b.status, texts |-> b.texts, done |-> Done(Reason(b.stop), b.p, b.c),
          lines |-> IF via.stream THEN 2 ELSE 1]
    ELSE Raw(b)

\* The two transports, one inside the other.
RoundTrip(b) ==
    LET ollama == via.path # "/v1/chat/completions"
        translated == via.path \in {"/api/chat", "/api/embed"}
        inner == IF via.provider = "anthropic" THEN AnthropicToOpenAI(b) ELSE b
    IN  IF b.size # "ok" /\ (via.provider = "anthropic" \/ translated) THEN Refused(ollama)
        ELSE IF translated THEN OpenAIToOllama(inner) ELSE Raw(inner)

----------------------------------------------------------------------------
Translator == [q |-> <<>>, end |-> "no", p |-> 0, c |-> 0, stop |-> ""]

StreamInit ==
    /\ via \in [provider : {"anthropic", "openai"}, path : {"/api/chat", "/api/embed", "/api/tags", "/v1/chat/completions"},
                stream : BOOLEAN, mode : {"stream", "body", "request"}]
    /\ wire = [st |-> "open", frame |-> NoFrame, count |-> 0]
    /\ anthropic = Translator /\ ndjson = Translator
    /\ client = "here" /\ seen = <<>> /\ ended = "no"
    /\ said = [texts |-> <<>>, whole |-> FALSE, p |-> 0, c |-> 0, stop |-> ""]
    /\ reply = NoReply

TwoStages == via.provider = "anthropic" /\ via.path = "/api/chat"
LastStage == IF via.path = "/api/chat" THEN "ndjson" ELSE "anthropic"
Streaming ==
    /\ via.mode = "stream"
    /\ via.path = "/api/chat" \/ (via.provider = "anthropic" /\ via.path = "/v1/chat/completions")

TranslateWhole ==
    /\ via.mode = "body" /\ reply = NoReply
    /\ \E b \in CloudBodies :
         /\ b.shape = via.provider \/ (b.shape \in {"error", "empty", "garbage", "embedding"} /\ b.texts = <<>>)
         /\ reply' = [t |-> "body", from |-> b, to |-> RoundTrip(b)]
    /\ UNCHANGED <<via, wire, anthropic, ndjson, client, seen, ended, said>>

SendRequest ==
    /\ via.mode = "request" /\ reply = NoReply /\ via.provider = "anthropic" /\ via.path = "/api/chat" /\ via.stream
    /\ \E in \in Requests : reply' = [t |-> "request", from |-> in, to |-> TranslateRequest(in)]
    /\ UNCHANGED <<via, wire, anthropic, ndjson, client, seen, ended, said>>

----------------------------------------------------------------------------
(* The provider.                                                              *)

Heard(f) ==
    LET s == IF f.t = "text" THEN [said EXCEPT !.texts = IF f.s = "" /\ via.provider = "anthropic" THEN @ ELSE Append(@, f.s)]
             ELSE IF f.t = "start" THEN [said EXCEPT !.p = f.n]
             ELSE IF f.t = "delta" THEN [said EXCEPT !.c = f.n, !.stop = IF f.stop = "" THEN @ ELSE f.stop]
             ELSE IF f.t = "usage" THEN [said EXCEPT !.p = IF f.p > 0 THEN f.p ELSE @, !.c = IF f.c > 0 THEN f.c ELSE @]
             ELSE IF f.t = "finish" THEN [said EXCEPT !.stop = "max_tokens", !.texts = Append(@, "")]
             ELSE said
    IN  [s EXCEPT !.whole = f.t \in {"marker", "message_stop"}]

ProviderSends(f) ==
    /\ Streaming /\ wire.st = "open" /\ wire.frame = NoFrame /\ wire.count < MaxFrames
    /\ wire' = [st |-> IF Terminal(f) THEN "eof" ELSE "open", frame |-> f, count |-> wire.count + 1]
    /\ said' = Heard(f)
    /\ UNCHANGED <<via, anthropic, ndjson, client, seen, ended, reply>>

\* The connection ends early, cleanly or not, or a frame exceeds 4 MiB.
ProviderStops ==
    /\ Streaming /\ wire.st = "open"
    /\ \E how \in {"eof", "broken"} : wire' = [wire EXCEPT !.st = how, !.frame = NoFrame]
    /\ UNCHANGED <<via, anthropic, ndjson, client, seen, ended, said, reply>>

----------------------------------------------------------------------------
(* The translators.  q holds the lines one has still to write; each write     *)
(* waits until the next stage takes the line, or fails when that is closed.   *)

Closed(t) == t.end # "no"

\* Mutant: translateSSEToNDJSON leaves its source open when it returns.
ReaderGoneUnnoticed == ~TwoStages /\ client = "gone"

ReaderGone == IF TwoStages THEN Closed(ndjson) ELSE client = "gone"

\* translateAnthropicSSEToOpenAI, one frame.
AnthropicReads ==
    LET f == wire.frame
        a == anthropic
    IN  /\ Streaming /\ via.provider = "anthropic" /\ a.end = "no" /\ a.q = <<>>
        /\ \/ /\ f # NoFrame
              /\ wire' = [wire EXCEPT !.frame = NoFrame]
              /\ anthropic' =
                    CASE f.t = "start" -> [a EXCEPT !.p = f.n]
                      [] f.t = "text" -> [a EXCEPT !.q = IF f.s = "" THEN <<>> ELSE <<Text(f.s)>>]
                      [] f.t = "delta" -> [a EXCEPT !.c = f.n, !.stop = IF f.stop = "" THEN @ ELSE f.stop]
                      [] f.t = "fault" -> [a EXCEPT !.q = <<Fault>>, !.end = "error"]
                      [] f.t = "message_stop" ->
                            [a EXCEPT !.q = (IF a.stop = "" THEN <<>> ELSE <<StopChunk(OpenAIFinishReason(a.stop))>>)
                                             \o <<Usage(a.p, a.c), Marker>>,
                                      !.end = "clean"]
                      [] OTHER -> a
           \/ \* the stream ended without message_stop
              /\ f = NoFrame /\ wire.st # "open"
              /\ anthropic' = [a EXCEPT !.q = <<Fault>>, !.end = "error"]
              /\ UNCHANGED wire
        /\ UNCHANGED <<via, ndjson, client, seen, ended, said, reply>>

\* A write fails: the goroutine returns and closes the provider's body.
AnthropicAbandoned ==
    /\ Streaming /\ via.provider = "anthropic" /\ anthropic.q # <<>> /\ ReaderGone
    /\ anthropic' = [anthropic EXCEPT !.q = <<>>, !.end = IF @ = "no" THEN "clean" ELSE @]
    /\ wire' = [wire EXCEPT !.st = "broken", !.frame = NoFrame]
    /\ UNCHANGED <<via, ndjson, client, seen, ended, said, reply>>

\* What translateSSEToNDJSON finds on its source, and the source after it.
Source == IF TwoStages THEN IF anthropic.q # <<>> THEN Head(anthropic.q) ELSE NoFrame ELSE wire.frame
SourceOver == IF TwoStages THEN anthropic.q = <<>> /\ Closed(anthropic) ELSE wire.frame = NoFrame /\ wire.st # "open"
Advance ==
    IF TwoStages THEN anthropic' = [anthropic EXCEPT !.q = Tail(@)] /\ UNCHANGED wire
    ELSE wire' = [wire EXCEPT !.frame = NoFrame] /\ UNCHANGED anthropic

\* Mutant: a stream that just ends is a finished one.
NdjsonLineTolerant(n, f) ==
    CASE f.t = "text" -> [n EXCEPT !.q = <<Text(f.s)>>]
      [] f.t = "finish" -> [n EXCEPT !.stop = f.reason, !.q = <<Text("")>>]
      [] f.t = "usage" -> [n EXCEPT !.p = IF f.p > 0 THEN f.p ELSE @, !.c = IF f.c > 0 THEN f.c ELSE @]
      [] f.t = "fault" -> [n EXCEPT !.q = <<Done(Reason(n.stop), n.p, n.c)>>, !.end = "clean"]
      [] f.t = "marker" -> [n EXCEPT !.q = <<Done(Reason(n.stop), n.p, n.c)>>, !.end = "clean"]
      [] OTHER -> n

NdjsonLine(n, f) ==
    CASE f.t = "text" -> [n EXCEPT !.q = <<Text(f.s)>>]
      [] f.t = "finish" -> [n EXCEPT !.stop = f.reason, !.q = <<Text("")>>]
      [] f.t = "usage" -> [n EXCEPT !.p = IF f.p > 0 THEN f.p ELSE @, !.c = IF f.c > 0 THEN f.c ELSE @]
      [] f.t = "fault" -> [n EXCEPT !.q = <<Fault>>, !.end = "error"]
      [] f.t = "marker" -> [n EXCEPT !.q = <<Done(Reason(n.stop), n.p, n.c)>>, !.end = "clean"]
      [] OTHER -> n

\* translateSSEToNDJSON, one frame; the source is closed when it returns.
NdjsonReads ==
    /\ Streaming /\ via.path = "/api/chat" /\ ndjson.end = "no" /\ ndjson.q = <<>>
    /\ \/ Source # NoFrame /\ ndjson' = NdjsonLine(ndjson, Source) /\ Advance
       \/ /\ Source = NoFrame /\ SourceOver
          /\ ndjson' = [ndjson EXCEPT !.q = <<Fault>>, !.end = "error"]
          /\ UNCHANGED <<anthropic, wire>>
    /\ UNCHANGED <<via, client, seen, ended, said, reply>>

NdjsonAbandoned ==
    /\ Streaming /\ ndjson.q # <<>> /\ client = "gone"
    /\ ndjson' = [ndjson EXCEPT !.q = <<>>, !.end = IF @ = "no" THEN "clean" ELSE @]
    /\ wire' = IF TwoStages THEN wire ELSE [wire EXCEPT !.st = "broken", !.frame = NoFrame]
    /\ UNCHANGED <<via, anthropic, client, seen, ended, said, reply>>

----------------------------------------------------------------------------
(* The client, behind the reverse proxy.                                      *)

Outer == IF LastStage = "ndjson" THEN ndjson ELSE anthropic
ClientReads ==
    /\ Streaming /\ client = "here" /\ ended = "no"
    /\ \/ /\ Outer.q # <<>> /\ seen' = Append(seen, Head(Outer.q)) /\ UNCHANGED ended
          /\ IF LastStage = "ndjson" THEN ndjson' = [ndjson EXCEPT !.q = Tail(@)] /\ UNCHANGED anthropic
             ELSE anthropic' = [anthropic EXCEPT !.q = Tail(@)] /\ UNCHANGED ndjson
       \/ /\ Outer.q = <<>> /\ Closed(Outer) /\ ended' = Outer.end
          /\ UNCHANGED <<seen, anthropic, ndjson>>
    /\ UNCHANGED <<via, wire, client, said, reply>>

\* The request's context is cancelled, which breaks the provider's body too.
ClientLeaves ==
    /\ Streaming /\ client = "here" /\ ended = "no" /\ client' = "gone"
    /\ wire' = [wire EXCEPT !.st = "broken", !.frame = NoFrame]
    /\ UNCHANGED <<via, anthropic, ndjson, seen, ended, said, reply>>

StreamSystem == AnthropicReads \/ AnthropicAbandoned \/ NdjsonReads \/ NdjsonAbandoned \/ ClientReads
StreamNext ==
    \/ \E f \in IF via.provider = "anthropic" THEN AnthropicFrames ELSE OpenAIFrames : ProviderSends(f)
    \/ ProviderStops \/ StreamSystem \/ ClientLeaves \/ TranslateWhole \/ SendRequest

StreamSpec == StreamInit /\ [][StreamNext]_streamVars

\* The goroutines keep running, and a provider or its connection ends some time
\* (the transport's deadlines).
FairStreamSpec == StreamSpec /\ WF_streamVars(StreamSystem) /\ WF_streamVars(ProviderStops)

----------------------------------------------------------------------------
TextOf(lines) == LET ts == SelectSeq(lines, LAMBDA l : l.t = "text") IN [i \in DOMAIN ts |-> ts[i].s]
FrameKinds(lines) == {lines[i].t : i \in DOMAIN lines}

(* An Ollama client sees a done line only for an answer the provider          *)
(* finished, after all of its text in order, with the last counts and the     *)
(* stop reason the provider gave; a stream that ends otherwise ends with an   *)
(* error line and an aborted body, and nothing follows either line            *)
(* (translateSSEToNDJSON over translateAnthropicSSEToOpenAI).                 *)
DoneMeansWhole ==
    LET stop == IF via.provider = "anthropic" THEN OpenAIFinishReason(said.stop)
                ELSE IF said.stop = "" THEN "" ELSE "length"
        Strip(ts) == SelectSeq(ts, LAMBDA s : s # "")
    IN  /\ \A i \in DOMAIN seen :
             seen[i].t = "done" => /\ said.whole /\ i = Len(seen)
                                   /\ Strip(TextOf(seen)) = Strip(said.texts)
                                   /\ seen[i] = Done(Reason(stop), said.p, said.c)
        /\ \A i \in DOMAIN seen : seen[i].t = "fault" => i = Len(seen)
        /\ ended = "clean" /\ via.path = "/api/chat" => "done" \in FrameKinds(seen)
        /\ ended = "clean" /\ via.path # "/api/chat" => "marker" \in FrameKinds(seen) /\ said.whole
        /\ ended = "error" => "fault" \in FrameKinds(seen)

(* A whole answer keeps its text, reason and counts through both              *)
(* translations; an answer that cannot be used is a 502 in the shape the      *)
(* client speaks, never a truncated one; and a translated request keeps every *)
(* message, its order within each role class, and a valid limit and           *)
(* temperature (capCloudResponse, translateJSONToNDJSON,                      *)
(* translateOpenAIRequestToAnthropic).                                        *)
WholeIsKept ==
    /\ reply.t = "body" =>
         LET b == reply.from  r == reply.to
             stop == IF via.provider = "anthropic" THEN OpenAIFinishReason(b.stop) ELSE b.stop
         IN  /\ r.t = "answer" =>
                  /\ b.size = "ok" /\ b.status < 400
                  /\ b.shape = via.provider => r.texts = b.texts /\ r.done = Done(Reason(stop), b.p, b.c)
                  /\ r.lines = IF via.stream THEN 2 ELSE 1
             /\ b.size = "ok" \/ r.t # "answer"
             /\ r.t = "error" => r.status >= 400 /\ (r.ollama <=> via.path # "/v1/chat/completions")
    /\ reply.t = "request" =>
         LET in == reply.from  out == reply.to
             Worded(ms) == SelectSeq(ms, LAMBDA m : IsSystem(m) /\ m.text # "")
         IN  /\ out.limit > 0 /\ out.temp \in 0 .. 1
             /\ Len(out.system) + Len(out.messages)
                  = IF in.messages = <<>> THEN IF in.prompt = "" THEN 0 ELSE 1
                    ELSE Len(Worded(in.messages)) + Len(SelectSeq(in.messages, LAMBDA m : ~IsSystem(m)))
             /\ \A i \in DOMAIN out.messages : ~IsSystem(out.messages[i])

(* However a stream ends or is abandoned, both goroutines return and the      *)
(* provider's connection is let go.                                           *)
GoroutinesReturn ==
    <>[](Streaming /\ (client = "gone" \/ wire.st # "open") =>
           /\ via.path = "/api/chat" => ndjson.end # "no" /\ ndjson.q = <<>>
           /\ via.provider = "anthropic" => anthropic.end # "no" /\ anthropic.q = <<>>
           /\ wire.frame = NoFrame)
=============================================================================
