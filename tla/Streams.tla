----------------------------- MODULE Streams -----------------------------
(***************************************************************************)
(* One generation request, from the handler that accepts it to the last    *)
(* byte its client reads: /v1/chat/completions, /v1/completions,           *)
(* /v1/messages and /v1/responses, streaming or not.                       *)
(*                                                                         *)
(* The backend writes server-sent events that arrive line by line, cut     *)
(* anywhere; SseLineParser makes chunks of them.  Three endpoints map the  *)
(* chunks while the client pulls the body.  /v1/responses has a relay task *)
(* that turns them into its own events and a bounded channel to the body.  *)
(* Dropping the body ends the request: the guards in it (tracked request,  *)
(* gauges, the recorder of token usage) go with it.                        *)
(***************************************************************************)
EXTENDS Messages, FiniteSets

CONSTANTS
    Capacity,      \* of the relay's channel (32 in the code)
    Whole,         \* endpoint |-> requests to answer in one piece
    Streamed,      \* endpoint |-> requests to stream
    Replies,       \* whole replies of the backend
    Probes,        \* replies to the tool probe
    Scripts        \* what the backend may stream, sequences of lines

Endpoints == {"chat", "completions", "messages", "responses"}

(* What the backend streams: [DONE], lines that hold no chunk, and chunks. *)
CallParts == [index : Nat \cup {None}, id : STRING, name : STRING, args : Seq(STRING)]
Deltas == [index : Nat, role : BOOLEAN, text : Seq(STRING), reasoning : Seq(STRING),
           calls : Seq(CallParts), finish : STRING \cup {None}]
Chunks == [choices : Seq(Deltas), usage : Nat]
Lines == [kind : {"done", "junk"}] \cup [kind : {"data"}, chunk : Chunks]

(* What the two endpoints with a dialect of their own are asked.           *)
Turns(roles, types) ==
    Seq([role : roles, blocks : Seq([type : types, text : Seq(STRING), id : STRING])])

(* The items of a response while they are open, and in the output.         *)
TextItems == [out : Nat, text : Seq(STRING)]
ToolItems == [out : Nat, id : STRING, name : STRING, args : Seq(STRING)]
Calls == [id : STRING, name : STRING, args : Seq(STRING)]
OutputItems ==
    [type : {"message"}, text : Seq(STRING)] \cup [type : {"function_call"}, call : Calls]

ASSUME AbsentAssumption ==
    None \notin Nat \cup STRING \cup Seq(STRING) \cup TextItems \cup Seq(Calls) \cup Seq(OutputItems)
ASSUME StreamsAssumption ==
    /\ Capacity \in Nat \ {0}
    /\ Scripts \subseteq Seq(Lines)
    /\ \A req \in Whole["messages"] \cup Streamed["messages"] :
          req.turns \in Turns({"user", "assistant"}, {"text", "image", "tool_result"})
    /\ \A req \in Whole["responses"] \cup Streamed["responses"] :
          req.turns \in Turns(STRING, {"text"})

VARIABLES
    endpoint, stream, req, \* what was asked
    phase,                 \* of the handler and then of the body
    fwd,                   \* the request as the backend gets it
    verdict,               \* tool_capability of the model
    up,                    \* the connection to the backend and the parser's buffer
    relay,                 \* the relay task of /v1/responses
    chan,                  \* its channel
    captured,              \* StreamUsage, 0 when nothing was captured
    sent,                  \* what the client has read
    guards,                \* the request is tracked and its gauges count it
    rows                   \* token_usage rows written for it
asked == <<endpoint, stream, req>>
vars == <<asked, phase, fwd, verdict, up, relay, chan, captured, sent, guards, rows>>

Event(type, out, data) == [type |-> type, seq |-> None, out |-> out, data |-> data]
ErrorEvent == Event("error", None, None)
Text0(chunk) ==
    FlattenSeq([i \in DOMAIN chunk.choices |->
                   IF chunk.choices[i].index = 0 THEN chunk.choices[i].text ELSE <<>>])

-----------------------------------------------------------------------------
(* SseLineParser.  n lines of the script have come in full; buf holds those *)
(* not yet parsed; tail is what came of the next, all but its newline or a *)
(* fragment; heard are the chunks handed out so far.                       *)
NoTail == [kind |-> "none"]
Fragment == [kind |-> "cut"]
NewConnection(script) ==
    [script |-> script, n |-> 0, buf |-> <<>>, tail |-> NoTail, end |-> "open",
     broke |-> FALSE, heard |-> <<>>]

FirstKept(buf) ==
    LET kept == {i \in DOMAIN buf : buf[i].kind # "junk"}
    IN  IF kept = {} THEN 0 ELSE CHOOSE i \in kept : \A j \in kept : i <= j

(* Reasoning is shown as text on the chat endpoints.                       *)
Normalized(chunk) ==
    IF endpoint = "completions" THEN chunk
    ELSE [chunk EXCEPT !.choices = [i \in DOMAIN @ |-> NormalizeDelta(@[i])]]
Hear(u, line) == [u EXCEPT !.heard = Append(@, Normalized(line.chunk))]

\* Mutant: what is left in the buffer at the end of the stream is dropped.
LastLineLost(u) == [got |-> "end", up |-> [u EXCEPT !.end = "over"]]
(* The connection closed: an unterminated last line counts when it parses. *)
LastLine(u) ==
    LET over == [u EXCEPT !.end = "over"]
    IN  IF u.tail.kind = "data" /\ u.end # "over" THEN [got |-> "chunk", up |-> Hear(over, u.tail)]
        ELSE [got |-> "end", up |-> over]

(* What poll_next yields: a chunk, the end ([DONE] or a closed connection), *)
(* a read error, or nothing yet.  Lines that do not parse are skipped.     *)
Polled(u) ==
    LET i == FirstKept(u.buf)
        rest == [u EXCEPT !.buf = IF i = 0 THEN <<>> ELSE SubSeq(@, i + 1, Len(@))]
    IN  IF i # 0 /\ u.buf[i].kind = "done" THEN [got |-> "end", up |-> rest]
        ELSE IF i # 0 THEN [got |-> "chunk", up |-> Hear(rest, u.buf[i])]
        ELSE IF u.end = "open" THEN [got |-> "pending", up |-> u]
        ELSE IF u.end = "reset"
             THEN [got |-> "error", up |-> [rest EXCEPT !.end = "eof", !.broke = TRUE]]
        ELSE LastLine(rest)

-----------------------------------------------------------------------------
(* ResponseStreamState.                                                    *)

\* Mutant: every batch of events is numbered from its own start.
NumberedAnew(events, from) == [i \in DOMAIN events |-> [events[i] EXCEPT !.seq = i]]
Numbered(events, from) == [i \in DOMAIN events |-> [events[i] EXCEPT !.seq = from + i - 1]]

NewResponseState == [seq |-> 0, next |-> 0, text |-> None, tools |-> <<>>]

(* acc: the state and the events produced so far.                          *)
Emit(acc, event) ==
    [st |-> [acc.st EXCEPT !.seq = @ + 1], ev |-> acc.ev \o Numbered(<<event>>, acc.st.seq)]

OpenText(acc) ==
    LET out    == acc.st.next
        opened == [acc.st EXCEPT !.next = out + 1, !.text = [out |-> out, text |-> <<>>]]
    IN  IF acc.st.text # None THEN acc
        ELSE Emit(Emit([st |-> opened, ev |-> acc.ev], Event("added", out, "message")),
                  Event("part", out, None))
ApplyText(acc, text) ==
    LET opened == OpenText(acc)
        item   == opened.st.text
        spoken == [opened.st EXCEPT !.text = [item EXCEPT !.text = @ \o text]]
    IN  IF text = <<>> THEN acc
        ELSE Emit([st |-> spoken, ev |-> opened.ev], Event("delta", item.out, text))

WithTool(st, key, item) ==
    [st EXCEPT !.tools = [k \in DOMAIN @ \cup {key} |-> IF k = key THEN item ELSE @[k]]]
OpenTool(acc, key, call) ==
    LET out    == acc.st.next
        item   == [out |-> out, id |-> call.id, name |-> call.name, args |-> <<>>]
        opened == [WithTool(acc.st, key, item) EXCEPT !.next = out + 1]
    IN  IF key \in DOMAIN acc.st.tools THEN acc
        ELSE Emit([st |-> opened, ev |-> acc.ev], Event("added", out, "function_call"))

Newer(old, new) == IF new = "" THEN old ELSE new
\* Mutant: a later fragment that repeats no id erases it.
MergedErases(item, call) ==
    [out |-> item.out, id |-> call.id, name |-> Newer(item.name, call.name),
     args |-> item.args \o call.args]
Merged(item, call) ==
    [out |-> item.out, id |-> Newer(item.id, call.id), name |-> Newer(item.name, call.name),
     args |-> item.args \o call.args]

(* A fragment of a tool call: the first of its index opens an item, ids    *)
(* and names are replaced when given, arguments are appended.              *)
ApplyCall(acc, key, call) ==
    LET opened == OpenTool(acc, key, call)
        item   == opened.st.tools[key]
        merged == [st |-> WithTool(opened.st, key, Merged(item, call)), ev |-> opened.ev]
    IN  IF call.args = <<>> THEN merged
        ELSE Emit(merged, Event("args_delta", item.out, call.args))

(* The pieces of the first choice in a chunk: a text and fragments of tool *)
(* calls.  A fragment that names no index takes its position in the chunk. *)
Key(calls, i) == IF calls[i].index = None THEN i - 1 ELSE calls[i].index
PiecesOf(delta) ==
    IF delta.index # 0 THEN <<>>
    ELSE <<[kind |-> "text", text |-> delta.text]>>
             \o [i \in DOMAIN delta.calls |->
                    [kind |-> "call", key |-> Key(delta.calls, i), call |-> delta.calls[i]]]
Pieces(chunk) == FlattenSeq([i \in DOMAIN chunk.choices |-> PiecesOf(chunk.choices[i])])
ApplyPiece(acc, piece) ==
    IF piece.kind = "text" THEN ApplyText(acc, piece.text) ELSE ApplyCall(acc, piece.key, piece.call)
ApplyChunk(st, chunk) ==
    LET pieces == Pieces(chunk)
        after[i \in 0..Len(pieces)] ==
            IF i = 0 THEN [st |-> st, ev |-> <<>>]
            ELSE CHOOSE next \in {ApplyPiece(acc, pieces[i]) : acc \in {after[i - 1]}} : TRUE
    IN  after[Len(pieces)]

(* The keys of the tool calls, ascending.                                  *)
InOrder(keys) ==
    IF keys = {} THEN <<>>
    ELSE FlattenSeq([i \in 1..(Max(keys) + 1) |-> IF i - 1 \in keys THEN <<i - 1>> ELSE <<>>])

(* The output by output index: items are numbered as they are opened.      *)
OutputItem(st, out) ==
    IF st.text # None /\ st.text.out = out THEN MessageItem(st.text.text)
    ELSE LET tool == st.tools[CHOOSE k \in DOMAIN st.tools : st.tools[k].out = out]
         IN  CallItem(Call(tool.id, tool.name, tool.args))

(* The closing events, where every tool call has its id and name.          *)
FinishEvents(st) ==
    LET keys == InOrder(DOMAIN st.tools)
        close(tool) == <<Event("args_done", tool.out, tool.args), Event("item_done", tool.out, None)>>
    IN  (IF st.text = None THEN <<>>
         ELSE <<Event("text_done", st.text.out, st.text.text), Event("part_done", st.text.out, None),
                Event("item_done", st.text.out, None)>>)
            \o FlattenSeq([i \in DOMAIN keys |-> close(st.tools[keys[i]])])
            \o <<Event("completed", None, [i \in 1..st.next |-> OutputItem(st, i - 1)])>>

-----------------------------------------------------------------------------
NoRelay == [pc |-> "none", st |-> NewResponseState, pending |-> <<>>]
Started ==
    Emit(Emit([st |-> NewResponseState, ev |-> <<>>], Event("created", None, None)),
         Event("in_progress", None, None))

Init ==
    /\ endpoint \in Endpoints /\ stream \in BOOLEAN
    /\ req \in IF stream THEN Streamed[endpoint] ELSE Whole[endpoint]
    /\ phase = "new" /\ fwd = None /\ guards = FALSE
    /\ verdict \in {None, "verified", "wrong_function"}
    /\ up = NewConnection(<<>>) /\ relay = NoRelay /\ chan = <<>>
    /\ captured = 0 /\ sent = <<>> /\ rows = <<>>

Body == <<up, relay, chan, captured, sent, rows>>

Forwarded ==
    CASE endpoint = "chat" -> SanitizeChatRequest(req)
      [] endpoint = "completions" -> req
      [] endpoint = "messages" -> ToOpenAIRequest(req)
      [] endpoint = "responses" -> ToChatRequest(req)

(* Convert and check the request; only chat asks the tool verdict, and it  *)
(* asks before the load that may change it.                                *)
Accept ==
    /\ phase = "new"
    /\ fwd' = Forwarded
    /\ phase' = IF fwd' = None \/ (endpoint = "chat" /\ ToolGateRefuses(fwd', verdict))
                THEN "refused" ELSE "loading"
    /\ UNCHANGED <<asked, verdict, guards, Body>>

(* No such model, or one of another kind.                                  *)
Reject ==
    /\ phase = "new"
    /\ phase' = "refused"
    /\ UNCHANGED <<asked, fwd, verdict, guards, Body>>

(* run_tool_probe, once per load.                                          *)
ProbeVerdicts == {"skipped", "backend_error"} \cup {ValidateProbeResponse(p) : p \in Probes}

(* The model serves already, or is loaded and probed; track_request.       *)
EnsureLoaded ==
    /\ phase = "loading"
    /\ verdict' = verdict \/ verdict' \in ProbeVerdicts
    /\ phase' = "tracked" /\ guards' = TRUE
    /\ UNCHANGED <<asked, fwd, Body>>

LoadFails ==
    /\ phase = "loading"
    /\ phase' = "refused"
    /\ UNCHANGED <<asked, fwd, verdict, guards, Body>>

(* chat_stream succeeded: the response is a body from here on.             *)
OpenStream ==
    /\ phase = "tracked" /\ stream
    /\ \E script \in Scripts : up' = NewConnection(script)
    /\ relay' = IF endpoint # "responses" THEN relay
                ELSE [pc |-> "reading", st |-> Started.st, pending |-> Started.ev]
    /\ phase' = "body"
    /\ UNCHANGED <<asked, fwd, verdict, chan, captured, sent, guards, rows>>

(* A reply read in one piece, as the backend object returns it.            *)
BackendReplies == IF endpoint = "completions" THEN Replies ELSE {NormalizeReply(r) : r \in Replies}

(* token_db.record; the handlers ignore its error.                         *)
RecordUsage(tokens) == rows' = Append(rows, tokens) \/ rows' = rows

Answer(out) ==
    /\ phase = "tracked" /\ ~stream
    /\ sent' = <<Event("answer", None, out)>>
    /\ phase' = "ended" /\ guards' = FALSE
    /\ UNCHANGED <<asked, fwd, verdict, up, relay, chan, captured>>

AnswerChat ==
    /\ endpoint = "chat"
    /\ \E reply \in BackendReplies : Answer(reply) /\ RecordUsage(reply.usage)

AnswerCompletion ==
    /\ endpoint = "completions"
    /\ \E reply \in BackendReplies : Answer(reply) /\ RecordUsage(reply.usage)

AnswerMessage ==
    /\ endpoint = "messages"
    /\ \E reply \in BackendReplies : Answer(ToAnthropicResponse(reply)) /\ RecordUsage(reply.usage)

(* The only one that bills nothing, and that may refuse what it got.       *)
AnswerResponse ==
    /\ endpoint = "responses"
    /\ \E reply \in BackendReplies :
          /\ ToResponseOutput(reply) # None
          /\ Answer(ToResponseOutput(reply))
    /\ UNCHANGED rows

AnswerWhole == AnswerChat \/ AnswerCompletion \/ AnswerMessage \/ AnswerResponse

(* The backend refuses, or its reply cannot be read or turned into ours.   *)
CallFails ==
    /\ phase = "tracked"
    /\ phase' = "refused" /\ guards' = FALSE
    /\ UNCHANGED <<asked, fwd, verdict, Body>>

-----------------------------------------------------------------------------
(* The backend's end of the connection.                                    *)
Live == phase = "body" \/ relay.pc = "reading"

Coming == Live /\ up.end = "open" /\ up.n < Len(up.script)
Arrive ==
    /\ Coming
    /\ up' = [up EXCEPT !.n = @ + 1, !.buf = Append(@, up.script[up.n + 1]), !.tail = NoTail]
    /\ UNCHANGED <<asked, phase, fwd, verdict, relay, chan, captured, sent, guards, rows>>

ArriveInPart ==
    /\ Coming /\ up.tail = NoTail
    /\ \E part \in {Fragment, up.script[up.n + 1]} : up' = [up EXCEPT !.tail = part]
    /\ UNCHANGED <<asked, phase, fwd, verdict, relay, chan, captured, sent, guards, rows>>

Close ==
    /\ Live /\ up.end = "open"
    /\ \E how \in {"eof", "reset"} : up' = [up EXCEPT !.end = how]
    /\ UNCHANGED <<asked, phase, fwd, verdict, relay, chan, captured, sent, guards, rows>>

-----------------------------------------------------------------------------
(* The body.                                                               *)

(* The guards go with the body, and the recorder writes what was captured. *)
\* Mutant: the recorder writes only when something was captured.
ReleaseSilently ==
    /\ guards' = FALSE
    /\ rows' = IF captured = 0 THEN rows ELSE Append(rows, captured)
\* Mutant: a body dropped while its relay still reads keeps its guards.
ReleaseLate ==
    /\ guards' = (relay.pc = "reading")
    /\ rows' = Append(rows, captured)
Release ==
    /\ guards' = FALSE
    /\ rows' = Append(rows, captured)

(* Usage of one stream chunk after another: the last one wins.             *)
Capture(chunk) == IF chunk.usage = 0 THEN captured ELSE chunk.usage

AnthropicEvents(chunk) ==
    LET of(c) == (IF c.role THEN <<Event("message_start", None, None), Event("ping", None, None)>>
                  ELSE <<>>)
                 \o (IF c.text # <<>> THEN <<Event("delta", c.index, c.text)>> ELSE <<>>)
                 \o (IF c.finish = None THEN <<>>
                     ELSE <<Event("message_delta", StopReason(c.finish), chunk.usage),
                            Event("message_stop", None, None)>>)
    IN  FlattenSeq([i \in DOMAIN chunk.choices |-> of(chunk.choices[i])])
Mapped(chunk) ==
    IF endpoint = "messages" THEN AnthropicEvents(chunk) ELSE <<Event("chunk", None, chunk)>>

(* chat, completions, messages: the client pulls the next piece.           *)
Told(p) ==
    CASE p.got = "chunk" -> Mapped(Last(p.up.heard))
      [] p.got = "error" -> <<ErrorEvent>>
      [] p.got = "end" -> IF endpoint = "messages" THEN <<>> ELSE <<Event("done", None, None)>>
Pull ==
    /\ phase = "body" /\ endpoint # "responses"
    /\ \E p \in {Polled(up)} :
        /\ p.got # "pending"
        /\ up' = p.up /\ sent' = sent \o Told(p)
        /\ captured' = IF p.got = "chunk" THEN Capture(Last(p.up.heard)) ELSE captured
        /\ IF p.got = "end" THEN Release /\ phase' = "ended"
           ELSE UNCHANGED <<guards, rows, phase>>
    /\ UNCHANGED <<asked, fwd, verdict, relay, chan>>

AfterError == <<ErrorEvent>>
(* A tool call that never got its id or name makes the reply an error.     *)
Closing(st) ==
    IF \E k \in DOMAIN st.tools : Malformed(st.tools[k]) THEN <<ErrorEvent>>
    ELSE Numbered(FinishEvents(st), st.seq)

(* responses: the relay has sent everything and takes the next chunk.      *)
Applied(st, chunk) ==
    LET applied == ApplyChunk(st, chunk)
    IN  [pc |-> "reading", st |-> applied.st, pending |-> applied.ev]
RelayRead ==
    /\ relay.pc = "reading" /\ relay.pending = <<>>
    /\ \E p \in {Polled(up)} :
        /\ p.got # "pending"
        /\ up' = p.up
        /\ captured' = IF p.got = "chunk" THEN Capture(Last(p.up.heard)) ELSE captured
        /\ relay' = CASE p.got = "chunk" -> Applied(relay.st, Last(p.up.heard))
                      [] p.got = "error" -> [relay EXCEPT !.pc = "closing", !.pending = AfterError]
                      [] p.got = "end"   -> [relay EXCEPT !.pc = "closing", !.pending = Closing(relay.st)]
    /\ UNCHANGED <<asked, phase, fwd, verdict, chan, sent, guards, rows>>

(* A send waits for room, and fails when the body is gone.                 *)
RelaySend ==
    /\ relay.pending # <<>>
    /\ IF phase # "body"
       THEN relay' = [relay EXCEPT !.pc = "stopped", !.pending = <<>>] /\ UNCHANGED chan
       ELSE /\ Len(chan) < Capacity
            /\ chan' = Append(chan, Head(relay.pending))
            /\ relay' = [relay EXCEPT !.pending = Tail(@),
                            !.pc = IF @ = "closing" /\ Len(relay.pending) = 1 THEN "stopped" ELSE @]
    /\ UNCHANGED <<asked, phase, fwd, verdict, up, captured, sent, guards, rows>>

Receive ==
    /\ phase = "body" /\ chan # <<>>
    /\ sent' = Append(sent, Head(chan)) /\ chan' = Tail(chan)
    /\ UNCHANGED <<asked, phase, fwd, verdict, up, relay, captured, guards, rows>>

BodyEnds ==
    /\ phase = "body" /\ relay.pc = "stopped" /\ chan = <<>>
    /\ phase' = "ended"
    /\ Release
    /\ UNCHANGED <<asked, fwd, verdict, up, relay, chan, captured, sent>>

(* The client hangs up: the handler's future or the body is dropped.       *)
Disconnect ==
    /\ phase \in {"loading", "tracked", "body"}
    /\ phase' = "gone" /\ chan' = <<>>
    /\ IF phase = "body" THEN Release ELSE guards' = FALSE /\ UNCHANGED rows
    /\ UNCHANGED <<asked, fwd, verdict, up, relay, captured, sent>>

Finished ==
    /\ phase \in {"refused", "ended", "gone"} /\ relay.pc \in {"none", "stopped"}
    /\ UNCHANGED vars

Next ==
    \/ Accept \/ Reject \/ EnsureLoaded \/ LoadFails \/ OpenStream \/ AnswerWhole \/ CallFails
    \/ Arrive \/ ArriveInPart \/ Close \/ Pull \/ RelayRead \/ RelaySend \/ Receive \/ BodyEnds
    \/ Disconnect \/ Finished

(* The relay runs, the client reads on or hangs up, and the backend closes *)
(* the connection some day: there is no timeout on any of them.            *)
Fairness ==
    /\ WF_vars(RelayRead) /\ WF_vars(RelaySend) /\ WF_vars(BodyEnds)
    /\ WF_vars(Pull \/ Receive \/ Disconnect) /\ WF_vars(Close)
Spec == Init /\ [][Next]_vars
FairSpec == Spec /\ Fairness

-----------------------------------------------------------------------------
TypeOK ==
    /\ phase \in {"new", "loading", "tracked", "body", "refused", "ended", "gone"}
    /\ guards \in BOOLEAN /\ captured \in Nat
    /\ up.end \in {"open", "eof", "reset", "over"}
    /\ relay.pc \in {"none", "reading", "closing", "stopped"}
    /\ Len(chan) <= Capacity /\ \A i \in DOMAIN rows : rows[i] \in Nat
    /\ \A i \in DOMAIN sent : sent[i].seq \in Nat \cup {None}

Produced == sent \o chan \o relay.pending

(* What /v1/responses produces is numbered without gaps, opens every item  *)
(* once under the next output index, adds to open items only, closes each  *)
(* of them before it completes, and says nothing after completion or error. *)
Grammar ==
    endpoint = "responses" /\ stream /\ phase # "gone" =>
        LET e == Produced
            opens(o) == {i \in DOMAIN e : e[i].type = "added" /\ e[i].out = o}
            ends(o)  == {i \in DOMAIN e : e[i].type = "item_done" /\ e[i].out = o}
            outs == {e[i].out : i \in {j \in DOMAIN e : e[j].type = "added"}}
        IN  \A i \in DOMAIN e :
               /\ e[i].type # "error" => e[i].seq = i - 1
               /\ e[i].type \in {"error", "completed"} => i = Len(e)
               /\ e[i].type = "added" => e[i].out = Cardinality({j \in 1..(i - 1) : e[j].type = "added"})
               /\ e[i].out # None =>
                      /\ \E j \in opens(e[i].out) : j <= i
                      /\ \A j \in ends(e[i].out) : i <= j
               /\ e[i].type = "completed" => \A o \in outs : ends(o) # {}

(* What the backend said, put together without the stream in between.      *)
Assembled(chunks) ==
    LET parts == FlattenSeq([n \in DOMAIN chunks |-> Pieces(chunks[n])])
        calls == {i \in DOMAIN parts : parts[i].kind = "call"}
        keys  == InOrder({parts[i].key : i \in calls})
        texts == FlattenSeq([i \in DOMAIN parts |-> IF i \in calls THEN <<>> ELSE parts[i].text])
        args(k) == FlattenSeq([i \in DOMAIN parts |->
                       IF i \in calls /\ parts[i].key = k THEN parts[i].call.args ELSE <<>>])
        ids(k)   == {i \in calls : parts[i].key = k /\ parts[i].call.id # ""}
        names(k) == {i \in calls : parts[i].key = k /\ parts[i].call.name # ""}
        id(k)   == IF ids(k) = {} THEN "" ELSE parts[Max(ids(k))].call.id
        name(k) == IF names(k) = {} THEN "" ELSE parts[Max(names(k))].call.name
    IN  [content |-> texts,
         calls |-> [i \in DOMAIN keys |-> Call(id(keys[i]), name(keys[i]), args(keys[i]))]]

(* A completed stream carries the output a request without streaming would *)
(* have had of the same reply, in whatever order its calls were cut up; one *)
(* that nothing interrupted completes exactly when that reply is no error. *)
CompletedAgrees ==
    endpoint = "responses" /\ stream =>
        LET want == ToResponseOutput(Assembled(up.heard))
            done == {i \in DOMAIN Produced : Produced[i].type = "completed"}
        IN  /\ \A i \in done :
                   /\ want # None
                   /\ ToSet(Produced[i].data) = ToSet(want) /\ Len(Produced[i].data) = Len(want)
            /\ phase = "ended" /\ ~up.broke /\ want # None => done # {}

(* The lines the backend finished before [DONE], the last one also when    *)
(* only its newline is missing: what a reader of the whole would go by.    *)
LastInPart(u) == IF u.end = "over" /\ u.tail.kind = "data" THEN <<u.tail>> ELSE <<>>
Came(u) ==
    LET came  == SubSeq(u.script, 1, u.n) \o LastInPart(u)
        stops == {i \in DOMAIN came : came[i].kind = "done"}
    IN  IF stops = {} THEN came ELSE SubSeq(came, 1, Min(stops) - 1)

LineText(line) == IF line.kind = "data" THEN Text0(Normalized(line.chunk)) ELSE <<>>
TextOf(lines) == FlattenSeq([i \in DOMAIN lines |-> LineText(lines[i])])

SaidBy(event) ==
    IF event.type = "delta" /\ (endpoint = "responses" \/ event.out = 0) THEN event.data
    ELSE IF event.type = "chunk" THEN Text0(event.data) ELSE <<>>
TextIn(events) == FlattenSeq([i \in DOMAIN events |-> SaidBy(events[i])])

(* The text a client that stayed to the end has read is the text of every  *)
(* line the backend finished, in order, however the lines were cut and     *)
(* whichever endpoint it asked.                                            *)
TextDelivered ==
    phase = "ended" /\ stream =>
        TextIn(sent) = TextOf(Came(up))

(* A broken connection is not passed off as an answer: the client that     *)
(* stays is told, and no response is completed.                            *)
ErrorTold ==
    phase = "ended" /\ up.broke =>
        /\ ErrorEvent \in ToSet(sent)
        /\ \A i \in DOMAIN sent : sent[i].type # "completed"

(* How a stream ends is what became of its reply.                          *)
EndsTruthfully == CompletedAgrees /\ ErrorTold

(* Every stream that began leaves one row when its guards are released and *)
(* none before; one read to its end is billed the last usage the backend   *)
(* reported.  A request without a stream leaves at most one, if answered.  *)
LastUsage(lines) ==
    LET reports == {i \in DOMAIN lines : lines[i].kind = "data" /\ lines[i].chunk.usage # 0}
    IN  IF reports = {} THEN 0 ELSE lines[Max(reports)].chunk.usage
BilledOnce ==
    /\ guards => rows = <<>>
    /\ up.script # <<>> /\ ~guards => Len(rows) = 1
    /\ stream /\ phase = "ended" => rows[1] = LastUsage(Came(up))
    /\ ~stream => Len(rows) <= 1 /\ (rows # <<>> => phase = "ended")

(* Nothing of a conversation is lost on its way to the backend: what a     *)
(* user (or a role the backend does not have) or an assistant wrote, and   *)
(* for each of a user's tool results a message that names the call it      *)
(* answers.                                                                *)
Said(messages, role) ==
    FlattenSeq([i \in DOMAIN messages |->
        IF messages[i].role = role /\ messages[i].content # None THEN messages[i].content ELSE <<>>])
Spoke(turn, role) ==
    turn.role = role \/ (role = "user" /\ turn.role \notin {"system", "assistant", "tool"})
Wrote(turns, role) ==
    FlattenSeq([i \in DOMAIN turns |->
        IF Spoke(turns[i], role) THEN Texts(turns[i].blocks) ELSE <<>>])
RequestKept ==
    fwd # None /\ endpoint \in {"messages", "responses"} =>
        /\ \A role \in {"user", "assistant"} : Said(fwd.messages, role) = Wrote(req.turns, role)
        /\ \A i \in DOMAIN req.turns : \A j \in DOMAIN req.turns[i].blocks :
              LET b == req.turns[i].blocks[j]
              IN  b.type = "tool_result" /\ req.turns[i].role = "user" =>
                      \E n \in DOMAIN fwd.messages : fwd.messages[n] = ToolMessage(b)

(* A stream comes to an end: its guards are released, so that a drain need *)
(* not wait for it, and its relay stops, also when the client hung up.     *)
StreamEnds == phase = "body" ~> ~guards /\ relay.pc \in {"none", "stopped"}
=============================================================================
