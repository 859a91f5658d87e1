----------------------------- MODULE Messages -----------------------------
(***************************************************************************)
(* The conversions between the API dialects: what each handler makes of    *)
(* its request before it reaches llama-server, and of the reply.           *)
(*                                                                         *)
(* A string is a sequence of fragments and joining is concatenation; the   *)
(* separators are left out.  None is an absent optional field, "string" is *)
(* the value Swagger UI fills into an untouched text field.                *)
(***************************************************************************)
EXTENDS Naturals, Sequences, SequencesExt

CONSTANTS None, Huge   \* Huge: Swagger UI's placeholder for a number

Message(role, content) == [role |-> role, content |-> content, call |-> None, calls |-> None]
Call(id, name, args) == [id |-> id, name |-> name, args |-> args]
Texts(blocks) ==
    FlattenSeq([i \in DOMAIN blocks |-> IF blocks[i].type = "text" THEN blocks[i].text ELSE <<>>])
NoText(blocks) == \A i \in DOMAIN blocks : blocks[i].type # "text"

-----------------------------------------------------------------------------
(* POST /v1/messages.                                                      *)

(* The tool results of a user message come first, each as a tool message   *)
(* of its own, then its texts as one message; images are dropped.  What an *)
(* assistant said is one message even when it holds no text.               *)
ToolMessage(result) == [Message("tool", result.text) EXCEPT !.call = result.id]
Results(blocks) ==
    FlattenSeq([i \in DOMAIN blocks |->
        IF blocks[i].type = "tool_result" THEN <<ToolMessage(blocks[i])>> ELSE <<>>])
\* Mutant: a tool result is dropped when the user wrote something beside it.
FromBlocksOneKind(m) ==
    IF m.role = "assistant"
    THEN <<Message("assistant", IF NoText(m.blocks) THEN None ELSE Texts(m.blocks))>>
    ELSE IF NoText(m.blocks) THEN Results(m.blocks) ELSE <<Message("user", Texts(m.blocks))>>
FromBlocks(m) ==
    IF m.role = "assistant"
    THEN <<Message("assistant", IF NoText(m.blocks) THEN None ELSE Texts(m.blocks))>>
    ELSE Results(m.blocks) \o IF NoText(m.blocks) THEN <<>> ELSE <<Message("user", Texts(m.blocks))>>

ToOpenAIRequest(req) ==
    [messages |->
        (IF req.system = None THEN <<>> ELSE <<Message("system", Texts(req.system))>>)
            \o FlattenSeq([i \in DOMAIN req.turns |-> FromBlocks(req.turns[i])]),
     tools |-> req.tools, choice |-> req.choice, maxTokens |-> req.maxTokens]

StopReason(finish) ==
    CASE finish = "stop" -> "end_turn"
      [] finish = "length" -> "max_tokens"
      [] finish = "tool_calls" -> "tool_use"
      [] OTHER -> finish

(* Arguments that are not JSON become the empty object.                    *)
ToAnthropicResponse(reply) ==
    [content |->
        (IF reply.content \in {None, <<>>} THEN <<>>
         ELSE <<[type |-> "text", text |-> reply.content]>>)
            \o (IF reply.calls = None THEN <<>>
                ELSE [i \in DOMAIN reply.calls |->
                         [type |-> "tool_use", id |-> reply.calls[i].id, name |-> reply.calls[i].name,
                          input |-> IF "bad" \in ToSet(reply.calls[i].args) THEN <<>>
                                    ELSE reply.calls[i].args]]),
     stop |-> StopReason(reply.finish), usage |-> reply.usage]

-----------------------------------------------------------------------------
(* POST /v1/responses.                                                     *)

Role(r) == IF r \in {"system", "assistant", "tool"} THEN r ELSE "user"

BadTool(tool) == tool.name \in {"", " "} \/ tool.parameters # "object"
BadChoice(choice) ==
    /\ choice # None
    /\ choice.type \notin {"none", "auto", "required"}
    /\ choice.type # "function" \/ choice.name \in {"", " "}

(* None: the request is refused as invalid.                                *)
ToChatRequest(req) ==
    IF \/ req.tools # None /\ \E i \in DOMAIN req.tools : BadTool(req.tools[i])
       \/ BadChoice(req.choice)
    THEN None
    ELSE [messages |->
             (IF req.system = None THEN <<>> ELSE <<Message("system", Texts(req.system))>>)
                 \o [i \in DOMAIN req.turns |->
                        Message(Role(req.turns[i].role), Texts(req.turns[i].blocks))],
          tools |-> req.tools, choice |-> req.choice, maxTokens |-> req.maxTokens]

Malformed(call) == call.id \in {"", " "} \/ call.name \in {"", " "}
MessageItem(text) == [type |-> "message", text |-> text]
CallItem(call) == [type |-> "function_call", call |-> call]

(* None: a call the backend malformed turns the reply into an error.       *)
ToResponseOutput(reply) ==
    IF reply.calls # None /\ \E i \in DOMAIN reply.calls : Malformed(reply.calls[i]) THEN None
    ELSE (IF reply.content \in {None, <<>>} THEN <<>> ELSE <<MessageItem(reply.content)>>)
             \o (IF reply.calls = None THEN <<>>
                 ELSE [i \in DOMAIN reply.calls |-> CallItem(reply.calls[i])])

-----------------------------------------------------------------------------
(* POST /v1/chat/completions.                                              *)

PlaceholderCall(call) == "string" \in {call.id, call.name} \/ call.args = <<"string">>
Placeholder == [type |-> "string", name |-> ""]
PlaceholderTool(tool) == tool.name = "string"


SanitizeMessage(m) ==
    [m EXCEPT !.content = IF @ = None THEN <<"default">> ELSE @,
              !.call    = IF @ = "string" THEN None ELSE @,
              !.calls   = IF @ # None /\ (\A i \in DOMAIN @ : PlaceholderCall(@[i])) THEN None ELSE @]

SanitizeChatRequest(req) ==
    [req EXCEPT !.messages  = [i \in DOMAIN @ |-> SanitizeMessage(@[i])],
                !.maxTokens = IF @ = Huge THEN 2048 ELSE @,
                !.choice    = IF @ = Placeholder THEN None ELSE @,
                !.tools     = IF @ # None /\ (\A i \in DOMAIN @ : PlaceholderTool(@[i])) THEN None ELSE @]

(* The stored verdict of the load-time probe: only a known failure blocks. *)
ToolGateRefuses(req, verdict) ==
    req.tools \notin {None, <<>>} /\ verdict \notin {None, "skipped", "verified"}

-----------------------------------------------------------------------------
(* Replies of the backend.                                                 *)

(* A reply without content shows its reasoning instead.                    *)
NormalizeReply(reply) ==
    IF reply.content \in {None, <<>>} /\ reply.reasoning # <<>>
    THEN [reply EXCEPT !.content = reply.reasoning] ELSE reply
(* So does every delta of a stream, also when content follows.             *)
NormalizeDelta(d) ==
    IF d.text = <<>> /\ d.reasoning # <<>> THEN [d EXCEPT !.text = d.reasoning] ELSE d

(* The probe asks for echo(message: "hello") and judges the first call.    *)
ValidateProbeResponse(reply) ==
    CASE reply.calls \in {None, <<>>} -> "no_tool_calls"
      [] reply.calls # None /\ reply.calls # <<>> ->
            LET call == reply.calls[1]
            IN  IF call.name = None THEN "no_tool_calls"
                ELSE IF call.name # "echo" THEN "wrong_function"
                ELSE IF "bad" \in ToSet(call.args) THEN "malformed_json"
                ELSE IF call.args # <<"hello">> THEN "wrong_arguments"
                ELSE "verified"
=============================================================================
