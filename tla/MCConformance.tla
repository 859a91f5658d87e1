--------------------------- MODULE MCConformance ---------------------------
(* An instance of Conformance for TLC: two runs, each inspecting, resolving *)
(* a template, running the battery or comparing, on two registered models, *)
(* one that is not, and an external endpoint; one model is the priority.   *)
EXTENDS Conformance

CONSTANTS a, b, unknown, r1, r2

Job(kind, targets, mode, case) == [kind |-> kind, targets |-> targets, mode |-> mode, case |-> case]
MCJobs ==
    {Job("inspect", <<a>>, "custom", None), Job("resolve_template", <<b>>, "template", None),
     Job("battery", <<External>>, "battery", None), Job("compare", <<a, b>>, "custom", None),
     Job("compare", <<b, unknown>>, "battery", "parallel"), Job("compare", <<a, b>>, "nothing", None)}

MCReply(content, reasoning, calls) ==
    [content |-> content, reasoning |-> reasoning, calls |-> calls, finish |-> "stop", usage |-> 1]
Echo(x) == Call("c1", "echo", <<x>>)

Plain == <<"{", "call", "}">>
Quoted == <<"{", "call", "quote", "}", "quote", "}">>
Escaped == <<"{", "call", "quote", "backslash", "quote", "}", "quote", "}">>
Nested == <<"{", "call", "{", "}", "}">>
MCCallShaped == {Plain, Quoted, Escaped, Nested}
MCJson == MCCallShaped \cup {<<"{", "}">>, <<"7">>}

Embedded == {before \o call \o after : before \in {<<>>, <<"}", "quote">>},
                                     call \in MCCallShaped, after \in {<<>>, <<"{", "quote">>}}
Wrapped == {<<"{", "tool_call">> \o Plain \o <<"end_tool_call">>, <<"json_fence", "word", "json_fence">> \o Plain,
            <<"tool_call", "word">>, <<"{", "word", "}">>, <<"word">>, <<"7">>}
MCResponses ==
    {<<MCReply(text, <<>>, None)>> : text \in Embedded \cup Wrapped}
        \cup {<<>>, <<MCReply(None, Plain, None)>>, <<MCReply(<<"word">>, Plain, <<>>)>>,
              <<MCReply(None, <<"word">>, <<Echo("hello")>>)>>,
              <<MCReply(None, <<>>, <<Echo("hello"), Echo("bye")>>), MCReply(<<"word">>, <<>>, None)>>,
              <<MCReply(None, <<>>, <<Echo("bye"), Echo("bye")>>)>>}
=============================================================================
