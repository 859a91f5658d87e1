----------------------------- MODULE MCStreams -----------------------------
(* An instance of Streams for TLC: one short conversation to stream on     *)
(* each endpoint, a handful of awkward requests and replies to answer in   *)
(* one piece, and scripts with text, reasoning, interleaved and malformed  *)
(* tool calls, junk, a second choice, and no [DONE].                       *)
EXTENDS Streams

Text(x) == [type |-> "text", text |-> <<x>>, id |-> ""]
Result(x, id) == [type |-> "tool_result", text |-> <<x>>, id |-> id]
Image == [type |-> "image", text |-> <<>>, id |-> ""]
Turn(role, blocks) == [role |-> role, blocks |-> blocks]
Tool(name, parameters) == [name |-> name, parameters |-> parameters]

Chat(messages, tools, choice) ==
    [messages |-> messages, tools |-> tools, choice |-> choice, maxTokens |-> Huge]
Ask(system, turns, tools, choice) ==
    [system |-> system, turns |-> turns, tools |-> tools, choice |-> choice, maxTokens |-> 16]
Hello == <<Turn("user", <<Text("hello")>>)>>
Dialogue == <<Turn("user", <<Text("a"), Image, Result("r", "c1"), Text("b"), Result("s", "c2")>>),
              Turn("assistant", <<Text("d")>>), Turn("assistant", <<>>), Turn("user", <<Result("t", "c3")>>)>>
Real == Tool("find", "object")
Swagger == Tool("string", "object")

MCStreamed ==
    [e \in Endpoints |->
        CASE e = "chat" -> {Chat(<<Message("user", <<"hello">>)>>, None, None)}
          [] e = "completions" -> {[prompt |-> <<"hello">>]}
          [] OTHER -> {Ask(None, Hello, None, None)}]
MCWhole ==
    [e \in Endpoints |->
        CASE e = "chat" ->
               {Chat(<<Message("user", None), [Message("assistant", <<"x">>) EXCEPT !.call = "string"]>>, tools, choice) :
                    tools \in {None, <<>>, <<Real>>, <<Swagger>>, <<Swagger, Real>>},
                    choice \in {None, Placeholder, [type |-> "auto", name |-> ""]}}
          [] e = "completions" -> {[prompt |-> <<"hello">>]}
          [] e = "messages" ->
               {Ask(system, turns, None, None) : system \in {None, <<Text("be"), Image, Text("brief")>>},
                                                 turns \in {Hello, Dialogue}}
          [] e = "responses" ->
               {Ask(None, <<Turn("developer", <<Text("be brief")>>)>> \o Hello, tools, choice) :
                    tools \in {None, <<Real>>, <<Real, Tool(" ", "object")>>, <<Tool("find", "array")>>},
                    choice \in {None, [type |-> "required", name |-> ""], [type |-> "function", name |-> ""],
                                [type |-> "allowed_tools", name |-> ""]}}]

Reply(content, reasoning, calls, finish) ==
    [content |-> content, reasoning |-> reasoning, calls |-> calls, finish |-> finish, usage |-> 7]
MCReplies ==
    {Reply(<<"hi">>, <<>>, None, "stop"), Reply(<<>>, <<"hm">>, None, "length"),
     Reply(None, <<>>, <<Call("c1", "find", <<"{}">>), Call("c2", "find", <<"bad">>)>>, "tool_calls"),
     Reply(<<"hi">>, <<>>, <<Call("", "find", <<"{}">>)>>, "tool_calls")}
Echo(name, args) == Reply(None, <<>>, <<Call("c1", name, args)>>, "tool_calls")
MCProbes == {Reply(<<"hello">>, <<>>, None, "stop"), Echo("echo", <<"hello">>), Echo("echo", <<"bad">>),
             Echo("echo", <<"bye">>), Echo("find", <<"hello">>)}

Choice(text) == [index |-> 0, role |-> FALSE, text |-> text, reasoning |-> <<>>, calls |-> <<>>, finish |-> None]
Part(index, id, name, args) == [index |-> index, id |-> id, name |-> name, args |-> args]
Line(choices, usage) == [kind |-> "data", chunk |-> [choices |-> choices, usage |-> usage]]
Junk == [kind |-> "junk"]
Done == [kind |-> "done"]
Says(x) == Line(<<Choice(<<x>>)>>, 0)
Asks(parts) == Line(<<[Choice(<<>>) EXCEPT !.calls = parts]>>, 0)

MCScripts ==
    {<<Line(<<[Choice(<<>>) EXCEPT !.role = TRUE, !.reasoning = <<"hm">>]>>, 0), Junk, Says("a"),
       Line(<<[Choice(<<"b">>) EXCEPT !.finish = "stop"]>>, 0), Line(<<>>, 9), Done, Says("z")>>,
     <<Asks(<<Part(1, "c1", "find", <<"x">>), Part(None, "", "", <<"y">>)>>), Says("a"),
       Asks(<<Part(1, "", "", <<"z">>)>>),
       Line(<<[Choice(<<>>) EXCEPT !.calls = <<Part(0, "c0", "find", <<>>), Part(None, "", "", <<"w">>)>>]>>, 5),
       Done>>,
     <<Asks(<<Part(0, "", "find", <<>>)>>),
       Line(<<Choice(<<"a">>), [Choice(<<"q">>) EXCEPT !.index = 1]>>, 3)>>}
=============================================================================
