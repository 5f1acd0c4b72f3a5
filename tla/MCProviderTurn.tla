---------------------------- MODULE MCProviderTurn ----------------------------
EXTENDS ProviderTurn

(* The token's characters, the value's, and the tags'.                     *)
AllCharacters == {"[", "/", "]", "R", "<", ">"}

(* The token and the tags share their slash, and the tags their bracket.   *)
TokenText == <<"[", "/", "]">>
(* The value shares it too, and makes no token with what is around it.      *)
RealText == <<"/", "R">>
OpenTagText == <<"<", ">">>
CloseTagText == <<"<", "/", ">">>

(* Every character by itself, and pieces that end inside of a token or tag. *)
DeltaTexts == {<<"[">>, <<"/">>, <<"]">>, <<"<">>, <<">">>,
               <<"[", "/">>, <<"<", "/">>}

Part(text, call) == [text |-> text, call |-> call]
Answer(parts, finish, usage) ==
    [kind |-> "response", parts |-> parts, finish |-> finish, usage |-> usage]

VertexResponses ==
    {Answer(<<Part(text, FALSE)>>, "", 0) : text \in {<<c>> : c \in {"[", "/", "]", "<", ">"}}}
    \union {Answer(<<Part(<<"[", "/">>, TRUE)>>, "", 1),
            Answer(<<Part(<<>>, TRUE), Part(<<"/", "]">>, FALSE)>>, "", 0),
            Answer(<<>>, "STOP", 1), Answer(<<>>, "SAFETY", 0),
            Answer(<<Part(<<"]">>, TRUE)>>, "STOP", 0),
            Answer(<<Part(<<"<", "/">>, FALSE)>>, "MAX_TOKENS", 2)}

(* Words that hold the token or end in the middle of it, and of a tag.      *)
Scripts(words, usages, calls) ==
    [kind : {"turn"}, usage : usages, words : words, calls : calls]

ManyWords == UNION {[1..n -> {<<"[", "/">>, <<"]">>, <<"<", ">">>, <<"/">>}] : n \in 0..2}

Calling(id, name, strings, rest) ==
    [id |-> Named(id), name |-> Named(name), input |-> [strings |-> strings, rest |-> rest]]
OneTool == {<<>>, <<Calling("a", "tool", "token", "nothing")>>,
            <<Calling("a", "tool", "token", "token"), Calling("b", "tool", "value", "nothing")>>}

(* What they and the ids are called.                                       *)
LabelSet == {"", "tool", "call", "hist", "function", "late", "nobody", "a", "b", "c", "d", "e", "z"}

(* A plain tool and two defined by a function, one of them not there yet,  *)
(* and calls to them and to a tool there never is.                         *)
SchemaAccepts == [any |-> Input, whole |-> Input \ {EmptyInput}]

Tool(function, name, schema) ==
    [function |-> function, answers |-> [name |-> Named(name), schema |-> schema]]

Plain == Tool(FALSE, "tool", "any")
Known == {Calling("a", "tool", "nothing", "nothing"), Calling("b", "function", "nothing", "nothing"),
          Calling("c", "function", "token", "nothing"), Calling("d", "late", "nothing", "nothing"),
          Calling("e", "nobody", "nothing", "nothing")}

Said(role, size, content, cleared) ==
    [role |-> role, size |-> size, content |-> content, cleared |-> cleared]
Question == Said("user", 2, "value", FALSE)

(* A conversation of one question, of which the vendor has much to say.    *)
Asked(vendor, masked, events, faults) ==
    [entries |-> <<Question>>, maxMessages |-> 50, maxContentLength |-> 100,
     vendor |-> vendor, masked |-> masked, events |-> events, faults |-> faults,
     scripts |-> IF vendor = "mock" THEN Scripts(ManyWords, {0, 1}, OneTool) ELSE {},
     tools |-> <<Plain>>, before |-> <<>>, later |-> {}, schemas |-> {}, changes |-> 0]

(* A mock that calls tools, which change before, between and behind calls.  *)
Called(before) ==
    [Asked("mock", TRUE, 2, {}) EXCEPT
        !.scripts = Scripts({<<>>}, {0}, UNION {[1..n -> Known] : n \in 0..2}),
        !.tools = <<Plain, Tool(TRUE, "function", "any"), Tool(FALSE, "tool", "whole"),
                    Tool(FALSE, "late", "broken")>>,
        !.before = before,
        !.later = {Tool(TRUE, "late", "whole"), Tool(FALSE, "function", "whole")},
        !.schemas = {"whole", "broken"}, !.changes = 2]

(* Long conversations cut by every bound, of which it says nothing.        *)
Earlier ==
    {Said("user", 1, "nothing", FALSE), Said("user", 1, "value", TRUE), Said("assistant", 3, "value", FALSE),
     Said("thinking", 1, "nothing", FALSE), Said("tool", 1, "value", FALSE)}

Kept(longest, widths, lengths) ==
    {[entries |-> Append(earlier, Question), maxMessages |-> width, maxContentLength |-> length,
      vendor |-> "bedrock", masked |-> TRUE, events |-> 0, faults |-> {}, scripts |-> {},
      tools |-> <<Plain>>, before |-> <<>>, later |-> {}, schemas |-> {}, changes |-> 0]
        : earlier \in UNION {[1..n -> Earlier] : n \in 0..longest}, width \in widths, length \in lengths}

Talks ==
    {Asked("bedrock", TRUE, 5, {"unavailable"}), Asked("bedrock", FALSE, 4, {"unavailable"}),
     Asked("vertex", TRUE, 4, {"unavailable"}), Asked("vertex", FALSE, 3, {"unavailable"})}
    \union {Asked(vendor, TRUE, 1, Faults) : vendor \in {"bedrock", "vertex"}}
    \union {Asked("mock", masked, 2, {}) : masked \in BOOLEAN}
    \union {Called(before) : before \in {<<>>, <<Calling("z", "function", "token", "nothing")>>}}

MCSetups == Talks \union Kept(4, {0, 1, 2, 3, 4}, {0, 3, 5})
=============================================================================
