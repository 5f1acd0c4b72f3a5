----------------------------- MODULE VendorStream -----------------------------
(***************************************************************************)
(* What the vendors' streams become: the events of Bedrock's ConverseStream *)
(* as parseStreamEvents (providers/bedrock/bedrockStreamHandlers.ts) reads *)
(* them, the responses of Vertex's generateContentStream as turnChunks     *)
(* (providers/vertex/vertexProvider.ts) does, and the errors of either;    *)
(* and the scripted answers of the mock (providers/mock/mockProvider.ts).  *)
(*                                                                         *)
(* An adapter is what its generator holds between two events: the call     *)
(* being received (Bedrock), the stop and the usage it will end with, and  *)
(* whether it is through.  A usage is its total, 0 for none.               *)
(***************************************************************************)
EXTENDS Naturals, Sequences, SequencesExt, PromptMask

NoCall == Named("")
NoStop == ""

NewAdapter == [call |-> NoCall, input |-> <<>>, stop |-> NoStop, usage |-> 0,
               endOfTurn |-> "end_turn", over |-> FALSE]

(* A step of an adapter: how it stands then, what it yields, what it threw. *)
Yields(adapter, chunks) == [adapter |-> adapter, chunks |-> chunks, error |-> ""]
Throws(adapter, code) == [adapter |-> adapter, chunks |-> <<>>, error |-> code]

Newer(usage, held) == IF usage # 0 THEN usage ELSE held

(* The JSON of an input arrives in pieces, two of which make it whole.      *)
Pieces == {"first half", "second half"}
WholeInput == <<"first half", "second half">>

(* What the vendors send: Bedrock's events, Vertex's responses, the turns  *)
(* of a mock's script, whose texts may be empty.                           *)
Response ==
    [kind : {"response"}, parts : Seq([text : Text, call : BOOLEAN]),
     finish : {"", "STOP", "MAX_TOKENS", "SAFETY"}, usage : Nat]

Script == [kind : {"turn"}, usage : Nat, words : Seq(Text), calls : Seq(Call)]

Event ==
    [kind : {"text"}, text : Text] \union [kind : {"toolStart"}, id : Name]
        \union [kind : {"toolInput"}, piece : Pieces] \union [kind : {"blockStop"}]
        \union [kind : {"messageStop"}, reason : StopReason] \union [kind : {"metadata"}, usage : Nat]
        \union Response \union Script \union [kind : {"exhausted"}]

-----------------------------------------------------------------------------
(* What a vendor puts into an input: a token in a string of it, or also in *)
(* a key.                                                                  *)
MaskedInput == [strings |-> "token", rest |-> "token"]

(* Bedrock.  An input of no piece at all is an empty object, anything but  *)
(* the whole no JSON.                                                      *)
ParsedInput(input) == IF input = <<>> THEN EmptyInput ELSE MaskedInput

HandleBlockStop(adapter) ==
    IF adapter.call = NoCall THEN Yields(adapter, <<>>)
    ELSE IF adapter.input \notin {<<>>, WholeInput} THEN Throws(adapter, "TOOL_INPUT_PARSE_ERROR")
    ELSE Yields([adapter EXCEPT !.call = NoCall, !.input = <<>>],
                <<ToolChunk([id |-> adapter.call, name |-> Named("tool"),
                             input |-> ParsedInput(adapter.input)])>>)

(* Slip: the stop is passed on as it comes, before the counts.             *)
PassStopAtOnce(adapter, reason) == Yields(adapter, <<StopChunk(reason, adapter.usage)>>)

HandleMessageStop(adapter, reason) == Yields([adapter EXCEPT !.stop = reason], <<>>)

BedrockEvent(adapter, event) ==
    CASE event.kind = "text" -> Yields(adapter, TextChunk(event.text))
      [] event.kind = "toolStart" -> Yields([adapter EXCEPT !.call = event.id, !.input = <<>>], <<>>)
      [] event.kind = "toolInput" -> Yields([adapter EXCEPT !.input = Append(@, event.piece)], <<>>)
      [] event.kind = "blockStop" -> HandleBlockStop(adapter)
      [] event.kind = "messageStop" -> HandleMessageStop(adapter, event.reason)
      [] event.kind = "metadata" -> Yields([adapter EXCEPT !.usage = Newer(event.usage, @)], <<>>)

(* The stream's end: the stop has waited for the counts behind it.         *)
BedrockEnd(adapter) ==
    Yields([adapter EXCEPT !.over = TRUE],
           IF adapter.stop = NoStop THEN <<>> ELSE <<StopChunk(adapter.stop, adapter.usage)>>)

-----------------------------------------------------------------------------
(* Vertex.  A part carries text, a call, or both; a call's id is its name. *)
PartChunks(part) ==
    TextChunk(part.text)
        \o IF part.call THEN <<ToolChunk([id |-> Named("tool"), name |-> Named("tool"), input |-> MaskedInput])>>
           ELSE <<>>

StopReasonOf(finishReason, endOfTurn) ==
    CASE finishReason = "STOP" -> endOfTurn
      [] finishReason = "MAX_TOKENS" -> "max_tokens"
      [] finishReason = "SAFETY" -> "safety"

(* The first finish reason ends the stream, whatever the vendor had left.  *)
VertexEvent(adapter, response) ==
    LET usage == Newer(response.usage, adapter.usage)
        chunks == FlattenSeq([i \in DOMAIN response.parts |-> PartChunks(response.parts[i])])
        called == \E i \in DOMAIN chunks : chunks[i].type = "tool_use"
        endOfTurn == IF called THEN "tool_use" ELSE adapter.endOfTurn
        next == [adapter EXCEPT !.usage = usage, !.endOfTurn = endOfTurn]
    IN  IF response.finish = "" THEN Yields(next, chunks)
        ELSE Yields([next EXCEPT !.over = TRUE],
                    Append(chunks, StopChunk(StopReasonOf(response.finish, endOfTurn), usage)))

VertexEnd(adapter) ==
    Yields([adapter EXCEPT !.over = TRUE], <<StopChunk(adapter.endOfTurn, adapter.usage)>>)

-----------------------------------------------------------------------------
(* The mock.  A scripted turn is its words, its calls, and a stop that      *)
(* follows from these; a call beyond the script throws.  A tool it names   *)
(* need not exist.                                                         *)
FixedUsage == 3

MockStop(calls) == IF calls # <<>> THEN "tool_use" ELSE "end_turn"

ScriptedChunks(turn) ==
    FlattenSeq([i \in DOMAIN turn.words |-> TextChunk(turn.words[i])])
        \o [i \in DOMAIN turn.calls |-> ToolChunk(turn.calls[i])]
        \o <<StopChunk(MockStop(turn.calls), Newer(turn.usage, FixedUsage))>>

MockEvent(adapter, event) ==
    IF event.kind = "turn" THEN Yields([adapter EXCEPT !.over = TRUE], ScriptedChunks(event))
    ELSE Throws(adapter, "UNKNOWN")

-----------------------------------------------------------------------------
AdapterEvent(vendor, adapter, event) ==
    CASE vendor = "bedrock" -> BedrockEvent(adapter, event)
      [] vendor = "vertex" -> VertexEvent(adapter, event)
      [] vendor = "mock" -> MockEvent(adapter, event)

AdapterEnd(vendor, adapter) ==
    IF vendor = "bedrock" THEN BedrockEnd(adapter) ELSE VertexEnd(adapter)

-----------------------------------------------------------------------------
(* What went wrong at the vendor, and the AIError it becomes: a code, and  *)
(* whether the retry tier may try again.                                   *)
Faults == {"throttled", "out of time", "unavailable", "internal", "invalid", "denied", "unnamed"}

BedrockError(fault) ==
    CASE fault = "throttled" -> [code |-> "RATE_LIMITED", retryable |-> TRUE]
      [] fault = "out of time" -> [code |-> "TIMEOUT", retryable |-> TRUE]
      [] fault = "unavailable" -> [code |-> "SERVICE_UNAVAILABLE", retryable |-> TRUE]
      [] fault = "internal" -> [code |-> "INTERNAL_ERROR", retryable |-> TRUE]
      [] fault = "invalid" -> [code |-> "VALIDATION_ERROR", retryable |-> FALSE]
      [] fault = "denied" -> [code |-> "ACCESS_DENIED", retryable |-> FALSE]
      [] fault = "unnamed" -> [code |-> "BEDROCK_ERROR", retryable |-> FALSE]

VertexError(fault) ==
    CASE fault = "throttled" -> [code |-> "RATE_LIMITED", retryable |-> TRUE]
      [] fault = "out of time" -> [code |-> "TIMEOUT", retryable |-> TRUE]
      [] fault = "unavailable" -> [code |-> "SERVICE_UNAVAILABLE", retryable |-> TRUE]
      [] fault = "denied" -> [code |-> "AUTH_ERROR", retryable |-> FALSE]
      [] fault \in {"internal", "invalid", "unnamed"} -> [code |-> "PROVIDER_ERROR", retryable |-> FALSE]

ErrorOf(vendor, fault) == IF vendor = "bedrock" THEN BedrockError(fault) ELSE VertexError(fault)
=============================================================================
