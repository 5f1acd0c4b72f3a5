------------------------- MODULE ConversationContext -------------------------
(***************************************************************************)
(* What a turn's first request holds of the conversation: toMessages       *)
(* (src/orchestration/conversationContext.ts), which turns the session's   *)
(* entries into messages and keeps the newest that fit, and what the       *)
(* adapters make of a message on the wire of their vendor.                 *)
(*                                                                         *)
(* A text is its length and what the prompt mask finds in it; a tool       *)
(* call's JSON is as long as one unit of text.                             *)
(***************************************************************************)
EXTENDS Naturals, Sequences, SequencesExt, AnswerParts

(* A session entry, as far as the context reads it.                        *)
Entry == [role : {"user", "assistant", "thinking", "tool"}, size : Nat,
          content : Found, cleared : BOOLEAN]

(* A message's content is a text, or what its blocks answer.               *)
Message ==
    [role : {"user", "assistant"}, kind : {"text", "tool_use", "tool_result"}, blocks : Seq(Call),
     size : Nat, content : Found]

TextMessage(role, size, content) ==
    [role |-> role, kind |-> "text", blocks |-> <<>>, size |-> size, content |-> content]

(* The message with a round's calls, and the one that answers them.        *)
CallMessage(calls) ==
    [role |-> "assistant", kind |-> "tool_use", blocks |-> calls, size |-> Len(calls), content |-> "nothing"]

ResultMessage(calls, content) ==
    [role |-> "user", kind |-> "tool_result", blocks |-> calls, size |-> Len(calls), content |-> content]

(* A stored tool entry becomes a call, under an id of the context's own,   *)
(* and a result that says nothing of the tool's.                           *)
ToolNumber(entries, i) ==
    Cardinality({j \in 1..(i - 1) : entries[j].role = "tool" /\ ~entries[j].cleared})

HistoryCall(entries, i) ==
    <<[id |-> [of |-> "hist", number |-> <<0, ToolNumber(entries, i)>>], name |-> Named("tool"),
       input |-> [strings |-> entries[i].content, rest |-> "nothing"]]>>

MessagesOf(entries, i) ==
    LET e == entries[i] IN
    CASE e.cleared \/ e.role = "thinking" -> <<>>
      [] ~e.cleared /\ e.role = "tool" ->
            <<CallMessage(HistoryCall(entries, i)), ResultMessage(HistoryCall(entries, i), "nothing")>>
      [] ~e.cleared /\ e.role \in {"user", "assistant"} -> <<TextMessage(e.role, e.size, e.content)>>

ToContentMessages(entries) ==
    FlattenSeq([i \in DOMAIN entries |-> MessagesOf(entries, i)])

-----------------------------------------------------------------------------
ContentLength[messages \in Seq(Message)] ==
    IF messages = <<>> THEN 0 ELSE ContentLength[Front(messages)] + Last(messages).size

From(messages, k) == SubSeq(messages, k, Len(messages))

(* messages.slice(-maxMessages), which keeps all of them for 0.            *)
Newest(messages, maxMessages) ==
    IF maxMessages \in 1..Len(messages)
    THEN From(messages, Len(messages) - maxMessages + 1)
    ELSE messages

(* The oldest go until the rest fits, or only one is left.                 *)
Fitting(messages, maxContentLength) ==
    IF messages = <<>> THEN <<>>
    ELSE LET cuts == {k \in DOMAIN messages :
                        \/ ContentLength[From(messages, k)] <= maxContentLength
                        \/ k = Len(messages)}
         IN  From(messages, Min(cuts))

OpensWithUserText(m) == m.role = "user" /\ m.kind = "text"

(* Slip: a tool result is a user message too.                              *)
OpenedByAnyUserMessage(messages) ==
    LET k == SelectInSeq(messages, LAMBDA m : m.role = "user") IN
    IF k = 0 THEN <<>> ELSE From(messages, k)

(* What is sent opens with a user's text.                                  *)
Opened(messages) ==
    LET k == SelectInSeq(messages, OpensWithUserText) IN
    IF k = 0 THEN <<>> ELSE From(messages, k)

ApplyMessageWindow(messages, config) ==
    Opened(Fitting(Newest(messages, config.maxMessages), config.maxContentLength))

ToMessages(entries, config) == ApplyMessageWindow(ToContentMessages(entries), config)

-----------------------------------------------------------------------------
(* mapMessage of either adapter: Bedrock names a block by its id on both   *)
(* sides; Vertex names a call by its function and a response by its id,    *)
(* and calls the assistant "model".                                        *)
InputsOf(m) == IF m.kind = "tool_use" THEN [i \in DOMAIN m.blocks |-> m.blocks[i].input] ELSE <<>>
ContentOf(m) == IF m.kind = "tool_use" THEN "nothing" ELSE m.content

BedrockMessage(m) ==
    [role |-> m.role, kind |-> m.kind, names |-> [i \in DOMAIN m.blocks |-> m.blocks[i].id],
     inputs |-> InputsOf(m), content |-> ContentOf(m)]

VertexMessage(m) ==
    [role |-> IF m.role = "assistant" THEN "model" ELSE "user", kind |-> m.kind,
     names |-> [i \in DOMAIN m.blocks |->
                  IF m.kind = "tool_use" THEN m.blocks[i].name ELSE m.blocks[i].id],
     inputs |-> InputsOf(m), content |-> ContentOf(m)]

-----------------------------------------------------------------------------
(* What the window promises: of the suffixes that open with a user's text  *)
(* and keep within both bounds, a single message of any length among them, *)
(* the longest.                                                            *)
Admissible(suffix, config) ==
    /\ suffix # <<>> => OpensWithUserText(Head(suffix))
    /\ config.maxMessages # 0 => Len(suffix) <= config.maxMessages
    /\ Len(suffix) > 1 => ContentLength[suffix] <= config.maxContentLength

LongestAdmissible(messages, config) ==
    LET k == CHOOSE k \in 1..(Len(messages) + 1) :
               /\ Admissible(From(messages, k), config)
               /\ \A j \in 1..(k - 1) : ~Admissible(From(messages, j), config)
    IN  From(messages, k)
=============================================================================
