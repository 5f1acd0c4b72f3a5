----------------------------- MODULE ProviderTurn -----------------------------
(***************************************************************************)
(* One turn of the model, from the session's entries to the text the       *)
(* handler cuts out of the answer: the request each round sends, and the   *)
(* vendor's stream on its way through the adapter, the prompt mask, the    *)
(* orchestrator's streamRound (orchestration/chatOrchestrator.ts) and the  *)
(* handler's parser (transport/ws/messageHandler.ts).                      *)
(*                                                                         *)
(* Between two events of the vendor nothing but microtasks runs, so all of *)
(* them take an event in one step; an abort comes between events.  How     *)
(* tools run, the hooks and the entries a turn writes are in ToolRounds    *)
(* and EntryStream; here a call is the registry's verdict on it.           *)
(***************************************************************************)
EXTENDS Naturals, Sequences, SequencesExt,
        ConversationContext, ThinkingTagParser, ToolRegistry, VendorStream

CONSTANTS
    Setups,      \* a session's entries, the deployment's configuration and tools, and what
                 \* the vendor and the tools' owner may do
    Texts,       \* what a Bedrock text delta may hold
    Responses,   \* what a Vertex response may hold
    MaxRounds    \* maxToolRounds

ASSUME SetupsAssumption ==
    \A s \in Setups :
        /\ s.entries \in Seq(Entry) /\ s.entries # <<>>
        /\ Last(s.entries).role = "user" /\ ~Last(s.entries).cleared
        /\ s.maxMessages \in Nat /\ s.maxContentLength \in Nat
        /\ s.vendor \in {"bedrock", "vertex", "mock"} /\ s.masked \in BOOLEAN
        /\ s.events \in Nat   \* bound: events of all rounds
        /\ s.faults \subseteq Faults
        /\ s.scripts \subseteq Script
        /\ s.tools \in Seq(Source) /\ s.before \in Seq(Call)
        /\ s.later \subseteq Source /\ s.schemas \subseteq STRING
        /\ s.changes \in Nat  \* bound: what becomes of the tools during the turn

ASSUME VendorsAssumption == Texts \subseteq Text \ {<<>>} /\ Responses \subseteq Response

ASSUME RoundsAssumption == MaxRounds \in Nat

VARIABLES
    setup,      \* chosen once
    at,         \* where the turn is
    messages,   \* the orchestrator's messages array
    requests,   \* what each round's request held on the wire (history)
    wire,       \* the adapter's state, and the text the mask holds back
    round,      \* what streamRound gathered
    registry,   \* the tools
    tools,      \* their definitions as the turn read them, and what each round offered (history)
    changed,    \* how often the tools changed since
    turn,       \* totalUsage and responseText
    shown,      \* the handler's parser, and the segments it has been given
    said,       \* what the vendor sent, per round (history)
    aborted,    \* the run's signal
    error       \* what the turn failed of

toolVars == <<registry, tools, changed>>
vars == <<setup, at, messages, requests, wire, round, toolVars, turn, shown, said, aborted, error>>

NewWire == [adapter |-> NewAdapter, held |-> <<>>]
NewRound == [calls |-> <<>>, stopReason |-> NoStop, usage |-> 0, text |-> <<>>]
NoError == [code |-> "", retryable |-> FALSE]

(* Read once, before the first round, the prompt's instructions with them. *)
TurnTools == GetDefinitions(registry)

Init ==
    /\ setup \in Setups
    /\ at = "ask"
    /\ messages = ToMessages(setup.entries, setup)
    /\ requests = <<>> /\ said = <<>>
    /\ wire = NewWire /\ round = NewRound
    /\ registry = ExecuteAll(Registered[setup.tools], setup.before).registry
    /\ tools = [read |-> TurnTools, offered |-> <<>>]
    /\ changed = 0
    /\ turn = [usage |-> 0, text |-> <<>>]
    /\ shown = [parser |-> NewParser, segments |-> <<>>]
    /\ aborted = FALSE /\ error = NoError

-----------------------------------------------------------------------------
(* What a round sends.                                                     *)
MaskedForSending == IF setup.masked THEN [i \in DOMAIN messages |-> MaskMessage(messages[i])] ELSE messages

OnTheWire(message) ==
    IF setup.vendor = "vertex" THEN VertexMessage(message) ELSE BedrockMessage(message)

(* The masked messages exist before the adapter looks at the signal.       *)
MaskThrows ==
    /\ at = "ask" /\ setup.masked
    /\ at' = IF aborted THEN "abandoned" ELSE "failed"
    /\ error' = IF aborted THEN NoError ELSE [code |-> "MASK", retryable |-> FALSE]
    /\ UNCHANGED <<setup, messages, requests, wire, round, toolVars, turn, shown, said, aborted>>

Ask ==
    /\ at = "ask" /\ ~aborted
    /\ requests' = Append(requests, [i \in DOMAIN messages |-> OnTheWire(MaskedForSending[i])])
    /\ said' = Append(said, <<>>)
    /\ wire' = NewWire /\ round' = NewRound
    /\ tools' = [tools EXCEPT !.offered = Append(@, tools.read)]
    /\ at' = "streaming"
    /\ UNCHANGED <<setup, messages, registry, changed, turn, shown, aborted, error>>

-----------------------------------------------------------------------------
(* What streamRound and the handler make of a chunk; w holds both.         *)
Hearing == [round |-> round, shown |-> shown]

Given(segments, step) == [parser |-> step.parser, segments |-> segments \o step.segments]

TakeChunk(w, chunk) ==
    CASE chunk.type = "text" ->
            [round |-> [w.round EXCEPT !.text = @ \o chunk.text],
             shown |-> Given(w.shown.segments, PushText(w.shown.parser, chunk.text))]
      [] chunk.type = "tool_use" ->
            [round |-> [w.round EXCEPT !.calls = Append(@, chunk.call)], shown |-> w.shown]
      [] chunk.type = "stop" ->
            [round |-> [w.round EXCEPT !.stopReason = chunk.stopReason, !.usage = Newer(chunk.usage, @)],
             shown |-> Given(w.shown.segments, FlushText(w.shown.parser))]

(* Slip: the handler does not look at the signal.                          *)
HearRegardless(w, chunks) ==
    LET heard[given \in Seq(Chunk)] ==
            IF given = <<>> THEN w ELSE TakeChunk(heard[Front(given)], Last(given))
    IN  heard[chunks]

(* The handler leaves the loop at the first chunk behind an abort.         *)
Hear(w, chunks) == IF aborted THEN w ELSE HearRegardless(w, chunks)

Unmasked(held, chunks) ==
    IF setup.masked THEN RestoreChunks(held, chunks) ELSE [held |-> held, chunks |-> chunks]

(* The end of the provider's stream lets go of what the mask held back.    *)
Rest(held) == IF setup.masked THEN FlushHeld(held).chunks ELSE <<>>

(* The finally of the handler.                                             *)
Flushed(w) == Given(w.shown.segments, FlushText(w.shown.parser))

Saying(event) == said' = [said EXCEPT ![Len(said)] = Append(@, event)]

Fails(code) ==
    /\ at' = "failed" /\ error' = code
    /\ shown' = Flushed(Hearing)
    /\ wire' = [wire EXCEPT !.held = <<>>]

-----------------------------------------------------------------------------
(* An event of the vendor's, all the way.                                  *)
Receive(event) ==
    LET step == AdapterEvent(setup.vendor, wire.adapter, event)
        passed == Unmasked(wire.held, step.chunks)
        heard == Hear(Hearing, passed.chunks)
    IN  /\ at = "streaming" /\ ~aborted
        /\ Saying(event)
        /\ \/ /\ step.error = ""
              /\ wire' = [adapter |-> step.adapter, held |-> passed.held]
              /\ round' = heard.round /\ shown' = heard.shown
              /\ at' = IF step.adapter.over THEN "ended" ELSE "streaming"
              /\ UNCHANGED error
           \/ /\ step.error # ""
              /\ Fails([code |-> step.error, retryable |-> FALSE])
              /\ UNCHANGED round
        /\ UNCHANGED <<setup, messages, requests, toolVars, turn, aborted>>

(* The vendor's stream ends; a mock's ends with its turn.                  *)
VendorEnds ==
    LET step == AdapterEnd(setup.vendor, wire.adapter)
        passed == Unmasked(wire.held, step.chunks)
        heard == Hear(Hearing, passed.chunks \o Rest(passed.held))
    IN  /\ at = "streaming" /\ ~aborted /\ setup.vendor # "mock"
        /\ wire' = [adapter |-> step.adapter, held |-> <<>>]
        /\ round' = heard.round /\ shown' = heard.shown
        /\ at' = "ended"
        /\ UNCHANGED <<setup, messages, requests, toolVars, turn, said, aborted, error>>

(* The vendor's request or stream fails; what the mask held back is lost.  *)
VendorFails(fault) ==
    /\ at = "streaming" /\ ~aborted
    /\ Fails(ErrorOf(setup.vendor, fault))
    /\ UNCHANGED <<setup, messages, requests, round, toolVars, turn, said, aborted>>

-----------------------------------------------------------------------------
(* Behind the round: on with the tools, or the end of the turn.            *)
ContinueToolLoop == round.stopReason = "tool_use" /\ round.calls # <<>>

AccumulateUsage(acc, next) == acc + next

EndRound ==
    /\ at = "ended"
    /\ turn' = [usage |-> AccumulateUsage(turn.usage, round.usage), text |-> turn.text \o round.text]
    /\ at' = IF ContinueToolLoop /\ Len(requests) <= MaxRounds THEN "tools" ELSE "done"
    /\ shown' = IF at' = "done" THEN Flushed(Hearing) ELSE shown
    /\ UNCHANGED <<setup, messages, requests, wire, round, toolVars, said, aborted, error>>

(* A definition that throws ends the turn; anything else is an answer.     *)
RunTools ==
    LET ran == ExecuteAll(registry, round.calls) IN
    /\ at = "tools" /\ ~aborted
    /\ registry' = ran.registry
    /\ \/ /\ "throws" \notin ToSet(ran.answers)
          /\ messages' = messages \o <<CallMessage(round.calls), ResultMessage(round.calls, "value")>>
          /\ at' = "ask"
          /\ UNCHANGED <<wire, shown, error>>
       \/ /\ "throws" \in ToSet(ran.answers)
          /\ messages' = Append(messages, CallMessage(round.calls))
          /\ Fails([code |-> "UNKNOWN", retryable |-> FALSE])
    /\ UNCHANGED <<setup, requests, round, tools, changed, turn, said, aborted>>

(* The host registers a tool, or a function it registered answers another  *)
(* schema, at any moment of the turn.                                      *)
ToolsChange ==
    /\ at \in {"ask", "streaming", "tools"} /\ changed < setup.changes
    /\ changed' = changed + 1
    /\ \/ \E source \in setup.later : registry' = Register(registry, source)
       \/ \E name \in DOMAIN registry.source, schema \in setup.schemas :
             /\ registry.source[name].function
             /\ registry' = Redefined(registry, name, schema)
    /\ UNCHANGED <<setup, at, messages, requests, wire, round, tools, turn, shown, said, aborted, error>>

-----------------------------------------------------------------------------
Abort ==
    /\ at \in {"ask", "streaming", "tools"} /\ ~aborted
    /\ aborted' = TRUE
    /\ UNCHANGED <<setup, at, messages, requests, wire, round, toolVars, turn, shown, said, error>>

(* The adapter returns at once, but the mask still lets go of what it held. *)
Abandon ==
    LET heard == Hear(Hearing, IF at = "streaming" THEN Rest(wire.held) ELSE <<>>) IN
    /\ at \in {"ask", "streaming", "tools"} /\ aborted
    /\ at' = "abandoned"
    /\ wire' = [wire EXCEPT !.held = <<>>]
    /\ round' = heard.round /\ shown' = Flushed(heard)
    /\ UNCHANGED <<setup, messages, requests, toolVars, turn, said, aborted, error>>

-----------------------------------------------------------------------------
(* What the vendors may send, of what they have sent in the round: blocks, *)
(* one after the other, then a stop; the counts at any time.               *)
Now == Last(said)

Says(kind) == \E i \in DOMAIN Now : Now[i].kind = kind
InTool == Now # <<>> /\ Last(Now).kind \in {"toolStart", "toolInput"}
InText == Now # <<>> /\ Last(Now).kind = "text"

BedrockMaySay(event) ==
    CASE event.kind = "text" -> ~InTool /\ ~Says("messageStop")
      [] event.kind = "toolStart" -> ~InTool /\ ~Says("messageStop")
      [] event.kind = "toolInput" -> InTool
      [] event.kind = "blockStop" -> InTool \/ InText
      [] event.kind = "messageStop" -> ~InTool /\ ~Says("messageStop")
      [] event.kind = "metadata" -> ~InTool /\ ~Says("metadata")

BedrockEvents ==
    [kind : {"text"}, text : Texts]
    \union {[kind |-> "toolStart", id |-> [of |-> "call", number |-> <<Len(said), Len(Now)>>]], [kind |-> "blockStop"],
            [kind |-> "metadata", usage |-> Len(said)]}
    \union [kind : {"toolInput"}, piece : Pieces]
    \union [kind : {"messageStop"}, reason : {"tool_use", "end_turn", "max_tokens"}]

VertexEvents == {[r EXCEPT !.usage = @ * Len(said)] : r \in Responses}

(* Its script may be shorter than the rounds that are asked for.           *)
MockEvents == {[s EXCEPT !.usage = @ * Len(said)] : s \in setup.scripts} \union {[kind |-> "exhausted"]}

Spoken == Len(FlattenSeq(said))

VendorSays ==
    /\ at = "streaming" /\ Spoken < setup.events
    /\ \/ setup.vendor = "bedrock" /\ \E e \in BedrockEvents : BedrockMaySay(e) /\ Receive(e)
       \/ setup.vendor = "vertex" /\ \E e \in VertexEvents : Receive(e)
       \/ setup.vendor = "mock" /\ \E e \in MockEvents : Receive(e)

Over == at \in {"done", "failed", "abandoned"} /\ UNCHANGED vars

Next ==
    \/ MaskThrows \/ Ask \/ VendorSays \/ VendorEnds
    \/ \E fault \in setup.faults : VendorFails(fault)
    \/ EndRound \/ RunTools \/ ToolsChange \/ Abort \/ Abandon \/ Over

Spec == Init /\ [][Next]_vars

-----------------------------------------------------------------------------
(* What a round's events say, read off the events themselves: its texts    *)
(* and its calls in order, its counts and its stop.                        *)
Utterance == [text : Text, call : Seq(Name)]

Speaks(text) == [text |-> text, call |-> <<>>]
Calls(id) == [text |-> <<>>, call |-> <<id>>]

Parts(response) ==
    FlattenSeq([i \in DOMAIN response.parts |->
        <<Speaks(response.parts[i].text)>>
            \o IF response.parts[i].call THEN <<Calls(Named("tool"))>> ELSE <<>>])

Lines(event) ==
    [i \in DOMAIN event.words |-> Speaks(event.words[i])]
        \o [i \in DOMAIN event.calls |-> Calls(event.calls[i].id)]

UtterancesOf(event) ==
    CASE event.kind = "response" -> Parts(event)
      [] event.kind = "turn" -> Lines(event)
      [] event.kind = "text" -> <<Speaks(event.text)>>
      [] event.kind = "toolStart" -> <<Calls(event.id)>>
      [] OTHER -> <<>>

Utterances(events) == FlattenSeq([i \in DOMAIN events |-> UtterancesOf(events[i])])

(* The texts between two calls, each with the values in place: the text of *)
(* those that a call has ended, and what was said since.                   *)
PutBack(masked, text) == IF masked THEN Restore[text] ELSE text

Rendering(masked, utterances) ==
    LET rendered[given \in Seq(Utterance)] ==
            IF given = <<>> THEN [before |-> <<>>, since |-> <<>>]
            ELSE LET earlier == rendered[Front(given)] IN
                 IF Last(given).call = <<>>
                 THEN [before |-> earlier.before, since |-> earlier.since \o Last(given).text]
                 ELSE [before |-> earlier.before \o PutBack(masked, earlier.since), since |-> <<>>]
    IN  rendered[utterances]

TextOf(masked, events) ==
    LET rendering == Rendering(masked, Utterances(events))
    IN  rendering.before \o PutBack(masked, rendering.since)

(* All rounds, read from the beginning, but for the last characters of the *)
(* last; thinking may go on in the next round.                             *)
ReadOn(read, text) ==
    LET next == Read[Holding(read.inside, text)]
    IN  [segments |-> read.segments \o next.segments, inside |-> next.inside]

Reading(masked, rounds) ==
    LET read[given \in Seq(Seq(Event))] ==
            IF given = <<>> THEN [segments |-> <<>>, inside |-> FALSE]
            ELSE ReadOn(read[Front(given)], TextOf(masked, Last(given)))
    IN  read[rounds]

ReadingBut(missing) ==
    IF said = <<>> THEN <<>>
    ELSE LET text == TextOf(setup.masked, Now)
         IN  ReadOn(Reading(setup.masked, Front(said)), SubSeq(text, 1, Len(text) - missing)).segments

(* However the vendor cuts its text, tokens and tags included, and however *)
(* rounds, calls and stops lie in between, what the handler is given is    *)
(* what the whole text reads as with the values in place: never another    *)
(* character, never more behind than a token and a tag that might still    *)
(* come, and all of it once the turn is through.  A turn cut off, by a     *)
(* failure or an abort, loses of it at most what could have been a token's *)
(* beginning (withMask.ts, thinkingTagParser.ts, flushHeldText).  A value  *)
(* that makes a token with what follows it is put back twice, and breaks   *)
(* this (StandsApart, withMask.ts:117).                                    *)
SpokenIsShown ==
    CASE at \in {"failed", "abandoned"} ->
            \E missing \in 0..(MaxTokenLength - 1) :
                /\ missing # 0 => setup.masked /\ said # <<>> /\ missing <= Len(TextOf(setup.masked, Now))
                /\ shown.segments = ReadingBut(missing)
      [] at = "done" -> shown.segments = ReadingBut(0)
      [] OTHER -> /\ IsPrefix(shown.segments, ReadingBut(0))
                  /\ Len(ReadingBut(0)) <= Len(shown.segments) + MaxTokenLength + Len(CloseTag) - 2

-----------------------------------------------------------------------------
Starts(events, i) == events[i].kind = "toolStart"
Closed(events, i) == \E j \in DOMAIN events : j > i /\ events[j].kind = "blockStop"

SpokenCalls(vendor, events) ==
    IF vendor = "bedrock"
    THEN FlattenSeq([i \in DOMAIN events |->
            IF Starts(events, i) /\ Closed(events, i) THEN <<events[i].id>> ELSE <<>>])
    ELSE LET utterances == Utterances(events)
         IN  FlattenSeq([i \in DOMAIN utterances |-> utterances[i].call])

Stops(events) == {i \in DOMAIN events : events[i].kind = "messageStop"}

(* Bedrock's stop is what it sent, and without one its counts go nowhere;  *)
(* Vertex's follows from its calls unless it finished for another reason,  *)
(* a mock's does always.                                                   *)
SpokenStop(vendor, events) ==
    CASE vendor = "bedrock" -> IF Stops(events) = {} THEN NoStop ELSE events[Max(Stops(events))].reason
      [] vendor = "vertex" /\ Last(events).finish = "MAX_TOKENS" -> "max_tokens"
      [] vendor = "vertex" /\ Last(events).finish = "SAFETY" -> "safety"
      [] OTHER -> IF SpokenCalls(vendor, events) # <<>> THEN "tool_use" ELSE "end_turn"

Counts(events) ==
    {i \in DOMAIN events : events[i].kind \in {"metadata", "response", "turn"} /\ events[i].usage # 0}

SpokenUsage(vendor, events) ==
    IF SpokenStop(vendor, events) = NoStop THEN 0
    ELSE IF Counts(events) # {} THEN events[Max(Counts(events))].usage
    ELSE IF vendor = "mock" THEN FixedUsage ELSE 0

UsageOf(vendor, rounds) ==
    LET usage[given \in Seq(Seq(Event))] ==
            IF given = <<>> THEN 0
            ELSE usage[Front(given)]
                    + (IF Last(given) = <<>> THEN 0 ELSE SpokenUsage(vendor, Last(given)))
    IN  usage[rounds]

(* A round ends with the stop the vendor gave, every call that was sent    *)
(* whole, once and in order, and its last counts, whichever came first;    *)
(* and a turn reports the counts and the text of all its rounds            *)
(* (parseStreamEvents, turnChunks, streamRound, accumulateUsage).          *)
RoundAsSpoken ==
    /\ at = "ended" =>
        /\ [i \in DOMAIN round.calls |-> round.calls[i].id] = SpokenCalls(setup.vendor, Now)
        /\ Now # <<>> => /\ round.stopReason = SpokenStop(setup.vendor, Now)
                         /\ round.usage = SpokenUsage(setup.vendor, Now)
    /\ at = "done" =>
        /\ turn.usage = UsageOf(setup.vendor, said)
        /\ turn.text = FlattenSeq([r \in DOMAIN said |-> TextOf(setup.masked, said[r])])

-----------------------------------------------------------------------------
Answered(request, i) ==
    /\ i < Len(request) /\ request[i + 1].kind = "tool_result" /\ request[i + 1].role = "user"
    /\ Len(request[i + 1].names) = Len(request[i].names)
    /\ setup.vendor # "vertex" => request[i + 1].names = request[i].names

(* No vendor has cause to refuse a request, whatever the bounds cut away:  *)
(* it opens with a user's text, every message with calls is followed by    *)
(* the answers to exactly these, and no answer stands without its call.    *)
(* The first holds as much of the conversation as the bounds allow, the    *)
(* question always, and a later one the earlier and what followed it.  All *)
(* rounds of a turn offer the same tools, whatever has been registered     *)
(* since; what a call is told is what its tool is defined as when called,  *)
(* whatever was compiled before (conversationContext.ts, registry.ts:70).  *)
RequestAcceptable ==
    /\ at = "tools" => ExecuteAll(registry, round.calls).answers =
                            [i \in DOMAIN round.calls |-> AsDefined(registry, round.calls[i])]
    /\ \A r \in DOMAIN requests :
        LET request == requests[r] IN
        /\ request # <<>> /\ request[1].role = "user" /\ request[1].kind = "text"
        /\ \A i \in DOMAIN request :
            /\ request[i].kind = "tool_use" => Answered(request, i)
            /\ request[i].kind = "tool_result" => request[i - 1].kind = "tool_use"
        /\ Len(request) = Len(requests[1]) + 2 * (r - 1)
        /\ r = 1 => Len(request) = Len(LongestAdmissible(ToContentMessages(setup.entries), setup))
        /\ r > 1 => IsPrefix(requests[r - 1], request) /\ tools.offered[r] = tools.offered[r - 1]

(* A mask works in both directions at once.  No text of a stored           *)
(* conversation, no string of a call's input and no result that holds a    *)
(* value reaches the vendor, whichever round sends it; and no string of an *)
(* input that a tool runs with still holds a token, which is why the same  *)
(* call must be masked again when the next round repeats it.  The keys and *)
(* the numbers of an input pass the mask either way as they are            *)
(* (withMask.ts:62-68, 86-101).                                            *)
NothingRealLeaves ==
    setup.masked =>
        /\ \A r \in DOMAIN requests : \A i \in DOMAIN requests[r] :
              LET sent == requests[r][i] IN
              /\ sent.content # "value"
              /\ \A j \in DOMAIN sent.inputs : sent.inputs[j].strings # "value"
        /\ \A i \in DOMAIN round.calls : round.calls[i].input.strings # "token"

(* Behind an abort no request is sent and nothing more of the answer is    *)
(* taken, what the mask then lets go of included; the handler only closes  *)
(* with what its parser held.                                              *)
QuietAfterAbort ==
    [][aborted => /\ requests' = requests /\ turn' = turn
                  /\ \/ shown' = shown
                     \/ shown'.segments = shown.segments
                            \o Segment(shown.parser.insideThinking, shown.parser.buffer)]_vars
=============================================================================
