----------------------------- MODULE EntryStream -----------------------------
(***************************************************************************)
(* What the turns of one session write and send: the chunks of a run as    *)
(* messageHandler.ts forwards them, the entry writer every write goes      *)
(* through (orchestration/entryMutations.ts), the end of the turn in the   *)
(* orchestrator, which comes before the end of the turn in the handler,    *)
(* and the copy of the conversation the client that sent the messages      *)
(* builds from the frames it is sent.                                      *)
(*                                                                         *)
(* A text is the sequence of the chunks it was made of.  ThinkingTagParser *)
(* is modelled by what a push can answer: the spans the tags cut a chunk   *)
(* into, in alternating modes, and whether a tail that might open a tag is *)
(* held back.                                                              *)
(***************************************************************************)
EXTENDS Naturals, Sequences, FiniteSets

CONSTANTS
    Policies,     \* the entry policies a deployment may configure (see Policy)
    MaxTurns,     \* bound: user messages
    MaxChunks,    \* bound: text chunks of all turns
    MaxRounds,    \* bound: tool rounds of a turn
    MaxEntries    \* bound: entries of the session

(* redactEntry: none, one that works, or one that throws; and              *)
(* maxContentEntries, where 0 stands for no bound.                         *)
Policy == [redaction : {"off", "on", "refusing"}, maxContent : Nat]

ASSUME PoliciesAssumption == Policies \subseteq Policy
ASSUME BoundsAssumption == {MaxTurns, MaxChunks, MaxRounds, MaxEntries} \subseteq Nat

VARIABLES
    policy,    \* the entry policy, configured once
    entries,   \* session.entries
    view,      \* per index, the client's copy of that entry
    stream,    \* the handler's StreamState and parser, and whether its socket is open;
               \* index is thinkingIndex and assistantIndex, by the role
    run,       \* where the orchestrator's run is
    saved,     \* what the last saveSession() stored
    said,      \* how many text chunks the providers have sent (numbers them)
    turns      \* how many turns began

streamVars == <<policy, entries, view, stream, run, saved, said, turns>>

Roles == {"user", "assistant", "thinking", "tool"}
Model == {"assistant", "thinking"}
Text == Seq(1..(MaxChunks + 1))
Entry == [role : Roles, text : Text, isStreaming : BOOLEAN, truncated : BOOLEAN,
          suppressed : BOOLEAN, cleared : BOOLEAN, redacted : BOOLEAN]
Copy == [state : {"unknown", "open", "committed", "skipped"}, text : Text,
         truncated : BOOLEAN, confused : BOOLEAN]
Indices == 1..MaxEntries

Unknown == [state |-> "unknown", text |-> <<>>, truncated |-> FALSE, confused |-> FALSE]

NewStream == [index |-> [role \in Model |-> 0], suppressOutput |-> FALSE, blankable |-> {},
              insideThinking |-> FALSE, held |-> <<>>, open |-> TRUE]

StreamTypeOK ==
    /\ policy \in Policies
    /\ entries \in Seq(Entry) /\ Len(entries) <= MaxEntries
    /\ view \in [Indices -> Copy]
    /\ stream \in [index : [Model -> {0} \union Indices], suppressOutput : BOOLEAN,
                   blankable : SUBSET Indices, insideThinking : BOOLEAN, held : Text, open : BOOLEAN]
    /\ run \in [at : {"idle", "round", "stopped", "over"}, rounds : 0..MaxRounds, pending : BOOLEAN]
    /\ saved \in Seq(Entry)
    /\ said \in 0..MaxChunks /\ turns \in 0..MaxTurns

Idle == [at |-> "idle", rounds |-> 0, pending |-> FALSE]

StreamInit ==
    /\ policy \in Policies
    /\ entries = <<>> /\ saved = <<>>
    /\ view = [i \in Indices |-> Unknown]
    /\ stream = NewStream
    /\ run = Idle
    /\ said = 0 /\ turns = 0

-----------------------------------------------------------------------------
(* entryMutations.ts.  Each writer takes the entries and answers them as   *)
(* the call leaves them.                                                   *)
Opened(role) ==
    [role |-> role, text |-> <<>>, isStreaming |-> role \in Model, truncated |-> FALSE,
     suppressed |-> FALSE, cleared |-> FALSE, redacted |-> FALSE]

Cleared(e) == [e EXCEPT !.text = <<>>, !.cleared = TRUE, !.redacted = TRUE]

Redacted(e) == IF policy.redaction = "off" \/ e.role = "user" THEN e
               ELSE IF policy.redaction = "on" THEN [e EXCEPT !.redacted = TRUE]
               ELSE Cleared(e)

AppendEntry(es, e) == Append(es, IF e.isStreaming THEN e ELSE Redacted(e))

(* Slip: held-back text of a closed entry is stored unredacted.            *)
AppendDeltaUnredacted(es, i, text) ==
    IF es[i].cleared THEN es
    ELSE [es EXCEPT ![i] = [@ EXCEPT !.text = @ \o text, !.redacted = FALSE]]

AppendDelta(es, i, text) ==
    IF es[i].role \notin Model \/ es[i].cleared THEN es
    ELSE LET e == [es[i] EXCEPT !.text = @ \o text, !.redacted = FALSE] IN
         [es EXCEPT ![i] = IF e.isStreaming THEN e ELSE Redacted(e)]

CommitEntry(es, i) ==
    IF ~es[i].isStreaming THEN es
    ELSE [es EXCEPT ![i] = Redacted([@ EXCEPT !.isStreaming = FALSE])]

ClearBeyond(es) ==
    IF policy.maxContent = 0 THEN es
    ELSE [i \in DOMAIN es |-> IF i + policy.maxContent <= Len(es) /\ ~es[i].cleared
                              THEN Cleared(es[i]) ELSE es[i]]

CloseTurn(es) ==
    ClearBeyond([i \in DOMAIN es |->
        IF es[i].isStreaming
        THEN Redacted([es[i] EXCEPT !.truncated = TRUE, !.isStreaming = FALSE])
        ELSE es[i]])

-----------------------------------------------------------------------------
(* The client's side of the protocol: what it makes of each frame.  A delta *)
(* for an entry it does not hold open, and a commit or a skip it cannot     *)
(* place, leave it confused.                                               *)
CopyOf(e) == [state |-> IF e.isStreaming THEN "open" ELSE "committed",
              text |-> e.text, truncated |-> e.truncated, confused |-> FALSE]

Upsert(v, i, e) == [v EXCEPT ![i] = [CopyOf(e) EXCEPT !.confused = v[i].confused]]
Delta(v, i, text) == [v EXCEPT ![i].text = @ \o text, ![i].confused = @ \/ v[i].state # "open"]
Commit(v, i) == [v EXCEPT ![i].state = "committed",
                          ![i].confused = @ \/ v[i].state \notin {"open", "committed"}]
Skip(v, i) == [v EXCEPT ![i].state = "skipped", ![i].confused = @ \/ v[i].state # "unknown"]

-----------------------------------------------------------------------------
(* The handler's functions thread the session, the client's view and the   *)
(* stream state: w is a record of the three.                               *)
World == [entries |-> entries, view |-> view, stream |-> stream]

Becomes(w) == entries' = w.entries /\ view' = w.view /\ stream' = w.stream

Write(w, es, s) == [entries |-> es, view |-> w.view, stream |-> s]

(* A frame reaches the client while the socket is open.                    *)
Send(w, v) == IF w.stream.open THEN [w EXCEPT !.view = v] ELSE w

Marked(e) == [e EXCEPT !.suppressed = @ \/ e.role \in Model]

MarkSuppressed(es, i) == [es EXCEPT ![i] = Marked(@)]

(* Slip: the index of an entry that was committed is kept.                 *)
CommitAndKeep(w, role) ==
    LET i == w.stream.index[role]
        es == CommitEntry(w.entries, i)
    IN  IF i = 0 THEN w
        ELSE IF w.stream.suppressOutput THEN Write(w, es, w.stream)
        ELSE Send(Write(w, es, [w.stream EXCEPT !.blankable = @ \union {i}]), Commit(w.view, i))

(* commitAndClear                                                          *)
CommitAndClear(w, role) ==
    LET i == w.stream.index[role]
        es == CommitEntry(w.entries, i)
        cleared == [w.stream EXCEPT !.index[role] = 0]
    IN  IF i = 0 THEN w
        ELSE IF w.stream.suppressOutput THEN Write(w, es, cleared)
        ELSE Send(Write(w, es, [cleared EXCEPT !.blankable = @ \union {i}]), Commit(w.view, i))

CommitOpenEntries(w) == CommitAndClear(CommitAndClear(w, "thinking"), "assistant")

(* initSegment and the first frame of a new entry: its upsert, or a skip.  *)
OpenSegment(w, role) ==
    IF w.stream.index[role] # 0 THEN w
    ELSE LET i == Len(w.entries) + 1
             es == AppendEntry(w.entries, Opened(role))
             opened == [w.stream EXCEPT !.index[role] = i]
         IN  IF w.stream.suppressOutput
             THEN Send(Write(w, MarkSuppressed(es, i), opened), Skip(w.view, i))
             ELSE Send(Write(w, es, opened), Upsert(w.view, i, Opened(role)))

StreamSegment(w, role, text) ==
    LET v == OpenSegment(w, role)
        i == v.stream.index[role]
        written == Write(v, AppendDelta(v.entries, i, text), v.stream)
    IN  IF v.stream.suppressOutput THEN written ELSE Send(written, Delta(v.view, i, text))

(* handleTextSegment: an answer ends the thought before it.                *)
TextSegment(w, segment) ==
    IF segment.type = "thinking"
    THEN StreamSegment(w, "thinking", segment.text)
    ELSE StreamSegment(CommitAndClear(w, "thinking"), "assistant", segment.text)

(* parser.flush(): the held tail, in the mode the parser is in.            *)
FlushHeldText(w) ==
    IF w.stream.held = <<>> THEN w
    ELSE LET v == TextSegment(w, [type |-> IF w.stream.insideThinking THEN "thinking" ELSE "text",
                                  text |-> w.stream.held])
         IN  Write(v, v.entries, [v.stream EXCEPT !.held = <<>>])

(* closeCutOff                                                             *)
CloseCutOff(w, role) ==
    LET i == w.stream.index[role]
        marked == Write(w, [w.entries EXCEPT ![i].truncated = TRUE], w.stream)
    IN  IF i = 0 THEN w
        ELSE CommitAndClear(IF w.stream.suppressOutput THEN marked
                            ELSE Send(marked, Upsert(w.view, i, marked.entries[i])), role)

-----------------------------------------------------------------------------
(* A user message starts a turn: a user entry, and a fresh StreamState.    *)
StartTurn ==
    /\ run.at = "idle" /\ stream.open
    /\ turns < MaxTurns /\ Len(entries) < MaxEntries
    /\ turns' = turns + 1
    /\ run' = [Idle EXCEPT !.at = "round"]
    /\ LET user == [Opened("user") EXCEPT !.text = <<MaxChunks + 1>>]
           i == Len(entries) + 1
       IN  Becomes(Send([entries |-> AppendEntry(entries, user), view |-> view, stream |-> NewStream],
                        Upsert(view, i, user)))
    /\ UNCHANGED <<policy, saved, said>>

(* parser.push(): a chunk is cut at `tags` tags into tags + 1 spans in      *)
(* alternating modes, of which `full` are not empty, and its tail may be   *)
(* held back.  A tail held before is the start of the first span when that *)
(* span is not empty, is still held when nothing came out, or else was a   *)
(* tag.                                                                    *)
Span(k, n) ==
    [type |-> IF (k % 2 = 1) # stream.insideThinking THEN "thinking" ELSE "text",
     text |-> IF k = 0 THEN Append(stream.held, n) ELSE <<n>>]

HeldBack(tags, full, holds, n) ==
    IF ~holds THEN <<>> ELSE IF tags = 0 /\ full = {} THEN Append(stream.held, n) ELSE <<n>>

(* handleTextSegment, of a span that is not empty.                         *)
Spoken(w, full, k, n) == IF k \in full THEN TextSegment(w, Span(k, n)) ELSE w

(* A text chunk: the parser's segments one after the other.  A provider    *)
(* may send text after its stop chunk too, which nothing then commits      *)
(* before the tools of the round have run.  The loop breaks before a chunk *)
(* that arrives after the socket closed.                                   *)
TextChunk(tags, full, holds) ==
    LET n == said + 1
        parsed == Write(World, entries, [stream EXCEPT !.held = HeldBack(tags, full, holds, n),
                                                       !.insideThinking = (tags % 2 = 1) # @])
    IN  /\ run.at \in {"round", "stopped"} /\ stream.open
        /\ said < MaxChunks
        /\ Len(entries) + Cardinality(full) + 1 <= MaxEntries
        /\ stream.held # <<>> /\ tags = 0 => full # {} \/ holds
        /\ said' = n
        /\ Becomes(Spoken(Spoken(Spoken(parsed, full, 0, n), full, 1, n), full, 2, n))
        /\ UNCHANGED <<policy, run, saved, turns>>

(* A tool_use chunk: the tool entry, sent as it was stored.                *)
ToolUseChunk ==
    LET i == Len(entries) + 1
        written == AppendEntry(entries, [Opened("tool") EXCEPT !.text = <<MaxChunks + 1>>])
    IN  /\ run.at = "round" /\ stream.open /\ ~run.pending
        /\ run.rounds < MaxRounds
        /\ i < MaxEntries
        /\ run' = [run EXCEPT !.pending = TRUE]
        /\ Becomes(Send(Write(World, written, stream), Upsert(view, i, written[i])))
        /\ UNCHANGED <<policy, saved, said, turns>>

(* A stop chunk ends the round: what is held is flushed, what is open is   *)
(* committed.                                                              *)
StopChunk ==
    /\ run.at = "round" /\ stream.open
    /\ run' = [run EXCEPT !.at = "stopped"]
    /\ Becomes(CommitOpenEntries(FlushHeldText(World)))
    /\ UNCHANGED <<policy, saved, said, turns>>

(* processSuppressChunk: everything the model was shown saying in this     *)
(* turn is sent again blank, and marked.                                   *)
Blanked(w) ==
    LET its == w.stream.blankable
        blank(i) == [CopyOf([w.entries[i] EXCEPT !.text = <<>>]) EXCEPT !.confused = w.view[i].confused]
        retracted == [i \in DOMAIN w.entries |-> IF i \in its THEN Marked(w.entries[i]) ELSE w.entries[i]]
    IN  Send(Write(w, retracted, [w.stream EXCEPT !.blankable = {}, !.suppressOutput = TRUE]),
             [i \in Indices |-> IF i \in its THEN blank(i) ELSE w.view[i]])

(* Slip: what is open is not committed first, so it is not retracted.      *)
SuppressAsIs(w) == Blanked(w)

Suppress(w) == Blanked(CommitOpenEntries(w))

(* The round's tools ran: an entry one of them returned is stored and sent *)
(* as stored, then the output is suppressed if one of them asked for it.   *)
(* A further provider round follows; the closing words of a turn whose     *)
(* tool budget is spent reach this module as such a round.                 *)
ToolsRan(returns, suppresses) ==
    LET i == Len(entries) + 1
        written == AppendEntry(entries, [Opened("tool") EXCEPT !.text = <<MaxChunks + 1>>])
        shown == IF ~returns THEN World
                 ELSE Send(Write(World, written, stream), Upsert(view, i, written[i]))
    IN  /\ run.at = "stopped" /\ run.pending /\ stream.open
        /\ returns => i < MaxEntries
        /\ run' = [at |-> "round", rounds |-> run.rounds + 1, pending |-> FALSE]
        /\ Becomes(IF suppresses THEN Suppress(shown) ELSE shown)
        /\ UNCHANGED <<policy, saved, said, turns>>

(* The run is over, because it ended, threw, had no stop chunk, or saw its *)
(* signal aborted: the orchestrator's finally block closes the turn and    *)
(* saves the session, before the handler learns of it.                     *)
EndRun ==
    /\ run.at \in {"round", "stopped"}
    /\ run' = [run EXCEPT !.at = "over"]
    /\ entries' = CloseTurn(entries)
    /\ saved' = entries'
    /\ UNCHANGED <<policy, view, stream, said, turns>>

(* Slip: what was open is closed before what was held back is flushed.     *)
EndTurnFlushLast ==
    /\ run.at = "over"
    /\ run' = Idle
    /\ Becomes(FlushHeldText(CloseCutOff(CloseCutOff(World, "thinking"), "assistant")))
    /\ UNCHANGED <<policy, saved, said, turns>>

(* The handler's finally block: what was cut short is flushed and closed.  *)
EndTurn ==
    /\ run.at = "over"
    /\ run' = Idle
    /\ Becomes(CloseCutOff(CloseCutOff(FlushHeldText(World), "thinking"), "assistant"))
    /\ UNCHANGED <<policy, saved, said, turns>>

SocketCloses ==
    /\ stream.open
    /\ stream' = [stream EXCEPT !.open = FALSE]
    /\ UNCHANGED <<policy, entries, view, run, saved, said, turns>>

StreamNext ==
    \/ StartTurn \/ ToolUseChunk \/ StopChunk \/ EndRun \/ EndTurn \/ SocketCloses
    \/ \E tags \in 0..2 : \E full \in SUBSET (0..tags), holds \in BOOLEAN : TextChunk(tags, full, holds)
    \/ \E returns, suppresses \in BOOLEAN : ToolsRan(returns, suppresses)

StreamSpec == StreamInit /\ [][StreamNext]_streamVars

-----------------------------------------------------------------------------
AtRest == run.at = "idle"

(* What a client has on its screen of a copy, and what a resume's replay   *)
(* would put there: a suppressed or a cleared entry is replayed as a skip. *)
Shown(copy) == IF copy.state = "skipped" THEN <<>> ELSE copy.text

Replayed(e) == IF e.suppressed \/ e.cleared THEN <<>> ELSE e.text

(* Between turns the client that watched them live and one that resumes    *)
(* the session are shown the same conversation, and nothing is still open  *)
(* (specs/hal-engine-session-resume/spec.md:29,32,33).  Where a bound or a *)
(* redactor is configured the live client has seen more, by design.        *)
LiveIsReplay ==
    (AtRest /\ stream.open /\ policy.maxContent = 0 /\ policy.redaction # "refusing") =>
        \A i \in Indices :
            IF i <= Len(entries)
            THEN Shown(view[i]) = Replayed(entries[i]) /\ view[i].state \in {"committed", "skipped"}
            ELSE view[i] = Unknown

(* Every frame makes sense to the client when it arrives: an entry is      *)
(* announced once, grows only while open, and is committed before it is    *)
(* let go (specs/hal-engine-websocket-protocol/spec.md:590).               *)
ClientNeverConfused == \A i \in Indices : ~view[i].confused

(* The entry is of the turn that began last.                               *)
OfLastTurn(i) == \A j \in i..Len(entries) : entries[j].role # "user"

(* Once a tool suppressed the turn's output, nothing the model said in     *)
(* this turn is on the client's screen or would be replayed, what was      *)
(* open at that moment and what was still to come included.                *)
SuppressionHides ==
    stream.suppressOutput =>
        \A i \in DOMAIN entries :
            entries[i].role \in Model /\ OfLastTurn(i) =>
                /\ stream.open => Shown(view[i]) = <<>>
                /\ Replayed(entries[i]) = <<>>

(* No text a redactor has not seen is stored in an entry that is closed,   *)
(* whichever of commit, the end of the turn and held-back text came last   *)
(* (specs/hal-engine-history-controls/spec.md:34).                         *)
ClosedIsRedacted ==
    policy.redaction # "off" =>
        \A i \in DOMAIN entries :
            entries[i].role # "user" /\ ~entries[i].isStreaming => entries[i].redacted

(* What is saved has no entry open, and the bound was applied to it: the   *)
(* content beyond it is gone before the store sees the session             *)
(* (chatOrchestrator.ts:184).                                              *)
SavedIsClosed ==
    \A i \in DOMAIN saved :
        /\ ~saved[i].isStreaming
        /\ policy.maxContent # 0 /\ i + policy.maxContent <= Len(saved) => saved[i].cleared

(* The stream's open entries are entries of its session and of their role, *)
(* and what the bound or a refusing redactor gave up stays given up: no    *)
(* text that arrives later refills it (entryMutations.ts:30).              *)
EntriesWellFormed ==
    /\ StreamTypeOK
    /\ \A role \in Model :
           stream.index[role] # 0 => /\ stream.index[role] <= Len(entries)
                                     /\ entries[stream.index[role]].role = role
    /\ \A i \in DOMAIN entries : entries[i].cleared => entries[i].text = <<>>

(* A policy on what is stored holds to the end of every turn: the three    *)
(* above, whoever closes, flushes, clears or saves last.                   *)
PolicyHolds == EntriesWellFormed /\ ClosedIsRedacted /\ SavedIsClosed

=============================================================================
