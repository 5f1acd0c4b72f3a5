----------------------------- MODULE ToolRounds -----------------------------
(***************************************************************************)
(* One turn of the orchestrator, processMessageStream                      *)
(* (src/orchestration/chatOrchestrator.ts): its hooks, its provider calls, *)
(* the tool rounds between them, and its catch and finally blocks.         *)
(*                                                                         *)
(* Each tool call of a round runs in a race of its own, against its        *)
(* deadline and against the run's signal.  The race ends the wait, not the *)
(* call: a policy or an executor that lost it goes on, through the rounds  *)
(* that follow and past the end of the turn.                               *)
(*                                                                         *)
(* A timer, a close event and the settling of a user promise are tasks of  *)
(* their own, so what each sets off runs before the next: one step.        *)
(* The run of a caller that passes no signal is one nobody aborts.         *)
(***************************************************************************)
EXTENDS Naturals, Sequences, FiniteSets, SequencesExt

CONSTANTS
    MaxToolRounds,  \* the budget, normalised
    MaxCalls        \* bound: per round, the tool calls the model asks for

ASSUME SizesAssumption == MaxToolRounds \in Nat /\ MaxCalls \in [1..MaxToolRounds -> Nat]

VARIABLES
    options,    \* set once: toolTimeoutMs is not 0; a beforeToolCall hook is installed
    at,         \* where the generator stands
    rounds,     \* tool rounds begun
    aborted,    \* the run's signal
    failing,    \* the generator will throw when it is through
    call,       \* per tool call: its work, what that came to, and its race
    malformed,  \* the tool calls whose input is not an object
    told,       \* per tool call, what its tool_result tells the model
    log         \* what the run called, in order (history)

vars == <<options, at, rounds, aborted, failing, call, malformed, told, log>>

(* <<round, number>>                                                       *)
Slots == UNION {{r} \X (1..MaxCalls[r]) : r \in 1..MaxToolRounds}

Places == {"hooks", "provider", "tools", "budget", "afterModel", "onError",
           "afterSession", "save", "done"}
Calls == {"provider", "tools", "afterModel", "onError", "closeTurn", "afterSession", "save"}
FromExecutor == {"ok", "failed"}
Answers == {"none", "error", "declined", "skipped", "rejected"} \union FromExecutor

NoCall == [work |-> "none", answer |-> "none", race |-> "none"]

Asked(c) == call[c].work # "none"
Started(cl) == cl.work = "executing" \/ cl.answer \in FromExecutor

TypeOK ==
    /\ options \in [deadline : BOOLEAN, policy : BOOLEAN]
    /\ at \in Places
    /\ rounds \in 0..MaxToolRounds
    /\ aborted \in BOOLEAN /\ failing \in BOOLEAN
    /\ call \in [Slots -> [work : {"none", "consulting", "executing", "over"}, answer : Answers,
                           race : {"none", "open", "answered", "timedOut", "abandoned"}]]
    /\ malformed \subseteq Slots
    /\ told \in [Slots -> Answers \union {"timedOut"}]
    /\ log \in Seq(Calls)
    /\ \A c \in Slots : /\ Asked(c) => c[1] <= rounds
                        /\ call[c].answer # "none" <=> call[c].work = "over"
                        /\ call[c].race = "answered" => call[c].work = "over"

Init ==
    /\ options \in [deadline : BOOLEAN, policy : BOOLEAN]
    /\ at = "hooks"
    /\ rounds = 0
    /\ aborted = FALSE /\ failing = FALSE
    /\ call = [c \in Slots |-> NoCall]
    /\ malformed = {}
    /\ told = [c \in Slots |-> "none"]
    /\ log = <<>>

-----------------------------------------------------------------------------
(* Leaving the try block.  A return goes straight to the finally block,    *)
(* which closes the turn's entries first; a throw goes by way of the catch *)
(* block, which has nothing to say once the run was abandoned.             *)
Finally == at' = "afterSession" /\ log' = Append(log, "closeTurn")

Return == Finally /\ UNCHANGED failing

(* Slip: an abandoned run's error is reported like any other.              *)
CatchAlways ==
    /\ failing' = TRUE /\ at' = "onError"
    /\ log' = Append(log, "onError")

Catch ==
    IF aborted THEN Finally /\ UNCHANGED failing
    ELSE /\ failing' = TRUE /\ at' = "onError"
         /\ log' = Append(log, "onError")

AskProvider == at' = "provider" /\ log' = Append(log, "provider") /\ UNCHANGED failing

ToolsUnchanged == UNCHANGED <<options, rounds, call, malformed, told>>

-----------------------------------------------------------------------------
(* beforeSession .. beforeModelResponse, the turn's tools and its prompt:  *)
(* any of them may throw.                                                  *)
Prepare(throws) ==
    /\ at = "hooks"
    /\ IF throws THEN Catch ELSE AskProvider
    /\ UNCHANGED aborted /\ ToolsUnchanged

(* The provider's stream throws, or the consumer leaves the loop at a      *)
(* chunk that came after the abort, which returns the generator.           *)
ProviderThrows ==
    /\ at = "provider"
    /\ Catch
    /\ UNCHANGED aborted /\ ToolsUnchanged

ConsumerLeaves ==
    /\ at \in {"provider", "budget"}
    /\ aborted
    /\ Return
    /\ UNCHANGED aborted /\ ToolsUnchanged

(* The stream ends, and no tool round follows it.                          *)
Answered ==
    /\ at = "provider"
    /\ IF aborted THEN Return
       ELSE at' = "afterModel" /\ log' = Append(log, "afterModel") /\ UNCHANGED failing
    /\ UNCHANGED aborted /\ ToolsUnchanged

BudgetSpent == rounds >= MaxToolRounds

(* The model asks for tools the budget refuses: onToolBudgetExhausted is   *)
(* asked for a closing sentence, and may throw; the turn then has its      *)
(* answer.                                                                 *)
RefuseTools ==
    /\ at = "provider"
    /\ ~aborted /\ BudgetSpent
    /\ at' = "budget"
    /\ UNCHANGED <<aborted, failing, log>> /\ ToolsUnchanged

CloseExhausted(throws) ==
    /\ at = "budget"
    /\ IF throws THEN Catch
       ELSE /\ ~aborted
            /\ at' = "afterModel" /\ log' = Append(log, "afterModel") /\ UNCHANGED failing
    /\ UNCHANGED aborted /\ ToolsUnchanged

-----------------------------------------------------------------------------
(* A call's promise moves on; its race is answered if it still waits.      *)
Moved(cl, step) ==
    [work |-> step.work, answer |-> step.answer,
     race |-> IF step.work = "over" /\ cl.race = "open" THEN "answered" ELSE cl.race]

Over(answer) == [work |-> "over", answer |-> answer]
Working(work) == [work |-> work, answer |-> "none"]

(* registry.execute: an input that is no object rejects, a name or an      *)
(* input the model got wrong is answered, and so is a call whose executor  *)
(* runs; a dynamic definition whose schema does not compile throws.        *)
Execute(odd) ==
    IF odd THEN {Over("rejected")}
    ELSE {Over("error"), Over("rejected"), Working("executing")}

(* The runner's synchronous part: a known call goes to the policy first,   *)
(* a name the model invented straight to the registry.                     *)
Begin(odd) == IF options.policy THEN {Working("consulting"), IF odd THEN Over("rejected") ELSE Over("error")}
              ELSE Execute(odd)

(* executeToolCalls up to its await: every call of the round is begun.     *)
ExecuteTools(n, odd, first) ==
    /\ at = "provider"
    /\ ~aborted /\ ~BudgetSpent
    /\ at' = "tools"
    /\ rounds' = rounds + 1
    /\ malformed' = malformed \union {<<rounds + 1, i>> : i \in odd}
    /\ \A i \in 1..n : first[i] \in Begin(i \in odd)
    /\ call' = [c \in Slots |-> IF c[1] = rounds + 1 /\ c[2] \in 1..n
                                THEN Moved([NoCall EXCEPT !.race = "open"], first[c[2]])
                                ELSE call[c]]
    /\ log' = Append(log, "tools")
    /\ UNCHANGED <<options, aborted, failing, told>>

(* Slip: a policy's late answer starts the executor all the same.          *)
AllowedAnyway(c) == Execute(c \in malformed)

(* What follows a policy that lets its call pass: nothing once the call's  *)
(* own signal is aborted, by its deadline or with the run.                 *)
Allowed(c) == IF call[c].race = "timedOut" \/ aborted THEN {Over("skipped")}
              ELSE Execute(c \in malformed)

(* The policy answers; one that throws declines.                           *)
PolicyAnswers(c) ==
    /\ call[c].work = "consulting"
    /\ \E step \in {Over("declined")} \union Allowed(c) : call' = [call EXCEPT ![c] = Moved(@, step)]
    /\ UNCHANGED <<options, at, rounds, aborted, failing, malformed, told, log>>

(* The executor returns or throws.                                         *)
ExecutorSettles(c, answer) ==
    /\ call[c].work = "executing"
    /\ call' = [call EXCEPT ![c] = Moved(@, Over(answer))]
    /\ UNCHANGED <<options, at, rounds, aborted, failing, malformed, told, log>>

(* Slip: the deadline covers the executor, not the policy before it.       *)
DeadlineOfExecutor(c) ==
    /\ options.deadline
    /\ call[c].race = "open" /\ call[c].work = "executing"
    /\ call' = [call EXCEPT ![c].race = "timedOut"]
    /\ UNCHANGED <<options, at, rounds, aborted, failing, malformed, told, log>>

(* The deadline: the call's own signal is aborted with it.                 *)
Deadline(c) ==
    /\ options.deadline
    /\ call[c].race = "open"
    /\ call' = [call EXCEPT ![c].race = "timedOut"]
    /\ UNCHANGED <<options, at, rounds, aborted, failing, malformed, told, log>>

(* The caller aborts: every race that still waits is over.                 *)
Abort ==
    /\ ~aborted
    /\ aborted' = TRUE
    /\ call' = [c \in Slots |-> IF call[c].race = "open"
                                THEN [call[c] EXCEPT !.race = "abandoned"] ELSE call[c]]
    /\ UNCHANGED <<options, at, rounds, failing, malformed, told, log>>

ThisRound == {c \in Slots : c[1] = rounds /\ Asked(c)}

Rejected(c) == call[c].race = "answered" /\ call[c].answer = "rejected"

(* Slip: the round is over with the first race that is.                   *)
RoundOverAtFirst == \E c \in ThisRound : call[c].race # "open"

RoundOver == \A c \in ThisRound : call[c].race # "open"

(* Promise.all: every race is over.  What an abandoned round produced goes *)
(* unread and unrecorded; otherwise every call is answered, its entries    *)
(* are stored and sent, and the provider is asked again.                   *)
RoundSettles ==
    /\ at = "tools"
    /\ RoundOver
    /\ \A c \in ThisRound : ~Rejected(c)
    /\ IF aborted THEN Return /\ UNCHANGED told
       ELSE /\ told' = [c \in Slots |->
                           IF c \notin ThisRound THEN told[c]
                           ELSE IF call[c].race = "timedOut" THEN "timedOut" ELSE call[c].answer]
            /\ AskProvider
    /\ UNCHANGED <<options, rounds, aborted, call, malformed>>

(* Promise.all rejects with the first call that does, and leaves the rest  *)
(* of the round running.                                                   *)
RoundRejects ==
    /\ at = "tools"
    /\ \E c \in ThisRound : Rejected(c)
    /\ Catch
    /\ UNCHANGED aborted /\ ToolsUnchanged

-----------------------------------------------------------------------------
(* afterModelResponse returns or throws; onError does, and either way the  *)
(* generator throws; afterSession does, and the session is saved anyway.   *)
AfterModel(throws) ==
    /\ at = "afterModel"
    /\ IF throws THEN Catch ELSE Return
    /\ UNCHANGED aborted /\ ToolsUnchanged

OnError ==
    /\ at = "onError"
    /\ Return
    /\ UNCHANGED aborted /\ ToolsUnchanged

(* Slip: the save is not in a finally block of its own.                    *)
AfterSessionThenSave(throws) ==
    /\ at = "afterSession"
    /\ at' = IF throws THEN "done" ELSE "save"
    /\ failing' = (failing \/ throws)
    /\ log' = Append(log, "afterSession")
    /\ UNCHANGED aborted /\ ToolsUnchanged

AfterSession(throws) ==
    /\ at = "afterSession"
    /\ at' = "save"
    /\ failing' = (failing \/ throws)
    /\ log' = Append(log, "afterSession")
    /\ UNCHANGED aborted /\ ToolsUnchanged

(* saveSession swallows what the store throws.                             *)
Save ==
    /\ at = "save"
    /\ at' = "done"
    /\ log' = Append(log, "save")
    /\ UNCHANGED <<aborted, failing>> /\ ToolsUnchanged

(* How many tool calls the model asks for next.                            *)
AskedFor == IF rounds < MaxToolRounds THEN 1..MaxCalls[rounds + 1] ELSE {}

ProviderEnds == ProviderThrows \/ ConsumerLeaves \/ Answered \/ RefuseTools
                \/ \E n \in AskedFor : \E odd \in SUBSET (1..n) :
                       \E first \in [1..n -> Begin(TRUE) \union Begin(FALSE)] : ExecuteTools(n, odd, first)

HookSettles == \/ OnError
               \/ \E throws \in BOOLEAN : Prepare(throws) \/ CloseExhausted(throws)
                                          \/ AfterModel(throws) \/ AfterSession(throws)

Next ==
    \/ ProviderEnds \/ HookSettles \/ Abort \/ RoundSettles \/ RoundRejects \/ Save
    \/ \E c \in Slots : \/ PolicyAnswers(c) \/ Deadline(c)
                        \/ \E answer \in FromExecutor : ExecutorSettles(c, answer)

SafeSpec == Init /\ [][Next]_vars

(* The event loop fires timers and runs what is due.  A provider's stream  *)
(* ends (withRetry bounds it) and hooks and the store answer: without that *)
(* no turn can end.  Nothing is assumed of a policy or an executor.        *)
Spec == SafeSpec /\ WF_vars(ProviderEnds) /\ WF_vars(HookSettles)
                 /\ WF_vars(RoundSettles) /\ WF_vars(RoundRejects) /\ WF_vars(Save)
                 /\ \A c \in Slots : WF_vars(Deadline(c))

-----------------------------------------------------------------------------
Times(event) == Cardinality({i \in DOMAIN log : log[i] = event})

(* Whenever the provider is asked, every call of the rounds before has its *)
(* one tool_result, and it says what became of the call: no late answer    *)
(* changes it (specs/hal-engine-tool-budget/spec.md, "A deadline per       *)
(* call"; both provider mappers refuse an unanswered tool_use).            *)
EveryCallAnswered ==
    at = "provider" =>
        \A c \in Slots : Asked(c) =>
            /\ told[c] \in {"ok", "failed", "error", "declined", "timedOut"}
            /\ told[c] # "timedOut" => told[c] = call[c].answer
            /\ told[c] = "timedOut" => call[c].race = "timedOut"

(* An executor is started only while its call's race is open: never after  *)
(* the model was told the call returned nothing, and never for a run that  *)
(* was abandoned (specs/hal-engine-tool-budget/spec.md:60).                *)
NeverStartedBehindTheModel ==
    [][\A c \in Slots : ~Started(call[c]) /\ Started(call'[c]) =>
           call'[c].race = "open" /\ ~aborted]_vars

(* Once abandoned a run calls no tool, tells and records nothing, fires    *)
(* neither onError nor afterModelResponse, and asks no provider again      *)
(* (specs/hal-engine-abandon-on-close/spec.md, "The run").                 *)
AbandonedQuietly ==
    [][aborted => /\ told' = told /\ rounds' = rounds
                  /\ log' # log => Last(log') \in {"closeTurn", "afterSession", "save"}
                                   \/ (Last(log') = "provider" /\ Times("provider") = 0)]_vars

(* However a turn ends, its entries are closed, afterSession is called and *)
(* the session saved, in that order, once and last.  By then onError was   *)
(* called, once, exactly if the run was failing, and a run that is neither *)
(* failing nor abandoned had its afterModelResponse; what afterSession     *)
(* throws comes too late for onError (chatOrchestrator.ts:171-194).        *)
TeardownInOrder ==
    /\ at = "done" =>
          /\ Len(log) >= 3
          /\ SubSeq(log, Len(log) - 2, Len(log)) = <<"closeTurn", "afterSession", "save">>
          /\ Times("closeTurn") = 1 /\ Times("afterSession") = 1 /\ Times("save") = 1
          /\ Times("onError") <= 1
    /\ at = "afterSession" =>
          /\ Times("onError") = IF failing THEN 1 ELSE 0
          /\ ~failing /\ ~aborted => Times("afterModel") = 1

(* A turn with a deadline, and any turn that is abandoned, ends, whatever  *)
(* its policies and executors do.                                          *)
RunEnds == (options.deadline \/ aborted) ~> at = "done"
=============================================================================
