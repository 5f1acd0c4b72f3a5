------------------------------ MODULE TurnProofs ------------------------------
(***************************************************************************)
(* Proofs about one turn: its tool rounds, for any budget and any number   *)
(* of calls side by side, and what it writes and sends, for every policy   *)
(* and any number of turns, chunks, rounds and entries.                    *)
(*                                                                         *)
(* That the model was told the truth is not inductive: a call that lost    *)
(* its race goes on afterwards.  Races says what a call's race knows of    *)
(* its work and of the run's signal, so that a race that is over stays as  *)
(* it is; Settled, that every call of an earlier round was told as it is.  *)
(* How a run is torn down rests on its log alone: Teardown says what the   *)
(* log ends with at every place the run may be.                            *)
(*                                                                         *)
(* What the client sees at rest says nothing of a turn under way.  Good    *)
(* does, of each entry apart: what the client has of it, open or closed,   *)
(* whether the stream still refers to it, and whether what the model said  *)
(* in it can still be retracted.  Nearly every function of the handler     *)
(* writes one entry and sends one frame about it, so a step is one entry's *)
(* matter; only a retraction and the end of the run write several.         *)
(***************************************************************************)
EXTENDS ToolRounds, EntryStream, FiniteSetTheorems, SequenceTheorems, TLAPS

Race(c) ==
    /\ call[c].work = "none" <=> call[c].race = "none"
    /\ call[c].race = "open" => ~aborted
    /\ call[c].race = "abandoned" => aborted
    /\ call[c].answer = "skipped" => call[c].race # "answered"

Races == \A c \in Slots : Race(c)

Settled(c) ==
    \/ call[c].race = "timedOut" /\ told[c] = "timedOut"
    \/ /\ call[c].race = "answered" /\ told[c] = call[c].answer
       /\ told[c] \in {"ok", "failed", "error", "declined"}

Earlier(c) == at = "provider" \/ (at = "tools" /\ c[1] < rounds)

ToldSoFar == \A c \in Slots : Asked(c) /\ Earlier(c) => Settled(c)

Fresh == at = "hooks" => rounds = 0

IInv == TypeOK /\ Races /\ ToldSoFar /\ Fresh

(* What a call's promise may come to next.                                 *)
Steps == {step \in [work : {"consulting", "executing", "over"}, answer : Answers] :
             step.answer # "none" <=> step.work = "over"}

Records == [work : {"none", "consulting", "executing", "over"}, answer : Answers,
            race : {"none", "open", "answered", "timedOut", "abandoned"}]

Consistent(cl) == /\ cl.answer # "none" <=> cl.work = "over"
                  /\ cl.race = "answered" => cl.work = "over"

-----------------------------------------------------------------------------
LEMMA SlotIsNumbered == \A c \in Slots : c[1] \in 1..MaxToolRounds
  BY DEF Slots

LEMMA AppendIsLog ==
  ASSUME NEW s \in Seq(Calls), NEW e \in Calls
  PROVE  Append(s, e) \in Seq(Calls)
  OBVIOUS

LEMMA ExecuteSteps == \A odd \in BOOLEAN : \A step \in Execute(odd) :
                         step \in Steps /\ step.answer \in {"none", "error", "rejected"}
  BY DEF Execute, Over, Working, Steps, Answers, FromExecutor

LEMMA BeginSteps == \A odd \in BOOLEAN : \A step \in Begin(odd) :
                       step \in Steps /\ step.answer \in {"none", "error", "rejected"}
<1> SUFFICES ASSUME NEW odd \in BOOLEAN, NEW step \in Begin(odd)
             PROVE  step \in Steps /\ step.answer \in {"none", "error", "rejected"}
  OBVIOUS
<1>1. CASE options.policy
  BY <1>1 DEF Begin, Over, Working, Steps, Answers, FromExecutor
<1>2. CASE ~options.policy
  BY <1>2, ExecuteSteps DEF Begin
<1>3. QED
  BY <1>1, <1>2

LEMMA AllowedSteps == \A c \in Slots : \A step \in Allowed(c) :
                         /\ step \in Steps
                         /\ step.work = "executing" => call[c].race # "timedOut" /\ ~aborted
                         /\ step.answer = "skipped" => call[c].race = "timedOut" \/ aborted
                         /\ step.answer \notin FromExecutor
<1> SUFFICES ASSUME NEW c \in Slots, NEW step \in Allowed(c)
             PROVE  /\ step \in Steps
                    /\ step.work = "executing" => call[c].race # "timedOut" /\ ~aborted
                    /\ step.answer = "skipped" => call[c].race = "timedOut" \/ aborted
                    /\ step.answer \notin FromExecutor
  OBVIOUS
<1>1. CASE call[c].race = "timedOut" \/ aborted
  <2>1. step = Over("skipped")
    BY <1>1 DEF Allowed
  <2>2. QED
    BY <1>1, <2>1 DEF Over, Steps, Answers, FromExecutor
<1>2. CASE ~(call[c].race = "timedOut" \/ aborted)
  <2>1. step \in Execute(c \in malformed)
    BY <1>2 DEF Allowed
  <2>2. step \in Steps /\ step.answer \in {"none", "error", "rejected"}
    BY <2>1 DEF Execute, Over, Working, Steps, Answers, FromExecutor
  <2>3. QED
    BY <1>2, <2>2 DEF FromExecutor
<1>3. QED
  BY <1>1, <1>2

(* Moving a call on keeps its record sound, and a race that is over as it  *)
(* is.                                                                     *)
LEMMA MovedRecord ==
  ASSUME NEW cl \in Records, NEW step \in Steps
  PROVE  /\ Moved(cl, step) \in Records
         /\ Moved(cl, step).work = step.work /\ Moved(cl, step).answer = step.answer
         /\ Moved(cl, step).race = IF step.work = "over" /\ cl.race = "open"
                                   THEN "answered" ELSE cl.race
  BY DEF Moved, Records, Steps

-----------------------------------------------------------------------------
(* Where the turn goes on once its calls are as they were.                 *)
LEMMA PlaceChanges ==
  ASSUME IInv, at' \in Places, failing' \in BOOLEAN, log' \in Seq(Calls),
         UNCHANGED <<options, rounds, aborted, call, malformed, told>>,
         at' = "provider" => at = "hooks", at' \notin {"tools", "hooks"}
  PROVE  IInv'
<1>1. TypeOK'
  BY DEF IInv, TypeOK, Asked
<1>2. Races'
  BY DEF IInv, Races, Race
<1>3. ToldSoFar'
  <2>1. CASE at' = "provider"
    <3>1. rounds = 0 /\ \A c \in Slots : ~Asked(c)
      BY <2>1, SlotIsNumbered, SizesAssumption DEF IInv, Fresh, TypeOK
    <3>2. QED
      BY <3>1 DEF ToldSoFar, Asked
  <2>2. CASE at' # "provider"
    BY <2>2 DEF ToldSoFar, Earlier
  <2>3. QED
    BY <2>1, <2>2
<1>4. QED
  BY <1>1, <1>2, <1>3 DEF IInv, Fresh

LEMMA LeavingKeeps ==
  ASSUME IInv, Return \/ Catch \/ (at = "hooks" /\ AskProvider)
               \/ (at' = "afterModel" /\ log' = Append(log, "afterModel") /\ UNCHANGED failing),
         UNCHANGED aborted, ToolsUnchanged
  PROVE  IInv'
<1>1. /\ at' \in Places /\ at' \notin {"tools", "hooks"} /\ (at' = "provider" => at = "hooks")
      /\ failing' \in BOOLEAN
  BY DEF Return, Finally, Catch, AskProvider, Places, IInv, TypeOK
<1>2. \E e \in Calls : log' = Append(log, e)
  BY DEF Return, Finally, Catch, AskProvider, Calls
<1>3. log' \in Seq(Calls)
  BY <1>2, AppendIsLog DEF IInv, TypeOK
<1>4. QED
  BY <1>1, <1>3, PlaceChanges DEF ToolsUnchanged

(* One call moves on by itself.                                            *)
LEMMA CallMoves ==
  ASSUME IInv, NEW c \in Slots, NEW step \in Steps,
         call[c].work \in {"consulting", "executing"},
         step.answer = "skipped" => call[c].race = "timedOut" \/ aborted,
         call' = [call EXCEPT ![c] = Moved(@, step)],
         UNCHANGED <<options, at, rounds, aborted, failing, malformed, told, log>>
  PROVE  IInv'
<1> USE DEF IInv
<1>1. call \in [Slots -> Records]
  BY DEF TypeOK, Records
<1>2. /\ call'[c] \in Records /\ call'[c].work = step.work /\ call'[c].answer = step.answer
      /\ call'[c].race = IF step.work = "over" /\ call[c].race = "open" THEN "answered" ELSE call[c].race
      /\ \A d \in Slots : d # c => call'[d] = call[d]
  BY <1>1, MovedRecord
<1>3. call' \in [Slots -> Records]
  BY <1>1, <1>2
<1>4. call[c].race # "answered" /\ call[c].race # "none"
  BY DEF TypeOK, Races, Race
<1>5. TypeOK'
  <2>1. call' \in [Slots -> [work : {"none", "consulting", "executing", "over"}, answer : Answers,
                             race : {"none", "open", "answered", "timedOut", "abandoned"}]]
    BY <1>3 DEF Records
  <2>2. \A d \in Slots : /\ Asked(d)' => d[1] <= rounds
                         /\ call'[d].answer # "none" <=> call'[d].work = "over"
                         /\ call'[d].race = "answered" => call'[d].work = "over"
    BY <1>2, <1>4 DEF TypeOK, Asked, Steps
  <2>3. QED
    BY <2>1, <2>2 DEF TypeOK
<1>6. Races'
  BY <1>2, <1>4 DEF Races, Race, Steps
<1>7. ToldSoFar'
  BY <1>2, <1>4 DEF ToldSoFar, Earlier, Settled, Asked
<1>8. QED
  BY <1>5, <1>6, <1>7 DEF Fresh

LEMMA ExecuteToolsKeeps ==
  ASSUME IInv, NEW n \in AskedFor, NEW odd \in SUBSET (1..n),
         NEW first \in [1..n -> Begin(TRUE) \union Begin(FALSE)], ExecuteTools(n, odd, first)
  PROVE  IInv'
<1> USE SizesAssumption DEF IInv
<1>1. rounds + 1 \in 1..MaxToolRounds /\ n \in 1..MaxCalls[rounds + 1]
  BY DEF AskedFor, TypeOK, ExecuteTools, BudgetSpent
<1>2. n \in Nat
  BY <1>1
<1>3. ASSUME NEW i \in 1..n PROVE <<rounds + 1, i>> \in Slots
  <2> DEFINE r == rounds + 1
  <2>1. r \in 1..MaxToolRounds /\ i \in 1..MaxCalls[r]
    <3>1. MaxCalls[r] \in Nat
      BY <1>1
    <3>2. QED
      BY <1>1, <3>1
  <2> HIDE DEF r
  <2>2. <<r, i>> \in {r} \X (1..MaxCalls[r])
    BY <2>1
  <2>3. <<r, i>> \in Slots
    BY <2>1, <2>2 DEF Slots
  <2>4. QED
    BY <2>3 DEF r
<1>4. malformed' \subseteq Slots
  BY <1>3 DEF ExecuteTools, TypeOK
<1> DEFINE new(c) == c[1] = rounds + 1 /\ c[2] \in 1..n
           begun == [NoCall EXCEPT !.race = "open"]
<1>5. begun \in Records /\ begun.race = "open"
  BY DEF NoCall, Records, Answers
<1>6. ASSUME NEW c \in Slots, new(c)
      PROVE  /\ call'[c] \in Records /\ Consistent(call'[c]) /\ call'[c].work # "none"
             /\ call'[c].race \in {"open", "answered"} /\ call'[c].answer # "skipped"
  <2>1. first[c[2]] \in Steps /\ first[c[2]].answer \in {"none", "error", "rejected"}
    BY <1>6, BeginSteps
  <2>2. call'[c] = Moved(begun, first[c[2]])
    BY <1>6 DEF ExecuteTools
  <2> HIDE DEF begun
  <2>3. /\ call'[c] \in Records
        /\ call'[c].work = first[c[2]].work /\ call'[c].answer = first[c[2]].answer
        /\ call'[c].race = IF first[c[2]].work = "over" THEN "answered" ELSE "open"
    BY <1>5, <2>1, <2>2, MovedRecord
  <2>4. QED
    BY <2>1, <2>3 DEF Steps, Consistent
<1>7. \A c \in Slots : ~new(c) => call'[c] = call[c]
  BY DEF ExecuteTools
<1>8. call' \in [Slots -> Records]
  <2>1. DOMAIN call' = Slots /\ call' = [c \in Slots |-> call'[c]]
    BY DEF ExecuteTools
  <2>2. \A c \in Slots : call'[c] \in Records
    BY <1>6, <1>7 DEF TypeOK, Records
  <2>3. QED
    BY <2>1, <2>2
<1> HIDE DEF begun
<1>9. TypeOK'
  <2>1. call' \in [Slots -> [work : {"none", "consulting", "executing", "over"}, answer : Answers,
                             race : {"none", "open", "answered", "timedOut", "abandoned"}]]
    BY <1>8 DEF Records
  <2>2. \A c \in Slots : /\ Asked(c)' => c[1] <= rounds'
                         /\ call'[c].answer # "none" <=> call'[c].work = "over"
                         /\ call'[c].race = "answered" => call'[c].work = "over"
    <3> TAKE c \in Slots
    <3>1. rounds' = rounds + 1 /\ rounds \in Nat /\ c[1] \in Nat
      BY SlotIsNumbered DEF ExecuteTools, TypeOK
    <3>2. CASE new(c)
      <4>1. Consistent(call'[c])
        BY <1>6, <3>2
      <4>2. c[1] <= rounds'
        BY <3>1, <3>2
      <4>3. QED
        BY <4>1, <4>2 DEF Consistent
    <3>3. CASE ~new(c)
      <4>1. call'[c] = call[c]
        BY <1>7, <3>3
      <4>2. QED
        BY <3>1, <4>1 DEF TypeOK, Asked
    <3>4. QED
      BY <3>2, <3>3
  <2>3. log' \in Seq(Calls)
    BY AppendIsLog DEF ExecuteTools, TypeOK, Calls
  <2>4. /\ at' \in Places /\ rounds' \in 0..MaxToolRounds
        /\ UNCHANGED <<options, aborted, failing, told>>
    BY <1>1 DEF ExecuteTools, Places
  <2>5. QED
    BY <1>4, <2>1, <2>2, <2>3, <2>4 DEF TypeOK
<1>10. Races'
  BY <1>6, <1>7 DEF Races, Race, ExecuteTools
<1>11. ToldSoFar'
  BY <1>6, <1>7, SlotIsNumbered DEF ToldSoFar, Earlier, Settled, Asked, ExecuteTools, TypeOK
<1>12. QED
  BY <1>9, <1>10, <1>11 DEF Fresh, ExecuteTools

LEMMA DeadlineKeeps == ASSUME IInv, NEW c \in Slots, Deadline(c) PROVE IInv'
<1> USE DEF IInv
<1>1. /\ call'[c] = [call[c] EXCEPT !.race = "timedOut"]
      /\ \A d \in Slots : d # c => call'[d] = call[d]
  BY DEF Deadline, TypeOK
<1>2. TypeOK'
  BY <1>1 DEF Deadline, TypeOK, Asked
<1>3. Races'
  BY <1>1 DEF Deadline, Races, Race, TypeOK
<1>4. ToldSoFar'
  BY <1>1 DEF Deadline, ToldSoFar, Earlier, Settled, Asked, TypeOK
<1>5. QED
  BY <1>2, <1>3, <1>4 DEF Fresh, Deadline

LEMMA AbortKeeps == ASSUME IInv, Abort PROVE IInv'
<1> USE DEF IInv
<1>1. \A c \in Slots : call'[c] = IF call[c].race = "open"
                                  THEN [call[c] EXCEPT !.race = "abandoned"] ELSE call[c]
  BY DEF Abort
<1>2. TypeOK'
  BY <1>1 DEF Abort, TypeOK, Asked
<1>3. Races'
  BY <1>1 DEF Abort, Races, Race, TypeOK
<1>4. ToldSoFar'
  BY <1>1 DEF Abort, ToldSoFar, Earlier, Settled, Asked, TypeOK
<1>5. QED
  BY <1>2, <1>3, <1>4 DEF Fresh, Abort

LEMMA RoundSettlesKeeps == ASSUME IInv, RoundSettles PROVE IInv'
<1>1. CASE aborted
  <2>1. Return /\ UNCHANGED aborted /\ ToolsUnchanged
    BY <1>1 DEF RoundSettles, ToolsUnchanged
  <2>2. QED
    BY <2>1, LeavingKeeps
<1>2. CASE ~aborted
  <2> USE <1>2 DEF IInv
  <2>1. /\ AskProvider /\ UNCHANGED <<options, rounds, aborted, call, malformed>>
        /\ told' = [c \in Slots |->
                      IF c \notin ThisRound THEN told[c]
                      ELSE IF call[c].race = "timedOut" THEN "timedOut" ELSE call[c].answer]
    BY DEF RoundSettles
  <2>2. TypeOK'
    <3>1. told' \in [Slots -> Answers \union {"timedOut"}]
      BY <2>1 DEF TypeOK
    <3>2. log' \in Seq(Calls) /\ at' \in Places /\ failing' \in BOOLEAN
      BY <2>1, AppendIsLog DEF AskProvider, TypeOK, Calls, Places
    <3>3. QED
      BY <2>1, <3>1, <3>2 DEF TypeOK, Asked
  <2>3. Races'
    BY <2>1 DEF Races, Race
  <2>4. ASSUME NEW c \in Slots, Asked(c) PROVE Settled(c)'
    <3>1. CASE c \in ThisRound
      <4>1. call[c].race \in {"answered", "timedOut"} /\ ~Rejected(c)
        BY <2>4, <3>1 DEF RoundSettles, RoundOver, Races, Race, TypeOK, Asked
      <4>2. call[c].race = "answered" => call[c].answer \in {"ok", "failed", "error", "declined"}
        BY <4>1 DEF Rejected, TypeOK, Races, Race, Answers, FromExecutor
      <4>3. QED
        BY <2>1, <3>1, <4>1, <4>2 DEF Settled
    <3>2. CASE c \notin ThisRound
      <4>1. c[1] < rounds
        BY <2>4, <3>2, SlotIsNumbered, SizesAssumption DEF ThisRound, TypeOK
      <4>2. Settled(c)
        BY <2>4, <4>1 DEF ToldSoFar, Earlier, RoundSettles
      <4>3. QED
        BY <2>1, <3>2, <4>2 DEF Settled
    <3>3. QED
      BY <3>1, <3>2
  <2>5. ToldSoFar'
    BY <2>1, <2>4 DEF ToldSoFar, Asked
  <2>6. QED
    BY <2>1, <2>2, <2>3, <2>5 DEF Fresh, AskProvider
<1>3. QED
  BY <1>1, <1>2 DEF IInv, TypeOK

LEMMA InvariantKept == IInv /\ [Next]_vars => IInv'
<1> SUFFICES ASSUME IInv, [Next]_vars PROVE IInv'
  OBVIOUS
<1>1. ASSUME NEW throws \in BOOLEAN, Prepare(throws) \/ CloseExhausted(throws) \/ AfterModel(throws)
      PROVE  IInv'
  BY <1>1, LeavingKeeps DEF Prepare, CloseExhausted, AfterModel
<1>2. CASE ProviderThrows \/ ConsumerLeaves \/ Answered \/ OnError \/ RoundRejects
  BY <1>2, LeavingKeeps DEF ProviderThrows, ConsumerLeaves, Answered, OnError, RoundRejects
<1>3. CASE RefuseTools
  BY <1>3, PlaceChanges DEF RefuseTools, ToolsUnchanged, Places, IInv, TypeOK
<1>4. ASSUME NEW throws \in BOOLEAN, AfterSession(throws) PROVE IInv'
  <2>1. log' \in Seq(Calls)
    BY <1>4, AppendIsLog DEF AfterSession, IInv, TypeOK, Calls
  <2>2. QED
    BY <1>4, <2>1, PlaceChanges DEF AfterSession, ToolsUnchanged, Places, IInv, TypeOK
<1>5. CASE Save
  <2>1. log' \in Seq(Calls)
    BY <1>5, AppendIsLog DEF Save, IInv, TypeOK, Calls
  <2>2. QED
    BY <1>5, <2>1, PlaceChanges DEF Save, ToolsUnchanged, Places, IInv, TypeOK
<1>6. ASSUME NEW c \in Slots, PolicyAnswers(c) PROVE IInv'
  <2>1. PICK step \in {Over("declined")} \union Allowed(c) : call' = [call EXCEPT ![c] = Moved(@, step)]
    BY <1>6 DEF PolicyAnswers
  <2>2. step \in Steps /\ (step.answer = "skipped" => call[c].race = "timedOut" \/ aborted)
    BY <2>1, AllowedSteps DEF Over, Steps, Answers
  <2>3. QED
    BY <1>6, <2>1, <2>2, CallMoves DEF PolicyAnswers
<1>7. ASSUME NEW c \in Slots, NEW answer \in FromExecutor, ExecutorSettles(c, answer) PROVE IInv'
  <2>1. Over(answer) \in Steps /\ Over(answer).answer # "skipped"
    BY DEF Over, Steps, Answers, FromExecutor
  <2>2. QED
    BY <1>7, <2>1, CallMoves DEF ExecutorSettles
<1>8. CASE UNCHANGED vars
  BY <1>8 DEF vars, IInv, TypeOK, Asked, Races, Race, ToldSoFar, Earlier, Settled, Fresh
<1>9. QED
  BY <1>1, <1>2, <1>3, <1>4, <1>5, <1>6, <1>7, <1>8, ExecuteToolsKeeps, DeadlineKeeps,
     AbortKeeps, RoundSettlesKeeps
  DEF Next, ProviderEnds, HookSettles

LEMMA Invariant == SafeSpec => []IInv
<1>1. Init => IInv
  <2> SUFFICES ASSUME Init PROVE IInv
    OBVIOUS
  <2>1. \A c \in Slots : call[c] = NoCall
    BY DEF Init
  <2>2. \A c \in Slots : ~Asked(c)
    BY <2>1 DEF Asked, NoCall
  <2>3. TypeOK
    <3>1. NoCall \in [work : {"none", "consulting", "executing", "over"}, answer : Answers,
                      race : {"none", "open", "answered", "timedOut", "abandoned"}]
      BY DEF NoCall, Answers
    <3>2. /\ call \in [Slots -> [work : {"none", "consulting", "executing", "over"}, answer : Answers,
                                race : {"none", "open", "answered", "timedOut", "abandoned"}]]
          /\ told \in [Slots -> Answers \union {"timedOut"}]
      BY <3>1 DEF Init, Answers
    <3>3. \A c \in Slots : /\ call[c].answer # "none" <=> call[c].work = "over"
                           /\ call[c].race = "answered" => call[c].work = "over"
      BY <2>1 DEF NoCall
    <3>4. rounds \in 0..MaxToolRounds /\ log \in Seq(Calls) /\ at \in Places
      BY SizesAssumption DEF Init, Places
    <3>5. QED
      BY <2>2, <3>2, <3>3, <3>4 DEF Init, TypeOK
  <2>4. Races
    BY <2>1 DEF Races, Race, NoCall
  <2>5. ToldSoFar /\ Fresh
    BY <2>2 DEF ToldSoFar, Fresh, Init
  <2>6. QED
    BY <2>3, <2>4, <2>5 DEF IInv
<1>2. QED
  BY <1>1, InvariantKept, PTL DEF SafeSpec

-----------------------------------------------------------------------------
(* Every variable of the turn keeps its type, for any budget: no round     *)
(* beyond it is begun (chatOrchestrator.ts:225).                           *)
THEOREM TypeCorrect == SafeSpec => []TypeOK
<1>1. IInv => TypeOK
  BY DEF IInv
<1>2. QED
  BY <1>1, Invariant, PTL

(* However many calls race their deadlines and the run's signal, and       *)
(* whatever they do once they lost: whenever the provider is asked, every  *)
(* call has one answer, and it is what became of the call                  *)
(* (chatOrchestrator.ts:355).                                              *)
THEOREM AnsweredTruthfully == SafeSpec => []EveryCallAnswered
<1>1. IInv => EveryCallAnswered
  BY DEF IInv, EveryCallAnswered, ToldSoFar, Earlier, Settled
<1>2. QED
  BY <1>1, Invariant, PTL

(* A policy that answers late, or after the abort, starts nothing          *)
(* (chatOrchestrator.ts:316).                                              *)
THEOREM NothingStartedLate == SafeSpec => NeverStartedBehindTheModel
<1>1. ASSUME IInv, Next, NEW c \in Slots, ~Started(call[c]), Started(call'[c])
      PROVE  call'[c].race = "open" /\ ~aborted
  <2> USE <1>1
  <2>1. ASSUME NEW n \in AskedFor, NEW odd \in SUBSET (1..n),
               NEW first \in [1..n -> Begin(TRUE) \union Begin(FALSE)], ExecuteTools(n, odd, first)
        PROVE  call'[c].race = "open" /\ ~aborted
    <3>1. c[1] = rounds + 1 /\ c[2] \in 1..n
      BY <2>1 DEF ExecuteTools
    <3>2. first[c[2]] \in Steps /\ first[c[2]].answer \in {"none", "error", "rejected"}
      BY <3>1, BeginSteps
    <3>3. call'[c] = Moved([NoCall EXCEPT !.race = "open"], first[c[2]])
      BY <2>1, <3>1 DEF ExecuteTools
    <3>4. QED
      BY <2>1, <3>2, <3>3 DEF Moved, NoCall, Started, FromExecutor, ExecuteTools
  <2>2. ASSUME NEW d \in Slots, PolicyAnswers(d)
        PROVE  call'[c].race = "open" /\ ~aborted
    <3>1. PICK step \in {Over("declined")} \union Allowed(d) : call' = [call EXCEPT ![d] = Moved(@, step)]
      BY <2>2 DEF PolicyAnswers
    <3>2. d = c /\ call'[c] = Moved(call[c], step) /\ call[c].work = "consulting"
      BY <2>2, <3>1 DEF PolicyAnswers, IInv, TypeOK
    <3>3. step.work = "executing" /\ call[c].race # "timedOut" /\ ~aborted
      BY <3>1, <3>2, AllowedSteps DEF Moved, Started, Over, FromExecutor
    <3>4. QED
      BY <3>2, <3>3 DEF Moved, IInv, TypeOK, Races, Race
  <2>3. ASSUME NEW d \in Slots, NEW answer \in FromExecutor, ExecutorSettles(d, answer)
        PROVE  FALSE
    BY <2>3 DEF ExecutorSettles, Started, IInv, TypeOK
  <2>4. ASSUME NEW d \in Slots, Deadline(d) PROVE FALSE
    BY <2>4 DEF Deadline, Started, IInv, TypeOK
  <2>5. ~Abort
    BY DEF Abort, Started, IInv, TypeOK
  <2>6. call' # call
    OBVIOUS
  <2>7. QED
    BY <2>1, <2>2, <2>3, <2>4, <2>5, <2>6
    DEF Next, ProviderEnds, HookSettles, ProviderThrows, ConsumerLeaves, Answered, RefuseTools,
        OnError, Prepare, CloseExhausted, AfterModel, AfterSession, RoundSettles, RoundRejects,
        Save, ToolsUnchanged
<1>2. ASSUME IInv, UNCHANGED vars, NEW c \in Slots PROVE Started(call'[c]) => Started(call[c])
  BY <1>2 DEF vars
<1>3. IInv /\ [Next]_vars => [\A c \in Slots : ~Started(call[c]) /\ Started(call'[c]) =>
                                 call'[c].race = "open" /\ ~aborted]_vars
  BY <1>1, <1>2
<1>4. QED
  BY <1>3, Invariant, PTL DEF SafeSpec, NeverStartedBehindTheModel

-----------------------------------------------------------------------------
(* What the run called.                                                    *)
Occurs(e) == {i \in DOMAIN log : log[i] = e}

LEMMA Logged ==
  ASSUME log \in Seq(Calls), NEW e \in Calls, log' = Append(log, e)
  PROVE  /\ log' \in Seq(Calls) /\ Len(log) \in Nat /\ Len(log') = Len(log) + 1 /\ log'[Len(log')] = e
         /\ \A i \in 1..Len(log) : log'[i] = log[i]
         /\ \A f \in Calls : /\ Times(f) \in Nat
                             /\ Times(f)' = IF f = e THEN Times(f) + 1 ELSE Times(f)
<1> DEFINE n == Len(log)
<1>1. /\ log' \in Seq(Calls) /\ Len(log') = n + 1 /\ n \in Nat /\ log'[n + 1] = e
      /\ \A j \in 1..n : log'[j] = log[j]
      /\ DOMAIN log' = 1..(n + 1) /\ DOMAIN log = 1..n
  BY AppendProperties
<1> HIDE DEF n
<1>2. ASSUME NEW f \in Calls
      PROVE  /\ Times(f) \in Nat
             /\ Times(f)' = IF f = e THEN Times(f) + 1 ELSE Times(f)
  <2>1. IsFiniteSet(1..n) /\ Occurs(f) \in SUBSET (1..n)
    BY <1>1, FS_Interval DEF Occurs
  <2>2. IsFiniteSet(Occurs(f)) /\ Cardinality(Occurs(f)) \in Nat
    BY <2>1, FS_Subset, FS_CardinalityType
  <2>3. Times(f) = Cardinality(Occurs(f)) /\ Times(f)' = Cardinality(Occurs(f)')
    BY DEF Times, Occurs
  <2>4. CASE f = e
    <3>1. Occurs(f)' = Occurs(f) \union {n + 1}
      BY <1>1, <2>4 DEF Occurs
    <3>2. n + 1 \notin Occurs(f)
      BY <1>1 DEF Occurs
    <3>3. QED
      BY <2>2, <2>3, <2>4, <3>1, <3>2, FS_AddElement
  <2>5. CASE f # e
    <3>1. Occurs(f)' = Occurs(f)
      BY <1>1, <2>5 DEF Occurs
    <3>2. QED
      BY <2>2, <2>3, <2>5, <3>1
  <2>6. QED
    BY <2>4, <2>5
<1>3. QED
  BY <1>1, <1>2 DEF n

-----------------------------------------------------------------------------
(* What the run has called by the place where it stands.                   *)
Torn(closed, left, stored) ==
    Times("closeTurn") = closed /\ Times("afterSession") = left /\ Times("save") = stored

EndsOn(tail) ==
    /\ Len(log) >= Len(tail)
    /\ \A i \in 1..Len(tail) : log[Len(log) - Len(tail) + i] = tail[i]

Teardown ==
    /\ at = "hooks" => log = <<>>
    /\ at \in {"hooks", "provider", "tools", "budget", "afterModel"} =>
          /\ Torn(0, 0, 0) /\ Times("onError") = 0 /\ failing = FALSE
          /\ Times("afterModel") = IF at = "afterModel" THEN 1 ELSE 0
    /\ at = "onError" => Torn(0, 0, 0) /\ failing /\ Times("onError") = 1
    /\ at = "afterSession" =>
          /\ Torn(1, 0, 0) /\ EndsOn(<<"closeTurn">>)
          /\ Times("onError") = IF failing THEN 1 ELSE 0
          /\ failing \/ aborted \/ Times("afterModel") = 1
    /\ at = "save" => Torn(1, 1, 0) /\ EndsOn(<<"closeTurn", "afterSession">>)
    /\ at = "done" => Torn(1, 1, 1) /\ EndsOn(<<"closeTurn", "afterSession", "save">>)
    /\ Times("onError") = 0 \/ (Times("onError") = 1 /\ failing)

(* The tail grows with the log.                                            *)
LEMMA TailGrows ==
  ASSUME log \in Seq(Calls), NEW e \in Calls, log' = Append(log, e), NEW tail \in Seq(Calls), EndsOn(tail)
  PROVE  EndsOn(Append(tail, e))'
<1> DEFINE n == Len(log)
           k == Len(tail)
           more == Append(tail, e)
<1>1. /\ n \in Nat /\ Len(log') = n + 1 /\ log'[n + 1] = e
      /\ \A i \in 1..n : log'[i] = log[i]
  BY Logged
<1>2. /\ k \in Nat /\ Len(more) = k + 1 /\ more[k + 1] = e
      /\ \A i \in 1..k : more[i] = tail[i]
  BY AppendProperties
<1>3. n >= k /\ \A i \in 1..k : log[n - k + i] = tail[i]
  BY DEF EndsOn
<1> HIDE DEF n, k, more
<1>4. ASSUME NEW i \in 1..(k + 1)
      PROVE  log'[(n + 1) - (k + 1) + i] = more[i]
  <2>1. (n + 1) - (k + 1) + i = n - k + i /\ n - k + i \in 1..(n + 1)
    BY <1>1, <1>2, <1>3
  <2>2. CASE i \in 1..k
    <3>1. n - k + i \in 1..n
      BY <1>1, <1>2, <1>3, <2>2
    <3>2. log'[n - k + i] = log[n - k + i]
      BY <1>1, <3>1
    <3>3. QED
      BY <1>2, <1>3, <2>1, <2>2, <3>2
  <2>3. CASE i = k + 1
    <3>1. n - k + i = n + 1
      BY <1>1, <1>2, <2>3
    <3>2. QED
      BY <1>1, <1>2, <2>1, <2>3, <3>1
  <2>4. i \in 1..k \/ i = k + 1
    BY <1>2
  <2>5. QED
    BY <2>2, <2>3, <2>4
<1>5. n + 1 >= k + 1
  BY <1>1, <1>2, <1>3
<1>6. QED
  BY <1>1, <1>2, <1>4, <1>5 DEF EndsOn, more

LEMMA Tails ==
  /\ <<>> \in Seq(Calls) /\ <<"closeTurn">> \in Seq(Calls) /\ <<"closeTurn", "afterSession">> \in Seq(Calls)
  /\ Append(<<>>, "closeTurn") = <<"closeTurn">>
  /\ Append(<<"closeTurn">>, "afterSession") = <<"closeTurn", "afterSession">>
  /\ Append(<<"closeTurn", "afterSession">>, "save") = <<"closeTurn", "afterSession", "save">>
<1> USE DEF Calls
<1>1. /\ <<>> \in Seq(Calls) /\ <<"closeTurn">> \in Seq(Calls) /\ <<"closeTurn", "afterSession">> \in Seq(Calls)
      /\ <<"closeTurn", "afterSession", "save">> \in Seq(Calls)
  OBVIOUS
<1>2. ASSUME NEW s \in Seq(Calls), NEW e \in Calls, NEW t \in Seq(Calls),
             Len(t) = Len(s) + 1, t[Len(t)] = e, \A i \in 1..Len(s) : t[i] = s[i]
      PROVE  Append(s, e) = t
  <2> DEFINE a == Append(s, e)
  <2>1. /\ a \in Seq(Calls) /\ Len(a) = Len(s) + 1 /\ a[Len(s) + 1] = e /\ Len(s) \in Nat
        /\ \A i \in 1..Len(s) : a[i] = s[i]
    BY <1>2, AppendProperties
  <2> HIDE DEF a
  <2>2. \A i \in 1..(Len(s) + 1) : i \in 1..Len(s) \/ i = Len(s) + 1
    BY <2>1
  <2>3. a = t
    BY <1>2, <2>1, <2>2, SeqEqual
  <2>4. QED
    BY <2>3 DEF a
<1>3. Append(<<>>, "closeTurn") = <<"closeTurn">>
  BY <1>1, <1>2
<1>4. Append(<<"closeTurn">>, "afterSession") = <<"closeTurn", "afterSession">>
  <2> DEFINE s == <<"closeTurn">>
             t == <<"closeTurn", "afterSession">>
  <2>1. /\ s \in Seq(Calls) /\ t \in Seq(Calls) /\ "afterSession" \in Calls
        /\ Len(s) = 1 /\ Len(t) = 2 /\ t[2] = "afterSession" /\ s[1] = t[1]
    BY <1>1
  <2> HIDE DEF s, t
  <2>2. Len(t) = Len(s) + 1 /\ t[Len(t)] = "afterSession" /\ \A i \in 1..Len(s) : t[i] = s[i]
    BY <2>1
  <2>3. Append(s, "afterSession") = t
    BY <1>2, <2>1, <2>2
  <2>4. QED
    BY <2>3 DEF s, t
<1>5. Append(<<"closeTurn", "afterSession">>, "save") = <<"closeTurn", "afterSession", "save">>
  <2> DEFINE s == <<"closeTurn", "afterSession">>
             t == <<"closeTurn", "afterSession", "save">>
  <2>1. /\ s \in Seq(Calls) /\ t \in Seq(Calls) /\ "save" \in Calls
        /\ Len(s) = 2 /\ Len(t) = 3 /\ t[3] = "save" /\ s[1] = t[1] /\ s[2] = t[2]
    BY <1>1
  <2> HIDE DEF s, t
  <2>2. \A i \in 1..2 : i = 1 \/ i = 2
    OBVIOUS
  <2>3. Len(t) = Len(s) + 1 /\ t[Len(t)] = "save" /\ \A i \in 1..Len(s) : t[i] = s[i]
    BY <2>1, <2>2
  <2>4. Append(s, "save") = t
    BY <1>2, <2>1, <2>3
  <2>5. QED
    BY <2>4 DEF s, t
<1>6. QED
  BY <1>1, <1>3, <1>4, <1>5

Before == {"hooks", "provider", "tools", "budget", "afterModel"}

(* The run goes on before its teardown.                                    *)
LEMMA GoingOn ==
  ASSUME TypeOK, Teardown, at \in Before \ {"afterModel"}, at' \in Before \ {"hooks"}, UNCHANGED failing,
         \/ at' # "afterModel" /\ (log' = log \/ \E e \in {"provider", "tools"} : log' = Append(log, e))
         \/ at' = "afterModel" /\ log' = Append(log, "afterModel")
  PROVE  Teardown'
<1>1. Torn(0, 0, 0) /\ Times("onError") = 0 /\ Times("afterModel") = 0 /\ failing = FALSE
  BY DEF Teardown, Before
<1>2. /\ Torn(0, 0, 0)' /\ Times("onError")' = 0
      /\ Times("afterModel")' = IF at' = "afterModel" THEN 1 ELSE 0
  <2>1. CASE at' # "afterModel" /\ log' = log
    BY <1>1, <2>1 DEF Torn, Times
  <2>2. CASE at' # "afterModel" /\ \E e \in {"provider", "tools"} : log' = Append(log, e)
    <3>1. PICK e \in {"provider", "tools"} : log' = Append(log, e)
      BY <2>2
    <3>2. \A f \in {"closeTurn", "afterSession", "save", "onError", "afterModel"} : Times(f)' = Times(f)
      BY <3>1, Logged DEF TypeOK, Calls
    <3>3. QED
      BY <1>1, <2>2, <3>2 DEF Torn
  <2>3. CASE at' = "afterModel" /\ log' = Append(log, "afterModel")
    <3>1. /\ \A f \in {"closeTurn", "afterSession", "save", "onError"} : Times(f)' = Times(f)
          /\ Times("afterModel")' = 1
      BY <1>1, <2>3, Logged DEF TypeOK, Calls
    <3>2. QED
      BY <1>1, <2>3, <3>1 DEF Torn
  <2>4. QED
    BY <2>1, <2>2, <2>3
<1>3. QED
  BY <1>1, <1>2 DEF Teardown, Before

(* It is torn down by a return, or by a throw it reports first.            *)
LEMMA Returning ==
  ASSUME TypeOK, Teardown, at \in Before \union {"onError"}, Return, UNCHANGED aborted,
         at \in {"onError", "afterModel"} \/ aborted
  PROVE  Teardown'
<1>1. /\ Torn(0, 0, 0) /\ Times("onError") = IF failing THEN 1 ELSE 0
      /\ failing \/ aborted \/ Times("afterModel") = 1
  BY DEF Teardown, Before
<1>2. /\ at' = "afterSession" /\ log' = Append(log, "closeTurn") /\ failing' = failing
      /\ log \in Seq(Calls) /\ "closeTurn" \in Calls
  BY DEF Return, Finally, TypeOK, Calls
<1>3. Torn(1, 0, 0)' /\ \A f \in {"onError", "afterModel"} : Times(f)' = Times(f)
  BY <1>1, <1>2, Logged DEF Torn, Calls
<1>4. EndsOn(<<>>)
  BY <1>2 DEF EndsOn
<1>5. EndsOn(<<"closeTurn">>)'
  BY <1>2, <1>4, Tails, TailGrows
<1>6. QED
  BY <1>1, <1>2, <1>3, <1>5 DEF Teardown

LEMMA Throwing ==
  ASSUME TypeOK, Teardown, at \in Before, Catch, UNCHANGED aborted
  PROVE  Teardown'
<1>1. CASE aborted
  BY <1>1, Returning DEF Catch, Return
<1>2. CASE ~aborted
  <2>1. failing' = TRUE /\ at' = "onError" /\ log' = Append(log, "onError")
    BY <1>2 DEF Catch
  <2>2. Torn(0, 0, 0) /\ Times("onError") = 0
    BY DEF Teardown, Before
  <2>3. Torn(0, 0, 0)' /\ Times("onError")' = 1
    BY <2>1, <2>2, Logged DEF Torn, TypeOK, Calls
  <2>4. QED
    BY <2>1, <2>3 DEF Teardown
<1>3. QED
  BY <1>1, <1>2

LEMMA LeavingSession ==
  ASSUME TypeOK, Teardown, NEW throws \in BOOLEAN, AfterSession(throws)
  PROVE  Teardown'
<1>1. /\ at = "afterSession" /\ at' = "save" /\ failing' = (failing \/ throws)
      /\ log' = Append(log, "afterSession") /\ log \in Seq(Calls) /\ "afterSession" \in Calls
  BY DEF AfterSession, TypeOK, Calls
<1>2. Torn(1, 0, 0) /\ EndsOn(<<"closeTurn">>) /\ (Times("onError") = 0 \/ (Times("onError") = 1 /\ failing))
  BY <1>1 DEF Teardown
<1>3. Torn(1, 1, 0)' /\ Times("onError")' = Times("onError")
  BY <1>1, <1>2, Logged DEF Torn, Calls
<1>4. EndsOn(<<"closeTurn", "afterSession">>)'
  BY <1>1, <1>2, Tails, TailGrows
<1>5. QED
  BY <1>1, <1>2, <1>3, <1>4 DEF Teardown

LEMMA Saving ==
  ASSUME TypeOK, Teardown, Save
  PROVE  Teardown'
<1>1. /\ at = "save" /\ at' = "done" /\ failing' = failing
      /\ log' = Append(log, "save") /\ log \in Seq(Calls) /\ "save" \in Calls
  BY DEF Save, TypeOK, Calls
<1>2. Torn(1, 1, 0) /\ EndsOn(<<"closeTurn", "afterSession">>)
      /\ (Times("onError") = 0 \/ (Times("onError") = 1 /\ failing))
  BY <1>1 DEF Teardown
<1>3. Torn(1, 1, 1)' /\ Times("onError")' = Times("onError")
  BY <1>1, <1>2, Logged DEF Torn, Calls
<1>4. EndsOn(<<"closeTurn", "afterSession", "save">>)'
  BY <1>1, <1>2, Tails, TailGrows
<1>5. QED
  BY <1>1, <1>2, <1>3, <1>4 DEF Teardown

LEMMA TeardownKept == TypeOK /\ Teardown /\ [Next]_vars => Teardown'
<1> SUFFICES ASSUME TypeOK, Teardown, [Next]_vars PROVE Teardown'
  OBVIOUS
<1>1. ASSUME NEW throws \in BOOLEAN, Prepare(throws) \/ CloseExhausted(throws) \/ AfterModel(throws)
      PROVE  Teardown'
  <2>1. at \in Before
    BY <1>1 DEF Prepare, CloseExhausted, AfterModel, Before
  <2>2. /\ UNCHANGED aborted
        /\ \/ Catch
           \/ Return /\ at = "afterModel"
           \/ /\ at \in Before \ {"afterModel"} /\ UNCHANGED failing
              /\ \/ at' = "provider" /\ log' = Append(log, "provider")
                 \/ at' = "afterModel" /\ log' = Append(log, "afterModel")
    BY <1>1 DEF Prepare, CloseExhausted, AfterModel, AskProvider, Before
  <2>3. QED
    BY <2>1, <2>2, GoingOn, Returning, Throwing DEF Before
<1>2. CASE ProviderThrows \/ RoundRejects
  BY <1>2, Throwing DEF ProviderThrows, RoundRejects, Before
<1>3. CASE ConsumerLeaves \/ OnError
  BY <1>3, Returning DEF ConsumerLeaves, OnError, Before
<1>4. CASE Answered
  <2>1. at \in Before
    BY <1>4 DEF Answered, Before
  <2>2. /\ at = "provider" /\ UNCHANGED aborted
        /\ \/ Return /\ aborted
           \/ at' = "afterModel" /\ log' = Append(log, "afterModel") /\ UNCHANGED failing
    BY <1>4 DEF Answered
  <2>3. QED
    BY <2>1, <2>2, GoingOn, Returning DEF Before
<1>5. CASE RefuseTools
  BY <1>5, GoingOn DEF RefuseTools, Before
<1>6. CASE RoundSettles
  <2>1. at = "tools" /\ UNCHANGED aborted /\ ((Return /\ aborted) \/ AskProvider)
    BY <1>6 DEF RoundSettles, Before
  <2>2. QED
    BY <2>1, GoingOn, Returning DEF AskProvider, Before
<1>7. ASSUME NEW n \in AskedFor, NEW odd \in SUBSET (1..n),
             NEW first \in [1..n -> Begin(TRUE) \union Begin(FALSE)], ExecuteTools(n, odd, first)
      PROVE  Teardown'
  BY <1>7, GoingOn DEF ExecuteTools, Before
<1>8. ASSUME UNCHANGED <<at, failing, log>>, aborted => aborted'
      PROVE  Teardown'
  BY <1>8 DEF Teardown, Torn, Times, EndsOn
<1>9. ASSUME NEW c \in Slots, PolicyAnswers(c) \/ Deadline(c) \/ \E answer \in FromExecutor : ExecutorSettles(c, answer)
      PROVE  Teardown'
  BY <1>8, <1>9 DEF PolicyAnswers, Deadline, ExecutorSettles
<1>10. CASE Abort \/ UNCHANGED vars
  BY <1>8, <1>10 DEF Abort, vars
<1>11. QED
  BY <1>1, <1>2, <1>3, <1>4, <1>5, <1>6, <1>7, <1>9, <1>10, LeavingSession, Saving
  DEF Next, ProviderEnds, HookSettles

LEMMA TornDown == SafeSpec => []Teardown
<1>1. Init => Teardown
  <2> SUFFICES ASSUME Init PROVE Teardown
    OBVIOUS
  <2>1. log = <<>> /\ at = "hooks" /\ failing = FALSE
    BY DEF Init
  <2>2. \A e : Times(e) = 0
    BY <2>1, FS_EmptySet DEF Times
  <2>3. QED
    BY <2>1, <2>2 DEF Teardown, Torn
<1>2. IInv => TypeOK
  BY DEF IInv
<1>3. QED
  BY <1>1, <1>2, TeardownKept, Invariant, PTL DEF SafeSpec

(* However a turn ends, in its teardown everything runs once and in order. *)
(* As it begins onError was called, once, exactly if the run is failing,   *)
(* and afterModelResponse was called if the run neither failed nor was     *)
(* abandoned (chatOrchestrator.ts:171-194).                                *)
THEOREM TornDownInOrder == SafeSpec => []TeardownInOrder
<1>1. TypeOK /\ Teardown => TeardownInOrder
  <2>8. ASSUME Teardown, at = "afterSession" PROVE TeardownInOrder
    BY <2>8 DEF Teardown, TeardownInOrder
  <2> SUFFICES ASSUME TypeOK, Teardown, at = "done" PROVE TeardownInOrder
    BY <2>8 DEF TeardownInOrder
  <2> DEFINE t == <<"closeTurn", "afterSession", "save">>
             n == Len(log)
  <2>1. /\ Torn(1, 1, 1) /\ EndsOn(t)
        /\ Times("onError") = 0 \/ Times("onError") = 1
        /\ log \in Seq(Calls)
    BY DEF Teardown, TypeOK
  <2>2. t \in Seq(Calls) /\ Len(t) = 3
    BY DEF Calls
  <2>3. /\ n \in Nat /\ n >= 3 /\ \A i \in 1..3 : log[n - 3 + i] = t[i]
        /\ \A i \in 1..n : log[i] \in Calls
    BY <2>1, <2>2 DEF EndsOn
  <2> HIDE DEF t, n
  <2>4. /\ SubSeq(log, n - 2, n) \in Seq(Calls) /\ Len(SubSeq(log, n - 2, n)) = 3
        /\ \A i \in 1..3 : SubSeq(log, n - 2, n)[i] = log[(n - 2) + i - 1]
    <3>1. /\ n - 2 \in Int /\ n \in Int /\ n - 2 <= n /\ n - (n - 2) + 1 = 3
          /\ \A i \in (n - 2)..n : log[i] \in Calls
      BY <2>3
    <3>2. QED
      BY <3>1, SubSeqProperties
  <2>5. \A i \in 1..3 : (n - 2) + i - 1 = n - 3 + i
    BY <2>3
  <2>6. SubSeq(log, n - 2, n) = t
    BY <2>2, <2>3, <2>4, <2>5, SeqEqual
  <2>7. QED
    BY <2>1, <2>3, <2>6 DEF TeardownInOrder, Torn, t, n
<1>2. IInv => TypeOK
  BY DEF IInv
<1>3. QED
  BY <1>1, <1>2, Invariant, TornDown, PTL

(* An abandoned run reaches nobody any more but to close what it opened,   *)
(* wherever the abort met it (chatOrchestrator.ts:133).                    *)
THEOREM QuietOnceAbandoned == SafeSpec => AbandonedQuietly
<1> DEFINE Quietly == /\ told' = told /\ rounds' = rounds
                      /\ log' # log => Last(log') \in {"closeTurn", "afterSession", "save"}
                                       \/ (Last(log') = "provider" /\ Times("provider") = 0)
<1>1. ASSUME TypeOK, NEW e \in Calls, log' = Append(log, e)
      PROVE  Last(log') = e
  BY <1>1, Logged DEF TypeOK, Last
<1>2. ASSUME TypeOK, aborted, Return \/ Catch, UNCHANGED <<told, rounds>>
      PROVE  Quietly
  <2>1. log' = Append(log, "closeTurn")
    BY <1>2 DEF Return, Catch, Finally
  <2>2. QED
    BY <1>1, <1>2, <2>1 DEF Calls
<1>3. ASSUME TypeOK, Teardown, aborted, Next
      PROVE  Quietly
  <2>1. ASSUME NEW throws \in BOOLEAN, Prepare(throws)
        PROVE  Quietly
    <3>1. CASE throws
      BY <1>2, <1>3, <2>1, <3>1 DEF Prepare, ToolsUnchanged
    <3>2. CASE ~throws
      <4>1. log' = Append(log, "provider") /\ log = <<>> /\ UNCHANGED <<told, rounds>>
        BY <1>3, <2>1, <3>2 DEF Prepare, AskProvider, ToolsUnchanged, Teardown
      <4>2. Times("provider") = 0
        BY <4>1, FS_EmptySet DEF Times
      <4>3. QED
        BY <1>1, <1>3, <4>1, <4>2 DEF Calls
    <3>3. QED
      BY <3>1, <3>2
  <2>2. ASSUME NEW throws \in BOOLEAN, CloseExhausted(throws) \/ AfterModel(throws)
        PROVE  Quietly
    BY <1>2, <1>3, <2>2 DEF CloseExhausted, AfterModel, ToolsUnchanged
  <2>3. CASE ProviderThrows \/ RoundRejects \/ ConsumerLeaves \/ OnError \/ Answered
    BY <1>2, <1>3, <2>3 DEF ProviderThrows, RoundRejects, ConsumerLeaves, OnError, Answered, ToolsUnchanged
  <2>4. CASE RoundSettles
    BY <1>2, <1>3, <2>4 DEF RoundSettles
  <2>5. ASSUME NEW throws \in BOOLEAN, AfterSession(throws)
        PROVE  Quietly
    BY <1>1, <1>3, <2>5 DEF AfterSession, ToolsUnchanged, Calls
  <2>6. CASE Save
    BY <1>1, <1>3, <2>6 DEF Save, ToolsUnchanged, Calls
  <2>7. ASSUME NEW c \in Slots, PolicyAnswers(c) \/ Deadline(c) \/ \E answer \in FromExecutor : ExecutorSettles(c, answer)
        PROVE  Quietly
    BY <2>7 DEF PolicyAnswers, Deadline, ExecutorSettles
  <2>8. ~RefuseTools /\ ~Abort
    BY <1>3 DEF RefuseTools, Abort
  <2>9. ASSUME NEW n \in AskedFor, NEW odd \in SUBSET (1..n),
               NEW first \in [1..n -> Begin(TRUE) \union Begin(FALSE)], ExecuteTools(n, odd, first)
        PROVE  FALSE
    BY <1>3, <2>9 DEF ExecuteTools
  <2>10. QED
    BY <1>3, <2>1, <2>2, <2>3, <2>4, <2>5, <2>6, <2>7, <2>8, <2>9 DEF Next, ProviderEnds, HookSettles
<1>4. TypeOK /\ Teardown /\ [Next]_vars => [aborted => Quietly]_vars
  BY <1>3
<1>5. IInv => TypeOK
  BY DEF IInv
<1> HIDE DEF Quietly
<1>6. SafeSpec => [][aborted => Quietly]_vars
  BY <1>4, <1>5, Invariant, TornDown, PTL DEF SafeSpec
<1>7. QED
  BY <1>6 DEF AbandonedQuietly, Quietly

-----------------------------------------------------------------------------
(***************************************************************************)
(* What a turn writes and sends: EntryStream.                              *)
(***************************************************************************)

(* The types of the stream state and of the record of the three.           *)
Streams == [index : [Model -> {0} \union Indices], suppressOutput : BOOLEAN,
            blankable : SUBSET Indices, insideThinking : BOOLEAN, held : Text, open : BOOLEAN]

Worlds == [entries : Seq(Entry), view : [Indices -> Copy], stream : Streams]

(* Nothing is given up on the way to the store.                            *)
Lossless(p) == p.maxContent = 0 /\ p.redaction # "refusing"

(* What was given up has no text, only a policy gives anything up, and     *)
(* what is closed is redacted.                                             *)
EntryFormed(p, e) ==
    /\ e.cleared => e.text = <<>>
    /\ Lossless(p) => ~e.cleared
    /\ p.redaction # "off" /\ e.role # "user" /\ ~e.isStreaming => e.redacted

LastTurn(es, i) == \A j \in i..Len(es) : es[j].role # "user"

IsOpen(w, i) == \E role \in Model : w.stream.index[role] = i

(* The stream's references to the entry at i.                              *)
Referred(w, i) ==
    /\ \A role \in Model :
         w.stream.index[role] = i => /\ w.entries[i].role = role
                                     /\ w.entries[i].suppressed = w.stream.suppressOutput
    /\ i \in w.stream.blankable => w.entries[i].role \in Model /\ ~w.entries[i].isStreaming

(* What the client that watches has of it.                                 *)
Watched(p, w, i) ==
    /\ Lossless(p) => Shown(w.view[i]) = Replayed(w.entries[i])
    /\ IF IsOpen(w, i) /\ ~w.stream.suppressOutput
       THEN w.view[i].state = "open"
       ELSE w.view[i].state \in {"committed", "skipped"}

(* What the model said in this turn can be retracted, or is.               *)
Retractable(w, i) ==
    w.entries[i].role \in Model /\ LastTurn(w.entries, i) =>
        IF w.stream.suppressOutput
        THEN w.entries[i].suppressed /\ (w.stream.open => Shown(w.view[i]) = <<>>)
        ELSE w.stream.open => i \in w.stream.blankable \/ IsOpen(w, i)

(* All that holds of the entry at i, and of an index without an entry.     *)
Fine(p, w, i) ==
    /\ EntryFormed(p, w.entries[i])
    /\ Referred(w, i)
    /\ w.stream.open => Watched(p, w, i)
    /\ Retractable(w, i)

Unused(w, i) == w.view[i] = Unknown /\ i \notin w.stream.blankable /\ ~IsOpen(w, i)

(* The entries, the client's copies and the stream, index by index.        *)
Good(p, w) ==
    /\ w \in Worlds /\ Len(w.entries) <= MaxEntries
    /\ \A i \in Indices :
         /\ ~w.view[i].confused
         /\ i <= Len(w.entries) => Fine(p, w, i)
         /\ i > Len(w.entries) => Unused(w, i)

(* Between turns nothing is held back or open; what is held back has room. *)
RunInv ==
    /\ run.at = "idle" => stream.held = <<>> /\ \A role \in Model : stream.index[role] = 0
    /\ stream.held # <<>> => Len(entries) < MaxEntries
    /\ run.pending => run.rounds < MaxRounds

StreamInv == StreamTypeOK /\ Good(policy, World) /\ RunInv /\ SavedIsClosed


(***************************************************************************)
(* The entries and the copies, one at a time.                              *)
(***************************************************************************)

(* What a policy leaves of an entry is an entry of the same role that is   *)
(* as open as before; only a refusing one takes its text.                  *)
LEMMA RedactedEntry ==
  ASSUME policy \in Policy, NEW e \in Entry,
         e.cleared => e.text = <<>>,
         Lossless(policy) => ~e.cleared
  PROVE  /\ Redacted(e) \in Entry
         /\ Redacted(e).role = e.role
         /\ Redacted(e).isStreaming = e.isStreaming
         /\ Redacted(e).suppressed = e.suppressed
         /\ EntryFormed(policy, Redacted(e))
         /\ Lossless(policy) => Replayed(Redacted(e)) = Replayed(e)
<1>1. CASE policy.redaction = "off" \/ e.role = "user"
  BY <1>1 DEF Redacted, EntryFormed, Replayed
<1>2. CASE ~(policy.redaction = "off" \/ e.role = "user") /\ policy.redaction = "on"
  <2>1. Redacted(e) = [e EXCEPT !.redacted = TRUE]
    BY <1>2 DEF Redacted
  <2>2. Redacted(e) \in Entry
    BY <2>1 DEF Entry
  <2> QED
    BY <2>1, <2>2 DEF EntryFormed, Replayed, Entry
<1>3. CASE ~(policy.redaction = "off" \/ e.role = "user") /\ policy.redaction # "on"
  <2>1. Redacted(e) = [e EXCEPT !.text = <<>>, !.cleared = TRUE, !.redacted = TRUE]
    BY <1>3 DEF Redacted, Cleared
  <2>2. <<>> \in Text
    BY EmptySeq DEF Text
  <2>3. Redacted(e) \in Entry
    BY <2>1, <2>2 DEF Entry
  <2>4. ~Lossless(policy)
    BY <1>3 DEF Lossless, Policy
  <2> QED
    BY <2>1, <2>3, <2>4 DEF EntryFormed, Entry
<1> QED
  BY <1>1, <1>2, <1>3

(* An entry changed in place is the only one that changed.                 *)
LEMMA ChangedEntry ==
  ASSUME NEW es \in Seq(Entry), NEW i \in 1..Len(es), NEW e \in Entry
  PROVE  /\ [es EXCEPT ![i] = e] \in Seq(Entry)
         /\ Len([es EXCEPT ![i] = e]) = Len(es)
         /\ [es EXCEPT ![i] = e][i] = e
         /\ \A j \in 1..Len(es) : j # i => [es EXCEPT ![i] = e][j] = es[j]
<1>1. /\ [es EXCEPT ![i] = e] \in Seq(Entry)
      /\ Len([es EXCEPT ![i] = e]) = Len(es)
      /\ \A j \in 1..Len(es) : [es EXCEPT ![i] = e][j] = IF j = i THEN e ELSE es[j]
  BY ExceptSeq
<1> QED
  BY <1>1

(* The entries of a session are entries.                                   *)
LEMMA EntryAt ==
  ASSUME NEW es \in Seq(Entry), NEW i \in 1..Len(es)
  PROVE  es[i] \in Entry
  BY ElementOfSeq

(* A commit closes the entry, redacted, and touches no other.              *)
LEMMA CommittedEntry ==
  ASSUME policy \in Policy, NEW es \in Seq(Entry), NEW i \in 1..Len(es),
         es[i].cleared => es[i].text = <<>>,
         Lossless(policy) => ~es[i].cleared,
         ~es[i].isStreaming => EntryFormed(policy, es[i])
  PROVE  /\ CommitEntry(es, i) \in Seq(Entry)
         /\ Len(CommitEntry(es, i)) = Len(es)
         /\ \A j \in 1..Len(es) : j # i => CommitEntry(es, i)[j] = es[j]
         /\ CommitEntry(es, i)[i].role = es[i].role
         /\ CommitEntry(es, i)[i].suppressed = es[i].suppressed
         /\ ~CommitEntry(es, i)[i].isStreaming
         /\ EntryFormed(policy, CommitEntry(es, i)[i])
         /\ Lossless(policy) => Replayed(CommitEntry(es, i)[i]) = Replayed(es[i])
<1>1. es[i] \in Entry
  BY EntryAt
<1>2. CASE ~es[i].isStreaming
  BY <1>2 DEF CommitEntry
<1>3. CASE es[i].isStreaming
  <2> DEFINE closed == [es[i] EXCEPT !.isStreaming = FALSE]
  <2>1. /\ closed \in Entry
        /\ closed.role = es[i].role
        /\ closed.suppressed = es[i].suppressed
        /\ ~closed.isStreaming
        /\ closed.cleared => closed.text = <<>>
        /\ Lossless(policy) => ~closed.cleared
        /\ Replayed(closed) = Replayed(es[i])
    BY <1>1 DEF Entry, Replayed
  <2>2. CommitEntry(es, i) = [es EXCEPT ![i] = Redacted(closed)]
    BY <1>3 DEF CommitEntry
  <2> HIDE DEF closed
  <2>3. /\ Redacted(closed) \in Entry
        /\ Redacted(closed).role = closed.role
        /\ Redacted(closed).isStreaming = closed.isStreaming
        /\ Redacted(closed).suppressed = closed.suppressed
        /\ EntryFormed(policy, Redacted(closed))
        /\ Lossless(policy) => Replayed(Redacted(closed)) = Replayed(closed)
    BY <2>1, RedactedEntry
  <2> DEFINE kept == Redacted(closed)
  <2>4. kept \in Entry
    BY <2>3
  <2> HIDE DEF kept
  <2>5. /\ [es EXCEPT ![i] = kept] \in Seq(Entry)
        /\ Len([es EXCEPT ![i] = kept]) = Len(es)
        /\ [es EXCEPT ![i] = kept][i] = kept
        /\ \A j \in 1..Len(es) : j # i => [es EXCEPT ![i] = kept][j] = es[j]
    BY <2>4, ChangedEntry
  <2> QED
    BY <2>1, <2>2, <2>3, <2>5 DEF kept
<1> QED
  BY <1>2, <1>3

(* Text that arrives for an entry the model speaks in.                     *)
LEMMA GrownEntry ==
  ASSUME policy \in Policy, NEW es \in Seq(Entry), NEW i \in 1..Len(es),
         NEW text \in Text,
         es[i].role \in Model, EntryFormed(policy, es[i])
  PROVE  /\ AppendDelta(es, i, text) \in Seq(Entry)
         /\ Len(AppendDelta(es, i, text)) = Len(es)
         /\ \A j \in 1..Len(es) : j # i => AppendDelta(es, i, text)[j] = es[j]
         /\ AppendDelta(es, i, text)[i].role = es[i].role
         /\ AppendDelta(es, i, text)[i].suppressed = es[i].suppressed
         /\ AppendDelta(es, i, text)[i].isStreaming = es[i].isStreaming
         /\ EntryFormed(policy, AppendDelta(es, i, text)[i])
         /\ Lossless(policy) =>
              Replayed(AppendDelta(es, i, text)[i]) =
                  IF es[i].suppressed THEN <<>> ELSE es[i].text \o text
<1>1. es[i] \in Entry
  BY EntryAt
<1>2. CASE es[i].cleared
  BY <1>2 DEF AppendDelta, EntryFormed
<1>3. CASE ~es[i].cleared
  <2> DEFINE e == [es[i] EXCEPT !.text = @ \o text, !.redacted = FALSE]
             kept == IF e.isStreaming THEN e ELSE Redacted(e)
  <2>1. AppendDelta(es, i, text) = [es EXCEPT ![i] = kept]
    BY <1>3 DEF AppendDelta
  <2>2. es[i].text \in Text
    BY <1>1 DEF Entry
  <2>3. es[i].text \o text \in Text
    BY <2>2, ConcatProperties DEF Text
  <2>4. /\ e \in Entry
        /\ e.role = es[i].role
        /\ e.suppressed = es[i].suppressed
        /\ e.isStreaming = es[i].isStreaming
        /\ ~e.cleared
        /\ e.text = es[i].text \o text
    BY <1>1, <1>3, <2>3 DEF Entry
  <2>5. Replayed(e) = IF es[i].suppressed THEN <<>> ELSE es[i].text \o text
    BY <2>4 DEF Replayed
  <2> HIDE DEF e
  <2>6. /\ Redacted(e) \in Entry
        /\ Redacted(e).role = e.role
        /\ Redacted(e).isStreaming = e.isStreaming
        /\ Redacted(e).suppressed = e.suppressed
        /\ EntryFormed(policy, Redacted(e))
        /\ Lossless(policy) => Replayed(Redacted(e)) = Replayed(e)
    BY <2>4, RedactedEntry
  <2>7. e.isStreaming => EntryFormed(policy, e)
    BY <2>4 DEF EntryFormed
  <2>8. /\ kept \in Entry
        /\ kept.role = es[i].role
        /\ kept.suppressed = es[i].suppressed
        /\ kept.isStreaming = es[i].isStreaming
        /\ EntryFormed(policy, kept)
        /\ Lossless(policy) => Replayed(kept) = IF es[i].suppressed THEN <<>> ELSE es[i].text \o text
    BY <2>4, <2>5, <2>6, <2>7
  <2> HIDE DEF kept
  <2>9. /\ [es EXCEPT ![i] = kept] \in Seq(Entry)
        /\ Len([es EXCEPT ![i] = kept]) = Len(es)
        /\ [es EXCEPT ![i] = kept][i] = kept
        /\ \A j \in 1..Len(es) : j # i => [es EXCEPT ![i] = kept][j] = es[j]
    BY <2>8, ChangedEntry
  <2> QED
    BY <2>1, <2>8, <2>9
<1> QED
  BY <1>2, <1>3

(* An entry that is new is the last, stored as its policy wants it.        *)
LEMMA AppendedEntry ==
  ASSUME policy \in Policy, NEW es \in Seq(Entry), NEW e \in Entry,
         ~e.cleared
  PROVE  /\ AppendEntry(es, e) \in Seq(Entry)
         /\ Len(AppendEntry(es, e)) = Len(es) + 1
         /\ \A j \in 1..Len(es) : AppendEntry(es, e)[j] = es[j]
         /\ AppendEntry(es, e)[Len(es) + 1] = IF e.isStreaming THEN e ELSE Redacted(e)
         /\ AppendEntry(es, e)[Len(es) + 1].role = e.role
         /\ AppendEntry(es, e)[Len(es) + 1].suppressed = e.suppressed
         /\ AppendEntry(es, e)[Len(es) + 1].isStreaming = e.isStreaming
         /\ EntryFormed(policy, AppendEntry(es, e)[Len(es) + 1])
         /\ Lossless(policy) => Replayed(AppendEntry(es, e)[Len(es) + 1]) = Replayed(e)
<1> DEFINE kept == IF e.isStreaming THEN e ELSE Redacted(e)
<1>1. AppendEntry(es, e) = Append(es, kept)
  BY DEF AppendEntry
<1>2. /\ Redacted(e) \in Entry
      /\ Redacted(e).role = e.role
      /\ Redacted(e).isStreaming = e.isStreaming
      /\ Redacted(e).suppressed = e.suppressed
      /\ EntryFormed(policy, Redacted(e))
      /\ Lossless(policy) => Replayed(Redacted(e)) = Replayed(e)
  BY RedactedEntry
<1>3. e.isStreaming => EntryFormed(policy, e)
  BY DEF EntryFormed
<1>4. /\ kept \in Entry
      /\ kept.role = e.role
      /\ kept.suppressed = e.suppressed
      /\ kept.isStreaming = e.isStreaming
      /\ EntryFormed(policy, kept)
      /\ Lossless(policy) => Replayed(kept) = Replayed(e)
  BY <1>2, <1>3
<1>5. kept = IF e.isStreaming THEN e ELSE Redacted(e)
  OBVIOUS
<1> HIDE DEF kept
<1>6. /\ Append(es, kept) \in Seq(Entry)
      /\ Len(Append(es, kept)) = Len(es) + 1
      /\ \A j \in 1..Len(es) : Append(es, kept)[j] = es[j]
      /\ Append(es, kept)[Len(es) + 1] = kept
  BY <1>4, AppendProperties
<1> QED
  BY <1>1, <1>4, <1>5, <1>6

(* A copy changed is the only one that changed, and what it holds then.    *)
LEMMA ChangedCopy ==
  ASSUME NEW v \in [Indices -> Copy], NEW i \in Indices, NEW c \in Copy
  PROVE  /\ [v EXCEPT ![i] = c] \in [Indices -> Copy]
         /\ [v EXCEPT ![i] = c][i] = c
         /\ \A j \in Indices : j # i => [v EXCEPT ![i] = c][j] = v[j]
  OBVIOUS

(* A commit of a copy that is open, or committed already, is understood.   *)
LEMMA CommittedCopy ==
  ASSUME NEW v \in [Indices -> Copy], NEW i \in Indices,
         v[i].state \in {"open", "committed"}, ~v[i].confused
  PROVE  /\ Commit(v, i) \in [Indices -> Copy]
         /\ Commit(v, i)[i].state = "committed"
         /\ ~Commit(v, i)[i].confused
         /\ Commit(v, i)[i].text = v[i].text
         /\ \A j \in Indices : j # i => Commit(v, i)[j] = v[j]
<1> DEFINE c == [v[i] EXCEPT !.state = "committed",
                             !.confused = @ \/ v[i].state \notin {"open", "committed"}]
<1>1. v[i] \in Copy
  OBVIOUS
<1>2. Commit(v, i) = [v EXCEPT ![i] = c]
  BY DEF Commit
<1>3. /\ c \in Copy /\ c.state = "committed" /\ c.text = v[i].text
      /\ c.confused = FALSE
  BY <1>1 DEF Copy
<1> HIDE DEF c
<1> QED
  BY <1>2, <1>3, ChangedCopy

(* An upsert makes the copy what the entry is.                             *)
LEMMA UpsertedCopy ==
  ASSUME NEW v \in [Indices -> Copy], NEW i \in Indices, NEW e \in Entry, ~v[i].confused
  PROVE  /\ Upsert(v, i, e) \in [Indices -> Copy]
         /\ Upsert(v, i, e)[i].state = IF e.isStreaming THEN "open" ELSE "committed"
         /\ ~Upsert(v, i, e)[i].confused
         /\ Upsert(v, i, e)[i].text = e.text
         /\ \A j \in Indices : j # i => Upsert(v, i, e)[j] = v[j]
<1> DEFINE c == [CopyOf(e) EXCEPT !.confused = v[i].confused]
<1>1. v[i] \in Copy /\ v[i].confused = FALSE
  BY DEF Copy
<1>2. Upsert(v, i, e) = [v EXCEPT ![i] = c]
  BY DEF Upsert
<1>3. /\ c \in Copy /\ c.state = IF e.isStreaming THEN "open" ELSE "committed"
      /\ c.text = e.text /\ c.confused = FALSE
  BY <1>1 DEF Copy, CopyOf, Entry
<1> HIDE DEF c
<1> QED
  BY <1>2, <1>3, ChangedCopy

(* A delta for a copy that is open is understood, and ends its text.       *)
LEMMA GrownCopy ==
  ASSUME NEW v \in [Indices -> Copy], NEW i \in Indices, NEW text \in Text,
         v[i].state = "open", ~v[i].confused
  PROVE  /\ Delta(v, i, text) \in [Indices -> Copy]
         /\ Delta(v, i, text)[i].state = "open"
         /\ ~Delta(v, i, text)[i].confused
         /\ Delta(v, i, text)[i].text = v[i].text \o text
         /\ \A j \in Indices : j # i => Delta(v, i, text)[j] = v[j]
<1> DEFINE c == [v[i] EXCEPT !.text = @ \o text, !.confused = @ \/ v[i].state # "open"]
<1>1. v[i] \in Copy
  OBVIOUS
<1>2. Delta(v, i, text) = [v EXCEPT ![i] = c]
  BY DEF Delta
<1>3. v[i].text \in Text
  BY <1>1 DEF Copy
<1>4. v[i].text \o text \in Text
  BY <1>3, ConcatProperties DEF Text
<1>5. /\ c \in Copy /\ c.state = "open" /\ c.text = v[i].text \o text
      /\ c.confused = FALSE
  BY <1>1, <1>4 DEF Copy
<1> HIDE DEF c
<1> QED
  BY <1>2, <1>5, ChangedCopy

(* A skip of an entry that was never announced is understood.              *)
LEMMA SkippedCopy ==
  ASSUME NEW v \in [Indices -> Copy], NEW i \in Indices, v[i] = Unknown
  PROVE  /\ Skip(v, i) \in [Indices -> Copy]
         /\ Skip(v, i)[i].state = "skipped"
         /\ ~Skip(v, i)[i].confused
         /\ \A j \in Indices : j # i => Skip(v, i)[j] = v[j]
<1> DEFINE c == [v[i] EXCEPT !.state = "skipped", !.confused = @ \/ v[i].state # "unknown"]
<1>1. v[i] \in Copy
  OBVIOUS
<1>2. Skip(v, i) = [v EXCEPT ![i] = c]
  BY DEF Skip
<1>3. v[i].state = "unknown" /\ v[i].confused = FALSE
  BY DEF Unknown
<1>4. c \in Copy /\ c.state = "skipped" /\ c.confused = FALSE
  BY <1>1, <1>3 DEF Copy
<1> HIDE DEF c
<1> QED
  BY <1>2, <1>4, ChangedCopy

(* An entry of the last turn in the longer conversation is one in the      *)
(* shorter one.                                                            *)
LEMMA LastTurnBefore ==
  ASSUME NEW es \in Seq(Entry), NEW fs \in Seq(Entry), NEW k \in Nat \ {0},
         Len(es) <= Len(fs),
         \A j \in 1..Len(es) : fs[j].role = es[j].role,
         LastTurn(fs, k)
  PROVE  LastTurn(es, k)
  BY LenProperties DEF LastTurn

(* A step that writes one entry, its copy and what the stream says of it:  *)
(* what holds of every other entry still does.                             *)
LEMMA OneEntry ==
  ASSUME NEW p, NEW w, Good(p, w), NEW v \in Worlds, NEW i \in Indices,
         (Len(v.entries) = Len(w.entries) /\ i <= Len(w.entries))
           \/ (Len(v.entries) = Len(w.entries) + 1 /\ i = Len(w.entries) + 1),
         \A j \in 1..Len(w.entries) : j # i => v.entries[j] = w.entries[j],
         i <= Len(w.entries) => v.entries[i].role = w.entries[i].role,
         \A j \in Indices : j # i => v.view[j] = w.view[j],
         v.stream.open = w.stream.open,
         v.stream.suppressOutput = w.stream.suppressOutput,
         \A role \in Model : v.stream.index[role] = w.stream.index[role]
                               \/ (v.stream.index[role] \in {0, i} /\ w.stream.index[role] \in {0, i}),
         \A j \in Indices : j # i => (j \in v.stream.blankable <=> j \in w.stream.blankable),
         ~v.view[i].confused,
         Fine(p, v, i)
  PROVE  Good(p, v)
<1>1. /\ w \in Worlds /\ Len(w.entries) <= MaxEntries
      /\ \A j \in Indices :
           /\ ~w.view[j].confused
           /\ j <= Len(w.entries) => Fine(p, w, j)
           /\ j > Len(w.entries) => Unused(w, j)
  BY DEF Good
<1>2. /\ w.entries \in Seq(Entry) /\ v.entries \in Seq(Entry)
      /\ Len(w.entries) \in Nat /\ Len(v.entries) \in Nat
  <2>1. w.entries \in Seq(Entry) /\ v.entries \in Seq(Entry)
    BY <1>1 DEF Worlds
  <2> QED
    BY <2>1, LenProperties
<1>3. i \in Nat \ {0} /\ i <= MaxEntries
  BY BoundsAssumption DEF Indices
<1>4. Len(w.entries) <= Len(v.entries) /\ Len(v.entries) <= MaxEntries
  BY <1>1, <1>2, <1>3, BoundsAssumption
<1>5. ASSUME NEW j \in Indices, j # i
      PROVE  IsOpen(v, j) <=> IsOpen(w, j)
  BY <1>5, BoundsAssumption DEF IsOpen, Indices
<1>6. \A j \in 1..Len(w.entries) : v.entries[j].role = w.entries[j].role
  BY <1>2
<1>7. ASSUME NEW j \in Indices, j # i, j <= Len(w.entries)
      PROVE  Fine(p, v, j)
  <2>1. v.entries[j] = w.entries[j] /\ v.view[j] = w.view[j] /\ Fine(p, w, j)
    BY <1>1, <1>2, <1>7, BoundsAssumption DEF Indices
  <2>2. EntryFormed(p, v.entries[j])
    BY <2>1 DEF Fine
  <2>3. Referred(v, j)
    <3>1. Referred(w, j)
      BY <2>1 DEF Fine
    <3>2. \A role \in Model : v.stream.index[role] = j => w.stream.index[role] = j
      BY <1>7, BoundsAssumption DEF Indices
    <3> QED
      BY <3>1, <3>2, <2>1, <1>7 DEF Referred
  <2>4. v.stream.open => Watched(p, v, j)
    BY <2>1, <1>5, <1>7 DEF Fine, Watched
  <2>5. Retractable(v, j)
    <3>1. j \in Nat \ {0}
      BY BoundsAssumption DEF Indices
    <3>2. LastTurn(v.entries, j) => LastTurn(w.entries, j)
      BY <3>1, <1>2, <1>4, <1>6, LastTurnBefore
    <3>3. Retractable(w, j)
      BY <2>1 DEF Fine
    <3> QED
      BY <3>2, <3>3, <2>1, <1>5, <1>7 DEF Retractable
  <2> QED
    BY <2>2, <2>3, <2>4, <2>5 DEF Fine
<1>8. ASSUME NEW j \in Indices, j # i, j > Len(v.entries)
      PROVE  Unused(v, j)
  <2>1. j > Len(w.entries)
    BY <1>2, <1>4, <1>8, BoundsAssumption DEF Indices
  <2> QED
    BY <2>1, <1>1, <1>5, <1>8 DEF Unused
<1>9. ASSUME NEW j \in Indices, j # i, j <= Len(v.entries)
      PROVE  j <= Len(w.entries)
  BY <1>2, <1>3, <1>9, BoundsAssumption DEF Indices
<1>10. i <= Len(v.entries)
  BY <1>2
<1>11. \A j \in Indices :
         /\ ~v.view[j].confused
         /\ j <= Len(v.entries) => Fine(p, v, j)
         /\ j > Len(v.entries) => Unused(v, j)
  <2> SUFFICES ASSUME NEW j \in Indices
               PROVE  /\ ~v.view[j].confused
                      /\ j <= Len(v.entries) => Fine(p, v, j)
                      /\ j > Len(v.entries) => Unused(v, j)
    OBVIOUS
  <2>1. CASE j = i
    BY <2>1, <1>2, <1>3, <1>10
  <2>2. CASE j # i
    BY <2>2, <1>1, <1>7, <1>8, <1>9
  <2> QED
    BY <2>1, <2>2
<1> QED
  BY <1>4, <1>11 DEF Good

(***************************************************************************)
(* The writers, one at a time.                                             *)
(***************************************************************************)

(* The parts of a world of entries, copies and stream.                     *)
LEMMA WorldParts ==
  ASSUME NEW w \in Worlds
  PROVE  /\ w.entries \in Seq(Entry) /\ Len(w.entries) \in Nat
         /\ w.view \in [Indices -> Copy]
         /\ w.stream \in Streams
         /\ w.stream.index \in [Model -> {0} \union Indices]
         /\ w.stream.suppressOutput \in BOOLEAN /\ w.stream.open \in BOOLEAN
         /\ w.stream.blankable \in SUBSET Indices
         /\ w.stream.insideThinking \in BOOLEAN /\ w.stream.held \in Text
<1>1. w.entries \in Seq(Entry) /\ w.view \in [Indices -> Copy] /\ w.stream \in Streams
  BY DEF Worlds
<1>2. Len(w.entries) \in Nat
  BY <1>1, LenProperties
<1> QED
  BY <1>1, <1>2 DEF Streams


(* A world written to, and what a frame makes of it.                       *)
LEMMA WrittenParts ==
  ASSUME NEW w \in Worlds, NEW es \in Seq(Entry), NEW s \in Streams, s.open = w.stream.open,
         NEW view1, w.stream.open => view1 \in [Indices -> Copy]
  PROVE  /\ Write(w, es, s) \in Worlds
         /\ Write(w, es, s).entries = es
         /\ Write(w, es, s).stream = s
         /\ Write(w, es, s).view = w.view
         /\ Send(Write(w, es, s), view1) \in Worlds
         /\ Send(Write(w, es, s), view1).entries = es
         /\ Send(Write(w, es, s), view1).stream = s
         /\ Send(Write(w, es, s), view1).view = IF s.open THEN view1 ELSE w.view
<1>1. w.view \in [Indices -> Copy] /\ w.stream \in Streams
  BY DEF Worlds
<1> DEFINE u == Write(w, es, s)
<1>2. u = [entries |-> es, view |-> w.view, stream |-> s]
  BY DEF Write, Worlds
<1>3. u = Write(w, es, s)
  OBVIOUS
<1> HIDE DEF u
<1>4. u \in Worlds /\ u.entries = es /\ u.stream = s /\ u.view = w.view
  BY <1>1, <1>2 DEF Worlds
<1>5. CASE s.open
  <2>1. Send(u, view1) = [entries |-> es, view |-> view1, stream |-> s]
    BY <1>2, <1>5 DEF Send
  <2> QED
    BY <2>1, <1>3, <1>4, <1>5 DEF Worlds
<1>6. CASE ~s.open
  BY <1>3, <1>4, <1>6 DEF Send
<1> QED
  BY <1>5, <1>6

Connected(w) == w.stream.open

(* A frame to a client that is there arrives.                              *)
LEMMA SentParts ==
  ASSUME NEW w \in Worlds, NEW es \in Seq(Entry), NEW s \in Streams,
         NEW after \in [Indices -> Copy],
         Connected(w), s.open = w.stream.open
  PROVE  /\ Send(Write(w, es, s), after) \in Worlds
         /\ Send(Write(w, es, s), after).entries = es
         /\ Send(Write(w, es, s), after).stream = s
         /\ Send(Write(w, es, s), after).view = after
<1>1. /\ Send(Write(w, es, s), after) \in Worlds
      /\ Send(Write(w, es, s), after).entries = es
      /\ Send(Write(w, es, s), after).stream = s
      /\ Send(Write(w, es, s), after).view = IF s.open THEN after ELSE w.view
  BY WrittenParts
<1>2. s.open
  BY DEF Connected
<1> QED
  BY <1>1, <1>2

(* The entry at i is closed, as the policy wants it, and no other changed. *)
Closes(p, es, fs, i) ==
    /\ fs \in Seq(Entry) /\ Len(fs) = Len(es)
    /\ \A j \in 1..Len(es) : j # i => fs[j] = es[j]
    /\ fs[i].role = es[i].role /\ fs[i].suppressed = es[i].suppressed
    /\ ~fs[i].isStreaming /\ EntryFormed(p, fs[i])
    /\ Lossless(p) => Replayed(fs[i]) = Replayed(es[i])

(* The client's copy of it is committed, with the text it had.             *)
Settles(p, before, after, i) ==
    /\ after \in [Indices -> Copy]
    /\ \A j \in Indices : j # i => after[j] = before[j]
    /\ after[i].state = "committed" /\ ~after[i].confused
    /\ Lossless(p) => after[i].text = before[i].text

(* The stream lets go of the entry it has open for a role.                 *)
LetsGo(w, role, fs, after, v) ==
    /\ v \in Worlds
    /\ v.entries = fs
    /\ v.view = IF w.stream.open /\ ~w.stream.suppressOutput THEN after ELSE w.view
    /\ v.stream.index = [w.stream.index EXCEPT ![role] = 0]
    /\ v.stream.blankable = IF w.stream.suppressOutput THEN w.stream.blankable
                            ELSE w.stream.blankable \union {w.stream.index[role]}
    /\ v.stream.suppressOutput = w.stream.suppressOutput
    /\ v.stream.open = w.stream.open
    /\ v.stream.held = w.stream.held

(* What CommitAndClear makes of a stream that has an entry of the role.    *)
LEMMA CommitParts ==
  ASSUME NEW w \in Worlds, NEW role \in Model, w.stream.index[role] # 0,
         CommitEntry(w.entries, w.stream.index[role]) \in Seq(Entry),
         ~w.stream.suppressOutput /\ w.stream.open =>
             Commit(w.view, w.stream.index[role]) \in [Indices -> Copy]
  PROVE  LetsGo(w, role, CommitEntry(w.entries, w.stream.index[role]),
                Commit(w.view, w.stream.index[role]), CommitAndClear(w, role))
<1> DEFINE i == w.stream.index[role]
           v == CommitAndClear(w, role)
           s == [w.stream EXCEPT !.index[role] = 0]
           t == [s EXCEPT !.blankable = @ \union {i}]
           es == CommitEntry(w.entries, i)
           after == Commit(w.view, i)
<1>0. /\ w.stream \in Streams
      /\ w.stream.index \in [Model -> {0} \union Indices]
      /\ w.stream.blankable \in SUBSET Indices
      /\ i \in Indices
      /\ w.view \in [Indices -> Copy]
  BY WorldParts
<1>1. /\ s \in Streams /\ s.index = [w.stream.index EXCEPT ![role] = 0]
      /\ s.blankable = w.stream.blankable
      /\ s.suppressOutput = w.stream.suppressOutput /\ s.open = w.stream.open
      /\ s.held = w.stream.held
  BY <1>0 DEF Streams
<1>2. v = IF w.stream.suppressOutput THEN Write(w, es, s) ELSE Send(Write(w, es, t), after)
  BY DEF CommitAndClear
<1>3. es \in Seq(Entry) /\ (~w.stream.suppressOutput /\ w.stream.open => after \in [Indices -> Copy])
  OBVIOUS
<1>4. SUFFICES LetsGo(w, role, es, after, v)
  OBVIOUS
<1>5. i = w.stream.index[role]
  OBVIOUS
<1> HIDE DEF s, es, after, v, i
<1>6. /\ t \in Streams /\ t.index = [w.stream.index EXCEPT ![role] = 0]
      /\ t.blankable = w.stream.blankable \union {i}
      /\ t.suppressOutput = w.stream.suppressOutput /\ t.open = w.stream.open
      /\ t.held = w.stream.held
  BY <1>0, <1>1 DEF Streams
<1> HIDE DEF t
<1>7. CASE w.stream.suppressOutput
  <2>1. /\ Write(w, es, s) \in Worlds
        /\ Write(w, es, s).entries = es
        /\ Write(w, es, s).stream = s
        /\ Write(w, es, s).view = w.view
    BY <1>0, <1>1, <1>3, WrittenParts
  <2> QED
    BY <1>1, <1>2, <1>7, <2>1 DEF LetsGo
<1>8. CASE ~w.stream.suppressOutput
  <2>1. /\ Send(Write(w, es, t), after) \in Worlds
        /\ Send(Write(w, es, t), after).entries = es
        /\ Send(Write(w, es, t), after).stream = t
        /\ Send(Write(w, es, t), after).view = IF t.open THEN after ELSE w.view
    BY <1>3, <1>6, <1>8, WrittenParts
  <2> QED
    BY <1>2, <1>5, <1>6, <1>8, <2>1 DEF LetsGo
<1> QED
  BY <1>7, <1>8

(* The entry a stream has open for a role.                                 *)
LEMMA OpenEntry ==
  ASSUME NEW p, NEW w, Good(p, w), NEW role \in Model, w.stream.index[role] # 0,
         NEW i, i = w.stream.index[role]
  PROVE  /\ w \in Worlds
         /\ i \in Indices /\ i \in 1..Len(w.entries)
         /\ w.entries[i] \in Entry
         /\ w.entries[i].role = role
         /\ w.entries[i].suppressed = w.stream.suppressOutput
         /\ EntryFormed(p, w.entries[i])
         /\ ~w.view[i].confused
         /\ w.stream.open =>
              /\ Lossless(p) => Shown(w.view[i]) = Replayed(w.entries[i])
              /\ IF w.stream.suppressOutput THEN w.view[i].state \in {"committed", "skipped"}
                 ELSE w.view[i].state = "open"
         /\ Retractable(w, i)
         /\ \A other \in Model : other # role => w.stream.index[other] # i
<1>1. /\ w \in Worlds
      /\ \A j \in Indices :
           /\ ~w.view[j].confused
           /\ j <= Len(w.entries) => Fine(p, w, j)
           /\ j > Len(w.entries) => Unused(w, j)
  BY DEF Good
<1>2. /\ w.entries \in Seq(Entry) /\ Len(w.entries) \in Nat
      /\ w.stream.index \in [Model -> {0} \union Indices]
      /\ w.stream.suppressOutput \in BOOLEAN
  BY <1>1, WorldParts
<1>3. i \in Indices
  BY <1>2
<1>4. IsOpen(w, i)
  BY DEF IsOpen
<1>5. i \in 1..Len(w.entries)
  BY <1>1, <1>2, <1>3, <1>4, BoundsAssumption DEF Unused, Indices
<1>6. w.entries[i] \in Entry
  BY <1>2, <1>5, EntryAt
<1>7. Fine(p, w, i) /\ ~w.view[i].confused
  BY <1>1, <1>2, <1>3, <1>5
<1>8. \A r \in Model : w.stream.index[r] = i => /\ w.entries[i].role = r
                                                /\ w.entries[i].suppressed = w.stream.suppressOutput
  BY <1>7 DEF Fine, Referred
<1>9. w.stream.open => Watched(p, w, i)
  BY <1>7 DEF Fine
<1>10. w.stream.open =>
         /\ Lossless(p) => Shown(w.view[i]) = Replayed(w.entries[i])
         /\ IF w.stream.suppressOutput THEN w.view[i].state \in {"committed", "skipped"}
            ELSE w.view[i].state = "open"
  BY <1>4, <1>9 DEF Watched
<1>11. EntryFormed(p, w.entries[i]) /\ Retractable(w, i)
  BY <1>7 DEF Fine
<1> QED
  BY <1>1, <1>3, <1>5, <1>6, <1>7, <1>8, <1>10, <1>11

(* Who closes an entry of the model leaves the session fine, whatever the  *)
(* frames were that told the client.                                       *)
LEMMA ClosedEntry ==
  ASSUME policy \in Policy, NEW w, Good(policy, w),
         NEW role \in Model, w.stream.index[role] # 0,
         NEW fs, NEW after, NEW v,
         LetsGo(w, role, fs, after, v),
         Closes(policy, w.entries, fs, w.stream.index[role]),
         w.stream.open /\ ~w.stream.suppressOutput =>
             Settles(policy, w.view, after, w.stream.index[role])
  PROVE  Good(policy, v)
<1> DEFINE i == w.stream.index[role]
<1>1. /\ w \in Worlds
      /\ i \in Indices /\ i \in 1..Len(w.entries)
      /\ w.entries[i] \in Entry
      /\ w.entries[i].role = role
      /\ w.entries[i].suppressed = w.stream.suppressOutput
      /\ ~w.view[i].confused
      /\ w.stream.open =>
              /\ Lossless(policy) => Shown(w.view[i]) = Replayed(w.entries[i])
              /\ IF w.stream.suppressOutput THEN w.view[i].state \in {"committed", "skipped"}
                 ELSE w.view[i].state = "open"
      /\ Retractable(w, i)
      /\ \A other \in Model : other # role => w.stream.index[other] # i
  BY OpenEntry
<1>2. Closes(policy, w.entries, fs, i) /\ (w.stream.open /\ ~w.stream.suppressOutput => Settles(policy, w.view, after, i))
  OBVIOUS
<1>3. i = w.stream.index[role] /\ i # 0
  OBVIOUS
<1> HIDE DEF i
<1>4. /\ w.entries \in Seq(Entry) /\ Len(w.entries) \in Nat
      /\ w.stream.index \in [Model -> {0} \union Indices]
      /\ w.stream.suppressOutput \in BOOLEAN /\ w.stream.open \in BOOLEAN
  BY <1>1, WorldParts
<1>5. 0 \notin Indices
  BY BoundsAssumption DEF Indices
<1>6. /\ v \in Worlds
      /\ \A r \in Model : v.stream.index[r] = (IF r = role THEN 0 ELSE w.stream.index[r])
      /\ v.stream.suppressOutput = w.stream.suppressOutput
      /\ v.stream.open = w.stream.open
      /\ v.stream.blankable = IF w.stream.suppressOutput THEN w.stream.blankable
                              ELSE w.stream.blankable \union {i}
  BY <1>3, <1>4 DEF LetsGo
<1>7. /\ v.entries \in Seq(Entry) /\ Len(v.entries) = Len(w.entries)
      /\ \A j \in 1..Len(w.entries) : j # i => v.entries[j] = w.entries[j]
      /\ v.entries[i].role = w.entries[i].role /\ v.entries[i].suppressed = w.entries[i].suppressed
      /\ ~v.entries[i].isStreaming /\ EntryFormed(policy, v.entries[i])
      /\ Lossless(policy) => Replayed(v.entries[i]) = Replayed(w.entries[i])
  BY <1>2 DEF LetsGo, Closes
<1>8. /\ \A j \in Indices : j # i => v.view[j] = w.view[j]
      /\ ~v.view[i].confused
      /\ IF w.stream.open /\ ~w.stream.suppressOutput
         THEN /\ v.view[i].state = "committed"
              /\ Lossless(policy) => v.view[i].text = w.view[i].text
         ELSE v.view[i] = w.view[i]
  BY <1>1, <1>2 DEF LetsGo, Settles
<1>9. ~IsOpen(v, i)
  BY <1>1, <1>3, <1>6 DEF IsOpen
<1>10. Referred(v, i)
  BY <1>1, <1>7, <1>9 DEF Referred, IsOpen
<1>11. v.stream.open => Watched(policy, v, i)
  BY <1>1, <1>6, <1>7, <1>8, <1>9 DEF Watched, Shown
<1>12. Retractable(v, i)
  <2>1. LastTurn(v.entries, i) => LastTurn(w.entries, i)
    <3>1. i \in Nat \ {0} /\ \A j \in 1..Len(w.entries) : v.entries[j].role = w.entries[j].role
      BY <1>1, <1>7
    <3>2. Len(w.entries) <= Len(v.entries)
      BY <1>4, <1>7
    <3> QED
      BY <1>4, <1>7, <3>1, <3>2, LastTurnBefore
  <2>2. CASE w.stream.suppressOutput
    BY <1>1, <1>6, <1>7, <1>8, <2>1, <2>2 DEF Retractable
  <2>3. CASE ~w.stream.suppressOutput
    BY <1>6, <2>3 DEF Retractable
  <2> QED
    BY <2>2, <2>3
<1>13. Fine(policy, v, i)
  BY <1>7, <1>10, <1>11, <1>12 DEF Fine
<1>14. \A r \in Model : v.stream.index[r] = w.stream.index[r]
                          \/ (v.stream.index[r] \in {0, i} /\ w.stream.index[r] \in {0, i})
  BY <1>3, <1>6
<1>15. \A j \in Indices : j # i => (j \in v.stream.blankable <=> j \in w.stream.blankable)
  BY <1>6
<1>16. i <= Len(w.entries)
  BY <1>1
<1> QED
  BY <1>1, <1>6, <1>7, <1>8, <1>13, <1>14, <1>15, <1>16, OneEntry

(* commitAndClear.                                                         *)
LEMMA CommitAndClearKeeps ==
  ASSUME policy \in Policy, NEW w, Good(policy, w), NEW role \in Model
  PROVE  /\ Good(policy, CommitAndClear(w, role))
         /\ Len(CommitAndClear(w, role).entries) = Len(w.entries)
         /\ CommitAndClear(w, role).stream.index = [w.stream.index EXCEPT ![role] = 0]
         /\ CommitAndClear(w, role).stream.suppressOutput = w.stream.suppressOutput
         /\ CommitAndClear(w, role).stream.open = w.stream.open
         /\ CommitAndClear(w, role).stream.held = w.stream.held
<1> DEFINE i == w.stream.index[role]
           v == CommitAndClear(w, role)
<1>1. CASE i = 0
  <2>1. v = w
    BY <1>1 DEF CommitAndClear
  <2>2. w.stream.index \in [Model -> {0} \union Indices]
    BY WorldParts DEF Good
  <2> QED
    BY <1>1, <2>1, <2>2
<1>2. CASE i # 0
  <2>1. /\ w \in Worlds
        /\ i \in Indices /\ i \in 1..Len(w.entries)
        /\ EntryFormed(policy, w.entries[i])
        /\ ~w.view[i].confused
        /\ w.stream.open /\ ~w.stream.suppressOutput => w.view[i].state = "open"
    BY <1>2, OpenEntry
  <2>2. w.entries \in Seq(Entry) /\ w.view \in [Indices -> Copy]
    BY <2>1, WorldParts
  <2>3. Closes(policy, w.entries, CommitEntry(w.entries, i), i)
    <3> HIDE DEF i
    <3>1. /\ w.entries[i].cleared => w.entries[i].text = <<>>
          /\ Lossless(policy) => ~w.entries[i].cleared
      BY <2>1 DEF EntryFormed
    <3> QED
      BY <2>1, <2>2, <3>1, CommittedEntry DEF Closes
  <2>4. w.stream.open /\ ~w.stream.suppressOutput => Settles(policy, w.view, Commit(w.view, i), i)
    <3> HIDE DEF i
    <3> QED
      BY <2>1, <2>2, CommittedCopy DEF Settles
  <2>5. LetsGo(w, role, CommitEntry(w.entries, i), Commit(w.view, i), v)
    BY <1>2, <2>1, <2>3, <2>4, CommitParts DEF Closes, Settles
  <2>6. Good(policy, v)
    BY <1>2, <2>3, <2>4, <2>5, ClosedEntry
  <2> QED
    BY <2>3, <2>5, <2>6 DEF LetsGo, Closes
<1> QED
  BY <1>1, <1>2


(* closeCutOff: an entry cut short is sent again, marked, before it is     *)
(* committed.                                                              *)
LEMMA CloseCutOffKeeps ==
  ASSUME policy \in Policy, NEW w, Good(policy, w), NEW role \in Model
  PROVE  /\ Good(policy, CloseCutOff(w, role))
         /\ Len(CloseCutOff(w, role).entries) = Len(w.entries)
         /\ CloseCutOff(w, role).stream.index = [w.stream.index EXCEPT ![role] = 0]
         /\ CloseCutOff(w, role).stream.held = w.stream.held
<1> DEFINE i == w.stream.index[role]
           v == CloseCutOff(w, role)
<1>1. CASE i = 0
  <2>1. v = w
    BY <1>1 DEF CloseCutOff
  <2>2. w.stream.index \in [Model -> {0} \union Indices]
    BY WorldParts DEF Good
  <2> QED
    BY <1>1, <2>1, <2>2
<1>2. CASE i # 0
  <2> DEFINE cut == [w.entries[i] EXCEPT !.truncated = TRUE]
             es == [w.entries EXCEPT ![i] = cut]
             marked == Write(w, es, w.stream)
             sent == Upsert(w.view, i, cut)
             u == IF w.stream.suppressOutput THEN marked ELSE Send(marked, sent)
             fs == CommitEntry(es, i)
             after == Commit(u.view, i)
  <2>1. /\ w \in Worlds
        /\ i \in Indices /\ i \in 1..Len(w.entries)
        /\ w.entries[i] \in Entry
        /\ w.entries[i].suppressed = w.stream.suppressOutput
        /\ EntryFormed(policy, w.entries[i])
        /\ ~w.view[i].confused
        /\ w.stream.open =>
              /\ Lossless(policy) => Shown(w.view[i]) = Replayed(w.entries[i])
              /\ IF w.stream.suppressOutput THEN w.view[i].state \in {"committed", "skipped"}
                 ELSE w.view[i].state = "open"
    BY <1>2, OpenEntry
  <2>2. /\ w.entries \in Seq(Entry) /\ w.view \in [Indices -> Copy] /\ w.stream \in Streams
        /\ w.stream.suppressOutput \in BOOLEAN /\ w.stream.open \in BOOLEAN
    BY <2>1, WorldParts
  <2>3. /\ cut \in Entry /\ cut.role = w.entries[i].role /\ cut.suppressed = w.entries[i].suppressed
        /\ cut.text = w.entries[i].text /\ cut.cleared = w.entries[i].cleared
        /\ cut.isStreaming = w.entries[i].isStreaming /\ cut.redacted = w.entries[i].redacted
    <3>1. w.entries[i] \in Entry
      BY <2>1
    <3> HIDE DEF i
    <3> QED
      BY <3>1 DEF Entry
  <2>4. v = CommitAndClear(u, role)
    <3>1. [w.entries EXCEPT ![i].truncated = TRUE] = es
      OBVIOUS
    <3>2. es[i] = cut /\ marked.entries = es
      <4>1. /\ i \in 1..Len(w.entries) /\ w.entries \in Seq(Entry) /\ cut \in Entry
        BY <2>1, <2>2, <2>3
      <4> HIDE DEF cut, i
      <4> QED
        BY <4>1, ChangedEntry DEF Write
    <3> QED
      BY <1>2, <3>1, <3>2 DEF CloseCutOff
  <2>5. i = w.stream.index[role]
    OBVIOUS
  <2>6. cut.isStreaming = w.entries[i].isStreaming
    BY <2>3
  <2> HIDE DEF cut, i, v
  <2>7. /\ es \in Seq(Entry) /\ Len(es) = Len(w.entries) /\ es[i] = cut
        /\ \A j \in 1..Len(w.entries) : j # i => es[j] = w.entries[j]
    BY <2>1, <2>2, <2>3, ChangedEntry
  <2> HIDE DEF es
  <2>8. Closes(policy, w.entries, fs, i)
    <3>1. /\ cut.cleared => cut.text = <<>>
          /\ Lossless(policy) => ~cut.cleared
          /\ EntryFormed(policy, cut)
      BY <2>1, <2>3 DEF EntryFormed
    <3>2. Replayed(cut) = Replayed(w.entries[i])
      BY <2>3 DEF Replayed
    <3>3. i \in 1..Len(es)
      BY <2>1, <2>7
    <3>4. /\ fs \in Seq(Entry) /\ Len(fs) = Len(es)
          /\ \A j \in 1..Len(es) : j # i => fs[j] = es[j]
          /\ fs[i].role = es[i].role /\ fs[i].suppressed = es[i].suppressed
          /\ ~fs[i].isStreaming /\ EntryFormed(policy, fs[i])
          /\ Lossless(policy) => Replayed(fs[i]) = Replayed(es[i])
      BY <2>7, <3>1, <3>3, CommittedEntry
    <3> HIDE DEF fs
    <3> QED
      BY <2>3, <2>7, <3>2, <3>4 DEF Closes
  <2>9. /\ u \in Worlds /\ u.entries = es /\ u.stream = w.stream
        /\ u.view = IF w.stream.open /\ ~w.stream.suppressOutput THEN sent ELSE w.view
    <3>1. ~w.stream.suppressOutput => sent \in [Indices -> Copy]
      BY <2>1, <2>2, <2>3, UpsertedCopy
    <3> HIDE DEF sent
    <3>2. ~w.stream.suppressOutput =>
            /\ Send(marked, sent) \in Worlds
            /\ Send(marked, sent).entries = es
            /\ Send(marked, sent).stream = w.stream
            /\ Send(marked, sent).view = IF w.stream.open THEN sent ELSE w.view
      BY <2>1, <2>2, <2>7, <3>1, WrittenParts
    <3>3. /\ marked \in Worlds /\ marked.entries = es
          /\ marked.stream = w.stream /\ marked.view = w.view
      BY <2>1, <2>2, <2>7, WrittenParts
    <3> HIDE DEF marked
    <3> QED
      BY <2>2, <3>2, <3>3
  <2> HIDE DEF u
  <2>10. w.stream.open /\ ~w.stream.suppressOutput => Settles(policy, w.view, after, i)
    <3> SUFFICES ASSUME w.stream.open, ~w.stream.suppressOutput
                 PROVE  Settles(policy, w.view, after, i)
      OBVIOUS
    <3>1. u.view = sent
      BY <2>9
    <3>2. /\ sent \in [Indices -> Copy]
          /\ sent[i].state \in {"open", "committed"}
          /\ ~sent[i].confused
          /\ sent[i].text = cut.text
          /\ \A j \in Indices : j # i => sent[j] = w.view[j]
      BY <2>1, <2>2, <2>3, UpsertedCopy
    <3> HIDE DEF sent
    <3>3. /\ after \in [Indices -> Copy]
          /\ after[i].state = "committed" /\ ~after[i].confused
          /\ after[i].text = sent[i].text
          /\ \A j \in Indices : j # i => after[j] = sent[j]
      BY <2>1, <3>1, <3>2, CommittedCopy
    <3>4. Lossless(policy) => w.view[i].text = cut.text
      BY <2>1, <2>3 DEF Shown, Replayed, EntryFormed
    <3> HIDE DEF after
    <3> QED
      BY <3>2, <3>3, <3>4 DEF Settles
  <2>11. LetsGo(u, role, fs, after, v)
    <3>1. /\ u \in Worlds /\ u.stream.index[role] = i /\ i # 0
          /\ CommitEntry(u.entries, i) = fs
          /\ fs \in Seq(Entry)
          /\ ~u.stream.suppressOutput /\ u.stream.open => after \in [Indices -> Copy]
      BY <1>2, <2>5, <2>8, <2>9, <2>10 DEF Closes, Settles
    <3> QED
      BY <2>4, <3>1, CommitParts
  <2> HIDE DEF fs, after, sent
  <2>12. LetsGo(w, role, fs, after, v)
    BY <2>9, <2>11 DEF LetsGo
  <2>13. Good(policy, v)
    BY <1>2, <2>5, <2>8, <2>10, <2>12, ClosedEntry
  <2>14. v = CloseCutOff(w, role)
    BY DEF v
  <2> QED
    BY <2>8, <2>12, <2>13, <2>14 DEF LetsGo, Closes
<1> QED
  BY <1>1, <1>2

(* The place of the next entry.                                            *)
LEMMA NextPlace ==
  ASSUME NEW p, NEW w, Good(p, w), Len(w.entries) < MaxEntries
  PROVE  /\ Len(w.entries) + 1 \in Indices
         /\ w.view[Len(w.entries) + 1] = Unknown
         /\ Len(w.entries) + 1 \notin w.stream.blankable
         /\ \A role \in Model : w.stream.index[role] # Len(w.entries) + 1
<1>1. w.entries \in Seq(Entry)
  BY WorldParts DEF Good
<1>2. Len(w.entries) \in Nat /\ MaxEntries \in Nat
  BY <1>1, LenProperties, BoundsAssumption
<1>3. Len(w.entries) + 1 \in Indices /\ Len(w.entries) + 1 > Len(w.entries)
  BY <1>2 DEF Indices
<1>4. Unused(w, Len(w.entries) + 1)
  BY <1>3 DEF Good
<1> QED
  BY <1>3, <1>4 DEF Unused, IsOpen

(* A new entry of the model: it is the stream's, and announced or skipped. *)
Opens(p, w, role, v) ==
    LET i == Len(w.entries) + 1 IN
    /\ v \in Worlds
    /\ Len(v.entries) = i
    /\ \A j \in 1..Len(w.entries) : v.entries[j] = w.entries[j]
    /\ v.entries[i].role = role /\ v.entries[i].suppressed = w.stream.suppressOutput
    /\ EntryFormed(p, v.entries[i]) /\ Replayed(v.entries[i]) = <<>>
    /\ \A j \in Indices : j # i => v.view[j] = w.view[j]
    /\ ~v.view[i].confused
    /\ w.stream.open => /\ v.view[i].state = IF w.stream.suppressOutput THEN "skipped" ELSE "open"
                        /\ Shown(v.view[i]) = <<>>
    /\ v.stream = [w.stream EXCEPT !.index[role] = i]

(* initSegment and the first frame of the entry do that.                   *)
LEMMA OpenSegmentParts ==
  ASSUME policy \in Policy, NEW w, Good(policy, w), NEW role \in Model,
         Len(w.entries) < MaxEntries, w.stream.index[role] = 0
  PROVE  Opens(policy, w, role, OpenSegment(w, role))
<1> DEFINE i == Len(w.entries) + 1
           e == Opened(role)
           es == AppendEntry(w.entries, e)
           fs == [es EXCEPT ![i] = Marked(@)]
           s == [w.stream EXCEPT !.index[role] = i]
           v == OpenSegment(w, role)
<1>1. /\ w \in Worlds
      /\ w.entries \in Seq(Entry) /\ Len(w.entries) \in Nat
      /\ w.view \in [Indices -> Copy]
      /\ w.stream \in Streams
      /\ w.stream.index \in [Model -> {0} \union Indices]
      /\ w.stream.suppressOutput \in BOOLEAN /\ w.stream.open \in BOOLEAN
  BY WorldParts DEF Good
<1>2. /\ i \in Indices /\ w.view[i] = Unknown
  BY NextPlace
<1>3. /\ s \in Streams /\ s.open = w.stream.open
  <2> HIDE DEF i
  <2> QED
    BY <1>1, <1>2 DEF Streams
<1>4. v = IF w.stream.suppressOutput THEN Send(Write(w, fs, s), Skip(w.view, i))
          ELSE Send(Write(w, es, s), Upsert(w.view, i, e))
  BY DEF OpenSegment, MarkSuppressed
<1>5. /\ e \in Entry /\ ~e.cleared /\ e.role = role /\ e.isStreaming /\ e.text = <<>> /\ ~e.suppressed
  <2>1. <<>> \in Text
    BY EmptySeq DEF Text
  <2> QED
    BY <2>1 DEF Opened, Entry, Roles, Model
<1>6. ~w.view[i].confused
  BY <1>2 DEF Unknown
<1>7. s = [w.stream EXCEPT !.index[role] = i]
  OBVIOUS
<1>8. i = Len(w.entries) + 1
  OBVIOUS
<1> SUFFICES Opens(policy, w, role, v)
  BY DEF v
<1> HIDE DEF e, s, v
<1>9. /\ es \in Seq(Entry) /\ Len(es) = i
      /\ \A j \in 1..Len(w.entries) : es[j] = w.entries[j]
      /\ es[i] = e
  BY <1>1, <1>5, AppendedEntry
<1> HIDE DEF es, i
<1>10. /\ Marked(e) \in Entry /\ Marked(e).role = role /\ Marked(e).suppressed /\ Marked(e).isStreaming
       /\ ~Marked(e).cleared
  BY <1>5 DEF Marked, Entry
<1>11. /\ fs \in Seq(Entry) /\ Len(fs) = i
       /\ \A j \in 1..Len(w.entries) : fs[j] = w.entries[j]
       /\ fs[i] = Marked(e)
  <2>1. fs = [es EXCEPT ![i] = Marked(e)]
    BY <1>9
  <2>2. i \in 1..Len(es) /\ \A j \in 1..Len(w.entries) : j \in 1..Len(es) /\ j # i
    BY <1>1, <1>8, <1>9
  <2> HIDE DEF fs
  <2> DEFINE m == Marked(e)
  <2>3. m \in Entry /\ m = Marked(e)
    BY <1>10
  <2> HIDE DEF m
  <2>4. /\ [es EXCEPT ![i] = m] \in Seq(Entry)
        /\ Len([es EXCEPT ![i] = m]) = Len(es)
        /\ [es EXCEPT ![i] = m][i] = m
        /\ \A j \in 1..Len(es) : j # i => [es EXCEPT ![i] = m][j] = es[j]
    BY <1>9, <2>2, <2>3, ChangedEntry
  <2> QED
    BY <1>9, <2>1, <2>2, <2>3, <2>4
<1> HIDE DEF fs
<1>12. EntryFormed(policy, e) /\ EntryFormed(policy, Marked(e))
  BY <1>5, <1>10 DEF EntryFormed
<1>13. Replayed(e) = <<>> /\ Replayed(Marked(e)) = <<>>
  BY <1>5, <1>10 DEF Replayed
<1>14. CASE w.stream.suppressOutput
  <2> DEFINE after == Skip(w.view, i)
  <2>1. /\ after \in [Indices -> Copy]
        /\ after[i].state = "skipped"
        /\ ~after[i].confused
        /\ \A j \in Indices : j # i => after[j] = w.view[j]
    BY <1>1, <1>2, SkippedCopy
  <2>2. v = Send(Write(w, fs, s), after)
    BY <1>4, <1>14
  <2> HIDE DEF after
  <2>3. /\ v \in Worlds /\ v.entries = fs /\ v.stream = s
        /\ v.view = IF s.open THEN after ELSE w.view
    BY <1>1, <1>3, <1>11, <2>1, <2>2, WrittenParts
  <2>4. Marked(e).suppressed = w.stream.suppressOutput
    BY <1>1, <1>10, <1>14 DEF Entry
  <2>5. /\ \A j \in Indices : j # i => v.view[j] = w.view[j]
        /\ ~v.view[i].confused
        /\ w.stream.open => v.view = after
    BY <1>3, <1>6, <2>1, <2>3
  <2> QED
    <3>1. /\ Len(v.entries) = i
          /\ \A j \in 1..Len(w.entries) : v.entries[j] = w.entries[j]
          /\ v.entries[i].role = role /\ v.entries[i].suppressed = w.stream.suppressOutput
          /\ EntryFormed(policy, v.entries[i]) /\ Replayed(v.entries[i]) = <<>>
      BY <1>10, <1>11, <1>12, <1>13, <2>3, <2>4
    <3>2. w.stream.open => v.view[i].state = "skipped" /\ Shown(v.view[i]) = <<>>
      BY <2>1, <2>5 DEF Shown
    <3> QED
      BY <1>7, <1>8, <1>14, <2>3, <2>5, <3>1, <3>2 DEF Opens
<1>15. CASE ~w.stream.suppressOutput
  <2> DEFINE after == Upsert(w.view, i, e)
  <2>1. /\ after \in [Indices -> Copy]
        /\ after[i].state = "open"
        /\ ~after[i].confused
        /\ after[i].text = <<>>
        /\ \A j \in Indices : j # i => after[j] = w.view[j]
    BY <1>1, <1>2, <1>5, <1>6, UpsertedCopy
  <2>2. v = Send(Write(w, es, s), after)
    BY <1>4, <1>15
  <2> HIDE DEF after
  <2>3. /\ v \in Worlds /\ v.entries = es /\ v.stream = s
        /\ v.view = IF s.open THEN after ELSE w.view
    BY <1>1, <1>3, <1>9, <2>1, <2>2, WrittenParts
  <2>4. e.suppressed = w.stream.suppressOutput
    BY <1>1, <1>5, <1>15 DEF Entry
  <2>5. /\ \A j \in Indices : j # i => v.view[j] = w.view[j]
        /\ ~v.view[i].confused
        /\ w.stream.open => v.view = after
    BY <1>3, <1>6, <2>1, <2>3
  <2> QED
    BY <1>3, <1>5, <1>6, <1>7, <1>8, <1>9, <1>12, <1>13, <1>15, <2>1, <2>3, <2>4, <2>5 DEF Opens, Shown
<1> QED
  BY <1>14, <1>15

(* Such an entry leaves the session fine.                                  *)
LEMMA OpenedEntry ==
  ASSUME policy \in Policy, NEW w, Good(policy, w), NEW role \in Model,
         Len(w.entries) < MaxEntries, w.stream.index[role] = 0,
         NEW v, Opens(policy, w, role, v)
  PROVE  /\ Good(policy, v)
         /\ v.stream.index[role] # 0
         /\ Len(v.entries) = Len(w.entries) + 1
         /\ v.stream.suppressOutput = w.stream.suppressOutput
         /\ v.stream.open = w.stream.open
         /\ v.stream.held = w.stream.held
<1> DEFINE i == Len(w.entries) + 1
<1>1. /\ w \in Worlds
      /\ w.entries \in Seq(Entry) /\ Len(w.entries) \in Nat
      /\ w.stream \in Streams
      /\ w.stream.index \in [Model -> {0} \union Indices]
      /\ w.stream.suppressOutput \in BOOLEAN /\ w.stream.open \in BOOLEAN
  BY WorldParts DEF Good
<1>2. /\ i \in Indices /\ i \notin w.stream.blankable
      /\ \A r \in Model : w.stream.index[r] # i
  BY NextPlace
<1>3. /\ v \in Worlds
      /\ Len(v.entries) = i
      /\ \A j \in 1..Len(w.entries) : v.entries[j] = w.entries[j]
      /\ v.entries[i].role = role /\ v.entries[i].suppressed = w.stream.suppressOutput
      /\ EntryFormed(policy, v.entries[i]) /\ Replayed(v.entries[i]) = <<>>
      /\ \A j \in Indices : j # i => v.view[j] = w.view[j]
      /\ ~v.view[i].confused
      /\ w.stream.open => /\ v.view[i].state = IF w.stream.suppressOutput THEN "skipped" ELSE "open"
                          /\ Shown(v.view[i]) = <<>>
      /\ v.stream = [w.stream EXCEPT !.index[role] = i]
  BY DEF Opens
<1>4. i = Len(w.entries) + 1
  OBVIOUS
<1> HIDE DEF i
<1>5. /\ v.stream.index = [w.stream.index EXCEPT ![role] = i]
      /\ v.stream.suppressOutput = w.stream.suppressOutput
      /\ v.stream.open = w.stream.open
      /\ v.stream.held = w.stream.held
      /\ v.stream.blankable = w.stream.blankable
  BY <1>1, <1>3 DEF Streams
<1>6. \A r \in Model : v.stream.index[r] = (IF r = role THEN i ELSE w.stream.index[r])
  BY <1>1, <1>5
<1>7. i # 0 /\ i \in Nat
  BY <1>2, BoundsAssumption DEF Indices
<1>8. IsOpen(v, i)
  BY <1>6 DEF IsOpen
<1>9. Referred(v, i)
  BY <1>2, <1>3, <1>5, <1>6 DEF Referred
<1>10. v.stream.open => Watched(policy, v, i)
  BY <1>3, <1>5, <1>8 DEF Watched
<1>11. Retractable(v, i)
  BY <1>1, <1>3, <1>5, <1>8 DEF Retractable
<1>12. Fine(policy, v, i)
  BY <1>3, <1>9, <1>10, <1>11 DEF Fine
<1>13. \A r \in Model : v.stream.index[r] = w.stream.index[r]
                          \/ (v.stream.index[r] \in {0, i} /\ w.stream.index[r] \in {0, i})
  BY <1>6
<1>14. /\ Len(v.entries) = Len(w.entries) + 1 /\ i = Len(w.entries) + 1
       /\ i <= Len(w.entries) => v.entries[i].role = w.entries[i].role
       /\ \A j \in 1..Len(w.entries) : j # i => v.entries[j] = w.entries[j]
       /\ \A j \in Indices : j # i => (j \in v.stream.blankable <=> j \in w.stream.blankable)
       /\ \A j \in Indices : j # i => v.view[j] = w.view[j]
       /\ ~v.view[i].confused
       /\ v \in Worlds /\ i \in Indices
  BY <1>1, <1>2, <1>3, <1>4, <1>5
<1>15. Good(policy, v)
  BY <1>5, <1>12, <1>13, <1>14, OneEntry
<1> QED
  BY <1>5, <1>6, <1>7, <1>14, <1>15

(* So it keeps the invariant, whether the entry was open or is new.        *)
LEMMA OpenSegmentKeeps ==
  ASSUME policy \in Policy, NEW w, Good(policy, w), NEW role \in Model,
         w.stream.index[role] = 0 => Len(w.entries) < MaxEntries
  PROVE  /\ Good(policy, OpenSegment(w, role))
         /\ OpenSegment(w, role).stream.index[role] # 0
         /\ Len(OpenSegment(w, role).entries) \in Len(w.entries)..(Len(w.entries) + 1)
         /\ OpenSegment(w, role).stream.suppressOutput = w.stream.suppressOutput
         /\ OpenSegment(w, role).stream.open = w.stream.open
         /\ OpenSegment(w, role).stream.held = w.stream.held
<1>1. Len(w.entries) \in Nat
  BY WorldParts DEF Good
<1>2. CASE w.stream.index[role] # 0
  <2>1. OpenSegment(w, role) = w
    BY <1>2 DEF OpenSegment
  <2> QED
    BY <1>1, <1>2, <2>1
<1>3. CASE w.stream.index[role] = 0
  <2> DEFINE v == OpenSegment(w, role)
  <2>1. Opens(policy, w, role, v)
    BY <1>3, OpenSegmentParts
  <2> HIDE DEF v
  <2>2. /\ Good(policy, v)
        /\ v.stream.index[role] # 0
        /\ Len(v.entries) = Len(w.entries) + 1
        /\ v.stream.suppressOutput = w.stream.suppressOutput
        /\ v.stream.open = w.stream.open
        /\ v.stream.held = w.stream.held
    BY <1>3, <2>1, OpenedEntry
  <2> QED
    BY <1>1, <2>2 DEF v
<1> QED
  BY <1>2, <1>3

(* Text for the entry that is open, and the delta the client gets of it.   *)
Grows(w, role, text, v) ==
    LET i == w.stream.index[role] IN
    /\ v \in Worlds
    /\ v.entries = AppendDelta(w.entries, i, text)
    /\ v.stream = w.stream
    /\ v.view = IF w.stream.open /\ ~w.stream.suppressOutput THEN Delta(w.view, i, text) ELSE w.view

(* Text, and its delta, reach the open entry and no other.                 *)
LEMMA GrownSegment ==
  ASSUME policy \in Policy, NEW w, Good(policy, w), NEW role \in Model,
         w.stream.index[role] # 0, NEW text \in Text,
         NEW v, Grows(w, role, text, v)
  PROVE  /\ Good(policy, v)
         /\ Len(v.entries) = Len(w.entries)
         /\ v.stream = w.stream
<1> DEFINE i == w.stream.index[role]
           fs == AppendDelta(w.entries, i, text)
           after == Delta(w.view, i, text)
<1>1. /\ w \in Worlds
      /\ i \in Indices /\ i \in 1..Len(w.entries)
      /\ w.entries[i] \in Entry
      /\ w.entries[i].role = role
      /\ w.entries[i].suppressed = w.stream.suppressOutput
      /\ EntryFormed(policy, w.entries[i])
      /\ ~w.view[i].confused
      /\ w.stream.open =>
           /\ Lossless(policy) => Shown(w.view[i]) = Replayed(w.entries[i])
           /\ IF w.stream.suppressOutput THEN w.view[i].state \in {"committed", "skipped"}
              ELSE w.view[i].state = "open"
      /\ Retractable(w, i)
      /\ \A other \in Model : other # role => w.stream.index[other] # i
  BY OpenEntry
<1>2. i = w.stream.index[role] /\ i # 0
  OBVIOUS
<1> HIDE DEF i
<1>3. /\ w.entries \in Seq(Entry) /\ Len(w.entries) \in Nat
      /\ w.view \in [Indices -> Copy] /\ w.stream \in Streams
      /\ w.stream.suppressOutput \in BOOLEAN /\ w.stream.open \in BOOLEAN
      /\ w.stream.blankable \in SUBSET Indices
  BY <1>1, WorldParts
<1>4. /\ fs \in Seq(Entry)
      /\ Len(fs) = Len(w.entries)
      /\ \A j \in 1..Len(w.entries) : j # i => fs[j] = w.entries[j]
      /\ fs[i].role = w.entries[i].role
      /\ fs[i].suppressed = w.entries[i].suppressed
      /\ fs[i].isStreaming = w.entries[i].isStreaming
      /\ EntryFormed(policy, fs[i])
      /\ Lossless(policy) =>
           Replayed(fs[i]) = IF w.entries[i].suppressed THEN <<>> ELSE w.entries[i].text \o text
  <2>1. w.entries[i].role \in Model
    BY <1>1
  <2> QED
    BY <1>1, <1>3, <2>1, GrownEntry
<1>5. w.stream.open /\ ~w.stream.suppressOutput =>
        /\ after \in [Indices -> Copy]
        /\ after[i].state = "open"
        /\ ~after[i].confused
        /\ after[i].text = w.view[i].text \o text
        /\ \A j \in Indices : j # i => after[j] = w.view[j]
  BY <1>1, <1>3, GrownCopy
<1>6. /\ v \in Worlds /\ v.entries = fs /\ v.stream = w.stream
      /\ v.view = IF w.stream.open /\ ~w.stream.suppressOutput THEN after ELSE w.view
  BY <1>2 DEF Grows
<1> HIDE DEF fs, after
<1>7. /\ \A j \in Indices : j # i => v.view[j] = w.view[j]
      /\ ~v.view[i].confused
      /\ IF w.stream.open /\ ~w.stream.suppressOutput
         THEN v.view[i].state = "open" /\ v.view[i].text = w.view[i].text \o text
         ELSE v.view[i] = w.view[i]
  BY <1>1, <1>5, <1>6
<1>8. IsOpen(w, i) /\ IsOpen(v, i)
  BY <1>2, <1>6 DEF IsOpen
<1>9. Fine(policy, w, i)
  BY <1>1, <1>3 DEF Good
<1>10. Referred(v, i)
  BY <1>4, <1>6, <1>9 DEF Fine, Referred
<1>11. v.stream.open => Watched(policy, v, i)
  <2> SUFFICES ASSUME w.stream.open PROVE Watched(policy, v, i)
    BY <1>6
  <2>1. CASE w.stream.suppressOutput
    <3>1. /\ Lossless(policy) => Replayed(v.entries[i]) = <<>>
          /\ Replayed(w.entries[i]) = <<>>
      BY <1>1, <1>4, <1>6, <2>1 DEF Replayed
    <3> QED
      BY <1>1, <1>6, <1>7, <1>8, <2>1, <3>1 DEF Watched
  <2>2. CASE ~w.stream.suppressOutput
    <3>1. Lossless(policy) => w.view[i].text = w.entries[i].text
      BY <1>1, <2>2 DEF Shown, Replayed, EntryFormed
    <3>2. Lossless(policy) => Replayed(v.entries[i]) = w.entries[i].text \o text
      BY <1>1, <1>4, <1>6, <2>2
    <3>3. v.view[i].state = "open" /\ v.view[i].text = w.view[i].text \o text
      BY <1>7, <2>2
    <3>4. Lossless(policy) => v.view[i].text = Replayed(v.entries[i])
      BY <3>1, <3>2, <3>3
    <3> QED
      BY <1>6, <1>8, <2>2, <3>3, <3>4 DEF Watched, Shown
  <2> QED
    BY <2>1, <2>2
<1>12. Retractable(v, i)
  <2>1. LastTurn(v.entries, i) => LastTurn(w.entries, i)
    <3>1. /\ i \in Nat \ {0} /\ \A j \in 1..Len(w.entries) : v.entries[j].role = w.entries[j].role
          /\ Len(w.entries) <= Len(v.entries) /\ v.entries \in Seq(Entry)
      BY <1>1, <1>3, <1>4, <1>6
    <3> QED
      BY <1>3, <3>1, LastTurnBefore
  <2>2. CASE w.stream.suppressOutput
    BY <1>1, <1>4, <1>6, <1>7, <2>1, <2>2 DEF Retractable
  <2>3. CASE ~w.stream.suppressOutput
    BY <1>6, <1>8, <2>3 DEF Retractable
  <2> QED
    BY <2>2, <2>3
<1>13. Fine(policy, v, i)
  BY <1>4, <1>6, <1>10, <1>11, <1>12 DEF Fine
<1>14. /\ Len(v.entries) = Len(w.entries) /\ i <= Len(w.entries)
       /\ \A j \in 1..Len(w.entries) : j # i => v.entries[j] = w.entries[j]
       /\ v.entries[i].role = w.entries[i].role
  BY <1>1, <1>4, <1>6
<1>15. Good(policy, v)
  BY <1>1, <1>6, <1>7, <1>13, <1>14, OneEntry
<1> QED
  BY <1>6, <1>14, <1>15

(* A segment of the parser: the delta, and the entry it needs.             *)
LEMMA StreamSegmentKeeps ==
  ASSUME policy \in Policy, NEW w, Good(policy, w), NEW role \in Model, NEW text \in Text,
         Len(w.entries) < MaxEntries
  PROVE  /\ Good(policy, StreamSegment(w, role, text))
         /\ Len(StreamSegment(w, role, text).entries) \in Len(w.entries)..(Len(w.entries) + 1)
         /\ StreamSegment(w, role, text).stream.suppressOutput = w.stream.suppressOutput
         /\ StreamSegment(w, role, text).stream.open = w.stream.open
         /\ StreamSegment(w, role, text).stream.held = w.stream.held
<1> DEFINE u == OpenSegment(w, role)
           i == u.stream.index[role]
           fs == AppendDelta(u.entries, i, text)
           after == Delta(u.view, i, text)
           v == StreamSegment(w, role, text)
<1>1. /\ Good(policy, u) /\ i # 0
      /\ Len(u.entries) \in Len(w.entries)..(Len(w.entries) + 1)
      /\ u.stream.suppressOutput = w.stream.suppressOutput
      /\ u.stream.open = w.stream.open
      /\ u.stream.held = w.stream.held
  BY OpenSegmentKeeps
<1>2. v = IF u.stream.suppressOutput THEN Write(u, fs, u.stream)
          ELSE Send(Write(u, fs, u.stream), after)
  BY DEF StreamSegment, Write
<1> HIDE DEF u, v
<1>3. /\ u \in Worlds
      /\ i \in Indices /\ i \in 1..Len(u.entries)
      /\ u.entries[i].role \in Model
      /\ EntryFormed(policy, u.entries[i])
      /\ ~u.view[i].confused
      /\ u.stream.open /\ ~u.stream.suppressOutput => u.view[i].state = "open"
  BY <1>1, OpenEntry
<1>4. /\ u.entries \in Seq(Entry) /\ u.view \in [Indices -> Copy] /\ u.stream \in Streams
      /\ u.stream.suppressOutput \in BOOLEAN /\ u.stream.open \in BOOLEAN
  BY <1>3, WorldParts
<1>5. fs \in Seq(Entry)
  BY <1>3, <1>4, GrownEntry
<1>6. u.stream.open /\ ~u.stream.suppressOutput => after \in [Indices -> Copy]
  BY <1>3, <1>4, GrownCopy
<1>7. Grows(u, role, text, v)
  <2>1. fs = AppendDelta(u.entries, u.stream.index[role], text)
        /\ after = Delta(u.view, u.stream.index[role], text)
    OBVIOUS
  <2> HIDE DEF fs, after, i
  <2>2. CASE u.stream.suppressOutput
    <3>1. /\ Write(u, fs, u.stream) \in Worlds
          /\ Write(u, fs, u.stream).entries = fs
          /\ Write(u, fs, u.stream).stream = u.stream
          /\ Write(u, fs, u.stream).view = u.view
      BY <1>3, <1>4, <1>5, WrittenParts
    <3> QED
      BY <1>2, <2>1, <2>2, <3>1 DEF Grows
  <2>3. CASE ~u.stream.suppressOutput
    <3>1. /\ Send(Write(u, fs, u.stream), after) \in Worlds
          /\ Send(Write(u, fs, u.stream), after).entries = fs
          /\ Send(Write(u, fs, u.stream), after).stream = u.stream
          /\ Send(Write(u, fs, u.stream), after).view = IF u.stream.open THEN after ELSE u.view
      BY <1>3, <1>4, <1>5, <1>6, <2>3, WrittenParts
    <3> QED
      BY <1>2, <2>1, <2>3, <3>1 DEF Grows
  <2> QED
    BY <2>2, <2>3
<1>8. Good(policy, v) /\ Len(v.entries) = Len(u.entries) /\ v.stream = u.stream
  BY <1>1, <1>7, GrownSegment
<1> QED
  BY <1>1, <1>8 DEF v

(* handleTextSegment.                                                      *)
Segment == [type : {"thinking", "text"}, text : Text]

(* A span, in either mode, opens at most one entry and keeps the invariant. *)
LEMMA TextSegmentKeeps ==
  ASSUME policy \in Policy, NEW w, Good(policy, w), NEW segment \in Segment,
         Len(w.entries) < MaxEntries
  PROVE  /\ Good(policy, TextSegment(w, segment))
         /\ Len(TextSegment(w, segment).entries) \in Len(w.entries)..(Len(w.entries) + 1)
         /\ TextSegment(w, segment).stream.suppressOutput = w.stream.suppressOutput
         /\ TextSegment(w, segment).stream.open = w.stream.open
         /\ TextSegment(w, segment).stream.held = w.stream.held
<1> DEFINE text == segment.text
<1>1. text \in Text
  BY DEF Segment
<1>2. TextSegment(w, segment) = IF segment.type = "thinking" THEN StreamSegment(w, "thinking", text)
                                ELSE StreamSegment(CommitAndClear(w, "thinking"), "assistant", text)
  BY DEF TextSegment
<1>3. "thinking" \in Model /\ "assistant" \in Model
  BY DEF Model
<1> HIDE DEF text
<1>4. CASE segment.type = "thinking"
  BY <1>1, <1>2, <1>3, <1>4, StreamSegmentKeeps
<1>5. CASE segment.type # "thinking"
  <2> DEFINE u == CommitAndClear(w, "thinking")
  <2>1. /\ Good(policy, u) /\ Len(u.entries) = Len(w.entries)
        /\ u.stream.suppressOutput = w.stream.suppressOutput
        /\ u.stream.open = w.stream.open
        /\ u.stream.held = w.stream.held
    BY <1>3, CommitAndClearKeeps
  <2>2. TextSegment(w, segment) = StreamSegment(u, "assistant", text)
    BY <1>2, <1>5
  <2> HIDE DEF u
  <2> QED
    BY <1>1, <1>3, <2>1, <2>2, StreamSegmentKeeps
<1> QED
  BY <1>4, <1>5

(* The stream's own state, and no entry it refers to, may change at will.  *)
LEMMA OtherStream ==
  ASSUME NEW p, NEW w, Good(p, w), NEW s \in Streams,
         s.index = w.stream.index, s.suppressOutput = w.stream.suppressOutput,
         s.blankable = w.stream.blankable, s.open => w.stream.open
  PROVE  Good(p, Write(w, w.entries, s))
<1> DEFINE v == Write(w, w.entries, s)
<1>1. w \in Worlds
  BY DEF Good
<1>2. v.entries = w.entries /\ v.view = w.view /\ v.stream = s
  BY DEF Write
<1>3. v \in Worlds
  BY <1>1 DEF Worlds, Write
<1> HIDE DEF v
<1>4. ASSUME NEW i \in Indices
      PROVE  (Fine(p, w, i) => Fine(p, v, i)) /\ (Unused(w, i) => Unused(v, i))
  <2>1. IsOpen(v, i) <=> IsOpen(w, i)
    BY <1>2 DEF IsOpen
  <2>2. Referred(w, i) => Referred(v, i)
    BY <1>2 DEF Referred
  <2>3. Watched(p, w, i) => Watched(p, v, i)
    BY <1>2, <2>1 DEF Watched
  <2>4. Retractable(w, i) => Retractable(v, i)
    BY <1>2, <2>1 DEF Retractable
  <2> QED
    BY <1>2, <2>1, <2>2, <2>3, <2>4 DEF Fine, Unused
<1>5. Good(p, v)
  BY <1>2, <1>3, <1>4 DEF Good
<1> QED
  BY <1>5 DEF v

(* parser.flush(), of what is held.                                        *)
LEMMA FlushKeeps ==
  ASSUME policy \in Policy, NEW w, Good(policy, w),
         w.stream.held # <<>> => Len(w.entries) < MaxEntries
  PROVE  /\ Good(policy, FlushHeldText(w))
         /\ FlushHeldText(w).stream.held = <<>>
<1>1. CASE w.stream.held = <<>>
  BY <1>1 DEF FlushHeldText
<1>2. CASE w.stream.held # <<>>
  <2> DEFINE segment == [type |-> IF w.stream.insideThinking THEN "thinking" ELSE "text",
                         text |-> w.stream.held]
             u == TextSegment(w, segment)
             s == [u.stream EXCEPT !.held = <<>>]
  <2>1. w \in Worlds /\ w.stream.held \in Text
    BY WorldParts DEF Good
  <2>2. segment \in Segment
    BY <2>1 DEF Segment
  <2>3. FlushHeldText(w) = Write(u, u.entries, s)
    BY <1>2 DEF FlushHeldText
  <2> HIDE DEF segment
  <2>4. Good(policy, u)
    BY <1>2, <2>2, TextSegmentKeeps
  <2> HIDE DEF u
  <2>5. u.stream \in Streams
    BY <2>4, WorldParts DEF Good
  <2>6. /\ s \in Streams /\ s.index = u.stream.index /\ s.suppressOutput = u.stream.suppressOutput
        /\ s.blankable = u.stream.blankable /\ s.open = u.stream.open /\ s.held = <<>>
    <3>1. <<>> \in Text
      BY EmptySeq DEF Text
    <3> QED
      BY <2>5, <3>1 DEF Streams
  <2> HIDE DEF s
  <2>7. Good(policy, Write(u, u.entries, s))
    BY <2>4, <2>6, OtherStream
  <2>8. Write(u, u.entries, s).stream = s
    BY DEF Write
  <2> QED
    BY <2>3, <2>6, <2>7, <2>8
<1> QED
  BY <1>1, <1>2

(* A tool's entry is stored as the policy wants it and sent as stored.     *)
LEMMA AnnouncedEntry ==
  ASSUME policy \in Policy, NEW w, Good(policy, w), Len(w.entries) < MaxEntries,
         NEW e \in Entry, e.role = "tool", ~e.cleared, ~e.isStreaming, ~e.suppressed,
         NEW es, es = AppendEntry(w.entries, e),
         NEW i, i = Len(w.entries) + 1
  PROVE  /\ Good(policy, Send(Write(w, es, w.stream), Upsert(w.view, i, es[i])))
         /\ Len(Send(Write(w, es, w.stream), Upsert(w.view, i, es[i])).entries) = i
         /\ Send(Write(w, es, w.stream), Upsert(w.view, i, es[i])).stream = w.stream
<1>1. /\ w \in Worlds
      /\ w.entries \in Seq(Entry) /\ Len(w.entries) \in Nat
      /\ w.view \in [Indices -> Copy] /\ w.stream \in Streams
      /\ w.stream.open \in BOOLEAN
  BY WorldParts DEF Good
<1>2. /\ i \in Indices /\ w.view[i] = Unknown /\ i \notin w.stream.blankable
      /\ \A r \in Model : w.stream.index[r] # i
  BY NextPlace
<1>3. /\ es \in Seq(Entry) /\ Len(es) = i
      /\ \A j \in 1..Len(w.entries) : es[j] = w.entries[j]
      /\ es[i].role = "tool" /\ es[i].suppressed = e.suppressed /\ ~es[i].isStreaming
      /\ EntryFormed(policy, es[i])
  BY <1>1, AppendedEntry
<1> DEFINE stored == es[i]
           after == Upsert(w.view, i, stored)
           v == Send(Write(w, es, w.stream), after)
<1>4. stored \in Entry
  <2>1. i \in 1..Len(es)
    BY <1>1, <1>3
  <2> QED
    BY <1>3, <2>1, EntryAt
<1>5. ~w.view[i].confused
  BY <1>2 DEF Unknown
<1> HIDE DEF stored
<1>6. /\ after \in [Indices -> Copy]
      /\ after[i].state = IF stored.isStreaming THEN "open" ELSE "committed"
      /\ ~after[i].confused
      /\ after[i].text = stored.text
      /\ \A j \in Indices : j # i => after[j] = w.view[j]
  BY <1>1, <1>2, <1>4, <1>5, UpsertedCopy
<1> HIDE DEF after
<1>7. /\ v \in Worlds /\ v.entries = es /\ v.stream = w.stream
      /\ v.view = IF w.stream.open THEN after ELSE w.view
  BY <1>1, <1>3, <1>6, WrittenParts
<1> HIDE DEF v
<1>8. ~IsOpen(v, i)
  BY <1>2, <1>7 DEF IsOpen
<1>9. /\ \A j \in Indices : j # i => v.view[j] = w.view[j]
      /\ ~v.view[i].confused
      /\ w.stream.open => v.view = after
  BY <1>5, <1>6, <1>7
<1>10. "tool" \notin Model
  BY DEF Model
<1>11. Referred(v, i)
  BY <1>2, <1>7, <1>8 DEF Referred, IsOpen
<1>12. v.stream.open => Watched(policy, v, i)
  <2> SUFFICES ASSUME w.stream.open PROVE Watched(policy, v, i)
    BY <1>7
  <2>1. v.view[i].state = "committed" /\ v.view[i].text = stored.text /\ v.entries[i] = stored
    BY <1>3, <1>6, <1>7, <1>9 DEF stored
  <2>2. Lossless(policy) => ~stored.cleared
    BY <1>3 DEF EntryFormed, stored
  <2>3. ~stored.suppressed
    BY <1>3 DEF stored
  <2> QED
    BY <1>8, <2>1, <2>2, <2>3 DEF Watched, Shown, Replayed
<1>13. Retractable(v, i)
  BY <1>3, <1>7, <1>10 DEF Retractable
<1>14. Fine(policy, v, i)
  BY <1>3, <1>7, <1>11, <1>12, <1>13 DEF Fine
<1>15. /\ Len(v.entries) = Len(w.entries) + 1 /\ i = Len(w.entries) + 1
       /\ i <= Len(w.entries) => v.entries[i].role = w.entries[i].role
       /\ \A j \in 1..Len(w.entries) : j # i => v.entries[j] = w.entries[j]
       /\ v.stream = w.stream
  BY <1>1, <1>3, <1>7
<1>16. Good(policy, v)
  BY <1>2, <1>7, <1>9, <1>14, <1>15, OneEntry
<1>17. v = Send(Write(w, es, w.stream), Upsert(w.view, i, es[i]))
  BY DEF v, after, stored
<1> QED
  BY <1>3, <1>7, <1>16, <1>17

(* A user's message starts a new turn: what was said before it is past.    *)
LEMMA UserEntry ==
  ASSUME policy \in Policy, NEW w, Good(policy, w), Len(w.entries) < MaxEntries,
         Connected(w), \A role \in Model : w.stream.index[role] = 0,
         NEW e \in Entry, e.role = "user", ~e.cleared, ~e.isStreaming, ~e.suppressed,
         NEW es, es = AppendEntry(w.entries, e),
         NEW i, i = Len(w.entries) + 1
  PROVE  /\ Good(policy, Send(Write(w, es, NewStream), Upsert(w.view, i, e)))
         /\ Len(Send(Write(w, es, NewStream), Upsert(w.view, i, e)).entries) = i
         /\ Send(Write(w, es, NewStream), Upsert(w.view, i, e)).stream = NewStream
<1>1. /\ w \in Worlds
      /\ w.entries \in Seq(Entry) /\ Len(w.entries) \in Nat
      /\ w.view \in [Indices -> Copy] /\ w.stream \in Streams
  BY WorldParts DEF Good
<1>2. /\ i \in Indices /\ w.view[i] = Unknown
  BY NextPlace
<1>3. e = IF e.isStreaming THEN e ELSE Redacted(e)
  BY DEF Redacted
<1>4. /\ es \in Seq(Entry) /\ Len(es) = i
      /\ \A j \in 1..Len(w.entries) : es[j] = w.entries[j]
      /\ es[i] = e
      /\ EntryFormed(policy, es[i])
  BY <1>1, <1>3, AppendedEntry
<1>5. /\ NewStream \in Streams /\ NewStream.open = TRUE /\ NewStream.suppressOutput = FALSE
      /\ NewStream.blankable = {} /\ \A r \in Model : NewStream.index[r] = 0
  <2>1. <<>> \in Text
    BY EmptySeq DEF Text
  <2>2. [r \in Model |-> 0] \in [Model -> {0} \union Indices]
    OBVIOUS
  <2> QED
    BY <2>1, <2>2 DEF NewStream, Streams
<1>6. ~w.view[i].confused
  BY <1>2 DEF Unknown
<1> DEFINE after == Upsert(w.view, i, e)
           s == NewStream
           v == Send(Write(w, es, s), after)
<1>7. /\ after \in [Indices -> Copy]
      /\ after[i].state = "committed"
      /\ ~after[i].confused
      /\ after[i].text = e.text
      /\ \A j \in Indices : j # i => after[j] = w.view[j]
  BY <1>1, <1>2, <1>6, UpsertedCopy
<1>8. s \in Streams /\ s.open = w.stream.open
  <2>1. w.stream.open = TRUE
    BY <1>1, WorldParts DEF Connected
  <2> QED
    BY <1>5, <2>1
<1>9. s = NewStream
  OBVIOUS
<1> HIDE DEF after, s
<1>10. /\ v \in Worlds /\ v.entries = es /\ v.stream = s /\ v.view = after
  BY <1>1, <1>4, <1>7, <1>8, SentParts
<1>11. /\ \A r \in Model : v.stream.index[r] = 0
       /\ v.stream.blankable = {} /\ ~v.stream.suppressOutput
  BY <1>5, <1>9, <1>10
<1> HIDE DEF v
<1>12. 0 \notin Indices
  BY BoundsAssumption DEF Indices
<1>13. \A j \in Indices : ~IsOpen(v, j) /\ ~IsOpen(w, j)
  BY <1>11, <1>12 DEF IsOpen
<1>14. ASSUME NEW j \in Indices, j <= Len(w.entries)
       PROVE  Fine(policy, v, j)
  <2>1. /\ v.entries[j] = w.entries[j] /\ v.view[j] = w.view[j]
        /\ j \in i..Len(v.entries) \/ j < i
        /\ Fine(policy, w, j)
    BY <1>1, <1>4, <1>7, <1>10, <1>14, BoundsAssumption DEF Good, Indices
  <2>2. Referred(v, j)
    BY <1>11, <1>13 DEF Referred, IsOpen
  <2>3. Watched(policy, v, j)
    BY <1>13, <2>1 DEF Fine, Watched, Connected
  <2>4. ~LastTurn(v.entries, j)
    <3>1. i \in j..Len(v.entries) /\ v.entries[i].role = "user"
      BY <1>1, <1>4, <1>10, <1>14, BoundsAssumption DEF Indices
    <3> QED
      BY <3>1 DEF LastTurn
  <2> QED
    BY <2>1, <2>2, <2>3, <2>4 DEF Fine, Retractable
<1>15. Fine(policy, v, i)
  <2>1. v.entries[i] = e /\ v.view[i].state = "committed" /\ v.view[i].text = e.text
    BY <1>4, <1>7, <1>10
  <2>2. Referred(v, i)
    BY <1>2, <1>11, <1>13 DEF Referred, IsOpen
  <2>3. Watched(policy, v, i)
    BY <1>2, <1>13, <2>1 DEF Watched, Shown, Replayed
  <2>4. e.role \notin Model
    BY DEF Model
  <2> QED
    BY <1>4, <1>10, <2>1, <2>2, <2>3, <2>4 DEF Fine, Retractable
<1>16. ASSUME NEW j \in Indices, j > i
       PROVE  Unused(v, j)
  <2>1. j > Len(w.entries) /\ v.view[j] = w.view[j]
    BY <1>1, <1>7, <1>10, <1>16, BoundsAssumption DEF Indices
  <2>2. Unused(w, j)
    BY <2>1 DEF Good
  <2> QED
    BY <1>11, <1>13, <2>1, <2>2 DEF Unused
<1>17. \A j \in Indices : ~v.view[j].confused
  BY <1>7, <1>10 DEF Good
<1>18. Good(policy, v)
  <2>1. \A j \in Indices : j <= Len(w.entries) \/ j = i \/ j > i
    BY <1>1, BoundsAssumption DEF Indices
  <2>2. Len(v.entries) = i /\ i <= MaxEntries
    BY <1>1, <1>4, <1>10, BoundsAssumption
  <2>3. \A j \in Indices : j > Len(v.entries) => j > i
    BY <2>2
  <2>4. \A j \in Indices : j <= Len(v.entries) => ~(j > i)
    BY <1>2, <2>2, BoundsAssumption DEF Indices
  <2> QED
    BY <1>10, <1>14, <1>15, <1>16, <1>17, <2>1, <2>2, <2>3, <2>4 DEF Good
<1>19. v = Send(Write(w, es, NewStream), Upsert(w.view, i, e))
  BY DEF v, after, s
<1> QED
  BY <1>4, <1>9, <1>10, <1>18, <1>19

(* The retraction: everything shown is blank and marked, and nothing is    *)
(* open.                                                                   *)
LEMMA BlankedKeeps ==
  ASSUME policy \in Policy, NEW w, Good(policy, w), Connected(w),
         \A role \in Model : w.stream.index[role] = 0
  PROVE  /\ Good(policy, Blanked(w))
         /\ Len(Blanked(w).entries) = Len(w.entries)
         /\ Blanked(w).stream.held = w.stream.held
<1> DEFINE its == w.stream.blankable
           blank(i) == [CopyOf([w.entries[i] EXCEPT !.text = <<>>]) EXCEPT !.confused = w.view[i].confused]
           es == [i \in DOMAIN w.entries |-> IF i \in its THEN Marked(w.entries[i]) ELSE w.entries[i]]
           s == [w.stream EXCEPT !.blankable = {}, !.suppressOutput = TRUE]
           after == [i \in Indices |-> IF i \in its THEN blank(i) ELSE w.view[i]]
           v == Blanked(w)
<1>1. /\ w \in Worlds
      /\ w.entries \in Seq(Entry) /\ Len(w.entries) \in Nat
      /\ w.view \in [Indices -> Copy] /\ w.stream \in Streams
      /\ w.stream.suppressOutput \in BOOLEAN
      /\ its \in SUBSET Indices
  BY WorldParts DEF Good
<1>2. ASSUME NEW i \in its
      PROVE  /\ i \in Indices /\ i \in 1..Len(w.entries)
             /\ w.entries[i] \in Entry /\ w.entries[i].role \in Model /\ ~w.entries[i].isStreaming
             /\ w.view[i] \in Copy /\ w.view[i].confused = FALSE
  <2>1. i \in Indices
    BY <1>1, <1>2
  <2>2. i \in 1..Len(w.entries)
    BY <1>1, <1>2, <2>1, BoundsAssumption DEF Good, Unused, Indices
  <2>3. Fine(policy, w, i) /\ ~w.view[i].confused
    BY <1>1, <2>1, <2>2 DEF Good
  <2>4. w.entries[i].role \in Model /\ ~w.entries[i].isStreaming
    BY <1>2, <2>3 DEF Fine, Referred
  <2>5. w.entries[i] \in Entry
    BY <1>1, <2>2, EntryAt
  <2>6. w.view[i] \in Copy
    BY <1>1, <2>1
  <2>7. w.view[i].confused \in BOOLEAN
    BY <2>6 DEF Copy
  <2> QED
    BY <2>1, <2>2, <2>3, <2>4, <2>5, <2>6, <2>7
<1>3. v = Send(Write(w, es, s), after)
  BY DEF Blanked
<1>4. /\ s \in Streams /\ s.open = w.stream.open /\ s.index = w.stream.index
      /\ s.suppressOutput = TRUE /\ s.blankable = {} /\ s.held = w.stream.held
  BY <1>1 DEF Streams
<1>5. ASSUME NEW i \in its
      PROVE  /\ Marked(w.entries[i]) \in Entry
             /\ Marked(w.entries[i]).role = w.entries[i].role
             /\ Marked(w.entries[i]).isStreaming = w.entries[i].isStreaming
             /\ Marked(w.entries[i]).suppressed
             /\ EntryFormed(policy, w.entries[i]) => EntryFormed(policy, Marked(w.entries[i]))
             /\ blank(i) \in Copy
             /\ blank(i).state = "committed" /\ blank(i).text = <<>> /\ ~blank(i).confused
  <2> DEFINE e == w.entries[i]
  <2>1. e \in Entry /\ e.role \in Model /\ ~e.isStreaming /\ w.view[i].confused = FALSE
    BY <1>2, <1>5
  <2> HIDE DEF e
  <2>2. /\ Marked(e) \in Entry /\ Marked(e).role = e.role /\ Marked(e).suppressed
        /\ Marked(e).isStreaming = e.isStreaming
        /\ Marked(e).cleared = e.cleared /\ Marked(e).text = e.text /\ Marked(e).redacted = e.redacted
    BY <2>1 DEF Marked, Entry
  <2>3. EntryFormed(policy, e) => EntryFormed(policy, Marked(e))
    BY <2>2 DEF EntryFormed
  <2> DEFINE cut == [e EXCEPT !.text = <<>>]
             c == [CopyOf(cut) EXCEPT !.confused = w.view[i].confused]
  <2>4. <<>> \in Text
    BY EmptySeq DEF Text
  <2>5. cut \in Entry /\ ~cut.isStreaming /\ cut.text = <<>>
    BY <2>1, <2>4 DEF Entry
  <2> HIDE DEF cut
  <2>6. c \in Copy /\ c.state = "committed" /\ c.text = <<>> /\ ~c.confused
    BY <2>1, <2>4, <2>5 DEF CopyOf, Copy, Entry
  <2>7. c = blank(i)
    BY DEF cut, e
  <2> HIDE DEF c, blank
  <2> QED
    BY <2>2, <2>3, <2>6, <2>7 DEF e
<1> HIDE DEF blank
<1>6. /\ es \in Seq(Entry) /\ Len(es) = Len(w.entries)
      /\ \A i \in 1..Len(w.entries) : es[i] = IF i \in its THEN Marked(w.entries[i]) ELSE w.entries[i]
  <2>1. DOMAIN w.entries = 1..Len(w.entries)
    BY <1>1, LenProperties
  <2>2. \A i \in 1..Len(w.entries) : (IF i \in its THEN Marked(w.entries[i]) ELSE w.entries[i]) \in Entry
    BY <1>1, <1>5, EntryAt
  <2>3. es = [i \in 1..Len(w.entries) |-> IF i \in its THEN Marked(w.entries[i]) ELSE w.entries[i]]
    BY <2>1
  <2> DEFINE e(i) == IF i \in its THEN Marked(w.entries[i]) ELSE w.entries[i]
  <2>4. [i \in 1..Len(w.entries) |-> e(i)] \in Seq(Entry)
    <3> HIDE DEF e, its
    <3>1. \A i \in 1..Len(w.entries) : e(i) \in Entry
      BY <2>2 DEF e
    <3> QED
      BY <1>1, <3>1, IsASeq
  <2>5. DOMAIN es = 1..Len(w.entries) /\ es \in Seq(Entry)
    BY <2>3, <2>4
  <2>6. Len(es) = Len(w.entries)
    BY <1>1, <2>5, LenProperties
  <2> QED
    BY <2>3, <2>5, <2>6
<1>7. /\ after \in [Indices -> Copy]
      /\ \A i \in Indices : after[i] = IF i \in its THEN blank(i) ELSE w.view[i]
  BY <1>1, <1>5
<1> HIDE DEF es, s, after, v
<1>8. /\ v \in Worlds /\ v.entries = es /\ v.stream = s /\ v.view = after
  BY <1>1, <1>3, <1>4, <1>6, <1>7, SentParts
<1>9. 0 \notin Indices
  BY BoundsAssumption DEF Indices
<1>10. \A i \in Indices : ~IsOpen(v, i) /\ ~IsOpen(w, i)
  BY <1>4, <1>8, <1>9 DEF IsOpen
<1>11. ASSUME NEW i \in Indices, i <= Len(w.entries)
       PROVE  Fine(policy, v, i)
  <2>1. Fine(policy, w, i) /\ i \in 1..Len(w.entries)
    BY <1>1, <1>11, BoundsAssumption DEF Good, Indices
  <2>2. v.entries[i].role = w.entries[i].role
    BY <1>5, <1>6, <1>8, <2>1
  <2>3. EntryFormed(policy, v.entries[i])
    BY <1>5, <1>6, <1>8, <2>1 DEF Fine
  <2>4. Referred(v, i)
    BY <1>4, <1>8, <1>10 DEF Referred, IsOpen
  <2>5. CASE i \in its
    <3>1. /\ v.view[i].state = "committed" /\ v.view[i].text = <<>>
          /\ v.entries[i].suppressed
      BY <1>5, <1>6, <1>7, <1>8, <2>1, <2>5
    <3> QED
      BY <1>4, <1>8, <1>10, <2>3, <2>4, <3>1 DEF Fine, Watched, Retractable, Shown, Replayed
  <2>6. CASE i \notin its
    <3>1. v.entries[i] = w.entries[i] /\ v.view[i] = w.view[i]
      BY <1>6, <1>7, <1>8, <2>1, <2>6
    <3>2. Watched(policy, v, i)
      BY <1>10, <2>1, <3>1 DEF Fine, Watched, Connected
    <3>3. LastTurn(v.entries, i) => LastTurn(w.entries, i)
      <4>1. /\ i \in Nat \ {0} /\ Len(w.entries) <= Len(v.entries) /\ v.entries \in Seq(Entry)
        BY <1>1, <1>6, <1>8, <2>1
      <4>2. \A j \in 1..Len(w.entries) : v.entries[j].role = w.entries[j].role
        BY <1>5, <1>6, <1>8
      <4> QED
        BY <1>1, <4>1, <4>2, LastTurnBefore
    <3>4. w.entries[i].role \in Model /\ LastTurn(w.entries, i) =>
            w.stream.suppressOutput /\ w.entries[i].suppressed /\ Shown(w.view[i]) = <<>>
      BY <1>10, <2>1, <2>6 DEF Fine, Retractable, Connected
    <3>5. Retractable(v, i)
      BY <1>4, <1>8, <3>1, <3>3, <3>4 DEF Retractable
    <3> QED
      BY <2>3, <2>4, <3>2, <3>5 DEF Fine
  <2> QED
    BY <2>5, <2>6
<1>12. ASSUME NEW i \in Indices, i > Len(w.entries)
       PROVE  Unused(v, i)
  <2>1. Unused(w, i)
    BY <1>12 DEF Good
  <2> QED
    BY <1>4, <1>7, <1>8, <1>10, <2>1 DEF Unused
<1>13. \A i \in Indices : ~v.view[i].confused
  BY <1>5, <1>7, <1>8 DEF Good
<1>14. Len(v.entries) = Len(w.entries) /\ v.stream.held = w.stream.held
  BY <1>4, <1>6, <1>8
<1>15. Good(policy, v)
  <2>1. Len(w.entries) <= MaxEntries
    BY DEF Good
  <2> QED
    BY <1>8, <1>11, <1>12, <1>13, <1>14, <2>1 DEF Good
<1> QED
  BY <1>14, <1>15 DEF v

(* The end of a turn: every entry is closed, and what lies beyond the      *)
(* bound has lost its text.                                                *)
LEMMA ClosedTurn ==
  ASSUME policy \in Policy, NEW es \in Seq(Entry),
         \A i \in 1..Len(es) : EntryFormed(policy, es[i])
  PROVE  /\ CloseTurn(es) \in Seq(Entry)
         /\ Len(CloseTurn(es)) = Len(es)
         /\ \A i \in 1..Len(es) :
              /\ CloseTurn(es)[i].role = es[i].role
              /\ CloseTurn(es)[i].suppressed = es[i].suppressed
              /\ ~CloseTurn(es)[i].isStreaming
              /\ EntryFormed(policy, CloseTurn(es)[i])
              /\ Lossless(policy) => Replayed(CloseTurn(es)[i]) = Replayed(es[i])
              /\ policy.maxContent # 0 /\ i + policy.maxContent <= Len(es) => CloseTurn(es)[i].cleared
<1> DEFINE closed(e) == IF e.isStreaming THEN Redacted([e EXCEPT !.truncated = TRUE, !.isStreaming = FALSE])
                        ELSE e
           fs == [i \in DOMAIN es |-> closed(es[i])]
           cleared(i) == IF i + policy.maxContent <= Len(fs) /\ ~fs[i].cleared THEN Cleared(fs[i]) ELSE fs[i]
           gs == [i \in DOMAIN fs |-> cleared(i)]
<1>1. CloseTurn(es) = IF policy.maxContent = 0 THEN fs ELSE gs
  BY DEF CloseTurn, ClearBeyond
<1>2. DOMAIN es = 1..Len(es) /\ Len(es) \in Nat
  BY LenProperties
<1>3. ASSUME NEW i \in 1..Len(es)
      PROVE  /\ closed(es[i]) \in Entry
             /\ closed(es[i]).role = es[i].role
             /\ closed(es[i]).suppressed = es[i].suppressed
             /\ ~closed(es[i]).isStreaming
             /\ EntryFormed(policy, closed(es[i]))
             /\ Lossless(policy) => Replayed(closed(es[i])) = Replayed(es[i])
  <2> DEFINE e == es[i]
  <2>1. e \in Entry /\ EntryFormed(policy, e)
    BY <1>3, EntryAt
  <2> HIDE DEF e
  <2>2. CASE ~e.isStreaming
    BY <2>1, <2>2 DEF e
  <2>3. CASE e.isStreaming
    <3> DEFINE cut == [e EXCEPT !.truncated = TRUE]
               shut == [cut EXCEPT !.isStreaming = FALSE]
    <3>1. cut \in Entry
      BY <2>1 DEF Entry
    <3>2. shut \in Entry
      <4> HIDE DEF cut
      <4> QED
        BY <3>1 DEF Entry
    <3>3. /\ shut.role = e.role /\ shut.suppressed = e.suppressed /\ ~shut.isStreaming
          /\ shut.cleared = e.cleared /\ shut.text = e.text
      BY <2>1 DEF Entry
    <3>4. closed(e) = Redacted(shut)
      BY <2>3
    <3> HIDE DEF shut, closed
    <3>5. /\ shut.cleared => shut.text = <<>>
          /\ Lossless(policy) => ~shut.cleared
      BY <2>1, <3>3 DEF EntryFormed
    <3>6. /\ Redacted(shut) \in Entry
          /\ Redacted(shut).role = shut.role
          /\ Redacted(shut).isStreaming = shut.isStreaming
          /\ Redacted(shut).suppressed = shut.suppressed
          /\ EntryFormed(policy, Redacted(shut))
          /\ Lossless(policy) => Replayed(Redacted(shut)) = Replayed(shut)
      BY <3>2, <3>5, RedactedEntry
    <3>7. Replayed(shut) = Replayed(e)
      BY <3>3 DEF Replayed
    <3> QED
      BY <3>3, <3>4, <3>6, <3>7 DEF e
  <2> QED
    BY <2>2, <2>3
<1> HIDE DEF closed
<1>4. /\ fs \in Seq(Entry) /\ Len(fs) = Len(es) /\ DOMAIN fs = 1..Len(es)
      /\ \A i \in 1..Len(es) : fs[i] = closed(es[i])
  <2>1. \A i \in 1..Len(es) : closed(es[i]) \in Entry
    BY <1>3
  <2>2. fs = [i \in 1..Len(es) |-> closed(es[i])]
    BY <1>2
  <2>3. [i \in 1..Len(es) |-> closed(es[i])] \in Seq(Entry)
    BY <1>2, <2>1, IsASeq
  <2>4. fs \in Seq(Entry) /\ DOMAIN fs = 1..Len(es)
    BY <2>2, <2>3
  <2>5. Len(fs) = Len(es)
    BY <1>2, <2>4, LenProperties
  <2> QED
    BY <2>2, <2>4, <2>5
<1> HIDE DEF fs
<1>5. ASSUME NEW i \in 1..Len(es), policy.maxContent # 0
      PROVE  /\ cleared(i) \in Entry
             /\ cleared(i).role = es[i].role
             /\ cleared(i).suppressed = es[i].suppressed
             /\ ~cleared(i).isStreaming
             /\ EntryFormed(policy, cleared(i))
             /\ i + policy.maxContent <= Len(es) => cleared(i).cleared
  <2> DEFINE e == fs[i]
  <2>1. /\ e \in Entry /\ e.role = es[i].role /\ e.suppressed = es[i].suppressed
        /\ ~e.isStreaming /\ EntryFormed(policy, e)
    BY <1>3, <1>4, <1>5
  <2> HIDE DEF e
  <2>2. CASE i + policy.maxContent <= Len(fs) /\ ~e.cleared
    <3>1. cleared(i) = [e EXCEPT !.text = <<>>, !.cleared = TRUE, !.redacted = TRUE]
      BY <2>2 DEF Cleared, e
    <3>2. <<>> \in Text
      BY EmptySeq DEF Text
    <3> DEFINE c == [e EXCEPT !.text = <<>>, !.cleared = TRUE, !.redacted = TRUE]
    <3>3. /\ c \in Entry /\ c.role = e.role /\ c.suppressed = e.suppressed
          /\ ~c.isStreaming /\ c.cleared /\ c.text = <<>> /\ c.redacted
      BY <2>1, <3>2 DEF Entry
    <3>4. c = cleared(i)
      BY <3>1
    <3> HIDE DEF c, cleared
    <3>5. EntryFormed(policy, c)
      BY <1>5, <3>3 DEF EntryFormed, Lossless
    <3> QED
      BY <2>1, <3>3, <3>4, <3>5
  <2>3. CASE ~(i + policy.maxContent <= Len(fs) /\ ~e.cleared)
    BY <1>4, <2>1, <2>3 DEF e
  <2> QED
    BY <2>2, <2>3
<1> HIDE DEF cleared
<1>6. policy.maxContent # 0 =>
      /\ gs \in Seq(Entry) /\ Len(gs) = Len(es)
      /\ \A i \in 1..Len(es) : gs[i] = cleared(i)
  <2> SUFFICES ASSUME policy.maxContent # 0
               PROVE  /\ gs \in Seq(Entry) /\ Len(gs) = Len(es)
                      /\ \A i \in 1..Len(es) : gs[i] = cleared(i)
    OBVIOUS
  <2>1. \A i \in 1..Len(es) : cleared(i) \in Entry
    BY <1>5
  <2>2. gs = [i \in 1..Len(es) |-> cleared(i)]
    BY <1>4
  <2>3. [i \in 1..Len(es) |-> cleared(i)] \in Seq(Entry)
    BY <1>2, <2>1, IsASeq
  <2>4. gs \in Seq(Entry) /\ DOMAIN gs = 1..Len(es)
    BY <2>2, <2>3
  <2>5. Len(gs) = Len(es)
    BY <1>2, <2>4, LenProperties
  <2> QED
    BY <2>2, <2>4, <2>5
<1> HIDE DEF gs
<1>7. CASE policy.maxContent = 0
  BY <1>1, <1>3, <1>4, <1>7
<1>8. CASE policy.maxContent # 0
  BY <1>1, <1>5, <1>6, <1>8 DEF Lossless
<1> QED
  BY <1>7, <1>8

(* So the run's end leaves the session fine, and what the handler and the  *)
(* client know of it as it was.                                            *)
LEMMA CloseTurnKeeps ==
  ASSUME policy \in Policy, NEW w, Good(policy, w)
  PROVE  Good(policy, Write(w, CloseTurn(w.entries), w.stream))
<1> DEFINE fs == CloseTurn(w.entries)
           v == Write(w, fs, w.stream)
<1>1. /\ w \in Worlds
      /\ w.entries \in Seq(Entry) /\ Len(w.entries) \in Nat
      /\ w.view \in [Indices -> Copy] /\ w.stream \in Streams
  BY WorldParts DEF Good
<1>2. \A i \in 1..Len(w.entries) : i \in Indices /\ Fine(policy, w, i)
  BY <1>1, BoundsAssumption DEF Good, Indices
<1>3. \A i \in 1..Len(w.entries) : EntryFormed(policy, w.entries[i])
  BY <1>2 DEF Fine
<1>4. /\ fs \in Seq(Entry) /\ Len(fs) = Len(w.entries)
      /\ \A i \in 1..Len(w.entries) :
           /\ fs[i].role = w.entries[i].role
           /\ fs[i].suppressed = w.entries[i].suppressed
           /\ ~fs[i].isStreaming
           /\ EntryFormed(policy, fs[i])
           /\ Lossless(policy) => Replayed(fs[i]) = Replayed(w.entries[i])
  BY <1>1, <1>3, ClosedTurn
<1> HIDE DEF fs
<1>5. v.entries = fs /\ v.view = w.view /\ v.stream = w.stream /\ v \in Worlds
  BY <1>1, <1>4 DEF Write, Worlds
<1> HIDE DEF v
<1>6. ASSUME NEW i \in Indices, i <= Len(w.entries)
      PROVE  Fine(policy, v, i)
  <2>1. i \in 1..Len(w.entries) /\ Fine(policy, w, i)
    BY <1>1, <1>2, <1>6, BoundsAssumption DEF Indices
  <2>2. IsOpen(v, i) <=> IsOpen(w, i)
    BY <1>5 DEF IsOpen
  <2>3. Referred(v, i)
    BY <1>4, <1>5, <2>1 DEF Fine, Referred
  <2>4. v.stream.open => Watched(policy, v, i)
    BY <1>4, <1>5, <2>1, <2>2 DEF Fine, Watched
  <2>5. LastTurn(v.entries, i) => LastTurn(w.entries, i)
    <3>1. /\ i \in Nat \ {0} /\ Len(w.entries) <= Len(v.entries) /\ v.entries \in Seq(Entry)
          /\ \A j \in 1..Len(w.entries) : v.entries[j].role = w.entries[j].role
      BY <1>1, <1>4, <1>5, <2>1
    <3> QED
      BY <1>1, <3>1, LastTurnBefore
  <2>6. Retractable(v, i)
    BY <1>4, <1>5, <2>1, <2>2, <2>5 DEF Fine, Retractable
  <2> QED
    BY <1>4, <1>5, <2>1, <2>3, <2>4, <2>6 DEF Fine
<1>7. ASSUME NEW i \in Indices, i > Len(w.entries)
      PROVE  Unused(v, i)
  BY <1>5, <1>7 DEF Good, Unused, IsOpen
<1>8. Good(policy, v)
  BY <1>4, <1>5, <1>6, <1>7 DEF Good
<1> QED
  BY <1>8 DEF v, fs

(***************************************************************************)
(* The actions, one at a time.                                             *)
(***************************************************************************)
Runs == [at : {"idle", "round", "stopped", "over"}, rounds : 0..MaxRounds, pending : BOOLEAN]

(* An action that leaves a good world behind, and keeps the rest.          *)
LEMMA StepTo ==
  ASSUME policy \in Policies, NEW w, Good(policy, w), Becomes(w), policy' = policy,
         run' \in Runs, saved' \in Seq(Entry), said' \in 0..MaxChunks, turns' \in 0..MaxTurns,
         SavedIsClosed',
         run'.at = "idle" => w.stream.held = <<>> /\ \A role \in Model : w.stream.index[role] = 0,
         w.stream.held # <<>> => Len(w.entries) < MaxEntries,
         run'.pending => run'.rounds < MaxRounds
  PROVE  StreamInv'
<1>1. w \in Worlds /\ Len(w.entries) <= MaxEntries
  BY DEF Good
<1>2. /\ w.entries \in Seq(Entry) /\ w.view \in [Indices -> Copy] /\ w.stream \in Streams
      /\ w = [entries |-> w.entries, view |-> w.view, stream |-> w.stream]
  BY <1>1 DEF Worlds
<1>3. entries' = w.entries /\ view' = w.view /\ stream' = w.stream
  BY DEF Becomes
<1>4. World' = w
  BY <1>2, <1>3 DEF World
<1>5. Good(policy', World')
  BY <1>4
<1>6. StreamTypeOK'
  BY <1>1, <1>2, <1>3 DEF StreamTypeOK, Streams, Runs
<1>7. RunInv'
  BY <1>3 DEF RunInv
<1> QED
  BY <1>5, <1>6, <1>7 DEF StreamInv

(* What the invariant says of the world as it is.                          *)
LEMMA WorldNow ==
  ASSUME StreamInv
  PROVE  /\ policy \in Policies /\ policy \in Policy
         /\ Good(policy, World)
         /\ World.entries = entries /\ World.view = view /\ World.stream = stream
         /\ entries \in Seq(Entry) /\ Len(entries) \in Nat
         /\ stream \in Streams /\ stream.held \in Text /\ stream.insideThinking \in BOOLEAN
         /\ run \in Runs /\ run.rounds \in 0..MaxRounds
         /\ saved \in Seq(Entry) /\ said \in 0..MaxChunks /\ turns \in 0..MaxTurns
         /\ SavedIsClosed
         /\ run.at = "idle" => stream.held = <<>> /\ \A role \in Model : stream.index[role] = 0
         /\ stream.held # <<>> => Len(entries) < MaxEntries
         /\ run.pending => run.rounds < MaxRounds
<1>1. /\ policy \in Policies /\ run \in Runs /\ saved \in Seq(Entry)
      /\ said \in 0..MaxChunks /\ turns \in 0..MaxTurns /\ entries \in Seq(Entry)
      /\ stream \in Streams
  BY DEF StreamInv, StreamTypeOK, Runs, Streams
<1>2. Len(entries) \in Nat
  BY <1>1, LenProperties
<1>3. /\ run.rounds \in 0..MaxRounds /\ stream.held \in Text /\ stream.insideThinking \in BOOLEAN
  BY <1>1 DEF Runs, Streams
<1>4. World.entries = entries /\ World.view = view /\ World.stream = stream
  BY DEF World
<1> QED
  BY <1>1, <1>2, <1>3, <1>4, PoliciesAssumption DEF StreamInv, RunInv

(* The text of a user's message and of a tool's entry.                     *)
LEMMA GivenText ==
  <<MaxChunks + 1>> \in Text
<1>1. MaxChunks + 1 \in 1..(MaxChunks + 1)
  BY BoundsAssumption
<1>2. \A n \in 1..(MaxChunks + 1) : <<n>> \in Seq(1..(MaxChunks + 1))
  OBVIOUS
<1> QED
  BY <1>1, <1>2 DEF Text

(* Their entries.                                                          *)
LEMMA GivenEntry ==
  ASSUME NEW role \in {"user", "tool"}, NEW e,
         e = [Opened(role) EXCEPT !.text = <<MaxChunks + 1>>]
  PROVE  e \in Entry /\ e.role = role /\ ~e.cleared /\ ~e.isStreaming /\ ~e.suppressed
<1> DEFINE text == <<MaxChunks + 1>>
           o == Opened(role)
<1>1. text \in Text
  BY GivenText
<1>2. e = [o EXCEPT !.text = text]
  OBVIOUS
<1>3. (role \in Model) = FALSE
  BY DEF Model
<1>4. /\ o.role = role /\ o.isStreaming = FALSE /\ o.suppressed = FALSE /\ o.cleared = FALSE
  BY <1>3 DEF Opened
<1>5. o \in Entry
  <2>1. <<>> \in Text
    BY EmptySeq DEF Text
  <2>2. role \in Roles /\ (role \in Model) \in BOOLEAN
    BY DEF Roles
  <2> QED
    BY <2>1, <2>2 DEF Opened, Entry
<1> HIDE DEF text, o
<1> QED
  BY <1>1, <1>2, <1>4, <1>5 DEF Entry

(* A user message.                                                         *)
LEMMA StartTurnKeeps ==
  ASSUME StreamInv, StartTurn
  PROVE  StreamInv'
<1> DEFINE e == [Opened("user") EXCEPT !.text = <<MaxChunks + 1>>]
           i == Len(entries) + 1
           es == AppendEntry(entries, e)
           v == Send([entries |-> es, view |-> view, stream |-> NewStream], Upsert(view, i, e))
           w == World
<1>1. /\ run.at = "idle" /\ stream.open /\ turns < MaxTurns /\ Len(entries) < MaxEntries
      /\ turns' = turns + 1 /\ run' = [Idle EXCEPT !.at = "round"]
      /\ Becomes(v)
      /\ policy' = policy /\ saved' = saved /\ said' = said
  BY DEF StartTurn
<1>2. /\ policy \in Policies /\ policy \in Policy
      /\ Good(policy, w)
      /\ w.entries = entries /\ w.view = view /\ w.stream = stream
      /\ saved \in Seq(Entry) /\ said \in 0..MaxChunks /\ turns \in 0..MaxTurns
      /\ SavedIsClosed
      /\ run.at = "idle" => \A role \in Model : stream.index[role] = 0
  BY WorldNow
<1>3. /\ e \in Entry /\ e.role = "user" /\ ~e.cleared /\ ~e.isStreaming /\ ~e.suppressed
  BY GivenEntry
<1> HIDE DEF e, w
<1>4. Write(w, es, NewStream) = [entries |-> es, view |-> view, stream |-> NewStream]
  BY <1>2 DEF Write
<1>5. /\ Connected(w) /\ \A role \in Model : w.stream.index[role] = 0
      /\ Len(w.entries) < MaxEntries /\ es = AppendEntry(w.entries, e) /\ i = Len(w.entries) + 1
      /\ v = Send(Write(w, es, NewStream), Upsert(w.view, i, e))
  BY <1>1, <1>2, <1>4 DEF Connected
<1> HIDE DEF v, es, i
<1>6. Good(policy, v) /\ v.stream = NewStream
  BY <1>2, <1>3, <1>5, UserEntry
<1>7. v.stream.held = <<>>
  BY <1>6 DEF NewStream
<1>8. /\ run' \in Runs /\ run'.at # "idle" /\ turns' \in 0..MaxTurns
      /\ ~run'.pending
  <2>1. run' = [at |-> "round", rounds |-> 0, pending |-> FALSE]
    BY <1>1 DEF Idle
  <2>2. 0 \in 0..MaxRounds /\ turns' \in 0..MaxTurns
    BY <1>1, <1>2, BoundsAssumption
  <2> QED
    BY <2>1, <2>2 DEF Runs
<1>9. SavedIsClosed'
  BY <1>1, <1>2 DEF SavedIsClosed
<1> QED
  BY <1>1, <1>2, <1>6, <1>7, <1>8, <1>9, StepTo

(* A tool the model calls.                                                 *)
LEMMA ToolUseChunkKeeps ==
  ASSUME StreamInv, ToolUseChunk
  PROVE  StreamInv'
<1> DEFINE e == [Opened("tool") EXCEPT !.text = <<MaxChunks + 1>>]
           i == Len(entries) + 1
           es == AppendEntry(entries, e)
           v == Send(Write(World, es, stream), Upsert(view, i, es[i]))
           w == World
<1>1. /\ run.at = "round" /\ i < MaxEntries /\ run.rounds < MaxRounds
      /\ run' = [run EXCEPT !.pending = TRUE]
      /\ Becomes(v)
      /\ policy' = policy /\ saved' = saved /\ said' = said /\ turns' = turns
  BY DEF ToolUseChunk
<1>2. /\ policy \in Policies /\ policy \in Policy
      /\ Good(policy, w)
      /\ w.entries = entries /\ w.view = view /\ w.stream = stream
      /\ Len(entries) \in Nat /\ run \in Runs
      /\ saved \in Seq(Entry) /\ said \in 0..MaxChunks /\ turns \in 0..MaxTurns
      /\ SavedIsClosed
  BY WorldNow
<1>3. /\ e \in Entry /\ e.role = "tool" /\ ~e.cleared /\ ~e.isStreaming /\ ~e.suppressed
  BY GivenEntry
<1> HIDE DEF e
<1>4. /\ Len(w.entries) < MaxEntries /\ es = AppendEntry(w.entries, e) /\ i = Len(w.entries) + 1
      /\ v = Send(Write(w, es, w.stream), Upsert(w.view, i, es[i]))
  BY <1>1, <1>2, BoundsAssumption
<1> HIDE DEF v, es, i, w
<1>5. Good(policy, v) /\ Len(v.entries) = i /\ v.stream = w.stream
  BY <1>2, <1>3, <1>4, AnnouncedEntry
<1>6. /\ run' \in Runs /\ run'.at # "idle" /\ run'.rounds < MaxRounds
  BY <1>1, <1>2 DEF Runs
<1>7. SavedIsClosed'
  BY <1>1, <1>2 DEF SavedIsClosed
<1>8. v.stream.held # <<>> => Len(v.entries) < MaxEntries
  BY <1>1, <1>5
<1> QED
  BY <1>1, <1>2, <1>5, <1>6, <1>7, <1>8, StepTo

(* The end of a provider's round.                                          *)
LEMMA CommitOpenKeeps ==
  ASSUME policy \in Policy, NEW w, Good(policy, w)
  PROVE  /\ Good(policy, CommitOpenEntries(w))
         /\ Len(CommitOpenEntries(w).entries) = Len(w.entries)
         /\ \A role \in Model : CommitOpenEntries(w).stream.index[role] = 0
         /\ CommitOpenEntries(w).stream.open = w.stream.open
         /\ CommitOpenEntries(w).stream.held = w.stream.held
<1> DEFINE u == CommitAndClear(w, "thinking")
           v == CommitAndClear(u, "assistant")
<1>1. /\ "thinking" \in Model /\ "assistant" \in Model
      /\ \A role \in Model : role = "thinking" \/ role = "assistant"
  BY DEF Model
<1>2. w.stream.index \in [Model -> {0} \union Indices]
  BY WorldParts DEF Good
<1>3. /\ Good(policy, u) /\ Len(u.entries) = Len(w.entries)
      /\ u.stream.index = [w.stream.index EXCEPT !["thinking"] = 0]
      /\ u.stream.open = w.stream.open /\ u.stream.held = w.stream.held
  BY <1>1, CommitAndClearKeeps
<1>4. v = CommitOpenEntries(w)
  BY DEF CommitOpenEntries
<1> HIDE DEF u
<1>5. /\ Good(policy, v) /\ Len(v.entries) = Len(u.entries)
      /\ v.stream.index = [u.stream.index EXCEPT !["assistant"] = 0]
      /\ v.stream.open = u.stream.open /\ v.stream.held = u.stream.held
  BY <1>1, <1>3, CommitAndClearKeeps
<1> HIDE DEF v
<1>6. \A role \in Model : v.stream.index[role] = 0
  BY <1>1, <1>2, <1>3, <1>5
<1> QED
  BY <1>3, <1>4, <1>5, <1>6

(* A stop chunk flushes, then commits what is open.                        *)
LEMMA StopChunkKeeps ==
  ASSUME StreamInv, StopChunk
  PROVE  StreamInv'
<1> DEFINE w == World
           u == FlushHeldText(w)
           v == CommitOpenEntries(u)
<1>1. /\ run' = [run EXCEPT !.at = "stopped"]
      /\ Becomes(v)
      /\ policy' = policy /\ saved' = saved /\ said' = said /\ turns' = turns
  BY DEF StopChunk
<1>2. /\ policy \in Policies /\ policy \in Policy
      /\ Good(policy, w)
      /\ w.stream.held # <<>> => Len(w.entries) < MaxEntries
      /\ run \in Runs /\ (run.pending => run.rounds < MaxRounds)
      /\ saved \in Seq(Entry) /\ said \in 0..MaxChunks /\ turns \in 0..MaxTurns
      /\ SavedIsClosed
  BY WorldNow
<1> HIDE DEF w
<1>3. Good(policy, u) /\ u.stream.held = <<>>
  BY <1>2, FlushKeeps
<1> HIDE DEF u
<1>4. Good(policy, v) /\ v.stream.held = <<>>
  BY <1>2, <1>3, CommitOpenKeeps
<1> HIDE DEF v
<1>5. /\ run' \in Runs /\ run'.at # "idle" /\ (run'.pending => run'.rounds < MaxRounds)
  BY <1>1, <1>2 DEF Runs
<1>6. SavedIsClosed'
  BY <1>1, <1>2 DEF SavedIsClosed
<1> QED
  BY <1>1, <1>2, <1>4, <1>5, <1>6, StepTo

(* The texts of a chunk.                                                   *)
LEMMA ChunkText ==
  ASSUME NEW held \in Text, NEW n \in 1..(MaxChunks + 1)
  PROVE  <<n>> \in Text /\ <<>> \in Text /\ Append(held, n) \in Text
<1>1. \A k \in 1..(MaxChunks + 1) : <<k>> \in Seq(1..(MaxChunks + 1))
  OBVIOUS
<1>2. Append(held, n) \in Seq(1..(MaxChunks + 1))
  BY AppendProperties DEF Text
<1> QED
  BY <1>1, <1>2, EmptySeq DEF Text

Count(b) == IF b THEN 1 ELSE 0

(* One span of a chunk.                                                    *)
LEMMA SpokenKeeps ==
  ASSUME policy \in Policy, NEW w, Good(policy, w), stream.held \in Text,
         NEW n \in 1..(MaxChunks + 1), NEW k, NEW full,
         k \in full => Len(w.entries) < MaxEntries
  PROVE  /\ Good(policy, Spoken(w, full, k, n))
         /\ Len(Spoken(w, full, k, n).entries) \in Nat
         /\ Len(Spoken(w, full, k, n).entries) <= Len(w.entries) + Count(k \in full)
         /\ Spoken(w, full, k, n).stream.held = w.stream.held
<1>1. Len(w.entries) \in Nat
  BY WorldParts DEF Good
<1>2. CASE k \notin full
  BY <1>1, <1>2 DEF Spoken, Count
<1>3. CASE k \in full
  <2> DEFINE segment == Span(k, n)
  <2>1. <<n>> \in Text /\ Append(stream.held, n) \in Text
    BY ChunkText
  <2>2. segment \in Segment
    <3>1. (IF k = 0 THEN Append(stream.held, n) ELSE <<n>>) \in Text
      BY <2>1
    <3>2. (IF (k % 2 = 1) # stream.insideThinking THEN "thinking" ELSE "text") \in {"thinking", "text"}
      OBVIOUS
    <3> QED
      BY <3>1, <3>2 DEF Span, Segment
  <2>3. Spoken(w, full, k, n) = TextSegment(w, segment)
    BY <1>3 DEF Spoken
  <2> HIDE DEF segment
  <2>4. /\ Good(policy, TextSegment(w, segment))
        /\ Len(TextSegment(w, segment).entries) \in Len(w.entries)..(Len(w.entries) + 1)
        /\ TextSegment(w, segment).stream.held = w.stream.held
    BY <1>3, <2>2, TextSegmentKeeps
  <2> QED
    BY <1>1, <1>3, <2>3, <2>4 DEF Count
<1> QED
  BY <1>2, <1>3

(* As many spans are not empty as are members of full.                     *)
LEMMA FullSpans ==
  ASSUME NEW full \in SUBSET (0..2)
  PROVE  /\ Cardinality(full) \in Nat
         /\ Count(0 \in full) + Count(1 \in full) + Count(2 \in full) <= Cardinality(full)
<1>1. IsFiniteSet(full)
  <2> DEFINE first == 0
             last == 2
  <2>1. first \in Int /\ last \in Int
    OBVIOUS
  <2> HIDE DEF first, last
  <2>2. IsFiniteSet(first..last)
    BY <2>1, FS_Interval
  <2>3. full \in SUBSET (first..last)
    BY DEF first, last
  <2> QED
    BY <2>2, <2>3, FS_Subset
<1> DEFINE a == full \ {0}
           b == a \ {1}
           c == b \ {2}
<1>2. IsFiniteSet(a) /\ Cardinality(a) = IF 0 \in full THEN Cardinality(full) - 1 ELSE Cardinality(full)
  BY <1>1, FS_RemoveElement
<1>3. (1 \in a <=> 1 \in full) /\ (2 \in b <=> 2 \in full)
  OBVIOUS
<1> HIDE DEF a
<1>4. IsFiniteSet(b) /\ Cardinality(b) = IF 1 \in a THEN Cardinality(a) - 1 ELSE Cardinality(a)
  BY <1>2, FS_RemoveElement
<1> HIDE DEF b
<1>5. IsFiniteSet(c) /\ Cardinality(c) = IF 2 \in b THEN Cardinality(b) - 1 ELSE Cardinality(b)
  BY <1>4, FS_RemoveElement
<1> HIDE DEF c
<1>6. Cardinality(full) \in Nat /\ Cardinality(a) \in Nat /\ Cardinality(b) \in Nat /\ Cardinality(c) \in Nat
  BY <1>1, <1>2, <1>4, <1>5, FS_CardinalityType
<1> QED
  BY <1>2, <1>3, <1>4, <1>5, <1>6 DEF Count

(* A text chunk: the spans one after the other.                            *)
LEMMA TextChunkKeeps ==
  ASSUME StreamInv, NEW tags \in 0..2, NEW full \in SUBSET (0..tags), NEW holds \in BOOLEAN,
         TextChunk(tags, full, holds)
  PROVE  StreamInv'
<1> DEFINE n == said + 1
           held == HeldBack(tags, full, holds, n)
           s == [stream EXCEPT !.held = held, !.insideThinking = (tags % 2 = 1) # @]
           w == World
           p == Write(w, entries, s)
           u == Spoken(p, full, 0, n)
           v == Spoken(u, full, 1, n)
           x == Spoken(v, full, 2, n)
<1>1. /\ run.at \in {"round", "stopped"} /\ said < MaxChunks
      /\ Len(entries) + Cardinality(full) + 1 <= MaxEntries
      /\ said' = n
      /\ Becomes(x)
      /\ policy' = policy /\ run' = run /\ saved' = saved /\ turns' = turns
  BY DEF TextChunk
<1>2. /\ policy \in Policies /\ policy \in Policy
      /\ Good(policy, w)
      /\ w.entries = entries /\ w.stream = stream
      /\ Len(entries) \in Nat /\ stream \in Streams
      /\ stream.held \in Text /\ stream.insideThinking \in BOOLEAN
      /\ run \in Runs /\ (run.pending => run.rounds < MaxRounds)
      /\ saved \in Seq(Entry) /\ said \in 0..MaxChunks /\ turns \in 0..MaxTurns
      /\ SavedIsClosed
  BY WorldNow
<1>3. n \in 1..(MaxChunks + 1) /\ n \in 0..MaxChunks /\ MaxEntries \in Nat
  BY <1>1, <1>2, BoundsAssumption
<1>4. full \in SUBSET (0..2)
  OBVIOUS
<1>5. /\ Cardinality(full) \in Nat
      /\ Count(0 \in full) + Count(1 \in full) + Count(2 \in full) <= Cardinality(full)
  BY <1>4, FullSpans
<1> HIDE DEF n, w
<1>6. held \in Text
  BY <1>2, <1>3, ChunkText DEF HeldBack
<1> HIDE DEF held
<1>7. /\ s \in Streams /\ s.index = stream.index /\ s.suppressOutput = stream.suppressOutput
      /\ s.blankable = stream.blankable /\ s.open = stream.open
  <2>1. ((tags % 2 = 1) # stream.insideThinking) \in BOOLEAN
    OBVIOUS
  <2> DEFINE b == (tags % 2 = 1) # stream.insideThinking
             t == [stream EXCEPT !.held = held]
  <2>2. /\ t \in Streams /\ t.index = stream.index /\ t.suppressOutput = stream.suppressOutput
        /\ t.blankable = stream.blankable /\ t.open = stream.open /\ t.insideThinking = stream.insideThinking
    BY <1>2, <1>6 DEF Streams
  <2>3. s = [t EXCEPT !.insideThinking = b]
    BY <2>2
  <2>4. b \in BOOLEAN
    BY <2>1
  <2> HIDE DEF b, t, s
  <2> QED
    BY <2>2, <2>3, <2>4 DEF Streams
<1> HIDE DEF s
<1>8. Good(policy, p) /\ p.entries = entries
  <2>1. Good(policy, Write(w, w.entries, s))
    BY <1>2, <1>7, OtherStream
  <2> QED
    BY <1>2, <2>1 DEF Write
<1> HIDE DEF p
<1> DEFINE a == Count(0 \in full)
           b == Count(1 \in full)
           c == Count(2 \in full)
<1>16. /\ a \in {0, 1} /\ (0 \in full => a = 1)
       /\ b \in {0, 1} /\ (1 \in full => b = 1)
       /\ c \in {0, 1} /\ (2 \in full => c = 1)
  BY DEF Count
<1>17. Cardinality(full) \in Nat /\ a + b + c <= Cardinality(full)
  BY <1>5
<1>9. /\ Good(policy, u)
      /\ Len(u.entries) \in Nat /\ Len(u.entries) <= Len(entries) + a
  <2>1. 0 \in full => Len(p.entries) < MaxEntries
    BY <1>1, <1>2, <1>3, <1>17, <1>8, <1>16
  <2>2. /\ Good(policy, u)
        /\ Len(u.entries) \in Nat /\ Len(u.entries) <= Len(p.entries) + Count(0 \in full)
    BY <1>2, <1>3, <1>4, <1>8, <2>1, SpokenKeeps
  <2>3. Len(u.entries) \in Nat /\ Len(u.entries) <= Len(p.entries) + a
    BY <2>2
  <2> HIDE DEF a
  <2> QED
    BY <1>2, <1>8, <1>16, <2>2, <2>3
<1> HIDE DEF u
<1>10. /\ Good(policy, v)
       /\ Len(v.entries) \in Nat /\ Len(v.entries) <= Len(entries) + a + b
  <2>1. 1 \in full => Len(u.entries) < MaxEntries
    BY <1>1, <1>2, <1>3, <1>17, <1>9, <1>16
  <2>2. /\ Good(policy, v)
        /\ Len(v.entries) \in Nat /\ Len(v.entries) <= Len(u.entries) + Count(1 \in full)
    BY <1>2, <1>3, <1>4, <1>9, <2>1, SpokenKeeps
  <2>3. Len(v.entries) \in Nat /\ Len(v.entries) <= Len(u.entries) + b
    BY <2>2
  <2> HIDE DEF a, b
  <2> QED
    BY <1>2, <1>9, <1>16, <2>2, <2>3
<1> HIDE DEF v
<1>11. /\ Good(policy, x)
       /\ Len(x.entries) \in Nat
       /\ Len(x.entries) <= Len(entries) + a + b + c
  <2>1. 2 \in full => Len(v.entries) < MaxEntries
    BY <1>1, <1>2, <1>3, <1>17, <1>10, <1>16
  <2>2. /\ Good(policy, x)
        /\ Len(x.entries) \in Nat /\ Len(x.entries) <= Len(v.entries) + Count(2 \in full)
    BY <1>2, <1>3, <1>4, <1>10, <2>1, SpokenKeeps
  <2>3. Len(x.entries) \in Nat /\ Len(x.entries) <= Len(v.entries) + c
    BY <2>2
  <2> HIDE DEF a, b, c
  <2> QED
    BY <1>2, <1>10, <1>16, <2>2, <2>3
<1> HIDE DEF x, a, b, c
<1>12. Len(x.entries) < MaxEntries
  BY <1>1, <1>2, <1>3, <1>17, <1>11, <1>16
<1>13. SavedIsClosed'
  BY <1>1, <1>2 DEF SavedIsClosed
<1>14. /\ run' \in Runs /\ run'.at # "idle" /\ said' \in 0..MaxChunks
       /\ run'.pending => run'.rounds < MaxRounds
  BY <1>1, <1>2, <1>3
<1> QED
  BY <1>1, <1>2, <1>11, <1>12, <1>13, <1>14, StepTo

(* The tools of a round.                                                   *)
LEMMA ToolsRanKeeps ==
  ASSUME StreamInv, NEW returns \in BOOLEAN, NEW suppresses \in BOOLEAN,
         ToolsRan(returns, suppresses)
  PROVE  StreamInv'
<1> DEFINE e == [Opened("tool") EXCEPT !.text = <<MaxChunks + 1>>]
           i == Len(entries) + 1
           es == AppendEntry(entries, e)
           w == World
           sent == Send(Write(w, es, stream), Upsert(view, i, es[i]))
           shown == IF ~returns THEN w ELSE sent
           u == CommitOpenEntries(shown)
           x == IF suppresses THEN Suppress(shown) ELSE shown
<1>1. /\ stream.open
      /\ returns => i < MaxEntries
      /\ run' = [at |-> "round", rounds |-> run.rounds + 1, pending |-> FALSE]
      /\ Becomes(x)
      /\ policy' = policy /\ saved' = saved /\ said' = said /\ turns' = turns
      /\ run.at = "stopped" /\ run.pending
  BY DEF ToolsRan
<1>2. /\ policy \in Policies /\ policy \in Policy
      /\ Good(policy, w)
      /\ w.entries = entries /\ w.view = view /\ w.stream = stream
      /\ Len(entries) \in Nat /\ run.rounds \in 0..MaxRounds
      /\ run.pending => run.rounds < MaxRounds
      /\ saved \in Seq(Entry) /\ said \in 0..MaxChunks /\ turns \in 0..MaxTurns
      /\ SavedIsClosed
      /\ stream.held # <<>> => Len(entries) < MaxEntries
  BY WorldNow
<1>3. /\ e \in Entry /\ e.role = "tool" /\ ~e.cleared /\ ~e.isStreaming /\ ~e.suppressed
  BY GivenEntry
<1>4. Suppress(shown) = Blanked(u)
  BY DEF Suppress
<1> HIDE DEF e
<1>5. returns => Good(policy, sent) /\ Len(sent.entries) = i /\ sent.stream = w.stream
  <2> SUFFICES ASSUME returns
               PROVE  Good(policy, sent) /\ Len(sent.entries) = i /\ sent.stream = w.stream
    OBVIOUS
  <2>1. /\ Len(w.entries) < MaxEntries /\ es = AppendEntry(w.entries, e) /\ i = Len(w.entries) + 1
        /\ sent = Send(Write(w, es, w.stream), Upsert(w.view, i, es[i]))
    BY <1>1, <1>2, BoundsAssumption
  <2> HIDE DEF sent, es, i, w
  <2> QED
    BY <1>2, <1>3, <2>1, AnnouncedEntry
<1> HIDE DEF sent
<1>6. /\ Good(policy, shown) /\ shown.stream = stream
      /\ shown.stream.held # <<>> => Len(shown.entries) < MaxEntries
  BY <1>1, <1>2, <1>5
<1> HIDE DEF shown, w
<1>7. /\ Good(policy, u) /\ Len(u.entries) = Len(shown.entries)
      /\ \A role \in Model : u.stream.index[role] = 0
      /\ u.stream.open = shown.stream.open
      /\ u.stream.held = shown.stream.held
  BY <1>2, <1>6, CommitOpenKeeps
<1>8. Connected(u)
  BY <1>1, <1>6, <1>7 DEF Connected
<1> HIDE DEF u
<1>9. Good(policy, x) /\ (x.stream.held # <<>> => Len(x.entries) < MaxEntries)
  <2>1. CASE suppresses
    <3>1. x = Blanked(u)
      BY <1>4, <2>1
    <3>2. /\ Good(policy, Blanked(u)) /\ Len(Blanked(u).entries) = Len(u.entries)
          /\ Blanked(u).stream.held = u.stream.held
      BY <1>2, <1>7, <1>8, BlankedKeeps
    <3> QED
      BY <1>6, <1>7, <3>1, <3>2
  <2>2. CASE ~suppresses
    BY <1>6, <2>2
  <2> QED
    BY <2>1, <2>2
<1> HIDE DEF x
<1>10. run' \in Runs /\ run'.at # "idle" /\ ~run'.pending
  <2>1. run.rounds + 1 \in 0..MaxRounds
    BY <1>1, <1>2, BoundsAssumption
  <2> QED
    BY <1>1, <2>1 DEF Runs
<1>11. SavedIsClosed'
  BY <1>1, <1>2 DEF SavedIsClosed
<1> QED
  BY <1>1, <1>2, <1>9, <1>10, <1>11, StepTo

(* The run is over: the session is closed, and saved as it is then.        *)
LEMMA EndRunKeeps ==
  ASSUME StreamInv, EndRun
  PROVE  StreamInv'
<1> DEFINE w == World
           fs == CloseTurn(entries)
           x == Write(w, fs, w.stream)
<1>1. /\ run.at \in {"round", "stopped"}
      /\ run' = [run EXCEPT !.at = "over"]
      /\ entries' = fs /\ saved' = fs
      /\ policy' = policy /\ view' = view /\ stream' = stream /\ said' = said /\ turns' = turns
  BY DEF EndRun
<1>2. /\ policy \in Policies /\ policy \in Policy
      /\ Good(policy, w)
      /\ w.entries = entries /\ w.view = view /\ w.stream = stream
      /\ entries \in Seq(Entry) /\ Len(entries) \in Nat
      /\ run \in Runs
      /\ said \in 0..MaxChunks /\ turns \in 0..MaxTurns
      /\ stream.held # <<>> => Len(entries) < MaxEntries
      /\ run.pending => run.rounds < MaxRounds
  BY WorldNow
<1>3. \A i \in 1..Len(entries) : EntryFormed(policy, entries[i])
  <2>1. \A i \in 1..Len(entries) : i \in Indices /\ i <= Len(w.entries)
    BY <1>2, BoundsAssumption DEF Good, Indices
  <2> QED
    BY <1>2, <2>1 DEF Good, Fine
<1>4. /\ fs \in Seq(Entry) /\ Len(fs) = Len(entries)
      /\ \A i \in 1..Len(entries) :
           /\ ~fs[i].isStreaming
           /\ policy.maxContent # 0 /\ i + policy.maxContent <= Len(entries) => fs[i].cleared
  BY <1>2, <1>3, ClosedTurn
<1>5. Good(policy, x)
  <2>1. fs = CloseTurn(w.entries)
    BY <1>2
  <2> HIDE DEF fs, w
  <2> QED
    BY <1>2, <2>1, CloseTurnKeeps
<1> HIDE DEF fs
<1>6. x.entries = fs /\ x.view = view /\ x.stream = stream
  BY <1>2 DEF Write
<1> HIDE DEF x, w
<1>7. Becomes(x)
  BY <1>1, <1>6 DEF Becomes
<1>8. SavedIsClosed'
  <2>1. DOMAIN fs = 1..Len(entries)
    BY <1>4, LenProperties
  <2> QED
    BY <1>1, <1>4, <2>1 DEF SavedIsClosed
<1>9. /\ run' \in Runs /\ run'.at # "idle" /\ (run'.pending => run'.rounds < MaxRounds)
  BY <1>1, <1>2 DEF Runs
<1>10. x.stream.held # <<>> => Len(x.entries) < MaxEntries
  BY <1>2, <1>4, <1>6
<1> QED
  BY <1>1, <1>2, <1>4, <1>5, <1>7, <1>8, <1>9, <1>10, StepTo

(* The turn is over: what was cut short is flushed and closed.             *)
LEMMA EndTurnKeeps ==
  ASSUME StreamInv, EndTurn
  PROVE  StreamInv'
<1> DEFINE w == World
           t == FlushHeldText(w)
           u == CloseCutOff(t, "thinking")
           x == CloseCutOff(u, "assistant")
<1>1. /\ run' = Idle
      /\ Becomes(x)
      /\ policy' = policy /\ saved' = saved /\ said' = said /\ turns' = turns
  BY DEF EndTurn
<1>2. /\ policy \in Policies /\ policy \in Policy
      /\ Good(policy, w)
      /\ w.stream.held # <<>> => Len(w.entries) < MaxEntries
      /\ saved \in Seq(Entry) /\ said \in 0..MaxChunks /\ turns \in 0..MaxTurns
      /\ SavedIsClosed
  BY WorldNow
<1>3. /\ "thinking" \in Model /\ "assistant" \in Model
      /\ \A role \in Model : role = "thinking" \/ role = "assistant"
  BY DEF Model
<1> HIDE DEF w
<1>4. Good(policy, t) /\ t.stream.held = <<>>
  BY <1>2, FlushKeeps
<1> HIDE DEF t
<1>5. t.stream.index \in [Model -> {0} \union Indices]
  BY <1>4, WorldParts DEF Good
<1>6. /\ Good(policy, u)
      /\ u.stream.index = [t.stream.index EXCEPT !["thinking"] = 0]
      /\ u.stream.held = t.stream.held
  BY <1>2, <1>3, <1>4, CloseCutOffKeeps
<1> HIDE DEF u
<1>7. /\ Good(policy, x)
      /\ x.stream.index = [u.stream.index EXCEPT !["assistant"] = 0]
      /\ x.stream.held = u.stream.held
  BY <1>2, <1>3, <1>6, CloseCutOffKeeps
<1> HIDE DEF x
<1>8. x.stream.held = <<>> /\ \A role \in Model : x.stream.index[role] = 0
  BY <1>3, <1>4, <1>5, <1>6, <1>7
<1>9. run' \in Runs /\ ~run'.pending
  BY <1>1, BoundsAssumption DEF Runs, Idle
<1>10. SavedIsClosed'
  BY <1>1, <1>2 DEF SavedIsClosed
<1> QED
  BY <1>1, <1>2, <1>7, <1>8, <1>9, <1>10, StepTo

(* The socket is gone.                                                     *)
LEMMA SocketClosesKeeps ==
  ASSUME StreamInv, SocketCloses
  PROVE  StreamInv'
<1> DEFINE w == World
           s == [stream EXCEPT !.open = FALSE]
           x == Write(w, w.entries, s)
<1>1. /\ stream' = s
      /\ policy' = policy /\ entries' = entries /\ view' = view /\ run' = run
      /\ saved' = saved /\ said' = said /\ turns' = turns
  BY DEF SocketCloses
<1>2. /\ policy \in Policies /\ Good(policy, w)
      /\ w.entries = entries /\ w.view = view /\ w.stream = stream
      /\ stream \in Streams /\ run \in Runs
      /\ saved \in Seq(Entry) /\ said \in 0..MaxChunks /\ turns \in 0..MaxTurns
      /\ SavedIsClosed
      /\ run.at = "idle" => stream.held = <<>> /\ \A role \in Model : stream.index[role] = 0
      /\ stream.held # <<>> => Len(entries) < MaxEntries
      /\ run.pending => run.rounds < MaxRounds
  BY WorldNow
<1>3. /\ s \in Streams /\ s.index = stream.index /\ s.suppressOutput = stream.suppressOutput
      /\ s.blankable = stream.blankable /\ s.held = stream.held /\ ~s.open
  BY <1>2 DEF Streams
<1> HIDE DEF s, w
<1>4. Good(policy, x)
  BY <1>2, <1>3, OtherStream
<1>5. x.entries = entries /\ x.view = view /\ x.stream = s
  BY <1>2 DEF Write
<1> HIDE DEF x
<1>6. Becomes(x)
  BY <1>1, <1>5 DEF Becomes
<1>7. SavedIsClosed'
  BY <1>1, <1>2 DEF SavedIsClosed
<1>8. /\ run'.at = "idle" => x.stream.held = <<>> /\ \A role \in Model : x.stream.index[role] = 0
      /\ x.stream.held # <<>> => Len(x.entries) < MaxEntries
      /\ run'.pending => run'.rounds < MaxRounds
  BY <1>1, <1>2, <1>3, <1>5
<1>9. run' \in Runs /\ saved' \in Seq(Entry) /\ said' \in 0..MaxChunks /\ turns' \in 0..MaxTurns
  BY <1>1, <1>2
<1> QED
  BY <1>1, <1>2, <1>4, <1>6, <1>7, <1>8, <1>9, StepTo

(***************************************************************************)
(* The theorems.                                                           *)
(***************************************************************************)
(* Before the first turn there is nothing.                                 *)
LEMMA StreamInvInit ==
  ASSUME StreamInit
  PROVE  StreamInv
<1>1. /\ policy \in Policies /\ entries = <<>> /\ saved = <<>>
      /\ view = [i \in Indices |-> Unknown] /\ stream = NewStream /\ run = Idle
      /\ said = 0 /\ turns = 0
  BY DEF StreamInit
<1>2. /\ <<>> \in Text /\ <<>> \in Seq(Entry) /\ Len(<<>>) = 0
      /\ 0 \in 0..MaxRounds /\ 0 \in 0..MaxChunks /\ 0 \in 0..MaxTurns
      /\ MaxEntries \in Nat /\ 0 \notin Indices /\ \A i \in Indices : i > 0
  BY EmptySeq, BoundsAssumption DEF Text, Indices
<1>3. Unknown \in Copy
  BY <1>2 DEF Unknown, Copy
<1>4. view \in [Indices -> Copy]
  BY <1>1, <1>3
<1>5. stream \in Streams
  <2>1. [r \in Model |-> 0] \in [Model -> {0} \union Indices]
    OBVIOUS
  <2> QED
    BY <1>1, <1>2, <2>1 DEF NewStream, Streams
<1>6. /\ \A r \in Model : stream.index[r] = 0
      /\ stream.blankable = {} /\ stream.held = <<>>
  BY <1>1 DEF NewStream
<1>7. run \in Runs /\ ~run.pending
  BY <1>1, <1>2 DEF Runs, Idle
<1>8. StreamTypeOK
  BY <1>1, <1>2, <1>4, <1>5, <1>7 DEF StreamTypeOK, Streams, Runs
<1>9. World \in Worlds
  BY <1>1, <1>2, <1>4, <1>5 DEF World, Worlds
<1>10. World.entries = <<>> /\ World.view = view /\ World.stream = stream
  BY <1>1 DEF World
<1>11. ASSUME NEW i \in Indices
       PROVE  /\ ~World.view[i].confused
              /\ ~(i <= Len(World.entries))
              /\ Unused(World, i)
  <2>1. World.view[i] = Unknown
    BY <1>1, <1>10
  <2>2. Unused(World, i)
    BY <1>2, <1>6, <1>10, <2>1 DEF Unused, IsOpen
  <2>3. ~(i <= Len(World.entries))
    BY <1>2, <1>10, <1>11, BoundsAssumption DEF Indices
  <2> QED
    BY <2>1, <2>2, <2>3 DEF Unknown
<1>12. Good(policy, World)
  BY <1>2, <1>9, <1>10, <1>11 DEF Good
<1>13. SavedIsClosed
  BY <1>1 DEF SavedIsClosed
<1> QED
  BY <1>6, <1>7, <1>8, <1>12, <1>13 DEF StreamInv, RunInv

(* Every step keeps the invariant, and so does none.                       *)
LEMMA StreamInvNext ==
  ASSUME StreamInv, [StreamNext]_streamVars
  PROVE  StreamInv'
<1>1. CASE StartTurn
  BY <1>1, StartTurnKeeps
<1>2. CASE ToolUseChunk
  BY <1>2, ToolUseChunkKeeps
<1>3. CASE StopChunk
  BY <1>3, StopChunkKeeps
<1>4. CASE EndRun
  BY <1>4, EndRunKeeps
<1>5. CASE EndTurn
  BY <1>5, EndTurnKeeps
<1>6. CASE SocketCloses
  BY <1>6, SocketClosesKeeps
<1>7. CASE \E tags \in 0..2 : \E full \in SUBSET (0..tags), holds \in BOOLEAN : TextChunk(tags, full, holds)
  BY <1>7, TextChunkKeeps
<1>8. CASE \E returns, suppresses \in BOOLEAN : ToolsRan(returns, suppresses)
  BY <1>8, ToolsRanKeeps
<1>9. CASE UNCHANGED streamVars
  BY <1>9 DEF streamVars, StreamInv, StreamTypeOK, World, RunInv, SavedIsClosed
<1> QED
  BY <1>1, <1>2, <1>3, <1>4, <1>5, <1>6, <1>7, <1>8, <1>9 DEF StreamNext

(* The invariant holds of every number of turns, chunks and entries and of *)
(* every policy.                                                           *)
THEOREM StreamInvariant == StreamSpec => []StreamInv
<1>1. StreamInit => StreamInv
  BY StreamInvInit
<1>2. StreamInv /\ [StreamNext]_streamVars => StreamInv'
  BY StreamInvNext
<1> QED
  BY <1>1, <1>2, PTL DEF StreamSpec

(* Between turns the client that watched is shown what a resume replays,   *)
(* and nothing is open.                                                    *)
THEOREM LiveShowsTheReplay == StreamSpec => []LiveIsReplay
<1>1. StreamInv => LiveIsReplay
  <2> SUFFICES ASSUME StreamInv, AtRest, stream.open, policy.maxContent = 0, policy.redaction # "refusing",
                      NEW i \in Indices
               PROVE  IF i <= Len(entries)
                      THEN Shown(view[i]) = Replayed(entries[i]) /\ view[i].state \in {"committed", "skipped"}
                      ELSE view[i] = Unknown
    BY DEF LiveIsReplay
  <2>1. /\ Good(policy, World) /\ World.entries = entries /\ World.view = view /\ World.stream = stream
        /\ Len(entries) \in Nat
        /\ \A role \in Model : stream.index[role] = 0
    BY WorldNow DEF AtRest
  <2>2. Lossless(policy)
    BY DEF Lossless
  <2>3. i \in Nat \ {0}
    BY BoundsAssumption DEF Indices
  <2>4. ~IsOpen(World, i)
    BY <2>1, <2>3 DEF IsOpen
  <2>5. CASE i <= Len(entries)
    BY <2>1, <2>2, <2>4, <2>5 DEF Good, Fine, Watched
  <2>6. CASE i > Len(entries)
    BY <2>1, <2>3, <2>6 DEF Good, Unused
  <2> QED
    BY <2>1, <2>3, <2>5, <2>6
<1> QED
  BY <1>1, StreamInvariant, PTL

(* No frame that reaches the client is one it cannot place.                *)
THEOREM ClientAlwaysUnderstands == StreamSpec => []ClientNeverConfused
<1>1. StreamInv => ClientNeverConfused
  BY WorldNow DEF Good, ClientNeverConfused
<1> QED
  BY <1>1, StreamInvariant, PTL

(* A suppressed turn shows and replays nothing the model said in it.       *)
THEOREM SuppressionAlwaysHides == StreamSpec => []SuppressionHides
<1>1. StreamInv => SuppressionHides
  <2> SUFFICES ASSUME StreamInv, stream.suppressOutput, NEW i \in DOMAIN entries,
                      entries[i].role \in Model, OfLastTurn(i)
               PROVE  (stream.open => Shown(view[i]) = <<>>) /\ Replayed(entries[i]) = <<>>
    BY DEF SuppressionHides
  <2>1. /\ Good(policy, World) /\ World.entries = entries /\ World.view = view /\ World.stream = stream
        /\ entries \in Seq(Entry) /\ Len(entries) \in Nat
    BY WorldNow
  <2>2. i \in 1..Len(entries)
    BY <2>1, LenProperties
  <2>3. i \in Indices
    BY <2>1, <2>2, BoundsAssumption DEF Good, Indices
  <2>4. Fine(policy, World, i)
    BY <2>1, <2>2, <2>3 DEF Good
  <2>5. LastTurn(entries, i)
    BY DEF LastTurn, OfLastTurn
  <2>6. entries[i].suppressed /\ (stream.open => Shown(view[i]) = <<>>)
    BY <2>1, <2>4, <2>5 DEF Fine, Retractable
  <2> QED
    BY <2>6 DEF Replayed
<1> QED
  BY <1>1, StreamInvariant, PTL

(* The policy on what is stored holds to the end of every turn.            *)
THEOREM PolicyAlwaysHolds == StreamSpec => []PolicyHolds
<1>1. StreamInv => PolicyHolds
  <2> SUFFICES ASSUME StreamInv PROVE PolicyHolds
    OBVIOUS
  <2>1. /\ Good(policy, World) /\ World.entries = entries /\ World.view = view /\ World.stream = stream
        /\ entries \in Seq(Entry) /\ Len(entries) \in Nat /\ SavedIsClosed
    BY WorldNow
  <2>2. DOMAIN entries = 1..Len(entries)
    BY <2>1, LenProperties
  <2>3. \A i \in DOMAIN entries : EntryFormed(policy, entries[i])
    <3>1. \A i \in DOMAIN entries : i \in Indices /\ i <= Len(entries)
      BY <2>1, <2>2, BoundsAssumption DEF Good, Indices
    <3> QED
      BY <2>1, <3>1 DEF Good, Fine
  <2>4. ClosedIsRedacted
    BY <2>3 DEF ClosedIsRedacted, EntryFormed
  <2>5. \A role \in Model :
          stream.index[role] # 0 => /\ stream.index[role] <= Len(entries)
                                    /\ entries[stream.index[role]].role = role
    <3> SUFFICES ASSUME NEW role \in Model, stream.index[role] # 0
                 PROVE  /\ stream.index[role] <= Len(entries)
                        /\ entries[stream.index[role]].role = role
      OBVIOUS
    <3> DEFINE i == stream.index[role]
    <3>1. World.stream.index[role] # 0 /\ i = World.stream.index[role]
      BY <2>1
    <3>2. i \in 1..Len(World.entries) /\ World.entries[i].role = role
      BY <2>1, <3>1, OpenEntry
    <3> QED
      BY <2>1, <3>2
  <2>6. EntriesWellFormed
    BY <2>3, <2>5 DEF EntriesWellFormed, EntryFormed, StreamInv
  <2> QED
    BY <2>1, <2>4, <2>6 DEF PolicyHolds
<1> QED
  BY <1>1, StreamInvariant, PTL
=============================================================================
