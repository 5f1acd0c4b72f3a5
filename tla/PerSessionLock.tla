--------------------------- MODULE PerSessionLock ---------------------------
(***************************************************************************)
(* PerSessionLock (src/shared/perSessionLock.ts): a map from a key to the  *)
(* promise the key's newest callback settles on.  run() chains the new     *)
(* callback behind that promise and puts its own tail in its place; a tail *)
(* that settles takes its key out of the map unless a newer tail is there. *)
(*                                                                         *)
(* A call is one invocation of run(), so a call is made at most once.  Its *)
(* life follows its promises:                                              *)
(*   new -> queued -> running -> fulfilled | rejected -> settled -> gone   *)
(* settled: the tail promise resolved; gone: its forget() reaction ran.    *)
(* JavaScript runs the reactions of one promise in the order they were     *)
(* registered, and run() registers forget() before it returns, so a tail's *)
(* forget() always runs before the callback chained behind that tail.      *)
(***************************************************************************)
EXTENDS Naturals

CONSTANTS
    Keys,     \* the session ids
    Calls,    \* the invocations of run()
    None      \* the map has no such key; there is nothing to wait for

ASSUME NoneAssumption == None \notin Calls \union Keys

VARIABLES
    tails,    \* the Map: per key the call whose tail it holds, or None
    phase,    \* per call, how far its promises are
    keyOf,    \* per call, the key it was made with
    prev,     \* per call, the call whose tail it was chained behind
    ticket,   \* per call, its place in the order of calls (history)
    issued    \* how many calls were made (history)

lockVars == <<tails, phase, keyOf, prev, ticket, issued>>

Outcomes == {"fulfilled", "rejected"}
Phases == {"new", "queued", "running", "settled", "gone"} \union Outcomes

LockTypeOK ==
    /\ tails \in [Keys -> Calls \union {None}]
    /\ phase \in [Calls -> Phases]
    /\ keyOf \in [Calls -> Keys \union {None}]
    /\ prev \in [Calls -> Calls \union {None}]
    /\ ticket \in [Calls -> Nat]
    /\ issued \in Nat

LockInit ==
    /\ tails = [k \in Keys |-> None]
    /\ phase = [c \in Calls |-> "new"]
    /\ keyOf = [c \in Calls |-> None]
    /\ prev = [c \in Calls |-> None]
    /\ ticket = [c \in Calls |-> 0]
    /\ issued = 0

-----------------------------------------------------------------------------
(* run(key, fn), up to its return: synchronous, so one step.               *)
Run(c, k) ==
    /\ phase[c] = "new"
    /\ phase' = [phase EXCEPT ![c] = "queued"]
    /\ keyOf' = [keyOf EXCEPT ![c] = k]
    /\ prev' = [prev EXCEPT ![c] = tails[k]]
    /\ tails' = [tails EXCEPT ![k] = c]
    /\ issued' = issued + 1
    /\ ticket' = [ticket EXCEPT ![c] = issued + 1]

(* previous.then(fn) fires: previous was Promise.resolve(), or a tail that *)
(* resolved and whose first reaction, forget(), has run.                   *)
Fire(c) ==
    /\ phase[c] = "queued"
    /\ prev[c] \in {None} \union {d \in Calls : phase[d] = "gone"}
    /\ phase' = [phase EXCEPT ![c] = "running"]
    /\ UNCHANGED <<tails, keyOf, prev, ticket, issued>>

(* The promise fn returned settles, either way.                            *)
Settle(c, outcome) ==
    /\ phase[c] = "running"
    /\ phase' = [phase EXCEPT ![c] = outcome]
    /\ UNCHANGED <<tails, keyOf, prev, ticket, issued>>

(* Slip: only a fulfilled callback settles its tail.                       *)
SettleTailOnSuccess(c) ==
    /\ phase[c] = "fulfilled"
    /\ phase' = [phase EXCEPT ![c] = "settled"]
    /\ UNCHANGED <<tails, keyOf, prev, ticket, issued>>

(* result.then(settled, settled): the tail resolves after either outcome.  *)
SettleTail(c) ==
    /\ phase[c] \in Outcomes
    /\ phase' = [phase EXCEPT ![c] = "settled"]
    /\ UNCHANGED <<tails, keyOf, prev, ticket, issued>>

(* Slips: the key goes whoever's tail it holds; it never goes.    *)
ForgottenUnchecked(c) == [tails EXCEPT ![keyOf[c]] = None]
ForgottenNever(c) == tails

(* The map without c's tail, which only the newest tail takes out.         *)
Forgotten(c) ==
    IF tails[keyOf[c]] = c THEN [tails EXCEPT ![keyOf[c]] = None] ELSE tails

Forget(c) ==
    /\ phase[c] = "settled"
    /\ phase' = [phase EXCEPT ![c] = "gone"]
    /\ tails' = Forgotten(c)
    /\ UNCHANGED <<keyOf, prev, ticket, issued>>

(* What the event loop runs by itself once it is due.                      *)
Reaction(c) == Fire(c) \/ SettleTail(c) \/ Forget(c)

LockNext ==
    \E c \in Calls : \/ \E k \in Keys : Run(c, k)
                     \/ \E outcome \in Outcomes : Settle(c, outcome)
                     \/ Reaction(c)

SafeSpec == LockInit /\ [][LockNext]_lockVars

(* Reactions are always run; a callback's promise settles when the turn it *)
(* runs does, which the modules that compose this one show.                *)
Fairness == \A c \in Calls : WF_lockVars(Reaction(c)) /\ WF_lockVars(\E o \in Outcomes : Settle(c, o))

LockSpec == SafeSpec /\ Fairness

-----------------------------------------------------------------------------
Live(c) == phase[c] \notin {"new", "gone"}
Started(c) == phase[c] \notin {"new", "queued"}
Over(c) == phase[c] \in {"fulfilled", "rejected", "settled", "gone"}

SameKeyBefore(c, d) ==
    /\ phase[c] # "new" /\ phase[d] # "new"
    /\ keyOf[c] = keyOf[d] /\ ticket[c] < ticket[d]

(* Mutual exclusion and order in one: no callback has begun before every   *)
(* callback handed in earlier on its key is over.  A key that was          *)
(* forgotten while a callback still waited behind it would break it.       *)
SerialInCallOrder ==
    \A c, d \in Calls : SameKeyBefore(c, d) /\ Started(d) => Over(c)

(* The map holds exactly the keys with a callback that is not through,     *)
(* under the newest such callback: nothing leaks and nothing is forgotten  *)
(* early ("zero once every one has settled", perSessionLock.ts:17).        *)
TailIsNewestLive ==
    \A k \in Keys :
        LET waiting == {c \in Calls : Live(c) /\ keyOf[c] = k} IN
        IF waiting = {} THEN tails[k] = None
        ELSE /\ tails[k] \in waiting
             /\ \A c \in waiting : ticket[c] <= ticket[tails[k]]

(* `size`: how many keys have a callback queued or running.                *)
KeysHeld == {k \in Keys : tails[k] # None}

(* The map empties once no more calls come.                                *)
MapEmpties == (\A c \in Calls : phase[c] # "new") ~> (KeysHeld = {})

-----------------------------------------------------------------------------
(* The lock implements the serial queue: a call is done once its callback's *)
(* promise settled, and nothing of the promises behind it is visible.      *)
StageOf(c) == IF phase[c] \in {"new", "running"} THEN phase[c]
              ELSE IF phase[c] = "queued" THEN "waiting" ELSE "done"

Serial == INSTANCE SerialQueue WITH stage <- [c \in Calls |-> StageOf(c)]

SerialQueueSpec == Serial!Spec
=============================================================================
