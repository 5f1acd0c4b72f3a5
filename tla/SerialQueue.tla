---------------------------- MODULE SerialQueue ----------------------------
(***************************************************************************)
(* What a per-key lock promises its callers: the callbacks of one key run  *)
(* one at a time, in the order they were handed in, and callbacks of       *)
(* different keys never wait for each other.  It says nothing of promises, *)
(* of the map they are kept in, or of how a callback ends.                 *)
(***************************************************************************)
EXTENDS Naturals

CONSTANTS Keys, Calls, None

VARIABLES
    stage,    \* [Calls -> {"new", "waiting", "running", "done"}]
    keyOf,    \* [Calls -> Keys \union {None}], the key it was made with
    ticket,   \* [Calls -> Nat], the place in the order of calls
    issued    \* how many calls were made

vars == <<stage, keyOf, ticket, issued>>

TypeOK ==
    /\ stage \in [Calls -> {"new", "waiting", "running", "done"}]
    /\ keyOf \in [Calls -> Keys \union {None}]
    /\ ticket \in [Calls -> Nat]
    /\ issued \in Nat

Init ==
    /\ stage = [c \in Calls |-> "new"]
    /\ keyOf = [c \in Calls |-> None]
    /\ ticket = [c \in Calls |-> 0]
    /\ issued = 0

\* The calls a call of key k has to wait for: made earlier, on the same key.
AheadOf(c) == {d \in Calls : /\ stage[d] # "new"
                             /\ keyOf[d] = keyOf[c]
                             /\ ticket[d] < ticket[c]}

Enter(c, k) ==
    /\ stage[c] = "new"
    /\ stage' = [stage EXCEPT ![c] = "waiting"]
    /\ keyOf' = [keyOf EXCEPT ![c] = k]
    /\ issued' = issued + 1
    /\ ticket' = [ticket EXCEPT ![c] = issued + 1]

Begin(c) ==
    /\ stage[c] = "waiting"
    /\ \A d \in AheadOf(c) : stage[d] = "done"
    /\ stage' = [stage EXCEPT ![c] = "running"]
    /\ UNCHANGED <<keyOf, ticket, issued>>

Finish(c) ==
    /\ stage[c] = "running"
    /\ stage' = [stage EXCEPT ![c] = "done"]
    /\ UNCHANGED <<keyOf, ticket, issued>>

Next == \E c \in Calls : (\E k \in Keys : Enter(c, k)) \/ Begin(c) \/ Finish(c)

SafeSpec == Init /\ [][Next]_vars

Spec == SafeSpec /\ \A c \in Calls : WF_vars(Begin(c)) /\ WF_vars(Finish(c))
=============================================================================
