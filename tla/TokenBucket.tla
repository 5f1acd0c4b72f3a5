----------------------------- MODULE TokenBucket -----------------------------
(***************************************************************************)
(* What a rate limiter promises each of its keys: a budget of its own that *)
(* fills steadily, holds at most a burst, and gives up one token for each  *)
(* request it allows; a request it refuses costs nothing.                  *)
(*                                                                         *)
(* A token is Window units of credit and a millisecond adds Limit of them, *)
(* which keeps `limit requests per windowMs` in whole numbers.             *)
(***************************************************************************)
EXTENDS Integers

CONSTANTS
    LimitedKeys,
    Limit,    \* limit: credit gained in a millisecond
    Window,   \* windowMs: the credit one request costs
    Full      \* burst * windowMs: the credit a key can hold

VARIABLES
    level,     \* per key, its credit now
    allowed    \* per key, the answer to its last request, if any

TypeOK == level \in [LimitedKeys -> 0..Full] /\ allowed \in [LimitedKeys -> BOOLEAN]

Init ==
    /\ level = [k \in LimitedKeys |-> Full]
    /\ allowed = [k \in LimitedKeys |-> TRUE]

Capped(credit) == IF credit > Full THEN Full ELSE credit

Consume(k) ==
    LET enough == level[k] >= Window IN
    /\ allowed' = [allowed EXCEPT ![k] = enough]
    /\ level' = [level EXCEPT ![k] = IF enough THEN level[k] - Window ELSE level[k]]

Tick ==
    /\ level' = [k \in LimitedKeys |-> Capped(level[k] + Limit)]
    /\ UNCHANGED allowed

Next == Tick \/ \E k \in LimitedKeys : Consume(k)

Spec == Init /\ [][Next]_<<level, allowed>>
=============================================================================
