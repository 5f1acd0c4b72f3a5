----------------------------- MODULE RateLimiter -----------------------------
(***************************************************************************)
(* createRateLimiter (src/transport/rateLimit.ts): a token bucket per key, *)
(* refilled when it is read, in a map that drops the keys that have been   *)
(* idle for as long as a refill takes.                                     *)
(*                                                                         *)
(* tokens are credit / Window (see TokenBucket); the rounding of floating  *)
(* point is not modelled.  Date.now() is taken not to be set back.         *)
(***************************************************************************)
EXTENDS Integers

CONSTANTS LimitedKeys, Limit, Window, Full,
    MaxTime    \* bound: milliseconds

ASSUME BudgetAssumption ==
    Limit \in Nat \ {0} /\ Window \in Nat \ {0} /\ Full \in Nat /\ Full >= Window
ASSUME TimeAssumption == MaxTime \in Nat

VARIABLES
    clock,     \* Date.now(), from the limiter's construction on
    buckets,   \* the Map: its keys are the domain
    prunedAt,  \* when idle keys were last looked for
    verdict,   \* per key, the answer to its last request
    hint       \* per key, when it was told to come back, 0 if it was allowed (history)

limiterVars == <<clock, buckets, prunedAt, verdict, hint>>

Times == 0..MaxTime
Bucket == [credit : 0..Full, refilledAt : Times]
Verdict == [allowed : BOOLEAN, retryAfterMs : Nat]

LimiterTypeOK ==
    /\ clock \in Times
    /\ DOMAIN buckets \subseteq LimitedKeys
    /\ buckets \in [DOMAIN buckets -> Bucket]
    /\ prunedAt \in 0..clock
    /\ verdict \in [LimitedKeys -> Verdict]
    /\ hint \in [LimitedKeys -> Nat]
    /\ \A k \in DOMAIN buckets : buckets[k].refilledAt <= clock

LimiterInit ==
    /\ clock = 0
    /\ buckets = [k \in {} |-> {}]
    /\ prunedAt = 0
    /\ verdict = [k \in LimitedKeys |-> [allowed |-> TRUE, retryAfterMs |-> 0]]
    /\ hint = [k \in LimitedKeys |-> 0]

-----------------------------------------------------------------------------
Capped(credit) == IF credit > Full THEN Full ELSE credit

(* What a bucket has been refilled to by now.                              *)
Refilled(b) == Capped(b.credit + (clock - b.refilledAt) * Limit)

(* Slip: idle for the time one token takes.                                *)
IdleForToken(since) == (clock - since) * Limit >= Window

(* at - since >= refillMs                                                  *)
IdleSince(since) == (clock - since) * Limit >= Full

(* pruneIdle: the buckets that are left, which it looks through at most    *)
(* once in the time a refill takes.                                        *)
Idle(k) == IdleSince(buckets[k].refilledAt)

Pruned == [k \in {j \in DOMAIN buckets : ~(IdleSince(prunedAt) /\ Idle(j))} |-> buckets[k]]

(* The bucket a request finds, a full one if there is none.                *)
Held(k) == IF k \in DOMAIN Pruned THEN Pruned[k] ELSE [credit |-> Full, refilledAt |-> clock]

(* Slip: the wait is rounded down.                                         *)
WaitRoundedDown(credit) == IF credit >= Window THEN 0 ELSE (Window - credit) \div Limit

(* Math.ceil((1 - tokens) * msPerToken)                                    *)
Wait(credit) == IF credit >= Window THEN 0 ELSE (Window - credit + Limit - 1) \div Limit

Charged(credit) == IF credit >= Window THEN credit - Window ELSE credit

(* A request: its bucket is read, refilled, charged and stored.            *)
Consume(k) ==
    LET credit == Refilled(Held(k))
        allowed == credit >= Window
    IN  /\ prunedAt' = IF IdleSince(prunedAt) THEN clock ELSE prunedAt
        /\ buckets' = [j \in DOMAIN Pruned \union {k} |->
                         IF j = k THEN [credit |-> Charged(credit), refilledAt |-> clock]
                         ELSE Pruned[j]]
        /\ verdict' = [verdict EXCEPT ![k] = [allowed |-> allowed, retryAfterMs |-> Wait(credit)]]
        /\ hint' = [hint EXCEPT ![k] = IF allowed THEN 0 ELSE clock + Wait(credit)]
        /\ UNCHANGED clock

Tick ==
    /\ clock < MaxTime
    /\ clock' = clock + 1
    /\ UNCHANGED <<buckets, prunedAt, verdict, hint>>

LimiterNext == Tick \/ \E k \in LimitedKeys : Consume(k)

LimiterSpec == LimiterInit /\ [][LimiterNext]_limiterVars

-----------------------------------------------------------------------------
Asks(k) == k \in DOMAIN buckets' /\ (k \in DOMAIN buckets => buckets'[k] # buckets[k])

(* A refused key is allowed exactly from the moment it was told to come    *)
(* back, however often it asks in between (rateLimit.ts:15).               *)
RetryHintHonoured ==
    [][\A k \in LimitedKeys : hint[k] # 0 /\ Asks(k) =>
           hint'[k] = IF clock >= hint[k] THEN 0 ELSE hint[k]]_limiterVars

(* No key stays in the map that was idle for two refills when the limiter  *)
(* was last asked: one address per request does not fill the memory.       *)
IdleForgotten ==
    \A j, k \in DOMAIN buckets :
        (buckets[j].refilledAt - buckets[k].refilledAt) * Limit < 2 * Full

(* A key's credit as it would be read now.                                 *)
Level == [k \in LimitedKeys |-> IF k \in DOMAIN buckets THEN Refilled(buckets[k]) ELSE Full]

Promise == INSTANCE TokenBucket
           WITH level <- Level, allowed <- [k \in LimitedKeys |-> verdict[k].allowed]

(* "a full bucket and a missing one answer alike" (rateLimit.ts:38): with  *)
(* its pruning and its lazy refills the limiter is a token bucket per key, *)
(* so that over any stretch of time a key is granted at most its burst and *)
(* what the stretch refills, however its requests fall (rateLimit.ts:6).   *)
IsTokenBucket == Promise!Spec
=============================================================================
