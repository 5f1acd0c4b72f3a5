---------------------------- MODULE GuardProofs -----------------------------
(***************************************************************************)
(* Proofs about the three guards a turn passes: the lock of its session,   *)
(* the limiter of its sender, and the chain of vendors behind its          *)
(* provider. They share no state, and nothing proved of one rests on       *)
(* another.                                                                *)
(***************************************************************************)
EXTENDS PerSessionLock, RateLimiter, ProviderResilience, FiniteSetTheorems, TLAPS

-----------------------------------------------------------------------------
(* The per-session lock, for every set of keys and calls.                  *)
(*                                                                         *)
(* SerialInCallOrder alone is not inductive: a callback starts because one *)
(* earlier callback, the one it was chained behind, is over. Links says    *)
(* that this one is the last of the earlier callbacks, or that there is    *)
(* none left to wait for; and then SerialGone says that the one before it  *)
(* is not merely over but forgotten, which is what the chain waits for.    *)

Made(c) == phase[c] # "new"

(* A call that was made has a key and a place of its own in the order.     *)
Placed ==
    /\ \A c \in Calls : Made(c) => /\ keyOf[c] \in Keys
                                   /\ ticket[c] \in 1..issued
    /\ \A c, d \in Calls : Made(c) /\ Made(d) /\ c # d => ticket[c] # ticket[d]

(* prev[c] is the last call made before c on its key; when c found no tail *)
(* in the map, every such call was through.                                *)
Links ==
    \A c \in Calls : Made(c) =>
        /\ prev[c] = None =>
               \A d \in Calls : SameKeyBefore(d, c) => phase[d] = "gone"
        /\ prev[c] # None =>
               /\ SameKeyBefore(prev[c], c)
               /\ \A d \in Calls : SameKeyBefore(d, c)
                                      => d = prev[c] \/ ticket[d] < ticket[prev[c]]

SerialGone ==
    \A c, d \in Calls : SameKeyBefore(c, d) /\ Started(d) => phase[c] = "gone"

LockIInv == LockTypeOK /\ Placed /\ Links /\ SerialGone /\ TailIsNewestLive

-----------------------------------------------------------------------------
(* The invariant holds at first, every step keeps it, and it implies what  *)
(* the lock's callers rely on.                                             *)
LEMMA LockInitEstablishes == LockInit => LockIInv
  BY NoneAssumption DEF LockInit, LockIInv, LockTypeOK, Phases, Placed, Links, SerialGone,
     TailIsNewestLive, Made, Live, SameKeyBefore

LEMMA TypePreserved == LockTypeOK /\ [LockNext]_lockVars => LockTypeOK'
<1> SUFFICES ASSUME LockTypeOK, [LockNext]_lockVars PROVE LockTypeOK'
  OBVIOUS
<1> USE NoneAssumption DEF LockTypeOK, Phases, Outcomes
<1>1. ASSUME NEW c \in Calls, NEW k \in Keys, Run(c, k) PROVE LockTypeOK'
  BY <1>1 DEF Run
<1>2. ASSUME NEW c \in Calls, NEW o \in Outcomes, Settle(c, o) PROVE LockTypeOK'
  BY <1>2 DEF Settle
<1>3. ASSUME NEW c \in Calls, Fire(c) PROVE LockTypeOK'
  BY <1>3 DEF Fire
<1>4. ASSUME NEW c \in Calls, SettleTail(c) PROVE LockTypeOK'
  BY <1>4 DEF SettleTail
<1>5. ASSUME NEW c \in Calls, Forget(c) PROVE LockTypeOK'
  BY <1>5 DEF Forget, Forgotten
<1>6. CASE UNCHANGED lockVars
  BY <1>6 DEF lockVars
<1>7. QED
  BY <1>1, <1>2, <1>3, <1>4, <1>5, <1>6 DEF LockNext, Reaction

(* A call that moves on, without being made and without being forgotten,   *)
(* changes nothing of the order and nothing of who holds a key.            *)
LEMMA MovingOn ==
  ASSUME LockIInv, NEW c \in Calls, NEW p \in Phases \ {"new", "queued", "gone"},
         phase[c] \notin {"new", "gone"},
         phase' = [phase EXCEPT ![c] = p],
         phase[c] = "queued" => prev[c] \in {None} \union {d \in Calls : phase[d] = "gone"},
         UNCHANGED <<tails, keyOf, prev, ticket, issued>>
  PROVE  Placed' /\ Links' /\ SerialGone' /\ TailIsNewestLive'
<1> USE DEF LockIInv
<1>1. \A d \in Calls : phase'[d] = IF d = c THEN p ELSE phase[d]
  BY DEF LockTypeOK
<1>2. \A d \in Calls : (Made(d))' <=> Made(d)
  BY <1>1 DEF Made
<1>3. \A d, e \in Calls : SameKeyBefore(d, e)' <=> SameKeyBefore(d, e)
  BY <1>1 DEF SameKeyBefore
<1>4. \A d \in Calls : (phase'[d] = "gone") <=> (phase[d] = "gone")
  BY <1>1
<1>5. Placed'
  BY <1>2 DEF Placed
<1>6. Links'
  BY <1>2, <1>3, <1>4, NoneAssumption DEF Links, LockTypeOK
<1>7. SerialGone'
  <2> SUFFICES ASSUME NEW d \in Calls, NEW e \in Calls,
                      SameKeyBefore(d, e)', Started(e)'
               PROVE  phase'[d] = "gone"
    BY DEF SerialGone
  <2>1. SameKeyBefore(d, e)
    BY <1>3
  <2>2. CASE Started(e)
    BY <2>1, <2>2, <1>4 DEF SerialGone
  <2>3. CASE ~Started(e)
    <3>1. e = c /\ phase[c] = "queued"
      BY <2>3, <1>1 DEF Started
    <3>2. CASE prev[c] = None
      BY <3>1, <3>2, <2>1, <1>4 DEF Links, Made
    <3>3. CASE prev[c] # None
      <4>1. /\ prev[c] \in Calls
            /\ phase[prev[c]] = "gone"
            /\ SameKeyBefore(prev[c], c)
        BY <3>1, <3>3 DEF Links, Made
      <4>2. CASE d = prev[c]
        BY <4>1, <4>2, <1>4
      <4>3. CASE d # prev[c]
        <5>1. ticket[d] < ticket[prev[c]]
          BY <3>1, <3>3, <2>1, <4>3 DEF Links, Made
        <5>2. SameKeyBefore(d, prev[c]) /\ Started(prev[c])
          BY <5>1, <4>1, <2>1, <3>1 DEF SameKeyBefore, Started
        <5>3. QED
          BY <5>2, <4>1, <1>4 DEF SerialGone
      <4>4. QED
        BY <4>2, <4>3
    <3>4. QED
      BY <3>2, <3>3
  <2>4. QED
    BY <2>2, <2>3
<1>8. TailIsNewestLive'
  <2>1. \A d \in Calls : Live(d)' <=> Live(d)
    BY <1>1 DEF Live
  <2>2. \A k \in Keys : {d \in Calls : Live(d)' /\ keyOf[d] = k}
                        = {d \in Calls : Live(d) /\ keyOf[d] = k}
    BY <2>1
  <2>3. QED
    BY <2>2 DEF TailIsNewestLive
<1>9. QED
  BY <1>5, <1>6, <1>7, <1>8

(* A call that is made takes the highest ticket and its key's tail: it is  *)
(* linked to the newest call that is not through, and nothing of the calls *)
(* before it changes.                                                      *)
LEMMA Making ==
  ASSUME LockIInv, NEW c \in Calls, NEW k \in Keys, Run(c, k)
  PROVE  Placed' /\ Links' /\ SerialGone' /\ TailIsNewestLive'
<1> USE DEF LockIInv, Run
<1>1. /\ \A d \in Calls : phase'[d] = IF d = c THEN "queued" ELSE phase[d]
      /\ \A d \in Calls : keyOf'[d] = IF d = c THEN k ELSE keyOf[d]
      /\ \A d \in Calls : prev'[d] = IF d = c THEN tails[k] ELSE prev[d]
      /\ \A d \in Calls : ticket'[d] = IF d = c THEN issued + 1 ELSE ticket[d]
      /\ \A j \in Keys : tails'[j] = IF j = k THEN c ELSE tails[j]
      /\ issued' = issued + 1 /\ issued \in Nat
      /\ ~Made(c)
  BY DEF LockTypeOK, Made
<1>2. Placed'
  BY <1>1 DEF Placed, Made, LockTypeOK
<1>3. \A d, e \in Calls : SameKeyBefore(d, e)' <=>
          \/ d # c /\ e # c /\ SameKeyBefore(d, e)
          \/ d # c /\ e = c /\ Made(d) /\ keyOf[d] = k
  BY <1>1 DEF SameKeyBefore, Placed, Made, LockTypeOK
<1>4. \A d \in Calls : Made(d) /\ keyOf[d] = k /\ phase[d] # "gone" =>
          /\ tails[k] \in Calls /\ Live(tails[k]) /\ keyOf[tails[k]] = k
          /\ ticket[d] <= ticket[tails[k]]
  BY DEF TailIsNewestLive, Live, Made
<1>5. tails[k] # None => /\ tails[k] \in Calls /\ Live(tails[k])
                         /\ keyOf[tails[k]] = k /\ tails[k] # c
  BY <1>1 DEF TailIsNewestLive, Live, Made
<1>6. ASSUME NEW d \in Calls, Made(d), keyOf[d] = k, tails[k] # None, d # tails[k]
      PROVE  ticket[d] < ticket[tails[k]]
  <2>1. /\ ticket[d] # ticket[tails[k]]
        /\ ticket[d] \in Nat /\ ticket[tails[k]] \in Nat
    BY <1>5, <1>6 DEF Placed, Made, Live, LockTypeOK
  <2>2. CASE phase[d] # "gone"
    BY <1>4, <1>6, <2>1, <2>2
  <2>3. CASE phase[d] = "gone" /\ ticket[tails[k]] < ticket[d]
    <3>1. SameKeyBefore(tails[k], d) /\ Started(d)
      BY <1>5, <1>6, <2>3 DEF SameKeyBefore, Live, Made, Started
    <3>2. QED
      BY <3>1, <1>5, <1>6 DEF SerialGone, Live
  <2>4. QED
    BY <2>1, <2>2, <2>3
<1>7. Links'
  <2> SUFFICES ASSUME NEW d \in Calls, Made(d)'
               PROVE  /\ prev'[d] = None =>
                           \A e \in Calls : SameKeyBefore(e, d)' => phase'[e] = "gone"
                      /\ prev'[d] # None =>
                           /\ SameKeyBefore(prev[d], d)'
                           /\ \A e \in Calls : SameKeyBefore(e, d)'
                                  => e = prev'[d] \/ ticket'[e] < ticket'[prev'[d]]
    BY DEF Links
  <2>1. CASE d = c
    <3>1. CASE tails[k] = None
      BY <2>1, <3>1, <1>1, <1>3, <1>4, NoneAssumption
    <3>2. CASE tails[k] # None
      <4>1. SameKeyBefore(prev[d], d)'
        BY <2>1, <3>2, <1>1, <1>3, <1>5 DEF Live, Made
      <4>2. \A e \in Calls : SameKeyBefore(e, d)'
               => e = prev'[d] \/ ticket'[e] < ticket'[prev'[d]]
        BY <2>1, <3>2, <1>1, <1>3, <1>5, <1>6
      <4>3. QED
        BY <2>1, <3>2, <1>1, <4>1, <4>2
    <3>3. QED
      BY <3>1, <3>2
  <2>2. CASE d # c
    <3>1. Made(d) /\ prev'[d] = prev[d]
      BY <2>2, <1>1 DEF Made
    <3>2. CASE prev[d] = None
      BY <2>2, <3>1, <3>2, <1>1, <1>3 DEF Links
    <3>3. CASE prev[d] # None
      <4>1. /\ prev[d] \in Calls /\ SameKeyBefore(prev[d], d)
            /\ prev[d] # c
        BY <3>1, <3>3, <1>1 DEF Links, SameKeyBefore, Made, LockTypeOK
      <4>2. SameKeyBefore(prev[d], d)'
        BY <4>1, <2>2, <1>3, <3>1
      <4>3. \A e \in Calls : SameKeyBefore(e, d)'
               => e = prev[d] \/ ticket'[e] < ticket'[prev[d]]
        BY <4>1, <2>2, <3>1, <3>3, <1>1, <1>3 DEF Links
      <4>4. QED
        BY <3>1, <3>3, <4>2, <4>3
    <3>4. QED
      BY <3>2, <3>3
  <2>3. QED
    BY <2>1, <2>2
<1>8. SerialGone'
  BY <1>1, <1>3 DEF SerialGone, Started
<1>9. TailIsNewestLive'
  <2>1. \A d \in Calls : Live(d)' <=> Live(d) \/ d = c
    BY <1>1 DEF Live, Made
  <2>2. \A d \in Calls : Live(d) => Made(d) /\ ticket[d] \in Nat /\ ticket[d] <= issued
    BY DEF Live, Made, Placed, LockTypeOK
  <2> SUFFICES ASSUME NEW j \in Keys
               PROVE  LET waiting == {d \in Calls : Live(d)' /\ keyOf'[d] = j} IN
                      IF waiting = {} THEN tails'[j] = None
                      ELSE /\ tails'[j] \in waiting
                           /\ \A d \in waiting : ticket'[d] <= ticket'[tails'[j]]
    BY DEF TailIsNewestLive
  <2>3. CASE j = k
    BY <2>1, <2>2, <2>3, <1>1
  <2>4. CASE j # k
    <3>1. {d \in Calls : Live(d)' /\ keyOf'[d] = j}
             = {d \in Calls : Live(d) /\ keyOf[d] = j}
      BY <2>1, <2>4, <1>1 DEF Live, Made
    <3>2. \A d \in {e \in Calls : Live(e) /\ keyOf[e] = j} : d # c
      BY <1>1 DEF Live, Made
    <3>3. tails'[j] = tails[j]
      BY <2>4, <1>1
    <3>4. QED
      BY <3>1, <3>2, <3>3, <1>1 DEF TailIsNewestLive
  <2>5. QED
    BY <2>3, <2>4
<1>10. QED
  BY <1>2, <1>7, <1>8, <1>9

(* A tail that forgets itself was the last of its key, or leaves the map   *)
(* to the newer tail it finds there.                                       *)
LEMMA Forgetting ==
  ASSUME LockIInv, NEW c \in Calls, Forget(c)
  PROVE  Placed' /\ Links' /\ SerialGone' /\ TailIsNewestLive'
<1> USE DEF LockIInv
<1>1. /\ \A d \in Calls : phase'[d] = IF d = c THEN "gone" ELSE phase[d]
      /\ phase[c] = "settled" /\ keyOf[c] \in Keys
      /\ UNCHANGED <<keyOf, prev, ticket, issued>>
  BY DEF Forget, LockTypeOK, Placed, Made
<1>2. \A d \in Calls : Made(d)' <=> Made(d)
  BY <1>1 DEF Made
<1>3. \A d, e \in Calls : SameKeyBefore(d, e)' <=> SameKeyBefore(d, e)
  BY <1>1 DEF SameKeyBefore
<1>4. \A d \in Calls : Started(d)' <=> Started(d)
  BY <1>1 DEF Started
<1>5. Placed'
  BY <1>1, <1>2 DEF Placed
<1>6. Links'
  BY <1>1, <1>2, <1>3, NoneAssumption DEF Links, LockTypeOK
<1>7. SerialGone'
  BY <1>1, <1>3, <1>4 DEF SerialGone
<1>8. TailIsNewestLive'
  <2>1. \A d \in Calls : Live(d)' <=> Live(d) /\ d # c
    BY <1>1 DEF Live
  <2> SUFFICES ASSUME NEW j \in Keys
               PROVE  LET waiting == {d \in Calls : Live(d)' /\ keyOf'[d] = j} IN
                      IF waiting = {} THEN tails'[j] = None
                      ELSE /\ tails'[j] \in waiting
                           /\ \A d \in waiting : ticket'[d] <= ticket'[tails'[j]]
    BY DEF TailIsNewestLive
  <2>2. CASE j # keyOf[c]
    <3>1. {d \in Calls : Live(d)' /\ keyOf'[d] = j}
             = {d \in Calls : Live(d) /\ keyOf[d] = j}
      BY <2>1, <2>2, <1>1
    <3>2. tails'[j] = tails[j]
      BY <2>2, <1>1 DEF Forget, Forgotten, LockTypeOK
    <3>3. QED
      BY <3>1, <3>2, <1>1 DEF TailIsNewestLive
  <2>3. CASE j = keyOf[c] /\ tails[j] = c
    <3>1. tails'[j] = None
      BY <2>3, <1>1 DEF Forget, Forgotten, LockTypeOK
    <3>2. ASSUME NEW d \in Calls, Live(d), keyOf[d] = j, d # c
          PROVE  FALSE
      <4>1. ticket[d] <= ticket[c]
        BY <3>2, <2>3 DEF TailIsNewestLive
      <4>2. SameKeyBefore(d, c) /\ Started(c)
        BY <3>2, <4>1, <2>3, <1>1 DEF SameKeyBefore, Started, Live, Placed, Made, LockTypeOK
      <4>3. QED
        BY <3>2, <4>2 DEF SerialGone, Live
    <3>3. QED
      BY <3>1, <3>2, <2>1, <1>1
  <2>4. CASE j = keyOf[c] /\ tails[j] # c
    <3>1. tails'[j] = tails[j]
      BY <2>4, <1>1 DEF Forget, Forgotten
    <3>2. Live(c)
      BY <1>1 DEF Live
    <3>3. /\ tails[j] \in Calls /\ Live(tails[j]) /\ keyOf[tails[j]] = j
          /\ \A d \in Calls : Live(d) /\ keyOf[d] = j => ticket[d] <= ticket[tails[j]]
      BY <3>2, <2>4 DEF TailIsNewestLive
    <3>4. QED
      BY <3>1, <3>3, <2>1, <2>4, <1>1
  <2>5. QED
    BY <2>2, <2>3, <2>4
<1>9. QED
  BY <1>5, <1>6, <1>7, <1>8

LEMMA LockInvariantKept == LockIInv /\ [LockNext]_lockVars => LockIInv'
<1> SUFFICES ASSUME LockIInv, [LockNext]_lockVars PROVE LockIInv'
  OBVIOUS
<1>1. LockTypeOK'
  BY TypePreserved DEF LockIInv
<1>2. ASSUME NEW c \in Calls, NEW k \in Keys, Run(c, k) PROVE LockIInv'
  BY <1>1, <1>2, Making DEF LockIInv
<1>3. ASSUME NEW c \in Calls, Fire(c) PROVE LockIInv'
  BY <1>1, <1>3, MovingOn DEF LockIInv, Fire, Phases
<1>4. ASSUME NEW c \in Calls, NEW o \in Outcomes, Settle(c, o) PROVE LockIInv'
  BY <1>1, <1>4, MovingOn DEF LockIInv, Settle, Phases, Outcomes
<1>5. ASSUME NEW c \in Calls, SettleTail(c) PROVE LockIInv'
  BY <1>1, <1>5, MovingOn DEF LockIInv, SettleTail, Phases, Outcomes
<1>6. ASSUME NEW c \in Calls, Forget(c) PROVE LockIInv'
  BY <1>1, <1>6, Forgetting DEF LockIInv
<1>7. CASE UNCHANGED lockVars
  BY <1>7 DEF lockVars, LockIInv, LockTypeOK, Placed, Links, SerialGone, TailIsNewestLive,
              Made, Live, Started, SameKeyBefore
<1>8. QED
  BY <1>2, <1>3, <1>4, <1>5, <1>6, <1>7 DEF LockNext, Reaction

LEMMA LockInvariant == SafeSpec => []LockIInv
  BY LockInitEstablishes, LockInvariantKept, PTL DEF SafeSpec

(* The lock's state always has the shape run() and forget() give it.       *)
THEOREM LockTypeCorrect == SafeSpec => []LockTypeOK
<1>1. LockIInv => LockTypeOK
  BY DEF LockIInv
<1>2. QED
  BY <1>1, LockInvariant, PTL

(* For every set of sessions and any number of messages: the callbacks of  *)
(* one key run one at a time and in call order (perSessionLock.ts:3).      *)
THEOREM Serialised == SafeSpec => []SerialInCallOrder
<1>1. LockIInv => SerialInCallOrder
  BY DEF LockIInv, SerialGone, SerialInCallOrder, Over
<1>2. QED
  BY <1>1, LockInvariant, PTL

(* The map holds a key exactly while a callback of that key is not through *)
(* (perSessionLock.ts:17,22).                                              *)
THEOREM MapIsExact == SafeSpec => []TailIsNewestLive
<1>1. LockIInv => TailIsNewestLive
  BY DEF LockIInv
<1>2. QED
  BY <1>1, LockInvariant, PTL

(* Every step of the promise chain is a step of the serial queue, or one   *)
(* the queue's users cannot see.                                           *)
THEOREM ImplementsSerialQueue == SafeSpec => Serial!SafeSpec
<1> DEFINE st == [c \in Calls |-> StageOf(c)]
<1>1. LockInit => Serial!Init
  BY DEF LockInit, Serial!Init, StageOf
<1>2. ASSUME LockIInv, [LockNext]_lockVars PROVE [Serial!Next]_(Serial!vars)
  <2> USE DEF LockIInv
  <2>0. \A c \in Calls : /\ st[c] = StageOf(c)
                          /\ (st[c])' = StageOf(c)'
    OBVIOUS
  <2>1. ASSUME NEW c \in Calls, NEW k \in Keys, Run(c, k) PROVE Serial!Enter(c, k)
    <3>1. st' = [st EXCEPT ![c] = "waiting"]
      BY <1>2, <2>1 DEF Run, StageOf, LockTypeOK
    <3>2. QED
      BY <2>1, <3>1 DEF Run, Serial!Enter, StageOf
  <2>2. ASSUME NEW c \in Calls, Fire(c) PROVE Serial!Begin(c)
    <3>1. st' = [st EXCEPT ![c] = "running"]
      BY <1>2, <2>2 DEF Fire, StageOf, LockTypeOK
    <3>2. SerialGone'
      BY <1>2, LockInvariantKept
    <3>3. \A d \in Serial!AheadOf(c) : st[d] = "done"
      BY <1>2, <2>2, <3>2 DEF Serial!AheadOf, StageOf, SerialGone, SameKeyBefore,
                        Started, Fire, LockTypeOK, Phases, Outcomes
    <3>4. QED
      BY <2>2, <3>1, <3>3 DEF Fire, Serial!Begin, StageOf
  <2>3. ASSUME NEW c \in Calls, NEW o \in Outcomes, Settle(c, o) PROVE Serial!Finish(c)
    <3>1. st' = [st EXCEPT ![c] = "done"]
      BY <1>2, <2>3 DEF Settle, StageOf, LockTypeOK, Outcomes
    <3>2. QED
      BY <2>3, <3>1 DEF Settle, Serial!Finish, StageOf
  <2>4. ASSUME NEW c \in Calls, SettleTail(c) PROVE UNCHANGED Serial!vars
    BY <1>2, <2>4 DEF SettleTail, Serial!vars, StageOf, LockTypeOK, Outcomes
  <2>5. ASSUME NEW c \in Calls, Forget(c) PROVE UNCHANGED Serial!vars
    BY <1>2, <2>5 DEF Forget, Serial!vars, StageOf, LockTypeOK
  <2>6. CASE UNCHANGED lockVars
    BY <2>6 DEF lockVars, Serial!vars, StageOf
  <2>7. QED
    BY <2>1, <2>2, <2>3, <2>4, <2>5, <2>6, <1>2 DEF LockNext, Reaction, Serial!Next
<1>3. QED
  BY <1>1, <1>2, LockInvariant, PTL DEF SafeSpec, Serial!SafeSpec

-----------------------------------------------------------------------------
(* The rate limiter, for every set of keys and every budget.               *)
(*                                                                         *)
(* Nothing of LimiterTypeOK says when idle keys were last looked for.      *)
(* Recent does: no bucket was last read a whole refill before or after     *)
(* that.                                                                   *)

(* The time between a bucket's last refill and the last pruning is less    *)
(* than a refill takes.                                                    *)
Recent ==
    \A k \in DOMAIN buckets : /\ (prunedAt - buckets[k].refilledAt) * Limit < Full
                              /\ (buckets[k].refilledAt - prunedAt) * Limit < Full

LimiterIInv == LimiterTypeOK /\ Recent

-----------------------------------------------------------------------------
(* Arithmetic.                                                             *)
LEMMA WaitIsNat == \A credit \in 0..Full : Wait(credit) \in Nat
<1> SUFFICES ASSUME NEW credit \in 0..Full, credit < Window PROVE Wait(credit) \in Nat
  BY BudgetAssumption DEF Wait
<1> DEFINE missing == Window - credit + Limit - 1
<1>1. missing \in Nat
  BY BudgetAssumption
<1>2. \A m, n \in Nat : n # 0 => m \div n \in Nat
  OBVIOUS
<1> HIDE DEF missing
<1>3. missing \div Limit \in Nat
  BY <1>1, <1>2, BudgetAssumption
<1>4. QED
  BY <1>3, BudgetAssumption DEF Wait, missing

LEMMA ProductIsNat == \A m, n \in Nat : m * n \in Nat
  OBVIOUS

LEMMA OneMore == \A m, n \in Int : (m + 1) * n = m * n + n
  OBVIOUS

(* A bucket's credit, refilled, is a credit.                               *)
LEMMA RefilledIsCredit ==
  ASSUME NEW credit \in 0..Full, NEW since \in Nat, NEW now \in Nat, since <= now
  PROVE  Capped(credit + (now - since) * Limit) \in 0..Full
<1>1. (now - since) * Limit \in Nat
  BY ProductIsNat, BudgetAssumption
<1>2. QED
  BY <1>1, BudgetAssumption DEF Capped

(* Refilling a bucket for one more millisecond is one step of a bucket     *)
(* that fills steadily.                                                    *)
LEMMA RefillStep ==
  ASSUME NEW credit \in 0..Full, NEW since \in Nat, NEW now \in Nat, since <= now
  PROVE  Capped(credit + (now + 1 - since) * Limit)
           = Capped(Capped(credit + (now - since) * Limit) + Limit)
<1> DEFINE gained == (now - since) * Limit
<1>1. gained \in Nat
  BY ProductIsNat, BudgetAssumption
<1>2. (now + 1 - since) * Limit = gained + Limit
  <2>1. now + 1 - since = (now - since) + 1 /\ now - since \in Int /\ Limit \in Int
    BY BudgetAssumption
  <2>2. QED
    BY <2>1, OneMore
<1> HIDE DEF gained
<1>3. Capped(credit + gained + Limit) = Capped(Capped(credit + gained) + Limit)
  BY <1>1, BudgetAssumption DEF Capped
<1>4. QED
  BY <1>1, <1>2, <1>3, BudgetAssumption DEF gained

-----------------------------------------------------------------------------
LEMMA HeldIsBucket ==
  ASSUME LimiterIInv, NEW k \in LimitedKeys
  PROVE  /\ Held(k) \in Bucket
         /\ Held(k).refilledAt <= clock
         /\ Refilled(Held(k)) \in 0..Full
<1>1. Held(k) \in Bucket /\ Held(k).refilledAt <= clock
  BY BudgetAssumption, TimeAssumption DEF LimiterIInv, LimiterTypeOK, Held, Pruned, Bucket, Times
<1>2. QED
  BY <1>1, RefilledIsCredit, TimeAssumption DEF Refilled, Bucket, Times, LimiterIInv, LimiterTypeOK

LEMMA TypeKept ==
  ASSUME LimiterIInv, [LimiterNext]_limiterVars
  PROVE  LimiterTypeOK'
<1> USE TimeAssumption, BudgetAssumption DEF LimiterIInv, LimiterTypeOK, Times
<1>1. CASE Tick
  BY <1>1 DEF Tick, Bucket
<1>2. ASSUME NEW k \in LimitedKeys, Consume(k) PROVE LimiterTypeOK'
  <2> DEFINE credit == Refilled(Held(k))
  <2>1. credit \in 0..Full
    BY HeldIsBucket
  <2>2. Charged(credit) \in 0..Full /\ Wait(credit) \in Nat
    BY <2>1, WaitIsNat DEF Charged
  <2> HIDE DEF credit
  <2>3. /\ DOMAIN buckets' \subseteq LimitedKeys
        /\ buckets' \in [DOMAIN buckets' -> Bucket]
        /\ \A j \in DOMAIN buckets' : buckets'[j].refilledAt <= clock
    BY <1>2, <2>2 DEF Consume, Pruned, Bucket, credit
  <2>4. prunedAt' \in 0..clock /\ clock' = clock
    BY <1>2 DEF Consume
  <2>5. verdict' \in [LimitedKeys -> Verdict] /\ hint' \in [LimitedKeys -> Nat]
    BY <1>2, <2>2 DEF Consume, Verdict, credit
  <2>6. QED
    BY <2>3, <2>4, <2>5
<1>3. CASE UNCHANGED limiterVars
  BY <1>3 DEF limiterVars, Bucket
<1>4. QED
  BY <1>1, <1>2, <1>3 DEF LimiterNext


(* A time shorter than a refill, in which no bucket that was read was      *)
(* idle.                                                                   *)
LEMMA RecentKept ==
  ASSUME LimiterIInv, [LimiterNext]_limiterVars
  PROVE  Recent'
<1> USE TimeAssumption, BudgetAssumption DEF LimiterIInv, LimiterTypeOK, Times
<1>1. ASSUME NEW k \in LimitedKeys, Consume(k) PROVE Recent'
  <2>1. CASE IdleSince(prunedAt)
    <3>1. prunedAt' = clock
      BY <1>1, <2>1 DEF Consume
    <3>2. \A j \in DOMAIN buckets' : j # k => /\ j \in DOMAIN buckets
                                              /\ buckets'[j] = buckets[j]
                                              /\ ~IdleSince(buckets[j].refilledAt)
      BY <1>1, <2>1 DEF Consume, Pruned, Idle
    <3>3. buckets'[k].refilledAt = clock
      BY <1>1 DEF Consume
    <3>4. ASSUME NEW j \in DOMAIN buckets', j # k
          PROVE  /\ (clock - buckets[j].refilledAt) * Limit < Full
                 /\ (buckets[j].refilledAt - clock) * Limit <= 0
      <4> DEFINE r == buckets[j].refilledAt
      <4>1. r \in Nat /\ r <= clock /\ clock - r \in Nat
        BY <3>2, <3>4 DEF Bucket
      <4>2. (clock - r) * Limit \in Nat /\ (clock - r) * Limit < Full
        BY <3>2, <3>4, <4>1, ProductIsNat DEF IdleSince
      <4>3. (r - clock) * Limit = -((clock - r) * Limit)
        BY <4>1
      <4>4. QED
        BY <4>2, <4>3
    <3>5. (clock - clock) * Limit = 0
      OBVIOUS
    <3>6. \A j \in DOMAIN buckets' :
             /\ (clock - buckets'[j].refilledAt) * Limit < Full
             /\ (buckets'[j].refilledAt - clock) * Limit < Full
      <4>1. ASSUME NEW j \in DOMAIN buckets', j = k
            PROVE  /\ (clock - buckets'[j].refilledAt) * Limit < Full
                   /\ (buckets'[j].refilledAt - clock) * Limit < Full
        BY <3>3, <3>5, <4>1
      <4>2. ASSUME NEW j \in DOMAIN buckets', j # k
            PROVE  /\ (clock - buckets'[j].refilledAt) * Limit < Full
                   /\ (buckets'[j].refilledAt - clock) * Limit < Full
        <5>1. j \in DOMAIN buckets /\ buckets'[j] = buckets[j]
          BY <3>2, <4>2
        <5>2. buckets[j].refilledAt \in Nat
          BY <5>1 DEF Bucket
        <5>3. (buckets[j].refilledAt - clock) * Limit \in Int
          BY <5>2
        <5>4. QED
          BY <3>4, <4>2, <5>1, <5>3
      <4>3. QED
        BY <4>1, <4>2
    <3>7. QED
      BY <3>1, <3>6 DEF Recent
  <2>2. CASE ~IdleSince(prunedAt)
    <3>1. prunedAt' = prunedAt
      BY <1>1, <2>2 DEF Consume
    <3>2. \A j \in DOMAIN buckets' : j # k => j \in DOMAIN buckets /\ buckets'[j] = buckets[j]
      BY <1>1, <2>2 DEF Consume, Pruned
    <3>3. buckets'[k].refilledAt = clock
      BY <1>1 DEF Consume
    <3>4. (clock - prunedAt) * Limit \in Nat /\ (clock - prunedAt) * Limit < Full
      BY <2>2, ProductIsNat DEF IdleSince
    <3>5. (prunedAt - clock) * Limit = -((clock - prunedAt) * Limit)
      OBVIOUS
    <3>6. QED
      BY <3>1, <3>2, <3>3, <3>4, <3>5 DEF Recent
  <2>3. QED
    BY <2>1, <2>2
<1>2. CASE Tick
  BY <1>2 DEF Tick, Recent
<1>3. CASE UNCHANGED limiterVars
  BY <1>3 DEF limiterVars, Recent
<1>4. QED
  BY <1>1, <1>2, <1>3 DEF LimiterNext

LEMMA LimiterInvariant == LimiterSpec => []LimiterIInv
<1>1. LimiterInit => LimiterIInv
  BY BudgetAssumption, TimeAssumption DEF LimiterInit, LimiterIInv, LimiterTypeOK, Times, Bucket, Verdict, Recent
<1>2. LimiterIInv /\ [LimiterNext]_limiterVars => LimiterIInv'
  BY TypeKept, RecentKept DEF LimiterIInv
<1>3. QED
  BY <1>1, <1>2, PTL DEF LimiterSpec

(* Every variable of the limiter keeps its type: no bucket ever holds less *)
(* than nothing or more than a burst (rateLimit.ts:61,65).                 *)
THEOREM LimiterTypeCorrect == LimiterSpec => []LimiterTypeOK
<1>1. LimiterIInv => LimiterTypeOK
  BY DEF LimiterIInv
<1>2. QED
  BY <1>1, LimiterInvariant, PTL

(* Whatever the addresses that ask, those that were last heard of two      *)
(* refills before another are out of the map (rateLimit.ts:48-54).         *)
THEOREM NoKeyOutstays == LimiterSpec => []IdleForgotten
<1>1. ASSUME LimiterIInv, NEW j \in DOMAIN buckets, NEW k \in DOMAIN buckets
      PROVE  (buckets[j].refilledAt - buckets[k].refilledAt) * Limit < 2 * Full
  <2> DEFINE a == buckets[j].refilledAt - prunedAt
             b == prunedAt - buckets[k].refilledAt
  <2>1. a \in Int /\ b \in Int /\ a * Limit < Full /\ b * Limit < Full
    BY <1>1, TimeAssumption DEF LimiterIInv, LimiterTypeOK, Recent, Bucket, Times
  <2>2. buckets[j].refilledAt - buckets[k].refilledAt = a + b
    BY <1>1, TimeAssumption DEF LimiterIInv, LimiterTypeOK, Bucket, Times
  <2> HIDE DEF a, b
  <2>3. (a + b) * Limit = a * Limit + b * Limit /\ a * Limit \in Int /\ b * Limit \in Int
    BY <2>1, BudgetAssumption
  <2>4. QED
    BY <2>1, <2>2, <2>3, BudgetAssumption
<1>2. LimiterIInv => IdleForgotten
  BY <1>1 DEF IdleForgotten
<1>3. QED
  BY <1>2, LimiterInvariant, PTL

-----------------------------------------------------------------------------
(* A key that was idle for a refill is full, so that forgetting it changes *)
(* nothing: "a full bucket and a missing one answer alike".                *)
LEMMA PruningIsUnseen ==
  ASSUME LimiterIInv, NEW k \in LimitedKeys
  PROVE  Refilled(Held(k)) = Level[k]
<1> USE TimeAssumption, BudgetAssumption DEF LimiterIInv, LimiterTypeOK, Times
<1>1. CASE k \in DOMAIN Pruned
  BY <1>1 DEF Held, Pruned, Level
<1>2. CASE k \in DOMAIN buckets /\ k \notin DOMAIN Pruned
  <2> DEFINE gained == (clock - buckets[k].refilledAt) * Limit
  <2>1. gained \in Int /\ gained >= Full /\ buckets[k].credit \in 0..Full
    BY <1>2 DEF Pruned, Idle, IdleSince, Bucket
  <2>2. Refilled(buckets[k]) = Full
    BY <2>1 DEF Refilled, Capped
  <2>3. Refilled(Held(k)) = Full
    BY <1>2 DEF Held, Refilled, Capped
  <2>4. QED
    BY <1>2, <2>2, <2>3 DEF Level
<1>3. CASE k \notin DOMAIN buckets
  BY <1>3 DEF Held, Pruned, Level, Refilled, Capped
<1>4. QED
  BY <1>1, <1>2, <1>3

(* With its lazy refills and its pruning the limiter gives each key what a *)
(* bucket that fills steadily would give it (rateLimit.ts:6,38).           *)
THEOREM ImplementsTokenBucket == LimiterSpec => IsTokenBucket
<1> DEFINE allowed == [k \in LimitedKeys |-> verdict[k].allowed]
<1> USE TimeAssumption, BudgetAssumption
<1>1. LimiterInit => Promise!Init
  BY DEF LimiterInit, Promise!Init, Level
<1>2. ASSUME LimiterIInv, [LimiterNext]_limiterVars PROVE [Promise!Next]_<<Level, allowed>>
  <2> USE <1>2 DEF LimiterIInv, LimiterTypeOK, Times
  <2>1. ASSUME NEW k \in LimitedKeys, Consume(k) PROVE Promise!Consume(k)
    <3>1. Refilled(Held(k)) = Level[k] /\ Level[k] \in 0..Full
      BY PruningIsUnseen, HeldIsBucket
    <3>2. allowed' = [allowed EXCEPT ![k] = Level[k] >= Window]
      BY <2>1, <3>1 DEF Consume, Verdict
    <3>3. Level'[k] = Charged(Level[k])
      <4>1. buckets'[k] = [credit |-> Charged(Level[k]), refilledAt |-> clock] /\ k \in DOMAIN buckets'
        BY <2>1, <3>1 DEF Consume
      <4>2. Charged(Level[k]) \in 0..Full
        BY <3>1 DEF Charged
      <4>3. QED
        BY <2>1, <4>1, <4>2 DEF Level, Consume, Refilled, Capped
    <3>4. ASSUME NEW j \in LimitedKeys, j # k PROVE Level'[j] = Level[j]
      <4>1. clock' = clock /\ (j \in DOMAIN buckets' <=> j \in DOMAIN Pruned)
        BY <2>1, <3>4 DEF Consume
      <4>2. j \in DOMAIN Pruned => buckets'[j] = Held(j)
        BY <2>1, <3>4, <4>1 DEF Consume, Held
      <4>3. Level'[j] = Refilled(Held(j))
        BY <4>1, <4>2 DEF Level, Held, Refilled, Capped
      <4>4. QED
        BY <4>3, PruningIsUnseen
    <3>5. Level' = [Level EXCEPT ![k] = Charged(Level[k])]
      BY <3>3, <3>4 DEF Level
    <3>6. QED
      BY <3>2, <3>5 DEF Promise!Consume, Charged
  <2>2. CASE Tick
    <3>1. ASSUME NEW k \in LimitedKeys PROVE Level'[k] = Capped(Level[k] + Limit)
      <4>1. CASE k \in DOMAIN buckets
        <5>1. /\ buckets[k].credit \in 0..Full /\ buckets[k].refilledAt \in Nat
              /\ buckets[k].refilledAt <= clock
          BY <4>1 DEF Bucket
        <5>2. clock' = clock + 1 /\ buckets' = buckets
          BY <2>2 DEF Tick
        <5>3. Refilled(buckets[k])' = Capped(Refilled(buckets[k]) + Limit)
          <6>1. Refilled(buckets[k])'
                  = Capped(buckets'[k].credit + (clock' - buckets'[k].refilledAt) * Limit)
            BY DEF Refilled, Capped
          <6>2. QED
            BY <5>1, <5>2, <6>1, RefillStep DEF Refilled
        <5>4. QED
          BY <2>2, <4>1, <5>3 DEF Tick, Level
      <4>2. CASE k \notin DOMAIN buckets
        BY <2>2, <4>2 DEF Tick, Level, Capped
      <4>3. QED
        BY <4>1, <4>2
    <3>2. Level' = [k \in LimitedKeys |-> Capped(Level[k] + Limit)] /\ allowed' = allowed
      BY <2>2, <3>1 DEF Tick, Level
    <3>3. Promise!Tick
      BY <3>2 DEF Promise!Tick, Promise!Capped, Capped
    <3>4. QED
      BY <3>3 DEF Promise!Next
  <2>3. CASE UNCHANGED limiterVars
    BY <2>3 DEF limiterVars, Level, Refilled, Capped
  <2>4. QED
    BY <2>1, <2>2, <2>3 DEF LimiterNext, Promise!Next
<1>3. QED
  BY <1>1, <1>2, LimiterInvariant, PTL DEF LimiterSpec, IsTokenBucket, Promise!Spec

-----------------------------------------------------------------------------
(* A refused key's hint is when its bucket, as it was left, holds a token; *)
(* and the bucket of a refused key is not forgotten before that.           *)
HintIsExact ==
    \A k \in LimitedKeys : hint[k] # 0 =>
        IF k \in DOMAIN buckets
        THEN buckets[k].credit < Window /\ hint[k] = buckets[k].refilledAt + Wait(buckets[k].credit)
        ELSE hint[k] <= clock

LEMMA ProductKeepsOrder ==
  ASSUME NEW m \in Int, NEW n \in Int, m < n
  PROVE  (m + 1) * Limit <= n * Limit
<1>1. (n - (m + 1)) * Limit \in Nat
  BY ProductIsNat, BudgetAssumption
<1>2. (n - (m + 1)) * Limit = n * Limit - (m + 1) * Limit
  BY BudgetAssumption
<1>3. n * Limit \in Int /\ (m + 1) * Limit \in Int
  BY BudgetAssumption
<1>4. QED
  BY <1>1, <1>2, <1>3

(* The wait is the least number of milliseconds that refills the credit to *)
(* a token: not one too few, and not one too many.                         *)
LEMMA WaitIsLeast ==
  ASSUME NEW credit \in 0..Full, credit < Window
  PROVE  /\ Wait(credit) \in Nat \ {0}
         /\ credit + Wait(credit) * Limit >= Window
         /\ credit + (Wait(credit) - 1) * Limit < Window
<1> DEFINE a == Window - credit + Limit - 1
           w == a \div Limit
<1>1. Wait(credit) = w /\ a \in Nat /\ Limit \in Nat \ {0} /\ a >= Limit
  BY BudgetAssumption DEF Wait
<1> HIDE DEF a
<1>2. w \in Nat /\ w * Limit <= a /\ a < w * Limit + Limit
  <2>1. \A x \in Nat, y \in Nat \ {0} :
           x \div y \in Nat /\ (x \div y) * y <= x /\ x < (x \div y) * y + y
    OBVIOUS
  <2>2. QED
    BY <1>1, <2>1
<1>3. w # 0
  BY <1>1, <1>2
<1>4. (w - 1) * Limit = w * Limit - Limit /\ w * Limit \in Int
  BY <1>1, <1>2
<1>5. QED
  BY <1>1, <1>2, <1>3, <1>4, BudgetAssumption DEF a

(* So a key that waits n milliseconds has a token exactly if n reaches the *)
(* wait.                                                                   *)
LEMMA WaitDecides ==
  ASSUME NEW credit \in 0..Full, credit < Window, NEW n \in Nat
  PROVE  credit + n * Limit >= Window <=> n >= Wait(credit)
<1> DEFINE w == Wait(credit)
<1>1. w \in Nat \ {0} /\ credit + w * Limit >= Window /\ credit + (w - 1) * Limit < Window
  BY WaitIsLeast
<1> SUFFICES credit + n * Limit >= Window <=> n >= w
  OBVIOUS
<1> HIDE DEF w
<1>2. n * Limit \in Int /\ w * Limit \in Int /\ (w - 1) * Limit \in Int /\ Window \in Int
  BY <1>1, BudgetAssumption
<1>3. CASE n < w
  <2>1. CASE n = w - 1
    <3>1. n * Limit = (w - 1) * Limit
      BY <2>1
    <3>2. QED
      BY <1>1, <1>2, <1>3, <3>1
  <2>2. CASE n < w - 1
    <3>1. (n + 1) * Limit <= (w - 1) * Limit /\ (n + 1) * Limit = n * Limit + Limit
      BY <1>1, <2>2, ProductKeepsOrder, BudgetAssumption
    <3>2. QED
      BY <1>1, <1>2, <1>3, <3>1, BudgetAssumption
  <2>3. QED
    BY <1>1, <1>3, <2>1, <2>2
<1>4. CASE w < n
  <2>1. (w + 1) * Limit <= n * Limit /\ (w + 1) * Limit = w * Limit + Limit
    BY <1>1, <1>4, ProductKeepsOrder, BudgetAssumption
  <2>2. QED
    BY <1>1, <1>2, <1>4, <2>1, BudgetAssumption
<1>5. CASE n = w
  BY <1>1, <1>5
<1>6. QED
  BY <1>1, <1>3, <1>4, <1>5

(* What is left to wait after n milliseconds of it.                        *)
LEMMA WaitRunsDown ==
  ASSUME NEW credit \in 0..Full, credit < Window, NEW n \in Nat, n < Wait(credit)
  PROVE  /\ credit + n * Limit \in 0..Full
         /\ credit + n * Limit < Window
         /\ Wait(credit + n * Limit) = Wait(credit) - n
<1> DEFINE later == credit + n * Limit
           w == Wait(credit)
           v == Wait(later)
<1>1. n * Limit \in Nat
  BY ProductIsNat, BudgetAssumption
<1>2. later < Window /\ later \in 0..Full
  BY <1>1, WaitDecides, BudgetAssumption, WaitIsLeast
<1>3. v \in Nat \ {0} /\ later + v * Limit >= Window /\ later + (v - 1) * Limit < Window
  BY <1>2, WaitIsLeast
<1> HIDE DEF v
<1>4. /\ later + v * Limit = credit + (n + v) * Limit
      /\ later + (v - 1) * Limit = credit + (n + v - 1) * Limit
  BY <1>1, <1>3, BudgetAssumption
<1>5. n + v >= w /\ ~(n + v - 1 >= w)
  <2>1. n + v \in Nat /\ n + v - 1 \in Nat
    BY <1>3
  <2>2. /\ credit + (n + v) * Limit >= Window <=> n + v >= w
        /\ credit + (n + v - 1) * Limit >= Window <=> n + v - 1 >= w
    BY <2>1, WaitDecides
  <2>3. (n + v - 1) * Limit \in Int
    BY <2>1, BudgetAssumption
  <2>4. QED
    BY <1>3, <1>4, <2>2, <2>3, BudgetAssumption
<1>6. w \in Nat
  BY WaitIsLeast
<1>7. QED
  BY <1>2, <1>3, <1>5, <1>6 DEF v

-----------------------------------------------------------------------------
(* What a request finds of a key that waits: a hint that is still to come  *)
(* is as long as what is left to wait.                                     *)
LEMMA HintAtRequest ==
  ASSUME LimiterIInv, HintIsExact, NEW k \in LimitedKeys, hint[k] # 0
  PROVE  /\ Refilled(Held(k)) >= Window <=> clock >= hint[k]
         /\ clock < hint[k] => clock + Wait(Refilled(Held(k))) = hint[k]
<1> USE TimeAssumption, BudgetAssumption DEF LimiterIInv, LimiterTypeOK, Times
<1>1. CASE k \in DOMAIN buckets
  <2> DEFINE credit == buckets[k].credit
             n == clock - buckets[k].refilledAt
  <2>1. /\ credit \in 0..Full /\ credit < Window /\ n \in Nat
        /\ hint[k] = buckets[k].refilledAt + Wait(credit) /\ buckets[k].refilledAt \in Nat
    BY <1>1 DEF HintIsExact, Bucket
  <2>2. Wait(credit) \in Nat /\ n * Limit \in Nat
    BY <2>1, WaitIsLeast, ProductIsNat
  <2>3. clock >= hint[k] <=> credit + n * Limit >= Window
    <3>1. clock >= hint[k] <=> n >= Wait(credit)
      BY <2>1, <2>2
    <3>2. QED
      BY <2>1, <3>1, WaitDecides
  <2>4. Refilled(Held(k)) = Capped(credit + n * Limit)
    BY <1>1, PruningIsUnseen DEF Level, Refilled
  <2>5. Refilled(Held(k)) >= Window <=> credit + n * Limit >= Window
    BY <2>1, <2>2, <2>4 DEF Capped
  <2>6. ASSUME clock < hint[k] PROVE clock + Wait(Refilled(Held(k))) = hint[k]
    <3>1. n < Wait(credit)
      BY <2>1, <2>2, <2>6
    <3>2. credit + n * Limit \in 0..Full /\ Wait(credit + n * Limit) = Wait(credit) - n
      BY <2>1, <3>1, WaitRunsDown
    <3>3. Refilled(Held(k)) = credit + n * Limit
      BY <2>4, <3>2 DEF Capped
    <3>4. QED
      BY <2>1, <2>2, <3>2, <3>3
  <2>7. QED
    BY <2>3, <2>5, <2>6
<1>2. CASE k \notin DOMAIN buckets
  <2>1. hint[k] <= clock
    BY <1>2 DEF HintIsExact
  <2>2. Refilled(Held(k)) = Full
    BY <1>2, PruningIsUnseen DEF Level
  <2>3. QED
    BY <2>1, <2>2
<1>3. QED
  BY <1>1, <1>2

LEMMA HintKept ==
  ASSUME LimiterIInv, HintIsExact, [LimiterNext]_limiterVars
  PROVE  HintIsExact'
<1> USE TimeAssumption, BudgetAssumption DEF LimiterIInv, LimiterTypeOK, Times
<1>1. ASSUME NEW k \in LimitedKeys, Consume(k) PROVE HintIsExact'
  <2> DEFINE credit == Refilled(Held(k))
  <2>1. credit \in 0..Full
    BY HeldIsBucket
  <2>2. /\ hint' = [hint EXCEPT ![k] = IF credit >= Window THEN 0 ELSE clock + Wait(credit)]
        /\ k \in DOMAIN buckets'
        /\ buckets'[k] = [credit |-> Charged(credit), refilledAt |-> clock]
        /\ clock' = clock
    BY <1>1 DEF Consume
  <2> HIDE DEF credit
  <2>3. hint'[k] # 0 => /\ credit < Window /\ Charged(credit) = credit
                        /\ hint'[k] = clock + Wait(credit)
    BY <2>1, <2>2 DEF Charged
  <2>4. hint'[k] # 0 => buckets'[k].credit < Window
                        /\ hint'[k] = buckets'[k].refilledAt + Wait(buckets'[k].credit)
    BY <2>2, <2>3
  <2>5. ASSUME NEW j \in LimitedKeys, j # k, hint'[j] # 0
        PROVE  IF j \in DOMAIN buckets'
               THEN buckets'[j].credit < Window
                    /\ hint'[j] = buckets'[j].refilledAt + Wait(buckets'[j].credit)
               ELSE hint'[j] <= clock
    <3>1. hint'[j] = hint[j]
      BY <2>2, <2>5
    <3>2. CASE j \in DOMAIN buckets'
      <4>1. j \in DOMAIN buckets /\ buckets'[j] = buckets[j]
        BY <1>1, <2>5, <3>2 DEF Consume, Pruned
      <4>2. QED
        BY <2>5, <3>1, <3>2, <4>1 DEF HintIsExact
    <3>3. CASE j \notin DOMAIN buckets'
      <4>1. Held(j) = [credit |-> Full, refilledAt |-> clock]
        BY <1>1, <2>5, <3>3 DEF Consume, Held
      <4>2. Refilled(Held(j)) = Full
        BY <4>1 DEF Refilled, Capped
      <4>3. QED
        BY <2>5, <3>1, <3>3, <4>2, HintAtRequest
    <3>4. QED
      BY <3>2, <3>3
  <2>6. QED
    BY <2>2, <2>4, <2>5 DEF HintIsExact, Wait
<1>2. CASE Tick
  BY <1>2 DEF Tick, HintIsExact, Wait
<1>3. CASE UNCHANGED limiterVars
  BY <1>3 DEF limiterVars, HintIsExact, Wait
<1>4. QED
  BY <1>1, <1>2, <1>3 DEF LimiterNext

(* For every budget: a key that is refused is told the very millisecond    *)
(* from which it is allowed, and asking in between changes nothing of it   *)
(* (rateLimit.ts:15,67).                                                   *)
THEOREM HintHonoured == LimiterSpec => RetryHintHonoured
<1>1. LimiterInit => HintIsExact
  BY DEF LimiterInit, HintIsExact
<1>2. LimiterSpec => [](LimiterIInv /\ HintIsExact)
  <2>1. HintIsExact /\ LimiterIInv /\ [LimiterNext]_limiterVars => HintIsExact'
    BY HintKept
  <2>2. QED
    BY <1>1, <2>1, LimiterInvariant, PTL DEF LimiterSpec
<1>3. ASSUME LimiterIInv, HintIsExact, [LimiterNext]_limiterVars
      PROVE  \A k \in LimitedKeys : hint[k] # 0 /\ Asks(k) =>
                 hint'[k] = IF clock >= hint[k] THEN 0 ELSE hint[k]
  <2> SUFFICES ASSUME NEW k \in LimitedKeys, hint[k] # 0, Asks(k)
               PROVE  hint'[k] = IF clock >= hint[k] THEN 0 ELSE hint[k]
    OBVIOUS
  <2> USE <1>3, TimeAssumption, BudgetAssumption DEF LimiterIInv, LimiterTypeOK, Times
  <2>1. Consume(k)
    <3>1. ASSUME NEW j \in LimitedKeys, Consume(j), j # k PROVE FALSE
      BY <3>1 DEF Consume, Pruned, Asks
    <3>2. ~Tick /\ ~UNCHANGED limiterVars
      BY DEF Tick, limiterVars, Asks
    <3>3. QED
      BY <3>1, <3>2 DEF LimiterNext
  <2>2. hint'[k] = IF Refilled(Held(k)) >= Window THEN 0 ELSE clock + Wait(Refilled(Held(k)))
    BY <2>1 DEF Consume
  <2>3. hint[k] \in Nat /\ clock \in Nat
    OBVIOUS
  <2>4. QED
    BY <2>2, <2>3, HintAtRequest
<1>4. QED
  BY <1>2, <1>3, PTL DEF LimiterSpec, RetryHintHonoured

-----------------------------------------------------------------------------
(* The resilience chain, for any number of vendors, attempts and chunks.   *)
(*                                                                         *)
(* OneVoice and Released say nothing of where the call stands while it     *)
(* waits. Bounded says that a backoff has an attempt left and a hook a     *)
(* vendor; Speaking, that whoever may give the caller a chunk is the one   *)
(* the conversation was sent to last, and that nobody is asked any more    *)
(* once a chunk was given. That only an outage moves on needs the count of *)
(* the failures of the vendor being asked (Counted).                       *)

Bounded ==
    /\ at = "backoff" => attempt < MaxAttempts
    /\ at = "hook" => position < Vendors
    /\ at \in {"reading", "streaming"} => ~structured

Speaking ==
    /\ at \in {"reading", "streaming"} \/ (at = "first" /\ ~aborted)
           => sent # <<>> /\ Last(sent) = Current
    /\ at \in {"reading", "streaming"} => received # <<>>
    /\ at \in {"start", "first", "backoff", "hook"} => received = <<>>

ChainIInv == TypeOK /\ Bounded /\ Released /\ Speaking /\ OneVoice

-----------------------------------------------------------------------------
LEMMA LastOfAppend ==
  ASSUME NEW S, NEW s \in Seq(S), NEW e \in S
  PROVE  /\ Append(s, e) \in Seq(S) /\ Append(s, e) # <<>>
         /\ Last(Append(s, e)) = e
  BY DEF Last

LEMMA ChainInitEstablishes == Init => ChainIInv
  BY ChainAssumption DEF Init, ChainIInv, TypeOK, Attempts, Bounded, Released, Speaking, OneVoice

(* An attempt is begun while nobody has been given anything and nothing is *)
(* live.                                                                   *)
LEMMA BeginKeeps ==
  ASSUME ChainIInv, NEW v \in 1..Vendors, NEW a \in 1..MaxAttempts,
         at \in {"start", "backoff", "hook"}, Begin(v, a),
         UNCHANGED <<structured, aborted, received, failures, reported>>
  PROVE  ChainIInv'
<1> USE ChainAssumption DEF ChainIInv, TypeOK
<1>1. <<v, a>> \in Attempts
  BY DEF Attempts
<1>2. sent' \in Seq(Attempts) /\ (~aborted => sent' # <<>> /\ Last(sent') = <<v, a>>)
  <2>1. CASE aborted
    BY <2>1 DEF Begin
  <2>2. CASE ~aborted
    <3>1. sent' = Append(sent, <<v, a>>) /\ sent \in Seq(Attempts)
      BY <2>2 DEF Begin
    <3>2. QED
      BY <1>1, <3>1, LastOfAppend
  <2>3. QED
    BY <2>1, <2>2
<1>3. TypeOK'
  BY <1>1, <1>2 DEF Begin, Becomes
<1>4. Bounded' /\ Released'
  BY DEF Begin, Becomes, Bounded, Released, Current
<1>5. Speaking' /\ OneVoice'
  BY <1>2 DEF Begin, Becomes, Speaking, OneVoice, Current
<1>6. QED
  BY <1>3, <1>4, <1>5

LEMMA AskKeeps ==
  ASSUME ChainIInv, NEW v \in 1..Vendors, at \in {"start", "hook"}, Ask(v),
         UNCHANGED <<structured, aborted, received, failures, reported>>
  PROVE  ChainIInv'
<1>1. CASE aborted
  <2>1. TypeOK'
    BY <1>1 DEF Ask, Finish, ChainIInv, TypeOK
  <2>2. QED
    BY <1>1, <2>1 DEF Ask, Finish, ChainIInv, Bounded, Released, Speaking, OneVoice, Current
<1>2. CASE ~aborted
  <2>1. Begin(v, 1)
    BY <1>2 DEF Ask
  <2>2. QED
    BY <2>1, BeginKeeps, ChainAssumption
<1>3. QED
  BY <1>1, <1>2

(* An attempt that failed before its first chunk is released, and the call *)
(* waits, turns to the host, or is over.                                   *)
LEMMA FailureKeeps ==
  ASSUME ChainIInv, NEW e \in Errors, at = "first", Fails(e), Release,
         UNCHANGED <<structured, aborted, position, attempt, sent, received>>
  PROVE  ChainIInv'
<1> USE ChainAssumption DEF ChainIInv, TypeOK
<1>1. /\ at' \in {"backoff", "hook", "over"}
      /\ at' = "backoff" => attempt < MaxAttempts
      /\ at' = "hook" => position < Vendors
      /\ outcome' \in {"none", "returned", "raised"}
      /\ outcome' = "none" <=> at' # "over"
  BY DEF Fails, GiveUp, Route, Becomes, Finish, AttemptsLeft
<1>2. reported' \in Seq(1..Vendors)
  <2>1. Append(reported, position) \in Seq(1..Vendors)
    BY LastOfAppend
  <2>2. reported' \in {reported, Append(reported, position)}
    BY DEF Fails, GiveUp, Route, Becomes, Finish
  <2>3. QED
    BY <2>1, <2>2
<1>3. failures' \in Seq([of : Attempts, error : Errors])
  <2>1. [of |-> Current, error |-> e] \in [of : Attempts, error : Errors]
    BY DEF Current, Attempts
  <2>2. QED
    BY <2>1 DEF Fails
<1>4. live' = {}
  BY DEF Release, Released
<1>5. TypeOK'
  BY <1>1, <1>2, <1>3, <1>4
<1>6. QED
  BY <1>1, <1>4, <1>5 DEF Bounded, Released, Speaking, OneVoice, Current

(* The call is over, and what was live is released.                        *)
LEMMA EndKeeps ==
  ASSUME ChainIInv, NEW how \in {"returned", "raised"}, Finish(how), Release,
         at \in {"first", "reading", "streaming"},
         UNCHANGED <<structured, aborted, position, attempt, sent, received, failures, reported>>
  PROVE  ChainIInv'
<1>1. live' = {}
  BY DEF ChainIInv, Release, Released
<1>2. TypeOK'
  BY <1>1 DEF ChainIInv, TypeOK, Finish
<1>3. QED
  BY <1>1, <1>2 DEF ChainIInv, Finish, Bounded, Released, Speaking, OneVoice, Current

LEMMA ChunkKeeps == ASSUME ChainIInv, Chunk PROVE ChainIInv'
<1> USE DEF ChainIInv, TypeOK
<1>1. Current \in Attempts /\ sent # <<>> /\ Last(sent) = Current
  BY DEF Chunk, Speaking, Current, Attempts
<1>2. received' \in Seq(Attempts) /\ received' # <<>>
  BY <1>1, LastOfAppend DEF Chunk
<1>3. \A i \in DOMAIN received' : received'[i] = Last(sent)
  BY <1>1 DEF Chunk, OneVoice
<1>4. TypeOK'
  BY <1>2 DEF Chunk, Becomes
<1>5. QED
  BY <1>1, <1>2, <1>3, <1>4 DEF Chunk, Becomes, Bounded, Released, Speaking, OneVoice, Current

LEMMA ChainInvariantKept == ChainIInv /\ [Next]_vars => ChainIInv'
<1> SUFFICES ASSUME ChainIInv, [Next]_vars PROVE ChainIInv'
  OBVIOUS
<1>1. CASE Start
  BY <1>1, AskKeeps, ChainAssumption DEF Start
<1>2. CASE FirstChunkTimeout
  <2>1. TimedOut \in Errors
    BY DEF TimedOut, Errors, Codes
  <2>2. QED
    BY <1>2, <2>1, FailureKeeps DEF FirstChunkTimeout
<1>3. CASE BackoffEnds
  <2>1. attempt + 1 \in 1..MaxAttempts /\ position \in 1..Vendors
    BY <1>3, ChainAssumption DEF BackoffEnds, ChainIInv, TypeOK, Bounded
  <2>2. QED
    BY <1>3, <2>1, BeginKeeps DEF BackoffEnds
<1>4. CASE HookSettles
  <2>1. position + 1 \in 1..Vendors
    BY <1>4, ChainAssumption DEF HookSettles, ChainIInv, TypeOK, Bounded
  <2>2. QED
    BY <1>4, <2>1, AskKeeps DEF HookSettles
<1>5. CASE Read
  <2>1. TypeOK'
    BY <1>5 DEF Read, Becomes, ChainIInv, TypeOK
  <2>2. QED
    BY <1>5, <2>1 DEF Read, Becomes, ChainIInv, Bounded, Released, Speaking, OneVoice, Current
<1>6. CASE IdleTimeout
  BY <1>6, EndKeeps DEF IdleTimeout
<1>7. CASE Answers
  <2>1. TypeOK'
    BY <1>7 DEF Answers, Finish, ChainIInv, TypeOK
  <2>2. QED
    BY <1>7, <2>1 DEF Answers, Finish, ChainIInv, Bounded, Released, Speaking, OneVoice, Current
<1>8. CASE Chunk
  BY <1>8, ChunkKeeps
<1>9. CASE StopsReading
  BY <1>9, EndKeeps DEF StopsReading
<1>10. CASE StreamEnds
  BY <1>10, EndKeeps DEF StreamEnds
<1>11. CASE Abort
  <2>1. TypeOK'
    BY <1>11 DEF Abort, ChainIInv, TypeOK
  <2>2. QED
    BY <1>11, <2>1 DEF Abort, ChainIInv, Bounded, Released, Speaking, OneVoice, Current
<1>12. ASSUME NEW e \in Errors, VendorFails(e) PROVE ChainIInv'
  <2>1. TimedOut \in Errors
    BY DEF TimedOut, Errors, Codes
  <2>2. QED
    BY <1>12, <2>1, FailureKeeps DEF VendorFails
<1>13. ASSUME NEW e \in Errors, StreamFails(e) PROVE ChainIInv'
  BY <1>13, EndKeeps DEF StreamFails
<1>14. CASE UNCHANGED vars
  <2>1. TypeOK'
    BY <1>14 DEF vars, ChainIInv, TypeOK
  <2>2. QED
    BY <1>14, <2>1 DEF vars, ChainIInv, Bounded, Released, Speaking, OneVoice, Current
<1>15. QED
  BY <1>1, <1>2, <1>3, <1>4, <1>5, <1>6, <1>7, <1>8, <1>9, <1>10, <1>11, <1>12, <1>13, <1>14
  DEF Next, Proceed

LEMMA ChainInvariant == Spec => []ChainIInv
  BY ChainInitEstablishes, ChainInvariantKept, PTL DEF Spec

-----------------------------------------------------------------------------
(* Every variable of the chain keeps its type: no vendor or attempt beyond *)
(* the configured ones is ever made, and a structured call streams nothing.*)
THEOREM ChainTypeCorrect == Spec => []TypeOK
<1>1. ChainIInv => TypeOK
  BY DEF ChainIInv
<1>2. QED
  BY <1>1, ChainInvariant, PTL

(* However many vendors and attempts are configured, the caller never gets *)
(* half an answer of one and more of another (withFallback.ts:62).         *)
THEOREM OneVoiceAlways == Spec => []OneVoice
<1>1. ChainIInv => OneVoice
  BY DEF ChainIInv
<1>2. QED
  BY <1>1, ChainInvariant, PTL

(* No request is left behind, whichever way its attempt ended              *)
(* (withRetry.ts:65).                                                      *)
THEOREM ReleasedAlways == Spec => []Released
<1>1. ChainIInv => Released
  BY DEF ChainIInv
<1>2. QED
  BY <1>1, ChainInvariant, PTL

(* After an abort no vendor is sent anything, the caller is given nothing, *)
(* and an error only of an answer that had begun (withFallback.ts:47).     *)
THEOREM AbortIsQuietAlways == Spec => AbortIsQuiet
<1>1. ASSUME ChainIInv, Next, aborted
      PROVE  /\ <<position', sent', received'>> = <<position, sent, received>>
             /\ outcome' = "raised" => received # <<>>
  <2> USE <1>1
  <2>1. CASE Start \/ HookSettles
    BY <2>1 DEF Start, HookSettles, Ask, Finish
  <2>2. CASE BackoffEnds
    BY <2>2 DEF BackoffEnds, Begin, Becomes, ChainIInv, TypeOK
  <2>3. ASSUME NEW e \in Errors, Fails(e), at = "first", UNCHANGED aborted
        PROVE  outcome' # "raised"
    BY <2>3 DEF Fails, GiveUp, Finish, Becomes, ChainIInv, TypeOK
  <2>4. CASE FirstChunkTimeout
    <3>1. TimedOut \in Errors
      BY DEF TimedOut, Errors, Codes
    <3>2. QED
      BY <2>3, <2>4, <3>1 DEF FirstChunkTimeout
  <2>5. CASE IdleTimeout
    BY <2>5 DEF IdleTimeout, ChainIInv, Speaking
  <2>6. CASE Read
    BY <2>6 DEF Read, Becomes, ChainIInv, TypeOK
  <2>7. CASE Answers \/ StopsReading \/ StreamEnds
    BY <2>7 DEF Answers, StopsReading, StreamEnds, Finish
  <2>8. ~Chunk /\ ~Abort /\ \A e \in Errors : ~VendorFails(e) /\ ~StreamFails(e)
    BY DEF Chunk, Abort, VendorFails, StreamFails
  <2>9. QED
    BY <2>1, <2>2, <2>4, <2>5, <2>6, <2>7, <2>8 DEF Next, Proceed
<1>2. QED
  BY <1>1, ChainInvariant, PTL DEF Spec, AbortIsQuiet
-----------------------------------------------------------------------------
(* Each attempt of the vendor being asked failed but the one under way; a  *)
(* later vendor was not asked, and one the host is told of is spent.       *)
Counted ==
    /\ \A i \in DOMAIN failures : failures[i].of[1] <= position
    /\ \A i \in DOMAIN sent : sent[i][1] <= position
    /\ at \in {"start", "first", "reading", "streaming"} =>
           Cardinality(FailuresOf(position)) = attempt - 1
    /\ at = "start" => position = 1 /\ attempt = 1
    /\ at = "backoff" => Cardinality(FailuresOf(position)) = attempt
    /\ at = "hook" => SpentOnOutage(position)

FailureRecords == [of : Attempts, error : Errors]

LEMMA FailuresOfFinite ==
  ASSUME NEW v, TypeOK PROVE IsFiniteSet(FailuresOf(v))
<1>1. DOMAIN failures = 1..Len(failures) /\ Len(failures) \in Nat
  BY DEF TypeOK
<1>2. IsFiniteSet(1..Len(failures))
  BY <1>1, FS_Interval
<1>3. QED
  BY <1>1, <1>2, FS_Subset DEF FailuresOf

(* A step that records no failure changes nothing of what is spent.        *)
LEMMA SpentKept ==
  ASSUME NEW v, failures' = failures
  PROVE  FailuresOf(v)' = FailuresOf(v) /\ (SpentOnOutage(v)' <=> SpentOnOutage(v))
<1>1. FailuresOf(v)' = FailuresOf(v)
  BY DEF FailuresOf
<1>2. QED
  BY <1>1 DEF SpentOnOutage

LEMMA FailureRecorded ==
  ASSUME TypeOK, NEW f \in FailureRecords, f.of[1] = position,
         failures' = Append(failures, f), position' = position
  PROVE  /\ DOMAIN failures' = DOMAIN failures \union {Len(failures) + 1}
         /\ failures'[Len(failures) + 1] = f
         /\ \A i \in DOMAIN failures : failures'[i] = failures[i]
         /\ FailuresOf(position)' = FailuresOf(position) \union {Len(failures) + 1}
         /\ Cardinality(FailuresOf(position)') = Cardinality(FailuresOf(position)) + 1
         /\ \A v : v # position =>
                FailuresOf(v)' = FailuresOf(v) /\ (SpentOnOutage(v) => SpentOnOutage(v)')
<1> DEFINE n == Len(failures) + 1
<1>1. /\ Len(failures) \in Nat /\ DOMAIN failures = 1..Len(failures)
      /\ failures \in Seq(FailureRecords)
  BY DEF TypeOK, FailureRecords
<1>2. DOMAIN failures' = DOMAIN failures \union {n} /\ n \notin DOMAIN failures
  BY <1>1
<1>3. failures'[n] = f /\ \A i \in DOMAIN failures : failures'[i] = failures[i]
  BY <1>1
<1>4. FailuresOf(position)' = FailuresOf(position) \union {n} /\ n \notin FailuresOf(position)
  BY <1>2, <1>3 DEF FailuresOf
<1>5. Cardinality(FailuresOf(position)') = Cardinality(FailuresOf(position)) + 1
  BY <1>4, FailuresOfFinite, FS_AddElement
<1>6. ASSUME NEW v, v # position
      PROVE  FailuresOf(v)' = FailuresOf(v) /\ (SpentOnOutage(v) => SpentOnOutage(v)')
  <2>1. FailuresOf(v)' = FailuresOf(v)
    BY <1>2, <1>3, <1>6 DEF FailuresOf
  <2>2. \A i \in FailuresOf(v) : failures'[i] = failures[i]
    BY <1>3 DEF FailuresOf
  <2>3. QED
    BY <2>1, <2>2 DEF SpentOnOutage
<1>7. QED
  BY <1>2, <1>3, <1>4, <1>5, <1>6


LEMMA CountedAtFirst == Init => Counted
<1> SUFFICES ASSUME Init PROVE Counted
  OBVIOUS
<1>1. FailuresOf(position) = {} /\ position = 1
  BY DEF Init, FailuresOf
<1>2. Cardinality({}) = 0
  BY FS_EmptySet
<1>3. Cardinality(FailuresOf(position)) = attempt - 1
  <2>1. attempt - 1 = 0
    BY DEF Init
  <2>2. QED
    BY <1>1, <1>2, <2>1
<1>4. failures = <<>> /\ sent = <<>> /\ at = "start" /\ position = 1 /\ attempt = 1
  BY DEF Init
<1>5. QED
  BY <1>3, <1>4 DEF Counted

(* An attempt is begun by a vendor that failed once less often than that.  *)
LEMMA CountedWhenBegun ==
  ASSUME TypeOK, Counted, NEW v \in 1..Vendors, NEW a \in 1..MaxAttempts, Begin(v, a),
         position <= v, Cardinality(FailuresOf(v)) = a - 1, failures' = failures
  PROVE  Counted'
<1>1. position' = v /\ attempt' = a /\ at' = "first"
  BY DEF Begin, Becomes
<1>2. FailuresOf(position)' = FailuresOf(v)
  BY <1>1 DEF FailuresOf
<1>3. \A i \in DOMAIN failures' : failures'[i].of[1] <= position'
  <2>1. ASSUME NEW i \in DOMAIN failures PROVE failures[i].of[1] \in Nat
    <3>1. failures \in Seq(FailureRecords)
      BY DEF TypeOK, FailureRecords
    <3>2. failures[i] \in FailureRecords
      BY <3>1
    <3>3. failures[i].of \in Attempts
      BY <3>2 DEF FailureRecords
    <3>4. QED
      BY <3>3, ChainAssumption DEF Attempts
  <2>2. QED
    BY <1>1, <2>1, ChainAssumption DEF Counted, TypeOK
<1>4. \A i \in DOMAIN sent' : sent'[i][1] <= position'
  <2>1. sent' \in {sent, Append(sent, <<v, a>>)} /\ sent \in Seq(Attempts)
    BY DEF Begin, TypeOK
  <2>2. \A i \in DOMAIN sent : sent[i][1] \in Nat /\ sent[i][1] <= v
    <3>1. \A i \in DOMAIN sent : sent[i][1] \in 1..Vendors
      BY <2>1 DEF Attempts
    <3>2. QED
      BY <3>1, ChainAssumption DEF Counted, TypeOK
  <2>3. CASE sent' = sent
    BY <1>1, <2>2, <2>3
  <2>4. CASE sent' = Append(sent, <<v, a>>)
    <3>1. \A i \in DOMAIN sent' : sent'[i] = IF i \in DOMAIN sent THEN sent[i] ELSE <<v, a>>
      BY <2>1, <2>4
    <3>2. QED
      BY <1>1, <2>2, <3>1
  <2>5. QED
    BY <2>1, <2>3, <2>4
<1>5. QED
  BY <1>1, <1>2, <1>3, <1>4 DEF Counted

(* The one attempt under way fails.                                        *)
LEMMA CountedWhenFailed ==
  ASSUME ChainIInv, Counted, NEW e \in Errors, at = "first", Fails(e),
         UNCHANGED <<aborted, position, attempt, sent>>
  PROVE  Counted'
<1> DEFINE f == [of |-> Current, error |-> e]
           n == Len(failures) + 1
<1>1. f \in FailureRecords /\ f.of[1] = position /\ failures' = Append(failures, f)
  BY ChainAssumption DEF ChainIInv, TypeOK, FailureRecords, Attempts, Current, Fails
<1>2. /\ DOMAIN failures' = DOMAIN failures \union {n}
      /\ failures'[n] = f
      /\ \A i \in DOMAIN failures : failures'[i] = failures[i]
      /\ FailuresOf(position)' = FailuresOf(position) \union {n}
      /\ Cardinality(FailuresOf(position)') = Cardinality(FailuresOf(position)) + 1
  BY <1>1, FailureRecorded DEF ChainIInv
<1>3. position \in Nat /\ attempt \in Nat
  BY ChainAssumption DEF ChainIInv, TypeOK
<1>4. Cardinality(FailuresOf(position)') = attempt
  BY <1>2, <1>3 DEF Counted
<1>5. \A i \in DOMAIN failures' : failures'[i].of[1] <= position'
  BY <1>1, <1>2, <1>3 DEF Counted
<1>6. ASSUME at' = "hook" PROVE SpentOnOutage(position)'
  <2>1. FailsOver(e) /\ ~(e.retryable /\ AttemptsLeft)
    BY <1>6 DEF Fails, GiveUp, Finish, Becomes
  <2>2. e.code \notin {"none", "FAULT"} /\ (e.code = "OTHER" => e.retryable)
    BY <2>1 DEF FailsOver
  <2>3. e.retryable => attempt = MaxAttempts
    BY <2>1, ChainAssumption DEF AttemptsLeft, ChainIInv, TypeOK
  <2>4. \A i \in FailuresOf(position)' : i <= n
    <3>1. Len(failures) \in Nat /\ DOMAIN failures = 1..Len(failures)
      BY DEF ChainIInv, TypeOK
    <3>2. QED
      BY <1>2, <3>1 DEF FailuresOf
  <2>5. n \in FailuresOf(position)' /\ failures'[n].error = e
    BY <1>2
  <2>6. QED
    BY <1>4, <2>2, <2>3, <2>4, <2>5 DEF SpentOnOutage
<1>7. at' \in {"backoff", "hook", "over"}
  BY DEF Fails, GiveUp, Route, Becomes, Finish
<1>8. QED
  BY <1>4, <1>5, <1>6, <1>7 DEF Counted

(* No failure is recorded and nobody is asked.                             *)
LEMMA CountedKept ==
  ASSUME Counted, UNCHANGED <<position, attempt, sent, failures>>,
         \/ at' \in {at, "over"}
         \/ at' \in {"reading", "streaming"} /\ at \in {"first", "reading", "streaming"}
  PROVE  Counted'
<1>1. FailuresOf(position)' = FailuresOf(position)
  BY DEF FailuresOf
<1>2. SpentOnOutage(position)' <=> SpentOnOutage(position)
  BY <1>1 DEF SpentOnOutage
<1>3. QED
  BY <1>1, <1>2 DEF Counted

LEMMA CountedInvariant == ChainIInv /\ Counted /\ [Next]_vars => Counted'
<1> SUFFICES ASSUME ChainIInv, Counted, [Next]_vars PROVE Counted'
  OBVIOUS
<1>t. /\ TypeOK /\ position \in Nat /\ attempt \in Nat
      /\ TimedOut \in Errors
  BY ChainAssumption DEF ChainIInv, TypeOK, TimedOut, Errors, Codes
<1>1. CASE Start
  <2>1. at = "start" /\ failures' = failures
    BY <1>1 DEF Start
  <2>2. CASE aborted
    BY <1>1, <2>2, CountedKept DEF Start, Ask, Finish
  <2>3. CASE ~aborted
    <3>1. Begin(1, 1)
      BY <1>1, <2>3 DEF Start, Ask
    <3>2. position = 1 /\ attempt = 1
      BY <2>1 DEF Counted
    <3>3. Cardinality(FailuresOf(1)) = 1 - 1
      BY <2>1, <3>2 DEF Counted
    <3>4. QED
      BY <1>t, <2>1, <3>1, <3>2, <3>3, CountedWhenBegun, ChainAssumption
  <2>4. QED
    BY <2>2, <2>3
<1>2. CASE FirstChunkTimeout
  BY <1>t, <1>2, CountedWhenFailed DEF FirstChunkTimeout
<1>3. CASE BackoffEnds
  <2>1. attempt + 1 \in 1..MaxAttempts /\ position \in 1..Vendors /\ Begin(position, attempt + 1)
    BY <1>3, ChainAssumption DEF BackoffEnds, ChainIInv, TypeOK, Bounded
  <2>2. Cardinality(FailuresOf(position)) = (attempt + 1) - 1 /\ failures' = failures /\ position <= position
    BY <1>t, <1>3 DEF BackoffEnds, Counted
  <2>3. QED
    BY <1>t, <2>1, <2>2, CountedWhenBegun
<1>4. CASE HookSettles
  <2>1. CASE aborted
    BY <1>4, <2>1, CountedKept DEF HookSettles, Ask, Finish
  <2>2. CASE ~aborted
    <3>1. Begin(position + 1, 1) /\ failures' = failures
      BY <1>4, <2>2 DEF HookSettles, Ask
    <3>2. position + 1 \in 1..Vendors /\ position <= position + 1
      BY <1>4, <1>t, ChainAssumption DEF HookSettles, ChainIInv, TypeOK, Bounded
    <3>3. FailuresOf(position + 1) = {}
      BY <1>t DEF FailuresOf, Counted
    <3>4. Cardinality(FailuresOf(position + 1)) = 1 - 1
      BY <3>3, FS_EmptySet
    <3>5. QED
      BY <1>t, <3>1, <3>2, <3>4, CountedWhenBegun, ChainAssumption
  <2>3. QED
    BY <2>1, <2>2
<1>5. CASE Read \/ Chunk
  BY <1>5, CountedKept DEF Read, Chunk, Becomes
<1>6. CASE IdleTimeout \/ Answers \/ StopsReading \/ StreamEnds
  BY <1>6, CountedKept DEF IdleTimeout, Answers, StopsReading, StreamEnds, Finish
<1>7. CASE Abort
  BY <1>7, CountedKept DEF Abort
<1>8. ASSUME NEW e \in Errors, VendorFails(e) PROVE Counted'
  BY <1>t, <1>8, CountedWhenFailed DEF VendorFails
<1>9. ASSUME NEW e \in Errors, StreamFails(e) PROVE Counted'
  BY <1>9, CountedKept DEF StreamFails, Finish
<1>10. CASE UNCHANGED vars
  BY <1>10, CountedKept DEF vars
<1>11. QED
  BY <1>1, <1>2, <1>3, <1>4, <1>5, <1>6, <1>7, <1>8, <1>9, <1>10 DEF Next, Proceed

(* Who is sent the conversation, and by which step.                        *)
LEMMA SentSteps ==
  ASSUME ChainIInv, [Next]_vars, sent' # sent
  PROVE  \E w \in 1..Vendors, a \in 1..MaxAttempts :
            /\ sent' = Append(sent, <<w, a>>)
            /\ failures' = failures
            /\ \/ w = 1
               \/ at = "backoff" /\ a = attempt + 1
               \/ at = "hook" /\ w = position + 1
<1>1. CASE Start
  BY <1>1, ChainAssumption DEF Start, Ask, Begin
<1>2. CASE BackoffEnds
  <2>1. attempt + 1 \in 1..MaxAttempts /\ position \in 1..Vendors
    BY <1>2, ChainAssumption DEF BackoffEnds, ChainIInv, TypeOK, Bounded
  <2>2. QED
    BY <1>2, <2>1 DEF BackoffEnds, Begin
<1>3. CASE HookSettles
  <2>1. position + 1 \in 1..Vendors
    BY <1>3, ChainAssumption DEF HookSettles, ChainIInv, TypeOK, Bounded
  <2>2. QED
    BY <1>3, <2>1, ChainAssumption DEF HookSettles, Ask, Begin
<1>4. sent' = sent \/ Start \/ BackoffEnds \/ HookSettles
  BY DEF Next, Proceed, vars, FirstChunkTimeout, Read, IdleTimeout, Answers, Chunk,
         StopsReading, StreamEnds, Abort, VendorFails, StreamFails
<1>5. QED
  BY <1>1, <1>2, <1>3, <1>4

(* A failure is one of the vendor being asked: others stay spent.          *)
LEMMA FailureSteps ==
  ASSUME ChainIInv, [Next]_vars, NEW v, v # position, SpentOnOutage(v)
  PROVE  SpentOnOutage(v)'
<1>1. CASE failures' = failures
  BY <1>1, SpentKept
<1>2. ASSUME NEW e \in Errors, at = "first", Fails(e), position' = position
      PROVE  SpentOnOutage(v)'
  <2> DEFINE f == [of |-> Current, error |-> e]
  <2>1. f \in FailureRecords /\ f.of[1] = position /\ failures' = Append(failures, f)
    BY <1>2, ChainAssumption DEF ChainIInv, TypeOK, FailureRecords, Attempts, Current, Fails
  <2>2. QED
    BY <1>2, <2>1, FailureRecorded DEF ChainIInv
<1>3. TimedOut \in Errors
  BY DEF TimedOut, Errors, Codes
<1>4. CASE FirstChunkTimeout
  BY <1>2, <1>3, <1>4 DEF FirstChunkTimeout
<1>5. ASSUME NEW e \in Errors, VendorFails(e) PROVE SpentOnOutage(v)'
  BY <1>2, <1>3, <1>5 DEF VendorFails
<1>6. failures' = failures \/ FirstChunkTimeout \/ \E e \in Errors : VendorFails(e)
  BY DEF Next, Proceed, vars, Start, BackoffEnds, HookSettles, Read, IdleTimeout, Answers,
         Chunk, StopsReading, StreamEnds, Abort, StreamFails
<1>7. QED
  BY <1>1, <1>4, <1>5, <1>6

(* A vendor is new to the conversation only behind the host's hook.        *)
LEMMA SentKept ==
  ASSUME ChainIInv, Counted, SentOnOutageOnly, [Next]_vars PROVE SentOnOutageOnly'
<1>1. ASSUME NEW v \in 2..Vendors, <<v, 1>> \in Range(sent)' PROVE SpentOnOutage(v - 1)'
  <2>1. \/ <<v, 1>> \in Range(sent)
        \/ at = "hook" /\ v = position + 1 /\ failures' = failures
    <3>1. CASE sent' = sent
      BY <1>1, <3>1 DEF Range
    <3>2. CASE sent' # sent
      <4>1. PICK w \in 1..Vendors, a \in 1..MaxAttempts :
               /\ sent' = Append(sent, <<w, a>>)
               /\ failures' = failures
               /\ \/ w = 1
                  \/ at = "backoff" /\ a = attempt + 1
                  \/ at = "hook" /\ w = position + 1
        BY <3>2, SentSteps
      <4>2. sent \in Seq(Attempts) /\ attempt \in 1..MaxAttempts
        BY DEF ChainIInv, TypeOK
      <4>3. Range(sent)' = Range(sent) \union {<<w, a>>}
        <5>1. /\ DOMAIN sent' = DOMAIN sent \union {Len(sent) + 1}
              /\ \A i \in DOMAIN sent : sent'[i] = sent[i]
              /\ sent'[Len(sent) + 1] = <<w, a>>
          BY <4>1, <4>2
        <5>2. QED
          BY <5>1 DEF Range
      <4>4. <<v, 1>> \in Range(sent) \/ (w = v /\ a = 1)
        BY <1>1, <4>3
      <4>5. QED
        BY <4>1, <4>2, <4>4, ChainAssumption
    <3>3. QED
      BY <3>1, <3>2
  <2>2. CASE <<v, 1>> \in Range(sent)
    <3>1. SpentOnOutage(v - 1) /\ v - 1 # position
      <4>1. v <= position
        BY <2>2 DEF Counted, Range
      <4>2. position \in Nat /\ v \in Nat
        BY ChainAssumption DEF ChainIInv, TypeOK
      <4>3. QED
        BY <2>2, <4>1, <4>2 DEF SentOnOutageOnly
    <3>2. QED
      BY <3>1, FailureSteps, SpentKept
  <2>3. CASE at = "hook" /\ v = position + 1 /\ failures' = failures
    <3>1. v - 1 = position
      BY <2>3, ChainAssumption DEF ChainIInv, TypeOK
    <3>2. QED
      BY <2>3, <3>1, SpentKept DEF Counted
  <2>4. QED
    BY <2>1, <2>2, <2>3
<1>2. QED
  BY <1>1 DEF SentOnOutageOnly

(* However many vendors and attempts are configured, none is sent the      *)
(* conversation unless an outage ended the one before, its retries spent   *)
(* (withFallback.ts:30,93).                                                *)
THEOREM SentOnOutageOnlyAlways == Spec => []SentOnOutageOnly
<1>1. Init => Counted /\ SentOnOutageOnly
  <2>1. Init => SentOnOutageOnly
    BY DEF Init, SentOnOutageOnly, Range
  <2>2. QED
    BY <2>1, CountedAtFirst
<1>2. ChainIInv /\ Counted /\ SentOnOutageOnly /\ [Next]_vars => Counted' /\ SentOnOutageOnly'
  BY CountedInvariant, SentKept
<1>3. QED
  BY <1>1, <1>2, ChainInvariant, PTL DEF Spec

=============================================================================
