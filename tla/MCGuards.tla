------------------------------- MODULE MCGuards -------------------------------
(***************************************************************************)
(* The three guards a turn passes: the lock of its session, the limiter of *)
(* its sender, and the chain of vendors behind its provider.  They share   *)
(* no state, so each is looked at by itself, the two others at rest: in    *)
(* every behaviour one of them is used.                                    *)
(*                                                                         *)
(* Three callbacks on two keys are enough for a key to be forgotten with   *)
(* one callback behind it and a third arriving afterwards.                 *)
(***************************************************************************)
EXTENDS PerSessionLock, RateLimiter, ProviderResilience

VARIABLE used    \* which of the three; chosen once

guardVars == <<lockVars, limiterVars, vars, used>>

(* A call nobody uses is one that never has to end.                        *)
GuardsInit ==
    /\ used \in {"lock", "limiter", "chain"}
    /\ LockInit /\ LimiterInit /\ Init
    /\ used # "chain" => structured

Using(one, others) == used = one /\ UNCHANGED <<others, used>>

UsingLock == Using("lock", <<limiterVars, vars>>)
UsingLimiter == Using("limiter", <<lockVars, vars>>)
UsingChain == Using("chain", <<lockVars, limiterVars>>)

GuardsNext ==
    \/ LockNext /\ UsingLock
    \/ LimiterNext /\ UsingLimiter
    \/ Next /\ UsingChain

(* The fairness of the lock, and of the chain.                             *)
GuardsFairness ==
    /\ \A c \in Calls : /\ WF_guardVars(Reaction(c) /\ UsingLock)
                        /\ WF_guardVars((\E o \in Outcomes : Settle(c, o)) /\ UsingLock)
    /\ WF_guardVars(Proceed /\ UsingChain)

GuardsSpec == GuardsInit /\ [][GuardsNext]_guardVars /\ GuardsFairness
===============================================================================
