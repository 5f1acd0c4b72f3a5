------------------------------ MODULE Transport ------------------------------
(***************************************************************************)
(* The engine as its host runs it: the server with its sockets (Server)    *)
(* and the chat routes behind the same port (RestChats).  A request        *)
(* arrives while the server listens; the server's close waits for the      *)
(* requests still under way as for the sockets.                            *)
(***************************************************************************)
EXTENDS Server, RestChats

CONSTANT Casts   \* bound: which calls, clients and requests there are side by side

VARIABLE cast    \* chosen once

vars == <<serverVars, chatVars, cast>>

ASSUME CastsAssumption ==
    Casts \subseteq [starts : SUBSET Starts, stops : SUBSET Stops,
                    sockets : SUBSET Sockets, posts : SUBSET Posts]

Init == ServerInit /\ ChatInit /\ cast \in Casts

(* Only who is cast ever acts.                                             *)
OnlyCast ==
    /\ \A i \in Starts \ cast.starts : start'[i] = "uncalled"
    /\ \A j \in Stops \ cast.stops : stop'[j] = "uncalled"
    /\ \A s \in Sockets \ cast.sockets : socket'[s].at = "none"
    /\ \A p \in Posts \ cast.posts : post'[p].at = "none"
    /\ UNCHANGED cast

RequestArrives == net.listening /\ \E p \in Posts : Arrive(p) /\ UNCHANGED serverVars

RequestProceeds(p) == Proceed(p) /\ UNCHANGED serverVars

HostErases == \E c \in Chats : Erase(c) /\ UNCHANGED serverVars

ServerCloses == Drained(InFlight) /\ UNCHANGED chatVars

Next ==
    /\ Running
    /\ \/ ServerStep /\ UNCHANGED chatVars
       \/ ServerCloses \/ RequestArrives \/ HostErases
       \/ \E p \in Posts : RequestProceeds(p)
    /\ OnlyCast

(* The heartbeat beats, and ws ends a closing socket within 30 s.          *)
(* Authenticators, stores, providers and peers promise nothing.            *)
Fairness ==
    /\ WF_vars(Heartbeat /\ UNCHANGED <<chatVars, cast>>)
    /\ \A s \in Sockets : WF_vars(CloseDone(s) /\ UNCHANGED <<chatVars, cast>>)

Spec == Init /\ [][Next]_vars /\ Fairness
=============================================================================
