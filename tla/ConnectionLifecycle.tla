------------------------- MODULE ConnectionLifecycle -------------------------
(***************************************************************************)
(* What createConnectionHandler does with the sockets that open and close  *)
(* on a user's sessions (src/transport/ws/connectionHandler.ts), resuming  *)
(* included (sessionResume.ts).  openSession awaits the store twice at     *)
(* most, to look a session up and to create one, and its socket may close  *)
(* at any await; a new session nobody received is evicted again.           *)
(*                                                                         *)
(* A session id is minted per upgrade, so the session a socket may come to *)
(* create is named after the socket.  The store is any implementation of   *)
(* SessionStore that keeps one object per session: what it is asked takes  *)
(* effect some time before its answer is read.  What it forgets by itself, *)
(* or a consumer deletes, is not modelled.                                 *)
(***************************************************************************)
EXTENDS Naturals, Sequences, FiniteSets, SequencesExt

CONSTANTS
    MaxUpgrades,      \* bound
    Users,
    Owners,           \* the users the upgrades may be authenticated as, in order
    None

(* The upgrades, numbered as they come, and the sessions minted for them.  *)
Sockets == 1..MaxUpgrades

(* resume.latest: a connect that names no id rejoins one; the store        *)
(* implements the optional evict; getExamplePrompts() may throw, as a      *)
(* dynamic tool definition may.                                            *)
Options == [latest : BOOLEAN, hasEvict : BOOLEAN, promptsMayThrow : BOOLEAN]

ASSUME UpgradesAssumption == MaxUpgrades \in Nat
ASSUME NoneAssumption == None \notin Sockets
ASSUME OwnersAssumption == Owners \subseteq [Sockets -> Users]

VARIABLES
    options,      \* set once, as the server is set up
    userOf,       \* per socket, the user its upgrade was authenticated as
    conn,         \* per socket, openSession's locals and how far it is
    stored,       \* the sessions the store holds
    openSockets,  \* per session, the sockets that joined it, oldest first
    lentBy,       \* per session, the socket whose credentials it carries
    received,     \* per session, the sockets whose client got it (history)
    hooks         \* per socket, the consumer hooks it ran (history)

vars == <<options, userOf, conn, stored, openSockets, lentBy, received, hooks>>

Places == {"off", "lookup", "found", "create", "created", "evicting", "failed", "live", "gone"}

TypeOK ==
    /\ options \in Options
    /\ userOf \in Owners
    /\ conn \in [Sockets -> [at : Places, named : Sockets \union {None},
                             session : Sockets \union {None}, joined : BOOLEAN,
                             closed : BOOLEAN, settled : BOOLEAN, notified : BOOLEAN,
                             delivered : BOOLEAN, kept : BOOLEAN]]
    /\ stored \subseteq Sockets
    /\ openSockets \in [Sockets -> Seq(Sockets)]
    /\ lentBy \in [Sockets -> Sockets \union {None}]
    /\ received \in [Sockets -> SUBSET Sockets]
    /\ hooks \in [Sockets -> Seq({"onConnect", "onDisconnect"})]
    /\ \A s \in Sockets : /\ conn[s].notified => conn[s].settled
                          /\ conn[s].delivered => conn[s].joined

Init ==
    /\ options \in Options
    /\ userOf \in Owners
    /\ conn = [s \in Sockets |->
                 [at |-> "off", named |-> None, session |-> None, joined |-> FALSE, closed |-> FALSE,
                  settled |-> FALSE, notified |-> FALSE, delivered |-> FALSE, kept |-> FALSE]]
    /\ stored = {}
    /\ openSockets = [t \in Sockets |-> <<>>]
    /\ lentBy = [t \in Sockets |-> None]
    /\ received = [t \in Sockets |-> {}]
    /\ hooks = [s \in Sockets |-> <<>>]

-----------------------------------------------------------------------------
Resumed(s) == conn[s].session \notin {s, None}

Become(s, c) == conn' = [conn EXCEPT ![s] = c]

(* join: the newest socket of the session lends it its credentials.  The   *)
(* object that create answers is built with the credentials join lends it  *)
(* in the same step.                                                       *)
Join(s, t) ==
    /\ openSockets' = [openSockets EXCEPT ![t] = Append(@, s)]
    /\ lentBy' = [lentBy EXCEPT ![t] = s]

Lend(remaining) == IF remaining = <<>> THEN None ELSE Last(remaining)

(* Slip: the socket that joined first is the one taken out.                *)
LeaveOldest(s, t) ==
    LET remaining == Tail(openSockets[t]) IN
    IF Contains(openSockets[t], s)
    THEN /\ openSockets' = [openSockets EXCEPT ![t] = remaining]
         /\ lentBy' = [lentBy EXCEPT ![t] = Lend(remaining)]
    ELSE UNCHANGED <<openSockets, lentBy>>

(* What the filter leaves of a list a socket is on, once as it joins once. *)
Without(list, s) == RemoveAt(list, CHOOSE i \in DOMAIN list : list[i] = s)

(* leave, by a socket that may not have joined.                            *)
Leave(s, t) ==
    LET remaining == Without(openSockets[t], s) IN
    IF Contains(openSockets[t], s)
    THEN /\ openSockets' = [openSockets EXCEPT ![t] = remaining]
         /\ lentBy' = [lentBy EXCEPT ![t] = Lend(remaining)]
    ELSE UNCHANGED <<openSockets, lentBy>>

(* Slip: onDisconnect runs for every connection that ends.                 *)
DisconnectAlways(s) == [hooks EXCEPT ![s] = Append(@, "onDisconnect")]

DisconnectHook(s) == IF conn[s].delivered THEN [hooks EXCEPT ![s] = Append(@, "onDisconnect")] ELSE hooks

(* endSession: once per connection, c being the connection's new record.   *)
EndSession(s, c) ==
    IF c.notified THEN Become(s, c) /\ UNCHANGED <<openSockets, lentBy, hooks>>
    ELSE /\ Become(s, [c EXCEPT !.notified = TRUE])
         /\ hooks' = DisconnectHook(s)
         /\ IF c.joined THEN Leave(s, c.session) ELSE UNCHANGED <<openSockets, lentBy>>

-----------------------------------------------------------------------------
(* The upgrade: a client may name a session that any client has received,  *)
(* its own or not, or ask for a new one.  Without either, latest decides.  *)
Connect(s, named, startNew) ==
    /\ conn[s].at = "off" /\ \A earlier \in 1..(s - 1) : conn[earlier].at # "off"
    /\ named # None => received[named] # {}
    /\ Become(s, [conn[s] EXCEPT !.at = IF named # None \/ (options.latest /\ ~startNew) THEN "lookup" ELSE "create",
                                 !.named = named])
    /\ UNCHANGED <<options, userOf, stored, openSockets, lentBy, received, hooks>>

OwnedBy(s) == {t \in stored : userOf[t] = userOf[s]}

(* What the store answers: the named session, or one of the user's.  A     *)
(* session that is not stored or not the requester's, and a lookup that    *)
(* throws, read as no resume.                                              *)
LookUp(s) ==
    LET may == IF conn[s].named = None THEN OwnedBy(s) ELSE OwnedBy(s) \intersect {conn[s].named}
    IN  /\ conn[s].at = "lookup"
        /\ \/ Become(s, [conn[s] EXCEPT !.at = "create"])
           \/ \E t \in may : Become(s, [conn[s] EXCEPT !.at = "found", !.session = t])
    /\ UNCHANGED <<options, userOf, stored, openSockets, lentBy, received, hooks>>

(* create takes effect in the store.                                       *)
Insert(s) ==
    /\ conn[s].at = "create"
    /\ stored' = stored \union {s}
    /\ Become(s, [conn[s] EXCEPT !.at = "created", !.session = s])
    /\ UNCHANGED <<options, userOf, openSockets, lentBy, received, hooks>>

(* create rejects, before or after it took effect: no session is held, and *)
(* the socket is closed.                                                   *)
CreateRejects(s) ==
    /\ conn[s].at \in {"create", "created"}
    /\ Become(s, [conn[s] EXCEPT !.at = IF conn[s].closed THEN "gone" ELSE "failed",
                                 !.session = None, !.settled = TRUE])
    /\ UNCHANGED <<options, userOf, stored, openSockets, lentBy, received, hooks>>

Answered(s) == conn[s].at \in {"found", "created"}

(* Slip: a session whose socket is found closed is not evicted.            *)
EvictsUnsentOnly(s) == ~Resumed(s) /\ options.hasEvict /\ ~conn[s].closed

Evicts(s) == ~Resumed(s) /\ options.hasEvict

(* openSession goes on with a session, and finds its socket closed.  A new *)
(* session was joined before, so that its credentials are cleared again.   *)
FoundClosed(s) ==
    /\ Answered(s) /\ conn[s].closed
    /\ IF Evicts(s)
       THEN /\ Become(s, [conn[s] EXCEPT !.settled = TRUE, !.joined = TRUE, !.at = "evicting"])
            /\ Join(s, conn[s].session)
            /\ UNCHANGED hooks
       ELSE /\ Become(s, [conn[s] EXCEPT !.settled = TRUE, !.notified = TRUE, !.at = "gone"])
            /\ UNCHANGED <<openSockets, lentBy, hooks>>   \* joined and left, or never joined
    /\ UNCHANGED <<options, userOf, stored, received>>

(* The connected frame and the replay are sent, and onConnect queued.      *)
Deliver(s) ==
    /\ Answered(s) /\ ~conn[s].closed
    /\ Become(s, [conn[s] EXCEPT !.settled = TRUE, !.joined = TRUE, !.delivered = TRUE, !.at = "live"])
    /\ Join(s, conn[s].session)
    /\ received' = [received EXCEPT ![conn[s].session] = @ \union {s}]
    /\ hooks' = [hooks EXCEPT ![s] = Append(@, "onConnect")]
    /\ UNCHANGED <<options, userOf, stored>>

(* Sending throws: a new session is evicted, a resumed one is left, and    *)
(* the socket is closed.                                                   *)
SendThrows(s) ==
    /\ Answered(s) /\ ~conn[s].closed
    /\ IF Evicts(s)
       THEN /\ Become(s, [conn[s] EXCEPT !.settled = TRUE, !.joined = TRUE, !.at = "evicting"])
            /\ Join(s, conn[s].session)
       ELSE /\ Become(s, [conn[s] EXCEPT !.settled = TRUE, !.notified = TRUE, !.at = "failed"])
            /\ UNCHANGED <<openSockets, lentBy>>   \* joined and left
    /\ UNCHANGED <<options, userOf, stored, received, hooks>>

(* Building the frame throws, which nothing in openSession catches: its    *)
(* caller closes the socket.                                               *)
PromptsThrow(s) ==
    /\ options.promptsMayThrow
    /\ Answered(s) /\ ~conn[s].closed
    /\ Become(s, [conn[s] EXCEPT !.settled = TRUE, !.joined = TRUE, !.at = "failed"])
    /\ Join(s, conn[s].session)
    /\ UNCHANGED <<options, userOf, stored, received, hooks>>

(* The store evicts the session, or rejects and keeps it; openSession ends *)
(* the session either way.                                                 *)
Evicted(s, kept) ==
    /\ conn[s].at = "evicting"
    /\ stored' = IF kept THEN stored ELSE stored \ {conn[s].session}
    /\ EndSession(s, [conn[s] EXCEPT !.at = IF conn[s].closed THEN "gone" ELSE "failed",
                                     !.kept = kept])
    /\ UNCHANGED <<options, userOf, received>>

(* The socket's close event, whoever closed it.                            *)
Close(s) ==
    LET c == [conn[s] EXCEPT !.closed = TRUE, !.at = IF @ \in {"live", "failed"} THEN "gone" ELSE @]
    IN  /\ conn[s].at # "off" /\ ~conn[s].closed
        /\ IF c.settled THEN EndSession(s, c)
           ELSE Become(s, c) /\ UNCHANGED <<openSockets, lentBy, hooks>>
        /\ UNCHANGED <<options, userOf, stored, received>>

(* What happens by itself once the store answers.                          *)
Proceed(s) ==
    \/ LookUp(s) \/ Insert(s) \/ CreateRejects(s)
    \/ FoundClosed(s) \/ Deliver(s) \/ SendThrows(s) \/ PromptsThrow(s)
    \/ \E kept \in BOOLEAN : Evicted(s, kept)

Next == \E s \in Sockets :
    \/ \E named \in Sockets \union {None}, startNew \in BOOLEAN : Connect(s, named, startNew)
    \/ Proceed(s) \/ Close(s)

Spec == Init /\ [][Next]_vars

-----------------------------------------------------------------------------
(* The sockets that joined a session and were not ended yet.               *)
OpenOn(t) == {s \in Sockets : conn[s].session = t /\ conn[s].joined /\ ~conn[s].notified}

(* A session carries the credentials of a socket that is open on it or is  *)
(* just being ended, its own user's, and of nobody once the last one left: *)
(* no token outlives its connection, however that ended                    *)
(* (connectionHandler.ts:307; specs/hal-engine-session-lifetime/spec.md:19).*)
CredentialsEndWithSocket ==
    \A t \in Sockets :
        IF OpenOn(t) = {} THEN lentBy[t] = None
        ELSE lentBy[t] \in OpenOn(t)

(* ... the newest of the sockets open on it, so a tab left open keeps      *)
(* working (specs/hal-engine-session-resume/spec.md:25).  Where only a     *)
(* named session is resumed: a latest lookup can find a session whose      *)
(* creator is gone and not ended yet.                                      *)
TabLeftOpenKeepsWorking ==
    \A s \in Sockets : conn[s].at = "live" /\ ~options.latest =>
        /\ lentBy[conn[s].session] # None
        /\ ~conn[lentBy[conn[s].session]].closed

(* No socket is ever on a session of another user, named or latest.        *)
OwnSessionsOnly ==
    \A s, t \in Sockets : s \in received[t] => userOf[s] = userOf[t]

(* What a client has received is not evicted under it, where only a named  *)
(* session is resumed (specs/hal-engine-session-resume/spec.md:45).        *)
ReceivedIsKept == \A t \in Sockets : received[t] # {} /\ ~options.latest => t \in stored

(* A session and its credentials are its user's own, and its open sockets':*)
(* the four above, whichever way sockets join, leave and fail.             *)
SessionIsItsSockets ==
    TypeOK /\ CredentialsEndWithSocket /\ TabLeftOpenKeepsWorking /\ OwnSessionsOnly /\ ReceivedIsKept

(* onDisconnect is the other half of onConnect: run once for a connection  *)
(* that was delivered and is closed, never for one that was not, in        *)
(* whichever state its setup was when the socket closed.                   *)
HooksPaired ==
    \A s \in Sockets :
        hooks[s] = IF ~conn[s].delivered THEN <<>>
                   ELSE IF ~conn[s].closed THEN <<"onConnect">>
                   ELSE <<"onConnect", "onDisconnect">>

EvictsReceived == \E t \in Sockets : t \in stored /\ t \notin stored' /\ received[t] # {}

(* "eviction erases, and it is reserved for a new session no client ever   *)
(* received" (specs/hal-engine-session-resume/spec.md:45), with latest too.*)
ReceivedIsNeverEvicted == [][~EvictsReceived]_vars

LeftBehind == \E s \in stored :
    conn[s].at = "gone" /\ conn[s].session = s /\ received[s] = {} /\ ~conn[s].kept

(* A session that was created and could not be handed over is not left in  *)
(* the store, unless the store cannot evict or failed to, or the example   *)
(* prompts may throw (specs/hal-engine-session-lifetime/spec.md:18,21).    *)
NothingLeftBehind == options.hasEvict /\ ~options.promptsMayThrow => ~LeftBehind

=============================================================================
