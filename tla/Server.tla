-------------------------------- MODULE Server --------------------------------
(***************************************************************************)
(* The server's lifecycle (src/transport/createServer.ts): start and stop, *)
(* the listeners they leave on the http server, the WebSocket server, and  *)
(* the heartbeat; with the upgrade (ws/connectionHandler.ts) and what      *)
(* Node's http server and the ws library do for them.                      *)
(*                                                                         *)
(* listen() binds at once and reports by process.nextTick; its callback is *)
(* a `listening` listener of the server's that a refused bind leaves there. *)
(* The host may call start() and stop() several times in one task, before  *)
(* anything is reported.                                                   *)
(***************************************************************************)
EXTENDS Naturals, Sequences, FiniteSets

CONSTANTS
    Starts,    \* calls of start(), numbered as they are made
    Stops,     \* calls of stop(), likewise
    Sockets    \* clients that upgrade

ASSUME CallsAssumption == Starts \subseteq Nat \ {0} /\ Stops \subseteq Nat

VARIABLES
    start,     \* per call: how its promise stands
    stop,      \* per call: how its promise stands
    net,       \* the http server: its handle, its listeners, the events ticked
    beating,   \* the heartbeat's interval runs
    accepting, \* the WebSocketServer is not closed
    socket,    \* per client: where its connection is
    crashed    \* an `error` found no listener, which ends the process: whose it was

serverVars == <<start, stop, net, beating, accepting, socket, crashed>>

NoStart == 0

NoSocket == [at |-> "none", alive |-> FALSE, pinged |-> FALSE, paused |-> FALSE, peer |-> "live"]

(* ws is the library's state of a connection, peer what is behind it.      *)
(* History: pinged, a ping is out that no pong came for; last, the start   *)
(* that came to the bind last; hasty, a start was called before the bind   *)
(* of an earlier one had reported.                                         *)
ServerTypeOK ==
    /\ start \in [Starts -> {"uncalled", "pending", "resolved", "rejected"}]
    /\ stop \in [Stops -> {"uncalled", "pending", "resolved"}]
    /\ net \in [listening : BOOLEAN, onError : SUBSET Starts, onListening : SUBSET Starts,
                late : Nat, ticks : Seq({"listening", "error"}),
                last : Starts \union {NoStart}, hasty : BOOLEAN]
    /\ beating \in BOOLEAN /\ accepting \in BOOLEAN /\ crashed \in {"no", "refused", "late"}
    /\ socket \in [Sockets -> [at : {"none", "authenticating", "open", "closing", "gone"},
                               alive : BOOLEAN, pinged : BOOLEAN, paused : BOOLEAN,
                               peer : {"live", "dead"}]]

ServerInit ==
    /\ start = [i \in Starts |-> "uncalled"]
    /\ stop = [j \in Stops |-> "uncalled"]
    /\ net = [listening |-> FALSE, onError |-> {}, onListening |-> {}, late |-> 0, ticks |-> <<>>,
              last |-> NoStart, hasty |-> FALSE]
    /\ beating = TRUE /\ accepting = TRUE /\ crashed = "no"
    /\ socket = [s \in Sockets |-> NoSocket]

-----------------------------------------------------------------------------
(* The process has not ended.                                              *)
Running == crashed = "no"

(* start(): refused while listening; otherwise its listeners, one late     *)
(* listener off (removeListener takes one at a time), and the bind.        *)
OneLess(n) == IF n = 0 THEN 0 ELSE n - 1

StartRefused(i) ==
    /\ start[i] = "uncalled" /\ net.listening
    /\ start' = [start EXCEPT ![i] = "rejected"]
    /\ UNCHANGED <<stop, net, beating, accepting, socket, crashed>>

Start(i, bound) ==
    /\ start[i] = "uncalled" /\ ~net.listening
    /\ start' = [start EXCEPT ![i] = "pending"]
    /\ net' = [listening |-> bound, onError |-> net.onError \union {i},
               onListening |-> net.onListening \union {i}, late |-> OneLess(net.late),
               ticks |-> Append(net.ticks, IF bound THEN "listening" ELSE "error"),
               last |-> i, hasty |-> net.hasty \/ net.ticks # <<>>]
    /\ UNCHANGED <<stop, beating, accepting, socket, crashed>>

Settle(promises, calls, outcome) ==
    [c \in DOMAIN promises |-> IF c \in calls /\ promises[c] = "pending" THEN outcome ELSE promises[c]]

(* An `error` event: every start's listener, once, rejects its promise; a  *)
(* late one reports; with none there the process ends.                     *)
EmitError(of, ticks) ==
    /\ crashed' = IF net.onError = {} /\ net.late = 0 THEN of ELSE "no"
    /\ start' = Settle(start, net.onError, "rejected")
    /\ net' = [net EXCEPT !.onError = {}, !.ticks = ticks]

(* Slip: the start's own listener goes, and none comes in its place.       *)
ListenCallbackForgetting(server) ==
    [server EXCEPT !.onError = @ \ server.onListening, !.onListening = {}]

(* The listen callbacks still registered, each with its closure: off with  *)
(* the start's own listener, on with a late one.                           *)
ListenCallback(server) ==
    [server EXCEPT !.onError = @ \ server.onListening, !.onListening = {},
                   !.late = @ + Cardinality(server.onListening)]

(* The `listening` event, dropped when the handle is gone by then.         *)
EmitListening(ticks) ==
    IF net.listening
    THEN /\ net' = ListenCallback([net EXCEPT !.ticks = ticks])
         /\ start' = Settle(start, net.onListening, "resolved")
    ELSE /\ net' = [net EXCEPT !.ticks = ticks]
         /\ UNCHANGED start

Tick ==
    /\ net.ticks # <<>>
    /\ \/ Head(net.ticks) = "error" /\ EmitError("refused", Tail(net.ticks))
       \/ Head(net.ticks) = "listening" /\ EmitListening(Tail(net.ticks)) /\ UNCHANGED crashed
    /\ UNCHANGED <<stop, beating, accepting, socket>>

(* An error of the server's in a task of its own, whether it listens, has  *)
(* been stopped, or never ran.                                             *)
LateError ==
    /\ net.ticks = <<>>
    /\ EmitError("late", <<>>)
    /\ UNCHANGED <<stop, beating, accepting, socket>>

-----------------------------------------------------------------------------
(* stop(): the sockets told, the WebSocket server closed for good, the     *)
(* heartbeat off; then the http server, if it listens.                     *)
CloseSocket(s) == IF s.at = "open" THEN [s EXCEPT !.at = "closing"] ELSE s

(* Slip: an upgrade still under way is accepted.                           *)
StillAccepting == UNCHANGED accepting

CloseWss == accepting' = FALSE

Stop(j) ==
    /\ stop[j] = "uncalled"
    /\ socket' = [s \in Sockets |-> CloseSocket(socket[s])]
    /\ CloseWss
    /\ beating' = FALSE
    /\ stop' = [stop EXCEPT ![j] = IF net.listening THEN "pending" ELSE "resolved"]
    /\ net' = [net EXCEPT !.listening = FALSE]
    /\ UNCHANGED <<start, crashed>>

Connected(s) == socket[s].at \notin {"none", "gone"}

(* The server's `close`: no handle, and no connection left of any kind.    *)
Drained(others) ==
    /\ \E j \in Stops : stop[j] = "pending"
    /\ ~net.listening /\ others = {} /\ \A s \in Sockets : ~Connected(s)
    /\ stop' = Settle(stop, Stops, "resolved")
    /\ UNCHANGED <<start, net, beating, accepting, socket, crashed>>

-----------------------------------------------------------------------------
SocketBecomes(s, to) == socket' = [socket EXCEPT ![s] = to]
OnlySockets == Running /\ UNCHANGED <<start, stop, net, beating, accepting, crashed>>

(* The upgrade: refused at once, or until the authenticator has answered.  *)
Upgrade(s) ==
    /\ socket[s].at = "none" /\ net.listening
    /\ \E to \in {"authenticating", "gone"} : SocketBecomes(s, [NoSocket EXCEPT !.at = to])
    /\ OnlySockets

AuthRefused(s) ==
    /\ socket[s].at = "authenticating"
    /\ SocketBecomes(s, [socket[s] EXCEPT !.at = "gone"])
    /\ OnlySockets

(* Slip: isAlive is left to the first pong.                                *)
OpenedUnmarked(s) == [s EXCEPT !.at = "open", !.paused = TRUE]

(* wss.handleUpgrade, and openSession up to its await, the socket paused.  *)
Opened(s) == [s EXCEPT !.at = "open", !.alive = TRUE, !.paused = TRUE]

Authenticated(s) ==
    /\ socket[s].at = "authenticating"
    /\ SocketBecomes(s, IF accepting THEN Opened(socket[s]) ELSE [socket[s] EXCEPT !.at = "gone"])
    /\ OnlySockets

(* openSession is through, or has failed: the socket reads on.             *)
SetUp(s) ==
    /\ socket[s].at \in {"open", "closing"} /\ socket[s].paused
    /\ \E at \in {socket[s].at, "closing"} :
         SocketBecomes(s, [socket[s] EXCEPT !.paused = FALSE, !.at = at])
    /\ OnlySockets

-----------------------------------------------------------------------------
(* Slip: a beat pings whoever is there, and ends nobody.                   *)
BeatOnly(s) == IF s.at = "open" THEN [s EXCEPT !.alive = FALSE, !.pinged = TRUE] ELSE s

Beat(s) ==
    CASE s.at \in {"open", "closing"} /\ ~s.alive -> [s EXCEPT !.at = "gone"]
      [] s.at \in {"open", "closing"} /\ s.alive -> [s EXCEPT !.alive = FALSE, !.pinged = s.at = "open"]
      [] s.at \in {"none", "authenticating", "gone"} -> s

Heartbeat ==
    /\ beating /\ \E s \in Sockets : socket[s].at \in {"open", "closing"}
    /\ socket' = [s \in Sockets |-> Beat(socket[s])]
    /\ OnlySockets

(* A pong that the socket reads.                                           *)
Pong(s) ==
    /\ socket[s].at \in {"open", "closing"} /\ socket[s].pinged
    /\ ~socket[s].paused /\ socket[s].peer = "live"
    /\ SocketBecomes(s, [socket[s] EXCEPT !.alive = TRUE, !.pinged = FALSE])
    /\ OnlySockets

(* The peer is cut off, without a word.                                    *)
PeerDies(s) ==
    /\ Connected(s) /\ socket[s].peer = "live"
    /\ SocketBecomes(s, [socket[s] EXCEPT !.peer = "dead"])
    /\ OnlySockets

PeerLeaves(s) ==
    /\ socket[s].at \in {"authenticating", "open"} /\ ~socket[s].paused /\ socket[s].peer = "live"
    /\ SocketBecomes(s, [socket[s] EXCEPT !.at = "gone"])
    /\ OnlySockets

(* The peer answers the close, or ws gives up waiting.                     *)
CloseDone(s) ==
    /\ socket[s].at = "closing"
    /\ SocketBecomes(s, [socket[s] EXCEPT !.at = "gone"])
    /\ OnlySockets

-----------------------------------------------------------------------------
SocketStep(s) ==
    \/ Upgrade(s) \/ AuthRefused(s) \/ Authenticated(s) \/ SetUp(s)
    \/ Pong(s) \/ PeerDies(s) \/ PeerLeaves(s) \/ CloseDone(s)

NextOf(calls, promises) == {c \in calls : \A d \in calls : d < c => promises[d] # "uncalled"}

ServerStep ==
    \/ \E i \in NextOf(Starts, start) : StartRefused(i) \/ \E bound \in BOOLEAN : Start(i, bound)
    \/ Tick \/ LateError \/ Heartbeat
    \/ \E j \in NextOf(Stops, stop) : Stop(j)
    \/ \E s \in Sockets : SocketStep(s)

-----------------------------------------------------------------------------
(* Which errors the listeners of createServer.ts:132-143 cover, whatever   *)
(* starts were refused, stopped, repeated or called at once.  The error of *)
(* a refused bind ends the process only where start() was called again     *)
(* before an earlier bind had reported.  Any other ends it only while the  *)
(* server does not listen, and only where the last start that came to the  *)
(* bind did not resolve, or there was none; so never of a server that runs, *)
(* nor of one that ran and was stopped.                                    *)
ErrorsAreHeard ==
    /\ crashed = "refused" => net.hasty
    /\ crashed = "late" => /\ ~net.listening
                           /\ net.last # NoStart => start[net.last] # "resolved"

(* What that leaves uncovered, as the documents claim it: once the server  *)
(* has run, an error is reported whether or not it runs                    *)
(* (specs/hal-engine-npm-release/spec.md:389).                             *)
HeardOnceStarted == crashed = "late" => \A i \in Starts : start[i] # "resolved"

(* No socket is open that no heartbeat watches: behind a stop, which ends  *)
(* the heartbeat for good, an upgrade whose authenticator answers late is  *)
(* not accepted any more (createServer.ts:99-116, 150-154).                *)
OpenIsWatched == \A s \in Sockets : socket[s].at = "open" => beating

(* The heartbeat cuts only a connection it has pinged at an earlier beat   *)
(* and had no pong of, so never one that came between two beats            *)
(* (createServer.ts:101-111, connectionHandler.ts:104).                    *)
NeverCutUnasked ==
    [][\A s \in Sockets :
          Heartbeat /\ socket[s].at = "open" /\ socket'[s].at = "gone" => socket[s].pinged]_serverVars

(* A connection whose peer is gone without a word ends, unless the process *)
(* itself does.                                                            *)
DeadIsGone ==
    \A s \in Sockets :
        socket[s].at \in {"open", "closing"} /\ socket[s].peer = "dead"
            ~> socket[s].at = "gone" \/ ~Running

=============================================================================
