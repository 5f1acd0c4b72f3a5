--------------------------- MODULE MessageHandler ---------------------------
(***************************************************************************)
(* createMessageHandler (src/transport/ws/messageHandler.ts): what happens *)
(* to the frames of the sockets open on a session, from their arrival to   *)
(* the last frame of their answer.  A user_message is a turn and waits for *)
(* its session's lock, here the serial queue PerSessionLock implements;    *)
(* every other frame is answered off the lock, a list when its read ends.  *)
(*                                                                         *)
(* What one turn writes and sends chunk by chunk is EntryStream's subject; *)
(* here a chunk is one entry and one frame, tagged with its message.       *)
(* A frame sent on a socket that is not open goes nowhere, as ws.send does.*)
(***************************************************************************)
EXTENDS Naturals, Sequences, FiniteSets, ClientFrames

CONSTANTS
    Sessions,    \* session ids
    Sockets,     \* the sockets that are open at first
    Messages,    \* the user_messages that may arrive, by their identity
    Payloads,    \* what a frame may hold (ClientFrames)
    MaxChunks,   \* bound: chunks of one turn
    MaxOffLock,  \* bound: frames answered off the lock
    None

VARIABLES
    stage, keyOf, ticket, issued,   \* the queue the per-session lock implements
    sessionOf,   \* per socket, the session its frames are for
    sock,        \* per socket: "open", "closing" or "closed"
    asked,       \* per socket, its user_messages in arrival order
    from,        \* per message, the socket it arrived on
    verdict,     \* per message: "valid" or "refused"
    turn,        \* per message, how far its turn is
    chunks,      \* per message, the chunks its turn has forwarded
    entries,     \* per session, the messages whose turns wrote its entries
    wire,        \* per socket, the frames its client received
    offLock,     \* how many frames were answered off the lock
    listing      \* per socket, the conversation lists still being read

queueVars == <<stage, keyOf, ticket, issued>>
vars == <<queueVars, sessionOf, sock, asked, from, verdict, turn, chunks,
          entries, wire, offLock, listing>>

ASSUME PayloadsAssumption == \A payload \in Payloads : payload.type \in Types
ASSUME BoundsAssumption == {MaxChunks, MaxOffLock} \subseteq Nat
ASSUME NoneAssumption == None \notin Sockets

Queue == INSTANCE SerialQueue WITH Keys <- Sessions, Calls <- Messages

(* Refused: over its user's budget, or no message at all.  Either is told  *)
(* so by an error when its turn comes.                                     *)
Verdicts == {"valid", "refused"}
Turns == {"waiting", "streaming", "ending", "ended", "dropped"}
FrameKinds == {"upsert", "chunk", "error", "stream_end", "answer"}
Frames == [of : Messages \union {None}, kind : FrameKinds]

TypeOK ==
    /\ Queue!TypeOK
    /\ sessionOf \in [Sockets -> Sessions]
    /\ sock \in [Sockets -> {"open", "closing", "closed"}]
    /\ asked \in [Sockets -> Seq(Messages)]
    /\ from \in [Messages -> Sockets \union {None}]
    /\ verdict \in [Messages -> Verdicts]
    /\ turn \in [Messages -> Turns]
    /\ chunks \in [Messages -> 0..MaxChunks]
    /\ entries \in [Sessions -> Seq(Messages)]
    /\ wire \in [Sockets -> Seq(Frames)]
    /\ offLock \in 0..MaxOffLock
    /\ listing \in [Sockets -> 0..MaxOffLock]
    /\ \A m \in Messages : /\ stage[m] = "new" <=> from[m] = None
                           /\ stage[m] \in {"new", "waiting"} <=> turn[m] = "waiting"

Init ==
    /\ Queue!Init
    /\ sessionOf \in [Sockets -> Sessions]
    /\ sock = [s \in Sockets |-> "open"]
    /\ asked = [s \in Sockets |-> <<>>]
    /\ from = [m \in Messages |-> None]
    /\ verdict = [m \in Messages |-> "valid"]
    /\ turn = [m \in Messages |-> "waiting"]
    /\ chunks = [m \in Messages |-> 0]
    /\ entries = [t \in Sessions |-> <<>>]
    /\ wire = [s \in Sockets |-> <<>>]
    /\ offLock = 0
    /\ listing = [s \in Sockets |-> 0]

-----------------------------------------------------------------------------
Frame(m, kind) == [of |-> m, kind |-> kind]

(* ws.send: what the client gets of it.                                    *)
Sent(s, frames) == IF sock[s] = "open" THEN [wire EXCEPT ![s] = @ \o frames] ELSE wire

(* The connection's signal is aborted by its socket's close event.         *)
Aborted(m) == sock[from[m]] = "closed"

(* Slip: a turn is dropped once any socket of its session closed.          *)
DroppedWithSession(m) == \E s \in Sockets : /\ sock[s] # "open"
                                            /\ sessionOf[s] = sessionOf[from[m]]

DroppedForClosedSocket(m) == sock[from[m]] # "open"

SessionFor(m) == sessionOf[from[m]]

(* Slip: the lock is keyed by the socket, so its turns wait for each other *)
(* and for nobody else's.                                                  *)
AdmittedPerSocket(m) ==
    /\ stage[m] = "waiting"
    /\ \A d \in Queue!AheadOf(m) : from[d] = from[m] => stage[d] = "done"
    /\ stage' = [stage EXCEPT ![m] = "running"]
    /\ UNCHANGED <<keyOf, ticket, issued>>

Admitted(m) == Queue!Begin(m)

(* handleMessage on a user_message: its budget is consumed and its place   *)
(* in the session's queue taken at once, whatever the frame is worth.      *)
Arrive(s, m, payload, withinBudget) ==
    /\ sock[s] # "closed"
    /\ IsUserMessageFrame(payload)
    /\ Queue!Enter(m, sessionOf[s])
    /\ from' = [from EXCEPT ![m] = s]
    /\ verdict' = [verdict EXCEPT ![m] = IF withinBudget /\ Valid(payload) THEN "valid" ELSE "refused"]
    /\ asked' = [asked EXCEPT ![s] = Append(@, m)]
    /\ UNCHANGED <<sessionOf, sock, turn, chunks, entries, wire, offLock, listing>>

(* handleMessage on any other frame, which waits for no turn: the read of  *)
(* a list, or its answer at once, a pong or, to one not valid, an error.   *)
AnswerFrame(s, payload) ==
    /\ sock[s] # "closed"
    /\ ~IsUserMessageFrame(payload)
    /\ offLock < MaxOffLock
    /\ offLock' = offLock + 1
    /\ \/ /\ Valid(payload) => payload.type = "ping"
          /\ wire' = Sent(s, <<Frame(None, "answer")>>)
          /\ UNCHANGED listing
       \/ /\ Valid(payload) /\ payload.type = "list_conversations"
          /\ listing' = [listing EXCEPT ![s] = @ + 1]
          /\ UNCHANGED wire
    /\ UNCHANGED <<queueVars, sessionOf, sock, asked, from, verdict, turn, chunks, entries>>

(* A read ends, with the list or with an error for one the store could not *)
(* give: no read waits for another, or for a turn.                         *)
AnswerList(s) ==
    /\ listing[s] > 0
    /\ listing' = [listing EXCEPT ![s] = @ - 1]
    /\ wire' = Sent(s, <<Frame(None, "answer")>>)
    /\ UNCHANGED <<queueVars, sessionOf, sock, asked, from, verdict, turn, chunks, entries, offLock>>

(* The lock hands the session to the message.  Dropped without a trace     *)
(* when its socket is not open any more; otherwise the first thing its     *)
(* turn does is an error for a refused frame, or the user entry.           *)
BeginTurn(m) ==
    /\ Admitted(m)
    /\ \/ /\ DroppedForClosedSocket(m)
          /\ turn' = [turn EXCEPT ![m] = "dropped"]
          /\ UNCHANGED <<entries, wire>>
       \/ /\ ~DroppedForClosedSocket(m)
          /\ verdict[m] # "valid"
          /\ turn' = [turn EXCEPT ![m] = "ending"]
          /\ wire' = Sent(from[m], <<Frame(m, "error")>>)
          /\ UNCHANGED entries
       \/ /\ ~DroppedForClosedSocket(m)
          /\ verdict[m] = "valid"
          /\ turn' = [turn EXCEPT ![m] = "streaming"]
          /\ entries' = [entries EXCEPT ![SessionFor(m)] = Append(@, m)]
          /\ wire' = Sent(from[m], <<Frame(m, "upsert")>>)
    /\ UNCHANGED <<sessionOf, sock, asked, from, verdict, chunks, offLock, listing>>

(* A chunk of the run: forwarded, unless the socket has closed.            *)
Chunk(m) ==
    /\ turn[m] = "streaming"
    /\ ~Aborted(m)
    /\ chunks[m] < MaxChunks
    /\ chunks' = [chunks EXCEPT ![m] = @ + 1]
    /\ entries' = [entries EXCEPT ![SessionFor(m)] = Append(@, m)]
    /\ wire' = Sent(from[m], <<Frame(m, "chunk")>>)
    /\ UNCHANGED <<queueVars, sessionOf, sock, asked, from, verdict, turn, offLock, listing>>

(* The run is over: it ended, it threw, or the loop broke on the signal.   *)
(* The finally block records and sends what was held back, a throw is then *)
(* reported.                                                               *)
FinishRun(m, thrown, heldBack) ==
    /\ turn[m] = "streaming"
    /\ turn' = [turn EXCEPT ![m] = "ending"]
    /\ entries' = IF heldBack THEN [entries EXCEPT ![SessionFor(m)] = Append(@, m)] ELSE entries
    /\ wire' = Sent(from[m], (IF heldBack THEN <<Frame(m, "chunk")>> ELSE <<>>)
                             \o (IF thrown THEN <<Frame(m, "error")>> ELSE <<>>))
    /\ UNCHANGED <<queueVars, sessionOf, sock, asked, from, verdict, chunks, offLock, listing>>

(* Slip: stream_end is sent after a run only, not after every answer.      *)
EndTurnOfRunsOnly(m) ==
    /\ turn[m] = "ending"
    /\ turn' = [turn EXCEPT ![m] = "ended"]
    /\ wire' = IF Aborted(m) \/ verdict[m] # "valid" THEN wire
               ELSE Sent(from[m], <<Frame(m, "stream_end")>>)
    /\ Queue!Finish(m)
    /\ UNCHANGED <<sessionOf, sock, asked, from, verdict, chunks, entries, offLock, listing>>

(* endTurn, and the answer's promise settles: wsErrorHandler leaves it     *)
(* nothing to reject with.                                                 *)
EndTurn(m) ==
    /\ turn[m] = "ending"
    /\ turn' = [turn EXCEPT ![m] = "ended"]
    /\ wire' = IF Aborted(m) THEN wire ELSE Sent(from[m], <<Frame(m, "stream_end")>>)
    /\ Queue!Finish(m)
    /\ UNCHANGED <<sessionOf, sock, asked, from, verdict, chunks, entries, offLock, listing>>

EndDropped(m) ==
    /\ turn[m] = "dropped"
    /\ Queue!Finish(m)
    /\ UNCHANGED <<sessionOf, sock, asked, from, verdict, turn, chunks, entries, wire, offLock, listing>>

(* The socket: a close handshake begins, and its close event fires.        *)
StartClosing(s) ==
    /\ sock[s] = "open"
    /\ sock' = [sock EXCEPT ![s] = "closing"]
    /\ UNCHANGED <<queueVars, sessionOf, asked, from, verdict, turn, chunks, entries, wire, offLock, listing>>

Close(s) ==
    /\ sock[s] # "closed"
    /\ sock' = [sock EXCEPT ![s] = "closed"]
    /\ UNCHANGED <<queueVars, sessionOf, asked, from, verdict, turn, chunks, entries, wire, offLock, listing>>

(* The turn's own progress, which no client controls.                      *)
Progress(m) == BeginTurn(m) \/ EndTurn(m) \/ EndDropped(m)

RunOver(m) == \E thrown, heldBack \in BOOLEAN : FinishRun(m, thrown, heldBack)

Next ==
    \/ \E s \in Sockets :
          \/ \E m \in Messages, payload \in Payloads, withinBudget \in BOOLEAN :
                Arrive(s, m, payload, withinBudget)
          \/ \E payload \in Payloads : AnswerFrame(s, payload)
          \/ AnswerList(s) \/ StartClosing(s) \/ Close(s)
    \/ \E m \in Messages : Progress(m) \/ Chunk(m) \/ RunOver(m)

SafeSpec == Init /\ [][Next]_vars

(* The event loop runs what is due, and a run ends by itself: its provider *)
(* call by its deadline, its tool calls by theirs (ToolRounds).  No socket *)
(* is assumed to stay open, to close, or to send anything.                 *)
Spec == SafeSpec /\ \A m \in Messages : WF_vars(Progress(m)) /\ WF_vars(RunOver(m))

-----------------------------------------------------------------------------
(* How many answers the client of s had seen the end of, before frame i.   *)
EndsBefore(s, i) ==
    Cardinality({j \in 1..(i - 1) : wire[s][j].kind = "stream_end"})

(* No frame names the message it answers: a client can only count the      *)
(* stream_ends.  Whatever waits, is refused, is malformed, fails or is     *)
(* dropped, every frame of a turn belongs to the first message the socket  *)
(* sent that has no stream_end yet (messageHandler.ts:64,79).              *)
AnswersAttributable ==
    \A s \in Sockets : \A i \in DOMAIN wire[s] :
        LET n == 1 + EndsBefore(s, i) IN
        wire[s][i].of # None => n \in DOMAIN asked[s] /\ wire[s][i].of = asked[s][n]

(* The turns of a session write its conversation one after the other, in   *)
(* the order their messages arrived, on whichever of its sockets           *)
(* (messageHandler.ts:52; specs/hal-engine-websocket-protocol/spec.md:157).*)
ConversationInArrivalOrder ==
    \A t \in Sessions : \A i, j \in DOMAIN entries[t] :
        i < j => ticket[entries[t][i]] <= ticket[entries[t][j]]

(* A message is answered to its end unless its socket stops being open,    *)
(* also when a turn before it was abandoned, dropped or threw.             *)
EveryMessageAnswered ==
    \A m \in Messages :
        stage[m] = "waiting" ~>
            \/ \E s \in Sockets : \E i \in DOMAIN wire[s] :
                   wire[s][i] = Frame(m, "stream_end")
            \/ \E s \in Sockets : s = from[m] /\ sock[s] # "open"
=============================================================================
