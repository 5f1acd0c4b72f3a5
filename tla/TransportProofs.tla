---------------------------- MODULE TransportProofs ----------------------------
(***************************************************************************)
(* Proofs about the server's lifecycle and the chat routes, for any number *)
(* of calls, clients, requests, chats and users, side by side; and, from   *)
(* CachedObjects on, about the Mongo store behind the sessions, for any    *)
(* number of calls and sessions.                                           *)
(*                                                                         *)
(* Which errors are heard is not inductive: Listened and Waited say which  *)
(* listener is there in which state of the http server.  That a connection was pinged  *)
(* before it is cut rests on Marked.  What is stored is one run's session  *)
(* because each run is asked on a conversation its chat had (Asked), which *)
(* only grows (Longer).  An erased chat stays erased because  *)
(* the request that creates it is alone with it until it is listed (Alone),*)
(* and a chat nobody opened is nowhere (Nowhere).                          *)
(*                                                                         *)
(* In the store, what was erased stays away because an erasure knows every *)
(* create that may outlive it, and withdraws the reads that found the      *)
(* session (Erasures).  The cached object is the only one and holds what   *)
(* the document holds because of a session that was never read twice at    *)
(* once nobody reads what is cached (Overlaps), and because a save that    *)
(* was carried out but has not answered withdraws every other object as it *)
(* answers (Fresh).                                                        *)
(***************************************************************************)
EXTENDS Transport, MongoSessionStore, FiniteSetTheorems, SequenceTheorems, TLAPS

SocketRecords == [at : {"none", "authenticating", "open", "closing", "gone"},
                  alive : BOOLEAN, pinged : BOOLEAN, paused : BOOLEAN, peer : {"live", "dead"}]

NetRecords == [listening : BOOLEAN, onError : SUBSET Starts, onListening : SUBSET Starts,
               late : Nat, ticks : Seq({"listening", "error"}),
               last : Starts \union {NoStart}, hasty : BOOLEAN]

(* A server that listens has a listener for late errors, or is still to    *)
(* say that it listens; one whose last start resolved has had one since.   *)
Listened ==
    /\ IsFiniteSet(net.onListening)
    /\ net.listening => \/ net.late > 0
                        \/ net.onListening # {} /\ \E i \in 1..Len(net.ticks) : net.ticks[i] = "listening"
    /\ net.last # NoStart => (start[net.last] = "resolved" => net.late > 0)

(* Of starts that each waited for the one before, one at most is to be     *)
(* reported, and it is there to hear an error.                             *)
Waited == ~net.hasty /\ net.ticks # <<>> => Len(net.ticks) = 1 /\ net.onError # {}

Heard == Listened /\ Waited /\ ErrorsAreHeard

Watched == (accepting => beating) /\ OpenIsWatched

Marked == \A s \in Sockets : socket[s].at = "open" /\ ~socket[s].alive => socket[s].pinged

ServerInv == ServerTypeOK /\ Heard /\ Watched /\ Marked

PostRecords == [at : {"none", "creating", "created", "running", "saved", "threw", "answered"},
                user : Users \union {NoOne}, chat : Chats \union {NoOne}, entries : Seq(Message)]
ChatRecords == [listed : BOOLEAN, owner : Users \union {NoOne}, messages : Seq(Message)]
StoreRecords == [present : BOOLEAN, entries : Seq(Message)]

Opening(p) == post[p].at \in {"creating", "created"}

(* A request under way is for a chat, a message's for one that is listed;  *)
(* no other holds anything.                                                *)
Placed ==
    \A p \in Posts :
        /\ post[p].at \in {"none", "answered"} => post[p].entries = <<>>
        /\ post[p].at \notin {"none", "answered"} => post[p].chat \in Chats
        /\ post[p].at \in {"running", "saved", "threw"} => chat[post[p].chat].listed

(* The request that opens a chat is the only one that knows it.            *)
Alone ==
    \A p \in Posts : Opening(p) =>
        /\ post[p].entries = <<>>
        /\ ~chat[post[p].chat].listed
        /\ \A q \in Posts \ {p} : post[q].chat # post[p].chat

InStore ==
    \A p \in Posts :
        /\ post[p].at = "creating" => ~stored[post[p].chat].present /\ post[p].chat \notin erased
        /\ post[p].at = "created" => stored[post[p].chat].present \/ post[p].chat \in erased

Unknown(c) == \A p \in Posts : post[p].at # "none" => post[p].chat # c

Nowhere ==
    \A c \in Chats :
        /\ Unknown(c) => ~stored[c].present /\ c \notin erased /\ ~chat[c].listed
        /\ ~chat[c].listed => chat[c].messages = <<>>

(* A run under way is asked its own question last, on the conversation the *)
(* chat had when it asked.                                                 *)
AskedOn(p, c, entries) ==
    /\ Len(entries) \in 1..Len(chat[c].messages)
    /\ \A i \in 1..Len(entries) : entries[i] = chat[c].messages[i]
    /\ entries[Len(entries)] = Asks(p)

Asked == \A p \in Posts : post[p].at = "running" => AskedOn(p, post[p].chat, post[p].entries)

ChatInv == ChatTypeOK /\ Placed /\ Alone /\ InStore /\ Nowhere
             /\ Asked /\ CopiesAreHistory /\ ErasedStaysErased

-----------------------------------------------------------------------------
(* The server's steps, by what they disturb.                               *)
LEMMA ServerInitInv == ServerInit => ServerInv
<1> SUFFICES ASSUME ServerInit PROVE ServerInv
  OBVIOUS
<1> USE DEF ServerInit
<1>1. ServerTypeOK
  <2>1. net \in NetRecords
    <3>1. <<>> \in Seq({"listening", "error"})
      OBVIOUS
    <3>2. {} \in SUBSET Starts /\ 0 \in Nat
      OBVIOUS
    <3>3. QED
      BY <3>1, <3>2 DEF NetRecords, NoStart
  <2>2. socket \in [Sockets -> SocketRecords]
    BY DEF NoSocket, SocketRecords
  <2>3. QED
    BY <2>1, <2>2 DEF ServerTypeOK, SocketRecords, NetRecords
<1>2. Heard
  BY FS_EmptySet DEF Heard, Listened, Waited, ErrorsAreHeard, NoStart
<1>3. Watched /\ Marked
  BY DEF Watched, OpenIsWatched, Marked, NoSocket
<1>4. QED
  BY <1>1, <1>2, <1>3 DEF ServerInv

(* What may become of one connection while the others stay: it opens only  *)
(* marked alive, and only where upgrades are accepted.                     *)
Fair(old, new) ==
    /\ new \in SocketRecords
    /\ new.at = "open" => old.at = "open" \/ accepting
    /\ new.at = "open" /\ ~new.alive => new.pinged

LEMMA SocketKept ==
  ASSUME ServerInv, NEW s \in Sockets, NEW new, Fair(socket[s], new), SocketBecomes(s, new), OnlySockets
  PROVE  ServerInv'
<1> USE DEF ServerInv, SocketBecomes, OnlySockets, Fair
<1>1. ServerTypeOK'
  BY DEF ServerTypeOK, SocketRecords
<1>2. Heard'
  BY DEF Heard, Listened, Waited, ErrorsAreHeard
<1>3. \A r \in Sockets : socket'[r] = IF r = s THEN new ELSE socket[r]
  BY DEF ServerTypeOK
<1>4. Watched'
  BY <1>3 DEF Watched, OpenIsWatched
<1>5. Marked'
  BY <1>3 DEF Marked
<1>6. QED
  BY <1>1, <1>2, <1>4, <1>5

LEMMA SocketStepInv ==
  ASSUME ServerInv, NEW s \in Sockets, SocketStep(s)
  PROVE  ServerInv'
<1>1. socket[s] \in SocketRecords /\ NoSocket \in SocketRecords
  BY DEF ServerInv, ServerTypeOK, SocketRecords, NoSocket
<1>2. /\ socket[s].at = "open" /\ ~socket[s].alive => socket[s].pinged
  BY DEF ServerInv, Marked
<1>3. CASE Upgrade(s)
  <2>1. PICK to \in {"authenticating", "gone"} : SocketBecomes(s, [NoSocket EXCEPT !.at = to])
    BY <1>3 DEF Upgrade
  <2>2. Fair(socket[s], [NoSocket EXCEPT !.at = to])
    BY <1>1 DEF Fair, SocketRecords, NoSocket
  <2>3. QED
    BY <1>3, <2>1, <2>2, SocketKept DEF Upgrade
<1>4. CASE AuthRefused(s)
  <2>1. Fair(socket[s], [socket[s] EXCEPT !.at = "gone"])
    BY <1>1 DEF Fair, SocketRecords
  <2>2. QED
    BY <1>4, <2>1, SocketKept DEF AuthRefused
<1>5. CASE Authenticated(s)
  <2>1. accepting => Fair(socket[s], Opened(socket[s]))
    BY <1>1 DEF Fair, SocketRecords, Opened
  <2>2. Fair(socket[s], [socket[s] EXCEPT !.at = "gone"])
    BY <1>1 DEF Fair, SocketRecords
  <2>3. CASE accepting
    BY <1>5, <2>1, <2>3, SocketKept DEF Authenticated
  <2>4. CASE ~accepting
    BY <1>5, <2>2, <2>4, SocketKept DEF Authenticated
  <2>5. QED
    BY <2>3, <2>4
<1>6. CASE SetUp(s)
  <2>1. PICK at \in {socket[s].at, "closing"} :
            SocketBecomes(s, [socket[s] EXCEPT !.paused = FALSE, !.at = at])
    BY <1>6 DEF SetUp
  <2>2. Fair(socket[s], [socket[s] EXCEPT !.paused = FALSE, !.at = at])
    BY <1>1, <1>2 DEF Fair, SocketRecords
  <2>3. QED
    BY <1>6, <2>1, <2>2, SocketKept DEF SetUp
<1>7. CASE Pong(s)
  <2>1. Fair(socket[s], [socket[s] EXCEPT !.alive = TRUE, !.pinged = FALSE])
    BY <1>1 DEF Fair, SocketRecords
  <2>2. QED
    BY <1>7, <2>1, SocketKept DEF Pong
<1>8. CASE PeerDies(s)
  <2>1. Fair(socket[s], [socket[s] EXCEPT !.peer = "dead"])
    BY <1>1, <1>2 DEF Fair, SocketRecords
  <2>2. QED
    BY <1>8, <2>1, SocketKept DEF PeerDies
<1>9. CASE PeerLeaves(s) \/ CloseDone(s)
  <2>1. Fair(socket[s], [socket[s] EXCEPT !.at = "gone"])
    BY <1>1 DEF Fair, SocketRecords
  <2>2. QED
    BY <1>9, <2>1, SocketKept DEF PeerLeaves, CloseDone
<1>10. QED
  BY <1>3, <1>4, <1>5, <1>6, <1>7, <1>8, <1>9 DEF SocketStep

LEMMA ListenersKept ==
  ASSUME ServerInv,
         net' \in NetRecords, start' \in [Starts -> {"uncalled", "pending", "resolved", "rejected"}],
         crashed' \in {"no", "refused", "late"}, Heard', UNCHANGED <<stop, beating, accepting, socket>>
  PROVE  ServerInv'
<1>1. ServerTypeOK'
  BY DEF ServerInv, ServerTypeOK, NetRecords
<1>2. Watched' /\ Marked'
  BY DEF ServerInv, Watched, OpenIsWatched, Marked
<1>3. QED
  BY <1>1, <1>2 DEF ServerInv

LEMMA Ticked ==
  ASSUME NEW s \in Seq({"listening", "error"}), NEW e \in {"listening", "error"}
  PROVE  /\ Append(s, e) \in Seq({"listening", "error"})
         /\ Len(Append(s, e)) = Len(s) + 1 /\ Len(s) \in Nat
         /\ Append(s, e)[Len(s) + 1] = e /\ Append(s, e) # <<>>
         /\ s = <<>> => Len(Append(s, e)) = 1
  BY AppendProperties

(* What is left of the reports behind the first.                           *)
LEMMA Unticked ==
  ASSUME NEW s \in Seq({"listening", "error"}), s # <<>>
  PROVE  /\ Tail(s) \in Seq({"listening", "error"}) /\ Head(s) = s[1]
         /\ Len(s) = 1 => Tail(s) = <<>>
         /\ s[1] = "error" /\ (\E i \in 1..Len(s) : s[i] = "listening")
              => \E i \in 1..Len(Tail(s)) : Tail(s)[i] = "listening"
<1>1. /\ Tail(s) \in Seq({"listening", "error"}) /\ Head(s) = s[1]
      /\ Len(Tail(s)) = Len(s) - 1 /\ Len(s) \in Nat
      /\ \A i \in 1..Len(Tail(s)) : Tail(s)[i] = s[i + 1]
  BY HeadTailProperties
<1>2. Len(s) = 1 => Tail(s) = <<>>
  <2>1. Tail(s) # <<>> => Len(Tail(s)) # 0
    BY <1>1, EmptySeq
  <2>2. QED
    BY <1>1, <2>1
<1>3. ASSUME s[1] = "error", NEW i \in 1..Len(s), s[i] = "listening"
      PROVE  \E j \in 1..Len(Tail(s)) : Tail(s)[j] = "listening"
  <2>1. i # 1
    BY <1>3
  <2>2. i - 1 \in 1..Len(Tail(s)) /\ (i - 1) + 1 = i
    BY <1>1, <2>1
  <2>3. QED
    BY <1>1, <1>3, <2>2
<1>4. QED
  BY <1>1, <1>2, <1>3

LEMMA StartInv ==
  ASSUME ServerInv, Running, NEW i \in Starts, NEW bound \in BOOLEAN, Start(i, bound)
  PROVE  ServerInv'
<1> DEFINE tick == IF bound THEN "listening" ELSE "error"
<1>1. net \in NetRecords
  BY DEF ServerInv, ServerTypeOK, NetRecords
<1>2. tick \in {"listening", "error"}
  OBVIOUS
<1>3. /\ net.ticks \in Seq({"listening", "error"}) /\ net.hasty \in BOOLEAN /\ net.late \in Nat
      /\ net.onError \in SUBSET Starts /\ net.onListening \in SUBSET Starts
  BY <1>1 DEF NetRecords
<1> DEFINE ticks == Append(net.ticks, tick)
<1>4. /\ ticks \in Seq({"listening", "error"}) /\ Len(ticks) = Len(net.ticks) + 1 /\ Len(net.ticks) \in Nat
      /\ ticks[Len(net.ticks) + 1] = tick
      /\ net.ticks = <<>> => Len(ticks) = 1
  BY <1>2, <1>3, Ticked
<1>5. OneLess(net.late) \in Nat
  BY <1>3 DEF OneLess
<1>6. net' = [listening |-> bound, onError |-> net.onError \union {i},
              onListening |-> net.onListening \union {i}, late |-> OneLess(net.late), ticks |-> ticks,
              last |-> i, hasty |-> net.hasty \/ net.ticks # <<>>]
  BY DEF Start
<1> HIDE DEF ticks
<1>7. net' \in NetRecords
  <2>1. (net.hasty \/ net.ticks # <<>>) \in BOOLEAN
    BY <1>3
  <2>2. net.onError \union {i} \in SUBSET Starts /\ net.onListening \union {i} \in SUBSET Starts
    BY <1>3
  <2>3. QED
    BY <1>4, <1>5, <1>6, <2>1, <2>2 DEF NetRecords
<1>8. start' \in [Starts -> {"uncalled", "pending", "resolved", "rejected"}] /\ start'[i] = "pending"
  BY DEF Start, ServerInv, ServerTypeOK
<1>9. /\ net'.listening = bound /\ net'.onError = net.onError \union {i}
      /\ net'.onListening = net.onListening \union {i} /\ net'.ticks = ticks
      /\ net'.last = i /\ (~net'.hasty => net.ticks = <<>>)
  BY <1>6
<1>10. IsFiniteSet(net.onListening \union {i})
  BY FS_AddElement DEF ServerInv, Heard, Listened
<1>11. Listened'
  <2>1. bound => ticks[Len(net.ticks) + 1] = "listening" /\ Len(net.ticks) + 1 \in 1..Len(ticks)
    BY <1>4
  <2>2. net'.listening => net'.onListening # {} /\ \E j \in 1..Len(net'.ticks) : net'.ticks[j] = "listening"
    BY <1>9, <2>1
  <2>3. QED
    BY <1>8, <1>9, <1>10, <2>2 DEF Listened
<1>12. Waited'
  BY <1>4, <1>9 DEF Waited
<1>13. crashed = "no" /\ crashed' = "no"
  BY DEF Start, Running
<1>14. ErrorsAreHeard'
  BY <1>13 DEF ErrorsAreHeard
<1>15. QED
  BY <1>7, <1>8, <1>11, <1>12, <1>13, <1>14, ListenersKept DEF Start, Heard

LEMMA SettleType ==
  ASSUME NEW calls, NEW outcomes, NEW S, NEW promises \in [calls -> outcomes], NEW outcome \in outcomes
  PROVE  Settle(promises, S, outcome) \in [calls -> outcomes]
  BY DEF Settle

LEMMA NetWithout ==
  ASSUME NEW n \in NetRecords, NEW ticks \in Seq({"listening", "error"})
  PROVE  /\ [n EXCEPT !.onError = {}, !.ticks = ticks] \in NetRecords
         /\ [n EXCEPT !.ticks = ticks] \in NetRecords
         /\ \A k \in Nat : [n EXCEPT !.ticks = ticks, !.onError = @ \ n.onListening, !.onListening = {},
                                   !.late = @ + k] \in NetRecords
<1>1. {} \in SUBSET Starts
  OBVIOUS
<1>2. /\ n.listening \in BOOLEAN /\ n.onError \in SUBSET Starts /\ n.onListening \in SUBSET Starts
      /\ n.late \in Nat /\ n.last \in Starts \union {NoStart} /\ n.hasty \in BOOLEAN
  BY DEF NetRecords
<1>3. n.onError \ n.onListening \in SUBSET Starts /\ \A k \in Nat : n.late + k \in Nat
  BY <1>2
<1>4. [n EXCEPT !.onError = {}, !.ticks = ticks] \in NetRecords /\ [n EXCEPT !.ticks = ticks] \in NetRecords
  BY <1>1 DEF NetRecords
<1>5. ASSUME NEW k \in Nat
      PROVE  [n EXCEPT !.ticks = ticks, !.onError = @ \ n.onListening, !.onListening = {},
                       !.late = @ + k] \in NetRecords
  <2> DEFINE n1 == [n EXCEPT !.ticks = ticks]
             n2 == [n1 EXCEPT !.onError = @ \ n.onListening]
             n3 == [n2 EXCEPT !.onListening = {}]
  <2>1. n1 \in NetRecords /\ n1.onError = n.onError /\ n1.late = n.late
    BY DEF NetRecords
  <2>2. n2 \in NetRecords /\ n2.late = n.late
    BY <1>3, <2>1 DEF NetRecords
  <2>3. n3 \in NetRecords /\ n3.late = n.late
    BY <1>1, <2>2 DEF NetRecords
  <2>4. [n3 EXCEPT !.late = @ + k] \in NetRecords
    BY <1>3, <2>3 DEF NetRecords
  <2>5. QED
    BY <2>4
<1>6. QED
  BY <1>4, <1>5

(* An error is heard where a listener is there.                            *)
LEMMA EmitErrorInv ==
  ASSUME ServerInv, NEW of, NEW ticks, EmitError(of, ticks), UNCHANGED <<stop, beating, accepting, socket>>,
         \/ of = "refused" /\ net.ticks # <<>> /\ Head(net.ticks) = "error" /\ ticks = Tail(net.ticks)
         \/ of = "late" /\ net.ticks = <<>> /\ ticks = <<>>
  PROVE  ServerInv'
<1>1. net \in NetRecords
  BY DEF ServerInv, ServerTypeOK, NetRecords
<1>2. /\ net.ticks \in Seq({"listening", "error"}) /\ net.late \in Nat
      /\ net.last \in Starts \union {NoStart} /\ net.hasty \in BOOLEAN
  BY <1>1 DEF NetRecords
<1>3. ticks \in Seq({"listening", "error"})
  BY <1>2, Unticked
<1>4. net' = [net EXCEPT !.onError = {}, !.ticks = ticks]
  BY DEF EmitError
<1>5. /\ net' \in NetRecords /\ net'.late = net.late /\ net'.ticks = ticks /\ net'.onError = {}
      /\ net'.listening = net.listening /\ net'.onListening = net.onListening
      /\ net'.last = net.last /\ net'.hasty = net.hasty
  <2>1. net' \in NetRecords
    BY <1>1, <1>3, <1>4, NetWithout
  <2>2. QED
    BY <1>1, <1>4, <2>1 DEF NetRecords
<1>6. /\ start' \in [Starts -> {"uncalled", "pending", "resolved", "rejected"}]
      /\ \A i \in Starts : start'[i] = "resolved" => start[i] = "resolved"
  <2>1. start \in [Starts -> {"uncalled", "pending", "resolved", "rejected"}]
    BY DEF ServerInv, ServerTypeOK
  <2>2. start' = Settle(start, net.onError, "rejected")
    BY DEF EmitError
  <2>3. start' \in [Starts -> {"uncalled", "pending", "resolved", "rejected"}]
    BY <2>1, <2>2, SettleType
  <2>4. \A i \in Starts : start'[i] # start[i] => start'[i] = "rejected"
    BY <2>1, <2>2 DEF Settle
  <2>5. QED
    BY <2>3, <2>4
<1>7. crashed' = IF net.onError = {} /\ net.late = 0 THEN of ELSE "no"
  BY DEF EmitError
<1>8. Listened'
  <2>1. net.listening => \/ net.late > 0
                         \/ net.onListening # {} /\ \E i \in 1..Len(ticks) : ticks[i] = "listening"
    <3>1. CASE of = "refused" /\ net.ticks # <<>> /\ Head(net.ticks) = "error" /\ ticks = Tail(net.ticks)
      BY <1>2, <3>1, Unticked DEF ServerInv, Heard, Listened
    <3>2. CASE of = "late" /\ net.ticks = <<>> /\ ticks = <<>>
      BY <3>2 DEF ServerInv, Heard, Listened
    <3>3. QED
      BY <3>1, <3>2
  <2>2. net.last # NoStart => (start'[net.last] = "resolved" => net.late > 0)
    BY <1>2, <1>6 DEF ServerInv, Heard, Listened
  <2>3. QED
    BY <1>5, <2>1, <2>2 DEF ServerInv, Heard, Listened
<1>9. Waited'
  <2>1. ~net.hasty => ticks = <<>>
    BY <1>2, Unticked DEF ServerInv, Heard, Waited
  <2>2. QED
    BY <1>5, <2>1 DEF Waited
<1>10. ErrorsAreHeard'
  <2>1. CASE of = "refused" /\ net.ticks # <<>> /\ Head(net.ticks) = "error" /\ ticks = Tail(net.ticks)
    <3>1. net.onError = {} => net.hasty
      BY <2>1 DEF ServerInv, Heard, Waited
    <3>2. QED
      BY <1>5, <1>7, <2>1, <3>1 DEF ErrorsAreHeard
  <2>2. CASE of = "late" /\ net.ticks = <<>> /\ ticks = <<>>
    <3>1. net.listening => net.late > 0
      BY <2>2 DEF ServerInv, Heard, Listened
    <3>2. ~(0 > 0)
      OBVIOUS
    <3>3. net.late = 0 => ~net.listening /\ (net.last # NoStart => start'[net.last] # "resolved")
      BY <1>2, <1>6, <3>1, <3>2 DEF ServerInv, Heard, Listened
    <3>4. QED
      BY <1>5, <1>7, <2>2, <3>3 DEF ErrorsAreHeard
  <2>3. QED
    BY <2>1, <2>2
<1>11. crashed' \in {"no", "refused", "late"}
  BY <1>7
<1>12. QED
  BY <1>5, <1>6, <1>8, <1>9, <1>10, <1>11, ListenersKept DEF Heard

LEMMA EmitListeningInv ==
  ASSUME ServerInv, Running, net.ticks # <<>>, EmitListening(Tail(net.ticks)),
         UNCHANGED <<stop, beating, accepting, socket, crashed>>
  PROVE  ServerInv'
<1> DEFINE ticks == Tail(net.ticks)
<1>1. net \in NetRecords
  BY DEF ServerInv, ServerTypeOK, NetRecords
<1>2. /\ net.ticks \in Seq({"listening", "error"}) /\ net.late \in Nat
      /\ net.last \in Starts \union {NoStart} /\ net.hasty \in BOOLEAN
  BY <1>1 DEF NetRecords
<1>3. ticks \in Seq({"listening", "error"}) /\ (Len(net.ticks) = 1 => ticks = <<>>)
  BY <1>2, Unticked
<1>4. ~net.hasty => ticks = <<>>
  BY <1>3 DEF ServerInv, Heard, Waited
<1> HIDE DEF ticks
<1>5. crashed' = "no" /\ ErrorsAreHeard'
  BY DEF Running, ErrorsAreHeard
<1>6. /\ Cardinality(net.onListening) \in Nat
      /\ net.onListening # {} => Cardinality(net.onListening) # 0
  BY FS_CardinalityType, FS_EmptySet DEF ServerInv, Heard, Listened
<1>7. CASE net.listening
  <2>1. net' = ListenCallback([net EXCEPT !.ticks = ticks])
    BY <1>7 DEF EmitListening, ticks
  <2>2. net' = [net EXCEPT !.ticks = ticks, !.onError = @ \ net.onListening, !.onListening = {},
                           !.late = @ + Cardinality(net.onListening)]
    BY <1>1, <2>1 DEF ListenCallback, NetRecords
  <2>3. net' \in NetRecords
    BY <1>1, <1>3, <1>6, <2>2, NetWithout
  <2>4. /\ net'.late = net.late + Cardinality(net.onListening)
        /\ net'.ticks = ticks /\ net'.onListening = {}
        /\ net'.last = net.last /\ net'.hasty = net.hasty
    BY <1>1, <2>2 DEF NetRecords
  <2>5. start' = Settle(start, net.onListening, "resolved")
    BY <1>7 DEF EmitListening
  <2>6. start' \in [Starts -> {"uncalled", "pending", "resolved", "rejected"}]
    BY <2>5, SettleType DEF ServerInv, ServerTypeOK
  <2>7. net.late > 0 \/ net.onListening # {}
    BY <1>7 DEF ServerInv, Heard, Listened
  <2>8. net'.late > 0
    BY <1>2, <1>6, <2>4, <2>7
  <2>9. Listened'
    BY <2>4, <2>8, FS_EmptySet DEF Listened
  <2>10. Waited'
    BY <1>4, <2>4 DEF Waited
  <2>11. QED
    BY <1>5, <2>3, <2>6, <2>9, <2>10, ListenersKept DEF Heard
<1>8. CASE ~net.listening
  <2>1. net' = [net EXCEPT !.ticks = ticks] /\ start' = start
    BY <1>8 DEF EmitListening, ticks
  <2>2. /\ net' \in NetRecords /\ ~net'.listening /\ net'.ticks = ticks
        /\ net'.onListening = net.onListening /\ net'.last = net.last /\ net'.hasty = net.hasty
        /\ net'.late = net.late
    <3>1. net' \in NetRecords
      BY <1>1, <1>3, <2>1, NetWithout
    <3>2. QED
      BY <1>1, <1>8, <2>1, <3>1 DEF NetRecords
  <2>3. Listened'
    BY <2>1, <2>2 DEF Listened, Heard, ServerInv
  <2>4. Waited'
    BY <1>4, <2>2 DEF Waited
  <2>5. QED
    BY <1>5, <2>1, <2>2, <2>3, <2>4, ListenersKept DEF Heard, ServerInv, ServerTypeOK
<1>9. QED
  BY <1>7, <1>8

LEMMA TickInv ==
  ASSUME ServerInv, Running, Tick
  PROVE  ServerInv'
<1>1. CASE Head(net.ticks) = "error" /\ EmitError("refused", Tail(net.ticks))
  BY <1>1, EmitErrorInv DEF Tick
<1>2. CASE Head(net.ticks) = "listening" /\ EmitListening(Tail(net.ticks)) /\ UNCHANGED crashed
  BY <1>2, EmitListeningInv DEF Tick
<1>3. QED
  BY <1>1, <1>2 DEF Tick

LEMMA LateErrorInv ==
  ASSUME ServerInv, LateError
  PROVE  ServerInv'
  BY EmitErrorInv DEF LateError

(* Only what a call is told changes.                                       *)
LEMMA PromisesInv ==
  ASSUME ServerInv, \A i \in Starts : start'[i] = "resolved" => start[i] = "resolved",
         start' \in [Starts -> {"uncalled", "pending", "resolved", "rejected"}],
         stop' \in [Stops -> {"uncalled", "pending", "resolved"}],
         UNCHANGED <<net, beating, accepting, socket, crashed>>
  PROVE  ServerInv'
<1>1. ServerTypeOK'
  BY DEF ServerInv, ServerTypeOK
<1>2. net.last \in Starts \union {NoStart} /\ net' = net
  BY DEF ServerInv, ServerTypeOK
<1>3. Heard'
  <2>1. Listened'
    BY <1>2 DEF ServerInv, Heard, Listened
  <2>2. Waited'
    BY <1>2 DEF ServerInv, Heard, Waited
  <2>3. ErrorsAreHeard'
    BY <1>2 DEF ServerInv, Heard, ErrorsAreHeard
  <2>4. QED
    BY <2>1, <2>2, <2>3 DEF Heard
<1>4. Watched' /\ Marked'
  BY DEF ServerInv, Watched, OpenIsWatched, Marked
<1>5. QED
  BY <1>1, <1>3, <1>4 DEF ServerInv

LEMMA StartRefusedInv ==
  ASSUME ServerInv, NEW i \in Starts, StartRefused(i)
  PROVE  ServerInv'
<1>1. start' \in [Starts -> {"uncalled", "pending", "resolved", "rejected"}]
  BY DEF StartRefused, ServerInv, ServerTypeOK
<1>2. \A k \in Starts : start'[k] = "resolved" => start[k] = "resolved"
  BY DEF StartRefused, ServerInv, ServerTypeOK
<1>3. QED
  BY <1>1, <1>2, PromisesInv DEF StartRefused, ServerInv, ServerTypeOK

LEMMA DrainedInv ==
  ASSUME ServerInv, NEW others, Drained(others)
  PROVE  ServerInv'
<1>1. stop' \in [Stops -> {"uncalled", "pending", "resolved"}]
  BY SettleType DEF Drained, ServerInv, ServerTypeOK
<1>2. QED
  BY <1>1, PromisesInv DEF Drained, ServerInv, ServerTypeOK

(* A socket a stop has found open is closing, and none opens behind it.    *)
LEMMA StopInv ==
  ASSUME ServerInv, NEW j \in Stops, Stop(j)
  PROVE  ServerInv'
<1>1. net \in NetRecords /\ \A s \in Sockets : socket[s] \in SocketRecords
  BY DEF ServerInv, ServerTypeOK, NetRecords, SocketRecords
<1>2. net' = [net EXCEPT !.listening = FALSE] /\ crashed' = crashed
  BY DEF Stop
<1>3. /\ net' \in NetRecords /\ ~net'.listening
      /\ net'.ticks = net.ticks /\ net'.onError = net.onError /\ net'.onListening = net.onListening
      /\ net'.last = net.last /\ net'.hasty = net.hasty /\ net'.late = net.late
  BY <1>1, <1>2 DEF NetRecords
<1>4. \A s \in Sockets : CloseSocket(socket[s]) \in SocketRecords /\ CloseSocket(socket[s]).at # "open"
  BY <1>1 DEF CloseSocket, SocketRecords
<1>5. socket' = [s \in Sockets |-> CloseSocket(socket[s])]
  BY DEF Stop
<1>6. ServerTypeOK'
  <2>1. stop' \in [Stops -> {"uncalled", "pending", "resolved"}]
    BY DEF Stop, ServerInv, ServerTypeOK
  <2>2. socket' \in [Sockets -> SocketRecords]
    BY <1>4, <1>5
  <2>3. accepting' \in BOOLEAN /\ beating' \in BOOLEAN /\ start' = start
    BY DEF Stop, CloseWss
  <2>4. QED
    BY <1>2, <1>3, <2>1, <2>2, <2>3 DEF ServerInv, ServerTypeOK, NetRecords, SocketRecords
<1>7. Heard'
  <2>1. start' = start
    BY DEF Stop
  <2>2. QED
    BY <1>2, <1>3, <2>1 DEF Heard, Listened, Waited, ErrorsAreHeard, ServerInv
<1>8. Watched'
  <2>1. ~accepting'
    BY DEF Stop, CloseWss
  <2>2. \A s \in Sockets : socket'[s].at # "open"
    BY <1>4, <1>5
  <2>3. QED
    BY <2>1, <2>2 DEF Watched, OpenIsWatched
<1>9. Marked'
  BY <1>4, <1>5 DEF Marked
<1>10. QED
  BY <1>6, <1>7, <1>8, <1>9 DEF ServerInv

LEMMA BeatFair ==
  ASSUME NEW s \in SocketRecords
  PROVE  /\ Beat(s) \in SocketRecords
         /\ Beat(s).at = "open" => s.at = "open" /\ Beat(s).pinged
         /\ s.at = "open" /\ Beat(s).at = "gone" => ~s.alive
<1>1. CASE s.at \in {"open", "closing"} /\ ~s.alive
  <2>1. Beat(s) = [s EXCEPT !.at = "gone"]
    BY <1>1 DEF Beat
  <2>2. QED
    BY <1>1, <2>1 DEF SocketRecords
<1>2. CASE s.at \in {"open", "closing"} /\ s.alive
  <2>1. Beat(s) = [s EXCEPT !.alive = FALSE, !.pinged = s.at = "open"]
    BY <1>2 DEF Beat
  <2>2. (s.at = "open") \in BOOLEAN
    OBVIOUS
  <2>3. Beat(s) \in SocketRecords
    BY <1>2, <2>1, <2>2 DEF SocketRecords
  <2>4. Beat(s).at = s.at /\ Beat(s).pinged = (s.at = "open")
    BY <2>1 DEF SocketRecords
  <2>5. QED
    BY <1>2, <2>3, <2>4
<1>3. CASE s.at \in {"none", "authenticating", "gone"}
  <2>1. Beat(s) = s
    BY <1>3 DEF Beat
  <2>2. QED
    BY <1>3, <2>1
<1>4. QED
  BY <1>1, <1>2, <1>3 DEF SocketRecords

LEMMA HeartbeatInv ==
  ASSUME ServerInv, Heartbeat
  PROVE  ServerInv'
<1> USE DEF Heartbeat, OnlySockets
<1>1. \A s \in Sockets : socket[s] \in SocketRecords
  BY DEF ServerInv, ServerTypeOK, SocketRecords
<1>2. socket' = [s \in Sockets |-> Beat(socket[s])]
  OBVIOUS
<1>3. \A s \in Sockets : /\ socket'[s] \in SocketRecords
                         /\ socket'[s].at = "open" => socket[s].at = "open" /\ socket'[s].pinged
  BY <1>1, <1>2, BeatFair
<1>4. ServerTypeOK'
  <2>1. socket' \in [Sockets -> SocketRecords]
    BY <1>2, <1>3
  <2>2. QED
    BY <2>1 DEF ServerInv, ServerTypeOK, SocketRecords
<1>5. Heard'
  BY DEF ServerInv, Heard, Listened, Waited, ErrorsAreHeard
<1>6. Watched' /\ Marked'
  BY <1>3 DEF ServerInv, Watched, OpenIsWatched, Marked
<1>7. QED
  BY <1>4, <1>5, <1>6 DEF ServerInv

LEMMA ServerStepInv ==
  ASSUME ServerInv, ServerStep, Running
  PROVE  ServerInv'
<1>1. CASE \E i \in NextOf(Starts, start) : StartRefused(i) \/ \E bound \in BOOLEAN : Start(i, bound)
  BY <1>1, StartRefusedInv, StartInv DEF NextOf
<1>2. CASE Tick \/ LateError \/ Heartbeat
  BY <1>2, TickInv, LateErrorInv, HeartbeatInv
<1>3. CASE \E j \in NextOf(Stops, stop) : Stop(j)
  BY <1>3, StopInv DEF NextOf
<1>4. CASE \E s \in Sockets : SocketStep(s)
  BY <1>4, SocketStepInv
<1>5. QED
  BY <1>1, <1>2, <1>3, <1>4 DEF ServerStep

LEMMA ServerStutters ==
  ASSUME ServerInv, UNCHANGED serverVars
  PROVE  ServerInv'
  BY DEF serverVars, ServerInv, ServerTypeOK, Heard, Listened, Waited, ErrorsAreHeard, Watched,
         OpenIsWatched, Marked

LEMMA ServerNextInv == ServerInv /\ [Next]_vars => ServerInv'
<1> SUFFICES ASSUME ServerInv, [Next]_vars PROVE ServerInv'
  OBVIOUS
<1>1. CASE UNCHANGED vars
  BY <1>1, ServerStutters DEF vars
<1>2. CASE Next
  BY <1>2, ServerStepInv, DrainedInv, ServerStutters DEF Next, ServerCloses, RequestArrives, HostErases, RequestProceeds
<1>3. QED
  BY <1>1, <1>2

LEMMA ServerAlways == Spec => []ServerInv
<1>1. Init => ServerInv
  BY ServerInitInv DEF Init
<1>2. QED
  BY <1>1, ServerNextInv, PTL DEF Spec

-----------------------------------------------------------------------------
(* Every variable of the server keeps its type, for any number of calls    *)
(* and of sockets: its late listeners are never fewer than none            *)
(* (createServer.ts:137).                                                  *)
THEOREM ServerTypeCorrect == Spec => []ServerTypeOK
<1>1. ServerInv => ServerTypeOK
  BY DEF ServerInv
<1>2. QED
  BY <1>1, ServerAlways, PTL

(* However often the server is started, refused, stopped and started       *)
(* again, also several times in one task: an error of a refused bind finds *)
(* no listener only where a start did not wait for an earlier one, and any *)
(* other error none only while the server does not listen and its last     *)
(* start did not resolve (createServer.ts:132-143).                        *)
THEOREM ErrorsAlwaysHeard == Spec => []ErrorsAreHeard
<1>1. ServerInv => ErrorsAreHeard
  BY DEF ServerInv, Heard, ErrorsAreHeard
<1>2. QED
  BY <1>1, ServerAlways, PTL

(* However late an authenticator answers, no socket is open once the       *)
(* heartbeat has ended (createServer.ts:99-116, 150-154).                  *)
THEOREM OpenIsAlwaysWatched == Spec => []OpenIsWatched
<1>1. ServerInv => OpenIsWatched
  BY DEF ServerInv, Watched
<1>2. QED
  BY <1>1, ServerAlways, PTL

(* The heartbeat cuts no connection but one it pinged before and had no    *)
(* pong of (createServer.ts:101-111, connectionHandler.ts:104).            *)
THEOREM NeverCutUnaskedAlways == Spec => NeverCutUnasked
<1>1. ASSUME ServerInv, Heartbeat, NEW s \in Sockets, socket[s].at = "open", socket'[s].at = "gone"
      PROVE  socket[s].pinged
  <2>1. socket[s] \in SocketRecords
    BY <1>1 DEF ServerInv, ServerTypeOK, SocketRecords
  <2>2. socket'[s] = Beat(socket[s])
    BY <1>1 DEF Heartbeat
  <2>3. ~socket[s].alive
    BY <1>1, <2>1, <2>2, BeatFair
  <2>4. QED
    BY <1>1, <2>3 DEF ServerInv, Marked
<1>2. ServerInv /\ [Next]_vars =>
        [\A s \in Sockets :
            Heartbeat /\ socket[s].at = "open" /\ socket'[s].at = "gone" => socket[s].pinged]_serverVars
  BY <1>1
<1>3. QED
  BY <1>2, ServerAlways, PTL DEF Spec, NeverCutUnasked

-----------------------------------------------------------------------------
(* Sequences that grow.                                                    *)
LEMMA Appended ==
  ASSUME NEW S, NEW s \in Seq(S), NEW e \in S
  PROVE  /\ Append(s, e) \in Seq(S) /\ Append(s, e) # <<>>
         /\ Len(Append(s, e)) = Len(s) + 1 /\ Len(s) \in Nat
         /\ \A i \in 1..Len(s) : Append(s, e)[i] = s[i]
         /\ Append(s, e)[Len(s) + 1] = e
  BY AppendProperties

(* No chat loses or changes what was said in it.                           *)
Longer ==
    \A c \in Chats : /\ Len(chat[c].messages) <= Len(chat'[c].messages)
                     /\ \A i \in 1..Len(chat[c].messages) : chat'[c].messages[i] = chat[c].messages[i]

Ended == {"saved", "threw", "answered"}

-----------------------------------------------------------------------------
(* The chats.                                                              *)
LEMMA ChatInitInv == ChatInit => ChatInv
<1> SUFFICES ASSUME ChatInit PROVE ChatInv
  OBVIOUS
<1> USE DEF ChatInit
<1>1. <<>> \in Seq(Message)
  OBVIOUS
<1>2. /\ \A p \in Posts : post[p] = Idle
      /\ \A c \in Chats : chat[c] = Unlisted /\ stored[c] = Absent
      /\ erased = {}
  OBVIOUS
<1>3. ChatTypeOK
  <2>1. Idle \in PostRecords /\ Unlisted \in ChatRecords /\ Absent \in StoreRecords
    BY <1>1 DEF Idle, Unlisted, Absent, PostRecords, ChatRecords, StoreRecords
  <2>2. QED
    BY <2>1 DEF ChatTypeOK, PostRecords, ChatRecords, StoreRecords
<1>4. Placed /\ Alone /\ InStore
  BY <1>2 DEF Placed, Alone, Opening, InStore, Idle
<1>5. Nowhere
  BY <1>2 DEF Nowhere, Unlisted, Absent
<1>6. Asked /\ CopiesAreHistory
  BY <1>2 DEF Asked, CopiesAreHistory, Idle, Absent
<1>7. ErasedStaysErased
  BY <1>2 DEF ErasedStaysErased, Unlisted
<1>8. QED
  BY <1>3, <1>4, <1>5, <1>6, <1>7 DEF ChatInv

LEMMA ChatTypes ==
  ASSUME ChatInv
  PROVE  /\ post \in [Posts -> PostRecords]
         /\ chat \in [Chats -> ChatRecords] /\ stored \in [Chats -> StoreRecords]
         /\ \A p \in Posts : post[p] \in PostRecords /\ post[p].entries \in Seq(Message)
         /\ \A c \in Chats : chat[c] \in ChatRecords /\ chat[c].messages \in Seq(Message)
                               /\ stored[c] \in StoreRecords
<1>1. /\ post \in [Posts -> PostRecords]
      /\ chat \in [Chats -> ChatRecords] /\ stored \in [Chats -> StoreRecords]
  BY DEF ChatInv, ChatTypeOK, PostRecords, ChatRecords, StoreRecords
<1>2. \A r \in PostRecords : r.entries \in Seq(Message)
  BY DEF PostRecords
<1>3. \A r \in ChatRecords : r.messages \in Seq(Message)
  BY DEF ChatRecords
<1>4. QED
  BY <1>1, <1>2, <1>3

LEMMA Said ==
  /\ <<>> \in Seq(Message)
  /\ \A p \in Posts : Asks(p) \in Message /\ Answers(p) \in Message
<1>1. <<>> \in Seq(Message)
  OBVIOUS
<1>2. \A p \in Posts : Asks(p) \in Message /\ Answers(p) \in Message
  BY DEF Asks, Answers, Message
<1>3. QED
  BY <1>1, <1>2

LEMMA Lengths ==
  ASSUME ChatInv, NEW c \in Chats
  PROVE  Len(chat[c].messages) \in Nat
  BY ChatTypes, LenProperties

LEMMA SameChats ==
  ASSUME ChatInv, chat' = chat
  PROVE  Longer
  BY Lengths DEF Longer

LEMMA AskedOnKept ==
  ASSUME ChatInv, ChatTypeOK', Longer, NEW p, NEW c \in Chats, NEW entries, AskedOn(p, c, entries)
  PROVE  AskedOn(p, c, entries)'
<1>1. Len(chat[c].messages) \in Nat /\ Len(chat'[c].messages) \in Nat
  <2>1. chat'[c].messages \in Seq(Message)
    BY DEF ChatTypeOK
  <2>2. QED
    BY <2>1, Lengths, LenProperties
<1>2. Len(entries) \in 1..Len(chat'[c].messages)
  BY <1>1 DEF AskedOn, Longer
<1>3. \A i \in 1..Len(entries) : i \in 1..Len(chat[c].messages)
  BY <1>1 DEF AskedOn
<1>4. QED
  BY <1>2, <1>3 DEF AskedOn, Longer

LEMMA LeftByRunKept ==
  ASSUME ChatInv, ChatTypeOK', Longer, NEW p, NEW c \in Chats, NEW entries, LeftByRun(p, c, entries)
  PROVE  LeftByRun(p, c, entries)'
<1>1. Len(chat[c].messages) \in Nat /\ Len(chat'[c].messages) \in Nat
  <2>1. chat'[c].messages \in Seq(Message)
    BY DEF ChatTypeOK
  <2>2. QED
    BY <2>1, Lengths, LenProperties
<1>2. PICK n \in 1..Len(chat[c].messages) :
        /\ chat[c].messages[n] = Asks(p)
        /\ n <= Len(entries)
        /\ \A i \in 1..(n - 1) : entries[i] = chat[c].messages[i]
        /\ entries[n] \in {Asks(p), AsksInOtherWords(p)}
        /\ \A i \in (n + 1)..Len(entries) : entries[i] = ToolEntry(p)
  BY DEF LeftByRun
<1>3. n \in 1..Len(chat'[c].messages) /\ chat'[c].messages[n] = Asks(p)
  BY <1>1, <1>2 DEF Longer
<1>4. \A i \in 1..(n - 1) : entries[i] = chat'[c].messages[i]
  BY <1>1, <1>2 DEF Longer
<1>5. QED
  BY <1>2, <1>3, <1>4 DEF LeftByRun

(* A step that lets no run that has ended go on, moves no run under way    *)
(* and stores nothing new.                                                 *)
LEMMA CopiesKept ==
  ASSUME ChatInv, ChatTypeOK', Longer,
         \A q \in Posts : post[q].at \in Ended => post'[q].at \in Ended /\ post'[q].chat = post[q].chat,
         \A c \in Chats : stored'[c].entries = stored[c].entries \/ stored'[c].entries = <<>>
  PROVE  CopiesAreHistory'
<1> SUFFICES ASSUME NEW c \in Chats, stored'[c].entries # <<>>
             PROVE  \E p \in Posts : /\ post'[p].chat = c /\ post'[p].at \in {"saved", "threw", "answered"}
                                     /\ LeftByRun(p, c, stored[c].entries)'
  BY DEF CopiesAreHistory
<1>1. stored'[c].entries = stored[c].entries /\ stored[c].entries # <<>>
  OBVIOUS
<1>2. PICK p \in Posts : /\ post[p].chat = c /\ post[p].at \in {"saved", "threw", "answered"}
                        /\ LeftByRun(p, c, stored[c].entries)
  BY <1>1 DEF ChatInv, CopiesAreHistory
<1>3. LeftByRun(p, c, stored[c].entries)'
  <2> DEFINE entries == stored[c].entries
  <2>1. PICK e : e = stored[c].entries
    OBVIOUS
  <2>2. LeftByRun(p, c, e)
    BY <1>2, <2>1
  <2>3. LeftByRun(p, c, e)'
    BY <2>2, LeftByRunKept
  <2>4. e = stored'[c].entries
    BY <1>1, <2>1
  <2>5. QED
    BY <2>3, <2>4
<1>4. QED
  BY <1>2, <1>3 DEF Ended

LEMMA AskedKept ==
  ASSUME ChatInv, ChatTypeOK', Longer, NEW q \in Posts, post'[q].at = "running",
         post'[q] = post[q]
  PROVE  AskedOn(q, post[q].chat, post[q].entries)'
<1>1. post[q].chat \in Chats /\ AskedOn(q, post[q].chat, post[q].entries)
  BY DEF ChatInv, Placed, Asked
<1>2. PICK c \in Chats : c = post[q].chat
  BY <1>1
<1>3. PICK e : e = post[q].entries
  OBVIOUS
<1>4. AskedOn(q, c, e)'
  BY <1>1, <1>2, <1>3, AskedOnKept
<1>5. c = post'[q].chat /\ e = post'[q].entries
  BY <1>2, <1>3
<1>6. QED
  BY <1>4, <1>5

LEMMA Answering ==
  ASSUME NEW r \in PostRecords
  PROVE  LET a == [r EXCEPT !.at = "answered", !.entries = <<>>]
         IN  a \in PostRecords /\ a.at = "answered" /\ a.entries = <<>> /\ a.chat = r.chat
<1>1. <<>> \in Seq(Message)
  OBVIOUS
<1>2. QED
  BY <1>1 DEF PostRecords

(* A response, whatever it says, only lets go of what its request held.    *)
LEMMA AnsweredPost ==
  ASSUME ChatInv, NEW p \in Posts, Answered(p)
  PROVE  /\ post' \in [Posts -> PostRecords]
         /\ post'[p].at = "answered" /\ post'[p].entries = <<>> /\ post'[p].chat = post[p].chat
         /\ \A q \in Posts \ {p} : post'[q] = post[q]
<1>1. post \in [Posts -> PostRecords] /\ post[p] \in PostRecords
  BY ChatTypes
<1> DEFINE a == [post[p] EXCEPT !.at = "answered", !.entries = <<>>]
<1>2. post' = [post EXCEPT ![p] = a]
  BY <1>1 DEF Answered
<1>3. a \in PostRecords /\ a.at = "answered" /\ a.entries = <<>> /\ a.chat = post[p].chat
  BY <1>1, Answering
<1> HIDE DEF a
<1>4. QED
  BY <1>1, <1>2, <1>3

LEMMA AnsweredAlone ==
  ASSUME ChatInv, NEW p \in Posts, Answered(p), UNCHANGED <<chat, stored, erased>>
  PROVE  ChatInv'
<1>1. /\ post' \in [Posts -> PostRecords]
      /\ post'[p].at = "answered" /\ post'[p].entries = <<>> /\ post'[p].chat = post[p].chat
      /\ \A q \in Posts \ {p} : post'[q] = post[q]
  BY AnsweredPost
<1>2. ChatTypeOK'
  BY <1>1 DEF ChatInv, ChatTypeOK, PostRecords
<1>3. Placed' /\ Alone' /\ InStore'
  BY <1>1 DEF ChatInv, Placed, Alone, InStore, Opening
<1>4. Nowhere'
  <2>1. \A c \in Chats : Unknown(c)' => Unknown(c)
    BY <1>1 DEF Unknown
  <2>2. QED
    BY <2>1 DEF ChatInv, Nowhere
<1>5. Asked' /\ CopiesAreHistory'
  <2>1. Longer
    BY SameChats
  <2>2. \A q \in Posts : post'[q].at = "running" => post'[q] = post[q]
    BY <1>1
  <2>3. Asked'
    BY <1>2, <2>1, <2>2, AskedKept DEF Asked
  <2>4. \A q \in Posts : post[q].at \in Ended => post'[q].at \in Ended /\ post'[q].chat = post[q].chat
    BY <1>1 DEF Ended
  <2>5. QED
    BY <1>2, <2>1, <2>3, <2>4, CopiesKept
<1>6. ErasedStaysErased'
  BY DEF ChatInv, ErasedStaysErased
<1>7. QED
  BY <1>2, <1>3, <1>4, <1>5, <1>6 DEF ChatInv

-----------------------------------------------------------------------------
(* The record of a request that has just come in.                          *)
LEMMA NewRecord ==
  ASSUME NEW a, NEW u, NEW c
  PROVE  [Idle EXCEPT !.at = a, !.user = u, !.chat = c] = [at |-> a, user |-> u, chat |-> c, entries |-> <<>>]
<1>1. [Idle EXCEPT !.at = a] = [at |-> a, user |-> NoOne, chat |-> NoOne, entries |-> <<>>]
  BY DEF Idle
<1>2. [[at |-> a, user |-> NoOne, chat |-> NoOne, entries |-> <<>>] EXCEPT !.user = u]
        = [at |-> a, user |-> u, chat |-> NoOne, entries |-> <<>>]
  OBVIOUS
<1>3. [[at |-> a, user |-> u, chat |-> NoOne, entries |-> <<>>] EXCEPT !.chat = c]
        = [at |-> a, user |-> u, chat |-> c, entries |-> <<>>]
  OBVIOUS
<1>4. QED
  BY <1>1, <1>2, <1>3

(* Opening a chat: its id is fresh, so the request is alone with it.       *)
LEMMA OpenChatInv ==
  ASSUME ChatInv, NEW p \in Posts, NEW u \in Users, NEW c \in Chats, OpenChat(p, u, c)
  PROVE  ChatInv'
<1> DEFINE new == [at |-> "creating", user |-> u, chat |-> c, entries |-> <<>>]
<1>1. /\ post \in [Posts -> PostRecords] /\ post[p] \in PostRecords
      /\ post' = [post EXCEPT ![p] = new]
      /\ post[p].at = "none" /\ \A q \in Posts : post[q].chat # c
      /\ UNCHANGED <<chat, stored, erased>>
  <2>1. [Idle EXCEPT !.at = "creating", !.user = u, !.chat = c] = new
    BY NewRecord
  <2>2. QED
    BY <2>1, ChatTypes DEF OpenChat, Unused
<1>2. new \in PostRecords /\ new.at = "creating" /\ new.chat = c /\ new.entries = <<>>
  BY Said DEF PostRecords
<1> HIDE DEF new
<1>3. post'[p] = new /\ \A q \in Posts \ {p} : post'[q] = post[q]
  BY <1>1
<1>4. ChatTypeOK'
  <2>1. post' \in [Posts -> PostRecords]
    BY <1>1, <1>2
  <2>2. QED
    BY <1>1, <2>1 DEF ChatInv, ChatTypeOK, PostRecords
<1>5. ~stored[c].present /\ c \notin erased /\ ~chat[c].listed
  BY <1>1 DEF ChatInv, Nowhere, Unknown
<1>6. Placed'
  BY <1>1, <1>2, <1>3 DEF ChatInv, Placed
<1>7. Alone'
  BY <1>1, <1>2, <1>3, <1>5 DEF ChatInv, Alone, Opening
<1>8. InStore'
  BY <1>1, <1>2, <1>3, <1>5 DEF ChatInv, InStore
<1>9. Nowhere'
  <2>1. \A d \in Chats : Unknown(d)' => Unknown(d)
    BY <1>1, <1>3 DEF Unknown
  <2>2. QED
    BY <1>1, <2>1 DEF ChatInv, Nowhere
<1>10. Asked' /\ CopiesAreHistory'
  <2>1. Longer
    BY <1>1, SameChats
  <2>2. \A q \in Posts : post'[q].at = "running" => post'[q] = post[q]
    BY <1>2, <1>3
  <2>3. Asked'
    BY <1>4, <2>1, <2>2, AskedKept DEF Asked
  <2>4. \A q \in Posts : post[q].at \in Ended => post'[q].at \in Ended /\ post'[q].chat = post[q].chat
    BY <1>1, <1>3 DEF Ended
  <2>5. QED
    BY <1>1, <1>4, <2>1, <2>3, <2>4, CopiesKept
<1>11. ErasedStaysErased'
  BY <1>1 DEF ChatInv, ErasedStaysErased
<1>12. QED
  BY <1>4, <1>6, <1>7, <1>8, <1>9, <1>10, <1>11 DEF ChatInv

(* A request that only moves on.                                           *)
LEMMA MovedPost ==
  ASSUME ChatInv, NEW p \in Posts, NEW at \in {"created", "saved", "threw"},
         post' = [post EXCEPT ![p].at = at]
  PROVE  /\ post' \in [Posts -> PostRecords]
         /\ post'[p].at = at /\ post'[p].entries = post[p].entries /\ post'[p].chat = post[p].chat
         /\ \A q \in Posts \ {p} : post'[q] = post[q]
<1>1. post \in [Posts -> PostRecords] /\ post[p] \in PostRecords
  BY ChatTypes
<1> DEFINE m == [post[p] EXCEPT !.at = at]
<1>2. \A r \in PostRecords : LET n == [r EXCEPT !.at = at]
                             IN  n \in PostRecords /\ n.at = at /\ n.entries = r.entries /\ n.chat = r.chat
  BY DEF PostRecords
<1>3. m \in PostRecords /\ m.at = at /\ m.entries = post[p].entries /\ m.chat = post[p].chat
  BY <1>1, <1>2
<1>4. post' = [post EXCEPT ![p] = m]
  BY <1>1
<1> HIDE DEF m
<1>5. QED
  BY <1>1, <1>3, <1>4

LEMMA StoreCreatesInv ==
  ASSUME ChatInv, NEW p \in Posts, StoreCreates(p)
  PROVE  ChatInv'
<1> DEFINE c == post[p].chat
<1>1. /\ post[p].at = "creating" /\ UNCHANGED <<chat, erased>>
      /\ stored' = [stored EXCEPT ![c] = [present |-> TRUE, entries |-> <<>>]]
  BY DEF StoreCreates
<1>2. /\ post' \in [Posts -> PostRecords]
      /\ post'[p].at = "created" /\ post'[p].entries = post[p].entries /\ post'[p].chat = c
      /\ \A q \in Posts \ {p} : post'[q] = post[q]
  BY MovedPost DEF StoreCreates
<1>3. c \in Chats /\ c \notin erased /\ ~chat[c].listed /\ post[p].entries = <<>>
      /\ \A q \in Posts \ {p} : post[q].chat # c
  BY <1>1 DEF ChatInv, Placed, Alone, InStore, Opening
<1> HIDE DEF c
<1>4. /\ stored' \in [Chats -> StoreRecords]
      /\ stored'[c].present /\ stored'[c].entries = <<>>
      /\ \A d \in Chats \ {c} : stored'[d] = stored[d]
  <2>1. [present |-> TRUE, entries |-> <<>>] \in StoreRecords
    BY Said DEF StoreRecords
  <2>2. QED
    BY <1>1, <1>3, <2>1, ChatTypes
<1>5. ChatTypeOK'
  BY <1>1, <1>2, <1>4 DEF ChatInv, ChatTypeOK, PostRecords, StoreRecords
<1>6. Placed'
  BY <1>1, <1>2, <1>3 DEF ChatInv, Placed
<1>7. Alone'
  BY <1>1, <1>2, <1>3 DEF ChatInv, Alone, Opening
<1>8. InStore'
  <2>1. \A q \in Posts \ {p} : post'[q].at \in {"creating", "created"} =>
            post'[q].chat \in Chats \ {c} /\ post'[q] = post[q]
    BY <1>2, <1>3 DEF ChatInv, Placed
  <2>2. QED
    BY <1>1, <1>2, <1>4, <2>1 DEF ChatInv, InStore
<1>9. Nowhere'
  <2>1. \A d \in Chats : Unknown(d)' => d # c /\ Unknown(d)
    BY <1>1, <1>2 DEF Unknown, c
  <2>2. QED
    BY <1>1, <1>4, <2>1 DEF ChatInv, Nowhere
<1>10. Asked' /\ CopiesAreHistory'
  <2>1. Longer
    BY <1>1, SameChats
  <2>2. \A q \in Posts : post'[q].at = "running" => post'[q] = post[q]
    BY <1>2
  <2>3. Asked'
    BY <1>5, <2>1, <2>2, AskedKept DEF Asked
  <2>4. \A q \in Posts : post[q].at \in Ended => post'[q].at \in Ended /\ post'[q].chat = post[q].chat
    BY <1>1, <1>2 DEF Ended
  <2>5. \A d \in Chats : stored'[d].entries = stored[d].entries \/ stored'[d].entries = <<>>
    BY <1>4
  <2>6. QED
    BY <1>5, <2>1, <2>3, <2>4, <2>5, CopiesKept
<1>11. ErasedStaysErased'
  BY <1>1, <1>3, <1>4 DEF ChatInv, ErasedStaysErased
<1>12. QED
  BY <1>5, <1>6, <1>7, <1>8, <1>9, <1>10, <1>11 DEF ChatInv

LEMMA ListInv ==
  ASSUME ChatInv, NEW p \in Posts, List(p)
  PROVE  ChatInv'
<1> DEFINE c == post[p].chat
           new == [listed |-> TRUE, owner |-> post[p].user, messages |-> <<>>]
<1>1. /\ post[p].at = "created" /\ UNCHANGED <<stored, erased>>
      /\ chat' = [chat EXCEPT ![c] = new]
  BY DEF List
<1>2. /\ post' \in [Posts -> PostRecords]
      /\ post'[p].at = "answered" /\ post'[p].entries = <<>> /\ post'[p].chat = c
      /\ \A q \in Posts \ {p} : post'[q] = post[q]
  BY AnsweredPost DEF List
<1>3. c \in Chats /\ ~chat[c].listed /\ (stored[c].present \/ c \in erased)
      /\ \A q \in Posts \ {p} : post[q].chat # c
  BY <1>1 DEF ChatInv, Placed, Alone, InStore, Opening
<1>4. new \in ChatRecords /\ new.listed /\ new.messages = <<>>
  <2>1. \A r \in PostRecords : r.user \in Users \union {NoOne}
    BY DEF PostRecords
  <2>2. post[p].user \in Users \union {NoOne}
    BY <2>1, ChatTypes
  <2>3. QED
    BY <2>2, Said DEF ChatRecords
<1>5. chat[c].messages = <<>>
  BY <1>3 DEF ChatInv, Nowhere
<1> HIDE DEF c, new
<1>6. /\ chat' \in [Chats -> ChatRecords]
      /\ chat'[c].listed /\ chat'[c].messages = <<>>
      /\ \A d \in Chats \ {c} : chat'[d] = chat[d]
  BY <1>1, <1>3, <1>4, ChatTypes
<1>7. ChatTypeOK'
  BY <1>1, <1>2, <1>6 DEF ChatInv, ChatTypeOK, PostRecords, ChatRecords
<1>8. \A q \in Posts \ {p} : post'[q].chat \in Chats => post'[q].chat \in Chats \ {c}
  BY <1>2, <1>3
<1>9. Placed'
  BY <1>2, <1>6, <1>8 DEF ChatInv, Placed
<1>10. Alone'
  <2>1. \A q \in Posts \ {p} : Opening(q)' => Opening(q) /\ post[q].chat \in Chats \ {c}
    BY <1>2, <1>8 DEF Opening, ChatInv, Placed
  <2>2. ~Opening(p)'
    BY <1>2 DEF Opening
  <2>3. post'[p].chat = post[p].chat
    BY <1>2 DEF c
  <2>4. QED
    BY <1>2, <1>6, <2>1, <2>2, <2>3 DEF ChatInv, Alone
<1>11. InStore'
  BY <1>1, <1>2 DEF ChatInv, InStore
<1>12. Nowhere'
  <2>1. \A d \in Chats : Unknown(d)' => d # c /\ Unknown(d)
    BY <1>1, <1>2 DEF Unknown, c
  <2>2. QED
    BY <1>1, <1>6, <2>1 DEF ChatInv, Nowhere
<1>13. \A d \in Chats : chat'[d].messages = chat[d].messages
  BY <1>5, <1>6
<1>14. Asked' /\ CopiesAreHistory'
  <2>1. Longer
    BY <1>13, Lengths DEF Longer
  <2>2. \A q \in Posts : post'[q].at = "running" => post'[q] = post[q]
    BY <1>2
  <2>3. Asked'
    BY <1>7, <2>1, <2>2, AskedKept DEF Asked
  <2>4. \A q \in Posts : post[q].at \in Ended => post'[q].at \in Ended /\ post'[q].chat = post[q].chat
    BY <1>1, <1>2 DEF Ended
  <2>5. QED
    BY <1>1, <1>7, <2>1, <2>3, <2>4, CopiesKept
<1>15. ErasedStaysErased'
  BY <1>1, <1>3, <1>6 DEF ChatInv, ErasedStaysErased
<1>16. QED
  BY <1>7, <1>9, <1>10, <1>11, <1>12, <1>14, <1>15 DEF ChatInv

(* What a listed chat says next: the copies of it stay copies.             *)
LEMMA ChatGrows ==
  ASSUME ChatInv, NEW c \in Chats, NEW m \in Message,
         chat' = [chat EXCEPT ![c].messages = Append(@, m)]
  PROVE  /\ chat' \in [Chats -> ChatRecords]
         /\ \A d \in Chats : chat'[d].listed = chat[d].listed
         /\ \A d \in Chats \ {c} : chat'[d] = chat[d]
         /\ chat'[c].messages = Append(chat[c].messages, m)
         /\ Longer
<1> DEFINE said == Append(chat[c].messages, m)
           new == [chat[c] EXCEPT !.messages = said]
<1>1. chat \in [Chats -> ChatRecords] /\ chat[c] \in ChatRecords /\ chat[c].messages \in Seq(Message)
  BY ChatTypes
<1>2. said \in Seq(Message)
  BY <1>1
<1>3. chat' = [chat EXCEPT ![c] = new]
  OBVIOUS
<1>4. /\ Len(chat[c].messages) <= Len(said)
      /\ \A i \in 1..Len(chat[c].messages) : said[i] = chat[c].messages[i]
  BY <1>1, Appended
<1> HIDE DEF said
<1>5. new \in ChatRecords /\ new.listed = chat[c].listed /\ new.messages = said
  <2>1. \A r \in ChatRecords : LET n == [r EXCEPT !.messages = said]
                               IN  n \in ChatRecords /\ n.listed = r.listed /\ n.messages = said
    BY <1>2 DEF ChatRecords
  <2>2. QED
    BY <1>1, <2>1
<1> HIDE DEF new
<1>6. chat' \in [Chats -> ChatRecords] /\ chat'[c] = new /\ \A d \in Chats \ {c} : chat'[d] = chat[d]
  BY <1>1, <1>3, <1>5
<1>7. Longer
  <2>1. \A d \in Chats : Len(chat[d].messages) \in Nat
    BY Lengths
  <2>2. QED
    BY <1>4, <1>5, <1>6, <2>1 DEF Longer
<1>8. QED
  BY <1>5, <1>6, <1>7 DEF said

LEMMA PostMessageInv ==
  ASSUME ChatInv, NEW p \in Posts, NEW u \in Users, NEW c \in Chats, PostMessage(p, u, c)
  PROVE  ChatInv'
<1> DEFINE copy == SessionEntries(p, c)
           new == [at |-> "running", user |-> u, chat |-> c, entries |-> copy]
<1>1. /\ post[p].at = "none" /\ chat[c].listed /\ UNCHANGED <<stored, erased>>
      /\ chat' = [chat EXCEPT ![c].messages = Append(@, Asks(p))]
      /\ post' = [post EXCEPT ![p] = new]
  <2>1. [Idle EXCEPT !.at = "running", !.user = u, !.chat = c] = [at |-> "running", user |-> u, chat |-> c, entries |-> <<>>]
    BY NewRecord
  <2>2. [[at |-> "running", user |-> u, chat |-> c, entries |-> <<>>] EXCEPT !.entries = copy] = new
    OBVIOUS
  <2>3. QED
    BY <2>1, <2>2 DEF PostMessage, Authorized
<1>2. /\ chat' \in [Chats -> ChatRecords]
      /\ \A d \in Chats : chat'[d].listed = chat[d].listed
      /\ \A d \in Chats \ {c} : chat'[d] = chat[d]
      /\ chat'[c].messages = copy
      /\ Longer
  BY <1>1, ChatGrows, Said DEF SessionEntries
<1>3. copy \in Seq(Message) /\ copy # <<>> /\ Len(copy) \in Nat /\ Len(copy) >= 1 /\ copy[Len(copy)] = Asks(p)
  BY ChatTypes, Said, Appended DEF SessionEntries
<1> HIDE DEF copy
<1>4. new \in PostRecords /\ new.at = "running" /\ new.chat = c /\ new.entries = copy
  BY <1>3 DEF PostRecords
<1> HIDE DEF new
<1>5. /\ post' \in [Posts -> PostRecords] /\ post'[p] = new
      /\ \A q \in Posts \ {p} : post'[q] = post[q]
  BY <1>1, <1>4, ChatTypes
<1>6. ChatTypeOK'
  BY <1>1, <1>2, <1>5 DEF ChatInv, ChatTypeOK, PostRecords, ChatRecords
<1>7. Placed'
  BY <1>1, <1>2, <1>3, <1>4, <1>5 DEF ChatInv, Placed
<1>8. Alone'
  <2>1. \A q \in Posts : Opening(q)' => q # p /\ Opening(q) /\ post'[q] = post[q] /\ post[q].chat \in Chats \ {c}
    BY <1>1, <1>4, <1>5 DEF ChatInv, Placed, Alone, Opening
  <2>2. QED
    BY <1>2, <1>4, <1>5, <2>1 DEF ChatInv, Alone
<1>9. InStore'
  BY <1>1, <1>4, <1>5 DEF ChatInv, InStore
<1>10. Nowhere'
  <2>1. \A d \in Chats : Unknown(d)' => Unknown(d)
    BY <1>1, <1>5 DEF Unknown
  <2>2. QED
    BY <1>1, <1>2, <2>1 DEF ChatInv, Nowhere
<1>11. Asked' /\ CopiesAreHistory'
  <2>1. AskedOn(p, post[p].chat, post[p].entries)'
    BY <1>2, <1>3, <1>4, <1>5 DEF AskedOn
  <2>2. \A q \in Posts \ {p} : post'[q].at = "running" => AskedOn(q, post[q].chat, post[q].entries)'
    BY <1>2, <1>5, <1>6, AskedKept
  <2>3. \A q \in Posts : post[q].at \in Ended => post'[q].at \in Ended /\ post'[q].chat = post[q].chat
    BY <1>1, <1>5 DEF Ended
  <2>4. CopiesAreHistory'
    BY <1>1, <1>2, <1>6, <2>3, CopiesKept
  <2>5. QED
    BY <2>1, <2>2, <2>4 DEF Asked
<1>12. ErasedStaysErased'
  BY <1>1, <1>2 DEF ChatInv, ErasedStaysErased
<1>13. QED
  BY <1>6, <1>7, <1>8, <1>9, <1>10, <1>11, <1>12 DEF ChatInv

(* What a run leaves of a session it was asked on.                         *)
LEMMA SessionIsLeft ==
  ASSUME ChatInv, NEW p \in Posts, NEW c \in Chats, post[p].entries \in Seq(Message),
         AskedOn(p, c, post[p].entries),
         NEW question \in {Asks(p), AsksInOtherWords(p)}, NEW k \in Nat
  PROVE  SessionOf(p, question, k) \in Seq(Message) /\ LeftByRun(p, c, SessionOf(p, question, k))
<1> DEFINE entries == post[p].entries
           n == Len(entries)
           asked == [entries EXCEPT ![n] = question]
           tools == [i \in 1..k |-> ToolEntry(p)]
<1>1. question \in Message /\ ToolEntry(p) \in Message
  BY DEF Asks, AsksInOtherWords, ToolEntry, Message
<1>2. n \in 1..Len(chat[c].messages) /\ n \in Nat /\ n >= 1
  BY Lengths DEF AskedOn
<1>3. /\ asked \in Seq(Message) /\ Len(asked) = n
      /\ asked[n] = question /\ \A i \in 1..(n - 1) : asked[i] = entries[i]
  BY <1>1, <1>2, ExceptSeq
<1>4. tools \in Seq(Message) /\ Len(tools) = k /\ \A i \in 1..k : tools[i] = ToolEntry(p)
  BY <1>1
<1>5. SessionOf(p, question, k) = asked \o tools
  BY DEF SessionOf
<1> HIDE DEF entries, n, asked, tools
<1>6. /\ asked \o tools \in Seq(Message) /\ Len(asked \o tools) = n + k
      /\ \A i \in 1..(n + k) : (asked \o tools)[i] = IF i <= n THEN asked[i] ELSE tools[i - n]
  <2>1. /\ asked \o tools \in Seq(Message) /\ Len(asked \o tools) = Len(asked) + Len(tools)
        /\ \A i \in 1..(Len(asked) + Len(tools)) :
              (asked \o tools)[i] = IF i <= Len(asked) THEN asked[i] ELSE tools[i - Len(asked)]
    BY <1>3, <1>4, ConcatProperties
  <2>2. Len(asked) = n /\ Len(tools) = k
    BY <1>3, <1>4
  <2>3. QED
    BY <2>1, <2>2
<1>7. /\ chat[c].messages[n] = Asks(p) /\ \A i \in 1..n : entries[i] = chat[c].messages[i]
  <2>1. n \in 1..n
    BY <1>2
  <2>2. QED
    BY <2>1 DEF AskedOn, entries, n
<1>8. n <= Len(asked \o tools)
  BY <1>2, <1>6
<1>9. \A i \in 1..(n - 1) : (asked \o tools)[i] = chat[c].messages[i]
  BY <1>2, <1>3, <1>6, <1>7
<1>10. (asked \o tools)[n] = question
  BY <1>2, <1>3, <1>6
<1>11. \A i \in (n + 1)..Len(asked \o tools) : (asked \o tools)[i] = ToolEntry(p)
  BY <1>2, <1>4, <1>6
<1>12. LeftByRun(p, c, asked \o tools)
  BY <1>2, <1>7, <1>8, <1>9, <1>10, <1>11 DEF LeftByRun
<1>13. QED
  BY <1>5, <1>6, <1>12

LEMMA RunEndsInv ==
  ASSUME ChatInv, NEW p \in Posts, NEW outcome \in {"saved", "threw"}, RunEnds(p, outcome)
  PROVE  ChatInv'
<1> DEFINE c == post[p].chat
<1>1. post[p].at = "running" /\ UNCHANGED <<chat, erased>>
  BY DEF RunEnds
<1>2. /\ post' \in [Posts -> PostRecords]
      /\ post'[p].at = outcome /\ post'[p].entries = post[p].entries /\ post'[p].chat = c
      /\ \A q \in Posts \ {p} : post'[q] = post[q]
  BY MovedPost DEF RunEnds
<1>3. /\ c \in Chats /\ chat[c].listed /\ post[p].entries \in Seq(Message)
      /\ AskedOn(p, c, post[p].entries)
  BY <1>1, ChatTypes DEF ChatInv, Placed, Asked
<1> HIDE DEF c
<1>4. /\ stored' \in [Chats -> StoreRecords]
      /\ \A d \in Chats : stored'[d].present = stored[d].present
      /\ \A d \in Chats : \/ stored'[d].entries = stored[d].entries \/ stored'[d].entries = <<>>
                          \/ d = c /\ LeftByRun(p, c, stored'[c].entries)
  <2>1. CASE stored' = stored
    BY <2>1, ChatTypes
  <2>2. ASSUME NEW question \in {Asks(p), AsksInOtherWords(p)}, NEW k \in 0..MaxTools,
               stored' = Save(c, SessionOf(p, question, k))
        PROVE  /\ stored' \in [Chats -> StoreRecords]
               /\ \A d \in Chats : stored'[d].present = stored[d].present
               /\ \A d \in Chats : \/ stored'[d].entries = stored[d].entries \/ stored'[d].entries = <<>>
                                   \/ d = c /\ LeftByRun(p, c, stored'[c].entries)
    <3> DEFINE session == SessionOf(p, question, k)
               new == IF stored[c].present THEN [present |-> TRUE, entries |-> session] ELSE Absent
    <3>1. session \in Seq(Message) /\ LeftByRun(p, c, session)
      <4>1. k \in Nat
        BY PostsAssumption
      <4>2. QED
        BY <1>3, <4>1, SessionIsLeft
    <3> HIDE DEF session
    <3>2. stored' = [stored EXCEPT ![c] = new]
      BY <2>2 DEF Save, session
    <3>3. /\ new \in StoreRecords /\ new.present = stored[c].present
          /\ new.entries = session \/ new.entries = <<>>
      <4>1. [present |-> TRUE, entries |-> session] \in StoreRecords /\ Absent \in StoreRecords
        BY <3>1, Said DEF StoreRecords, Absent
      <4>2. stored[c].present \in BOOLEAN
        <5>1. \A r \in StoreRecords : r.present \in BOOLEAN
          BY DEF StoreRecords
        <5>2. QED
          BY <1>3, <5>1, ChatTypes
      <4>3. CASE stored[c].present = TRUE
        BY <4>1, <4>3
      <4>4. CASE stored[c].present = FALSE
        BY <4>1, <4>4 DEF Absent
      <4>5. QED
        BY <4>2, <4>3, <4>4
    <3> HIDE DEF new
    <3>4. stored'[c] = new /\ \A d \in Chats \ {c} : stored'[d] = stored[d]
      BY <1>3, <3>2, ChatTypes
    <3>5. stored' \in [Chats -> StoreRecords]
      BY <1>3, <3>2, <3>3, ChatTypes
    <3>6. QED
      BY <3>1, <3>3, <3>4, <3>5
  <2>3. \/ stored' = stored
        \/ \E question \in {Asks(p), AsksInOtherWords(p)}, k \in 0..MaxTools :
              stored' = Save(c, SessionOf(p, question, k))
    BY DEF RunEnds, c
  <2>4. QED
    BY <2>1, <2>2, <2>3
<1>5. ChatTypeOK'
  BY <1>1, <1>2, <1>4 DEF ChatInv, ChatTypeOK, PostRecords, StoreRecords
<1>6. Placed'
  BY <1>1, <1>2, <1>3 DEF ChatInv, Placed
<1>7. \A q \in Posts : post'[q].chat = post[q].chat /\ post'[q].entries = post[q].entries
  BY <1>2 DEF c
<1>8. \A q \in Posts : Opening(q)' => q # p /\ Opening(q)
  BY <1>2 DEF Opening
<1>9. Alone'
  BY <1>1, <1>7, <1>8 DEF ChatInv, Alone
<1>10. InStore'
  <2>1. \A q \in Posts : Opening(q)' => post'[q] = post[q] /\ post[q].chat \in Chats
    BY <1>2, <1>8 DEF ChatInv, Placed, Opening
  <2>2. QED
    BY <1>1, <1>4, <2>1 DEF ChatInv, InStore, Opening
<1>11. Nowhere'
  <2>1. \A d \in Chats : Unknown(d)' => Unknown(d)
    BY <1>1, <1>2, <1>7 DEF Unknown
  <2>2. QED
    BY <1>1, <1>4, <2>1 DEF ChatInv, Nowhere
<1>12. Asked'
  <2>1. Longer
    BY <1>1, SameChats
  <2>2. \A q \in Posts : post'[q].at = "running" => post'[q] = post[q]
    BY <1>2
  <2>3. QED
    BY <1>5, <2>1, <2>2, AskedKept DEF Asked
<1>13. CopiesAreHistory'
  <2>1. \A q \in Posts : post[q].at \in Ended => post'[q].at \in Ended
    BY <1>1, <1>2 DEF Ended
  <2>2. ASSUME NEW d \in Chats, stored'[d].entries # <<>>
        PROVE  \E q \in Posts : /\ post'[q].chat = d /\ post'[q].at \in {"saved", "threw", "answered"}
                                /\ LeftByRun(q, d, stored'[d].entries)
    <3>1. CASE stored'[d].entries = stored[d].entries
      <4>1. PICK q \in Posts : /\ post[q].chat = d /\ post[q].at \in {"saved", "threw", "answered"}
                              /\ LeftByRun(q, d, stored[d].entries)
        BY <2>2, <3>1 DEF ChatInv, CopiesAreHistory
      <4>2. QED
        BY <1>7, <2>1, <3>1, <4>1 DEF Ended
    <3>2. CASE d = c /\ LeftByRun(p, c, stored'[c].entries)
      BY <1>2, <3>2
    <3>3. QED
      BY <1>4, <2>2, <3>1, <3>2
  <2>3. chat' = chat
    BY <1>1
  <2>4. SUFFICES ASSUME NEW d \in Chats, stored'[d].entries # <<>>
                 PROVE  \E q \in Posts : /\ post'[q].chat = d /\ post'[q].at \in {"saved", "threw", "answered"}
                                         /\ LeftByRun(q, d, stored[d].entries)'
    BY DEF CopiesAreHistory
  <2>5. PICK q \in Posts : /\ post'[q].chat = d /\ post'[q].at \in {"saved", "threw", "answered"}
                          /\ LeftByRun(q, d, stored'[d].entries)
    BY <2>2, <2>4
  <2>6. LeftByRun(q, d, stored[d].entries)'
    BY <2>3, <2>5 DEF LeftByRun
  <2>7. QED
    BY <2>5, <2>6
<1>14. ErasedStaysErased'
  BY <1>1, <1>4 DEF ChatInv, ErasedStaysErased
<1>15. QED
  BY <1>5, <1>6, <1>9, <1>10, <1>11, <1>12, <1>13, <1>14 DEF ChatInv

LEMMA ReplyInv ==
  ASSUME ChatInv, NEW p \in Posts, Reply(p)
  PROVE  ChatInv'
<1> DEFINE c == post[p].chat
<1>1. /\ post[p].at = "saved" /\ UNCHANGED <<stored, erased>>
      /\ chat' = [chat EXCEPT ![c].messages = Append(@, Answers(p))]
  BY DEF Reply
<1>2. c \in Chats /\ chat[c].listed
  BY <1>1 DEF ChatInv, Placed
<1>3. /\ post' \in [Posts -> PostRecords]
      /\ post'[p].at = "answered" /\ post'[p].entries = <<>> /\ post'[p].chat = post[p].chat
      /\ \A q \in Posts \ {p} : post'[q] = post[q]
  BY AnsweredPost DEF Reply
<1> HIDE DEF c
<1>4. /\ chat' \in [Chats -> ChatRecords]
      /\ \A d \in Chats : chat'[d].listed = chat[d].listed
      /\ \A d \in Chats \ {c} : chat'[d] = chat[d]
      /\ Longer
  BY <1>1, <1>2, ChatGrows, Said
<1>5. ChatTypeOK'
  BY <1>1, <1>3, <1>4 DEF ChatInv, ChatTypeOK, PostRecords, ChatRecords
<1>6. Placed'
  BY <1>3, <1>4 DEF ChatInv, Placed
<1>7. \A q \in Posts : Opening(q)' => q # p /\ Opening(q) /\ post'[q] = post[q] /\ post[q].chat \in Chats
  BY <1>3 DEF ChatInv, Placed, Opening
<1>8. Alone'
  BY <1>3, <1>4, <1>7 DEF ChatInv, Alone
<1>9. InStore'
  BY <1>1, <1>3 DEF ChatInv, InStore
<1>10. Nowhere'
  <2>1. \A d \in Chats : Unknown(d)' => Unknown(d)
    BY <1>1, <1>3 DEF Unknown
  <2>2. QED
    BY <1>1, <1>2, <1>4, <2>1 DEF ChatInv, Nowhere
<1>11. Asked' /\ CopiesAreHistory'
  <2>1. \A q \in Posts : post'[q].at = "running" => post'[q] = post[q]
    BY <1>3
  <2>2. Asked'
    BY <1>4, <1>5, <2>1, AskedKept DEF Asked
  <2>3. \A q \in Posts : post[q].at \in Ended => post'[q].at \in Ended /\ post'[q].chat = post[q].chat
    BY <1>3 DEF Ended
  <2>4. QED
    BY <1>1, <1>4, <1>5, <2>2, <2>3, CopiesKept
<1>12. ErasedStaysErased'
  BY <1>1, <1>4 DEF ChatInv, ErasedStaysErased
<1>13. QED
  BY <1>5, <1>6, <1>8, <1>9, <1>10, <1>11, <1>12 DEF ChatInv

LEMMA EraseInv ==
  ASSUME ChatInv, NEW c \in Chats, Erase(c)
  PROVE  ChatInv'
<1>1. /\ stored[c].present /\ erased' = erased \union {c} /\ UNCHANGED <<post, chat>>
      /\ stored' = [stored EXCEPT ![c] = Absent]
  BY DEF Erase
<1>2. /\ stored' \in [Chats -> StoreRecords]
      /\ ~stored'[c].present /\ stored'[c].entries = <<>>
      /\ \A d \in Chats \ {c} : stored'[d] = stored[d]
  <2>1. Absent \in StoreRecords /\ ~Absent.present /\ Absent.entries = <<>>
    BY Said DEF Absent, StoreRecords
  <2>2. QED
    BY <1>1, <2>1, ChatTypes
<1>3. ChatTypeOK'
  BY <1>1, <1>2 DEF ChatInv, ChatTypeOK, StoreRecords
<1>4. Placed' /\ Alone'
  BY <1>1 DEF ChatInv, Placed, Alone, Opening
<1>5. InStore'
  <2>1. \A q \in Posts : Opening(q) => post[q].chat \in Chats
    BY DEF ChatInv, Placed, Opening
  <2>2. QED
    BY <1>1, <1>2, <2>1 DEF ChatInv, InStore, Opening
<1>6. Nowhere'
  <2>1. \A d \in Chats : Unknown(d)' => Unknown(d) /\ d # c
    BY <1>1 DEF Unknown, ChatInv, Nowhere
  <2>2. QED
    BY <1>1, <1>2, <2>1 DEF ChatInv, Nowhere
<1>7. Asked' /\ CopiesAreHistory'
  <2>1. Longer
    BY <1>1, SameChats
  <2>2. Asked'
    BY <1>1, <1>3, <2>1, AskedKept DEF Asked
  <2>3. \A d \in Chats : stored'[d].entries = stored[d].entries \/ stored'[d].entries = <<>>
    BY <1>2
  <2>4. QED
    BY <1>1, <1>3, <2>1, <2>2, <2>3, CopiesKept
<1>8. ErasedStaysErased'
  BY <1>1, <1>2 DEF ChatInv, ErasedStaysErased
<1>9. QED
  BY <1>3, <1>4, <1>5, <1>6, <1>7, <1>8 DEF ChatInv

LEMMA ChatStutters ==
  ASSUME ChatInv, UNCHANGED chatVars
  PROVE  ChatInv'
  BY DEF chatVars, ChatInv, ChatTypeOK, Placed, Alone, Opening, InStore, Nowhere, Unknown,
         Asked, AskedOn, CopiesAreHistory, LeftByRun, ErasedStaysErased

LEMMA ChatStepInv ==
  ASSUME ChatInv, ChatNext
  PROVE  ChatInv'
<1>1. ASSUME NEW p \in Posts, Arrive(p) PROVE ChatInv'
  BY <1>1, OpenChatInv, PostMessageInv, AnsweredAlone DEF Arrive, Refuse
<1>2. ASSUME NEW p \in Posts, Proceed(p) PROVE ChatInv'
  BY <1>2, StoreCreatesInv, AnsweredAlone, ListInv, RunEndsInv, ReplyInv DEF Proceed, StoreRefuses, ReplyError
<1>3. QED
  BY <1>1, <1>2, EraseInv DEF ChatNext

LEMMA ChatNextInv == ChatInv /\ [Next]_vars => ChatInv'
<1> SUFFICES ASSUME ChatInv, [Next]_vars PROVE ChatInv'
  OBVIOUS
<1>1. UNCHANGED chatVars \/ ChatNext
  BY DEF Next, ServerCloses, RequestArrives, HostErases, RequestProceeds, ChatNext, vars
<1>2. QED
  BY <1>1, ChatStutters, ChatStepInv

LEMMA ChatAlways == Spec => []ChatInv
<1>1. Init => ChatInv
  BY ChatInitInv DEF Init
<1>2. QED
  BY <1>1, ChatNextInv, PTL DEF Spec

-----------------------------------------------------------------------------
(* Requests, chats and what the store holds keep their types, whatever the *)
(* number of users, chats and requests (chats.ts:21-35).                   *)
THEOREM ChatTypeCorrect == Spec => []ChatTypeOK
<1>1. ChatInv => ChatTypeOK
  BY DEF ChatInv
<1>2. QED
  BY <1>1, ChatAlways, PTL

(* However many requests run beside each other on one chat and however     *)
(* many entries their tools add, the store holds the session of one run    *)
(* that ended: the chat's conversation up to that run's question, perhaps  *)
(* rewritten, and its own tools' entries (chats.ts:98-128, 136-142,        *)
(* chatOrchestrator.ts:281, 439-448).                                      *)
THEOREM CopiesAreHistoryAlways == Spec => []CopiesAreHistory
<1>1. ChatInv => CopiesAreHistory
  BY DEF ChatInv
<1>2. QED
  BY <1>1, ChatAlways, PTL

(* However late a run of an erased chat ends, its save does not store the  *)
(* chat again (chats.ts:75-83, 110-128).                                   *)
THEOREM ErasedStaysErasedAlways == Spec => []ErasedStaysErased
<1>1. ChatInv => ErasedStaysErased
  BY DEF ChatInv
<1>2. QED
  BY <1>1, ChatAlways, PTL

-----------------------------------------------------------------------------
CachedObjects == [id : Sessions, obj : Calls, at : 0..MaxTime]

CallRecords == [op : {"none", "create", "get", "save", "erase", "wipe"}, ids : SUBSET Sessions,
                of : Calls \union {None}, data : Content,
                at : {"new", "asked", "done", "rejected"}, landed : BOOLEAN]

(* What a call's parts are, by what it asks and how far it is.             *)
CallFormed(c) ==
    /\ call[c].at = "new" <=> call[c].op = "none"
    /\ call[c].at = "new" => ~call[c].landed /\ call[c].ids = {}
    /\ call[c].op # "wipe" => call[c].ids \subseteq minted
    /\ call[c].op \in {"create", "get", "save"} => \E id \in Sessions : call[c].ids = {id}
    /\ call[c].op = "create" => call[c].data = {}
    /\ call[c].op \in {"save", "erase", "wipe"} => call[c].data # None
    /\ object[c] # None => call[c].op \in {"create", "get"} /\ call[c].at = "done"

(* A turn's save holds nothing its object does not.                        *)
SaveFormed(c) ==
    call[c].op = "save" /\ call[c].of # None =>
        /\ object[call[c].of] # None
        /\ call[call[c].of].ids = call[c].ids
        /\ call[c].data \subseteq object[call[c].of]

CallsFormed ==
    /\ \A c \in Calls : CallFormed(c) /\ SaveFormed(c)
    /\ \A id \in Sessions : docs[id] # None => id \in minted

Ordered(held) ==
    \A i, j \in DOMAIN held : i < j => held[i].id # held[j].id /\ held[i].at <= held[j].at

CacheFormed ==
    /\ \A i \in DOMAIN cache :
           /\ object[cache[i].obj] # None /\ call[cache[i].obj].ids = {cache[i].id}
           /\ cache[i].at <= clock
    /\ Ordered(cache)

Erased(c, id) ==
    call[c].op \in {"erase", "wipe"} /\ id \in call[c].ids /\ call[c].landed /\ ~Spared(c, id)

(* An erasure knows the creates that may outlive it, and what was erased   *)
(* stays away from the collection; once the erasure is answered, no read   *)
(* that still counts found it.                                             *)
Erasures ==
    \A c \in Calls, id \in Sessions :
        /\ call[c].op = "erase" /\ id \in call[c].ids => Pending("create", id) \subseteq call[c].data
        /\ call[c].op = "wipe" /\ id \in call[c].ids /\ call[c].landed => Creating \subseteq call[c].data
        /\ Erased(c, id) => docs[id] = None
        /\ Erased(c, id) /\ ~Waiting(c) =>
             /\ Cached(id) = {}
             /\ \A g \in inFlight : call[g].ids = {id} /\ call[g].landed => call[g].data = None

BeingOpened(id) == Pending("create", id) \union Pending("get", id)

(* Of a session that was never read twice at once: a session being created *)
(* or read is not cached, and nobody has one that is being created.        *)
Overlaps ==
    \A id \in Sessions \ overlapped :
        /\ \A c, d \in BeingOpened(id) : c = d
        /\ BeingOpened(id) # {} => Cached(id) = {}
        /\ \A c \in Pending("create", id) :
             /\ \A d \in Calls \ {c} : call[d].ids = {id} => call[d].op \in {"erase", "wipe"}
             /\ docs[id] \in {None, {}}

NoneLost(id) ==
    \A c \in Calls : call[c].op = "save" /\ call[c].ids = {id} /\ call[c].landed
                       => call[c].at # "rejected"

(* A save that was carried out and will withdraw the cached object as it   *)
(* is answered.                                                            *)
LateSave(id, o) ==
    \E c \in Calls : /\ call[c].op = "save" /\ call[c].ids = {id} /\ call[c].landed
                     /\ Waiting(c) /\ call[c].of # o

UpToDate(id, content, o) == docs[id] = None \/ docs[id] \subseteq content \/ LateSave(id, o)

Fresh ==
    \A id \in Sessions \ overlapped : NoneLost(id) =>
        /\ \A held \in Cached(id) : UpToDate(id, object[held.obj], held.obj)
        /\ \A g \in inFlight : call[g].ids = {id} /\ call[g].landed /\ call[g].data # None
                                 => UpToDate(id, call[g].data, g)

StoreInv == MongoTypeOK /\ CallsFormed /\ CacheFormed /\ Erasures /\ Overlaps /\ Fresh

-----------------------------------------------------------------------------
(* The cache.                                                              *)
LEMMA CacheLeft ==
  ASSUME cache \in Seq(CachedObjects), NEW kept \in SUBSET (DOMAIN cache), NEW rest \in Only(kept)
  PROVE  /\ rest \in Seq(CachedObjects)
         /\ \A i \in DOMAIN rest : \E k \in kept : rest[i] = cache[k]
         /\ Ordered(cache) => Ordered(rest)
<1> DEFINE n == Cardinality(kept)
<1>1. n \in Nat
  <2>1. DOMAIN cache = 1..Len(cache) /\ Len(cache) \in Nat
    OBVIOUS
  <2>2. IsFiniteSet(kept)
    <3>1. IsFiniteSet(1..Len(cache)) /\ kept \in SUBSET (1..Len(cache))
      BY <2>1, FS_Interval
    <3>2. QED
      BY <3>1, FS_Subset
  <2>3. QED
    BY <2>2, FS_CardinalityType
<1>2. PICK f \in [1..n -> kept] :
        /\ \A i, j \in DOMAIN f : i < j => f[i] < f[j]
        /\ rest = [i \in DOMAIN f |-> cache[f[i]]]
  BY DEF Only
<1> HIDE DEF n
<1>3. /\ DOMAIN rest = 1..n
      /\ \A i \in 1..n : f[i] \in kept /\ rest[i] = cache[f[i]] /\ cache[f[i]] \in CachedObjects
  BY <1>2
<1>4. rest \in Seq(CachedObjects)
  <2>1. rest = [i \in 1..n |-> cache[f[i]]]
    BY <1>2
  <2>2. QED
    BY <1>1, <1>3, <2>1, IsASeq
<1>5. ASSUME Ordered(cache) PROVE Ordered(rest)
  <2> SUFFICES ASSUME NEW i \in 1..n, NEW j \in 1..n, i < j
               PROVE  rest[i].id # rest[j].id /\ rest[i].at <= rest[j].at
    BY <1>3 DEF Ordered
  <2>1. f[i] < f[j] /\ f[i] \in DOMAIN cache /\ f[j] \in DOMAIN cache
    BY <1>2
  <2>2. QED
    BY <1>3, <1>5, <2>1 DEF Ordered
<1>6. QED
  BY <1>3, <1>4, <1>5

LEMMA CacheWithout ==
  ASSUME cache \in Seq(CachedObjects), NEW ids, cache' \in Without(ids)
  PROVE  /\ cache' \in Seq(CachedObjects)
         /\ Ordered(cache) => Ordered(cache')
         /\ \A i \in DOMAIN cache' : \E k \in DOMAIN cache : cache'[i] = cache[k]
         /\ \A id : Cached(id)' \subseteq Cached(id)
         /\ \A id \in ids : Cached(id)' = {}
<1> DEFINE kept == {i \in DOMAIN cache : cache[i].id \notin ids}
<1>1. cache' \in Only(kept) /\ kept \in SUBSET (DOMAIN cache)
  BY DEF Without
<1>2. /\ cache' \in Seq(CachedObjects)
      /\ Ordered(cache) => Ordered(cache')
      /\ \A i \in DOMAIN cache' : \E k \in kept : cache'[i] = cache[k]
  <2> HIDE DEF kept
  <2>1. QED
    BY <1>1, CacheLeft
<1>3. QED
  BY <1>2 DEF Cached

LEMMA CacheRemembers ==
  ASSUME cache \in Seq(CachedObjects), clock \in 0..MaxTime,
         \A i \in DOMAIN cache : cache[i].at <= clock,
         NEW id \in Sessions, NEW obj \in Calls, cache' \in Remember(id, obj)
  PROVE  /\ cache' \in Seq(CachedObjects)
         /\ Ordered(cache) => Ordered(cache')
         /\ \A i \in DOMAIN cache' : \/ cache'[i] = [id |-> id, obj |-> obj, at |-> clock]
                                     \/ \E k \in DOMAIN cache : cache'[i] = cache[k]
         /\ \A q : q # id => Cached(q)' \subseteq Cached(q)
         /\ Cached(id)' = {[id |-> id, obj |-> obj, at |-> clock]}
<1> DEFINE kept == {i \in DOMAIN cache \ Swept : cache[i].id # id}
           new == [id |-> id, obj |-> obj, at |-> clock]
<1>1. PICK rest \in Only(kept) : cache' = Append(rest, new)
  BY DEF Remember
<1>2. /\ rest \in Seq(CachedObjects)
      /\ Ordered(cache) => Ordered(rest)
      /\ \A i \in DOMAIN rest : \E k \in kept : rest[i] = cache[k]
  <2>1. kept \in SUBSET (DOMAIN cache)
    OBVIOUS
  <2> HIDE DEF kept
  <2>2. QED
    BY <1>1, <2>1, CacheLeft
<1>3. new \in CachedObjects /\ new.id = id /\ new.at = clock
  BY DEF CachedObjects
<1> HIDE DEF new
<1>4. /\ cache' \in Seq(CachedObjects)
      /\ Len(rest) \in Nat /\ DOMAIN rest = 1..Len(rest) /\ DOMAIN cache' = 1..(Len(rest) + 1)
      /\ cache'[Len(rest) + 1] = new
      /\ \A i \in 1..Len(rest) : cache'[i] = rest[i]
  BY <1>1, <1>2, <1>3, AppendProperties
<1>5. \A i \in 1..Len(rest) : cache'[i].id # id /\ cache'[i].at <= clock
                              /\ \E k \in DOMAIN cache : cache'[i] = cache[k]
  BY <1>2, <1>4
<1>6. \A i \in DOMAIN cache' : i \in 1..Len(rest) \/ i = Len(rest) + 1
  BY <1>4
<1>7. ASSUME Ordered(cache) PROVE Ordered(cache')
  <2> SUFFICES ASSUME NEW i \in DOMAIN cache', NEW j \in DOMAIN cache', i < j
               PROVE  cache'[i].id # cache'[j].id /\ cache'[i].at <= cache'[j].at
    BY DEF Ordered
  <2>1. i \in 1..Len(rest)
    BY <1>4
  <2>2. CASE j \in 1..Len(rest)
    BY <1>2, <1>4, <1>7, <2>1, <2>2 DEF Ordered
  <2>3. CASE j = Len(rest) + 1
    BY <1>3, <1>4, <1>5, <2>1, <2>3
  <2>4. QED
    BY <1>6, <2>2, <2>3
<1>8. \A q : q # id => Cached(q)' \subseteq Cached(q)
  BY <1>3, <1>4, <1>5, <1>6 DEF Cached
<1>9. Cached(id)' = {new}
  BY <1>3, <1>4, <1>5, <1>6 DEF Cached
<1>10. QED
  BY <1>4, <1>5, <1>6, <1>7, <1>8, <1>9 DEF new

-----------------------------------------------------------------------------
(* What a step leaves as it was.                                           *)
OnlyCall(c) == c \in Calls /\ DOMAIN call' = Calls /\ \A d \in Calls \ {c} : call'[d] = call[d]

CallAsks(c, op, ids, of, data) ==
    /\ OnlyCall(c)
    /\ call[c].at = "new"
    /\ call'[c] = [op |-> op, ids |-> ids, of |-> of, data |-> data, at |-> "asked", landed |-> FALSE]
    /\ clock' = clock /\ docs' = docs

LEMMA CallAsking ==
  ASSUME MongoTypeOK, NEW c \in Calls, NEW op, NEW ids, NEW of, NEW data, Ask(c, op, ids, of, data)
  PROVE  CallAsks(c, op, ids, of, data)
<1>1. call \in [Calls -> CallRecords]
  BY DEF MongoTypeOK, CallRecords
<1>2. QED
  BY <1>1 DEF Ask, CallAsks, OnlyCall

CallAnswered(c, how) ==
    /\ OnlyCall(c)
    /\ call'[c].op = call[c].op /\ call'[c].ids = call[c].ids /\ call'[c].of = call[c].of
    /\ call'[c].data = call[c].data /\ call'[c].landed = call[c].landed
    /\ call'[c].at = how
    /\ call[c].at = "asked"
    /\ UNCHANGED <<clock, docs, minted, overlapped>>

LEMMA CallAnswering ==
  ASSUME MongoTypeOK, NEW c \in Calls, NEW how \in {"done", "rejected"}, Waiting(c), Over(c, how)
  PROVE  CallAnswered(c, how) /\ call' \in [Calls -> CallRecords]
<1>1. call \in [Calls -> CallRecords]
  BY DEF MongoTypeOK, CallRecords
<1>2. call' \in [Calls -> CallRecords]
  BY <1>1 DEF Over, CallRecords
<1>3. QED
  BY <1>1, <1>2 DEF Over, CallAnswered, OnlyCall, Waiting, CallRecords

CallLanded(c) ==
    /\ OnlyCall(c)
    /\ call'[c].op = call[c].op /\ call'[c].ids = call[c].ids /\ call'[c].of = call[c].of
    /\ call[c].op \notin {"get", "wipe"} => call'[c].data = call[c].data
    /\ call[c].op = "wipe" => call'[c].data = Creating
    /\ call[c].op = "get" => \A id : call[c].ids = {id} => call'[c].data = docs[id]
    /\ call'[c].landed /\ ~call[c].landed
    /\ call'[c].at = "asked" /\ call[c].at = "asked"
    /\ docs' = CarriedOut(c)
    /\ UNCHANGED <<clock, cache, inFlight, object, minted, overlapped>>

LEMMA CallLanding ==
  ASSUME MongoTypeOK, CallsFormed, NEW c \in Calls, Land(c)
  PROVE  CallLanded(c) /\ call' \in [Calls -> CallRecords]
<1>1. call \in [Calls -> CallRecords] /\ docs \in [Sessions -> Content]
  BY DEF MongoTypeOK, CallRecords
<1>2. \A id : call[c].ids = {id} => (CHOOSE i \in call[c].ids : TRUE) = id
  OBVIOUS
<1>3. TakenAlong(c) \in Content
  <2>1. call[c].op = "get" => \E id \in Sessions : call[c].ids = {id}
    BY DEF CallsFormed, CallFormed
  <2>2. call[c].data \in Content
    BY <1>1 DEF CallRecords
  <2>3. Creating \in Content
    BY DEF Creating, Content
  <2>4. call[c].op # "none"
    BY DEF Land, Waiting, CallsFormed, CallFormed
  <2>5. QED
    BY <1>1, <1>2, <2>1, <2>2, <2>3, <2>4 DEF TakenAlong, CallRecords
<1>4. /\ call[c].op \notin {"get", "wipe"} => TakenAlong(c) = call[c].data
      /\ call[c].op = "wipe" => TakenAlong(c) = Creating
      /\ call[c].op = "get" => \A id : call[c].ids = {id} => TakenAlong(c) = docs[id]
  <2>1. call[c].op \in {"create", "get", "save", "erase", "wipe"}
    BY <1>1 DEF CallRecords, Land, Waiting, CallsFormed, CallFormed
  <2>2. QED
    BY <1>2, <2>1 DEF TakenAlong
<1>5. /\ call' = [call EXCEPT ![c].landed = TRUE, ![c].data = TakenAlong(c)]
      /\ ~call[c].landed /\ call[c].at = "asked" /\ docs' = CarriedOut(c)
      /\ UNCHANGED <<clock, cache, inFlight, object, minted, overlapped>>
  BY DEF Land, Waiting
<1>6. call' \in [Calls -> CallRecords]
  <2>1. ASSUME NEW d \in Content
        PROVE  [call EXCEPT ![c].landed = TRUE, ![c].data = d] \in [Calls -> CallRecords]
    <3> DEFINE once == [call EXCEPT ![c].landed = TRUE]
    <3>1. once \in [Calls -> CallRecords]
      BY <1>1 DEF CallRecords
    <3>2. [once EXCEPT ![c].data = d] \in [Calls -> CallRecords]
      <4> HIDE DEF once
      <4>1. QED
        BY <3>1 DEF CallRecords
    <3>3. QED
      BY <3>2
  <2>2. QED
    BY <1>3, <1>5, <2>1
<1>7. /\ OnlyCall(c)
      /\ call'[c].op = call[c].op /\ call'[c].ids = call[c].ids /\ call'[c].of = call[c].of
      /\ call'[c].data = TakenAlong(c) /\ call'[c].landed /\ call'[c].at = call[c].at
  BY <1>1, <1>5, <1>6 DEF OnlyCall, CallRecords
<1>8. QED
  BY <1>4, <1>5, <1>6, <1>7 DEF CallLanded

LEMMA CarryingOut ==
  ASSUME MongoTypeOK, CallsFormed, NEW c \in Calls, call[c].at = "asked", docs' = CarriedOut(c)
  PROVE  /\ docs' \in [Sessions -> Content]
         /\ \A id \in Sessions :
              /\ id \notin call[c].ids \/ call[c].op = "get" => docs'[id] = docs[id]
              /\ id \in call[c].ids /\ call[c].op \in {"erase", "wipe"} => docs'[id] = None
              /\ id \in call[c].ids /\ call[c].op = "create" => docs'[id] = {}
              /\ id \in call[c].ids /\ call[c].op = "save" =>
                   docs'[id] = IF docs[id] # None THEN call[c].data ELSE None
<1>1. call \in [Calls -> CallRecords] /\ docs \in [Sessions -> Content]
  BY DEF MongoTypeOK, CallRecords
<1>2. call[c].op \in {"create", "get", "save", "erase", "wipe"} /\ call[c].data \in Content
      /\ (call[c].op = "create" => call[c].data = {})
  BY <1>1 DEF CallRecords, CallsFormed, CallFormed
<1>3. None \in Content
  BY DEF Content
<1>4. CASE call[c].op = "get"
  BY <1>1, <1>4 DEF CarriedOut
<1>5. CASE call[c].op \in {"erase", "wipe"}
  BY <1>1, <1>3, <1>5 DEF CarriedOut
<1>6. CASE call[c].op = "create"
  BY <1>1, <1>2, <1>6 DEF CarriedOut
<1>7. CASE call[c].op = "save"
  BY <1>1, <1>2, <1>7 DEF CarriedOut
<1>8. QED
  BY <1>2, <1>4, <1>5, <1>6, <1>7

(* Whatever a step is, a call that was made goes on as it was asked.       *)
Continues(d) ==
    call[d].at # "new" =>
        /\ call'[d].op = call[d].op /\ call'[d].ids = call[d].ids /\ call'[d].of = call[d].of
        /\ call[d].op \notin {"get", "wipe"} \/ call[d].landed => call'[d].data = call[d].data
        /\ call[d].landed => call'[d].landed
        /\ call[d].at # "asked" => call'[d] = call[d]
        /\ call'[d].at # "new"

ObjectsGrow ==
    \A o \in Calls : object[o] # None => object'[o] # None /\ object[o] \subseteq object'[o]

GoesOn ==
    /\ \A d \in Calls : Continues(d)
    /\ Creating' \subseteq Creating
    /\ minted \subseteq minted' /\ overlapped \subseteq overlapped'
    /\ \A id \in minted : Pending("create", id)' \subseteq Pending("create", id)

LEMMA AskedGoesOn ==
  ASSUME MongoTypeOK, NEW c, NEW op, NEW ids, NEW of, NEW data, CallAsks(c, op, ids, of, data),
         op = "create" => ids \intersect minted = {},
         minted \subseteq minted', overlapped \subseteq overlapped'
  PROVE  GoesOn
<1>1. \A d \in Calls : Continues(d)
  BY DEF CallAsks, OnlyCall, Continues
<1>2. ASSUME NEW id \in minted PROVE Pending("create", id)' \subseteq Pending("create", id)
  BY <1>2 DEF CallAsks, OnlyCall, Pending, Waiting
<1>3. Creating' \subseteq Creating
  BY DEF CallAsks, OnlyCall, Creating, Waiting
<1>4. QED
  BY <1>1, <1>2, <1>3 DEF GoesOn

LEMMA AnsweredGoesOn ==
  ASSUME NEW c, NEW how \in {"done", "rejected"}, CallAnswered(c, how)
  PROVE  GoesOn
<1>1. \A d \in Calls : Continues(d)
  BY DEF CallAnswered, OnlyCall, Continues
<1>2. ASSUME NEW id \in minted PROVE Pending("create", id)' \subseteq Pending("create", id)
  BY <1>2 DEF CallAnswered, OnlyCall, Pending, Waiting
<1>3. Creating' \subseteq Creating
  BY DEF CallAnswered, OnlyCall, Creating, Waiting
<1>4. QED
  BY <1>1, <1>2, <1>3 DEF GoesOn, CallAnswered

LEMMA LandedGoesOn ==
  ASSUME NEW c, CallLanded(c)
  PROVE  GoesOn
<1>1. \A d \in Calls : Continues(d)
  BY DEF CallLanded, OnlyCall, Continues
<1>2. ASSUME NEW id \in minted PROVE Pending("create", id)' \subseteq Pending("create", id)
  BY <1>2 DEF CallLanded, OnlyCall, Pending, Waiting
<1>3. Creating' \subseteq Creating
  BY DEF CallLanded, OnlyCall, Creating, Waiting
<1>4. QED
  BY <1>1, <1>2, <1>3 DEF GoesOn, CallLanded

-----------------------------------------------------------------------------
(* Calls keep their form.                                                  *)
LEMMA AskedFormed ==
  ASSUME MongoTypeOK, CallsFormed, NEW c, NEW op \in {"create", "get", "save", "erase", "wipe"},
         NEW ids, NEW of, NEW data, CallAsks(c, op, ids, of, data),
         minted \subseteq minted', op # "wipe" => ids \subseteq minted', ObjectsGrow,
         \A o \in Calls : object[o] = None => object'[o] = None,
         op \in {"create", "get", "save"} => \E id \in Sessions : ids = {id},
         op = "create" => data = {},
         op \in {"save", "erase", "wipe"} => data # None,
         op = "save" /\ of # None => /\ of \in Calls \ {c} /\ object'[of] # None
                                     /\ call[of].ids = ids /\ data \subseteq object'[of]
  PROVE  CallsFormed'
<1>1. call \in [Calls -> CallRecords]
  BY DEF MongoTypeOK, CallRecords
<1>2. call[c].op = "none" /\ object[c] = None
  BY <1>1 DEF CallAsks, OnlyCall, CallsFormed, CallFormed
<1>3. CallFormed(c)'
  <2>1. /\ call'[c].op = op /\ call'[c].ids = ids /\ call'[c].data = data
        /\ call'[c].at = "asked" /\ call'[c].landed = FALSE /\ object'[c] = None
    BY <1>2 DEF CallAsks, OnlyCall
  <2>2. QED
    BY <2>1 DEF CallFormed
<1>4. SaveFormed(c)'
  BY DEF CallAsks, OnlyCall, SaveFormed
<1>5. ASSUME NEW d \in Calls \ {c} PROVE CallFormed(d)'
  <2>1. call'[d] = call[d] /\ CallFormed(d)
    BY DEF CallAsks, OnlyCall, CallsFormed
  <2>2. QED
    BY <2>1 DEF CallFormed
<1>6. ASSUME NEW d \in Calls \ {c} PROVE SaveFormed(d)'
  <2>1. call'[d] = call[d] /\ SaveFormed(d)
    BY DEF CallAsks, OnlyCall, CallsFormed
  <2>2. ASSUME call[d].op = "save", call[d].of # None
        PROVE  /\ call[d].of \in Calls \ {c} /\ call'[call[d].of].ids = call[call[d].of].ids
               /\ object'[call[d].of] # None /\ call[d].data \subseteq object'[call[d].of]
    <3>1. call[d].of \in Calls /\ object[call[d].of] # None /\ call[d].data \subseteq object[call[d].of]
      BY <1>1, <2>1, <2>2 DEF CallRecords, SaveFormed
    <3>2. QED
      BY <1>2, <3>1 DEF CallAsks, OnlyCall, ObjectsGrow
  <2>3. QED
    BY <2>1, <2>2 DEF SaveFormed
<1>7. \A id \in Sessions : docs'[id] # None => id \in minted'
  BY DEF CallAsks, CallsFormed
<1>8. QED
  BY <1>3, <1>4, <1>5, <1>6, <1>7 DEF CallsFormed

(* The parts of a call that its form speaks of.                            *)
LEMMA ContinuedFormed ==
  ASSUME MongoTypeOK, CallsFormed, GoesOn, ObjectsGrow,
         \A d \in Calls : call[d].op = "wipe" => call'[d].data # None,
         \A d \in Calls : /\ call[d].at = "new" => call'[d] = call[d] /\ object'[d] = object[d]
                          /\ object[d] = None /\ object'[d] # None =>
                               call[d].op \in {"create", "get"} /\ call'[d].at = "done",
         \A id \in Sessions : docs'[id] # None => id \in minted
  PROVE  CallsFormed'
<1>1. call \in [Calls -> CallRecords]
  BY DEF MongoTypeOK, CallRecords
<1>2. ASSUME NEW d \in Calls
      PROVE  call'[d].op = call[d].op /\ call'[d].ids = call[d].ids /\ call'[d].of = call[d].of
  BY DEF GoesOn, Continues
<1>3. ASSUME NEW d \in Calls PROVE CallFormed(d)'
  <2>1. CallFormed(d) /\ Continues(d)
    BY DEF CallsFormed, GoesOn
  <2>2. call[d].op \in {"erase", "wipe"} => call'[d].data # None
    BY <2>1 DEF CallFormed, Continues
  <2>3. object'[d] # None => call[d].op \in {"create", "get"} /\ call'[d].at = "done"
    <3>1. CASE object[d] = None
      BY <3>1
    <3>2. CASE object[d] # None
      BY <2>1, <3>2 DEF CallFormed, Continues
    <3>3. QED
      BY <3>1, <3>2
  <2>4. /\ call'[d].at = "new" <=> call'[d].op = "none"
        /\ call'[d].at = "new" => ~call'[d].landed /\ call'[d].ids = {}
        /\ call[d].op \in {"save", "create"} => call'[d].data = call[d].data
    BY <1>2, <2>1 DEF CallFormed, Continues
  <2>5. call[d].op # "wipe" => call'[d].ids \subseteq minted'
    BY <1>2, <2>1 DEF CallFormed, GoesOn
  <2>6. QED
    BY <1>2, <2>1, <2>2, <2>3, <2>4, <2>5 DEF CallFormed
<1>4. ASSUME NEW d \in Calls PROVE SaveFormed(d)'
  <2>1. CallFormed(d) /\ SaveFormed(d) /\ Continues(d)
    BY DEF CallsFormed, GoesOn
  <2>2. ASSUME call[d].op = "save", call[d].of # None
        PROVE  /\ call[d].of \in Calls /\ call'[d].data = call[d].data
               /\ object'[call[d].of] # None /\ call[d].data \subseteq object'[call[d].of]
    <3>1. call[d].of \in Calls /\ call'[d].data = call[d].data
      BY <1>1, <2>1, <2>2 DEF CallRecords, CallFormed, Continues
    <3>2. QED
      BY <2>1, <2>2, <3>1 DEF SaveFormed, ObjectsGrow
  <2>3. QED
    BY <1>2, <2>1, <2>2 DEF SaveFormed
<1>5. QED
  BY <1>3, <1>4 DEF CallsFormed, GoesOn

-----------------------------------------------------------------------------
(* Every step, one by one: types and forms are kept, and the calls go on.  *)
Kept == MongoTypeOK' /\ CallsFormed' /\ GoesOn /\ ObjectsGrow

LEMMA TypesAre ==
  MongoTypeOK <=>
    /\ clock \in 0..MaxTime
    /\ docs \in [Sessions -> Content]
    /\ cache \in Seq(CachedObjects)
    /\ inFlight \subseteq {c \in Calls : call[c].op = "get" /\ call[c].at = "asked"}
    /\ object \in [Calls -> Content]
    /\ call \in [Calls -> CallRecords]
    /\ overlapped \subseteq minted /\ minted \subseteq Sessions
  BY DEF MongoTypeOK, CachedObjects, CallRecords, Waiting

LEMMA AskedTypes ==
  ASSUME MongoTypeOK, NEW c \in Calls, NEW op, NEW ids, NEW of, NEW data, Ask(c, op, ids, of, data),
         [op |-> op, ids |-> ids, of |-> of, data |-> data, at |-> "asked", landed |-> FALSE] \in CallRecords,
         cache' \in Seq(CachedObjects), object' \in [Calls -> Content],
         overlapped' \subseteq minted' /\ minted' \subseteq Sessions,
         inFlight' = inFlight \/ (op = "get" /\ inFlight' = inFlight \union {c})
  PROVE  MongoTypeOK'
<1>1. CallAsks(c, op, ids, of, data)
  BY CallAsking
<1>2. call \in [Calls -> CallRecords] /\ clock' \in 0..MaxTime /\ docs' \in [Sessions -> Content]
      /\ inFlight \subseteq {d \in Calls : call[d].op = "get" /\ call[d].at = "asked"}
  BY <1>1, TypesAre DEF CallAsks
<1>3. call' \in [Calls -> CallRecords]
  BY <1>2 DEF Ask
<1>4. inFlight' \subseteq {d \in Calls : call'[d].op = "get" /\ call'[d].at = "asked"}
  BY <1>1, <1>2 DEF CallAsks, OnlyCall
<1>5. QED
  BY <1>2, <1>3, <1>4 DEF MongoTypeOK, CachedObjects, CallRecords, Waiting

LEMMA SameObjects ==
  ASSUME object' = object
  PROVE  ObjectsGrow /\ \A o \in Calls : object[o] = None => object'[o] = None
  BY DEF ObjectsGrow

LEMMA CreateKeeps ==
  ASSUME MongoTypeOK, CallsFormed, NEW c \in Calls, NEW id \in Sessions, Create(c, id)
  PROVE  Kept
<1>1. Ask(c, "create", {id}, None, {}) /\ CallAsks(c, "create", {id}, None, {})
  BY CallAsking DEF Create
<1>2. [op |-> "create", ids |-> {id}, of |-> None, data |-> {}, at |-> "asked", landed |-> FALSE] \in CallRecords
  BY DEF CallRecords, Content
<1>3. /\ minted' = minted \union {id} /\ id \notin minted
      /\ UNCHANGED <<cache, inFlight, object, overlapped>>
  BY DEF Create
<1>4. MongoTypeOK'
  BY <1>1, <1>2, <1>3, AskedTypes, TypesAre
<1>5. ObjectsGrow /\ \A o \in Calls : object[o] = None => object'[o] = None
  BY <1>3, SameObjects
<1>6. CallsFormed'
  BY <1>1, <1>3, <1>5, AskedFormed
<1>7. GoesOn
  BY <1>1, <1>3, AskedGoesOn
<1>8. QED
  BY <1>4, <1>5, <1>6, <1>7 DEF Kept

LEMMA GetKeeps ==
  ASSUME MongoTypeOK, CallsFormed, NEW c \in Calls, NEW id \in Sessions, Get(c, id)
  PROVE  Kept
<1>1. Ask(c, "get", {id}, None, None) /\ CallAsks(c, "get", {id}, None, None)
  BY CallAsking DEF Get
<1>2. [op |-> "get", ids |-> {id}, of |-> None, data |-> None, at |-> "asked", landed |-> FALSE] \in CallRecords
  BY DEF CallRecords, Content
<1>3. /\ id \in minted /\ cache' \in Without({id}) /\ inFlight' = inFlight \union {c}
      /\ UNCHANGED <<object, minted>> /\ overlapped' \in {overlapped, overlapped \union {id}}
  BY DEF Get, NoteOverlap
<1>4. cache' \in Seq(CachedObjects)
  BY <1>3, CacheWithout, TypesAre
<1>5. MongoTypeOK'
  BY <1>1, <1>2, <1>3, <1>4, AskedTypes, TypesAre
<1>6. ObjectsGrow /\ \A o \in Calls : object[o] = None => object'[o] = None
  BY <1>3, SameObjects
<1>7. CallsFormed'
  BY <1>1, <1>3, <1>6, AskedFormed
<1>8. GoesOn
  BY <1>1, <1>3, AskedGoesOn
<1>9. QED
  BY <1>5, <1>6, <1>7, <1>8 DEF Kept

LEMMA SaveTurnKeeps ==
  ASSUME MongoTypeOK, CallsFormed, NEW c \in Calls, NEW o \in Calls, SaveTurn(c, o)
  PROVE  Kept
<1> DEFINE more == object[o] \union {c}
<1>1. Ask(c, "save", call[o].ids, o, more) /\ CallAsks(c, "save", call[o].ids, o, more)
  BY CallAsking DEF SaveTurn
<1>2. /\ object \in [Calls -> Content] /\ call \in [Calls -> CallRecords] /\ object[o] # None
  BY TypesAre DEF SaveTurn
<1>3. object[o] \in SUBSET Calls /\ more \in SUBSET Calls /\ more # None
  BY <1>2, NoneAssumption DEF Content
<1>4. \E id \in Sessions : call[o].ids = {id}
  BY <1>2 DEF CallsFormed, CallFormed
<1>5. o # c /\ object[c] = None
  BY <1>1, <1>2 DEF CallAsks, CallsFormed, CallFormed
<1>6. [op |-> "save", ids |-> call[o].ids, of |-> o, data |-> more, at |-> "asked", landed |-> FALSE] \in CallRecords
  BY <1>3, <1>4 DEF CallRecords, Content
<1>7. /\ object' = [object EXCEPT ![o] = more]
      /\ UNCHANGED <<cache, inFlight, minted, overlapped>>
  BY <1>2 DEF SaveTurn
<1> HIDE DEF more
<1>8. object' \in [Calls -> Content] /\ object'[o] = more
      /\ \A d \in Calls \ {o} : object'[d] = object[d]
  BY <1>2, <1>3, <1>7 DEF Content
<1>9. MongoTypeOK'
  BY <1>1, <1>6, <1>7, <1>8, AskedTypes, TypesAre
<1>10. object[o] \subseteq more
  BY DEF more
<1>11. ObjectsGrow /\ \A d \in Calls : object[d] = None => object'[d] = None
  BY <1>2, <1>3, <1>8, <1>10 DEF ObjectsGrow
<1>12. call[o].ids \subseteq minted
  BY <1>2 DEF CallsFormed, CallFormed
<1>13. CallsFormed'
  BY <1>1, <1>3, <1>4, <1>5, <1>7, <1>8, <1>11, <1>12, AskedFormed
<1>14. GoesOn
  BY <1>1, <1>7, AskedGoesOn
<1>15. QED
  BY <1>9, <1>11, <1>13, <1>14 DEF Kept

LEMMA SaveOwnCopyKeeps ==
  ASSUME MongoTypeOK, CallsFormed, NEW c \in Calls, NEW id \in Sessions, SaveOwnCopy(c, id)
  PROVE  Kept
<1> DEFINE copy == {c} \union {d \in Calls : call[d].op = "save" /\ call[d].of = None /\ call[d].ids = {id}}
<1>1. Ask(c, "save", {id}, None, copy) /\ CallAsks(c, "save", {id}, None, copy)
  BY CallAsking DEF SaveOwnCopy
<1>2. copy \in SUBSET Calls /\ copy # None
  BY NoneAssumption
<1>3. id \in minted /\ UNCHANGED <<cache, inFlight, object, minted, overlapped>>
  BY DEF SaveOwnCopy, Known
<1> HIDE DEF copy
<1>4. [op |-> "save", ids |-> {id}, of |-> None, data |-> copy, at |-> "asked", landed |-> FALSE] \in CallRecords
  BY <1>2 DEF CallRecords, Content
<1>5. MongoTypeOK'
  BY <1>1, <1>3, <1>4, AskedTypes, TypesAre
<1>6. ObjectsGrow /\ \A o \in Calls : object[o] = None => object'[o] = None
  BY <1>3, SameObjects
<1>7. CallsFormed'
  BY <1>1, <1>2, <1>3, <1>6, AskedFormed
<1>8. GoesOn
  BY <1>1, <1>3, AskedGoesOn
<1>9. QED
  BY <1>5, <1>6, <1>7, <1>8 DEF Kept

LEMMA EraseKeeps ==
  ASSUME MongoTypeOK, CallsFormed, NEW c \in Calls, NEW ids \in SUBSET Sessions, EraseConversations(c, ids)
  PROVE  Kept
<1> DEFINE creating == UNION {Pending("create", id) : id \in ids}
<1>1. Ask(c, "erase", ids, None, creating) /\ CallAsks(c, "erase", ids, None, creating)
  BY CallAsking DEF EraseConversations
<1>2. creating \subseteq Calls \ {c} /\ \A d \in creating : call[d].op = "create"
  BY <1>1 DEF Pending, Waiting, CallAsks
<1>3. ids \subseteq minted /\ UNCHANGED <<cache, inFlight, object, minted, overlapped>>
  BY DEF EraseConversations
<1> HIDE DEF creating
<1>4. creating # None
  BY <1>2, NoneAssumption
<1>5. [op |-> "erase", ids |-> ids, of |-> None, data |-> creating, at |-> "asked", landed |-> FALSE] \in CallRecords
  BY <1>2 DEF CallRecords, Content
<1>6. MongoTypeOK'
  BY <1>1, <1>3, <1>5, AskedTypes, TypesAre
<1>7. ObjectsGrow /\ \A o \in Calls : object[o] = None => object'[o] = None
  BY <1>3, SameObjects
<1>8. CallsFormed'
  BY <1>1, <1>2, <1>3, <1>4, <1>7, AskedFormed
<1>9. GoesOn
  BY <1>1, <1>3, AskedGoesOn
<1>10. QED
  BY <1>6, <1>7, <1>8, <1>9 DEF Kept

LEMMA EraseAllKeeps ==
  ASSUME MongoTypeOK, CallsFormed, NEW c \in Calls, EraseAll(c)
  PROVE  Kept
<1>1. Ask(c, "wipe", Sessions, None, {}) /\ CallAsks(c, "wipe", Sessions, None, {})
  BY CallAsking DEF EraseAll
<1>2. UNCHANGED <<cache, inFlight, object, minted, overlapped>>
  BY DEF EraseAll
<1>3. [op |-> "wipe", ids |-> Sessions, of |-> None, data |-> {}, at |-> "asked", landed |-> FALSE] \in CallRecords
  BY DEF CallRecords, Content
<1>4. MongoTypeOK'
  BY <1>1, <1>2, <1>3, AskedTypes, TypesAre
<1>5. ObjectsGrow /\ \A o \in Calls : object[o] = None => object'[o] = None
  BY <1>2, SameObjects
<1>6. {} # None
  BY NoneAssumption
<1>7. CallsFormed'
  BY <1>1, <1>2, <1>5, <1>6, AskedFormed
<1>8. GoesOn
  BY <1>1, <1>2, AskedGoesOn
<1>9. QED
  BY <1>4, <1>5, <1>7, <1>8 DEF Kept

LEMMA LandKeeps ==
  ASSUME MongoTypeOK, CallsFormed, NEW c \in Calls, Land(c)
  PROVE  Kept
<1>1. CallLanded(c) /\ call' \in [Calls -> CallRecords]
  BY CallLanding
<1>2. GoesOn
  BY <1>1, LandedGoesOn
<1>3. /\ docs' \in [Sessions -> Content]
      /\ \A id \in Sessions :
           /\ id \notin call[c].ids \/ call[c].op = "get" => docs'[id] = docs[id]
           /\ id \in call[c].ids /\ call[c].op \in {"erase", "wipe"} => docs'[id] = None
           /\ id \in call[c].ids /\ call[c].op = "create" => docs'[id] = {}
           /\ id \in call[c].ids /\ call[c].op = "save" =>
                docs'[id] = IF docs[id] # None THEN call[c].data ELSE None
  BY <1>1, CarryingOut DEF CallLanded
<1>4. \A id \in Sessions : docs'[id] # None => id \in minted
  <2>1. /\ call[c].op # "wipe" => call[c].ids \subseteq minted
        /\ \A id \in Sessions : docs[id] # None => id \in minted
    BY DEF CallsFormed, CallFormed
  <2>2. call[c].op \in {"create", "get", "save", "erase", "wipe"}
    BY <1>1, TypesAre DEF CallLanded, CallRecords, CallsFormed, CallFormed
  <2>3. QED
    BY <1>3, <2>1, <2>2
<1>5. /\ object' = object
      /\ ObjectsGrow
      /\ inFlight' \subseteq {d \in Calls : call'[d].op = "get" /\ call'[d].at = "asked"}
      /\ \A d \in Calls : call[d].at = "new" => call'[d] = call[d]
      /\ \A d \in Calls : call[d].op = "wipe" => call'[d].data # None
  <2>1. inFlight \subseteq {d \in Calls : call[d].op = "get" /\ call[d].at = "asked"}
    BY TypesAre
  <2>2. Creating # None
    BY NoneAssumption DEF Creating
  <2>3. \A d \in Calls : call[d].op = "wipe" => call'[d].data # None
    BY <1>1, <2>2 DEF CallLanded, OnlyCall, CallsFormed, CallFormed
  <2>4. QED
    BY <1>1, <2>1, <2>3 DEF CallLanded, OnlyCall, ObjectsGrow
<1>6. MongoTypeOK'
  BY <1>1, <1>3, <1>5, TypesAre DEF CallLanded, MongoTypeOK, CachedObjects, CallRecords, Waiting
<1>7. CallsFormed'
  BY <1>2, <1>4, <1>5, ContinuedFormed
<1>8. QED
  BY <1>2, <1>5, <1>6, <1>7 DEF Kept

LEMMA AnswerKeeps ==
  ASSUME MongoTypeOK, CallsFormed, NEW c \in Calls, NEW how \in {"done", "rejected"},
         Waiting(c), Over(c, how),
         \/ object' = object
         \/ /\ how = "done" /\ call[c].op \in {"create", "get"}
            /\ object' = [object EXCEPT ![c] = call[c].data],
         cache' \in Seq(CachedObjects),
         inFlight' \subseteq inFlight, c \notin inFlight' \/ call[c].op # "get"
  PROVE  Kept /\ CallAnswered(c, how)
<1>1. CallAnswered(c, how) /\ call' \in [Calls -> CallRecords]
  BY CallAnswering
<1>2. GoesOn
  BY <1>1, AnsweredGoesOn
<1>3. /\ object \in [Calls -> Content] /\ call[c].data \in Content
      /\ inFlight \subseteq {d \in Calls : call[d].op = "get" /\ call[d].at = "asked"}
      /\ clock \in 0..MaxTime /\ docs \in [Sessions -> Content]
      /\ overlapped \subseteq minted /\ minted \subseteq Sessions
  BY TypesAre DEF CallRecords
<1>4. object[c] = None
  BY <1>1 DEF CallsFormed, CallFormed, CallAnswered
<1>5. object' \in [Calls -> Content] /\ ObjectsGrow
  BY <1>3, <1>4 DEF ObjectsGrow
<1>6. inFlight' \subseteq {d \in Calls : call'[d].op = "get" /\ call'[d].at = "asked"}
  <2> SUFFICES ASSUME NEW d \in inFlight'
               PROVE  d \in Calls /\ call'[d].op = "get" /\ call'[d].at = "asked"
    OBVIOUS
  <2>1. d \in Calls /\ call[d].op = "get" /\ call[d].at = "asked" /\ d # c
    BY <1>3
  <2>2. QED
    BY <1>1, <2>1 DEF CallAnswered, OnlyCall
<1>7. MongoTypeOK'
  BY <1>1, <1>3, <1>5, <1>6 DEF CallAnswered, MongoTypeOK, CachedObjects, CallRecords, Waiting
<1>8. ASSUME NEW d \in Calls
      PROVE  /\ call[d].at = "new" => call'[d] = call[d] /\ object'[d] = object[d]
             /\ object[d] = None /\ object'[d] # None =>
                  call[d].op \in {"create", "get"} /\ call'[d].at = "done"
             /\ call[d].op = "wipe" => call'[d].data # None
  BY <1>1, <1>3 DEF CallAnswered, OnlyCall, CallsFormed, CallFormed
<1>9. \A id \in Sessions : docs'[id] # None => id \in minted
  BY <1>1 DEF CallAnswered, CallsFormed
<1>10. CallsFormed'
  BY <1>2, <1>5, <1>8, <1>9, ContinuedFormed
<1>11. QED
  BY <1>1, <1>2, <1>5, <1>7, <1>10 DEF Kept

LEMMA CreateAnsweredKeeps ==
  ASSUME MongoTypeOK, CallsFormed, CacheFormed, NEW c \in Calls, NEW id \in Sessions, CreateAnswered(c, id)
  PROVE  Kept /\ CallAnswered(c, "done")
<1>1. /\ Waiting(c) /\ Over(c, "done") /\ call[c].op = "create" /\ inFlight' = inFlight
      /\ object' = [object EXCEPT ![c] = {}] /\ cache' \in Remember(id, c)
  BY DEF CreateAnswered
<1>2. call[c].data = {}
  BY <1>1 DEF CallsFormed, CallFormed
<1>3. cache' \in Seq(CachedObjects)
  BY <1>1, CacheRemembers, TypesAre DEF CacheFormed
<1>4. QED
  BY <1>1, <1>2, <1>3, AnswerKeeps

LEMMA GetAnsweredKeeps ==
  ASSUME MongoTypeOK, CallsFormed, CacheFormed, NEW c \in Calls, NEW id \in Sessions, GetAnswered(c, id)
  PROVE  Kept /\ CallAnswered(c, "done")
<1>1. /\ Waiting(c) /\ Over(c, "done") /\ call[c].op = "get" /\ inFlight' = inFlight \ {c}
      /\ object' = [object EXCEPT ![c] = call[c].data]
      /\ cache' \in Remember(id, c) \/ cache' = cache
  BY DEF GetAnswered
<1>2. cache' \in Seq(CachedObjects)
  BY <1>1, CacheRemembers, TypesAre DEF CacheFormed
<1>3. QED
  BY <1>1, <1>2, AnswerKeeps

LEMMA Forgetting ==
  ASSUME MongoTypeOK, NEW ids, Forget(ids)
  PROVE  /\ cache' \in Seq(CachedObjects)
         /\ Ordered(cache) => Ordered(cache')
         /\ \A i \in DOMAIN cache' : \E k \in DOMAIN cache : cache'[i] = cache[k]
         /\ \A id : Cached(id)' \subseteq Cached(id)
         /\ \A id \in ids : Cached(id)' = {}
         /\ inFlight' \subseteq inFlight
         /\ \A c \in inFlight' : call[c].ids \intersect ids = {}
  BY CacheWithout, TypesAre DEF Forget, Withdraw

LEMMA SaveAnsweredKeeps ==
  ASSUME MongoTypeOK, CallsFormed, NEW c \in Calls, NEW id \in Sessions, SaveAnswered(c, id)
  PROVE  Kept /\ CallAnswered(c, "done")
<1>1. /\ Waiting(c) /\ Over(c, "done") /\ call[c].op = "save" /\ object' = object
      /\ UNCHANGED <<cache, inFlight>> \/ Forget({id})
  BY DEF SaveAnswered
<1>2. cache' \in Seq(CachedObjects) /\ inFlight' \subseteq inFlight
  BY <1>1, Forgetting, TypesAre
<1>3. QED
  BY <1>1, <1>2, AnswerKeeps

LEMMA EraseAnsweredKeeps ==
  ASSUME MongoTypeOK, CallsFormed, NEW c \in Calls, EraseAnswered(c)
  PROVE  Kept /\ CallAnswered(c, "done")
<1>1. /\ Waiting(c) /\ Over(c, "done") /\ call[c].op \in {"erase", "wipe"} /\ object' = object
      /\ Forget(call[c].ids)
  BY DEF EraseAnswered, Erases
<1>2. cache' \in Seq(CachedObjects) /\ inFlight' \subseteq inFlight
  BY <1>1, Forgetting
<1>3. QED
  BY <1>1, <1>2, AnswerKeeps

LEMMA RejectedKeeps ==
  ASSUME MongoTypeOK, CallsFormed, NEW c \in Calls, Rejected(c)
  PROVE  Kept /\ CallAnswered(c, "rejected")
<1>1. /\ Waiting(c) /\ Over(c, "rejected") /\ object' = object
      /\ \/ call[c].op \in {"erase", "wipe"} /\ Forget(call[c].ids)
         \/ inFlight' = inFlight \ {c} /\ cache' = cache
  BY DEF Rejected, Erases
<1>2. cache' \in Seq(CachedObjects) /\ inFlight' \subseteq inFlight
      /\ (c \notin inFlight' \/ call[c].op # "get")
  BY <1>1, Forgetting, TypesAre
<1>3. QED
  BY <1>1, <1>2, AnswerKeeps

LEMMA RestKeeps ==
  ASSUME MongoTypeOK, CallsFormed, Clear \/ ClockTicks \/ UNCHANGED mongoVars
  PROVE  Kept
<1>1. /\ UNCHANGED <<docs, inFlight, object, call, minted, overlapped>>
      /\ cache' = <<>> \/ cache' = cache
      /\ clock' = clock \/ (clock < MaxTime /\ clock' = clock + 1)
  BY DEF Clear, ClockTicks, mongoVars
<1>2. cache' \in Seq(CachedObjects) /\ clock' \in 0..MaxTime
  <2>1. MaxTime \in Nat /\ clock \in 0..MaxTime /\ cache \in Seq(CachedObjects)
    BY TypesAre, BoundsAssumption
  <2>2. clock' \in 0..MaxTime
    BY <1>1, <2>1
  <2>3. cache' \in Seq(CachedObjects)
    <3>1. <<>> \in Seq(CachedObjects)
      OBVIOUS
    <3>2. QED
      BY <1>1, <2>1, <3>1
  <2>4. QED
    BY <2>2, <2>3
<1>3. MongoTypeOK'
  BY <1>1, <1>2, TypesAre DEF MongoTypeOK, CachedObjects, CallRecords, Waiting
<1>4. CallsFormed'
  <2>1. ASSUME NEW d \in Calls PROVE CallFormed(d)' /\ SaveFormed(d)'
    BY <1>1 DEF CallsFormed, CallFormed, SaveFormed
  <2>2. QED
    BY <1>1, <2>1 DEF CallsFormed
<1>5. GoesOn /\ ObjectsGrow
  BY <1>1 DEF GoesOn, Continues, ObjectsGrow, Creating, Pending, Waiting
<1>6. QED
  BY <1>3, <1>4, <1>5 DEF Kept

LEMMA StepKeeps ==
  ASSUME MongoTypeOK, CallsFormed, CacheFormed, [MongoNext]_mongoVars
  PROVE  Kept
<1>1. CASE Clear \/ ClockTicks \/ UNCHANGED mongoVars
  BY <1>1, RestKeeps
<1>2. ASSUME NEW c \in Calls, NEW id \in Sessions,
             Create(c, id) \/ Get(c, id) \/ SaveOwnCopy(c, id) \/ CreateAnswered(c, id)
               \/ GetAnswered(c, id) \/ SaveAnswered(c, id)
      PROVE  Kept
  BY <1>2, CreateKeeps, GetKeeps, SaveOwnCopyKeeps, CreateAnsweredKeeps, GetAnsweredKeeps, SaveAnsweredKeeps
<1>3. ASSUME NEW c \in Calls, NEW o \in Calls, SaveTurn(c, o) PROVE Kept
  BY <1>3, SaveTurnKeeps
<1>4. ASSUME NEW c \in Calls, NEW ids \in SUBSET Sessions, EraseConversations(c, ids) PROVE Kept
  BY <1>4, EraseKeeps
<1>5. ASSUME NEW c \in Calls, EraseAll(c) \/ Land(c) \/ EraseAnswered(c) \/ Rejected(c) PROVE Kept
  BY <1>5, EraseAllKeeps, LandKeeps, EraseAnsweredKeeps, RejectedKeeps
<1>6. QED
  BY <1>1, <1>2, <1>3, <1>4, <1>5 DEF MongoNext

-----------------------------------------------------------------------------
(* What becomes of the cache: entries go, or an object is remembered.      *)
Drops ==
    /\ \A id : Cached(id)' \subseteq Cached(id)
    /\ \A i \in DOMAIN cache' : \E k \in DOMAIN cache : cache'[i] = cache[k]
    /\ Ordered(cache')

Remembers(id, c) ==
    /\ Waiting(c) /\ call[c].ids = {id} /\ call[c].landed
    /\ \/ call[c].op = "create" /\ object'[c] = {}
       \/ call[c].op = "get" /\ c \in inFlight /\ call[c].data # None /\ object'[c] = call[c].data
    /\ \A q : q # id => Cached(q)' \subseteq Cached(q)
    /\ Cached(id)' = {[id |-> id, obj |-> c, at |-> clock]}
    /\ \A i \in DOMAIN cache' : \/ cache'[i] = [id |-> id, obj |-> c, at |-> clock]
                                \/ \E k \in DOMAIN cache : cache'[i] = cache[k]
    /\ Ordered(cache')
    /\ CallAnswered(c, "done")
    /\ \A d \in inFlight' : d \in inFlight

LEMMA CacheSame ==
  ASSUME CacheFormed, cache' = cache PROVE Drops
  BY DEF Drops, CacheFormed, Cached

LEMMA CacheForgotten ==
  ASSUME MongoTypeOK, CacheFormed, NEW ids, cache' \in Without(ids) PROVE Drops
  BY CacheWithout, TypesAre DEF Drops, CacheFormed

LEMMA CreateRemembers ==
  ASSUME MongoTypeOK, CallsFormed, CacheFormed, NEW c \in Calls, NEW id \in Sessions, CreateAnswered(c, id)
  PROVE  Remembers(id, c)
<1>1. /\ Waiting(c) /\ call[c].ids = {id} /\ call[c].landed /\ call[c].op = "create"
      /\ object' = [object EXCEPT ![c] = {}] /\ object \in [Calls -> Content]
      /\ inFlight' = inFlight /\ cache' \in Remember(id, c)
  BY TypesAre DEF CreateAnswered
<1>2. cache \in Seq(CachedObjects) /\ clock \in 0..MaxTime /\ \A i \in DOMAIN cache : cache[i].at <= clock
  BY TypesAre DEF CacheFormed
<1>3. CallAnswered(c, "done")
  BY CreateAnsweredKeeps
<1>4. QED
  BY <1>1, <1>2, <1>3, CacheRemembers DEF Remembers, CacheFormed

LEMMA GetRemembers ==
  ASSUME MongoTypeOK, CallsFormed, CacheFormed, NEW c \in Calls, NEW id \in Sessions, GetAnswered(c, id)
  PROVE  Remembers(id, c) \/ (Drops /\ cache' = cache)
<1>1. /\ Waiting(c) /\ call[c].ids = {id} /\ call[c].landed /\ call[c].op = "get"
      /\ object' = [object EXCEPT ![c] = call[c].data] /\ object \in [Calls -> Content]
      /\ inFlight' = inFlight \ {c}
      /\ IF call[c].data # None /\ c \in inFlight THEN cache' \in Remember(id, c) ELSE cache' = cache
  BY TypesAre DEF GetAnswered
<1>2. cache \in Seq(CachedObjects) /\ clock \in 0..MaxTime /\ \A i \in DOMAIN cache : cache[i].at <= clock
  BY TypesAre DEF CacheFormed
<1>3. CallAnswered(c, "done")
  BY GetAnsweredKeeps
<1>4. QED
  BY <1>1, <1>2, <1>3, CacheRemembers, CacheSame DEF Remembers, CacheFormed

LEMMA CacheSteps ==
  ASSUME MongoTypeOK, CallsFormed, CacheFormed, [MongoNext]_mongoVars
  PROVE  Drops \/ \E c \in Calls, id \in Sessions : Remembers(id, c)
<1>1. CASE cache' = cache
  BY <1>1, CacheSame
<1>2. CASE Clear
  <2>1. cache' = <<>>
    BY <1>2 DEF Clear
  <2>2. QED
    BY <2>1 DEF Drops, Cached, Ordered
<1>3. CASE \E c \in Calls, id \in Sessions : Get(c, id)
  BY <1>3, CacheForgotten DEF Get
<1>4. CASE \E c \in Calls, id \in Sessions : CreateAnswered(c, id) \/ GetAnswered(c, id)
  BY <1>4, CreateRemembers, GetRemembers
<1>5. CASE \E ids : Forget(ids)
  BY <1>5, CacheForgotten DEF Forget
<1>6. \/ cache' = cache \/ Clear
      \/ \E c \in Calls, id \in Sessions : Get(c, id) \/ CreateAnswered(c, id) \/ GetAnswered(c, id)
      \/ \E ids : Forget(ids)
  BY DEF MongoNext, mongoVars, ClockTicks, Create, SaveOwnCopy, SaveTurn, EraseConversations, EraseAll,
         Land, EraseAnswered, Rejected, Erases, SaveAnswered
<1>7. QED
  BY <1>1, <1>2, <1>3, <1>4, <1>5, <1>6

LEMMA CacheKept ==
  ASSUME MongoTypeOK, CallsFormed, CacheFormed, [MongoNext]_mongoVars
  PROVE  CacheFormed'
<1>1. MongoTypeOK' /\ GoesOn /\ ObjectsGrow
  BY StepKeeps DEF Kept
<1>2. clock \in Nat /\ clock' \in Nat /\ clock <= clock'
  <2>1. clock \in 0..MaxTime /\ clock' \in 0..MaxTime /\ MaxTime \in Nat
    BY <1>1, BoundsAssumption DEF MongoTypeOK
  <2>2. clock' = clock \/ clock' = clock + 1
    BY DEF MongoNext, mongoVars, Clear, ClockTicks, Create, Get, SaveOwnCopy, SaveTurn,
           EraseConversations, EraseAll, Land, EraseAnswered, Rejected, SaveAnswered, CreateAnswered,
           GetAnswered, Ask, Over
  <2>3. QED
    BY <2>1, <2>2
<1>3. ASSUME NEW k \in DOMAIN cache
      PROVE  /\ object'[cache[k].obj] # None /\ call'[cache[k].obj].ids = {cache[k].id}
             /\ cache[k].at <= clock'
  <2>1. cache[k] \in CachedObjects /\ cache[k].obj \in Calls /\ cache[k].at \in Nat
    <3>1. cache \in Seq(CachedObjects)
      BY TypesAre
    <3>2. cache[k] \in CachedObjects
      BY <3>1
    <3>3. QED
      BY <3>2, BoundsAssumption DEF CachedObjects
  <2>2. /\ object[cache[k].obj] # None /\ call[cache[k].obj].ids = {cache[k].id}
        /\ cache[k].at <= clock
    BY DEF CacheFormed
  <2>3. call[cache[k].obj].at = "done"
    BY <2>1, <2>2 DEF CallsFormed, CallFormed
  <2>4. QED
    BY <1>1, <1>2, <2>1, <2>2, <2>3 DEF GoesOn, Continues, ObjectsGrow
<1>4. CASE Drops
  BY <1>3, <1>4 DEF Drops, CacheFormed
<1>5. ASSUME NEW c \in Calls, NEW id \in Sessions, Remembers(id, c) PROVE CacheFormed'
  <2>1. /\ \A i \in DOMAIN cache' : \/ cache'[i] = [id |-> id, obj |-> c, at |-> clock]
                                   \/ \E k \in DOMAIN cache : cache'[i] = cache[k]
        /\ Ordered(cache') /\ object'[c] # None /\ call'[c].ids = {id}
    BY <1>5, NoneAssumption DEF Remembers, CallAnswered
  <2>2. clock <= clock'
    BY <1>2
  <2>3. ASSUME NEW i \in DOMAIN cache'
        PROVE  /\ object'[cache'[i].obj] # None /\ call'[cache'[i].obj].ids = {cache'[i].id}
               /\ cache'[i].at <= clock'
    BY <1>3, <2>1, <2>2
  <2>4. QED
    BY <2>1, <2>3 DEF CacheFormed
<1>6. QED
  BY <1>4, <1>5, CacheSteps

-----------------------------------------------------------------------------
(* What a step does to an erasure that was asked for before it.            *)
LEMMA ErasureGoesOn ==
  ASSUME MongoTypeOK, CallsFormed, GoesOn, NEW c \in Calls, NEW id \in Sessions,
         call[c].op \in {"erase", "wipe"}
  PROVE  /\ call[c].at # "new"
         /\ call'[c].op = call[c].op /\ call'[c].ids = call[c].ids
         /\ call[c].op = "erase" \/ call[c].landed =>
              call'[c].data = call[c].data /\ (Spared(c, id) => Spared(c, id)')
         /\ Erased(c, id)' /\ call[c].landed => Erased(c, id)
<1>1. call[c].at # "new"
  BY DEF CallsFormed, CallFormed
<1>2. call'[c].op = call[c].op /\ call'[c].ids = call[c].ids
  BY <1>1 DEF GoesOn, Continues
<1>3. ASSUME call[c].op = "erase" \/ call[c].landed
      PROVE  call'[c].data = call[c].data /\ (Spared(c, id) => Spared(c, id)')
  <2>1. call'[c].data = call[c].data
    BY <1>1, <1>3 DEF GoesOn, Continues
  <2>2. call[c].data \subseteq Calls
    <3>1. call[c].data \in Content /\ call[c].data # None
      BY TypesAre DEF CallRecords, CallsFormed, CallFormed
    <3>2. QED
      BY <3>1 DEF Content
  <2>3. ASSUME NEW d \in call[c].data, call[d].op = "create", call[d].ids = {id} PROVE Spared(c, id)'
    <3>1. d \in Calls /\ call[d].at # "new"
      BY <2>2, <2>3 DEF CallsFormed, CallFormed
    <3>2. call'[d].op = "create" /\ call'[d].ids = {id}
      BY <2>3, <3>1 DEF GoesOn, Continues
    <3>3. QED
      BY <2>1, <3>2 DEF Spared
  <2>4. QED
    BY <2>1, <2>3 DEF Spared
<1>4. Erased(c, id)' /\ call[c].landed => Erased(c, id)
  BY <1>2, <1>3 DEF Erased
<1>5. QED
  BY <1>1, <1>2, <1>3, <1>4

(* No create of a session that was erased still waits, unless it is spared.*)
LEMMA NoneCreates ==
  ASSUME Erasures, NEW c \in Calls, NEW id \in Sessions, Erased(c, id)
  PROVE  Pending("create", id) = {}
<1> SUFFICES ASSUME NEW d \in Pending("create", id) PROVE FALSE
  OBVIOUS
<1>1. d \in Calls /\ call[d].op = "create" /\ call[d].ids = {id} /\ d \in Creating
  BY DEF Pending, Creating
<1>2. d \in call[c].data
  BY <1>1 DEF Erasures, Erased
<1>3. QED
  BY <1>1, <1>2 DEF Erased, Spared

(* Which steps a call is begun, carried out and answered by.               *)
LEMMA CallSteps ==
  ASSUME MongoTypeOK, CallsFormed, [MongoNext]_mongoVars, NEW c \in Calls
  PROVE  /\ call[c].at = "new" /\ call'[c].at # "new" =>
              /\ ~call'[c].landed /\ call'[c].at = "asked"
              /\ call'[c].op = "erase" =>
                   /\ \A id \in call'[c].ids : Pending("create", id) \subseteq call'[c].data
                   /\ \A d \in Calls : call'[d].op = "create" => call'[d] = call[d]
         /\ call'[c].landed => call[c].landed \/ Land(c)
         /\ call[c].at = "asked" /\ call'[c].at # "asked" /\ call[c].op \in {"erase", "wipe"} /\ call[c].landed =>
              Forget(call[c].ids)
<1>1. ASSUME NEW d \in Calls, NEW op, NEW ids, NEW of, NEW data, Ask(d, op, ids, of, data)
      PROVE  /\ c # d => call'[c] = call[c]
             /\ call[c].at = "new" /\ call'[c].at # "new" =>
                  /\ ~call'[c].landed /\ call'[c].at = "asked" /\ c = d /\ call'[c].op = op
                  /\ call'[c].ids = ids /\ call'[c].data = data
             /\ call'[c].landed => call[c].landed
             /\ call[c].at = "asked" => call'[c] = call[c]
             /\ op = "erase" => \A e \in Calls : call'[e].op = "create" => call'[e] = call[e]
  <2>1. CallAsks(d, op, ids, of, data)
    BY <1>1, CallAsking
  <2>2. QED
    BY <2>1 DEF CallAsks, OnlyCall
<1>2. ASSUME NEW d \in Calls, NEW id \in Sessions, Create(d, id) \/ Get(d, id) \/ SaveOwnCopy(d, id)
      PROVE  /\ call[c].at = "new" /\ call'[c].at # "new" =>
                  ~call'[c].landed /\ call'[c].at = "asked" /\ call'[c].op # "erase"
             /\ call'[c].landed => call[c].landed
             /\ call[c].at = "asked" => call'[c] = call[c]
  BY <1>1, <1>2 DEF Create, Get, SaveOwnCopy
<1>3. ASSUME NEW d \in Calls, NEW o \in Calls, SaveTurn(d, o)
      PROVE  /\ call[c].at = "new" /\ call'[c].at # "new" =>
                  ~call'[c].landed /\ call'[c].at = "asked" /\ call'[c].op # "erase"
             /\ call'[c].landed => call[c].landed
             /\ call[c].at = "asked" => call'[c] = call[c]
  BY <1>1, <1>3 DEF SaveTurn
<1>4. ASSUME NEW d \in Calls, NEW ids \in SUBSET Sessions, EraseConversations(d, ids)
      PROVE  /\ call[c].at = "new" /\ call'[c].at # "new" =>
                  /\ ~call'[c].landed /\ call'[c].at = "asked"
                  /\ \A id \in call'[c].ids : Pending("create", id) \subseteq call'[c].data
                  /\ \A e \in Calls : call'[e].op = "create" => call'[e] = call[e]
             /\ call'[c].landed => call[c].landed
             /\ call[c].at = "asked" => call'[c] = call[c]
  <2> DEFINE creating == UNION {Pending("create", id) : id \in ids}
  <2>1. Ask(d, "erase", ids, None, creating)
    BY <1>4 DEF EraseConversations
  <2>2. \A id \in ids : Pending("create", id) \subseteq creating
    OBVIOUS
  <2> HIDE DEF creating
  <2>3. QED
    BY <1>1, <2>1, <2>2
<1>17. ASSUME NEW d \in Calls, EraseAll(d)
      PROVE  /\ call[c].at = "new" /\ call'[c].at # "new" =>
                  ~call'[c].landed /\ call'[c].at = "asked" /\ call'[c].op # "erase"
             /\ call'[c].landed => call[c].landed
             /\ call[c].at = "asked" => call'[c] = call[c]
  BY <1>1, <1>17 DEF EraseAll
<1>5. ASSUME NEW d \in Calls, Land(d)
      PROVE  /\ call[c].at = "new" => call'[c].at = "new"
             /\ call'[c].landed => call[c].landed \/ c = d
             /\ call[c].at = "asked" => call'[c].at = "asked"
  <2>1. CallLanded(d)
    BY <1>5, CallLanding
  <2>2. QED
    BY <2>1 DEF CallLanded, OnlyCall
<1>6. ASSUME NEW d \in Calls, NEW how \in {"done", "rejected"}, CallAnswered(d, how)
      PROVE  /\ call[c].at = "new" => call'[c].at = "new"
             /\ call'[c].landed => call[c].landed
             /\ c # d => call'[c] = call[c]
  BY <1>6 DEF CallAnswered, OnlyCall
<1>7. ASSUME NEW d \in Calls, NEW id \in Sessions, CreateAnswered(d, id) \/ GetAnswered(d, id) \/ SaveAnswered(d, id)
      PROVE  /\ call[c].at = "new" => call'[c].at = "new"
             /\ call'[c].landed => call[c].landed
             /\ call[c].op \in {"erase", "wipe"} => call'[c] = call[c]
  <2>1. call[d].op \notin {"erase", "wipe"} /\ Waiting(d) /\ Over(d, "done")
    BY <1>7 DEF CreateAnswered, GetAnswered, SaveAnswered
  <2>2. CallAnswered(d, "done")
    BY <2>1, CallAnswering
  <2>3. QED
    BY <1>6, <2>1, <2>2
<1>8. ASSUME NEW d \in Calls, EraseAnswered(d) \/ Rejected(d)
      PROVE  /\ call[c].at = "new" => call'[c].at = "new"
             /\ call'[c].landed => call[c].landed
             /\ c # d => call'[c] = call[c]
             /\ call[d].op \in {"erase", "wipe"} /\ call[d].landed => Forget(call[d].ids)
  <2>1. Waiting(d) /\ (Over(d, "done") \/ Over(d, "rejected"))
    BY <1>8 DEF EraseAnswered, Rejected
  <2>2. CallAnswered(d, "done") \/ CallAnswered(d, "rejected")
    BY <2>1, CallAnswering
  <2>3. call[d].op \in {"erase", "wipe"} /\ call[d].landed => Forget(call[d].ids)
    BY <1>8 DEF EraseAnswered, Rejected, Erases
  <2>4. QED
    BY <1>6, <2>2, <2>3
<1>9. CASE Clear \/ ClockTicks \/ UNCHANGED mongoVars
  BY <1>9 DEF Clear, ClockTicks, mongoVars
<1>10. CASE \E d \in Calls, id \in Sessions : Create(d, id) \/ Get(d, id) \/ SaveOwnCopy(d, id)
  BY <1>2, <1>10
<1>11. CASE \E d \in Calls, o \in Calls : SaveTurn(d, o)
  BY <1>3, <1>11
<1>12. CASE \E d \in Calls, ids \in SUBSET Sessions : EraseConversations(d, ids)
  BY <1>4, <1>12
<1>13. CASE \E d \in Calls : Land(d)
  BY <1>5, <1>13
<1>14. CASE \E d \in Calls, id \in Sessions : CreateAnswered(d, id) \/ GetAnswered(d, id) \/ SaveAnswered(d, id)
  BY <1>7, <1>14
<1>15. CASE \E d \in Calls : EraseAnswered(d) \/ Rejected(d)
  BY <1>8, <1>15
<1>16. CASE \E d \in Calls : EraseAll(d)
  BY <1>17, <1>16
<1>18. QED
  BY <1>9, <1>10, <1>11, <1>12, <1>13, <1>14, <1>15, <1>16 DEF MongoNext

(* A read takes along what it finds as it is carried out, and nothing else.*)
LEMMA ReadSteps ==
  ASSUME MongoTypeOK, CallsFormed, [MongoNext]_mongoVars, NEW g \in inFlight'
  PROVE  /\ g \in Calls
         /\ call'[g].landed => g \in inFlight
         /\ call[g].landed => call'[g].data = call[g].data
         /\ ~call[g].landed /\ call'[g].landed =>
              Land(g) /\ \A id : call[g].ids = {id} => call'[g].data = docs[id]
<1> DEFINE Steps ==
        /\ call'[g].landed => g \in inFlight
        /\ call[g].landed => call'[g].data = call[g].data
        /\ ~call[g].landed /\ call'[g].landed =>
              Land(g) /\ \A id : call[g].ids = {id} => call'[g].data = docs[id]
<1>1. inFlight \subseteq Calls /\ call \in [Calls -> CallRecords]
  BY TypesAre
<1>2. ASSUME NEW c \in Calls, NEW op, NEW ids, NEW of, NEW data, Ask(c, op, ids, of, data),
             inFlight' = inFlight \/ inFlight' = inFlight \union {c}
      PROVE  g \in Calls /\ Steps
  <2>1. CallAsks(c, op, ids, of, data) /\ g \in Calls
    BY <1>1, <1>2, CallAsking
  <2>2. ~call[c].landed
    BY <2>1 DEF CallAsks, CallsFormed, CallFormed
  <2>3. CASE g = c
    BY <2>1, <2>2, <2>3 DEF CallAsks
  <2>4. CASE g # c
    BY <1>2, <2>1, <2>4 DEF CallAsks, OnlyCall
  <2>5. QED
    BY <2>1, <2>3, <2>4
<1>3. ASSUME NEW c \in Calls, NEW how \in {"done", "rejected"}, CallAnswered(c, how), inFlight' \subseteq inFlight
      PROVE  g \in Calls /\ Steps
  BY <1>1, <1>3 DEF CallAnswered, OnlyCall
<1>4. CASE Clear \/ ClockTicks \/ UNCHANGED mongoVars
  BY <1>1, <1>4 DEF Clear, ClockTicks, mongoVars
<1>5. ASSUME NEW c \in Calls, NEW id \in Sessions, Create(c, id) \/ Get(c, id) \/ SaveOwnCopy(c, id)
      PROVE  g \in Calls /\ Steps
  BY <1>2, <1>5 DEF Create, Get, SaveOwnCopy
<1>6. ASSUME NEW c \in Calls, NEW o \in Calls, SaveTurn(c, o) PROVE g \in Calls /\ Steps
  BY <1>2, <1>6 DEF SaveTurn
<1>7. ASSUME NEW c \in Calls, EraseAll(c) \/ \E ids \in SUBSET Sessions : EraseConversations(c, ids)
      PROVE  g \in Calls /\ Steps
  BY <1>2, <1>7 DEF EraseConversations, EraseAll
<1>8. ASSUME NEW c \in Calls, Land(c) PROVE g \in Calls /\ Steps
  <2>1. CallLanded(c)
    BY <1>8, CallLanding
  <2>2. g \in inFlight /\ g \in Calls /\ call[g].op = "get"
    BY <2>1, TypesAre DEF CallLanded
  <2>3. CASE g = c
    BY <1>8, <2>1, <2>2, <2>3 DEF CallLanded
  <2>4. CASE g # c
    BY <2>1, <2>2, <2>4 DEF CallLanded, OnlyCall
  <2>5. QED
    BY <2>2, <2>3, <2>4
<1>9. ASSUME NEW c \in Calls, NEW id \in Sessions, CreateAnswered(c, id) \/ GetAnswered(c, id) \/ SaveAnswered(c, id)
      PROVE  g \in Calls /\ Steps
  <2>1. Waiting(c) /\ Over(c, "done") /\ (inFlight' = inFlight \/ inFlight' = inFlight \ {c} \/ Forget({id}))
    BY <1>9 DEF CreateAnswered, GetAnswered, SaveAnswered
  <2>2. CallAnswered(c, "done") /\ inFlight' \subseteq inFlight
    BY <2>1, CallAnswering, Forgetting
  <2>3. QED
    BY <1>3, <2>2
<1>10. ASSUME NEW c \in Calls, EraseAnswered(c) \/ Rejected(c) PROVE g \in Calls /\ Steps
  <2>1. /\ Waiting(c) /\ (Over(c, "done") \/ Over(c, "rejected"))
        /\ inFlight' = inFlight \ {c} \/ Forget(call[c].ids)
    BY <1>10 DEF EraseAnswered, Rejected, Erases
  <2>2. (CallAnswered(c, "done") \/ CallAnswered(c, "rejected")) /\ inFlight' \subseteq inFlight
    BY <2>1, CallAnswering, Forgetting
  <2>3. QED
    BY <1>3, <2>2
<1>11. g \in Calls /\ Steps
  BY <1>4, <1>5, <1>6, <1>7, <1>8, <1>9, <1>10 DEF MongoNext
<1>12. QED
  BY <1>11

(* The collection changes only as a command is carried out; a session that *)
(* is not stored is stored by its create alone.                            *)
LEMMA DocsSteps ==
  ASSUME MongoTypeOK, CallsFormed, [MongoNext]_mongoVars, NEW id \in Sessions
  PROVE  \/ docs' = docs
         \/ \E c \in Calls : Land(c) /\ CallLanded(c)
<1>1. ASSUME NEW c \in Calls, Land(c) PROVE CallLanded(c)
  BY <1>1, CallLanding
<1>2. docs' = docs \/ \E c \in Calls : Land(c)
  BY DEF MongoNext, mongoVars, Clear, ClockTicks, Create, Get, SaveOwnCopy, SaveTurn,
         EraseConversations, EraseAll, EraseAnswered, Rejected, SaveAnswered, CreateAnswered,
         GetAnswered, Ask, Over
<1>3. QED
  BY <1>1, <1>2

LEMMA StaysErased ==
  ASSUME MongoTypeOK, CallsFormed, [MongoNext]_mongoVars, NEW id \in Sessions,
         docs[id] = None, Pending("create", id) = {}
  PROVE  docs'[id] = None
<1>1. ASSUME NEW c \in Calls, CallLanded(c) PROVE docs'[id] = None
  <2>1. /\ id \notin call[c].ids \/ call[c].op = "get" => docs'[id] = docs[id]
        /\ id \in call[c].ids /\ call[c].op \in {"erase", "wipe"} => docs'[id] = None
        /\ id \in call[c].ids /\ call[c].op = "save" => docs'[id] = None
    BY <1>1, CarryingOut DEF CallLanded
  <2>2. ~(id \in call[c].ids /\ call[c].op = "create")
    BY <1>1 DEF CallLanded, CallsFormed, CallFormed, Pending, Waiting
  <2>3. call[c].op \in {"create", "get", "save", "erase", "wipe"}
    BY <1>1, TypesAre DEF CallRecords, CallsFormed, CallFormed, CallLanded
  <2>4. QED
    BY <2>1, <2>2, <2>3
<1>2. QED
  BY <1>1, DocsSteps

LEMMA ErasuresKept ==
  ASSUME MongoTypeOK, CallsFormed, CacheFormed, Erasures, [MongoNext]_mongoVars
  PROVE  Erasures'
<1>1. Kept /\ GoesOn /\ CallsFormed' /\ MongoTypeOK'
  BY StepKeeps DEF Kept
<1> DEFINE Knows(c, id) ==
             /\ call'[c].op = "erase" /\ id \in call'[c].ids => Pending("create", id)' \subseteq call'[c].data
             /\ call'[c].op = "wipe" /\ id \in call'[c].ids /\ call'[c].landed => Creating' \subseteq call'[c].data
           Gone(c, id) == Erased(c, id)' => docs'[id] = None
           Unread(c, id) == Erased(c, id)' /\ ~Waiting(c)' =>
             /\ Cached(id)' = {}
             /\ \A g \in inFlight' : call'[g].ids = {id} /\ call'[g].landed => call'[g].data = None
<1>2. ASSUME NEW c \in Calls, NEW id \in Sessions, call[c].at = "new"
      PROVE  Knows(c, id) /\ Gone(c, id) /\ Unread(c, id)
  <2>1. CASE call'[c].at = "new"
    BY <1>1, <2>1 DEF CallsFormed, CallFormed, Erased
  <2>2. CASE call'[c].at # "new"
    <3>1. ~call'[c].landed
      BY <1>2, <2>2, CallSteps
    <3>2. ASSUME call'[c].op = "erase", id \in call'[c].ids PROVE Pending("create", id)' \subseteq call'[c].data
      <4>1. /\ Pending("create", id) \subseteq call'[c].data
            /\ \A d \in Calls : call'[d].op = "create" => call'[d] = call[d]
        BY <1>2, <2>2, <3>2, CallSteps
      <4>2. QED
        BY <4>1 DEF Pending, Waiting
    <3>3. QED
      BY <3>1, <3>2 DEF Erased
  <2>3. QED
    BY <2>1, <2>2
<1>3. ASSUME NEW c \in Calls, NEW id \in Sessions, call[c].at # "new",
             call'[c].op \in {"erase", "wipe"}, id \in call'[c].ids
      PROVE  Knows(c, id) /\ Gone(c, id) /\ Unread(c, id)
  <2>1. call[c].op = call'[c].op /\ id \in call[c].ids /\ Continues(c)
    BY <1>1, <1>3 DEF GoesOn, Continues
  <2>2. /\ call[c].op = "erase" \/ call[c].landed =>
             call'[c].data = call[c].data /\ (Spared(c, id) => Spared(c, id)')
        /\ Erased(c, id)' /\ call[c].landed => Erased(c, id)
    BY <1>1, <1>3, <2>1, ErasureGoesOn
  <2>3. Knows(c, id)
    <3>1. ASSUME call[c].op = "erase" PROVE Pending("create", id)' \subseteq call'[c].data
      <4>1. id \in minted
        BY <2>1, <3>1 DEF CallsFormed, CallFormed
      <4>2. QED
        BY <1>1, <2>1, <2>2, <3>1, <4>1 DEF Erasures, GoesOn
    <3>2. ASSUME call[c].op = "wipe", call'[c].landed PROVE Creating' \subseteq call'[c].data
      <4>1. CASE call[c].landed
        BY <1>1, <2>1, <2>2, <3>2, <4>1 DEF Erasures, GoesOn
      <4>2. CASE ~call[c].landed
        <5>1. CallLanded(c)
          BY <3>2, <4>2, CallSteps, CallLanding
        <5>2. QED
          BY <1>1, <3>2, <5>1 DEF CallLanded, GoesOn
      <4>3. QED
        BY <4>1, <4>2
    <3>3. QED
      BY <2>1, <3>1, <3>2
  <2>4. Gone(c, id)
    <3> SUFFICES ASSUME Erased(c, id)' PROVE docs'[id] = None
      OBVIOUS
    <3>1. CASE call[c].landed
      <4>1. Erased(c, id) /\ docs[id] = None
        BY <2>2, <3>1 DEF Erasures
      <4>2. Pending("create", id) = {}
        BY <4>1, NoneCreates
      <4>3. QED
        BY <4>1, <4>2, StaysErased
    <3>2. CASE ~call[c].landed
      <4>1. Land(c)
        BY <3>2, CallSteps DEF Erased
      <4>2. CallLanded(c)
        BY <4>1, CallLanding
      <4>3. call[c].op \in {"erase", "wipe"}
        BY <1>3, <2>1
      <4>4. QED
        BY <2>1, <4>2, <4>3, CarryingOut DEF CallLanded
    <3>3. QED
      BY <3>1, <3>2
  <2>5. Unread(c, id)
    <3> SUFFICES ASSUME Erased(c, id)', ~Waiting(c)'
                 PROVE  /\ Cached(id)' = {}
                        /\ \A g \in inFlight' : call'[g].ids = {id} /\ call'[g].landed => call'[g].data = None
      OBVIOUS
    <3>0. call[c].landed
      <4>1. CASE Land(c)
        <5>1. call'[c].at = "asked"
          BY <4>1, CallLanding DEF CallLanded
        <5>2. QED
          BY <5>1 DEF Waiting
      <4>2. QED
        BY <4>1, CallSteps DEF Erased
    <3>1. CASE call[c].at = "asked"
      <4>1. Forget(call[c].ids)
        BY <1>3, <2>1, <3>0, <3>1, CallSteps DEF Waiting
      <4>2. Cached(id)' = {} /\ inFlight' \subseteq inFlight /\ \A g \in inFlight' : call[g].ids \intersect call[c].ids = {}
        BY <2>1, <4>1, Forgetting
      <4>3. ASSUME NEW g \in inFlight' PROVE call'[g].ids # {id}
        <5>1. call[g].ids \intersect call[c].ids = {} /\ g \in Calls /\ call[g].at # "new"
          BY <4>2, TypesAre
        <5>2. call'[g].ids = call[g].ids
          BY <1>1, <5>1 DEF GoesOn, Continues
        <5>3. QED
          BY <2>1, <5>1, <5>2
      <4>4. QED
        BY <4>2, <4>3
    <3>2. CASE call[c].at # "asked"
      <4>1. Erased(c, id) /\ ~Waiting(c)
        BY <2>2, <3>0, <3>2 DEF Waiting
      <4>2. /\ docs[id] = None /\ Cached(id) = {}
            /\ \A g \in inFlight : call[g].ids = {id} /\ call[g].landed => call[g].data = None
        BY <4>1 DEF Erasures
      <4>3. Pending("create", id) = {}
        BY <4>1, NoneCreates
      <4>4. Cached(id)' = {}
        <5>1. CASE Drops
          BY <4>2, <5>1 DEF Drops
        <5>2. ASSUME NEW d \in Calls, NEW q \in Sessions, Remembers(q, d) PROVE Cached(id)' = {}
          <6>1. q # id
            BY <4>2, <4>3, <5>2 DEF Remembers, Pending
          <6>2. QED
            BY <4>2, <5>2, <6>1 DEF Remembers
        <5>3. QED
          BY <5>1, <5>2, CacheSteps
      <4>5. ASSUME NEW g \in inFlight', call'[g].ids = {id}, call'[g].landed PROVE call'[g].data = None
        <5>1. /\ g \in Calls /\ g \in inFlight
              /\ call[g].landed => call'[g].data = call[g].data
              /\ ~call[g].landed => \A q : call[g].ids = {q} => call'[g].data = docs[q]
          BY <4>5, ReadSteps
        <5>2. call[g].at # "new"
          BY <5>1, TypesAre
        <5>3. call[g].ids = {id}
          BY <1>1, <4>5, <5>1, <5>2 DEF GoesOn, Continues
        <5>4. QED
          BY <4>2, <5>1, <5>3
      <4>6. QED
        BY <4>4, <4>5
    <3>3. QED
      BY <3>1, <3>2
  <2>6. QED
    BY <2>3, <2>4, <2>5
<1>4. ASSUME NEW c \in Calls, NEW id \in Sessions, call[c].at # "new",
             ~(call'[c].op \in {"erase", "wipe"} /\ id \in call'[c].ids)
      PROVE  Knows(c, id) /\ Gone(c, id) /\ Unread(c, id)
  BY <1>4 DEF Erased
<1>5. \A c \in Calls, id \in Sessions : Knows(c, id) /\ Gone(c, id) /\ Unread(c, id)
  BY <1>2, <1>3, <1>4
<1>6. QED
  BY <1>5 DEF Erasures

-----------------------------------------------------------------------------
(* Which step asks for a call.                                             *)
LEMMA AskSteps ==
  ASSUME MongoTypeOK, CallsFormed, [MongoNext]_mongoVars, NEW d \in Calls,
         call[d].at = "new", call'[d].at # "new"
  PROVE  \/ \E id \in Sessions : Create(d, id) \/ Get(d, id) \/ SaveOwnCopy(d, id)
         \/ \E o \in Calls : SaveTurn(d, o)
         \/ \E ids \in SUBSET Sessions : EraseConversations(d, ids)
         \/ EraseAll(d)
<1>1. ASSUME NEW c \in Calls, NEW op, NEW ids, NEW of, NEW data, Ask(c, op, ids, of, data)
      PROVE  c = d
  BY <1>1, CallAsking DEF CallAsks, OnlyCall
<1>2. ASSUME NEW c \in Calls, NEW id \in Sessions, Create(c, id) \/ Get(c, id) \/ SaveOwnCopy(c, id)
      PROVE  c = d
  BY <1>1, <1>2 DEF Create, Get, SaveOwnCopy
<1>3. ASSUME NEW c \in Calls, NEW o \in Calls, SaveTurn(c, o) PROVE c = d
  BY <1>1, <1>3 DEF SaveTurn
<1>4. ASSUME NEW c \in Calls, EraseAll(c) \/ \E ids \in SUBSET Sessions : EraseConversations(c, ids)
      PROVE  c = d
  BY <1>1, <1>4 DEF EraseConversations, EraseAll
<1>5. ~(Clear \/ ClockTicks \/ UNCHANGED mongoVars)
  BY DEF Clear, ClockTicks, mongoVars
<1>6. ASSUME NEW c \in Calls, Land(c) PROVE FALSE
  BY <1>6, CallLanding DEF CallLanded, OnlyCall
<1>7. ASSUME NEW c \in Calls, NEW how \in {"done", "rejected"}, Waiting(c), Over(c, how) PROVE FALSE
  BY <1>7, CallAnswering DEF CallAnswered, OnlyCall
<1>8. ASSUME NEW c \in Calls, NEW id \in Sessions, CreateAnswered(c, id) \/ GetAnswered(c, id) \/ SaveAnswered(c, id)
      PROVE  FALSE
  BY <1>7, <1>8 DEF CreateAnswered, GetAnswered, SaveAnswered
<1>9. ASSUME NEW c \in Calls, EraseAnswered(c) \/ Rejected(c) PROVE FALSE
  BY <1>7, <1>9 DEF EraseAnswered, Rejected
<1>10. QED
  BY <1>2, <1>3, <1>4, <1>5, <1>6, <1>8, <1>9 DEF MongoNext

LEMMA OpeningSteps ==
  ASSUME MongoTypeOK, CallsFormed, CacheFormed, [MongoNext]_mongoVars,
         NEW id \in Sessions, NEW c \in BeingOpened(id)'
  PROVE  c \in Calls /\ (c \in BeingOpened(id) \/ Create(c, id) \/ Get(c, id))
<1>1. /\ c \in Calls /\ call'[c].op \in {"create", "get"} /\ call'[c].at = "asked"
      /\ call'[c].ids = {id}
  BY DEF BeingOpened, Pending, Waiting
<1>2. CASE call[c].at = "new"
  <2>1. ASSUME NEW op, NEW ids, NEW of, NEW data, Ask(c, op, ids, of, data)
        PROVE  call'[c].op = op /\ call'[c].ids = ids
    <3>1. CallAsks(c, op, ids, of, data)
      BY <1>1, <2>1, CallAsking
    <3>2. QED
      BY <3>1 DEF CallAsks
  <2>2. ASSUME NEW q \in Sessions, Create(c, q) \/ Get(c, q) \/ SaveOwnCopy(c, q)
        PROVE  Create(c, id) \/ Get(c, id)
    <3>1. CASE Create(c, q)
      <4>1. q = id
        BY <1>1, <2>1, <3>1 DEF Create
      <4>2. QED
        BY <3>1, <4>1
    <3>2. CASE Get(c, q)
      <4>1. q = id
        BY <1>1, <2>1, <3>2 DEF Get
      <4>2. QED
        BY <3>2, <4>1
    <3>3. CASE SaveOwnCopy(c, q)
      BY <1>1, <2>1, <3>3 DEF SaveOwnCopy
    <3>4. QED
      BY <2>2, <3>1, <3>2, <3>3
  <2>3. ASSUME NEW o \in Calls, SaveTurn(c, o) PROVE FALSE
    BY <1>1, <2>1, <2>3 DEF SaveTurn
  <2>4. ASSUME EraseAll(c) \/ \E ids \in SUBSET Sessions : EraseConversations(c, ids) PROVE FALSE
    BY <1>1, <2>1, <2>4 DEF EraseConversations, EraseAll
  <2>5. QED
    BY <1>1, <1>2, <2>2, <2>3, <2>4, AskSteps
<1>3. CASE call[c].at # "new"
  <2>1. Continues(c)
    BY <1>1, StepKeeps DEF Kept, GoesOn
  <2>2. call[c].at = "asked"
    BY <1>1, <1>3, <2>1 DEF Continues
  <2>3. QED
    BY <1>1, <1>3, <2>1, <2>2 DEF Continues, BeingOpened, Pending, Waiting
<1>4. QED
  BY <1>1, <1>2, <1>3

(* A session being created or read that nobody else has.                   *)
OneOpening(id) ==
    /\ \A c, d \in BeingOpened(id) : c = d
    /\ BeingOpened(id) # {} => Cached(id) = {}
    /\ \A c \in Pending("create", id) :
         /\ \A d \in Calls \ {c} : call[d].ids = {id} => call[d].op \in {"erase", "wipe"}
         /\ docs[id] \in {None, {}}

LEMMA CreateOpens ==
  ASSUME MongoTypeOK, CallsFormed, CacheFormed, [MongoNext]_mongoVars,
         NEW c \in Calls, NEW id \in Sessions, Create(c, id)
  PROVE  OneOpening(id)'
<1>1. CallAsks(c, "create", {id}, None, {}) /\ id \notin minted /\ cache' = cache
  BY CallAsking DEF Create
<1>2. \A d \in Calls : call[d].op # "wipe" => call[d].ids # {id}
  BY <1>1 DEF CallsFormed, CallFormed
<1>3. Cached(id) = {}
  <2> SUFFICES ASSUME NEW i \in DOMAIN cache, cache[i].id = id PROVE FALSE
    BY DEF Cached
  <2>1. cache[i].obj \in Calls
    <3>1. cache \in Seq(CachedObjects)
      BY TypesAre
    <3>2. cache[i] \in CachedObjects
      BY <3>1
    <3>3. QED
      BY <3>2 DEF CachedObjects
  <2>2. object[cache[i].obj] # None /\ call[cache[i].obj].ids = {id}
    BY DEF CacheFormed
  <2>3. QED
    BY <1>2, <2>1, <2>2 DEF CallsFormed, CallFormed
<1>4. \A d \in Calls \ {c} : call'[d].ids = {id} => call'[d].op = "wipe"
  BY <1>1, <1>2 DEF CallAsks, OnlyCall
<1>5. docs'[id] = None
  BY <1>1 DEF CallAsks, CallsFormed
<1>6. Cached(id)' = {}
  BY <1>1, <1>3 DEF Cached
<1>7. BeingOpened(id)' \subseteq {c}
  BY <1>4 DEF BeingOpened, Pending
<1>8. QED
  BY <1>4, <1>5, <1>6, <1>7 DEF OneOpening, BeingOpened

LEMMA GetOpens ==
  ASSUME MongoTypeOK, CallsFormed, CacheFormed, [MongoNext]_mongoVars,
         NEW c \in Calls, NEW id \in Sessions, Get(c, id), id \notin overlapped'
  PROVE  OneOpening(id)'
<1>1. CallAsks(c, "get", {id}, None, None) /\ cache' \in Without({id})
  BY CallAsking DEF Get
<1>2. BeingOpened(id) = {}
  BY DEF Get, NoteOverlap, BeingOpened
<1>3. BeingOpened(id)' \subseteq {c} /\ Pending("create", id)' = {}
  BY <1>1, <1>2 DEF CallAsks, OnlyCall, BeingOpened, Pending, Waiting
<1>4. Cached(id)' = {}
  BY <1>1, CacheWithout, TypesAre
<1>5. QED
  BY <1>3, <1>4 DEF OneOpening

(* Nobody asks for a session that is being created, but to erase it.       *)
LEMMA NobodyAsks ==
  ASSUME MongoTypeOK, CallsFormed, [MongoNext]_mongoVars, NEW id \in Sessions, OneOpening(id),
         NEW c \in Pending("create", id), NEW d \in Calls, call[d].at = "new", call'[d].ids = {id},
         id \notin overlapped', call'[d].at # "new"
  PROVE  call'[d].op \in {"erase", "wipe"}
<1>1. c \in Calls /\ call[c].ids = {id} /\ call[c].at = "asked" /\ id \in minted
  BY DEF Pending, Waiting, CallsFormed, CallFormed
<1>2. ASSUME NEW op, NEW ids, NEW of, NEW data, Ask(d, op, ids, of, data)
      PROVE  call'[d].op = op /\ ids = {id}
  <2>1. CallAsks(d, op, ids, of, data)
    BY <1>2, CallAsking
  <2>2. QED
    BY <2>1 DEF CallAsks
<1>3. ASSUME NEW q \in Sessions, Create(d, q) PROVE FALSE
  BY <1>1, <1>2, <1>3 DEF Create
<1>4. ASSUME NEW q \in Sessions, Get(d, q) PROVE FALSE
  <2>1. q = id
    BY <1>2, <1>4 DEF Get
  <2>2. QED
    BY <1>4, <2>1 DEF Get, NoteOverlap
<1>5. ASSUME NEW q \in Sessions, SaveOwnCopy(d, q) PROVE FALSE
  <2>1. q = id
    BY <1>2, <1>5 DEF SaveOwnCopy
  <2>2. QED
    BY <1>5, <2>1 DEF SaveOwnCopy, Known
<1>6. ASSUME NEW o \in Calls, SaveTurn(d, o) PROVE FALSE
  <2>1. call[o].ids = {id} /\ object[o] # None
    BY <1>2, <1>6 DEF SaveTurn
  <2>2. call[o].op \notin {"erase", "wipe"} /\ o # c
    BY <1>1, <2>1 DEF CallsFormed, CallFormed
  <2>3. QED
    BY <2>1, <2>2 DEF OneOpening
<1>7. ASSUME EraseAll(d) \/ \E ids \in SUBSET Sessions : EraseConversations(d, ids)
      PROVE  call'[d].op \in {"erase", "wipe"}
  BY <1>2, <1>7 DEF EraseConversations, EraseAll
<1>8. QED
  BY <1>3, <1>4, <1>5, <1>6, <1>7, AskSteps

LEMMA OverlapsKept ==
  ASSUME MongoTypeOK, CallsFormed, CacheFormed, Overlaps, [MongoNext]_mongoVars
  PROVE  Overlaps'
<1>1. GoesOn
  BY StepKeeps DEF Kept
<1>2. ASSUME NEW id \in Sessions, id \notin overlapped' PROVE OneOpening(id)'
  <2>1. OneOpening(id)
    BY <1>1, <1>2 DEF GoesOn, Overlaps, OneOpening
  <2>2. CASE \E c \in Calls : Create(c, id) \/ Get(c, id)
    BY <1>2, <2>2, CreateOpens, GetOpens
  <2>3. CASE ~\E c \in Calls : Create(c, id) \/ Get(c, id)
    <3>1. BeingOpened(id)' \subseteq BeingOpened(id)
      BY <2>3, OpeningSteps
    <3>2. ASSUME BeingOpened(id)' # {} PROVE Cached(id)' = {}
      <4>1. Cached(id) = {}
        BY <2>1, <3>1, <3>2 DEF OneOpening
      <4>2. CASE Drops
        BY <4>1, <4>2 DEF Drops
      <4>3. ASSUME NEW q \in Sessions, NEW c \in Calls, Remembers(q, c) PROVE Cached(id)' = {}
        <5>1. CASE q = id
          <6>1. c \in BeingOpened(id) /\ c \notin BeingOpened(id)'
            BY <4>3, <5>1 DEF Remembers, BeingOpened, Pending, Waiting, CallAnswered
          <6>2. QED
            BY <2>1, <3>1, <3>2, <6>1 DEF OneOpening
        <5>2. CASE q # id
          BY <4>1, <4>3, <5>2 DEF Remembers
        <5>3. QED
          BY <5>1, <5>2
      <4>4. QED
        BY <4>2, <4>3, CacheSteps
    <3>3. ASSUME NEW c \in Pending("create", id)'
          PROVE  /\ \A d \in Calls \ {c} : call'[d].ids = {id} => call'[d].op \in {"erase", "wipe"}
                 /\ docs'[id] \in {None, {}}
      <4>1. c \in BeingOpened(id)' /\ c \in BeingOpened(id) /\ c \in Calls /\ call'[c].op = "create"
        BY <3>1, <3>3 DEF BeingOpened, Pending
      <4>2. c \in Pending("create", id)
        BY <1>1, <4>1 DEF BeingOpened, Pending, Waiting, GoesOn, Continues
      <4>3. ASSUME NEW d \in Calls \ {c}, call'[d].ids = {id} PROVE call'[d].op \in {"erase", "wipe"}
        <5>1. CASE call[d].at = "new"
          <6>1. call'[d].at # "new"
            <7>1. CallFormed(d)'
              BY StepKeeps DEF Kept, CallsFormed
            <7>2. QED
              BY <4>3, <7>1 DEF CallFormed
          <6>2. QED
            BY <1>2, <2>1, <4>2, <4>3, <5>1, <6>1, NobodyAsks
        <5>2. CASE call[d].at # "new"
          BY <1>1, <2>1, <4>2, <4>3, <5>2 DEF GoesOn, Continues, OneOpening
        <5>3. QED
          BY <5>1, <5>2
      <4>4. docs'[id] \in {None, {}}
        <5>1. docs[id] \in {None, {}}
          BY <2>1, <4>2 DEF OneOpening
        <5>2. ASSUME NEW e \in Calls, CallLanded(e) PROVE docs'[id] \in {None, {}}
          <6>1. /\ id \notin call[e].ids \/ call[e].op = "get" => docs'[id] = docs[id]
                /\ id \in call[e].ids /\ call[e].op \in {"erase", "wipe"} => docs'[id] = None
                /\ id \in call[e].ids /\ call[e].op = "create" => docs'[id] = {}
                /\ call[e].op \in {"create", "get", "save", "erase", "wipe"}
            BY <5>2, CarryingOut, TypesAre DEF CallLanded, CallRecords, CallsFormed, CallFormed
          <6>2. ~(id \in call[e].ids /\ call[e].op = "save")
            <7>1. call[e].op = "save" /\ id \in call[e].ids => call[e].ids = {id}
              BY DEF CallsFormed, CallFormed
            <7>2. call[c].op = "create"
              BY <4>2 DEF Pending
            <7>3. QED
              BY <2>1, <4>2, <7>1, <7>2 DEF OneOpening
          <6>3. QED
            BY <5>1, <6>1, <6>2
        <5>3. QED
          BY <5>1, <5>2, DocsSteps
      <4>5. QED
        BY <4>3, <4>4
    <3>4. QED
      BY <2>1, <3>1, <3>2, <3>3 DEF OneOpening
  <2>4. QED
    BY <2>2, <2>3
<1>3. QED
  BY <1>2 DEF Overlaps, OneOpening

-----------------------------------------------------------------------------
(* A save that was carried out is answered, and the cached object goes     *)
(* unless it is the one that was saved.                                    *)
LEMMA SaveEnds ==
  ASSUME MongoTypeOK, CallsFormed, [MongoNext]_mongoVars, NEW s \in Calls, NEW id \in Sessions,
         call[s].op = "save", call[s].ids = {id}, call[s].at = "asked", call'[s].at # "asked"
  PROVE  SaveAnswered(s, id) \/ call'[s].at = "rejected"
<1>1. ASSUME NEW c \in Calls, NEW op, NEW ids, NEW of, NEW data, Ask(c, op, ids, of, data) PROVE FALSE
  <2>1. CallAsks(c, op, ids, of, data)
    BY <1>1, CallAsking
  <2>2. QED
    BY <2>1 DEF CallAsks, OnlyCall
<1>2. ASSUME NEW c \in Calls, NEW q \in Sessions, Create(c, q) \/ Get(c, q) \/ SaveOwnCopy(c, q) PROVE FALSE
  BY <1>1, <1>2 DEF Create, Get, SaveOwnCopy
<1>3. ASSUME NEW c \in Calls, NEW o \in Calls, SaveTurn(c, o) PROVE FALSE
  BY <1>1, <1>3 DEF SaveTurn
<1>4. ASSUME NEW c \in Calls, EraseAll(c) \/ \E ids \in SUBSET Sessions : EraseConversations(c, ids)
      PROVE  FALSE
  BY <1>1, <1>4 DEF EraseConversations, EraseAll
<1>5. ~(Clear \/ ClockTicks \/ UNCHANGED mongoVars)
  BY DEF Clear, ClockTicks, mongoVars
<1>6. ASSUME NEW c \in Calls, Land(c) PROVE FALSE
  BY <1>6, CallLanding DEF CallLanded, OnlyCall
<1>7. ASSUME NEW c \in Calls, NEW how \in {"done", "rejected"}, Waiting(c), Over(c, how)
      PROVE  c = s /\ call'[s].at = how
  <2>1. CallAnswered(c, how)
    BY <1>7, CallAnswering
  <2>2. QED
    BY <2>1 DEF CallAnswered, OnlyCall
<1>8. ASSUME NEW c \in Calls, NEW q \in Sessions, CreateAnswered(c, q) \/ GetAnswered(c, q) PROVE FALSE
  BY <1>7, <1>8 DEF CreateAnswered, GetAnswered
<1>9. ASSUME NEW c \in Calls, NEW q \in Sessions, SaveAnswered(c, q) PROVE SaveAnswered(s, id)
  <2>1. c = s
    BY <1>7, <1>9 DEF SaveAnswered
  <2>2. q = id
    BY <1>9, <2>1 DEF SaveAnswered
  <2>3. QED
    BY <1>9, <2>1, <2>2
<1>10. ASSUME NEW c \in Calls, EraseAnswered(c) PROVE FALSE
  BY <1>7, <1>10 DEF EraseAnswered, Erases
<1>11. ASSUME NEW c \in Calls, Rejected(c) PROVE call'[s].at = "rejected"
  BY <1>7, <1>11 DEF Rejected
<1>12. QED
  BY <1>2, <1>3, <1>4, <1>5, <1>6, <1>8, <1>9, <1>10, <1>11 DEF MongoNext

LEMMA LateSaveSteps ==
  ASSUME MongoTypeOK, CallsFormed, CacheFormed, [MongoNext]_mongoVars, NEW id \in Sessions,
         NoneLost(id)', NEW o, LateSave(id, o)
  PROVE  LateSave(id, o)' \/ \E s \in Calls : SaveAnswered(s, id) /\ call[s].of # o
<1>1. PICK s \in Calls : /\ call[s].op = "save" /\ call[s].ids = {id} /\ call[s].landed
                         /\ call[s].at = "asked" /\ call[s].of # o
  BY DEF LateSave, Waiting
<1>2. Continues(s)
  BY StepKeeps DEF Kept, GoesOn
<1>3. call'[s].at # "rejected"
  BY <1>1, <1>2 DEF NoneLost, Continues
<1>4. CASE call'[s].at = "asked"
  BY <1>1, <1>2, <1>4 DEF LateSave, Waiting, Continues
<1>5. CASE call'[s].at # "asked"
  BY <1>1, <1>3, <1>5, SaveEnds
<1>6. QED
  BY <1>4, <1>5

LEMMA CachedOnce ==
  ASSUME MongoTypeOK, CacheFormed, NEW id, NEW h \in Cached(id), NEW k \in Cached(id)
  PROVE  h = k /\ h.obj \in Calls /\ object[h.obj] # None /\ call[h.obj].ids = {id}
<1>1. PICK i \in DOMAIN cache, j \in DOMAIN cache : h = cache[i] /\ k = cache[j] /\ cache[i].id = id /\ cache[j].id = id
  BY DEF Cached
<1>2. cache \in Seq(CachedObjects)
  BY TypesAre
<1>3. i \in Nat /\ j \in Nat /\ cache[i] \in CachedObjects
  BY <1>1, <1>2
<1>4. i = j
  BY <1>1, <1>3 DEF CacheFormed, Ordered
<1>5. QED
  BY <1>1, <1>3, <1>4 DEF CacheFormed, CachedObjects

(* Of a session that is not changed in the collection.                     *)
LEMMA CachedStaysFresh ==
  ASSUME MongoTypeOK, CallsFormed, CacheFormed, [MongoNext]_mongoVars, NEW id \in Sessions,
         NoneLost(id)', docs'[id] = docs[id],
         NEW held \in Cached(id), held \in Cached(id)', UpToDate(id, object[held.obj], held.obj)
  PROVE  UpToDate(id, object[held.obj], held.obj)'
<1>1. held.obj \in Calls /\ object[held.obj] # None
  BY CachedOnce
<1>2. object[held.obj] \subseteq object'[held.obj]
  BY <1>1, StepKeeps DEF Kept, ObjectsGrow
<1>3. CASE LateSave(id, held.obj)
  <2>1. ASSUME NEW s \in Calls, SaveAnswered(s, id), call[s].of # held.obj PROVE FALSE
    <3>1. CASE \E h \in Cached(id) : h.obj = call[s].of
      BY <2>1, <3>1, CachedOnce
    <3>2. CASE ~\E h \in Cached(id) : h.obj = call[s].of
      <4>1. Forget({id})
        BY <2>1, <3>2 DEF SaveAnswered
      <4>2. Cached(id)' = {}
        BY <4>1, Forgetting
      <4>3. QED
        BY <4>2
    <3>3. QED
      BY <3>1, <3>2
  <2>2. LateSave(id, held.obj)'
    BY <1>3, <2>1, LateSaveSteps
  <2>3. QED
    BY <2>2 DEF UpToDate
<1>4. CASE ~LateSave(id, held.obj)
  BY <1>2, <1>4 DEF UpToDate
<1>5. QED
  BY <1>3, <1>4

LEMMA ReadStaysFresh ==
  ASSUME MongoTypeOK, CallsFormed, CacheFormed, [MongoNext]_mongoVars, NEW id \in Sessions,
         NoneLost(id)', docs'[id] = docs[id], OneOpening(id),
         NEW g \in inFlight, g \in inFlight', call[g].ids = {id},
         UpToDate(id, call[g].data, g), call'[g].data = call[g].data
  PROVE  UpToDate(id, call[g].data, g)'
<1>1. CASE LateSave(id, g)
  <2>1. ASSUME NEW s \in Calls, SaveAnswered(s, id) PROVE FALSE
    <3>1. g \in BeingOpened(id)
      BY TypesAre DEF BeingOpened, Pending, Waiting
    <3>2. Cached(id) = {}
      BY <3>1 DEF OneOpening
    <3>3. Forget({id})
      BY <2>1, <3>2 DEF SaveAnswered
    <3>4. call[g].ids \intersect {id} = {}
      BY <3>3, Forgetting
    <3>5. QED
      BY <3>4
  <2>2. LateSave(id, g)'
    BY <1>1, <2>1, LateSaveSteps
  <2>3. QED
    BY <2>2 DEF UpToDate
<1>2. CASE ~LateSave(id, g)
  BY <1>2 DEF UpToDate
<1>3. QED
  BY <1>1, <1>2

FreshOf(id) ==
    /\ \A held \in Cached(id) : UpToDate(id, object[held.obj], held.obj)
    /\ \A g \in inFlight : call[g].ids = {id} /\ call[g].landed /\ call[g].data # None
                             => UpToDate(id, call[g].data, g)

(* What a save writes is in the object it was written to; any other object *)
(* will be withdrawn as the save is answered.                              *)
LEMMA WrittenStaysFresh ==
  ASSUME MongoTypeOK, CallsFormed, CacheFormed, NEW id \in Sessions,
         NEW e \in Calls, CallLanded(e), docs'[id] # docs[id]
  PROVE  FreshOf(id)'
<1>1. /\ call[e].at = "asked" /\ call'[e].at = "asked" /\ call'[e].landed
      /\ call'[e].op = call[e].op /\ call'[e].ids = call[e].ids /\ call'[e].of = call[e].of
      /\ OnlyCall(e) /\ cache' = cache /\ inFlight' = inFlight /\ object' = object
  BY DEF CallLanded
<1>2. /\ id \notin call[e].ids \/ call[e].op = "get" => docs'[id] = docs[id]
      /\ id \in call[e].ids /\ call[e].op \in {"erase", "wipe"} => docs'[id] = None
      /\ id \in call[e].ids /\ call[e].op = "create" => docs'[id] = {}
      /\ id \in call[e].ids /\ call[e].op = "save" => docs'[id] \in {None, call[e].data}
      /\ call[e].op \in {"create", "get", "save", "erase", "wipe"}
  BY <1>1, CarryingOut, TypesAre DEF CallLanded, CallRecords, CallsFormed, CallFormed
<1>3. CASE docs'[id] \in {None, {}}
  BY <1>3 DEF FreshOf, UpToDate
<1>4. CASE call[e].op = "save" /\ id \in call[e].ids /\ docs'[id] = call[e].data
  <2>1. call[e].ids = {id}
    BY <1>4 DEF CallsFormed, CallFormed
  <2>2. ASSUME NEW o, o # call[e].of PROVE LateSave(id, o)'
    BY <1>1, <1>4, <2>1, <2>2 DEF LateSave, Waiting
  <2>3. ASSUME NEW held \in Cached(id)' PROVE UpToDate(id, object[held.obj], held.obj)'
    <3>1. held \in Cached(id)
      BY <1>1, <2>3 DEF Cached
    <3>2. held.obj \in Calls
      BY <3>1, CachedOnce
    <3>3. CASE call[e].of = held.obj
      <4>1. call[e].data \subseteq object[held.obj]
        BY <1>4, <3>2, <3>3, NoneAssumption DEF CallsFormed, SaveFormed
      <4>2. QED
        BY <1>1, <1>4, <4>1 DEF UpToDate
    <3>4. CASE call[e].of # held.obj
      BY <2>2, <3>4 DEF UpToDate
    <3>5. QED
      BY <3>3, <3>4
  <2>4. ASSUME NEW g \in inFlight' PROVE UpToDate(id, call[g].data, g)'
    <3>1. g \in Calls /\ call[g].at = "asked"
      BY <1>1, <2>4, TypesAre
    <3>2. object[g] = None
      BY <3>1 DEF CallsFormed, CallFormed
    <3>3. call[e].of # g
      BY <1>4, <3>1, <3>2, NoneAssumption DEF CallsFormed, SaveFormed
    <3>4. QED
      BY <2>2, <3>3 DEF UpToDate
  <2>5. QED
    BY <2>3, <2>4 DEF FreshOf
<1>5. QED
  BY <1>2, <1>3, <1>4

LEMMA RememberedIsFresh ==
  ASSUME MongoTypeOK, CallsFormed, NEW id \in Sessions, OneOpening(id), FreshOf(id),
         NEW c \in Calls, Remembers(id, c)
  PROVE  UpToDate(id, object[c], c)'
<1>1. CallAnswered(c, "done") /\ docs' = docs
  BY DEF Remembers, CallAnswered
<1>2. CASE call[c].op = "create"
  <2>1. c \in Pending("create", id)
    BY <1>2 DEF Remembers, Pending
  <2>2. docs'[id] \in {None, {}}
    BY <1>1, <2>1 DEF OneOpening
  <2>3. QED
    BY <2>2 DEF UpToDate
<1>3. CASE call[c].op = "get"
  <2>1. UpToDate(id, call[c].data, c) /\ object'[c] = call[c].data
    BY <1>3 DEF Remembers, FreshOf
  <2>2. LateSave(id, c) => LateSave(id, c)'
    <3> SUFFICES ASSUME NEW s \in Calls, call[s].op = "save", call[s].ids = {id}, call[s].landed,
                        Waiting(s), call[s].of # c
                 PROVE  LateSave(id, c)'
      BY DEF LateSave
    <3>1. call'[s] = call[s]
      BY <1>1, <1>3 DEF CallAnswered, OnlyCall
    <3>2. QED
      BY <3>1 DEF LateSave, Waiting
  <2>3. QED
    BY <1>1, <2>1, <2>2 DEF UpToDate
<1>4. QED
  BY <1>2, <1>3 DEF Remembers

LEMMA FreshKept ==
  ASSUME MongoTypeOK, CallsFormed, CacheFormed, Overlaps, Fresh, [MongoNext]_mongoVars
  PROVE  Fresh'
<1>1. GoesOn /\ MongoTypeOK'
  BY StepKeeps DEF Kept
<1>2. SUFFICES ASSUME NEW id \in Sessions, id \notin overlapped', NoneLost(id)' PROVE FreshOf(id)'
  BY DEF Fresh, FreshOf
<1>3. NoneLost(id)
  <2> SUFFICES ASSUME NEW c \in Calls, call[c].op = "save", call[c].ids = {id}, call[c].landed,
                      call[c].at = "rejected"
               PROVE  FALSE
    BY DEF NoneLost
  <2>1. call'[c] = call[c]
    BY <1>1 DEF GoesOn, Continues
  <2>2. QED
    BY <1>2, <2>1 DEF NoneLost
<1>4. id \notin overlapped /\ OneOpening(id) /\ FreshOf(id)
  BY <1>1, <1>2, <1>3 DEF GoesOn, Overlaps, OneOpening, Fresh, FreshOf
<1>5. CASE docs'[id] # docs[id]
  <2>1. PICK e \in Calls : CallLanded(e)
    BY <1>5, DocsSteps
  <2>2. QED
    BY <1>5, <2>1, WrittenStaysFresh
<1>6. CASE docs'[id] = docs[id]
  <2>1. ASSUME NEW held \in Cached(id), held \in Cached(id)'
        PROVE  UpToDate(id, object[held.obj], held.obj)'
    <3>1. UpToDate(id, object[held.obj], held.obj)
      BY <1>4 DEF FreshOf
    <3>2. QED
      BY <1>2, <1>6, <2>1, <3>1, CachedStaysFresh
  <2>2. ASSUME NEW held \in Cached(id)' PROVE UpToDate(id, object[held.obj], held.obj)'
    <3>1. CASE Drops
      BY <2>1, <2>2, <3>1 DEF Drops
    <3>2. ASSUME NEW q \in Sessions, NEW c \in Calls, Remembers(q, c)
          PROVE  UpToDate(id, object[held.obj], held.obj)'
      <4>1. CASE q = id
        <5>1. held.obj = c
          BY <2>2, <3>2, <4>1 DEF Remembers
        <5>2. UpToDate(id, object[c], c)'
          BY <1>4, <3>2, <4>1, RememberedIsFresh
        <5>3. QED
          BY <5>1, <5>2
      <4>2. CASE q # id
        BY <2>1, <2>2, <3>2, <4>2 DEF Remembers
      <4>3. QED
        BY <4>1, <4>2
    <3>3. QED
      BY <3>1, <3>2, CacheSteps
  <2>3. ASSUME NEW g \in inFlight', call'[g].ids = {id}, call'[g].landed, call'[g].data # None
        PROVE  UpToDate(id, call[g].data, g)'
    <3>1. g \in Calls /\ g \in inFlight /\ call[g].at = "asked"
      BY <2>3, ReadSteps, TypesAre
    <3>2. call[g].ids = {id}
      BY <1>1, <2>3, <3>1 DEF GoesOn, Continues
    <3>3. CASE call[g].landed
      <4>1. call'[g].data = call[g].data
        BY <3>3, ReadSteps
      <4>2. UpToDate(id, call[g].data, g)
        BY <1>4, <2>3, <3>1, <3>2, <3>3, <4>1 DEF FreshOf
      <4>3. QED
        BY <1>2, <1>4, <1>6, <2>3, <3>1, <3>2, <4>1, <4>2, ReadStaysFresh
    <3>4. CASE ~call[g].landed
      <4>1. call'[g].data = docs[id]
        BY <2>3, <3>2, <3>4, ReadSteps
      <4>2. QED
        BY <1>6, <4>1 DEF UpToDate
    <3>5. QED
      BY <3>3, <3>4
  <2>4. QED
    BY <2>2, <2>3 DEF FreshOf
<1>7. QED
  BY <1>5, <1>6

-----------------------------------------------------------------------------
LEMMA StoreStart == MongoInit => StoreInv
<1> SUFFICES ASSUME MongoInit PROVE StoreInv
  OBVIOUS
<1>1. \A c \in Calls : call[c] = NoCall /\ object[c] = None
  BY DEF MongoInit
<1>2. cache = <<>> /\ inFlight = {} /\ \A id : Cached(id) = {}
  BY DEF MongoInit, Cached
<1>3. \A id : BeingOpened(id) = {} /\ Pending("create", id) = {}
  BY <1>1 DEF BeingOpened, Pending, NoCall
<1>4. MongoTypeOK
  <2>1. clock \in 0..MaxTime /\ overlapped \subseteq minted /\ minted \subseteq Sessions
    BY BoundsAssumption DEF MongoInit
  <2>2. docs \in [Sessions -> Content] /\ object \in [Calls -> Content]
    BY DEF MongoInit, Content
  <2>3. NoCall \in CallRecords
    BY DEF NoCall, CallRecords, Content
  <2>4. call \in [Calls -> CallRecords]
    BY <2>3 DEF MongoInit
  <2>5. cache \in Seq(CachedObjects)
    BY <1>2
  <2>6. QED
    BY <1>2, <2>1, <2>2, <2>4, <2>5, TypesAre
<1>5. CallsFormed
  BY <1>1 DEF MongoInit, CallsFormed, CallFormed, SaveFormed, NoCall
<1>6. CacheFormed
  BY <1>2 DEF CacheFormed, Ordered
<1>7. Erasures
  BY <1>1 DEF Erasures, Erased, NoCall
<1>8. Overlaps
  BY <1>3 DEF Overlaps
<1>9. Fresh
  BY <1>2 DEF Fresh
<1>10. QED
  BY <1>4, <1>5, <1>6, <1>7, <1>8, <1>9 DEF StoreInv

LEMMA StoreHolds == MongoSpec => []StoreInv
<1>1. MongoInit => StoreInv
  BY StoreStart
<1>2. StoreInv /\ [MongoNext]_mongoVars => StoreInv'
  <2> SUFFICES ASSUME StoreInv, [MongoNext]_mongoVars PROVE StoreInv'
    OBVIOUS
  <2>1. MongoTypeOK /\ CallsFormed /\ CacheFormed /\ Erasures /\ Overlaps /\ Fresh
    BY DEF StoreInv
  <2>2. MongoTypeOK' /\ CallsFormed'
    BY <2>1, StepKeeps DEF Kept
  <2>3. CacheFormed'
    BY <2>1, CacheKept
  <2>4. Erasures'
    BY <2>1, ErasuresKept
  <2>5. Overlaps'
    BY <2>1, OverlapsKept
  <2>6. Fresh'
    BY <2>1, FreshKept
  <2>7. QED
    BY <2>2, <2>3, <2>4, <2>5, <2>6 DEF StoreInv
<1>3. QED
  BY <1>1, <1>2, PTL DEF MongoSpec

(* The store's variables keep their types in every run.                    *)
THEOREM StoreTypeCorrect == MongoSpec => []MongoTypeOK
<1>1. StoreInv => MongoTypeOK
  BY DEF StoreInv
<1>2. QED
  BY <1>1, StoreHolds, PTL

(* Once an erasure has answered, the session is in neither the collection  *)
(* nor the cache, and no read, save or rejected answer of another call     *)
(* brings it back to either, unless its create had not answered as the     *)
(* erasure was asked for, or as eraseAll was carried out                   *)
(* (mongoSessionStore.ts:186-244, 257-279).                                *)
THEOREM ErasedStaysGone == MongoSpec => []ErasedIsGone
<1>1. StoreInv => ErasedIsGone
  <2> SUFFICES ASSUME StoreInv, NEW c \in Calls, call[c].op \in {"erase", "wipe"},
                      call[c].at \in {"done", "rejected"}, call[c].landed,
                      NEW id \in call[c].ids, ~Spared(c, id)
               PROVE  docs[id] = None /\ Cached(id) = {}
    BY DEF ErasedIsGone
  <2>1. id \in Sessions
    BY TypesAre DEF StoreInv, CallRecords
  <2>2. Erased(c, id) /\ ~Waiting(c)
    BY DEF Erased, Waiting
  <2>3. QED
    BY <2>1, <2>2 DEF StoreInv, Erasures
<1>2. QED
  BY <1>1, StoreHolds, PTL

(* The cache holds each session once, in the order of its age, and while   *)
(* nothing is under way on a session its cached object holds every turn    *)
(* its document holds.  Except of a session whose reads overlapped each    *)
(* other or its create, or one of whose saves was carried out and then     *)
(* rejected.                                                               *)
THEOREM CacheAlwaysSound == MongoSpec => []CacheIsSound
<1>1. StoreInv => CacheWellFormed
  BY DEF StoreInv, CacheWellFormed, CacheFormed, Ordered
<1>2. StoreInv => CacheIsFresh
  <2> SUFFICES ASSUME StoreInv, NEW id \in Sessions, id \notin overlapped, Quiet(id), NoneLost(id),
                      NEW held \in Cached(id), docs[id] # None
               PROVE  docs[id] \subseteq object[held.obj]
    BY DEF CacheIsFresh, NoneLost
  <2>1. UpToDate(id, object[held.obj], held.obj)
    BY DEF StoreInv, Fresh
  <2>2. ~LateSave(id, held.obj)
    BY DEF LateSave, Quiet
  <2>3. QED
    BY <2>1, <2>2 DEF UpToDate
<1>3. StoreInv => CacheIsSound
  BY <1>1, <1>2 DEF CacheIsSound
<1>4. QED
  BY <1>3, StoreHolds, PTL

(* As long as a session is cached it is cached as the same object, if no   *)
(* read of it ever overlapped another read of it, or its create.           *)
THEOREM ObjectAlwaysStable == MongoSpec => StableObject
<1>1. StoreInv /\ [MongoNext]_mongoVars => [\A id \in Sessions \ overlapped' : ~Replaces(id)]_mongoVars
  <2> SUFFICES ASSUME StoreInv, [MongoNext]_mongoVars, NEW id \in Sessions, id \notin overlapped',
                      NEW held \in Cached(id), NEW new \in Cached(id)', held.obj # new.obj
               PROVE  FALSE
    BY DEF Replaces
  <2>1. MongoTypeOK /\ CallsFormed /\ CacheFormed /\ Overlaps
    BY DEF StoreInv
  <2>2. OneOpening(id)
    BY <2>1, StepKeeps DEF Kept, GoesOn, Overlaps, OneOpening
  <2>3. new \notin Cached(id)
    BY <2>1, CachedOnce
  <2>4. PICK c \in Calls, q \in Sessions : Remembers(q, c)
    BY <2>1, <2>3, CacheSteps DEF Drops
  <2>5. q = id
    BY <2>3, <2>4 DEF Remembers
  <2>6. c \in BeingOpened(id)
    BY <2>4, <2>5 DEF Remembers, BeingOpened, Pending
  <2>7. QED
    BY <2>2, <2>6 DEF OneOpening
<1>2. QED
  BY <1>1, StoreHolds, PTL DEF MongoSpec, StableObject
===============================================================================
