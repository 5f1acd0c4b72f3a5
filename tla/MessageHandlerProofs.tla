------------------------- MODULE MessageHandlerProofs -------------------------
(***************************************************************************)
(* Proofs about the frames of the sockets open on a session, for any       *)
(* number of sessions, sockets, messages and chunks.                       *)
(*                                                                         *)
(* Neither property is inductive.  The order of a conversation rests on    *)
(* who may be running (Serial), and on whose entries there are (Written).  *)
(* Which message a frame answers rests on the client's count: of an open   *)
(* socket, as many stream_ends as turns ended, and those the first ones it *)
(* asked for (Counted), because no turn is dropped on an open socket.      *)
(***************************************************************************)
EXTENDS MessageHandler, FiniteSetTheorems, SequenceTheorems, TLAPS

Begun(m) == stage[m] \in {"running", "done"}

(* A socket's messages are on its list, in the order of their tickets; a   *)
(* message is queued under its socket's session.                           *)
Filed ==
    /\ \A m \in Messages : from[m] # None =>
         /\ ticket[m] \in 1..issued
         /\ keyOf[m] = SessionFor(m)
         /\ \E i \in DOMAIN asked[from[m]] : asked[from[m]][i] = m
    /\ \A m, n \in Messages : from[m] # None /\ from[n] # None /\ ticket[m] = ticket[n] => m = n
    /\ \A s \in Sockets : \A i, j \in DOMAIN asked[s] :
         /\ from[asked[s][i]] = s
         /\ i < j => ticket[asked[s][i]] < ticket[asked[s][j]]

(* Whoever the lock let in, everybody ahead of it is through.              *)
Serial ==
    \A m, n \in Messages :
        Begun(m) /\ n \in Queue!AheadOf(m) => stage[n] = "done"

(* How far a turn is, by what the lock knows of it.                        *)
Turned ==
    \A m \in Messages :
        /\ stage[m] = "running" => turn[m] \in {"streaming", "ending", "dropped"}
        /\ stage[m] = "done" => turn[m] \in {"ended", "dropped"}
        /\ turn[m] = "dropped" => sock[from[m]] # "open"

(* Only a turn that has begun wrote to its session.                        *)
Written ==
    \A t \in Sessions : \A i \in DOMAIN entries[t] :
        Begun(entries[t][i]) /\ keyOf[entries[t][i]] = t

EndsTo(w, n) == {j \in 1..n : w[j].kind = "stream_end"}
Ends(w) == Cardinality(EndsTo(w, Len(w)))

(* An open socket's client has counted exactly the turns that ended.       *)
Counted ==
    \A s \in Sockets :
        /\ Ends(wire[s]) <= Len(asked[s])
        /\ sock[s] = "open" =>
             \A i \in DOMAIN asked[s] : i <= Ends(wire[s]) <=> turn[asked[s][i]] = "ended"

(* AnswersAttributable, of a client and the messages it sent.              *)
Attributable(w, a) ==
    \A i \in DOMAIN w :
        w[i].of # None => /\ 1 + Cardinality(EndsTo(w, i - 1)) \in DOMAIN a
                          /\ w[i].of = a[1 + Cardinality(EndsTo(w, i - 1))]

Attributed == \A s \in Sockets : Attributable(wire[s], asked[s])

(* Every list still being read was asked for off the lock.                 *)
Reading == \A s \in Sockets : listing[s] <= offLock

IInv == TypeOK /\ Reading /\ Filed /\ Serial /\ Turned /\ Written /\ Counted
          /\ ConversationInArrivalOrder /\ Attributed

-----------------------------------------------------------------------------
(* What a client counts.                                                   *)
LEMMA AttributedAnswers == Attributed <=> AnswersAttributable
<1> SUFFICES ASSUME NEW s \in Sockets, NEW i \in DOMAIN wire[s]
             PROVE  1 + EndsBefore(s, i) = 1 + Cardinality(EndsTo(wire[s], i - 1))
  BY DEF AnswersAttributable, Attributed, Attributable
<1> QED
  BY DEF EndsBefore, EndsTo

LEMMA EndsAreCounted ==
  ASSUME NEW w, NEW n \in Nat
  PROVE  IsFiniteSet(EndsTo(w, n)) /\ Cardinality(EndsTo(w, n)) \in Nat
<1>1. IsFiniteSet(1..n) /\ EndsTo(w, n) \in SUBSET (1..n)
  BY FS_Interval DEF EndsTo
<1>2. IsFiniteSet(EndsTo(w, n))
  BY <1>1, FS_Subset
<1>3. QED
  BY <1>2, FS_CardinalityType

(* A frame more is counted where it ends a turn.                           *)
LEMMA EndsOfAppend ==
  ASSUME NEW w \in Seq(Frames), NEW f \in Frames
  PROVE  /\ Append(w, f) \in Seq(Frames)
         /\ Ends(w) \in Nat
         /\ Ends(Append(w, f)) = IF f.kind = "stream_end" THEN Ends(w) + 1 ELSE Ends(w)
<1> DEFINE v == Append(w, f)
           n == Len(w)
<1>1. /\ v \in Seq(Frames) /\ Len(v) = n + 1 /\ n \in Nat /\ v[n + 1] = f
      /\ \A j \in 1..n : v[j] = w[j]
  BY AppendProperties
<1>2. IsFiniteSet(EndsTo(w, n)) /\ Ends(w) \in Nat
  BY <1>1, EndsAreCounted DEF Ends
<1> HIDE DEF v, n
<1>3. EndsTo(v, n + 1) = IF f.kind = "stream_end" THEN EndsTo(w, n) \union {n + 1} ELSE EndsTo(w, n)
  BY <1>1 DEF EndsTo
<1>4. n + 1 \notin EndsTo(w, n)
  BY <1>1 DEF EndsTo
<1>5. CASE f.kind = "stream_end"
  <2>1. Cardinality(EndsTo(w, n) \union {n + 1}) = Cardinality(EndsTo(w, n)) + 1
    BY <1>2, <1>4, FS_AddElement
  <2>2. QED
    BY <1>1, <1>2, <1>3, <1>5, <2>1 DEF Ends, v, n
<1>6. CASE f.kind # "stream_end"
  BY <1>1, <1>2, <1>3, <1>6 DEF Ends, v, n
<1>7. QED
  BY <1>5, <1>6

(* ... and is attributable if it answers the first message without an end. *)
LEMMA AttributableAppend ==
  ASSUME NEW w \in Seq(Frames), NEW f \in Frames, NEW a, Attributable(w, a),
         f.of # None => 1 + Ends(w) \in DOMAIN a /\ f.of = a[1 + Ends(w)]
  PROVE  Attributable(Append(w, f), a)
<1> DEFINE v == Append(w, f)
           n == Len(w)
<1>1. /\ v \in Seq(Frames) /\ Len(v) = n + 1 /\ n \in Nat /\ v[n + 1] = f
      /\ \A j \in 1..n : v[j] = w[j]
      /\ DOMAIN v = 1..(n + 1) /\ DOMAIN w = 1..n
  BY AppendProperties
<1>2. Ends(w) = Cardinality(EndsTo(w, n))
  BY DEF Ends
<1> HIDE DEF v, n
<1>3. \A i \in 1..(n + 1) : EndsTo(v, i - 1) = EndsTo(w, i - 1)
  BY <1>1 DEF EndsTo
<1>4. ASSUME NEW i \in 1..(n + 1), v[i].of # None
      PROVE  /\ 1 + Cardinality(EndsTo(v, i - 1)) \in DOMAIN a
             /\ v[i].of = a[1 + Cardinality(EndsTo(v, i - 1))]
  <2>1. CASE i \in 1..n
    BY <1>1, <1>3, <1>4, <2>1 DEF Attributable
  <2>2. CASE i = n + 1
    <3>1. i - 1 = n
      BY <1>1, <2>2
    <3>2. EndsTo(v, i - 1) = EndsTo(w, i - 1)
      BY <1>3
    <3>3. QED
      BY <1>1, <1>2, <1>4, <2>2, <3>1, <3>2
  <2>3. QED
    BY <1>1, <2>1, <2>2
<1>5. QED
  BY <1>1, <1>4 DEF Attributable, v

(* A message more asks nothing of what was sent.                           *)
LEMMA AttributableLonger ==
  ASSUME NEW w, NEW a \in Seq(Messages), NEW m \in Messages, Attributable(w, a)
  PROVE  Attributable(w, Append(a, m))
<1>1. \A k \in DOMAIN a : k \in DOMAIN Append(a, m) /\ Append(a, m)[k] = a[k]
  BY AppendProperties
<1>2. QED
  BY <1>1 DEF Attributable

-----------------------------------------------------------------------------
(* Frames.                                                                 *)
LEMMA FramesAreFrames ==
  \A m \in Messages \union {None}, kind \in FrameKinds :
      /\ Frame(m, kind) \in Frames
      /\ Frame(m, kind).of = m /\ Frame(m, kind).kind = kind
  BY DEF Frame, Frames

(* The message an open socket's client waits for is the one whose turn it  *)
(* is: those before it on that socket are through, and not dropped.        *)
LEMMA NextAnswered ==
  ASSUME IInv, NEW m \in Messages, from[m] # None, turn[m] # "ended", sock[from[m]] = "open",
         \A d \in Queue!AheadOf(m) : stage[d] = "done"
  PROVE  LET s == from[m] IN
         /\ s \in Sockets
         /\ 1 + Ends(wire[s]) \in DOMAIN asked[s] /\ asked[s][1 + Ends(wire[s])] = m
<1> DEFINE s == from[m]
           n == Ends(wire[s])
<1>1. s \in Sockets /\ asked[s] \in Seq(Messages) /\ wire[s] \in Seq(Frames)
  BY DEF IInv, TypeOK
<1>2. PICK k \in DOMAIN asked[s] : asked[s][k] = m
  BY DEF IInv, Filed
<1>3. DOMAIN asked[s] = 1..Len(asked[s]) /\ Len(asked[s]) \in Nat /\ k \in 1..Len(asked[s])
  BY <1>1, <1>2
<1>4. n \in Nat
  BY <1>1, EndsAreCounted DEF Ends
<1>5. \A i \in DOMAIN asked[s] : i <= n <=> turn[asked[s][i]] = "ended"
  BY <1>1 DEF IInv, Counted
<1>6. ~(k <= n)
  BY <1>2, <1>5
<1>7. \A j \in DOMAIN asked[s] : j < k => j <= n
  <2> SUFFICES ASSUME NEW j \in DOMAIN asked[s], j < k
               PROVE  turn[asked[s][j]] = "ended"
    BY <1>5
  <2> DEFINE d == asked[s][j]
  <2>1. d \in Messages /\ from[d] = s /\ ticket[d] < ticket[m]
    BY <1>1, <1>2 DEF IInv, Filed
  <2>2. from[d] # None /\ keyOf[d] = keyOf[m]
    BY <1>1, <2>1 DEF IInv, Filed, SessionFor
  <2>3. stage[d] # "new"
    BY <2>1, <2>2 DEF IInv, TypeOK
  <2>4. stage[d] = "done"
    BY <2>1, <2>2, <2>3 DEF Queue!AheadOf
  <2>5. turn[d] \in {"ended", "dropped"} /\ turn[d] # "dropped"
    BY <2>1, <2>4 DEF IInv, Turned
  <2>6. QED
    BY <2>5
<1> HIDE DEF s, n
<1>8. n = k - 1
  <2>1. CASE k = 1
    BY <1>3, <1>4, <1>6, <2>1
  <2>2. CASE k # 1
    <3>1. k - 1 \in DOMAIN asked[s] /\ k - 1 < k
      BY <1>3, <2>2
    <3>2. QED
      BY <1>3, <1>4, <1>6, <1>7, <3>1
  <2>3. QED
    BY <2>1, <2>2
<1>9. 1 + n = k
  BY <1>3, <1>8
<1>10. QED
  BY <1>1, <1>2, <1>9 DEF s, n

-----------------------------------------------------------------------------
(* The queue and what is filed with it.                                    *)
LEMMA InitEstablishes == Init => IInv
<1> SUFFICES ASSUME Init PROVE IInv
  OBVIOUS
<1> USE DEF Init, Queue!Init
<1>1. TypeOK
  <2>1. \A S : <<>> \in Seq(S)
    OBVIOUS
  <2>2. 0 \in 0..MaxChunks /\ 0 \in 0..MaxOffLock
    BY BoundsAssumption
  <2>3. QED
    BY <2>1, <2>2 DEF TypeOK, Queue!TypeOK, Verdicts, Turns
<1>2. Filed /\ Serial /\ Turned /\ Reading
  BY DEF Reading, Filed, Serial, Turned, Begun
<1>3. Written /\ ConversationInArrivalOrder
  BY DEF Written, ConversationInArrivalOrder
<1>4. Counted
  <2>1. EndsTo(<<>>, 0) = {}
    BY DEF EndsTo
  <2>2. Ends(<<>>) = 0
    BY <2>1, FS_EmptySet DEF Ends
  <2>3. QED
    BY <2>2 DEF Counted
<1>5. Attributed
  BY DEF Attributed, Attributable
<1>6. QED
  BY <1>1, <1>2, <1>3, <1>4, <1>5 DEF IInv

(* A message arrives: last in its session's queue and on its socket's list. *)
LEMMA ArriveKeeps ==
  ASSUME IInv, NEW s \in Sockets, NEW m \in Messages, NEW payload \in Payloads,
         NEW withinBudget \in BOOLEAN, Arrive(s, m, payload, withinBudget)
  PROVE  IInv'
<1>1. /\ stage[m] = "new" /\ from[m] = None /\ turn[m] = "waiting"
      /\ sessionOf[s] \in Sessions /\ issued \in Nat
  BY DEF Arrive, Queue!Enter, IInv, TypeOK, Queue!TypeOK
<1>2. /\ stage' = [stage EXCEPT ![m] = "waiting"]
      /\ keyOf' = [keyOf EXCEPT ![m] = sessionOf[s]]
      /\ ticket' = [ticket EXCEPT ![m] = issued + 1]
      /\ issued' = issued + 1
      /\ from' = [from EXCEPT ![m] = s]
      /\ asked' = [asked EXCEPT ![s] = Append(asked[s], m)]
      /\ UNCHANGED <<sessionOf, sock, turn, chunks, entries, wire, offLock, listing>>
  BY DEF Arrive, Queue!Enter, IInv, TypeOK
<1>3. verdict' \in [Messages -> Verdicts]
  BY DEF Arrive, Verdicts, IInv, TypeOK
<1>4. asked[s] \in Seq(Messages)
  BY DEF IInv, TypeOK
<1>5. /\ asked'[s] \in Seq(Messages) /\ Len(asked'[s]) = Len(asked[s]) + 1
      /\ asked'[s][Len(asked[s]) + 1] = m
      /\ \A i \in DOMAIN asked[s] : asked'[s][i] = asked[s][i]
      /\ DOMAIN asked'[s] = 1..(Len(asked[s]) + 1) /\ DOMAIN asked[s] = 1..Len(asked[s])
      /\ Len(asked[s]) \in Nat
  BY <1>2, <1>4, AppendProperties DEF IInv, TypeOK
<1>6. \A r \in Sockets \ {s} : asked'[r] = asked[r]
  BY <1>2 DEF IInv, TypeOK
<1>7. \A n \in Messages \ {m} : /\ stage'[n] = stage[n] /\ keyOf'[n] = keyOf[n]
                               /\ ticket'[n] = ticket[n] /\ from'[n] = from[n]
  BY <1>2 DEF IInv, TypeOK, Queue!TypeOK
<1>8. stage'[m] = "waiting" /\ keyOf'[m] = sessionOf[s] /\ ticket'[m] = issued + 1 /\ from'[m] = s
  BY <1>2 DEF IInv, TypeOK, Queue!TypeOK
<1>9. \A r \in Sockets : \A i \in DOMAIN asked[r] : asked[r][i] \in Messages \ {m}
  BY <1>1, NoneAssumption DEF IInv, TypeOK, Filed
<1>10. TypeOK'
  <2>1. /\ stage' \in [Messages -> {"new", "waiting", "running", "done"}]
        /\ keyOf' \in [Messages -> Sessions \union {None}]
        /\ ticket' \in [Messages -> Nat] /\ issued' \in Nat
        /\ from' \in [Messages -> Sockets \union {None}]
        /\ asked' \in [Sockets -> Seq(Messages)]
    BY <1>1, <1>2, <1>5 DEF IInv, TypeOK, Queue!TypeOK
  <2>2. \A n \in Messages : /\ stage'[n] = "new" <=> from'[n] = None
                            /\ stage'[n] \in {"new", "waiting"} <=> turn'[n] = "waiting"
    BY <1>1, <1>2, <1>7, <1>8, NoneAssumption DEF IInv, TypeOK
  <2>3. QED
    BY <1>2, <1>3, <2>1, <2>2 DEF IInv, TypeOK, Queue!TypeOK
<1>11. \A n \in Messages : from[n] # None => n # m /\ ticket[n] \in 1..issued
  BY <1>1 DEF IInv, Filed
<1>12. Filed'
  <2>1. ASSUME NEW n \in Messages, from'[n] # None
        PROVE  /\ ticket'[n] \in 1..issued'
               /\ keyOf'[n] = sessionOf'[from'[n]]
               /\ \E i \in DOMAIN asked'[from'[n]] : asked'[from'[n]][i] = n
    <3>1. CASE n = m
      BY <1>1, <1>2, <1>5, <1>8, <3>1
    <3>2. CASE n # m
      <4>1. from[n] # None /\ from'[n] = from[n] /\ from[n] \in Sockets
        BY <1>7, <2>1, <3>2 DEF IInv, TypeOK
      <4>2. ticket'[n] \in 1..issued' /\ keyOf'[n] = sessionOf'[from'[n]]
        BY <1>1, <1>2, <1>7, <3>2, <4>1 DEF IInv, Filed, SessionFor
      <4>3. PICK i \in DOMAIN asked[from[n]] : asked[from[n]][i] = n
        BY <4>1 DEF IInv, Filed
      <4>4. i \in DOMAIN asked'[from[n]] /\ asked'[from[n]][i] = n
        BY <1>5, <1>6, <4>1, <4>3
      <4>5. QED
        BY <4>1, <4>2, <4>4
    <3>3. QED
      BY <3>1, <3>2
  <2>2. \A n, d \in Messages : from'[n] # None /\ from'[d] # None /\ ticket'[n] = ticket'[d] => n = d
    <3> SUFFICES ASSUME NEW n \in Messages, NEW d \in Messages, from'[n] # None, from'[d] # None,
                        ticket'[n] = ticket'[d]
                 PROVE  n = d
      OBVIOUS
    <3>1. \A e \in Messages \ {m} : from'[e] # None => ticket'[e] < issued + 1
      BY <1>1, <1>7, <1>11
    <3>2. ticket'[m] = issued + 1
      BY <1>8
    <3>3. CASE n = m
      BY <1>1, <3>1, <3>2, <3>3
    <3>4. CASE d = m
      BY <1>1, <3>1, <3>2, <3>4
    <3>5. CASE n # m /\ d # m
      BY <1>7, <3>5 DEF IInv, Filed
    <3>6. QED
      BY <3>3, <3>4, <3>5
  <2>3. ASSUME NEW r \in Sockets, NEW i \in DOMAIN asked'[r], NEW j \in DOMAIN asked'[r]
        PROVE  /\ from'[asked'[r][i]] = r
               /\ i < j => ticket'[asked'[r][i]] < ticket'[asked'[r][j]]
    <3>1. \A k \in DOMAIN asked[r] : /\ asked'[r][k] = asked[r][k] /\ asked[r][k] \in Messages \ {m}
                                     /\ from'[asked[r][k]] = r
                                     /\ ticket'[asked[r][k]] = ticket[asked[r][k]]
                                     /\ ticket[asked[r][k]] < issued + 1
      <4> SUFFICES ASSUME NEW k \in DOMAIN asked[r]
                   PROVE  /\ asked'[r][k] = asked[r][k] /\ asked[r][k] \in Messages \ {m}
                          /\ from'[asked[r][k]] = r
                          /\ ticket'[asked[r][k]] = ticket[asked[r][k]]
                          /\ ticket[asked[r][k]] < issued + 1
        OBVIOUS
      <4>1. asked[r][k] \in Messages \ {m} /\ asked'[r][k] = asked[r][k]
        BY <1>5, <1>6, <1>9
      <4>2. from[asked[r][k]] = r
        BY DEF IInv, Filed
      <4>3. ticket[asked[r][k]] \in 1..issued
        BY <1>11, <4>1, <4>2, NoneAssumption
      <4>4. QED
        BY <1>1, <1>7, <4>1, <4>2, <4>3
    <3>2. CASE r # s
      BY <1>6, <3>1, <3>2 DEF IInv, Filed
    <3>3. CASE r = s
      <4>1. i \in DOMAIN asked[s] \/ i = Len(asked[s]) + 1
        BY <1>5, <3>3
      <4>2. j \in DOMAIN asked[s] \/ j = Len(asked[s]) + 1
        BY <1>5, <3>3
      <4>3. from'[asked'[r][i]] = r
        BY <1>5, <1>8, <3>1, <3>3, <4>1
      <4>4. ASSUME i < j PROVE ticket'[asked'[r][i]] < ticket'[asked'[r][j]]
        <5>1. i \in DOMAIN asked[s]
          BY <1>5, <4>1, <4>2, <4>4
        <5>2. CASE j \in DOMAIN asked[s]
          BY <3>1, <3>3, <4>4, <5>1, <5>2 DEF IInv, Filed
        <5>3. CASE j = Len(asked[s]) + 1
          BY <1>5, <1>8, <3>1, <3>3, <5>1, <5>3
        <5>4. QED
          BY <4>2, <5>2, <5>3
      <4>5. QED
        BY <4>3, <4>4
    <3>4. QED
      BY <3>2, <3>3
  <2>4. QED
    BY <2>1, <2>2, <2>3 DEF Filed, SessionFor
<1>13. Serial'
  <2> SUFFICES ASSUME NEW n \in Messages, NEW d \in Messages, Begun(n)', d \in Queue!AheadOf(n)'
               PROVE  stage'[d] = "done"
    BY DEF Serial
  <2>1. n # m /\ Begun(n) /\ stage[n] # "new"
    BY <1>7, <1>8 DEF Begun
  <2>2. ticket[n] < issued + 1
    BY <1>1, <1>11, <2>1 DEF IInv, TypeOK
  <2>3. d # m
    BY <1>7, <1>8, <2>1, <2>2 DEF Queue!AheadOf, IInv, TypeOK, Queue!TypeOK
  <2>4. d \in Queue!AheadOf(n)
    BY <1>7, <2>1, <2>3 DEF Queue!AheadOf
  <2>5. QED
    BY <1>7, <2>1, <2>3, <2>4 DEF IInv, Serial
<1>14. Turned'
  <2> SUFFICES ASSUME NEW n \in Messages
               PROVE  /\ stage'[n] = "running" => turn[n] \in {"streaming", "ending", "dropped"}
                      /\ stage'[n] = "done" => turn[n] \in {"ended", "dropped"}
                      /\ turn[n] = "dropped" => sock[from'[n]] # "open"
    BY <1>2 DEF Turned
  <2>1. CASE n = m
    BY <1>1, <1>8, <2>1
  <2>2. CASE n # m
    BY <1>7, <2>2 DEF IInv, Turned
  <2>3. QED
    BY <2>1, <2>2
<1>15. \A t \in Sessions : \A i \in DOMAIN entries[t] : entries[t][i] \in Messages \ {m}
  <2> SUFFICES ASSUME NEW t \in Sessions, NEW i \in DOMAIN entries[t]
               PROVE  entries[t][i] \in Messages \ {m}
    OBVIOUS
  <2>1. entries[t] \in Seq(Messages)
    BY DEF IInv, TypeOK
  <2>2. stage[entries[t][i]] # "new"
    BY DEF IInv, Written, Begun
  <2>3. QED
    BY <1>1, <2>1, <2>2
<1>16. Written' /\ ConversationInArrivalOrder'
  BY <1>2, <1>7, <1>15 DEF IInv, Written, ConversationInArrivalOrder, Begun
<1>17. Counted'
  <2>1. \A r \in Sockets : Ends(wire[r]) \in Nat /\ wire'[r] = wire[r]
    BY <1>2, EndsAreCounted DEF IInv, TypeOK, Ends
  <2>2. turn[m] # "ended" /\ ~(Len(asked[s]) + 1 <= Ends(wire[s]))
    BY <1>1, <1>5, <2>1 DEF IInv, Counted
  <2>3. ASSUME NEW r \in Sockets
        PROVE  /\ Ends(wire[r]) <= Len(asked'[r])
               /\ sock[r] = "open" =>
                    \A i \in DOMAIN asked'[r] : i <= Ends(wire[r]) <=> turn[asked'[r][i]] = "ended"
    <3>1. CASE r # s
      BY <1>6, <3>1 DEF IInv, Counted
    <3>2. CASE r = s
      <4>1. Ends(wire[r]) <= Len(asked'[r])
        BY <1>5, <2>1, <3>2 DEF IInv, Counted
      <4>2. ASSUME sock[r] = "open", NEW i \in DOMAIN asked'[r]
            PROVE  i <= Ends(wire[r]) <=> turn[asked'[r][i]] = "ended"
        <5>1. CASE i \in DOMAIN asked[s]
          BY <1>5, <3>2, <4>2, <5>1 DEF IInv, Counted
        <5>2. CASE i = Len(asked[s]) + 1
          BY <1>5, <2>2, <3>2, <5>2
        <5>3. QED
          BY <1>5, <3>2, <5>1, <5>2
      <4>3. QED
        BY <4>1, <4>2
    <3>3. QED
      BY <3>1, <3>2
  <2>4. QED
    BY <1>2, <2>1, <2>3 DEF Counted
<1>18. Attributed'
  <2> SUFFICES ASSUME NEW r \in Sockets PROVE Attributable(wire[r], asked'[r])
    BY <1>2 DEF Attributed
  <2>1. CASE r # s
    BY <1>6, <2>1 DEF IInv, Attributed
  <2>2. CASE r = s
    <3>1. Attributable(wire[s], Append(asked[s], m))
      BY <1>4, AttributableLonger DEF IInv, Attributed
    <3>2. QED
      BY <1>2, <2>2, <3>1 DEF IInv, TypeOK
  <2>3. QED
    BY <2>1, <2>2
<1>19. Reading'
  BY <1>2 DEF IInv, Reading
<1>20. QED
  BY <1>19, <1>10, <1>12, <1>13, <1>14, <1>16, <1>17, <1>18 DEF IInv

-----------------------------------------------------------------------------
(* What the steps of a turn have in common.                                *)
Pushed(w, s, f) == IF sock[s] = "open" THEN [w EXCEPT ![s] = Append(@, f)] ELSE w

FramesOn(w) == w \in [Sockets -> Seq(Frames)] /\ \A r \in Sockets : Attributable(w[r], asked[r])

(* The frame answers nobody, or the message its client waits for.          *)
Due(w, s, f) ==
    sock[s] = "open" /\ f.of # None =>
        1 + Ends(w[s]) \in DOMAIN asked[s] /\ asked[s][1 + Ends(w[s])] = f.of

LEMMA FramePushed ==
  ASSUME NEW w, FramesOn(w), NEW s \in Sockets, NEW f \in Frames, Due(w, s, f)
  PROVE  /\ FramesOn(Pushed(w, s, f))
         /\ \A r \in Sockets :
              Ends(Pushed(w, s, f)[r]) = IF r = s /\ sock[s] = "open" /\ f.kind = "stream_end"
                                         THEN Ends(w[r]) + 1 ELSE Ends(w[r])
<1>1. CASE sock[s] # "open"
  BY <1>1 DEF Pushed
<1>2. CASE sock[s] = "open"
  <2> DEFINE v == Pushed(w, s, f)
  <2>1. /\ v = [w EXCEPT ![s] = Append(w[s], f)]
        /\ w \in [Sockets -> Seq(Frames)] /\ w[s] \in Seq(Frames)
    BY <1>2 DEF Pushed, FramesOn
  <2>2. /\ Append(w[s], f) \in Seq(Frames)
        /\ Ends(Append(w[s], f)) = IF f.kind = "stream_end" THEN Ends(w[s]) + 1 ELSE Ends(w[s])
    BY <2>1, EndsOfAppend
  <2>3. Attributable(w[s], asked[s])
    BY DEF FramesOn
  <2>4. f.of # None => 1 + Ends(w[s]) \in DOMAIN asked[s] /\ f.of = asked[s][1 + Ends(w[s])]
    BY <1>2 DEF Due
  <2>5. Attributable(Append(w[s], f), asked[s])
    BY <2>1, <2>3, <2>4, AttributableAppend
  <2> HIDE DEF v
  <2>6. v \in [Sockets -> Seq(Frames)] /\ v[s] = Append(w[s], f) /\ \A r \in Sockets \ {s} : v[r] = w[r]
    BY <2>1, <2>2
  <2>7. FramesOn(v)
    BY <2>5, <2>6 DEF FramesOn
  <2>8. \A r \in Sockets : Ends(v[r]) = IF r = s /\ f.kind = "stream_end" THEN Ends(w[r]) + 1 ELSE Ends(w[r])
    BY <2>2, <2>6
  <2>9. QED
    BY <1>2, <2>7, <2>8 DEF v
<1>3. QED
  BY <1>1, <1>2

LEMMA SentIsPushed ==
  ASSUME wire \in [Sockets -> Seq(Frames)], NEW s \in Sockets, NEW f \in Frames, NEW g \in Frames
  PROVE  /\ Sent(s, <<>> \o <<>>) = wire
         /\ Sent(s, <<f>>) = Pushed(wire, s, f)
         /\ Sent(s, <<f>> \o <<>>) = Pushed(wire, s, f)
         /\ Sent(s, <<>> \o <<g>>) = Pushed(wire, s, g)
         /\ Sent(s, <<f>> \o <<g>>) = Pushed(Pushed(wire, s, f), s, g)
<1>1. wire[s] \in Seq(Frames) /\ <<>> \in Seq(Frames) /\ <<f>> \in Seq(Frames) /\ <<g>> \in Seq(Frames)
  OBVIOUS
<1>2. /\ wire[s] \o <<f>> = Append(wire[s], f) /\ Append(wire[s], f) \in Seq(Frames)
      /\ wire[s] \o <<g>> = Append(wire[s], g)
      /\ Append(wire[s], f) \o <<g>> = Append(Append(wire[s], f), g)
  BY <1>1, AppendIsConcat, AppendProperties
<1>3. /\ <<>> \o <<>> = <<>> /\ <<f>> \o <<>> = <<f>> /\ <<>> \o <<g>> = <<g>>
      /\ wire[s] \o <<>> = wire[s]
  BY <1>1, ConcatEmptySeq
<1>4. wire[s] \o (<<f>> \o <<g>>) = (wire[s] \o <<f>>) \o <<g>>
  BY <1>1, ConcatAssociative
<1>5. Sent(s, <<f>> \o <<g>>) = Pushed(Pushed(wire, s, f), s, g)
  BY <1>1, <1>2, <1>4 DEF Sent, Pushed
<1>6. Sent(s, <<>> \o <<>>) = wire
  BY <1>1, <1>3 DEF Sent
<1>7. QED
  BY <1>1, <1>2, <1>3, <1>5, <1>6 DEF Sent, Pushed

LEMMA FramesKept ==
  ASSUME IInv
  PROVE  FramesOn(wire)
BY DEF IInv, TypeOK, Attributed, FramesOn

(* A frame that ends no turn leaves every client's count as it was.        *)
LEMMA CountKept ==
  ASSUME IInv, asked' = asked,
         \A r \in Sockets : Ends(wire'[r]) = Ends(wire[r]),
         \A r \in Sockets : sock'[r] = "open" => sock[r] = "open",
         \A m \in Messages : turn'[m] = "ended" <=> turn[m] = "ended"
  PROVE  Counted'
<1> SUFFICES ASSUME NEW s \in Sockets
             PROVE  /\ Ends(wire'[s]) <= Len(asked[s])
                    /\ sock'[s] = "open" =>
                         \A i \in DOMAIN asked[s] : i <= Ends(wire'[s]) <=> turn'[asked[s][i]] = "ended"
  BY DEF Counted
<1>1. asked[s] \in Seq(Messages)
  BY DEF IInv, TypeOK
<1>2. \A i \in DOMAIN asked[s] : asked[s][i] \in Messages
  BY <1>1
<1>3. QED
  BY <1>2 DEF IInv, Counted

(* The turn of m writes last: whoever wrote before it had its turn, and m  *)
(* would be through if it were ahead of that one.                          *)
LEMMA EntryAppended ==
  ASSUME IInv, NEW m \in Messages, from[m] # None, stage[m] # "done", Begun(m)',
         \A n \in Messages : Begun(n) => Begun(n)',
         UNCHANGED <<keyOf, ticket>>,
         entries' = [entries EXCEPT ![SessionFor(m)] = Append(@, m)]
  PROVE  /\ entries' \in [Sessions -> Seq(Messages)]
         /\ Written' /\ ConversationInArrivalOrder'
<1> DEFINE u == SessionFor(m)
<1>1. u \in Sessions /\ keyOf[m] = u /\ stage[m] # "new" /\ ticket[m] \in Nat
  BY NoneAssumption DEF IInv, TypeOK, Filed, SessionFor, Queue!TypeOK
<1>2. entries[u] \in Seq(Messages)
  BY <1>1 DEF IInv, TypeOK
<1>3. /\ Append(entries[u], m) \in Seq(Messages)
      /\ Len(entries[u]) \in Nat /\ DOMAIN entries[u] = 1..Len(entries[u])
      /\ DOMAIN Append(entries[u], m) = 1..(Len(entries[u]) + 1)
      /\ Append(entries[u], m)[Len(entries[u]) + 1] = m
      /\ \A i \in DOMAIN entries[u] : Append(entries[u], m)[i] = entries[u][i]
  BY <1>2, AppendProperties
<1>4. entries' = [entries EXCEPT ![u] = Append(entries[u], m)]
  OBVIOUS
<1> HIDE DEF u
<1>5. /\ entries' \in [Sessions -> Seq(Messages)]
      /\ entries'[u] = Append(entries[u], m)
      /\ \A t \in Sessions \ {u} : entries'[t] = entries[t]
  BY <1>1, <1>3, <1>4 DEF IInv, TypeOK
<1>6. \A t \in Sessions : \A i \in DOMAIN entries[t] :
        entries[t][i] \in Messages /\ Begun(entries[t][i]) /\ keyOf[entries[t][i]] = t
  <2> SUFFICES ASSUME NEW t \in Sessions, NEW i \in DOMAIN entries[t]
               PROVE  entries[t][i] \in Messages /\ Begun(entries[t][i]) /\ keyOf[entries[t][i]] = t
    OBVIOUS
  <2>1. entries[t] \in Seq(Messages)
    BY DEF IInv, TypeOK
  <2>2. QED
    BY <2>1 DEF IInv, Written
<1>7. Written'
  <2> SUFFICES ASSUME NEW t \in Sessions, NEW i \in DOMAIN entries'[t]
               PROVE  stage'[entries'[t][i]] \in {"running", "done"} /\ keyOf[entries'[t][i]] = t
    BY DEF Written, Begun
  <2>1. CASE t # u
    BY <1>5, <1>6, <2>1 DEF Begun
  <2>2. CASE t = u /\ i \in DOMAIN entries[u]
    BY <1>1, <1>3, <1>5, <1>6, <2>2 DEF Begun
  <2>3. CASE t = u /\ i = Len(entries[u]) + 1
    BY <1>1, <1>3, <1>5, <2>3 DEF Begun
  <2>4. QED
    BY <1>3, <1>5, <2>1, <2>2, <2>3
<1>8. \A i \in DOMAIN entries[u] : ticket[entries[u][i]] <= ticket[m]
  <2> SUFFICES ASSUME NEW i \in DOMAIN entries[u], ~(ticket[entries[u][i]] <= ticket[m])
               PROVE  FALSE
    OBVIOUS
  <2> DEFINE e == entries[u][i]
  <2>1. e \in Messages /\ Begun(e) /\ keyOf[e] = keyOf[m] /\ ticket[e] \in Nat
    BY <1>1, <1>6 DEF IInv, TypeOK, Queue!TypeOK
  <2>2. ticket[m] < ticket[e]
    BY <1>1, <2>1
  <2>3. m \in Queue!AheadOf(e)
    BY <1>1, <2>1, <2>2 DEF Queue!AheadOf
  <2>4. QED
    BY <2>1, <2>3 DEF IInv, Serial
<1>9. ConversationInArrivalOrder'
  <2> SUFFICES ASSUME NEW t \in Sessions, NEW i \in DOMAIN entries'[t], NEW j \in DOMAIN entries'[t], i < j
               PROVE  ticket[entries'[t][i]] <= ticket[entries'[t][j]]
    BY DEF ConversationInArrivalOrder
  <2>1. CASE t # u
    BY <1>5, <2>1 DEF IInv, ConversationInArrivalOrder
  <2>2. CASE t = u
    <3>1. i \in DOMAIN entries[u]
      BY <1>3, <1>5, <2>2
    <3>2. CASE j \in DOMAIN entries[u]
      BY <1>1, <1>3, <1>5, <2>2, <3>1, <3>2 DEF IInv, ConversationInArrivalOrder
    <3>3. CASE j = Len(entries[u]) + 1
      BY <1>3, <1>5, <1>8, <2>2, <3>1, <3>3
    <3>4. QED
      BY <1>3, <1>5, <2>2, <3>2, <3>3
  <2>3. QED
    BY <2>1, <2>2
<1>10. QED
  BY <1>5, <1>7, <1>9

LEMMA EntriesKept ==
  ASSUME IInv, \A n \in Messages : Begun(n) => Begun(n)', UNCHANGED <<keyOf, ticket, entries>>
  PROVE  /\ entries' \in [Sessions -> Seq(Messages)]
         /\ Written' /\ ConversationInArrivalOrder'
<1>1. \A t \in Sessions : \A i \in DOMAIN entries[t] : entries[t][i] \in Messages
  <2> SUFFICES ASSUME NEW t \in Sessions PROVE entries[t] \in Seq(Messages)
    OBVIOUS
  <2> QED
    BY DEF IInv, TypeOK
<1>2. QED
  BY <1>1 DEF IInv, TypeOK, Written, ConversationInArrivalOrder

(* Who is on the lists does not change where nobody arrives.               *)
LEMMA FiledKept ==
  ASSUME IInv, UNCHANGED <<keyOf, ticket, issued, from, asked, sessionOf>>
  PROVE  Filed'
BY DEF IInv, Filed, SessionFor

(* A message that has its turn has nobody ahead of it left.                *)
LEMMA RunningIsNext ==
  ASSUME IInv, NEW m \in Messages, turn[m] \in {"streaming", "ending", "dropped"}, stage[m] # "done"
  PROVE  /\ stage[m] = "running" /\ from[m] \in Sockets /\ Begun(m)
         /\ \A d \in Queue!AheadOf(m) : stage[d] = "done"
<1>1. stage[m] = "running" /\ from[m] \in Sockets
  BY DEF IInv, TypeOK, Queue!TypeOK
<1>2. QED
  BY <1>1 DEF IInv, Serial, Begun, Queue!AheadOf

-----------------------------------------------------------------------------
(* The lock hands its session over.                                        *)
LEMMA BeginTurnKeeps ==
  ASSUME IInv, NEW m \in Messages, BeginTurn(m)
  PROVE  IInv'
<1> USE DEF Admitted, Queue!Begin
<1>1. /\ stage[m] = "waiting" /\ stage' = [stage EXCEPT ![m] = "running"]
      /\ \A d \in Queue!AheadOf(m) : stage[d] = "done"
      /\ UNCHANGED <<keyOf, ticket, issued, sessionOf, sock, asked, from, verdict, chunks, offLock, listing>>
  BY DEF BeginTurn
<1>2. from[m] \in Sockets /\ from[m] # None /\ turn[m] = "waiting"
  BY <1>1, NoneAssumption DEF IInv, TypeOK
<1>3. stage'[m] = "running" /\ \A n \in Messages \ {m} : stage'[n] = stage[n]
  BY <1>1 DEF IInv, TypeOK, Queue!TypeOK
<1>4. Begun(m)' /\ \A n \in Messages : Begun(n) => Begun(n)'
  BY <1>3 DEF Begun
<1>5. Serial'
  <2> SUFFICES ASSUME NEW n \in Messages, NEW d \in Messages, Begun(n)', d \in Queue!AheadOf(n)'
               PROVE  stage'[d] = "done"
    BY DEF Serial
  <2>1. d \in Queue!AheadOf(n)
    BY <1>1, <1>3 DEF Queue!AheadOf
  <2>2. stage[d] = "done"
    BY <1>1, <1>3, <2>1 DEF IInv, Serial, Begun
  <2>3. QED
    BY <1>1, <1>3, <2>2
<1>6. Filed' /\ Reading'
  BY <1>1, FiledKept DEF IInv, Reading
<1>7. ASSUME NEW t \in {"dropped", "ending", "streaming"},
             turn' = [turn EXCEPT ![m] = t], t = "dropped" => sock[from[m]] # "open",
             entries' \in [Sessions -> Seq(Messages)], wire' \in [Sockets -> Seq(Frames)],
             \A r \in Sockets : Ends(wire'[r]) = Ends(wire[r])
      PROVE  TypeOK' /\ Turned' /\ Counted'
  <2>1. turn' \in [Messages -> Turns] /\ turn'[m] = t /\ \A n \in Messages \ {m} : turn'[n] = turn[n]
    BY <1>7 DEF IInv, TypeOK, Turns
  <2>2. \A n \in Messages : turn'[n] = "ended" <=> turn[n] = "ended"
    BY <1>2, <2>1
  <2>3. Counted'
    BY <1>1, <1>7, <2>2, CountKept
  <2>4. Turned'
    BY <1>1, <1>3, <1>7, <2>1 DEF IInv, Turned
  <2>5. \A n \in Messages : /\ stage'[n] = "new" <=> from'[n] = None
                            /\ stage'[n] \in {"new", "waiting"} <=> turn'[n] = "waiting"
    BY <1>1, <1>2, <1>3, <2>1 DEF IInv, TypeOK
  <2>6. Queue!TypeOK'
    BY <1>1 DEF IInv, TypeOK, Queue!TypeOK
  <2>7. QED
    BY <1>1, <1>7, <2>1, <2>3, <2>4, <2>5, <2>6 DEF IInv, TypeOK
<1>8. CASE /\ DroppedForClosedSocket(m) /\ turn' = [turn EXCEPT ![m] = "dropped"]
           /\ UNCHANGED <<entries, wire>>
  <2>1. entries' \in [Sessions -> Seq(Messages)] /\ Written' /\ ConversationInArrivalOrder'
    BY <1>1, <1>4, <1>8, EntriesKept
  <2>2. TypeOK' /\ Turned' /\ Counted'
    BY <1>7, <1>8, <2>1 DEF DroppedForClosedSocket, IInv, TypeOK
  <2>3. Attributed'
    BY <1>1, <1>8 DEF IInv, Attributed
  <2>4. QED
    BY <1>5, <1>6, <2>1, <2>2, <2>3 DEF IInv
<1>9. ASSUME NEW kind \in {"error", "upsert"}, ~DroppedForClosedSocket(m),
             wire' = Sent(from[m], <<Frame(m, kind)>>)
      PROVE  FramesOn(wire') /\ Attributed' /\ \A r \in Sockets : Ends(wire'[r]) = Ends(wire[r])
  <2> DEFINE f == Frame(m, kind)
  <2>1. f \in Frames /\ f.of = m /\ f.kind = kind
    BY FramesAreFrames DEF FrameKinds
  <2>2. wire' = Pushed(wire, from[m], f)
    BY <1>2, <1>9, <2>1, SentIsPushed DEF IInv, TypeOK
  <2>3. Due(wire, from[m], f)
    BY <1>1, <1>2, <1>9, <2>1, NextAnswered DEF Due, DroppedForClosedSocket
  <2> HIDE DEF f
  <2>4. /\ FramesOn(wire')
        /\ \A r \in Sockets : Ends(wire'[r]) = Ends(wire[r])
    BY <1>2, <1>9, <2>1, <2>2, <2>3, FramePushed, FramesKept
  <2>5. QED
    BY <1>1, <2>4 DEF FramesOn, Attributed
<1>10. CASE /\ ~DroppedForClosedSocket(m) /\ turn' = [turn EXCEPT ![m] = "ending"]
            /\ wire' = Sent(from[m], <<Frame(m, "error")>>)
            /\ UNCHANGED entries
  <2>1. entries' \in [Sessions -> Seq(Messages)] /\ Written' /\ ConversationInArrivalOrder'
    BY <1>1, <1>4, <1>10, EntriesKept
  <2>2. FramesOn(wire') /\ Attributed' /\ \A r \in Sockets : Ends(wire'[r]) = Ends(wire[r])
    BY <1>9, <1>10
  <2>3. TypeOK' /\ Turned' /\ Counted'
    BY <1>7, <1>10, <2>1, <2>2 DEF FramesOn
  <2>4. QED
    BY <1>5, <1>6, <2>1, <2>2, <2>3 DEF IInv
<1>11. CASE /\ ~DroppedForClosedSocket(m) /\ turn' = [turn EXCEPT ![m] = "streaming"]
            /\ entries' = [entries EXCEPT ![SessionFor(m)] = Append(@, m)]
            /\ wire' = Sent(from[m], <<Frame(m, "upsert")>>)
  <2>1. entries' \in [Sessions -> Seq(Messages)] /\ Written' /\ ConversationInArrivalOrder'
    BY <1>1, <1>2, <1>4, <1>11, EntryAppended
  <2>2. FramesOn(wire') /\ Attributed' /\ \A r \in Sockets : Ends(wire'[r]) = Ends(wire[r])
    BY <1>9, <1>11
  <2>3. TypeOK' /\ Turned' /\ Counted'
    BY <1>7, <1>11, <2>1, <2>2 DEF FramesOn
  <2>4. QED
    BY <1>5, <1>6, <2>1, <2>2, <2>3 DEF IInv
<1>12. QED
  BY <1>8, <1>10, <1>11 DEF BeginTurn

(* What moves neither the queue nor any turn keeps what is known of both.  *)
LEMMA TurnsKept ==
  ASSUME IInv, UNCHANGED <<queueVars, sessionOf, from, asked, turn>>,
         \A r \in Sockets : sock'[r] = "open" => sock[r] = "open"
  PROVE  Filed' /\ Serial' /\ Turned' /\ (\A n \in Messages : Begun(n) => Begun(n)')
<1>1. UNCHANGED <<stage, keyOf, ticket, issued>>
  BY DEF queueVars
<1>2. \A n \in Messages : turn[n] = "dropped" => sock'[from[n]] # "open"
  <2> SUFFICES ASSUME NEW n \in Messages, turn[n] = "dropped"
               PROVE  sock'[from[n]] # "open"
    OBVIOUS
  <2>1. from[n] \in Sockets /\ sock[from[n]] # "open"
    BY DEF IInv, TypeOK, Turned, Queue!TypeOK
  <2>2. QED
    BY <2>1
<1>3. Turned'
  BY <1>1, <1>2 DEF IInv, Turned
<1>4. QED
  BY <1>1, <1>3, FiledKept DEF IInv, Serial, Begun, Queue!AheadOf

(* A frame is answered off the lock, or the list one asked for.            *)
LEMMA AnswerKeeps ==
  ASSUME IInv, NEW s \in Sockets,
         (\E payload \in Payloads : AnswerFrame(s, payload)) \/ AnswerList(s)
  PROVE  IInv'
<1>1. UNCHANGED <<queueVars, sessionOf, sock, asked, from, verdict, turn, chunks, entries>>
  BY DEF AnswerFrame, AnswerList
<1>2. wire' = wire \/ wire' = Sent(s, <<Frame(None, "answer")>>)
  BY DEF AnswerFrame, AnswerList
<1>3. FramesOn(wire') /\ \A r \in Sockets : Ends(wire'[r]) = Ends(wire[r])
  <2>1. CASE wire' = wire
    BY <2>1, FramesKept
  <2>2. CASE wire' = Sent(s, <<Frame(None, "answer")>>)
    <3> DEFINE f == Frame(None, "answer")
    <3>1. f \in Frames /\ f.of = None /\ f.kind = "answer"
      BY FramesAreFrames DEF FrameKinds
    <3>2. wire' = Pushed(wire, s, f)
      BY <2>2, <3>1, SentIsPushed DEF IInv, TypeOK
    <3>3. Due(wire, s, f)
      BY <3>1 DEF Due
    <3> HIDE DEF f
    <3>4. QED
      BY <3>1, <3>2, <3>3, FramePushed, FramesKept
  <2>3. QED
    BY <1>2, <2>1, <2>2
<1>4. offLock' \in 0..MaxOffLock /\ listing' \in [Sockets -> 0..MaxOffLock] /\ Reading'
  <2>1. /\ listing \in [Sockets -> 0..MaxOffLock] /\ offLock \in 0..MaxOffLock
        /\ listing[s] \in Nat /\ MaxOffLock \in Nat
        /\ \A r \in Sockets : listing[r] \in Nat /\ listing[r] <= offLock
    BY BoundsAssumption DEF IInv, TypeOK, Reading
  <2>2. CASE /\ offLock < MaxOffLock /\ offLock' = offLock + 1
             /\ listing' = listing \/ listing' = [listing EXCEPT ![s] = @ + 1]
    <3>1. \A r \in Sockets : listing'[r] \in {listing[r], listing[r] + 1}
      BY <2>1, <2>2
    <3>2. listing' \in [Sockets -> 0..MaxOffLock]
      <4>1. CASE listing' = listing
        BY <2>1, <4>1
      <4>2. CASE listing' = [listing EXCEPT ![s] = @ + 1]
        <5>1. listing[s] + 1 \in 0..MaxOffLock
          BY <2>1, <2>2
        <5>2. QED
          BY <2>1, <4>2, <5>1
      <4>3. QED
        BY <2>2, <4>1, <4>2
    <3>3. QED
      BY <2>1, <2>2, <3>1, <3>2 DEF Reading
  <2>3. CASE listing[s] > 0 /\ offLock' = offLock /\ listing' = [listing EXCEPT ![s] = @ - 1]
    <3>1. listing[s] - 1 \in 0..MaxOffLock
      BY <2>1, <2>3
    <3>2. listing' \in [Sockets -> 0..MaxOffLock]
      BY <2>1, <2>3, <3>1
    <3>3. \A r \in Sockets : listing'[r] <= offLock
      BY <2>1, <2>3
    <3>4. QED
      BY <2>1, <2>3, <3>2, <3>3 DEF Reading
  <2>4. QED
    BY <2>2, <2>3 DEF AnswerFrame, AnswerList
<1>5. TypeOK'
  BY <1>1, <1>3, <1>4 DEF IInv, TypeOK, queueVars, Queue!TypeOK, FramesOn
<1>6. Counted'
  BY <1>1, <1>3, CountKept
<1>7. Filed' /\ Serial' /\ Turned' /\ Written' /\ ConversationInArrivalOrder'
  BY <1>1, TurnsKept, EntriesKept DEF queueVars
<1>8. Attributed'
  BY <1>1, <1>3 DEF FramesOn, Attributed
<1>9. QED
  BY <1>4, <1>5, <1>6, <1>7, <1>8 DEF IInv

(* A socket starts closing, or is closed.                                  *)
LEMMA ClosingKeeps ==
  ASSUME IInv, NEW s \in Sockets, StartClosing(s) \/ Close(s)
  PROVE  IInv'
<1>1. /\ UNCHANGED <<queueVars, sessionOf, asked, from, verdict, turn, chunks, entries, wire, offLock, listing>>
      /\ sock' \in [Sockets -> {"open", "closing", "closed"}]
      /\ \A r \in Sockets : sock'[r] = "open" => sock[r] = "open"
  BY DEF StartClosing, Close, IInv, TypeOK
<1>2. TypeOK'
  BY <1>1 DEF IInv, TypeOK, queueVars, Queue!TypeOK
<1>3. Counted'
  BY <1>1, CountKept
<1>4. Filed' /\ Serial' /\ Turned' /\ Written' /\ ConversationInArrivalOrder'
  BY <1>1, TurnsKept, EntriesKept DEF queueVars
<1>5. Attributed' /\ Reading'
  BY <1>1 DEF IInv, Attributed, Reading
<1>6. QED
  BY <1>2, <1>3, <1>4, <1>5 DEF IInv

(* A turn shows a chunk, or what its run held back.                        *)
LEMMA ChunkKeeps ==
  ASSUME IInv, NEW m \in Messages, Chunk(m)
  PROVE  IInv'
<1>1. /\ UNCHANGED <<queueVars, sessionOf, sock, asked, from, verdict, turn, offLock, listing>>
      /\ turn[m] = "streaming"
      /\ entries' = [entries EXCEPT ![SessionFor(m)] = Append(@, m)]
      /\ wire' = Sent(from[m], <<Frame(m, "chunk")>>)
  BY DEF Chunk
<1>2. chunks' \in [Messages -> 0..MaxChunks]
  BY BoundsAssumption DEF Chunk, IInv, TypeOK
<1>3. /\ stage[m] # "done" /\ from[m] \in Sockets /\ from[m] # None /\ Begun(m)
      /\ \A d \in Queue!AheadOf(m) : stage[d] = "done"
  BY <1>1, RunningIsNext, NoneAssumption DEF IInv, Turned
<1>4. Filed' /\ Serial' /\ Turned' /\ Begun(m)' /\ (\A n \in Messages : Begun(n) => Begun(n)')
  BY <1>1, <1>3, TurnsKept
<1>5. entries' \in [Sessions -> Seq(Messages)] /\ Written' /\ ConversationInArrivalOrder'
  BY <1>1, <1>3, <1>4, EntryAppended DEF queueVars
<1>6. FramesOn(wire') /\ \A r \in Sockets : Ends(wire'[r]) = Ends(wire[r])
  <2> DEFINE f == Frame(m, "chunk")
  <2>1. f \in Frames /\ f.of = m /\ f.kind = "chunk"
    BY FramesAreFrames DEF FrameKinds
  <2>2. wire' = Pushed(wire, from[m], f)
    BY <1>1, <1>3, <2>1, SentIsPushed DEF IInv, TypeOK
  <2>3. Due(wire, from[m], f)
    BY <1>1, <1>3, <2>1, NextAnswered DEF Due
  <2> HIDE DEF f
  <2>4. QED
    BY <1>3, <2>1, <2>2, <2>3, FramePushed, FramesKept
<1>7. TypeOK'
  BY <1>1, <1>2, <1>5, <1>6 DEF IInv, TypeOK, queueVars, Queue!TypeOK, FramesOn
<1>8. Counted'
  BY <1>1, <1>6, CountKept
<1>9. Attributed' /\ Reading'
  BY <1>1, <1>6 DEF FramesOn, Attributed, IInv, Reading
<1>10. QED
  BY <1>4, <1>5, <1>7, <1>8, <1>9 DEF IInv

(* A run ends, with what it held back, its error, both or neither.         *)
LEMMA FinishRunKeeps ==
  ASSUME IInv, NEW m \in Messages, NEW thrown \in BOOLEAN, NEW heldBack \in BOOLEAN,
         FinishRun(m, thrown, heldBack)
  PROVE  IInv'
<1> DEFINE s == from[m]
           c == Frame(m, "chunk")
           e == Frame(m, "error")
<1>1. /\ UNCHANGED <<queueVars, sessionOf, sock, asked, from, verdict, chunks, offLock, listing>>
      /\ turn[m] = "streaming" /\ turn' = [turn EXCEPT ![m] = "ending"]
      /\ entries' = IF heldBack THEN [entries EXCEPT ![SessionFor(m)] = Append(@, m)] ELSE entries
  BY DEF FinishRun
<1>2. /\ stage[m] = "running" /\ s \in Sockets /\ from[m] # None /\ Begun(m)
      /\ \A d \in Queue!AheadOf(m) : stage[d] = "done"
  BY <1>1, RunningIsNext, NoneAssumption DEF IInv, Turned
<1>3. \A n \in Messages : Begun(n) <=> Begun(n)'
  BY <1>1 DEF Begun, queueVars
<1>4. Filed' /\ Serial' /\ Reading'
  BY <1>1, FiledKept DEF queueVars, IInv, Serial, Begun, Queue!AheadOf, Reading
<1>5. entries' \in [Sessions -> Seq(Messages)] /\ Written' /\ ConversationInArrivalOrder'
  <2>1. CASE heldBack
    BY <1>1, <1>2, <1>3, <2>1, EntryAppended DEF queueVars
  <2>2. CASE ~heldBack
    BY <1>1, <1>3, <2>2, EntriesKept DEF queueVars
  <2>3. QED
    BY <2>1, <2>2
<1>6. /\ c \in Frames /\ c.of = m /\ c.kind = "chunk"
      /\ e \in Frames /\ e.of = m /\ e.kind = "error"
  BY FramesAreFrames DEF FrameKinds
<1>7. wire' = Sent(s, (IF heldBack THEN <<c>> ELSE <<>>) \o (IF thrown THEN <<e>> ELSE <<>>))
  BY DEF FinishRun
<1>8. Due(wire, s, c) /\ Due(wire, s, e)
  BY <1>1, <1>2, <1>6, NextAnswered DEF Due
<1>9. FramesOn(wire) /\ wire \in [Sockets -> Seq(Frames)]
  BY FramesKept DEF FramesOn
<1> HIDE DEF s, c, e
<1>10. /\ FramesOn(Pushed(wire, s, c))
       /\ \A r \in Sockets : Ends(Pushed(wire, s, c)[r]) = Ends(wire[r])
  BY <1>2, <1>6, <1>8, <1>9, FramePushed
<1>11. FramesOn(wire') /\ \A r \in Sockets : Ends(wire'[r]) = Ends(wire[r])
  <2>1. CASE heldBack /\ thrown
    <3>1. wire' = Pushed(Pushed(wire, s, c), s, e)
      BY <1>2, <1>6, <1>7, <1>9, <2>1, SentIsPushed
    <3>2. Due(Pushed(wire, s, c), s, e)
      BY <1>2, <1>8, <1>10 DEF Due
    <3>3. QED
      BY <1>2, <1>6, <1>10, <3>1, <3>2, FramePushed
  <2>2. CASE heldBack /\ ~thrown
    <3>1. wire' = Pushed(wire, s, c)
      BY <1>2, <1>6, <1>7, <1>9, <2>2, SentIsPushed
    <3>2. QED
      BY <1>10, <3>1
  <2>3. CASE ~heldBack /\ thrown
    <3>1. wire' = Pushed(wire, s, e)
      BY <1>2, <1>6, <1>7, <1>9, <2>3, SentIsPushed
    <3>2. QED
      BY <1>2, <1>6, <1>8, <1>9, <3>1, FramePushed
  <2>4. CASE ~heldBack /\ ~thrown
    <3>1. wire' = wire
      BY <1>2, <1>6, <1>7, <1>9, <2>4, SentIsPushed
    <3>2. QED
      BY <1>9, <3>1
  <2>5. QED
    BY <2>1, <2>2, <2>3, <2>4
<1>12. turn' \in [Messages -> Turns] /\ turn'[m] = "ending" /\ \A n \in Messages \ {m} : turn'[n] = turn[n]
  BY <1>1 DEF IInv, TypeOK, Turns
<1>13. Turned'
  BY <1>1, <1>2, <1>12 DEF IInv, Turned, queueVars
<1>14. Counted'
  BY <1>1, <1>11, <1>12, CountKept
<1>15. TypeOK'
  <2>1. \A n \in Messages : stage[n] \in {"new", "waiting"} <=> turn'[n] = "waiting"
    BY <1>1, <1>12 DEF IInv, TypeOK
  <2>2. QED
    BY <1>1, <1>5, <1>11, <1>12, <2>1 DEF IInv, TypeOK, queueVars, Queue!TypeOK, FramesOn
<1>16. Attributed'
  BY <1>1, <1>11 DEF FramesOn, Attributed
<1>17. QED
  BY <1>4, <1>5, <1>13, <1>14, <1>15, <1>16 DEF IInv

(* A turn gives the session back.                                          *)
LEMMA QueueFinished ==
  ASSUME IInv, NEW m \in Messages, Queue!Finish(m)
  PROVE  /\ Queue!TypeOK' /\ Serial' /\ UNCHANGED <<keyOf, ticket, issued>>
         /\ stage[m] = "running" /\ stage'[m] = "done" /\ \A n \in Messages \ {m} : stage'[n] = stage[n]
         /\ \A n \in Messages : Begun(n) => Begun(n)'
<1>1. /\ stage[m] = "running" /\ stage' = [stage EXCEPT ![m] = "done"]
      /\ UNCHANGED <<keyOf, ticket, issued>>
  BY DEF Queue!Finish
<1>2. stage'[m] = "done" /\ \A n \in Messages \ {m} : stage'[n] = stage[n]
  BY <1>1 DEF IInv, TypeOK, Queue!TypeOK
<1>3. Queue!TypeOK'
  BY <1>1 DEF IInv, TypeOK, Queue!TypeOK
<1>4. \A n \in Messages : Begun(n) <=> Begun(n)'
  BY <1>1, <1>2 DEF Begun
<1>5. \A n \in Messages : \A d \in Queue!AheadOf(n)' : d \in Queue!AheadOf(n)
  BY <1>1, <1>2 DEF Queue!AheadOf
<1>6. \A d \in Messages : stage[d] = "done" => stage'[d] = "done"
  BY <1>2
<1>7. Serial'
  BY <1>4, <1>5, <1>6 DEF IInv, Serial, Queue!AheadOf
<1>8. QED
  BY <1>1, <1>2, <1>3, <1>4, <1>7

LEMMA EndDroppedKeeps ==
  ASSUME IInv, NEW m \in Messages, EndDropped(m)
  PROVE  IInv'
<1>1. /\ UNCHANGED <<sessionOf, sock, asked, from, verdict, turn, chunks, entries, wire, offLock, listing>>
      /\ turn[m] = "dropped" /\ Queue!Finish(m)
  BY DEF EndDropped
<1>2. /\ Queue!TypeOK' /\ Serial' /\ UNCHANGED <<keyOf, ticket, issued>>
      /\ stage[m] = "running" /\ stage'[m] = "done" /\ \A n \in Messages \ {m} : stage'[n] = stage[n]
      /\ \A n \in Messages : Begun(n) => Begun(n)'
  BY <1>1, QueueFinished
<1>3. TypeOK'
  BY <1>1, <1>2 DEF IInv, TypeOK
<1>4. Turned'
  BY <1>1, <1>2 DEF IInv, Turned
<1>5. Filed' /\ Reading' /\ Attributed'
  BY <1>1, <1>2, FiledKept DEF IInv, Reading, Attributed
<1>6. Counted' /\ Written' /\ ConversationInArrivalOrder'
  BY <1>1, <1>2, CountKept, EntriesKept
<1>7. QED
  BY <1>2, <1>3, <1>4, <1>5, <1>6 DEF IInv

(* A turn ends, and its socket's client, if it is still there, is told.    *)
LEMMA EndTurnKeeps ==
  ASSUME IInv, NEW m \in Messages, EndTurn(m)
  PROVE  IInv'
<1> DEFINE s == from[m]
           f == Frame(m, "stream_end")
<1>1. /\ UNCHANGED <<sessionOf, sock, asked, from, verdict, chunks, entries, offLock, listing>>
      /\ turn[m] = "ending" /\ turn' = [turn EXCEPT ![m] = "ended"] /\ Queue!Finish(m)
  BY DEF EndTurn
<1>2. /\ Queue!TypeOK' /\ Serial' /\ UNCHANGED <<keyOf, ticket, issued>>
      /\ stage[m] = "running" /\ stage'[m] = "done" /\ \A n \in Messages \ {m} : stage'[n] = stage[n]
      /\ \A n \in Messages : Begun(n) => Begun(n)'
  BY <1>1, QueueFinished
<1>3. s \in Sockets /\ from[m] # None /\ \A d \in Queue!AheadOf(m) : stage[d] = "done"
  BY <1>1, <1>2, RunningIsNext, NoneAssumption
<1>4. turn' \in [Messages -> Turns] /\ turn'[m] = "ended" /\ \A n \in Messages \ {m} : turn'[n] = turn[n]
  BY <1>1 DEF IInv, TypeOK, Turns
<1>5. f \in Frames /\ f.of = m /\ f.kind = "stream_end"
  BY FramesAreFrames DEF FrameKinds
<1>6. Due(wire, s, f) /\ FramesOn(wire) /\ wire \in [Sockets -> Seq(Frames)]
  BY <1>1, <1>3, <1>5, NextAnswered, FramesKept DEF Due, FramesOn
<1>7. wire' = Pushed(wire, s, f) \/ (wire' = wire /\ sock[s] # "open")
  <2>1. CASE Aborted(m)
    BY <2>1 DEF EndTurn, Aborted
  <2>2. CASE ~Aborted(m)
    <3>1. wire' = Sent(s, <<f>>)
      BY <2>2 DEF EndTurn
    <3> HIDE DEF f
    <3>2. Sent(s, <<f>>) = Pushed(wire, s, f)
      BY <1>3, <1>5, <1>6, SentIsPushed
    <3>3. QED
      BY <3>1, <3>2
  <2>3. QED
    BY <2>1, <2>2
<1>8. sock[s] = "open" => 1 + Ends(wire[s]) \in DOMAIN asked[s] /\ asked[s][1 + Ends(wire[s])] = m
  BY <1>1, <1>3, NextAnswered
<1> HIDE DEF f
<1>9. /\ FramesOn(wire')
      /\ \A r \in Sockets : Ends(wire'[r]) = IF r = s /\ sock[s] = "open" THEN Ends(wire[r]) + 1 ELSE Ends(wire[r])
  <2>1. CASE wire' = Pushed(wire, s, f)
    BY <1>3, <1>5, <1>6, <2>1, FramePushed
  <2>2. CASE wire' = wire /\ sock[s] # "open"
    BY <1>6, <2>2
  <2>3. QED
    BY <1>7, <2>1, <2>2
<1>10. TypeOK'
  <2>1. \A n \in Messages : /\ stage'[n] = "new" <=> from[n] = None
                            /\ stage'[n] \in {"new", "waiting"} <=> turn'[n] = "waiting"
    BY <1>2, <1>3, <1>4 DEF IInv, TypeOK
  <2>2. QED
    BY <1>1, <1>2, <1>4, <1>9, <2>1 DEF IInv, TypeOK, FramesOn
<1>11. Turned'
  BY <1>1, <1>2, <1>4 DEF IInv, Turned
<1>12. Counted'
  <2> SUFFICES ASSUME NEW r \in Sockets
               PROVE  /\ Ends(wire'[r]) <= Len(asked[r])
                      /\ sock[r] = "open" =>
                           \A i \in DOMAIN asked[r] : i <= Ends(wire'[r]) <=> turn'[asked[r][i]] = "ended"
    BY <1>1 DEF Counted
  <2>1. /\ Ends(wire[r]) \in Nat /\ asked[r] \in Seq(Messages)
        /\ DOMAIN asked[r] = 1..Len(asked[r]) /\ Len(asked[r]) \in Nat
        /\ \A i \in DOMAIN asked[r] : asked[r][i] \in Messages /\ from[asked[r][i]] = r
    <3>1. asked[r] \in Seq(Messages) /\ wire[r] \in Seq(Frames)
      BY DEF IInv, TypeOK
    <3>2. QED
      BY <3>1, EndsAreCounted DEF IInv, Filed, Ends
  <2>2. /\ Ends(wire[r]) <= Len(asked[r])
        /\ sock[r] = "open" => \A i \in DOMAIN asked[r] : i <= Ends(wire[r]) <=> turn[asked[r][i]] = "ended"
    BY DEF IInv, Counted
  <2>3. CASE r # s
    BY <1>4, <1>9, <2>1, <2>2, <2>3
  <2>4. CASE r = s /\ sock[s] # "open"
    BY <1>9, <2>2, <2>4
  <2>5. CASE r = s /\ sock[s] = "open"
    <3> DEFINE n == Ends(wire[r])
    <3>1. Ends(wire'[r]) = n + 1 /\ n + 1 \in DOMAIN asked[r] /\ asked[r][n + 1] = m
      BY <1>8, <1>9, <2>1, <2>5
    <3>2. \A i, j \in DOMAIN asked[r] : i < j => ticket[asked[r][i]] < ticket[asked[r][j]]
      BY DEF IInv, Filed
    <3> HIDE DEF n
    <3>3. \A i \in DOMAIN asked[r] : i # n + 1 => asked[r][i] # m
      <4> SUFFICES ASSUME NEW i \in DOMAIN asked[r], i # n + 1, asked[r][i] = m
                   PROVE  FALSE
        OBVIOUS
      <4>1. i < n + 1 \/ n + 1 < i
        BY <2>1, <3>1
      <4>2. ticket[m] < ticket[m] /\ ticket[m] \in Nat
        BY <3>1, <3>2, <4>1 DEF IInv, TypeOK, Queue!TypeOK
      <4>3. QED
        BY <4>2
    <3>4. ASSUME NEW i \in DOMAIN asked[r]
          PROVE  i <= n + 1 <=> turn'[asked[r][i]] = "ended"
      <4>1. CASE i = n + 1
        BY <1>4, <2>1, <3>1, <4>1 DEF n
      <4>2. CASE i # n + 1
        BY <1>4, <2>1, <2>2, <2>5, <3>3, <4>2 DEF n
      <4>3. QED
        BY <4>1, <4>2
    <3>5. QED
      BY <2>1, <3>1, <3>4 DEF n
  <2>6. QED
    BY <2>3, <2>4, <2>5
<1>13. Filed' /\ Reading' /\ Written' /\ ConversationInArrivalOrder'
  BY <1>1, <1>2, FiledKept, EntriesKept DEF IInv, Reading
<1>14. Attributed'
  BY <1>1, <1>9 DEF FramesOn, Attributed
<1>15. QED
  BY <1>2, <1>10, <1>11, <1>12, <1>13, <1>14 DEF IInv

-----------------------------------------------------------------------------
LEMMA NextKeeps == IInv /\ [Next]_vars => IInv'
<1> SUFFICES ASSUME IInv, [Next]_vars PROVE IInv'
  OBVIOUS
<1>1. ASSUME NEW s \in Sockets, NEW m \in Messages, NEW payload \in Payloads,
             NEW withinBudget \in BOOLEAN, Arrive(s, m, payload, withinBudget)
      PROVE  IInv'
  BY <1>1, ArriveKeeps
<1>2. ASSUME NEW s \in Sockets, (\E payload \in Payloads : AnswerFrame(s, payload)) \/ AnswerList(s)
      PROVE  IInv'
  BY <1>2, AnswerKeeps
<1>3. ASSUME NEW s \in Sockets, StartClosing(s) \/ Close(s)
      PROVE  IInv'
  BY <1>3, ClosingKeeps
<1>4. ASSUME NEW m \in Messages, Progress(m)
      PROVE  IInv'
  BY <1>4, BeginTurnKeeps, EndTurnKeeps, EndDroppedKeeps DEF Progress
<1>5. ASSUME NEW m \in Messages, Chunk(m)
      PROVE  IInv'
  BY <1>5, ChunkKeeps
<1>6. ASSUME NEW m \in Messages, RunOver(m)
      PROVE  IInv'
  BY <1>6, FinishRunKeeps DEF RunOver
<1>7. CASE UNCHANGED vars
  <2>1. UNCHANGED <<queueVars, sessionOf, sock, asked, from, verdict, turn, chunks, entries, wire, offLock, listing>>
    BY <1>7 DEF vars
  <2>2. TypeOK'
    BY <2>1 DEF IInv, TypeOK, queueVars, Queue!TypeOK
  <2>3. Filed' /\ Serial' /\ Turned' /\ Written' /\ ConversationInArrivalOrder' /\ Counted'
    BY <2>1, TurnsKept, EntriesKept, CountKept DEF queueVars
  <2>4. Reading' /\ Attributed'
    BY <2>1 DEF IInv, Reading, Attributed
  <2>5. QED
    BY <2>2, <2>3, <2>4 DEF IInv
<1>8. QED
  BY <1>1, <1>2, <1>3, <1>4, <1>5, <1>6, <1>7 DEF Next

LEMMA Always == Spec => []IInv
BY InitEstablishes, NextKeeps, PTL DEF Spec, SafeSpec

(* The sockets, their messages and the queue they wait in keep their types, *)
(* whatever arrives, fails or closes.                                      *)
THEOREM TypeCorrect == Spec => []TypeOK
<1>1. IInv => TypeOK
  BY DEF IInv
<1>2. QED
  BY <1>1, Always, PTL

(* The turns of a session write its conversation in the order their        *)
(* messages arrived, on however many sockets (messageHandler.ts:52).       *)
THEOREM ArrivalOrder == Spec => []ConversationInArrivalOrder
<1>1. IInv => ConversationInArrivalOrder
  BY DEF IInv
<1>2. QED
  BY <1>1, Always, PTL

(* A client that counts the stream_ends knows which of its messages every  *)
(* frame answers, on any number of sockets and with any of them closing    *)
(* (messageHandler.ts:64,79).                                              *)
THEOREM CountingClientsKnow == Spec => []AnswersAttributable
<1>1. IInv => AnswersAttributable
  BY AttributedAnswers DEF IInv
<1>2. QED
  BY <1>1, Always, PTL
=============================================================================
