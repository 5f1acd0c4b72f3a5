------------------------- MODULE SessionHistoryProofs -------------------------
(***************************************************************************)
(* Proofs about paging through a history, for any number of sessions,      *)
(* walks and rows to a page.                                               *)
(*                                                                         *)
(* What a walk was shown lies in the past, and where the rows of then are  *)
(* now matters: Behind says that none of them is after the walk's cursor,  *)
(* because a session's activity only rises; Ahead, that whatever stayed as *)
(* it was and is not shown is after it.  Chained keeps the client's order  *)
(* of requests and the socket's order of reads the same.                   *)
(***************************************************************************)
EXTENDS SessionHistory, TLAPS

Running(w) == walk[w].at \in {"start", "asked", "more"}

Chained ==
    /\ Len(asked) = Len(reading)
    /\ \A i \in 1..Len(asked) :
           /\ reading[i].walk = asked[i]
           /\ walk[asked[i]].at = "asked"
           /\ reading[i].before = walk[asked[i]].cursor
    /\ \A i, j \in 1..Len(asked) : asked[i] = asked[j] => i = j

NotAfter(s, cursors) == \A cursor \in cursors : s \in held => ~SitsAfter(Row(s), cursor)

Behind ==
    \A w \in Walks, s \in Sessions :
        walk[w].shown[s] > 0 =>
            /\ s \in minted
            /\ Running(w) => walk[w].cursor # {} /\ NotAfter(s, walk[w].cursor)

(* A row that was read and is not answered yet.                            *)
Read(row, before) ==
    /\ row.id \in minted
    /\ row.id \in held => row.at <= activity[row.id]
    /\ \A cursor \in before : SitsAfter(row, cursor)

Unseen ==
    \A i \in 1..Len(asked) : \A row \in reading[i].page :
        /\ Read(row, reading[i].before)
        /\ walk[asked[i]].shown[row.id] = 0

(* Of the rows that were there all along.                                  *)
Ahead ==
    \A w \in Walks : walk[w].at \in {"asked", "more"} =>
        \A row \in steady[w] : \/ walk[w].shown[row.id] > 0
                               \/ \A cursor \in walk[w].cursor : SitsAfter(row, cursor)

Covered(row, page) == \/ row \in page
                      \/ ~(Cardinality(page) < PageSize) /\ \A other \in page : Newer(other, row)

Covers ==
    \A i \in 1..Len(asked) : reading[i].found =>
        \A row \in steady[asked[i]] : \/ walk[asked[i]].shown[row.id] > 0
                                      \/ Covered(row, reading[i].page)

Blank == \A w \in Walks : walk[w].at = "start" => walk[w].cursor = {}

IInv == TypeOK /\ Chained /\ Behind /\ Unseen /\ EachRowOnce
MInv == IInv /\ Blank /\ Ahead /\ Covers /\ WalkMissesNone

-----------------------------------------------------------------------------
LEMMA FirstRemoved ==
  ASSUME NEW S, NEW s \in Seq(S), s # <<>>
  PROVE  RemoveAt(s, 1) = Tail(s)
<1>1. SubSeq(s, 1, 0) = <<>> /\ SubSeq(s, 2, Len(s)) = Tail(s)
  OBVIOUS
<1>2. <<>> \o Tail(s) = Tail(s)
  OBVIOUS
<1>3. QED
  BY <1>1, <1>2 DEF RemoveAt

LEMMA RowType == ASSUME TypeOK, NEW s \in Sessions PROVE Row(s) \in Rows /\ Row(s).id = s /\ Row(s).at = activity[s]
  BY WindowAssumption DEF TypeOK, Row, Rows

LEMMA OwnedIsHeld ==
  ASSUME TypeOK, NEW row \in Owned
  PROVE  row.id \in held /\ row.id \in Sessions /\ row = Row(row.id) /\ row \in Rows
  BY RowType DEF Owned, TypeOK, Row

LEMMA FrameType ==
  ASSUME TypeOK, Chained, NEW i \in 1..Len(asked)
  PROVE  reading[i] \in Frames /\ asked[i] \in Walks /\ reading[i].page \subseteq Rows
<1>1. i \in 1..Len(reading)
  BY DEF Chained
<1>2. reading[i] \in Frames
  BY <1>1 DEF TypeOK
<1>3. QED
  BY <1>2 DEF TypeOK, Frames

(* Sessions are written to and dropped, and new ones come: what is held of *)
(* an older one has only risen.                                            *)
Risen == /\ minted \subseteq minted'
         /\ \A s \in Sessions : s \in held' /\ s \in minted => s \in held /\ activity[s] <= activity'[s]

LEMMA StampsAreTimes == ASSUME TypeOK, NEW last \in 0..now, NEW stamp \in Stamps(last)
                        PROVE  stamp \in 1..now /\ last <= stamp
  BY DEF Stamps, TypeOK

SessionStep == \/ \E s \in Sessions : \/ \E stamp \in Stamps(1) : Create(s, stamp)
                                      \/ \E stamp \in Stamps(activity[s]) : Write(s, stamp)
                                      \/ Lookup(s)
               \/ \E gone \in (SUBSET held) \ {{}} : Delete(gone)
               \/ Tick

SessionTypes == /\ store' \in {"memory", "mongo"} /\ now' \in 1..MaxNow
                /\ minted' \subseteq Sessions /\ held' \subseteq minted'
                /\ createdAt' \in [Sessions -> 0..now'] /\ activity' \in [Sessions -> 0..now']

LEMMA DropRises == ASSUME TypeOK, NEW gone \in SUBSET held, Drop(gone), UNCHANGED <<store, now>>
                   PROVE  SessionTypes /\ Risen
  BY WindowAssumption DEF TypeOK, Drop, SessionTypes, Risen

LEMMA SessionsRise == ASSUME TypeOK, SessionStep PROVE SessionTypes /\ Risen /\ UNCHANGED <<reading, asked, walk>>
<1>1. ASSUME NEW s \in Sessions, NEW stamp \in Stamps(1), Create(s, stamp)
      PROVE  SessionTypes /\ Risen
  <2>1. stamp \in 0..now
    BY StampsAreTimes, <1>1 DEF TypeOK
  <2>2. createdAt' \in [Sessions -> 0..now'] /\ activity' \in [Sessions -> 0..now']
    BY <1>1, <2>1, WindowAssumption DEF Create, TypeOK
  <2>3. \A q \in Sessions : q \in held' /\ q \in minted => q \in held /\ activity[q] <= activity'[q]
    BY <1>1 DEF Create, TypeOK
  <2>4. QED
    BY <1>1, <2>2, <2>3 DEF Create, TypeOK, SessionTypes, Risen
<1>2. ASSUME NEW s \in Sessions, NEW stamp \in Stamps(activity[s]), Write(s, stamp)
      PROVE  SessionTypes /\ Risen
  <2>1. stamp \in 0..now /\ activity[s] <= stamp
    BY StampsAreTimes, <1>2 DEF TypeOK
  <2>2. QED
    BY <1>2, <2>1 DEF Write, TypeOK, SessionTypes, Risen
<1>3. ASSUME NEW s \in Sessions, Lookup(s) PROVE SessionTypes /\ Risen
  BY <1>3, DropRises DEF Lookup
<1>4. ASSUME NEW gone \in SUBSET held, Delete(gone) PROVE SessionTypes /\ Risen
  BY <1>4, DropRises DEF Delete
<1>5. CASE Tick
  BY <1>5, WindowAssumption DEF Tick, sessionVars, TypeOK, SessionTypes, Risen
<1>6. UNCHANGED <<reading, asked, walk>>
  BY DEF SessionStep, Create, Write, Lookup, Delete, Tick
<1>7. QED
  BY <1>1, <1>2, <1>3, <1>4, <1>5, <1>6 DEF SessionStep

LEMMA WatchKeeps ==
  ASSUME TypeOK, Watch, SessionTypes
  PROVE  /\ steady' \in [Walks -> SUBSET Rows]
         /\ \A w \in Walks : steady'[w] \subseteq Owned' \/ ~Running(w)
         /\ \A w \in Walks : walk[w].at # "start" => steady'[w] \subseteq steady[w]
<1>1. \A row \in Owned' : row \in Rows
  BY WindowAssumption DEF SessionTypes, Owned, Row, Rows, TypeOK
<1>2. QED
  BY <1>1 DEF Watch, TypeOK, Running

LEMMA SessionsKeep == IInv /\ SessionStep /\ Watch => IInv'
<1> SUFFICES ASSUME IInv, SessionStep, Watch PROVE IInv'
  OBVIOUS
<1> USE DEF IInv
<1>1. SessionTypes /\ Risen /\ UNCHANGED <<reading, asked, walk>>
  BY SessionsRise
<1>2. TypeOK'
  BY <1>1, WatchKeeps DEF TypeOK, SessionTypes
<1>3. Chained' /\ EachRowOnce'
  BY <1>1 DEF Chained, EachRowOnce
<1>4. Behind'
  <2> SUFFICES ASSUME NEW w \in Walks, NEW s \in Sessions, walk[w].shown[s] > 0
               PROVE  /\ s \in minted'
                      /\ Running(w) => walk[w].cursor # {} /\ NotAfter(s, walk[w].cursor)'
    BY <1>1 DEF Behind, Running, NotAfter
  <2>1. s \in minted /\ (Running(w) => walk[w].cursor # {} /\ NotAfter(s, walk[w].cursor))
    BY DEF Behind
  <2>2. ASSUME Running(w) PROVE NotAfter(s, walk[w].cursor)'
    <3> SUFFICES ASSUME NEW cursor \in walk[w].cursor, s \in held' PROVE ~SitsAfter(Row(s)', cursor)
      BY <1>1 DEF NotAfter, SitsAfter
    <3>1. s \in held /\ activity[s] <= activity'[s]
      BY <1>1, <2>1 DEF Risen
    <3>2. ~SitsAfter(Row(s), cursor)
      BY <2>1, <2>2, <3>1 DEF NotAfter
    <3>3. cursor.at \in Nat /\ cursor.id \in Sessions /\ activity[s] \in Nat /\ activity'[s] \in Nat
      <4>1. walk[w].cursor \subseteq Rows
        BY DEF TypeOK
      <4>2. activity[s] \in Nat /\ activity'[s] \in Nat
        BY <1>1, WindowAssumption DEF TypeOK, SessionTypes
      <4>3. QED
        BY <4>1, <4>2 DEF Rows
    <3>4. QED
      BY <3>1, <3>2, <3>3, IdsAssumption DEF SitsAfter, Row
  <2>3. QED
    BY <1>1, <2>1, <2>2 DEF Risen
<1>5. Unseen'
  <2> SUFFICES ASSUME NEW i \in 1..Len(asked), NEW row \in reading[i].page
               PROVE  Read(row, reading[i].before)' /\ walk[asked[i]].shown[row.id] = 0
    BY <1>1 DEF Unseen, Read
  <2>1. Read(row, reading[i].before) /\ walk[asked[i]].shown[row.id] = 0
    BY DEF Unseen
  <2>2. row \in Rows
    BY FrameType
  <2>3. row.id \in held' => row.at <= activity'[row.id]
    BY <1>1, <1>2, <2>1, <2>2, WindowAssumption DEF Read, Risen, TypeOK, Rows
  <2>4. QED
    BY <1>1, <2>1, <2>3 DEF Read, Risen
<1>6. QED
  BY <1>2, <1>3, <1>4, <1>5

-----------------------------------------------------------------------------
LEMMA SameSessions == ASSUME TypeOK, UNCHANGED <<store, now>>, UNCHANGED sessionVars PROVE SessionTypes
  BY DEF TypeOK, SessionTypes, sessionVars

LEMMA AskKeeps == ASSUME IInv, NEW w \in Walks, Ask(w), Watch PROVE IInv'
<1> USE DEF IInv
<1> DEFINE frame == [walk |-> w, before |-> walk[w].cursor, found |-> FALSE, page |-> {}]
           n == Len(asked)
<1>1. frame \in Frames
  BY DEF TypeOK, Frames
<1>2. /\ reading' = Append(reading, frame) /\ asked' = Append(asked, w)
      /\ reading \in Seq(Frames) /\ asked \in Seq(Walks) /\ n \in Nat /\ Len(reading) = n
  BY DEF Ask, TypeOK, Chained
<1>3. /\ reading' \in Seq(Frames) /\ asked' \in Seq(Walks)
      /\ Len(asked') = n + 1 /\ Len(reading') = n + 1
      /\ asked'[n + 1] = w /\ reading'[n + 1] = frame
      /\ \A i \in 1..n : asked'[i] = asked[i] /\ reading'[i] = reading[i]
  BY <1>1, <1>2
<1>4. /\ \A v \in Walks : /\ walk'[v].cursor = walk[v].cursor /\ walk'[v].shown = walk[v].shown
                          /\ v # w => walk'[v] = walk[v]
      /\ walk'[w].at = "asked"
      /\ walk' \in [Walks -> [at : {"start", "asked", "more", "over", "refused"},
                              cursor : SUBSET Rows, shown : [Sessions -> Nat]]]
  BY DEF Ask, TypeOK
<1>5. \A i \in 1..n : asked[i] \in Walks /\ asked[i] # w
  BY FrameType DEF Chained, Ask
<1>6. TypeOK'
  <2>1. steady' \in [Walks -> SUBSET Rows]
    BY SameSessions, WatchKeeps DEF Ask
  <2>2. QED
    BY <1>3, <1>4, <2>1 DEF TypeOK, Ask, sessionVars
<1> HIDE DEF frame, n
<1>7. Chained'
  <2>1. \A i \in 1..(n + 1) : i = n + 1 \/ i \in 1..n
    BY <1>2
  <2>2. \A i \in 1..n : /\ reading[i].walk = asked[i] /\ walk[asked[i]].at = "asked"
                       /\ reading[i].before = walk[asked[i]].cursor
    BY DEF Chained, n
  <2>3. \A i \in 1..(n + 1) : /\ reading'[i].walk = asked'[i] /\ walk'[asked'[i]].at = "asked"
                             /\ reading'[i].before = walk'[asked'[i]].cursor
    <3> TAKE i \in 1..(n + 1)
    <3>1. CASE i = n + 1
      BY <1>3, <1>4, <3>1 DEF frame
    <3>2. CASE i \in 1..n
      <4>1. asked'[i] = asked[i] /\ reading'[i] = reading[i] /\ walk'[asked[i]] = walk[asked[i]]
        BY <1>3, <1>4, <1>5, <3>2
      <4>2. QED
        BY <2>2, <3>2, <4>1
    <3>3. QED
      BY <2>1, <3>1, <3>2
  <2>4. \A i, j \in 1..(n + 1) : asked'[i] = asked'[j] => i = j
    BY <1>3, <1>5, <2>1 DEF Chained, n
  <2>5. QED
    BY <1>3, <2>3, <2>4 DEF Chained
<1>8. Behind'
  <2>1. \A v \in Walks : Running(v)' => Running(v)
    BY <1>4 DEF Ask, Running
  <2>2. QED
    BY <1>4, <2>1 DEF Behind, NotAfter, SitsAfter, Row, Ask, sessionVars
<1>9. Unseen'
  <2>1. \A i \in 1..(n + 1) : i = n + 1 \/ i \in 1..n
    BY <1>2
  <2>2. \A i \in 1..n : \A row \in reading[i].page :
            Read(row, reading[i].before) /\ walk[asked[i]].shown[row.id] = 0
    BY DEF Unseen, n
  <2>3. UNCHANGED <<minted, held, activity>>
    BY DEF Ask, sessionVars
  <2>4. ASSUME NEW i \in 1..(n + 1), NEW row \in reading'[i].page
        PROVE  (Read(row, reading[i].before) /\ walk[asked[i]].shown[row.id] = 0)'
    <3>1. i # n + 1
      BY <1>3, <2>4 DEF frame
    <3>2. i \in 1..n
      BY <2>1, <3>1
    <3>3. asked'[i] = asked[i] /\ reading'[i] = reading[i] /\ walk'[asked[i]] = walk[asked[i]]
      BY <1>3, <1>4, <1>5, <3>2
    <3>4. QED
      BY <2>2, <2>3, <2>4, <3>2, <3>3 DEF Read
  <2>5. Len(asked') = n + 1
    BY <1>3
  <2>6. QED
    BY <2>4, <2>5 DEF Unseen
<1>10. EachRowOnce'
  BY <1>4 DEF EachRowOnce
<1>11. QED
  BY <1>6, <1>7, <1>8, <1>9, <1>10

(* A page is read, now, after its cursor, and shows nothing that its walk  *)
(* has seen.                                                               *)
LEMMA PageIsRead ==
  ASSUME TypeOK, Behind, NEW w \in Walks, walk[w].at = "asked",
         NEW page \in Pages(walk[w].cursor), NEW row \in page
  PROVE  row \in Rows /\ Read(row, walk[w].cursor) /\ walk[w].shown[row.id] = 0
<1>1. row \in Owned /\ \A cursor \in walk[w].cursor : SitsAfter(row, cursor)
  BY DEF Pages, From
<1>2. row.id \in held /\ row.id \in Sessions /\ row = Row(row.id) /\ row \in Rows
  BY <1>1, OwnedIsHeld
<1>3. row.at = activity[row.id] /\ activity[row.id] \in Nat
  BY <1>2, RowType DEF Rows
<1>4. Read(row, walk[w].cursor)
  BY <1>1, <1>2, <1>3 DEF Read, TypeOK
<1>5. walk[w].shown[row.id] = 0
  <2>1. walk[w].shown[row.id] \in Nat
    BY <1>2 DEF TypeOK
  <2>2. CASE walk[w].shown[row.id] > 0
    <3>1. walk[w].cursor # {} /\ NotAfter(row.id, walk[w].cursor)
      BY <1>2, <2>2 DEF Behind, Running
    <3>2. QED
      BY <1>1, <1>2, <3>1 DEF NotAfter
  <2>3. QED
    BY <2>1, <2>2
<1>6. QED
  BY <1>2, <1>4, <1>5

LEMMA FirstReplaced ==
  ASSUME NEW S, NEW s \in Seq(S), s # <<>>, NEW e \in S
  PROVE  /\ [s EXCEPT ![1] = e] \in Seq(S) /\ Len([s EXCEPT ![1] = e]) = Len(s)
         /\ [s EXCEPT ![1] = e][1] = e
         /\ \A i \in 1..Len(s) : i # 1 => [s EXCEPT ![1] = e][i] = s[i]
  OBVIOUS

LEMMA FindShape ==
  ASSUME TypeOK, Chained, asked # <<>>, NEW page \in SUBSET Rows,
         reading' = [reading EXCEPT ![1].found = TRUE, ![1].page = page]
  PROVE  /\ Len(reading') = Len(reading) /\ reading' \in Seq(Frames)
         /\ reading'[1].walk = reading[1].walk /\ reading'[1].before = reading[1].before
         /\ reading'[1].page = page
         /\ \A i \in 1..Len(asked) : i # 1 => reading'[i] = reading[i]
<1> DEFINE frame == [reading[1] EXCEPT !.found = TRUE, !.page = page]
<1>1. 1 \in 1..Len(asked) /\ Len(reading) = Len(asked) /\ reading \in Seq(Frames)
  BY DEF TypeOK, Chained
<1>2. /\ frame \in Frames /\ frame.walk = reading[1].walk /\ frame.before = reading[1].before
      /\ frame.page = page
  <2>1. reading[1] \in Frames
    BY <1>1, FrameType
  <2>2. QED
    BY <2>1 DEF Frames
<1>3. reading' = [reading EXCEPT ![1] = frame]
  OBVIOUS
<1> HIDE DEF frame
<1>4. /\ Len(reading') = Len(reading) /\ reading' \in Seq(Frames) /\ reading'[1] = frame
      /\ \A i \in 1..Len(asked) : i # 1 => reading'[i] = reading[i]
  <2>1. reading # <<>>
    BY <1>1
  <2> DEFINE next == [reading EXCEPT ![1] = frame]
  <2>2. /\ next \in Seq(Frames) /\ Len(next) = Len(reading) /\ next[1] = frame
        /\ \A i \in 1..Len(reading) : i # 1 => next[i] = reading[i]
    BY <1>1, <1>2, <2>1, FirstReplaced
  <2>3. reading' = next
    BY <1>3
  <2> HIDE DEF next
  <2>4. QED
    BY <1>1, <2>2, <2>3
<1>5. QED
  BY <1>2, <1>4

LEMMA FindKeeps ==
  ASSUME IInv, asked # <<>>, FindCarriedOut(1), Watch
  PROVE  IInv'
<1> USE DEF IInv
<1>1. 1 \in 1..Len(asked) /\ Len(reading) = Len(asked) /\ Len(asked) \in Nat
  BY DEF TypeOK, Chained
<1> DEFINE w == asked[1]
<1>2. /\ w \in Walks /\ walk[w].at = "asked" /\ reading[1].before = walk[w].cursor
      /\ reading[1] \in Frames
  BY <1>1, FrameType DEF Chained
<1>3. PICK page \in Pages(walk[w].cursor) :
          reading' = [reading EXCEPT ![1].found = TRUE, ![1].page = page]
  BY <1>2 DEF FindCarriedOut
<1>4. \A row \in page : row \in Rows /\ Read(row, walk[w].cursor) /\ walk[w].shown[row.id] = 0
  BY <1>2, PageIsRead
<1>5. UNCHANGED <<store, now, asked, walk, minted, held, createdAt, activity>>
  BY DEF FindCarriedOut, sessionVars
<1>6. /\ Len(reading') = Len(reading) /\ reading' \in Seq(Frames)
      /\ reading'[1].walk = reading[1].walk /\ reading'[1].before = reading[1].before
      /\ reading'[1].page = page
      /\ \A i \in 1..Len(asked) : i # 1 => reading'[i] = reading[i]
  BY <1>3, <1>4, FindShape
<1>7. TypeOK'
  <2>1. steady' \in [Walks -> SUBSET Rows]
    BY SameSessions, WatchKeeps DEF FindCarriedOut
  <2>2. QED
    BY <1>5, <1>6, <2>1 DEF TypeOK
<1>8. Chained'
  <2>1. \A i \in 1..Len(asked) : reading'[i].walk = reading[i].walk /\ reading'[i].before = reading[i].before
    BY <1>6
  <2>2. QED
    BY <1>1, <1>5, <1>6, <2>1 DEF Chained
<1>9. Behind' /\ EachRowOnce'
  BY <1>5 DEF Behind, EachRowOnce, Running, NotAfter, SitsAfter, Row
<1>10. Unseen'
  <2> SUFFICES ASSUME NEW i \in 1..Len(asked), NEW row \in reading'[i].page
               PROVE  (Read(row, reading[i].before) /\ walk[asked[i]].shown[row.id] = 0)'
    BY <1>5 DEF Unseen
  <2>1. CASE i = 1
    BY <1>2, <1>4, <1>5, <1>6, <2>1 DEF Read
  <2>2. CASE i # 1
    BY <1>5, <1>6, <2>2 DEF Unseen, Read
  <2>3. QED
    BY <2>1, <2>2
<1>11. QED
  BY <1>7, <1>8, <1>9, <1>10

-----------------------------------------------------------------------------
(* The first frame is answered: what its walk knows then is all there is   *)
(* to show.                                                                *)
Sound(known) ==
    /\ known \in [at : {"more", "over", "refused"}, cursor : SUBSET Rows, shown : [Sessions -> Nat]]
    /\ \A s \in Sessions :
           /\ known.shown[s] <= 1
           /\ known.shown[s] > 0 =>
                 s \in minted /\ (known.at = "more" => known.cursor # {} /\ NotAfter(s, known.cursor))

LEMMA AnswerShape ==
  ASSUME TypeOK, Chained, asked # <<>>, NEW known, Answer(1, known)
  PROVE  /\ asked[1] \in Walks /\ asked[1] = Head(asked)
         /\ Len(asked') = Len(asked) - 1 /\ Len(reading') = Len(asked) - 1 /\ Len(asked) \in Nat
         /\ asked' \in Seq(Walks) /\ reading' \in Seq(Frames)
         /\ \A i \in 1..Len(asked') : /\ i + 1 \in 1..Len(asked)
                                      /\ asked'[i] = asked[i + 1] /\ reading'[i] = reading[i + 1]
                                      /\ asked[i + 1] \in Walks /\ asked[i + 1] # asked[1]
         /\ walk'[asked[1]] = known
         /\ \A v \in Walks : v # asked[1] => walk'[v] = walk[v]
         /\ UNCHANGED <<store, now, minted, held, createdAt, activity>>
<1>1. /\ reading # <<>> /\ reading \in Seq(Frames) /\ asked \in Seq(Walks)
      /\ Len(reading) = Len(asked) /\ Len(asked) \in Nat /\ Len(asked) > 0
  BY DEF TypeOK, Chained
<1>2. reading' = Tail(reading) /\ asked' = Tail(asked)
  BY <1>1, FirstRemoved DEF Answer
<1>3. /\ Len(asked') = Len(asked) - 1 /\ Len(reading') = Len(asked) - 1
      /\ asked' \in Seq(Walks) /\ reading' \in Seq(Frames)
      /\ \A i \in 1..Len(asked') : /\ i + 1 \in 1..Len(asked)
                                   /\ asked'[i] = asked[i + 1] /\ reading'[i] = reading[i + 1]
  BY <1>1, <1>2
<1>4. asked[1] = Head(asked) /\ \A i \in 1..Len(asked) : asked[i] \in Walks
  BY <1>1
<1>5. \A i \in 1..Len(asked') : asked[i + 1] # asked[1]
  <2> TAKE i \in 1..Len(asked')
  <2>1. i + 1 \in 1..Len(asked) /\ 1 \in 1..Len(asked) /\ i + 1 # 1
    BY <1>1, <1>3
  <2>2. QED
    BY <2>1 DEF Chained
<1>6. walk'[asked[1]] = known /\ \A v \in Walks : v # asked[1] => walk'[v] = walk[v]
  BY <1>1, <1>4 DEF Answer, TypeOK
<1>7. QED
  BY <1>1, <1>3, <1>4, <1>5, <1>6 DEF Answer, sessionVars

LEMMA AnswerKeeps ==
  ASSUME IInv, asked # <<>>, NEW known, Sound(known), Answer(1, known), Watch
  PROVE  IInv'
<1> USE DEF IInv
<1> DEFINE w == asked[1]
<1>1. /\ w \in Walks /\ w = Head(asked)
      /\ Len(asked') = Len(asked) - 1 /\ Len(reading') = Len(asked) - 1 /\ Len(asked) \in Nat
      /\ asked' \in Seq(Walks) /\ reading' \in Seq(Frames)
      /\ \A i \in 1..Len(asked') : /\ i + 1 \in 1..Len(asked)
                                   /\ asked'[i] = asked[i + 1] /\ reading'[i] = reading[i + 1]
                                   /\ asked[i + 1] \in Walks /\ asked[i + 1] # w
      /\ walk'[w] = known
      /\ \A v \in Walks : v # w => walk'[v] = walk[v]
      /\ UNCHANGED <<store, now, minted, held, createdAt, activity>>
  BY AnswerShape
<1> HIDE DEF w
<1>2. TypeOK'
  <2>1. steady' \in [Walks -> SUBSET Rows]
    BY SameSessions, WatchKeeps DEF Answer
  <2>2. walk' \in [Walks -> [at : {"start", "asked", "more", "over", "refused"},
                             cursor : SUBSET Rows, shown : [Sessions -> Nat]]]
    BY <1>1 DEF TypeOK, Answer, Sound
  <2>3. QED
    BY <1>1, <2>1, <2>2 DEF TypeOK
<1>3. Chained'
  <2>1. \A i \in 1..Len(asked') : /\ reading'[i].walk = asked'[i]
                                 /\ walk'[asked'[i]].at = "asked"
                                 /\ reading'[i].before = walk'[asked'[i]].cursor
    <3> TAKE i \in 1..Len(asked')
    <3>1. /\ reading[i + 1].walk = asked[i + 1] /\ walk[asked[i + 1]].at = "asked"
          /\ reading[i + 1].before = walk[asked[i + 1]].cursor
      BY <1>1 DEF Chained
    <3>2. QED
      BY <1>1, <3>1
  <2>2. \A i, j \in 1..Len(asked') : asked'[i] = asked'[j] => i = j
    <3> SUFFICES ASSUME NEW i \in 1..Len(asked'), NEW j \in 1..Len(asked'), asked'[i] = asked'[j]
                 PROVE  i = j
      OBVIOUS
    <3>1. i + 1 \in 1..Len(asked) /\ j + 1 \in 1..Len(asked) /\ asked[i + 1] = asked[j + 1]
      BY <1>1
    <3>2. i + 1 = j + 1
      BY <3>1 DEF Chained
    <3>3. QED
      BY <3>2
  <2>3. QED
    BY <1>1, <2>1, <2>2 DEF Chained
<1>4. Behind'
  <2> SUFFICES ASSUME NEW v \in Walks, NEW s \in Sessions, walk'[v].shown[s] > 0
               PROVE  (s \in minted /\ (Running(v) => walk[v].cursor # {} /\ NotAfter(s, walk[v].cursor)))'
    BY DEF Behind
  <2>1. CASE v = w
    BY <1>1, <2>1 DEF Sound, Running, NotAfter, SitsAfter, Row
  <2>2. CASE v # w
    BY <1>1, <2>2 DEF Behind, Running, NotAfter, SitsAfter, Row
  <2>3. QED
    BY <2>1, <2>2
<1>5. Unseen'
  <2> SUFFICES ASSUME NEW i \in 1..Len(asked'), NEW row \in reading'[i].page
               PROVE  (Read(row, reading[i].before) /\ walk[asked[i]].shown[row.id] = 0)'
    BY DEF Unseen
  <2>1. Read(row, reading[i + 1].before) /\ walk[asked[i + 1]].shown[row.id] = 0
    BY <1>1 DEF Unseen
  <2>2. QED
    BY <1>1, <2>1 DEF Read
<1>6. EachRowOnce'
  <2>1. ASSUME NEW v \in Walks, NEW s \in Sessions PROVE walk'[v].shown[s] <= 1
    BY <1>1 DEF Sound, EachRowOnce
  <2>2. QED
    BY <2>1 DEF EachRowOnce
<1>7. QED
  BY <1>2, <1>3, <1>4, <1>5, <1>6

LEMMA RefusedIsSound ==
  ASSUME IInv, NEW w \in Walks PROVE Sound(Refused(walk[w]))
  BY DEF Refused, Sound, IInv, TypeOK, Behind, EachRowOnce

LEMMA ShownType ==
  ASSUME NEW known, NEW page, NEW next \in Shown(known, page)
  PROVE  /\ next.shown = Counted(known.shown, page)
         /\ \/ next.at = "over" /\ next.cursor = {} /\ Cardinality(page) < PageSize
               /\ next = [at |-> "over", cursor |-> {}, shown |-> next.shown]
            \/ /\ next.at = "more" /\ ~(Cardinality(page) < PageSize)
               /\ \E last \in page : /\ next.cursor = {last}
                                     /\ next = [at |-> "more", cursor |-> {last}, shown |-> next.shown]
                                     /\ \A other \in page \ {last} : Newer(other, last)
  BY DEF Shown

LEMMA CountedType ==
  ASSUME NEW shown \in [Sessions -> Nat], NEW page
  PROVE  /\ Counted(shown, page) \in [Sessions -> Nat]
         /\ \A s \in Sessions : /\ (\E row \in page : row.id = s) => Counted(shown, page)[s] = shown[s] + 1
                                /\ ~(\E row \in page : row.id = s) => Counted(shown, page)[s] = shown[s]
  BY DEF Counted

LEMMA ShownIsSound ==
  ASSUME IInv, NEW w \in Walks, walk[w].at = "asked", NEW page \in SUBSET Rows,
         \A row \in page : Read(row, walk[w].cursor) /\ walk[w].shown[row.id] = 0,
         NEW known \in Shown(walk[w], page)
  PROVE  Sound(known)
<1> USE DEF IInv
<1>1. walk[w].shown \in [Sessions -> Nat] /\ walk[w].cursor \subseteq Rows
  BY DEF TypeOK
<1>2. /\ known.shown \in [Sessions -> Nat]
      /\ \A s \in Sessions : /\ (\E row \in page : row.id = s) => known.shown[s] = walk[w].shown[s] + 1
                             /\ ~(\E row \in page : row.id = s) => known.shown[s] = walk[w].shown[s]
  BY <1>1, ShownType, CountedType
<1>3. known \in [at : {"more", "over", "refused"}, cursor : SUBSET Rows, shown : [Sessions -> Nat]]
  BY <1>2, ShownType
<1>4. ASSUME NEW s \in Sessions
      PROVE  /\ known.shown[s] <= 1
             /\ known.shown[s] > 0 =>
                   s \in minted /\ (known.at = "more" => known.cursor # {} /\ NotAfter(s, known.cursor))
  <2>1. walk[w].shown[s] \in Nat /\ walk[w].shown[s] <= 1
    BY <1>1 DEF EachRowOnce
  <2>2. known.shown[s] <= 1
    BY <1>2, <2>1
  <2>3. ASSUME known.shown[s] > 0 PROVE s \in minted
    BY <1>2, <2>1, <2>3 DEF Behind, Read
  <2>4. ASSUME known.shown[s] > 0, known.at = "more" PROVE known.cursor # {} /\ NotAfter(s, known.cursor)
    <3>1. PICK last \in page : /\ known.cursor = {last}
                               /\ \A other \in page \ {last} : Newer(other, last)
      BY <2>4, ShownType
    <3>2. last \in Rows /\ last.at \in Nat /\ last.id \in Nat /\ activity[s] \in Nat /\ s \in Nat
      BY <3>1, IdsAssumption, WindowAssumption DEF Rows, TypeOK
    <3>3. CASE \E row \in page : row.id = s
      <4>1. PICK row \in page : row.id = s
        BY <3>3
      <4>2. row \in Rows /\ row.at \in Nat /\ (s \in held => row.at <= activity[s])
        BY <4>1 DEF Read, Rows
      <4>3. row = last \/ row.at > last.at \/ (row.at = last.at /\ row.id > last.id)
        BY <3>1, <4>1 DEF Newer
      <4>4. QED
        BY <3>1, <3>2, <4>1, <4>2, <4>3 DEF NotAfter, SitsAfter, Row
    <3>4. CASE ~\E row \in page : row.id = s
      <4>1. walk[w].cursor # {} /\ NotAfter(s, walk[w].cursor)
        BY <1>2, <2>4, <3>4 DEF Behind, Running
      <4>2. PICK cursor \in walk[w].cursor : TRUE
        BY <4>1
      <4>3. cursor.at \in Nat /\ cursor.id \in Nat
        BY <1>1, IdsAssumption DEF Rows
      <4>4. SitsAfter(last, cursor)
        BY DEF Read
      <4>5. s \in held => ~SitsAfter(Row(s), cursor)
        BY <4>1 DEF NotAfter
      <4>6. s \in held => ~SitsAfter(Row(s), last)
        BY <3>2, <4>3, <4>4, <4>5 DEF SitsAfter, Row
      <4>7. QED
        BY <3>1, <4>6 DEF NotAfter
    <3>5. QED
      BY <3>3, <3>4
  <2>5. QED
    BY <2>2, <2>3, <2>4
<1>5. QED
  BY <1>3, <1>4 DEF Sound

LEMMA InvariantKept == IInv /\ [Next]_vars => IInv'
<1> SUFFICES ASSUME IInv, [Next]_vars PROVE IInv'
  OBVIOUS
<1>1. CASE SessionStep /\ Watch
  BY <1>1, SessionsKeep
<1>2. ASSUME NEW w \in Walks, Ask(w), Watch PROVE IInv'
  BY <1>2, AskKeeps
<1>3. ASSUME NEW i \in Due, ListFor(i) \/ FindCarriedOut(i) \/ FindAnswered(i) \/ FindRejected(i), Watch
      PROVE  IInv'
  <2>1. i = 1 /\ asked # <<>> /\ 1 \in 1..Len(asked)
    BY <1>3 DEF Due, IInv, Chained, TypeOK
  <2> DEFINE w == asked[1]
  <2>2. /\ w \in Walks /\ w = Head(asked) /\ walk[w].at = "asked" /\ reading[1].before = walk[w].cursor
        /\ reading[1].page \subseteq Rows
    BY <2>1, FrameType DEF IInv, Chained, TypeOK
  <2> HIDE DEF w
  <2>3. CASE ListFor(1)
    <3>1. PICK page \in Pages(walk[w].cursor) : \E known \in Shown(walk[w], page) : Answer(1, known)
      BY <2>2, <2>3 DEF ListFor
    <3> PICK known \in Shown(walk[w], page) : Answer(1, known)
      BY <3>1
    <3>2. \A row \in page : row \in Rows /\ Read(row, walk[w].cursor) /\ walk[w].shown[row.id] = 0
      BY <2>2, PageIsRead DEF IInv
    <3>3. Sound(known)
      BY <2>2, <3>2, ShownIsSound
    <3>4. QED
      BY <1>3, <2>1, <3>3, AnswerKeeps
  <2>4. CASE FindCarriedOut(1)
    BY <1>3, <2>1, <2>4, FindKeeps
  <2>5. CASE FindAnswered(1)
    <3>1. PICK known \in Shown(walk[w], reading[1].page) : Answer(1, known)
      BY <2>2, <2>5 DEF FindAnswered
    <3>2. \A row \in reading[1].page : Read(row, walk[w].cursor) /\ walk[w].shown[row.id] = 0
      BY <2>1, <2>2 DEF IInv, Unseen, w
    <3>3. Sound(known)
      BY <2>2, <3>1, <3>2, ShownIsSound
    <3>4. QED
      BY <1>3, <2>1, <3>1, <3>3, AnswerKeeps
  <2>6. CASE FindRejected(1)
    BY <1>3, <2>1, <2>2, <2>6, RefusedIsSound, AnswerKeeps DEF FindRejected
  <2>7. QED
    BY <1>3, <2>1, <2>3, <2>4, <2>5, <2>6
<1>4. CASE UNCHANGED vars
  <2>1. TypeOK'
    BY <1>4 DEF vars, IInv, TypeOK
  <2>2. Chained' /\ EachRowOnce'
    BY <1>4 DEF vars, IInv, Chained, EachRowOnce
  <2>3. Behind'
    BY <1>4 DEF vars, IInv, Behind, Running, NotAfter, SitsAfter, Row
  <2>4. Unseen'
    BY <1>4 DEF vars, IInv, Unseen, Read
  <2>5. QED
    BY <2>1, <2>2, <2>3, <2>4 DEF IInv
<1>5. QED
  BY <1>1, <1>2, <1>3, <1>4 DEF Next, Step, SessionStep

LEMMA InitInvariant == Init => IInv
<1> SUFFICES ASSUME Init PROVE IInv
  OBVIOUS
<1>1. TypeOK
  BY WindowAssumption DEF Init, TypeOK
<1>2. QED
  BY <1>1 DEF Init, IInv, Chained, Behind, Unseen, EachRowOnce

LEMMA Invariant == Spec => []IInv
  BY InitInvariant, InvariantKept, PTL DEF Spec

-----------------------------------------------------------------------------
(* What stayed is shown, or still ahead.                                   *)
Rest(known, rows) ==
    /\ known.at = "more" => \A row \in rows : \/ known.shown[row.id] > 0
                                              \/ \A cursor \in known.cursor : SitsAfter(row, cursor)
    /\ known.at = "over" => \A row \in rows : known.shown[row.id] > 0

LEMMA PageCovers ==
  ASSUME NEW row \in Owned, NEW before, \A cursor \in before : SitsAfter(row, cursor),
         NEW page \in Pages(before)
  PROVE  Covered(row, page)
<1>1. row \in From(Owned, before) /\ IsPage(page, From(Owned, before))
  BY DEF From, Pages
<1>2. QED
  BY <1>1 DEF IsPage, Covered

LEMMA ShownRests ==
  ASSUME TypeOK, NEW w \in Walks, NEW page \in SUBSET Rows, NEW rows \in SUBSET Rows,
         \A row \in rows : walk[w].shown[row.id] > 0 \/ Covered(row, page),
         NEW known \in Shown(walk[w], page)
  PROVE  Rest(known, rows)
<1>0. walk[w].shown \in [Sessions -> Nat]
  BY DEF TypeOK
<1>1. /\ known.shown \in [Sessions -> Nat]
      /\ \A s \in Sessions : /\ (\E row \in page : row.id = s) => known.shown[s] = walk[w].shown[s] + 1
                             /\ ~(\E row \in page : row.id = s) => known.shown[s] = walk[w].shown[s]
      /\ walk[w].shown \in [Sessions -> Nat]
  BY <1>0, ShownType, CountedType
<1>2. ASSUME NEW row \in rows
      PROVE  \/ known.shown[row.id] > 0
             \/ ~(Cardinality(page) < PageSize) /\ \A other \in page : Newer(other, row)
  <2>1. row.id \in Sessions
    BY DEF Rows
  <2>2. CASE row \in page
    BY <1>1, <2>1, <2>2
  <2>3. CASE walk[w].shown[row.id] > 0
    BY <1>1, <2>1, <2>3
  <2>4. QED
    BY <2>2, <2>3 DEF Covered
<1>3. CASE known.at = "over"
  BY <1>2, <1>3, ShownType DEF Rest
<1>4. CASE known.at = "more"
  <2>1. PICK last \in page : known.cursor = {last}
    BY <1>4, ShownType
  <2>2. ASSUME NEW row \in rows, Newer(last, row) PROVE SitsAfter(row, last)
    <3>1. row.at \in Nat /\ row.id \in Nat /\ last.at \in Nat /\ last.id \in Nat
      BY IdsAssumption DEF Rows
    <3>2. QED
      BY <2>2, <3>1 DEF Newer, SitsAfter
  <2>3. QED
    BY <1>2, <1>4, <2>1, <2>2 DEF Rest
<1>5. QED
  BY <1>3, <1>4 DEF Rest

(* Steps that answer nothing.                                              *)
LEMMA StayKeeps ==
  ASSUME MInv, IInv', Watch, SessionTypes, UNCHANGED <<walk, asked>>,
         \A i \in 1..Len(asked) :
             \/ reading'[i] = reading[i]
             \/ \A row \in steady'[asked[i]] : \/ walk[asked[i]].shown[row.id] > 0
                                               \/ Covered(row, reading'[i].page)
  PROVE  MInv'
<1> USE DEF MInv, IInv
<1>1. \A w \in Walks : walk[w].at # "start" => steady'[w] \subseteq steady[w]
  BY WatchKeeps
<1>2. Ahead'
  BY <1>1 DEF Ahead, SitsAfter
<1>3. WalkMissesNone'
  BY <1>1 DEF WalkMissesNone
<1>4. Covers'
  <2> SUFFICES ASSUME NEW i \in 1..Len(asked), reading'[i].found, NEW row \in steady'[asked[i]]
               PROVE  walk[asked[i]].shown[row.id] > 0 \/ Covered(row, reading'[i].page)
    BY DEF Covers, Covered, Newer
  <2>1. asked[i] \in Walks /\ walk[asked[i]].at = "asked"
    BY FrameType DEF Chained
  <2>2. row \in steady[asked[i]]
    BY <1>1, <2>1
  <2>3. QED
    BY <2>2 DEF Covers
<1>5. Blank'
  BY DEF Blank
<1>6. QED
  BY <1>2, <1>3, <1>4, <1>5

LEMMA AskStays == ASSUME MInv, IInv', NEW w \in Walks, Ask(w), Watch PROVE MInv'
<1> USE DEF MInv, IInv
<1>1. /\ \A v \in Walks : walk[v].at # "start" => steady'[v] \subseteq steady[v]
      /\ \A v \in Walks : walk'[v].cursor = walk[v].cursor /\ walk'[v].shown = walk[v].shown
      /\ \A v \in Walks : v # w => walk'[v] = walk[v]
      /\ walk'[w].at = "asked" /\ walk[w].at \in {"start", "more"}
  BY SameSessions, WatchKeeps DEF Ask, TypeOK
<1>2. walk[w].at = "start" => walk[w].cursor = {}
  BY DEF Blank
<1>3. Ahead'
  BY <1>1, <1>2 DEF Ahead, SitsAfter
<1>4. WalkMissesNone' /\ Blank'
  BY <1>1 DEF WalkMissesNone, Blank
<1>5. Covers'
  <2>1. /\ Len(asked') = Len(asked) + 1 /\ Len(reading) = Len(asked) /\ Len(asked) \in Nat
        /\ \A i \in 1..Len(asked) : asked'[i] = asked[i] /\ reading'[i] = reading[i]
        /\ reading'[Len(asked) + 1].found = FALSE
    BY DEF Ask, TypeOK, Chained
  <2> SUFFICES ASSUME NEW i \in 1..Len(asked'), reading'[i].found, NEW row \in steady'[asked'[i]]
               PROVE  walk'[asked'[i]].shown[row.id] > 0 \/ Covered(row, reading'[i].page)
    BY DEF Covers, Covered, Newer
  <2>2. i \in 1..Len(asked)
    BY <2>1
  <2>3. asked[i] \in Walks /\ walk[asked[i]].at = "asked"
    BY <2>2, FrameType DEF Chained
  <2>4. row \in steady[asked[i]]
    BY <1>1, <2>1, <2>2, <2>3
  <2>5. QED
    BY <1>1, <2>1, <2>2, <2>3, <2>4 DEF Covers
<1>6. QED
  BY <1>3, <1>4, <1>5

LEMMA AnswerRests ==
  ASSUME MInv, IInv', asked # <<>>, NEW known, known.at # "asked", known.at # "start",
         Rest(known, steady'[asked[1]]), Answer(1, known), Watch
  PROVE  MInv'
<1> USE DEF MInv, IInv
<1> DEFINE w == asked[1]
<1>1. /\ w \in Walks
      /\ Len(asked') = Len(asked) - 1 /\ Len(reading') = Len(asked) - 1 /\ Len(asked) \in Nat
      /\ \A i \in 1..Len(asked') : /\ i + 1 \in 1..Len(asked)
                                   /\ asked'[i] = asked[i + 1] /\ reading'[i] = reading[i + 1]
                                   /\ asked[i + 1] \in Walks /\ asked[i + 1] # w
      /\ walk'[w] = known
      /\ \A v \in Walks : v # w => walk'[v] = walk[v]
  BY AnswerShape
<1>2. Rest(known, steady'[w])
  OBVIOUS
<1> HIDE DEF w
<1>3. \A v \in Walks : walk[v].at # "start" => steady'[v] \subseteq steady[v]
  BY SameSessions, WatchKeeps DEF Answer
<1>4. Ahead' /\ WalkMissesNone' /\ Blank'
  <2>1. ASSUME NEW v \in Walks, v # w
        PROVE  /\ walk[v].at \in {"asked", "more"} =>
                     \A row \in steady'[v] : \/ walk[v].shown[row.id] > 0
                                            \/ \A cursor \in walk[v].cursor : SitsAfter(row, cursor)
               /\ walk[v].at = "over" => \A row \in steady'[v] : walk[v].shown[row.id] > 0
               /\ walk[v].at = "start" => walk[v].cursor = {}
    BY <1>3, <2>1 DEF Ahead, WalkMissesNone, Blank
  <2>2. QED
    BY <1>1, <1>2, <2>1 DEF Ahead, WalkMissesNone, Blank, Rest, SitsAfter
<1>5. Covers'
  <2> SUFFICES ASSUME NEW i \in 1..Len(asked'), reading'[i].found, NEW row \in steady'[asked'[i]]
               PROVE  walk'[asked'[i]].shown[row.id] > 0 \/ Covered(row, reading'[i].page)
    BY DEF Covers, Covered, Newer
  <2>1. walk[asked[i + 1]].at = "asked"
    BY <1>1 DEF Chained
  <2>2. row \in steady[asked[i + 1]]
    BY <1>1, <1>3, <2>1
  <2>3. QED
    BY <1>1, <2>2 DEF Covers
<1>6. QED
  BY <1>4, <1>5
LEMMA FindCovers ==
  ASSUME MInv, NEW w \in Walks, walk[w].at = "asked", NEW page \in Pages(walk[w].cursor),
         UNCHANGED <<store, now>>, UNCHANGED sessionVars, Watch
  PROVE  \A row \in steady'[w] : walk[w].shown[row.id] > 0 \/ Covered(row, page)
<1> USE DEF MInv, IInv
<1>1. steady'[w] \subseteq Owned /\ steady'[w] \subseteq steady[w]
  <2>1. Owned' = Owned
    BY DEF Owned, Expired, Row, sessionVars
  <2>2. QED
    BY <2>1, SameSessions, WatchKeeps DEF Running
<1>2. ASSUME NEW row \in steady'[w] PROVE walk[w].shown[row.id] > 0 \/ Covered(row, page)
  <2>1. walk[w].shown[row.id] > 0 \/ \A cursor \in walk[w].cursor : SitsAfter(row, cursor)
    BY <1>1 DEF Ahead
  <2>2. QED
    BY <1>1, <2>1, PageCovers
<1>3. QED
  BY <1>2

LEMMA ShownKind == ASSUME NEW known, NEW page, NEW next \in Shown(known, page)
                   PROVE  next.at # "asked" /\ next.at # "start"
  BY ShownType

LEMMA MInvariantKept == MInv /\ [Next]_vars => MInv'
<1> SUFFICES ASSUME MInv, [Next]_vars PROVE MInv'
  OBVIOUS
<1>0. IInv /\ IInv'
  BY InvariantKept DEF MInv
<1>1. CASE SessionStep /\ Watch
  <2>1. SessionTypes /\ UNCHANGED <<reading, asked, walk>>
    BY <1>0, <1>1, SessionsRise DEF IInv
  <2>2. QED
    BY <1>0, <1>1, <2>1, StayKeeps
<1>2. ASSUME NEW w \in Walks, Ask(w), Watch PROVE MInv'
  BY <1>0, <1>2, AskStays
<1>3. ASSUME NEW i \in Due, ListFor(i) \/ FindCarriedOut(i) \/ FindAnswered(i) \/ FindRejected(i), Watch
      PROVE  MInv'
  <2>1. i = 1 /\ asked # <<>> /\ 1 \in 1..Len(asked) /\ Len(asked) = Len(reading)
    BY <1>0, <1>3 DEF Due, IInv, Chained, TypeOK
  <2> DEFINE w == asked[1]
  <2>2. /\ w \in Walks /\ w = Head(asked) /\ walk[w].at = "asked" /\ reading[1].before = walk[w].cursor
        /\ reading[1].page \subseteq Rows
    BY <1>0, <2>1, FrameType DEF IInv, Chained, TypeOK
  <2>3. steady' \in [Walks -> SUBSET Rows] /\ (UNCHANGED <<store, now>> /\ UNCHANGED sessionVars => SessionTypes)
    BY <1>0, SameSessions DEF IInv, TypeOK
  <2>4. steady'[w] \subseteq Rows
    BY <2>2, <2>3
  <2> HIDE DEF w
  <2>5. CASE ListFor(1)
    <3>1. PICK page \in Pages(walk[w].cursor) : \E known \in Shown(walk[w], page) : Answer(1, known)
      BY <2>2, <2>5 DEF ListFor
    <3> PICK known \in Shown(walk[w], page) : Answer(1, known)
      BY <3>1
    <3>2. page \in SUBSET Rows
      BY <1>0, <2>2, PageIsRead DEF IInv
    <3>3. \A row \in steady'[w] : walk[w].shown[row.id] > 0 \/ Covered(row, page)
      BY <1>3, <2>2, FindCovers DEF Answer
    <3>4. Rest(known, steady'[w])
      BY <1>0, <2>2, <2>4, <3>2, <3>3, ShownRests DEF IInv
    <3>5. QED
      BY <1>0, <1>3, <2>1, <3>4, ShownKind, AnswerRests DEF w
  <2>6. CASE FindCarriedOut(1)
    <3>1. UNCHANGED <<store, now>> /\ UNCHANGED sessionVars /\ UNCHANGED <<walk, asked>>
      BY <2>6 DEF FindCarriedOut
    <3>2. PICK page \in Pages(walk[w].cursor) :
              reading' = [reading EXCEPT ![1].found = TRUE, ![1].page = page]
      BY <2>2, <2>6 DEF FindCarriedOut
    <3>3. \A row \in steady'[w] : walk[w].shown[row.id] > 0 \/ Covered(row, page)
      BY <1>3, <2>2, <3>1, FindCovers
    <3>4. /\ reading'[1].page = page
          /\ \A j \in 1..Len(asked) : j # 1 => reading'[j] = reading[j]
      <4>1. page \in SUBSET Rows
        BY <1>0, <2>2, PageIsRead DEF IInv
      <4>2. QED
        BY <1>0, <2>1, <3>2, <4>1, FindShape DEF IInv
    <3>5. QED
      BY <1>0, <1>3, <2>3, <3>1, <3>3, <3>4, StayKeeps DEF w
  <2>7. CASE FindAnswered(1)
    <3>1. PICK known \in Shown(walk[w], reading[1].page) : Answer(1, known)
      BY <2>2, <2>7 DEF FindAnswered
    <3>2. steady'[w] \subseteq steady[w] /\ reading[1].found
      BY <1>0, <1>3, <2>2, <2>7, <3>1, SameSessions, WatchKeeps DEF Answer, IInv, FindAnswered
    <3>3. \A row \in steady'[w] : walk[w].shown[row.id] > 0 \/ Covered(row, reading[1].page)
      BY <2>1, <3>2 DEF MInv, Covers, w
    <3>4. Rest(known, steady'[w])
      BY <1>0, <2>2, <2>4, <3>3, ShownRests DEF IInv
    <3>5. QED
      BY <1>0, <1>3, <2>1, <3>1, <3>4, ShownKind, AnswerRests DEF w
  <2>8. CASE FindRejected(1)
    <3> DEFINE known == Refused(walk[w])
    <3>1. Answer(1, known) /\ known.at = "refused"
      BY <1>0, <2>2, <2>8 DEF FindRejected, Refused, IInv, TypeOK
    <3> HIDE DEF known
    <3>2. Rest(known, steady'[w])
      BY <3>1 DEF Rest
    <3>3. QED
      BY <1>0, <1>3, <2>1, <3>1, <3>2, AnswerRests DEF w
  <2>9. QED
    BY <1>3, <2>1, <2>5, <2>6, <2>7, <2>8
<1>4. CASE UNCHANGED vars
  <2>1. Ahead' /\ Blank' /\ WalkMissesNone'
    BY <1>4 DEF vars, MInv, Ahead, Blank, WalkMissesNone, SitsAfter
  <2>2. Covers'
    BY <1>4 DEF vars, MInv, Covers, Covered, Newer
  <2>3. QED
    BY <1>0, <2>1, <2>2 DEF MInv
<1>5. QED
  BY <1>1, <1>2, <1>3, <1>4 DEF Next, Step, SessionStep

-----------------------------------------------------------------------------
(* The store, the chain and what the client knows are of their types: ages *)
(* and stamps lie in the past, and the ids held are ids once given out.    *)
THEOREM TypeCorrect == Spec => []TypeOK
<1>1. IInv => TypeOK
  BY DEF IInv
<1>2. QED
  BY <1>1, Invariant, PTL

(* Paging shows no session twice: its activity only rises, so once shown   *)
(* it is never after the cursor again.                                     *)
THEOREM EachRowOnceAlways == Spec => []EachRowOnce
<1>1. IInv => EachRowOnce
  BY DEF IInv
<1>2. QED
  BY <1>1, Invariant, PTL

(* Paging to the last page shows every session that stayed as it was,      *)
(* whatever was created, written to or erased around it.                   *)
THEOREM WalkMissesNoneAlways == Spec => []WalkMissesNone
<1>1. Init => MInv
  <2> SUFFICES ASSUME Init PROVE MInv
    OBVIOUS
  <2>1. IInv
    BY InitInvariant
  <2>2. QED
    BY <2>1 DEF Init, MInv, Blank, Ahead, Covers, WalkMissesNone
<1>2. MInv => WalkMissesNone
  BY DEF MInv
<1>3. QED
  BY <1>1, <1>2, MInvariantKept, PTL DEF Spec
=============================================================================
