----------------------- MODULE ConnectionLifecycleProofs -----------------------
(***************************************************************************)
(* Proofs about the sockets that open and close on sessions, for any       *)
(* number of upgrades, authenticated as any users.                         *)
(*                                                                         *)
(* What each property says of a socket follows from how far its set-up is, *)
(* and from the list of every session being exactly the sockets that       *)
(* joined it and were not ended.  Where only named sessions are resumed,   *)
(* the client that is first to hear of a session is its creator's.         *)
(***************************************************************************)
EXTENDS ConnectionLifecycle, SequenceTheorems, TLAPS

Conns == [at : Places, named : Sockets \union {None},
          session : Sockets \union {None}, joined : BOOLEAN,
          closed : BOOLEAN, settled : BOOLEAN, notified : BOOLEAN,
          delivered : BOOLEAN, kept : BOOLEAN]

(* What openSession's locals are, by how far it is.                        *)
Shape(s, c) ==
    /\ c.notified => c.settled
    /\ c.delivered => c.joined
    /\ c.joined => c.session # None
    /\ c.at \in {"off", "lookup", "create"} => c.session = None
    /\ c.at \in {"off", "lookup", "create", "found", "created"} => ~c.settled /\ ~c.joined
    /\ c.at \in {"evicting", "failed", "live", "gone"} => c.settled
    /\ c.at = "off" => ~c.closed
    /\ c.at = "found" => c.session \notin {s, None}
    /\ c.at = "created" => c.session = s
    /\ c.at = "evicting" => c.session = s /\ c.joined /\ ~c.delivered
    /\ c.at = "failed" => ~c.closed /\ ~c.delivered
    /\ c.at = "live" => ~c.closed /\ ~c.notified /\ c.delivered
    /\ c.at = "gone" => c.closed /\ (c.joined => c.notified)

Shapes == \A s \in Sockets : Shape(s, conn[s])

IsOpenOn(c, t) == c.session = t /\ c.joined /\ ~c.notified

(* A list has each of its sockets once.                                    *)
ListOf(list, open) ==
    /\ \A i \in DOMAIN list : list[i] \in open
    /\ \A s \in open : \E i \in DOMAIN list : list[i] = s
    /\ \A i, j \in DOMAIN list : list[i] = list[j] => i = j

Listed == \A t \in Sockets : ListOf(openSockets[t], OpenOn(t)) /\ lentBy[t] = Lend(openSockets[t])

(* A socket is on a session of its user, and the store has a session from  *)
(* its creation on.                                                        *)
Owned ==
    \A s \in Sockets :
        /\ conn[s].session # None => userOf[conn[s].session] = userOf[s]
        /\ conn[s].at \in {"off", "lookup", "create"} => s \notin stored
        /\ conn[s].at = "created" => s \in stored

(* A session was received by those it was delivered to.                    *)
Received ==
    \A s, t \in Sockets : s \in received[t] <=> conn[s].delivered /\ conn[s].session = t

(* Only a session somebody received can be named.                          *)
Named ==
    ~options.latest =>
        \A s \in Sockets :
            /\ conn[s].at = "lookup" => conn[s].named # None
            /\ conn[s].named # None => received[conn[s].named] # {}
            /\ conn[s].at = "found" => conn[s].session = conn[s].named
            /\ received[s] # {} => conn[s].delivered /\ s \in stored

Left ==
    options.hasEvict /\ ~options.promptsMayThrow =>
        \A s \in stored :
            conn[s].session = s /\ conn[s].at \in {"failed", "gone"} /\ ~conn[s].delivered => conn[s].kept

IInv == TypeOK /\ Shapes /\ Listed /\ Owned /\ Received /\ Named /\ Left /\ HooksPaired

-----------------------------------------------------------------------------
(* Lists.                                                                  *)
LEMMA ListJoined ==
  ASSUME NEW list \in Seq(Sockets), NEW open, ListOf(list, open), NEW s \in Sockets, s \notin open
  PROVE  /\ Append(list, s) \in Seq(Sockets)
         /\ ListOf(Append(list, s), open \union {s})
         /\ Lend(Append(list, s)) = s
<1> DEFINE n == Len(list)
           more == Append(list, s)
<1>1. /\ n \in Nat /\ DOMAIN list = 1..n /\ DOMAIN more = 1..(n + 1) /\ more[n + 1] = s
      /\ \A i \in 1..n : more[i] = list[i]
      /\ more \in Seq(Sockets) /\ Len(more) = n + 1 /\ more # <<>>
  BY AppendProperties
<1> HIDE DEF n, more
<1>2. Lend(more) = s
  BY <1>1 DEF Lend, Last
<1>3. \A i \in DOMAIN more : i \in 1..n \/ i = n + 1
  BY <1>1
<1>4. \A i \in DOMAIN more : more[i] \in open \union {s}
  BY <1>1, <1>3 DEF ListOf
<1>5. \A r \in open \union {s} : \E i \in DOMAIN more : more[i] = r
  <2> SUFFICES ASSUME NEW r \in open \union {s} PROVE \E i \in DOMAIN more : more[i] = r
    OBVIOUS
  <2>1. CASE r = s
    BY <1>1, <2>1
  <2>2. CASE r # s
    <3>1. PICK i \in DOMAIN list : list[i] = r
      BY <2>2 DEF ListOf
    <3>2. i \in DOMAIN more /\ more[i] = r
      BY <1>1, <3>1
    <3>3. QED
      BY <3>2
  <2>3. QED
    BY <2>1, <2>2
<1>6. \A i \in 1..n : more[i] # s
  BY <1>1 DEF ListOf
<1>7. \A i, j \in DOMAIN more : more[i] = more[j] => i = j
  <2> SUFFICES ASSUME NEW i \in DOMAIN more, NEW j \in DOMAIN more, more[i] = more[j]
               PROVE  i = j
    OBVIOUS
  <2>1. CASE i \in 1..n /\ j \in 1..n
    BY <1>1, <2>1 DEF ListOf
  <2>2. CASE i = n + 1 \/ j = n + 1
    BY <1>1, <1>3, <1>6, <2>2
  <2>3. QED
    BY <1>3, <2>1, <2>2
<1>8. QED
  BY <1>1, <1>2, <1>4, <1>5, <1>7 DEF ListOf, more

LEMMA ListLeft ==
  ASSUME NEW list \in Seq(Sockets), NEW open, ListOf(list, open), NEW s \in open
  PROVE  /\ Contains(list, s)
         /\ Without(list, s) \in Seq(Sockets)
         /\ ListOf(Without(list, s), open \ {s})
<1> DEFINE n == Len(list)
           k == CHOOSE i \in DOMAIN list : list[i] = s
           less == Without(list, s)
<1>1. n \in Nat /\ DOMAIN list = 1..n
  OBVIOUS
<1>2. k \in 1..n /\ list[k] = s
  BY <1>1 DEF ListOf
<1>3. less = SubSeq(list, 1, k - 1) \o SubSeq(list, k + 1, n)
  BY DEF Without, RemoveAt
<1>4. \A i \in 1..n : list[i] \in Sockets
  OBVIOUS
<1> HIDE DEF n, k, less
<1>5. /\ SubSeq(list, 1, k - 1) \in Seq(Sockets) /\ Len(SubSeq(list, 1, k - 1)) = k - 1
      /\ \A i \in 1..(k - 1) : SubSeq(list, 1, k - 1)[i] = list[i]
  <2>1. \A i \in 1..(k - 1) : list[i] \in Sockets
    BY <1>1, <1>2, <1>4
  <2>2. 1 \in Int /\ k - 1 \in Int /\ (1 <= k - 1 + 1)
    BY <1>1, <1>2
  <2>3. QED
    BY <1>1, <1>2, <2>1, <2>2, SubSeqProperties
<1>6. /\ SubSeq(list, k + 1, n) \in Seq(Sockets) /\ Len(SubSeq(list, k + 1, n)) = n - k
      /\ \A i \in 1..(n - k) : SubSeq(list, k + 1, n)[i] = list[k + i]
  <2>1. \A i \in (k + 1)..n : list[i] \in Sockets
    BY <1>1, <1>2, <1>4
  <2>2. QED
    BY <1>1, <1>2, <2>1, SubSeqProperties
<1>7. /\ less \in Seq(Sockets) /\ Len(less) = n - 1
      /\ \A i \in 1..(n - 1) : less[i] = IF i < k THEN list[i] ELSE list[i + 1]
  <2> DEFINE a == SubSeq(list, 1, k - 1)
             b == SubSeq(list, k + 1, n)
  <2>1. /\ a \in Seq(Sockets) /\ b \in Seq(Sockets) /\ Len(a) = k - 1 /\ Len(b) = n - k
        /\ less = a \o b
        /\ \A i \in 1..(k - 1) : a[i] = list[i]
        /\ \A i \in 1..(n - k) : b[i] = list[k + i]
    BY <1>3, <1>5, <1>6
  <2> HIDE DEF a, b
  <2>2. /\ less \in Seq(Sockets) /\ Len(less) = Len(a) + Len(b)
        /\ \A i \in 1..(Len(a) + Len(b)) : less[i] = IF i <= Len(a) THEN a[i] ELSE b[i - Len(a)]
    BY <2>1, ConcatProperties
  <2>3. \A i \in 1..(n - 1) : i < k => less[i] = list[i]
    BY <1>1, <1>2, <2>1, <2>2
  <2>4. ASSUME NEW i \in 1..(n - 1), ~(i < k)
        PROVE  less[i] = list[i + 1]
    <3>1. less[i] = b[i - (k - 1)] /\ i - (k - 1) \in 1..(n - k)
      BY <1>1, <1>2, <2>1, <2>2, <2>4
    <3>2. less[i] = list[k + (i - (k - 1))]
      BY <2>1, <3>1
    <3>3. k + (i - (k - 1)) = i + 1
      BY <1>1, <1>2
    <3>4. QED
      BY <3>2, <3>3
  <2>5. Len(less) = n - 1
    BY <1>1, <1>2, <2>1, <2>2
  <2>6. QED
    BY <2>2, <2>3, <2>4, <2>5
<1>8. DOMAIN less = 1..(n - 1)
  BY <1>1, <1>2, <1>7
<1>9. \A i \in 1..(n - 1) : \E j \in 1..n : j # k /\ less[i] = list[j] /\ j = IF i < k THEN i ELSE i + 1
  <2> SUFFICES ASSUME NEW i \in 1..(n - 1)
               PROVE  \E j \in 1..n : j # k /\ less[i] = list[j] /\ j = IF i < k THEN i ELSE i + 1
    OBVIOUS
  <2>1. CASE i < k
    BY <1>1, <1>2, <1>7, <2>1
  <2>2. CASE ~(i < k)
    <3>1. i + 1 \in 1..n /\ i + 1 # k /\ less[i] = list[i + 1]
      BY <1>1, <1>2, <1>7, <2>2
    <3>2. QED
      BY <2>2, <3>1
  <2>3. QED
    BY <2>1, <2>2
<1>10. \A i, j \in 1..n : list[i] = list[j] => i = j
  BY <1>1 DEF ListOf
<1>11. \A i \in 1..n : list[i] \in open
  BY <1>1 DEF ListOf
<1>12. \A i \in DOMAIN less : less[i] \in open \ {s}
  BY <1>2, <1>8, <1>9, <1>10, <1>11
<1>13. \A r \in open \ {s} : \E i \in DOMAIN less : less[i] = r
  <2> SUFFICES ASSUME NEW r \in open \ {s} PROVE \E i \in DOMAIN less : less[i] = r
    OBVIOUS
  <2>1. PICK j \in 1..n : list[j] = r
    BY <1>1 DEF ListOf
  <2>2. j # k
    BY <1>2, <2>1
  <2>3. CASE j < k
    <3>1. j \in 1..(n - 1) /\ less[j] = r
      BY <1>1, <1>2, <1>7, <2>1, <2>3
    <3>2. QED
      BY <1>8, <3>1
  <2>4. CASE ~(j < k)
    <3>1. j - 1 \in 1..(n - 1) /\ ~(j - 1 < k) /\ (j - 1) + 1 = j
      BY <1>1, <1>2, <2>2, <2>4
    <3>2. less[j - 1] = r
      BY <1>7, <2>1, <3>1
    <3>3. QED
      BY <1>8, <3>1, <3>2
  <2>5. QED
    BY <2>3, <2>4
<1>14. \A i, j \in DOMAIN less : less[i] = less[j] => i = j
  <2> SUFFICES ASSUME NEW i \in 1..(n - 1), NEW j \in 1..(n - 1), less[i] = less[j]
               PROVE  i = j
    BY <1>8
  <2>1. PICK a \in 1..n : a # k /\ less[i] = list[a] /\ a = IF i < k THEN i ELSE i + 1
    BY <1>9
  <2>2. PICK b \in 1..n : b # k /\ less[j] = list[b] /\ b = IF j < k THEN j ELSE j + 1
    BY <1>9
  <2>3. a = b
    BY <1>10, <2>1, <2>2
  <2>4. QED
    BY <1>1, <1>2, <2>1, <2>2, <2>3
<1>15. Contains(list, s)
  BY <1>1, <1>2 DEF Contains, n
<1>16. QED
  BY <1>7, <1>12, <1>13, <1>14, <1>15 DEF ListOf, less

(* The credentials of a session are those of a socket on its list.         *)
LEMMA ListLends ==
  ASSUME NEW list \in Seq(Sockets), NEW open, ListOf(list, open)
  PROVE  /\ IF open = {} THEN Lend(list) = None ELSE Lend(list) \in open
         /\ Lend(list) \in Sockets \union {None}
<1>1. CASE list = <<>>
  BY <1>1 DEF ListOf, Lend
<1>2. CASE list # <<>>
  <2>1. Len(list) \in DOMAIN list /\ Lend(list) = list[Len(list)]
    BY <1>2, EmptySeq DEF Lend, Last
  <2>2. QED
    BY <2>1 DEF ListOf
<1>3. QED
  BY <1>1, <1>2

-----------------------------------------------------------------------------
(* The locals of a connection after each step of it.                       *)
Has(c, at, named, session, joined, closed, settled, notified, delivered, kept) ==
    /\ c \in Conns
    /\ c.at = at /\ c.named = named /\ c.session = session /\ c.joined = joined
    /\ c.closed = closed /\ c.settled = settled /\ c.notified = notified
    /\ c.delivered = delivered /\ c.kept = kept

LEMMA Updated ==
  ASSUME NEW c \in Conns, NEW p \in Places, NEW t \in Sockets \union {None}, NEW b \in BOOLEAN
  PROVE  /\ Has([c EXCEPT !.at = p, !.named = t], p, t, c.session, c.joined, c.closed, c.settled,
                c.notified, c.delivered, c.kept)
         /\ Has([c EXCEPT !.at = p], p, c.named, c.session, c.joined, c.closed, c.settled,
                c.notified, c.delivered, c.kept)
         /\ Has([c EXCEPT !.at = p, !.session = t], p, c.named, t, c.joined, c.closed, c.settled,
                c.notified, c.delivered, c.kept)
         /\ Has([c EXCEPT !.at = p, !.session = t, !.settled = TRUE], p, c.named, t, c.joined, c.closed,
                TRUE, c.notified, c.delivered, c.kept)
         /\ Has([c EXCEPT !.settled = TRUE, !.joined = TRUE, !.at = p], p, c.named, c.session, TRUE,
                c.closed, TRUE, c.notified, c.delivered, c.kept)
         /\ Has([c EXCEPT !.settled = TRUE, !.notified = TRUE, !.at = p], p, c.named, c.session, c.joined,
                c.closed, TRUE, TRUE, c.delivered, c.kept)
         /\ Has([c EXCEPT !.settled = TRUE, !.joined = TRUE, !.delivered = TRUE, !.at = p], p, c.named,
                c.session, TRUE, c.closed, TRUE, c.notified, TRUE, c.kept)
         /\ Has([c EXCEPT !.at = p, !.kept = b], p, c.named, c.session, c.joined, c.closed, c.settled,
                c.notified, c.delivered, b)
         /\ Has([c EXCEPT !.closed = TRUE, !.at = p], p, c.named, c.session, c.joined, TRUE, c.settled,
                c.notified, c.delivered, c.kept)
         /\ Has([c EXCEPT !.notified = TRUE], c.at, c.named, c.session, c.joined, c.closed, c.settled,
                TRUE, c.delivered, c.kept)
<1> USE DEF Conns, Has
<1>1. c.at \in Places /\ c.named \in Sockets \union {None} /\ c.session \in Sockets \union {None}
  OBVIOUS
<1>2. /\ c.joined \in BOOLEAN /\ c.closed \in BOOLEAN /\ c.settled \in BOOLEAN
      /\ c.notified \in BOOLEAN /\ c.delivered \in BOOLEAN /\ c.kept \in BOOLEAN
  OBVIOUS
<1>3. QED
  BY <1>1, <1>2

-----------------------------------------------------------------------------
(* The lists after a step of one connection.                               *)
LEMMA OpenAfter ==
  ASSUME conn \in [Sockets -> Conns], NEW s \in Sockets, NEW d \in Conns, Become(s, d)
  PROVE  /\ conn' \in [Sockets -> Conns] /\ conn'[s] = d /\ \A r \in Sockets \ {s} : conn'[r] = conn[r]
         /\ \A t \in Sockets :
              OpenOn(t)' = (OpenOn(t) \ {s}) \union (IF IsOpenOn(d, t) THEN {s} ELSE {})
<1>1. conn' \in [Sockets -> Conns] /\ conn'[s] = d /\ \A r \in Sockets \ {s} : conn'[r] = conn[r]
  BY DEF Become
<1>2. ASSUME NEW t \in Sockets, NEW r \in Sockets
      PROVE  r \in OpenOn(t)' <=> r \in (OpenOn(t) \ {s}) \union (IF IsOpenOn(d, t) THEN {s} ELSE {})
  <2>1. CASE r = s
    BY <1>1, <2>1 DEF OpenOn, IsOpenOn
  <2>2. CASE r # s
    BY <1>1, <2>2 DEF OpenOn
  <2>3. QED
    BY <2>1, <2>2
<1>3. \A t \in Sockets : OpenOn(t)' \subseteq Sockets /\ OpenOn(t) \subseteq Sockets
  BY DEF OpenOn
<1>4. \A t \in Sockets :
        OpenOn(t)' = (OpenOn(t) \ {s}) \union (IF IsOpenOn(d, t) THEN {s} ELSE {})
  BY <1>2, <1>3
<1>5. QED
  BY <1>1, <1>4

ListsTyped == openSockets \in [Sockets -> Seq(Sockets)] /\ lentBy \in [Sockets -> Sockets \union {None}]

LEMMA ListsKept ==
  ASSUME conn \in [Sockets -> Conns], ListsTyped, Listed, NEW s \in Sockets, NEW d \in Conns, Become(s, d),
         \A t \in Sockets : IsOpenOn(d, t) <=> IsOpenOn(conn[s], t),
         UNCHANGED <<openSockets, lentBy>>
  PROVE  ListsTyped' /\ Listed'
<1>1. \A t \in Sockets : OpenOn(t)' = OpenOn(t)
  <2>1. \A t \in Sockets : s \in OpenOn(t) <=> IsOpenOn(conn[s], t)
    BY DEF OpenOn, IsOpenOn
  <2>2. QED
    BY <2>1, OpenAfter
<1>2. \A t \in Sockets : ListOf(openSockets'[t], OpenOn(t)') /\ lentBy'[t] = Lend(openSockets'[t])
  BY <1>1 DEF Listed
<1>3. QED
  BY <1>2 DEF Listed, ListsTyped

LEMMA ListsJoined ==
  ASSUME conn \in [Sockets -> Conns], ListsTyped, Listed, NEW s \in Sockets, NEW t \in Sockets,
         NEW d \in Conns, Become(s, d), ~conn[s].joined, IsOpenOn(d, t), Join(s, t)
  PROVE  ListsTyped' /\ Listed'
<1>1. openSockets[t] \in Seq(Sockets) /\ ListOf(openSockets[t], OpenOn(t)) /\ s \notin OpenOn(t)
  BY DEF ListsTyped, Listed, OpenOn
<1> DEFINE more == Append(openSockets[t], s)
<1>2. more \in Seq(Sockets) /\ ListOf(more, OpenOn(t) \union {s}) /\ Lend(more) = s
  BY <1>1, ListJoined
<1>3. /\ openSockets' = [openSockets EXCEPT ![t] = more]
      /\ lentBy' = [lentBy EXCEPT ![t] = s]
  BY DEF Join
<1> HIDE DEF more
<1>4. /\ openSockets'[t] = more /\ lentBy'[t] = s /\ ListsTyped'
      /\ \A u \in Sockets \ {t} : openSockets'[u] = openSockets[u] /\ lentBy'[u] = lentBy[u]
  BY <1>2, <1>3 DEF ListsTyped
<1>5. OpenOn(t)' = OpenOn(t) \union {s}
  BY <1>1, OpenAfter
<1>6. \A u \in Sockets \ {t} : OpenOn(u)' = OpenOn(u)
  <2>1. \A u \in Sockets \ {t} : s \notin OpenOn(u) /\ ~IsOpenOn(d, u)
    BY DEF OpenOn, IsOpenOn
  <2>2. QED
    BY <2>1, OpenAfter
<1>7. \A u \in Sockets : ListOf(openSockets'[u], OpenOn(u)') /\ lentBy'[u] = Lend(openSockets'[u])
  <2> SUFFICES ASSUME NEW u \in Sockets
               PROVE  ListOf(openSockets'[u], OpenOn(u)') /\ lentBy'[u] = Lend(openSockets'[u])
    OBVIOUS
  <2>1. CASE u = t
    BY <1>2, <1>4, <1>5, <2>1
  <2>2. CASE u # t
    BY <1>4, <1>6, <2>2 DEF Listed
  <2>3. QED
    BY <2>1, <2>2
<1>8. QED
  BY <1>4, <1>7 DEF Listed

LEMMA ListsLeft ==
  ASSUME conn \in [Sockets -> Conns], ListsTyped, Listed, NEW s \in Sockets, NEW t \in Sockets,
         NEW d \in Conns, Become(s, d), IsOpenOn(conn[s], t), d.notified, Leave(s, t)
  PROVE  ListsTyped' /\ Listed'
<1>1. openSockets[t] \in Seq(Sockets) /\ ListOf(openSockets[t], OpenOn(t)) /\ s \in OpenOn(t)
  BY DEF ListsTyped, Listed, OpenOn, IsOpenOn
<1> DEFINE less == Without(openSockets[t], s)
<1>2. less \in Seq(Sockets) /\ ListOf(less, OpenOn(t) \ {s}) /\ Contains(openSockets[t], s)
  BY <1>1, ListLeft
<1>3. /\ openSockets' = [openSockets EXCEPT ![t] = less]
      /\ lentBy' = [lentBy EXCEPT ![t] = Lend(less)]
  BY <1>2 DEF Leave
<1> HIDE DEF less
<1>4. Lend(less) \in Sockets \union {None}
  BY <1>2, ListLends
<1>5. /\ openSockets'[t] = less /\ lentBy'[t] = Lend(less) /\ ListsTyped'
      /\ \A u \in Sockets \ {t} : openSockets'[u] = openSockets[u] /\ lentBy'[u] = lentBy[u]
  BY <1>2, <1>3, <1>4 DEF ListsTyped
<1>6. OpenOn(t)' = OpenOn(t) \ {s}
  BY <1>1, OpenAfter DEF IsOpenOn
<1>7. \A u \in Sockets \ {t} : OpenOn(u)' = OpenOn(u)
  <2>1. \A u \in Sockets \ {t} : s \notin OpenOn(u) /\ ~IsOpenOn(d, u)
    BY DEF OpenOn, IsOpenOn
  <2>2. \A u \in Sockets : OpenOn(u)' = (OpenOn(u) \ {s}) \union (IF IsOpenOn(d, u) THEN {s} ELSE {})
    BY OpenAfter
  <2>3. QED
    BY <2>1, <2>2
<1>8. \A u \in Sockets : ListOf(openSockets'[u], OpenOn(u)') /\ lentBy'[u] = Lend(openSockets'[u])
  <2> SUFFICES ASSUME NEW u \in Sockets
               PROVE  ListOf(openSockets'[u], OpenOn(u)') /\ lentBy'[u] = Lend(openSockets'[u])
    OBVIOUS
  <2>1. CASE u = t
    BY <1>2, <1>5, <1>6, <2>1
  <2>2. CASE u # t
    BY <1>5, <1>7, <2>2 DEF Listed
  <2>3. QED
    BY <2>1, <2>2
<1>9. QED
  BY <1>5, <1>8 DEF Listed

(* endSession takes a connection off its list and runs its hook, once.     *)
LEMMA Ended ==
  ASSUME conn \in [Sockets -> Conns], ListsTyped, Listed, NEW s \in Sockets, NEW c \in Conns,
         EndSession(s, c), c.session = conn[s].session, c.joined = conn[s].joined,
         c.notified = conn[s].notified, c.joined => c.session # None
  PROVE  /\ ListsTyped' /\ Listed'
         /\ Become(s, [c EXCEPT !.notified = TRUE])
         /\ hooks' = IF conn[s].notified THEN hooks ELSE DisconnectHook(s)
<1> DEFINE d == [c EXCEPT !.notified = TRUE]
<1>1. /\ Has(d, c.at, c.named, c.session, c.joined, c.closed, c.settled, TRUE, c.delivered, c.kept)
      /\ c.session \in Sockets \union {None} /\ c.notified \in BOOLEAN /\ c.joined \in BOOLEAN
  BY Updated DEF Conns
<1>2. CASE c.notified
  <2>1. d = c
    BY <1>2 DEF Conns
  <2>2. Become(s, c) /\ UNCHANGED <<openSockets, lentBy, hooks>>
    BY <1>2 DEF EndSession
  <2>3. \A t \in Sockets : IsOpenOn(c, t) <=> IsOpenOn(conn[s], t)
    BY DEF IsOpenOn
  <2> HIDE DEF d
  <2>4. ListsTyped' /\ Listed'
    BY <2>2, <2>3, ListsKept
  <2>5. QED
    BY <1>2, <2>1, <2>2, <2>4 DEF d
<1>3. CASE ~c.notified
  <2>1. /\ Become(s, d) /\ hooks' = DisconnectHook(s)
        /\ IF c.joined THEN Leave(s, c.session) ELSE UNCHANGED <<openSockets, lentBy>>
    BY <1>3 DEF EndSession
  <2> HIDE DEF d
  <2>2. d \in Conns /\ d.notified
    BY <1>1 DEF Has
  <2>3. ListsTyped' /\ Listed'
    <3>1. CASE c.joined
      <4>1. c.session \in Sockets /\ IsOpenOn(conn[s], c.session) /\ Leave(s, c.session)
        BY <1>1, <1>3, <2>1, <3>1 DEF IsOpenOn
      <4>2. QED
        BY <2>1, <2>2, <4>1, ListsLeft
    <3>2. CASE ~c.joined
      <4>1. \A t \in Sockets : IsOpenOn(d, t) <=> IsOpenOn(conn[s], t)
        BY <2>2, <3>2 DEF IsOpenOn
      <4>2. QED
        BY <2>1, <2>2, <3>2, <4>1, ListsKept
    <3>3. QED
      BY <3>1, <3>2
  <2>4. QED
    BY <1>3, <2>1, <2>3 DEF d
<1>4. QED
  BY <1>2, <1>3

-----------------------------------------------------------------------------
(* What a step of one connection has to show of itself: the others keep    *)
(* what they had.                                                          *)
HooksOf(c) ==
    IF ~c.delivered THEN <<>>
    ELSE IF ~c.closed THEN <<"onConnect">>
    ELSE <<"onConnect", "onDisconnect">>

OwnPart(s, d) ==
    /\ d.session # None => userOf[d.session] = userOf[s]
    /\ d.at \in {"off", "lookup", "create"} => s \notin stored'
    /\ d.at = "created" => s \in stored'
    /\ \A t \in Sockets : s \in received'[t] <=> d.delivered /\ d.session = t
    /\ ~options.latest =>
         /\ d.at = "lookup" => d.named # None
         /\ d.named # None => received[d.named] # {}
         /\ d.at = "found" => d.session = d.named
         /\ conn[s].delivered => d.delivered /\ (s \in stored => s \in stored')
         /\ \A t \in Sockets : received'[t] # received[t] =>
              received[t] # {} \/ (t = s /\ d.delivered /\ s \in stored')
    /\ options.hasEvict /\ ~options.promptsMayThrow /\ s \in stored' =>
         (d.session = s /\ d.at \in {"failed", "gone"} /\ ~d.delivered => d.kept)
    /\ hooks'[s] = HooksOf(d)

StepOf(s, d) ==
    /\ d \in Conns /\ Become(s, d) /\ Shape(s, d) /\ OwnPart(s, d)
    /\ UNCHANGED <<options, userOf>>
    /\ ListsTyped' /\ Listed'
    /\ stored' \subseteq Sockets
    /\ received' \in [Sockets -> SUBSET Sockets]
    /\ hooks' \in [Sockets -> Seq({"onConnect", "onDisconnect"})]
    /\ \A r \in Sockets \ {s} : /\ r \in stored' <=> r \in stored
                                /\ hooks'[r] = hooks[r]
                                /\ \A t \in Sockets : r \in received'[t] <=> r \in received[t]
    /\ \A t \in Sockets : received[t] \subseteq received'[t]

LEMMA Typed ==
  ASSUME IInv
  PROVE  conn \in [Sockets -> Conns] /\ ListsTyped /\ Listed
BY DEF IInv, TypeOK, Conns, ListsTyped

LEMMA StepKeeps ==
  ASSUME IInv, NEW s \in Sockets, NEW d, StepOf(s, d)
  PROVE  IInv'
<1>1. conn' \in [Sockets -> Conns] /\ conn'[s] = d /\ \A r \in Sockets \ {s} : conn'[r] = conn[r]
  BY Typed, OpenAfter DEF StepOf
<1>2. Shapes'
  BY <1>1 DEF StepOf, IInv, Shapes
<1>3. TypeOK'
  <2>1. \A r \in Sockets : /\ conn'[r].notified => conn'[r].settled
                           /\ conn'[r].delivered => conn'[r].joined
    BY <1>2 DEF Shapes, Shape
  <2>2. QED
    BY <1>1, <2>1 DEF StepOf, ListsTyped, IInv, TypeOK, Conns
<1>4. Listed'
  BY DEF StepOf
<1>5. Owned'
  <2> SUFFICES ASSUME NEW r \in Sockets
               PROVE  /\ conn'[r].session # None => userOf[conn'[r].session] = userOf[r]
                      /\ conn'[r].at \in {"off", "lookup", "create"} => r \notin stored'
                      /\ conn'[r].at = "created" => r \in stored'
    BY DEF StepOf, Owned
  <2>1. CASE r = s
    BY <1>1, <2>1 DEF StepOf, OwnPart
  <2>2. CASE r # s
    BY <1>1, <2>2 DEF StepOf, IInv, Owned
  <2>3. QED
    BY <2>1, <2>2
<1>6. Received'
  <2> SUFFICES ASSUME NEW r \in Sockets, NEW t \in Sockets
               PROVE  r \in received'[t] <=> conn'[r].delivered /\ conn'[r].session = t
    BY DEF Received
  <2>1. CASE r = s
    BY <1>1, <2>1 DEF StepOf, OwnPart
  <2>2. CASE r # s
    <3>1. r \in received'[t] <=> r \in received[t]
      BY <2>2 DEF StepOf
    <3>2. r \in received[t] <=> conn[r].delivered /\ conn[r].session = t
      BY DEF IInv, Received
    <3>3. QED
      BY <1>1, <2>2, <3>1, <3>2
  <2>3. QED
    BY <2>1, <2>2
<1>7. Named'
  <2> SUFFICES ASSUME ~options.latest, NEW r \in Sockets
               PROVE  /\ conn'[r].at = "lookup" => conn'[r].named # None
                      /\ conn'[r].named # None => received'[conn'[r].named] # {}
                      /\ conn'[r].at = "found" => conn'[r].session = conn'[r].named
                      /\ received'[r] # {} => conn'[r].delivered /\ r \in stored'
    BY DEF StepOf, Named
  <2>1. /\ conn'[r].at = "lookup" => conn'[r].named # None
        /\ conn'[r].named # None => received[conn'[r].named] # {}
        /\ conn'[r].at = "found" => conn'[r].session = conn'[r].named
    <3>1. CASE r = s
      BY <1>1, <3>1 DEF StepOf, OwnPart
    <3>2. CASE r # s
      BY <1>1, <3>2 DEF IInv, Named
    <3>3. QED
      BY <3>1, <3>2
  <2>2. conn'[r].named \in Sockets \union {None}
    BY <1>1 DEF Conns
  <2>3. conn'[r].named # None => received'[conn'[r].named] # {}
    BY <2>1, <2>2 DEF StepOf
  <2>4. ASSUME received'[r] # {} PROVE conn'[r].delivered /\ r \in stored'
    <3>1. CASE received[r] # {}
      <4>1. conn[r].delivered /\ r \in stored
        BY <3>1 DEF IInv, Named
      <4>2. QED
        BY <1>1, <4>1 DEF StepOf, OwnPart
    <3>2. CASE received[r] = {}
      <4>1. r = s /\ d.delivered /\ s \in stored'
        BY <2>4, <3>2 DEF StepOf, OwnPart
      <4>2. QED
        BY <1>1, <4>1
    <3>3. QED
      BY <3>1, <3>2
  <2>5. QED
    BY <2>1, <2>3, <2>4
<1>8. Left'
  <2> SUFFICES ASSUME options.hasEvict, ~options.promptsMayThrow, NEW r \in stored',
                      conn'[r].session = r, conn'[r].at \in {"failed", "gone"}, ~conn'[r].delivered
               PROVE  conn'[r].kept
    BY DEF StepOf, Left
  <2>1. r \in Sockets
    BY DEF StepOf
  <2>2. CASE r = s
    BY <1>1, <2>2 DEF StepOf, OwnPart
  <2>3. CASE r # s
    BY <1>1, <2>1, <2>3 DEF StepOf, IInv, Left
  <2>4. QED
    BY <2>2, <2>3
<1>9. HooksPaired'
  <2> SUFFICES ASSUME NEW r \in Sockets
               PROVE  hooks'[r] = HooksOf(conn'[r])
    BY DEF HooksPaired, HooksOf
  <2>1. CASE r = s
    BY <1>1, <2>1 DEF StepOf, OwnPart
  <2>2. CASE r # s
    BY <1>1, <2>2 DEF StepOf, IInv, HooksPaired, HooksOf
  <2>3. QED
    BY <2>1, <2>2
<1>10. QED
  BY <1>2, <1>3, <1>4, <1>5, <1>6, <1>7, <1>8, <1>9 DEF IInv

(* What is known of a connection before its step.                          *)
LEMMA Before ==
  ASSUME IInv, NEW s \in Sockets
  PROVE  /\ conn[s] \in Conns /\ Shape(s, conn[s])
         /\ conn[s].session \in Sockets \union {None} /\ conn[s].named \in Sockets \union {None}
         /\ conn[s].session # None => userOf[conn[s].session] = userOf[s]
         /\ conn[s].at \in {"off", "lookup", "create"} => s \notin stored
         /\ conn[s].at = "created" => s \in stored
         /\ \A t \in Sockets : s \in received[t] <=> conn[s].delivered /\ conn[s].session = t
         /\ ~options.latest =>
              /\ conn[s].at = "lookup" => conn[s].named # None
              /\ conn[s].named # None => received[conn[s].named] # {}
              /\ conn[s].at = "found" => conn[s].session = conn[s].named
              /\ \A t \in Sockets : received[t] # {} => conn[t].delivered /\ t \in stored
         /\ options.hasEvict /\ ~options.promptsMayThrow /\ s \in stored =>
              (conn[s].session = s /\ conn[s].at \in {"failed", "gone"} /\ ~conn[s].delivered => conn[s].kept)
         /\ hooks[s] = HooksOf(conn[s])
         /\ stored \subseteq Sockets
         /\ received \in [Sockets -> SUBSET Sockets]
         /\ hooks \in [Sockets -> Seq({"onConnect", "onDisconnect"})]
<1>1. conn[s] \in Conns /\ Shape(s, conn[s])
  BY Typed DEF IInv, Shapes
<1>2. conn[s].session \in Sockets \union {None} /\ conn[s].named \in Sockets \union {None}
  BY <1>1 DEF Conns
<1>3. /\ conn[s].session # None => userOf[conn[s].session] = userOf[s]
      /\ conn[s].at \in {"off", "lookup", "create"} => s \notin stored
      /\ conn[s].at = "created" => s \in stored
  BY DEF IInv, Owned
<1>4. \A t \in Sockets : s \in received[t] <=> conn[s].delivered /\ conn[s].session = t
  BY DEF IInv, Received
<1>5. ~options.latest =>
        /\ conn[s].at = "lookup" => conn[s].named # None
        /\ conn[s].named # None => received[conn[s].named] # {}
        /\ conn[s].at = "found" => conn[s].session = conn[s].named
        /\ \A t \in Sockets : received[t] # {} => conn[t].delivered /\ t \in stored
  BY DEF IInv, Named
<1>6. options.hasEvict /\ ~options.promptsMayThrow /\ s \in stored =>
        (conn[s].session = s /\ conn[s].at \in {"failed", "gone"} /\ ~conn[s].delivered => conn[s].kept)
  BY DEF IInv, Left
<1>7. hooks[s] = HooksOf(conn[s])
  BY DEF IInv, HooksPaired, HooksOf
<1>8. /\ stored \subseteq Sockets /\ received \in [Sockets -> SUBSET Sockets]
      /\ hooks \in [Sockets -> Seq({"onConnect", "onDisconnect"})]
  BY DEF IInv, TypeOK
<1>9. QED
  BY <1>1, <1>2, <1>3, <1>4, <1>5, <1>6, <1>7, <1>8

(* A step that leaves the lists, the clients and the hooks alone.          *)
LEMMA QuietStep ==
  ASSUME IInv, NEW s \in Sockets, NEW d \in Conns, Become(s, d), Shape(s, d), OwnPart(s, d),
         \A t \in Sockets : IsOpenOn(d, t) <=> IsOpenOn(conn[s], t),
         UNCHANGED <<options, userOf, openSockets, lentBy, received, hooks>>,
         stored' \subseteq Sockets,
         \A r \in Sockets \ {s} : r \in stored' <=> r \in stored
  PROVE  IInv'
<1>1. ListsTyped' /\ Listed'
  BY Typed, ListsKept
<1>2. StepOf(s, d)
  BY <1>1, Before DEF StepOf
<1>3. QED
  BY <1>2, StepKeeps

LEMMA ConnectKeeps ==
  ASSUME IInv, NEW s \in Sockets, NEW named \in Sockets \union {None}, NEW startNew \in BOOLEAN,
         Connect(s, named, startNew)
  PROVE  IInv'
<1> DEFINE c == conn[s]
           p == IF named # None \/ (options.latest /\ ~startNew) THEN "lookup" ELSE "create"
           d == [c EXCEPT !.at = p, !.named = named]
<1>1. /\ c.at = "off" /\ (named # None => received[named] # {})
      /\ Become(s, d)
      /\ UNCHANGED <<options, userOf, stored, openSockets, lentBy, received, hooks>>
  BY DEF Connect
<1>2. c \in Conns /\ Shape(s, c)
  BY Before
<1>3. p \in {"lookup", "create"} /\ p \in Places
  BY DEF Places
<1>4. Has(d, p, named, c.session, c.joined, c.closed, c.settled, c.notified, c.delivered, c.kept)
  BY <1>2, <1>3, Updated
<1>5. p = "lookup" /\ ~options.latest => named # None
  OBVIOUS
<1> HIDE DEF p, d
<1>6. Shape(s, d)
  BY <1>1, <1>2, <1>3, <1>4 DEF Shape, Has
<1>7. OwnPart(s, d)
  BY <1>1, <1>2, <1>3, <1>4, <1>5, Before DEF Shape, Has, OwnPart, HooksOf
<1>8. QED
  BY <1>1, <1>2, <1>4, <1>6, <1>7, QuietStep, Before DEF Has, IsOpenOn

LEMMA LookUpKeeps ==
  ASSUME IInv, NEW s \in Sockets, LookUp(s)
  PROVE  IInv'
<1> DEFINE c == conn[s]
<1>1. /\ c.at = "lookup" /\ UNCHANGED <<options, userOf, stored, openSockets, lentBy, received, hooks>>
      /\ c \in Conns /\ Shape(s, c)
  BY Before DEF LookUp
<1>2. CASE Become(s, [c EXCEPT !.at = "create"])
  <2> DEFINE d == [c EXCEPT !.at = "create"]
  <2>1. Has(d, "create", c.named, c.session, c.joined, c.closed, c.settled, c.notified, c.delivered, c.kept)
    BY <1>1, Updated DEF Places
  <2>2. Become(s, d)
    BY <1>2
  <2> HIDE DEF d
  <2>3. Shape(s, d)
    BY <1>1, <2>1 DEF Shape, Has
  <2>4. OwnPart(s, d)
    BY <1>1, <2>1, Before DEF Shape, Has, OwnPart, HooksOf
  <2>5. QED
    BY <1>1, <2>1, <2>2, <2>3, <2>4, QuietStep, Before DEF Has, IsOpenOn
<1>3. ASSUME NEW t \in IF c.named = None THEN OwnedBy(s) ELSE OwnedBy(s) \intersect {c.named},
             Become(s, [c EXCEPT !.at = "found", !.session = t])
      PROVE  IInv'
  <2> DEFINE d == [c EXCEPT !.at = "found", !.session = t]
  <2>1. t \in stored /\ t \in Sockets /\ t # s /\ t # None /\ userOf[t] = userOf[s]
    BY <1>1, <1>3, Before, NoneAssumption DEF OwnedBy
  <2>2. c.named # None => t = c.named
    BY <1>3
  <2>3. Has(d, "found", c.named, t, c.joined, c.closed, c.settled, c.notified, c.delivered, c.kept)
    BY <1>1, <2>1, Updated DEF Places
  <2>4. Become(s, d)
    BY <1>3
  <2> HIDE DEF d
  <2>5. Shape(s, d)
    BY <1>1, <2>1, <2>3 DEF Shape, Has
  <2>6. OwnPart(s, d)
    BY <1>1, <2>1, <2>2, <2>3, Before DEF Shape, Has, OwnPart, HooksOf
  <2>7. \A u \in Sockets : IsOpenOn(d, u) <=> IsOpenOn(c, u)
    BY <1>1, <2>3 DEF Shape, Has, IsOpenOn
  <2>8. QED
    BY <1>1, <2>3, <2>4, <2>5, <2>6, <2>7, QuietStep, Before DEF Has
<1>4. QED
  BY <1>2, <1>3 DEF LookUp

LEMMA InsertKeeps ==
  ASSUME IInv, NEW s \in Sockets, Insert(s)
  PROVE  IInv'
<1> DEFINE c == conn[s]
           d == [c EXCEPT !.at = "created", !.session = s]
<1>1. /\ c.at = "create" /\ stored' = stored \union {s} /\ Become(s, d)
      /\ UNCHANGED <<options, userOf, openSockets, lentBy, received, hooks>>
      /\ c \in Conns /\ Shape(s, c)
  BY Before DEF Insert
<1>2. Has(d, "created", c.named, s, c.joined, c.closed, c.settled, c.notified, c.delivered, c.kept)
  BY <1>1, Updated DEF Places
<1> HIDE DEF d
<1>3. Shape(s, d)
  BY <1>1, <1>2 DEF Shape, Has
<1>4. OwnPart(s, d)
  BY <1>1, <1>2, Before DEF Shape, Has, OwnPart, HooksOf
<1>5. \A u \in Sockets : IsOpenOn(d, u) <=> IsOpenOn(c, u)
  BY <1>1, <1>2 DEF Shape, Has, IsOpenOn
<1>6. stored' \subseteq Sockets /\ \A r \in Sockets \ {s} : r \in stored' <=> r \in stored
  BY <1>1, Before
<1>7. QED
  BY <1>1, <1>2, <1>3, <1>4, <1>5, <1>6, QuietStep DEF Has

LEMMA CreateRejectsKeeps ==
  ASSUME IInv, NEW s \in Sockets, CreateRejects(s)
  PROVE  IInv'
<1> DEFINE c == conn[s]
           p == IF c.closed THEN "gone" ELSE "failed"
           d == [c EXCEPT !.at = p, !.session = None, !.settled = TRUE]
<1>1. /\ c.at \in {"create", "created"} /\ Become(s, d)
      /\ UNCHANGED <<options, userOf, stored, openSockets, lentBy, received, hooks>>
      /\ c \in Conns /\ Shape(s, c)
  BY Before DEF CreateRejects
<1>2. Has(d, p, c.named, None, c.joined, c.closed, TRUE, c.notified, c.delivered, c.kept)
  BY <1>1, Updated DEF Places
<1>3. (p = "gone" /\ c.closed) \/ (p = "failed" /\ ~c.closed)
  OBVIOUS
<1> HIDE DEF d, p
<1>4. Shape(s, d)
  BY <1>1, <1>2, <1>3 DEF Shape, Has
<1>5. OwnPart(s, d)
  BY <1>1, <1>2, <1>3, Before, NoneAssumption DEF Shape, Has, OwnPart, HooksOf
<1>6. \A u \in Sockets : IsOpenOn(d, u) <=> IsOpenOn(c, u)
  BY <1>1, <1>2 DEF Shape, Has, IsOpenOn
<1>7. QED
  BY <1>1, <1>2, <1>4, <1>5, <1>6, QuietStep, Before DEF Has

(* A session that is not handed over: evicted where it is new.             *)
LEMMA UnsentKeeps ==
  ASSUME IInv, NEW s \in Sockets, FoundClosed(s) \/ SendThrows(s)
  PROVE  IInv'
<1> DEFINE c == conn[s]
<1>1. /\ c.at \in {"found", "created"} /\ c \in Conns /\ Shape(s, c)
      /\ UNCHANGED <<options, userOf, stored, received, hooks>>
      /\ c.session \in Sockets
  BY Before, NoneAssumption DEF FoundClosed, SendThrows, Answered, Shape
<1>2. CASE Evicts(s)
  <2> DEFINE d == [c EXCEPT !.settled = TRUE, !.joined = TRUE, !.at = "evicting"]
  <2>1. Become(s, d) /\ Join(s, c.session)
    BY <1>2 DEF FoundClosed, SendThrows
  <2>2. c.at = "created" /\ c.session = s
    BY <1>1, <1>2 DEF Evicts, Resumed, Shape
  <2>3. Has(d, "evicting", c.named, c.session, TRUE, c.closed, TRUE, c.notified, c.delivered, c.kept)
    BY <1>1, Updated DEF Places
  <2> HIDE DEF d
  <2>4. Shape(s, d)
    BY <1>1, <2>2, <2>3, NoneAssumption DEF Shape, Has
  <2>5. OwnPart(s, d)
    BY <1>1, <2>2, <2>3, Before DEF Shape, Has, OwnPart, HooksOf
  <2>6. ~c.joined /\ IsOpenOn(d, c.session)
    BY <1>1, <2>3 DEF Shape, Has, IsOpenOn
  <2>7. ListsTyped' /\ Listed'
    BY <1>1, <2>1, <2>3, <2>6, Typed, ListsJoined DEF Has
  <2>8. StepOf(s, d)
    BY <1>1, <2>1, <2>3, <2>4, <2>5, <2>7, Before DEF StepOf, Has
  <2>9. QED
    BY <2>8, StepKeeps
<1>3. CASE ~Evicts(s)
  <2> DEFINE p == IF FoundClosed(s) THEN "gone" ELSE "failed"
             d == [c EXCEPT !.settled = TRUE, !.notified = TRUE, !.at = p]
  <2>1. /\ Become(s, d) /\ UNCHANGED <<openSockets, lentBy>>
        /\ (p = "gone" /\ c.closed) \/ (p = "failed" /\ ~c.closed)
    BY <1>3 DEF FoundClosed, SendThrows
  <2>2. Has(d, p, c.named, c.session, c.joined, c.closed, TRUE, TRUE, c.delivered, c.kept)
    BY <1>1, Updated DEF Places
  <2>3. options.hasEvict => c.session # s
    BY <1>1, <1>3, NoneAssumption DEF Evicts, Resumed
  <2> HIDE DEF d, p
  <2>4. Shape(s, d)
    BY <1>1, <2>1, <2>2 DEF Shape, Has
  <2>5. OwnPart(s, d)
    BY <1>1, <2>1, <2>2, <2>3, Before DEF Shape, Has, OwnPart, HooksOf
  <2>6. \A u \in Sockets : IsOpenOn(d, u) <=> IsOpenOn(c, u)
    BY <1>1, <2>2 DEF Shape, Has, IsOpenOn
  <2>7. QED
    BY <1>1, <2>1, <2>2, <2>4, <2>5, <2>6, QuietStep, Before DEF Has
<1>4. QED
  BY <1>2, <1>3

LEMMA PromptsThrowKeeps ==
  ASSUME IInv, NEW s \in Sockets, PromptsThrow(s)
  PROVE  IInv'
<1> DEFINE c == conn[s]
           d == [c EXCEPT !.settled = TRUE, !.joined = TRUE, !.at = "failed"]
<1>1. /\ c.at \in {"found", "created"} /\ c \in Conns /\ Shape(s, c) /\ ~c.closed
      /\ options.promptsMayThrow /\ Become(s, d) /\ Join(s, c.session)
      /\ UNCHANGED <<options, userOf, stored, received, hooks>>
      /\ c.session \in Sockets
  BY Before, NoneAssumption DEF PromptsThrow, Answered, Shape
<1>2. Has(d, "failed", c.named, c.session, TRUE, c.closed, TRUE, c.notified, c.delivered, c.kept)
  BY <1>1, Updated DEF Places
<1> HIDE DEF d
<1>3. Shape(s, d)
  BY <1>1, <1>2, NoneAssumption DEF Shape, Has
<1>4. OwnPart(s, d)
  BY <1>1, <1>2, Before DEF Shape, Has, OwnPart, HooksOf
<1>5. ~c.joined /\ IsOpenOn(d, c.session)
  BY <1>1, <1>2 DEF Shape, Has, IsOpenOn
<1>6. ListsTyped' /\ Listed'
  BY <1>1, <1>2, <1>5, Typed, ListsJoined DEF Has
<1>7. StepOf(s, d)
  BY <1>1, <1>2, <1>3, <1>4, <1>6, Before DEF StepOf, Has
<1>8. QED
  BY <1>7, StepKeeps

LEMMA DeliverKeeps ==
  ASSUME IInv, NEW s \in Sockets, Deliver(s)
  PROVE  IInv'
<1> DEFINE c == conn[s]
           t == c.session
           d == [c EXCEPT !.settled = TRUE, !.joined = TRUE, !.delivered = TRUE, !.at = "live"]
<1>1. /\ c.at \in {"found", "created"} /\ c \in Conns /\ Shape(s, c) /\ ~c.closed
      /\ Become(s, d) /\ Join(s, t)
      /\ UNCHANGED <<options, userOf, stored>>
      /\ received' = [received EXCEPT ![t] = @ \union {s}]
      /\ hooks' = [hooks EXCEPT ![s] = Append(@, "onConnect")]
      /\ t \in Sockets
  BY Before, NoneAssumption DEF Deliver, Answered, Shape
<1>2. Has(d, "live", c.named, t, TRUE, c.closed, TRUE, c.notified, TRUE, c.kept)
  BY <1>1, Updated DEF Places
<1>3. ~c.delivered /\ ~c.joined /\ ~c.notified /\ (c.at = "created" => t = s)
  BY <1>1 DEF Shape
<1> HIDE DEF d
<1>4. Shape(s, d)
  BY <1>1, <1>2, <1>3, NoneAssumption DEF Shape, Has
<1>5. hooks[s] = <<>> /\ hooks \in [Sockets -> Seq({"onConnect", "onDisconnect"})]
  BY <1>3, Before DEF HooksOf
<1>6. /\ hooks' \in [Sockets -> Seq({"onConnect", "onDisconnect"})]
      /\ hooks'[s] = <<"onConnect">>
      /\ \A r \in Sockets \ {s} : hooks'[r] = hooks[r]
  BY <1>1, <1>5
<1>7. /\ received \in [Sockets -> SUBSET Sockets]
      /\ \A u \in Sockets : s \in received[u] <=> c.delivered /\ t = u
  BY Before
<1>8. /\ received' \in [Sockets -> SUBSET Sockets]
      /\ received'[t] = received[t] \union {s}
      /\ \A u \in Sockets \ {t} : received'[u] = received[u]
  BY <1>1, <1>7
<1>9. \A u \in Sockets : s \in received'[u] <=> t = u
  BY <1>3, <1>7, <1>8
<1>10. ~options.latest =>
         \A u \in Sockets : received'[u] # received[u] =>
             received[u] # {} \/ (u = s /\ s \in stored)
  <2> SUFFICES ASSUME ~options.latest
               PROVE  received[t] # {} \/ (t = s /\ s \in stored)
    BY <1>8
  <2>1. CASE c.at = "found"
    BY <1>1, <2>1, Before, NoneAssumption
  <2>2. CASE c.at = "created"
    BY <1>3, <2>2, Before
  <2>3. QED
    BY <1>1, <2>1, <2>2
<1>11. OwnPart(s, d)
  BY <1>1, <1>2, <1>3, <1>6, <1>9, <1>10, Before DEF Has, OwnPart, HooksOf
<1>12. IsOpenOn(d, t)
  BY <1>2, <1>3 DEF Has, IsOpenOn
<1>13. ListsTyped' /\ Listed'
  BY <1>1, <1>2, <1>3, <1>12, Typed, ListsJoined DEF Has
<1>14. \A r \in Sockets \ {s} : \A u \in Sockets : r \in received'[u] <=> r \in received[u]
  BY <1>8
<1>15. \A u \in Sockets : received[u] \subseteq received'[u]
  BY <1>8
<1>16. stored' \subseteq Sockets /\ stored' = stored
  BY <1>1, Before
<1>17. StepOf(s, d)
  BY <1>1, <1>2, <1>4, <1>6, <1>8, <1>11, <1>13, <1>14, <1>15, <1>16 DEF StepOf, Has
<1>18. QED
  BY <1>17, StepKeeps

LEMMA AppendedToOne ==
  ASSUME NEW x, NEW y
  PROVE  Append(<<x>>, y) = <<x, y>>
<1> DEFINE s == Append(<<x>>, y)
           t == <<x, y>>
<1>1. /\ <<x>> \in Seq({x, y}) /\ Len(<<x>>) = 1 /\ <<x>>[1] = x
      /\ t \in Seq({x, y}) /\ Len(t) = 2 /\ t[1] = x /\ t[2] = y
  OBVIOUS
<1>2. s \in Seq({x, y}) /\ Len(s) = 2 /\ s[1] = x /\ s[2] = y
  BY <1>1, AppendProperties
<1> HIDE DEF s, t
<1>3. \A i \in 1..2 : i = 1 \/ i = 2
  OBVIOUS
<1>4. s = t
  BY <1>1, <1>2, <1>3, SeqEqual
<1>5. QED
  BY <1>4 DEF s, t

(* The hook of a connection that ends.                                     *)
LEMMA HookRun ==
  ASSUME IInv, NEW s \in Sockets, hooks' = DisconnectHook(s)
  PROVE  /\ hooks' \in [Sockets -> Seq({"onConnect", "onDisconnect"})]
         /\ \A r \in Sockets \ {s} : hooks'[r] = hooks[r]
         /\ hooks'[s] = IF conn[s].delivered THEN Append(hooks[s], "onDisconnect") ELSE hooks[s]
<1>1. hooks \in [Sockets -> Seq({"onConnect", "onDisconnect"})] /\ hooks[s] \in Seq({"onConnect", "onDisconnect"})
  BY Before
<1>2. Append(hooks[s], "onDisconnect") \in Seq({"onConnect", "onDisconnect"})
  BY <1>1, AppendProperties
<1>3. QED
  BY <1>1, <1>2 DEF DisconnectHook

LEMMA EvictedKeeps ==
  ASSUME IInv, NEW s \in Sockets, NEW kept \in BOOLEAN, Evicted(s, kept)
  PROVE  IInv'
<1> DEFINE c == conn[s]
           p == IF c.closed THEN "gone" ELSE "failed"
           e == [c EXCEPT !.at = p, !.kept = kept]
           d == [e EXCEPT !.notified = TRUE]
<1>1. /\ c.at = "evicting" /\ c \in Conns /\ Shape(s, c)
      /\ stored' = IF kept THEN stored ELSE stored \ {c.session}
      /\ EndSession(s, e) /\ UNCHANGED <<options, userOf, received>>
  BY Before DEF Evicted
<1>2. c.session = s /\ c.joined /\ ~c.delivered /\ c.session # None /\ c.settled
  BY <1>1, NoneAssumption DEF Shape
<1>3. p \in Places /\ ((p = "gone" /\ c.closed) \/ (p = "failed" /\ ~c.closed))
  BY DEF Places
<1>4. Has(e, p, c.named, c.session, c.joined, c.closed, c.settled, c.notified, c.delivered, kept)
  BY <1>1, Updated DEF Places
<1> HIDE DEF e, p
<1>5. Has(d, p, c.named, c.session, c.joined, c.closed, c.settled, TRUE, c.delivered, kept)
  BY <1>3, <1>4, Updated DEF Has
<1>6. /\ ListsTyped' /\ Listed' /\ Become(s, d)
      /\ hooks' = IF c.notified THEN hooks ELSE DisconnectHook(s)
  BY <1>1, <1>2, <1>4, Typed, Ended DEF Has
<1>7. hooks' = hooks
  BY <1>2, <1>6 DEF DisconnectHook
<1> HIDE DEF d
<1>8. Shape(s, d)
  BY <1>1, <1>2, <1>3, <1>5 DEF Shape, Has
<1>9. OwnPart(s, d)
  BY <1>1, <1>2, <1>3, <1>5, <1>7, Before DEF Has, OwnPart, HooksOf
<1>10. stored' \subseteq Sockets /\ \A r \in Sockets \ {s} : r \in stored' <=> r \in stored
  BY <1>1, <1>2, Before
<1>11. StepOf(s, d)
  BY <1>1, <1>5, <1>6, <1>7, <1>8, <1>9, <1>10, Before DEF StepOf, Has
<1>12. QED
  BY <1>11, StepKeeps

LEMMA CloseKeeps ==
  ASSUME IInv, NEW s \in Sockets, Close(s)
  PROVE  IInv'
<1> DEFINE c == conn[s]
           p == IF c.at \in {"live", "failed"} THEN "gone" ELSE c.at
           e == [c EXCEPT !.closed = TRUE, !.at = p]
           d == [e EXCEPT !.notified = TRUE]
<1>1. /\ c.at # "off" /\ ~c.closed /\ c \in Conns /\ Shape(s, c)
      /\ c.at \in Places
      /\ UNCHANGED <<options, userOf, stored, received>>
  BY Before DEF Close, Conns
<1>2. e = [c EXCEPT !.closed = TRUE, !.at = IF @ \in {"live", "failed"} THEN "gone" ELSE @]
  BY <1>1 DEF Conns
<1>3. IF e.settled THEN EndSession(s, e) ELSE Become(s, e) /\ UNCHANGED <<openSockets, lentBy, hooks>>
  BY <1>2 DEF Close
<1>4. \/ p = "gone" /\ c.at \in {"live", "failed"}
      \/ p = c.at /\ c.at \notin {"live", "failed", "gone", "off"}
  BY <1>1 DEF Shape
<1>5. p \in Places
  BY <1>1, <1>4 DEF Places
<1>6. Has(e, p, c.named, c.session, c.joined, TRUE, c.settled, c.notified, c.delivered, c.kept)
  BY <1>1, <1>5, Updated
<1> HIDE DEF p, e
<1>7. CASE ~c.settled
  <2>1. Become(s, e) /\ UNCHANGED <<openSockets, lentBy, hooks>>
    BY <1>3, <1>6, <1>7 DEF Has
  <2>2. Shape(s, e)
    BY <1>1, <1>4, <1>6, <1>7 DEF Shape, Has
  <2>3. OwnPart(s, e)
    <3>1. ~c.delivered /\ p = c.at /\ c.at \notin {"failed", "gone", "off"}
      BY <1>1, <1>4, <1>7 DEF Shape, Places
    <3>2. hooks'[s] = HooksOf(e)
      BY <1>6, <2>1, <3>1, Before DEF Has, HooksOf
    <3>3. QED
      BY <1>1, <1>6, <2>1, <3>1, <3>2, Before DEF Has, OwnPart
  <2>4. \A u \in Sockets : IsOpenOn(e, u) <=> IsOpenOn(c, u)
    BY <1>6 DEF Has, IsOpenOn
  <2>5. QED
    BY <1>1, <1>6, <2>1, <2>2, <2>3, <2>4, QuietStep, Before DEF Has
<1>8. CASE c.settled
  <2>1. EndSession(s, e)
    BY <1>3, <1>6, <1>8 DEF Has
  <2>2. Has(d, p, c.named, c.session, c.joined, TRUE, c.settled, TRUE, c.delivered, c.kept)
    BY <1>5, <1>6, Updated DEF Has
  <2>3. c.joined => c.session # None
    BY <1>1 DEF Shape
  <2>4. /\ ListsTyped' /\ Listed' /\ Become(s, d)
        /\ hooks' = IF c.notified THEN hooks ELSE DisconnectHook(s)
    BY <1>6, <2>1, <2>3, Typed, Ended DEF Has
  <2>5. /\ hooks' \in [Sockets -> Seq({"onConnect", "onDisconnect"})]
        /\ \A r \in Sockets \ {s} : hooks'[r] = hooks[r]
        /\ hooks'[s] = IF c.delivered /\ ~c.notified THEN Append(hooks[s], "onDisconnect") ELSE hooks[s]
    BY <2>4, HookRun, Before
  <2>6. c.delivered => c.at = "live" /\ ~c.notified
    BY <1>1 DEF Shape, Places
  <2> HIDE DEF d
  <2>7. Shape(s, d)
    BY <1>1, <1>4, <1>8, <2>2 DEF Shape, Has
  <2>8. hooks'[s] = HooksOf(d)
    <3>1. hooks[s] = HooksOf(c)
      BY Before
    <3>2. CASE c.delivered
      <4>1. hooks[s] = <<"onConnect">> /\ hooks'[s] = Append(hooks[s], "onDisconnect")
        BY <1>1, <2>5, <2>6, <3>1, <3>2 DEF HooksOf
      <4>2. Append(<<"onConnect">>, "onDisconnect") = <<"onConnect", "onDisconnect">>
        BY AppendedToOne
      <4>3. QED
        BY <2>2, <3>2, <4>1, <4>2 DEF Has, HooksOf
    <3>3. CASE ~c.delivered
      BY <2>2, <2>5, <3>1, <3>3 DEF Has, HooksOf
    <3>4. QED
      BY <1>1, <3>2, <3>3
  <2>9. OwnPart(s, d)
    BY <1>1, <1>4, <1>8, <2>2, <2>8, Before DEF Shape, Has, OwnPart
  <2>10. StepOf(s, d)
    BY <1>1, <2>2, <2>4, <2>5, <2>7, <2>9, Before DEF StepOf, Has
  <2>11. QED
    BY <2>10, StepKeeps
<1>9. QED
  BY <1>1, <1>7, <1>8 DEF Conns

-----------------------------------------------------------------------------
LEMMA InitEstablishes == Init => IInv
<1> SUFFICES ASSUME Init PROVE IInv
  OBVIOUS
<1> DEFINE c == [at |-> "off", named |-> None, session |-> None, joined |-> FALSE, closed |-> FALSE,
                 settled |-> FALSE, notified |-> FALSE, delivered |-> FALSE, kept |-> FALSE]
<1>1. Has(c, "off", None, None, FALSE, FALSE, FALSE, FALSE, FALSE, FALSE)
  BY DEF Has, Conns, Places
<1>2. \A s \in Sockets : conn[s] = c
  BY DEF Init
<1>3. conn = [s \in Sockets |-> c]
  BY DEF Init
<1> HIDE DEF c
<1>4. \A S : <<>> \in Seq(S)
  OBVIOUS
<1>5. TypeOK
  <2>1. conn \in [Sockets -> Conns]
    BY <1>1, <1>3 DEF Has
  <2>2. \A s \in Sockets : /\ conn[s].notified => conn[s].settled
                           /\ conn[s].delivered => conn[s].joined
    BY <1>1, <1>2 DEF Has
  <2>3. QED
    BY <1>4, <2>1, <2>2 DEF Init, TypeOK, Conns
<1>6. Shapes
  BY <1>1, <1>2 DEF Shapes, Shape, Has
<1>7. Listed
  <2>1. \A t \in Sockets : openSockets[t] = <<>> /\ lentBy[t] = None
    BY DEF Init
  <2>2. \A t \in Sockets : OpenOn(t) = {}
    BY <1>1, <1>2 DEF OpenOn, Has
  <2>3. ListOf(<<>>, {}) /\ Lend(<<>>) = None
    BY DEF ListOf, Lend
  <2>4. QED
    BY <2>1, <2>2, <2>3 DEF Listed
<1>8. \A s \in Sockets : received[s] = {} /\ stored = {} /\ hooks[s] = <<>>
  BY DEF Init
<1>9. Owned /\ Received /\ Named /\ Left /\ HooksPaired
  BY <1>1, <1>2, <1>8, NoneAssumption DEF Owned, Received, Named, Left, HooksPaired, Has, Init
<1>10. QED
  BY <1>5, <1>6, <1>7, <1>9 DEF IInv

LEMMA NextKeeps == IInv /\ [Next]_vars => IInv'
<1> SUFFICES ASSUME IInv, [Next]_vars PROVE IInv'
  OBVIOUS
<1>1. ASSUME NEW s \in Sockets, NEW named \in Sockets \union {None}, NEW startNew \in BOOLEAN,
             Connect(s, named, startNew)
      PROVE  IInv'
  BY <1>1, ConnectKeeps
<1>2. ASSUME NEW s \in Sockets, Proceed(s)
      PROVE  IInv'
  BY <1>2, LookUpKeeps, InsertKeeps, CreateRejectsKeeps, UnsentKeeps, DeliverKeeps, PromptsThrowKeeps,
     EvictedKeeps DEF Proceed
<1>3. ASSUME NEW s \in Sockets, Close(s)
      PROVE  IInv'
  BY <1>3, CloseKeeps
<1>4. CASE UNCHANGED vars
  <2>1. UNCHANGED <<options, userOf, conn, stored, openSockets, lentBy, received, hooks>>
    BY <1>4 DEF vars
  <2>2. TypeOK' /\ Shapes' /\ HooksPaired'
    BY <2>1 DEF IInv, TypeOK, Shapes, HooksPaired
  <2>3. \A t \in Sockets : OpenOn(t)' = OpenOn(t)
    BY <2>1 DEF OpenOn
  <2>4. Listed'
    BY <2>1, <2>3 DEF IInv, Listed
  <2>5. Owned' /\ Received' /\ Named' /\ Left'
    BY <2>1 DEF IInv, Owned, Received, Named, Left
  <2>6. QED
    BY <2>2, <2>4, <2>5 DEF IInv
<1>5. QED
  BY <1>1, <1>2, <1>3, <1>4 DEF Next

LEMMA Always == Spec => []IInv
BY InitEstablishes, NextKeeps, PTL DEF Spec

-----------------------------------------------------------------------------
(* What the invariant says of a session.                                   *)
LEMMA Credentials == IInv => CredentialsEndWithSocket
<1> SUFFICES ASSUME IInv, NEW t \in Sockets
             PROVE  IF OpenOn(t) = {} THEN lentBy[t] = None ELSE lentBy[t] \in OpenOn(t)
  BY DEF CredentialsEndWithSocket
<1>1. openSockets[t] \in Seq(Sockets) /\ ListOf(openSockets[t], OpenOn(t)) /\ lentBy[t] = Lend(openSockets[t])
  BY Typed DEF ListsTyped, Listed
<1>2. QED
  BY <1>1, ListLends

(* A session that is being evicted was received by nobody.                 *)
LEMMA EvictedUnreceived ==
  ASSUME IInv, ~options.latest, NEW s \in Sockets, conn[s].at = "evicting"
  PROVE  conn[s].session = s /\ received[s] = {}
<1>1. Shape(s, conn[s])
  BY DEF IInv, Shapes
<1>2. QED
  BY <1>1 DEF Shape, IInv, Named

LEMMA LiveTabs == IInv => TabLeftOpenKeepsWorking
<1> SUFFICES ASSUME IInv, NEW s \in Sockets, conn[s].at = "live", ~options.latest
             PROVE  /\ lentBy[conn[s].session] # None
                    /\ ~conn[lentBy[conn[s].session]].closed
  BY DEF TabLeftOpenKeepsWorking
<1> DEFINE t == conn[s].session
           r == lentBy[t]
<1>1. Shape(s, conn[s]) /\ t \in Sockets \union {None} /\ \A u \in Sockets : Shape(u, conn[u])
  BY Before DEF IInv, Shapes
<1>2. t \in Sockets /\ s \in OpenOn(t) /\ s \in received[t]
  BY <1>1, Before DEF Shape, OpenOn
<1>3. r \in OpenOn(t) /\ r \in Sockets /\ r # None
  BY <1>2, Credentials, NoneAssumption DEF CredentialsEndWithSocket, OpenOn
<1>4. conn[r].session = t /\ conn[r].joined /\ ~conn[r].notified /\ conn[r].at \in Places
  BY <1>3, Before DEF OpenOn, Conns
<1>5. conn[r].at # "evicting"
  BY <1>2, <1>3, <1>4, EvictedUnreceived
<1>6. conn[r].at \in {"live", "failed"}
  BY <1>1, <1>3, <1>4, <1>5 DEF Shape, Places
<1>7. QED
  BY <1>1, <1>3, <1>6 DEF Shape

LEMMA OwnSessions == IInv => OwnSessionsOnly
<1> SUFFICES ASSUME IInv, NEW s \in Sockets, NEW t \in Sockets, s \in received[t]
             PROVE  userOf[s] = userOf[t]
  BY DEF OwnSessionsOnly
<1>1. conn[s].session = t /\ t # None
  BY Before, NoneAssumption
<1>2. QED
  BY <1>1, Before

(* The state of every upgrade, of the lists and of the store keeps its     *)
(* type, whatever opens, fails, throws and closes.                         *)
THEOREM TypeCorrect == Spec => []TypeOK
<1>1. IInv => TypeOK
  BY DEF IInv
<1>2. QED
  BY <1>1, Always, PTL

(* A session's credentials are those of a socket open on it, its clients   *)
(* its own user's.  Where resume.latest is off, a live tab's session       *)
(* carries the credentials of a socket that is open, and what a client     *)
(* received stays in the store: for any number of sockets                  *)
(* (connectionHandler.ts:307).                                             *)
THEOREM SessionAlwaysItsSockets == Spec => []SessionIsItsSockets
<1>1. IInv => SessionIsItsSockets
  BY Credentials, LiveTabs, OwnSessions DEF IInv, SessionIsItsSockets, ReceivedIsKept, Named
<1>2. QED
  BY <1>1, Always, PTL

(* onDisconnect runs once for each connection onConnect ran for, when it   *)
(* closed, and for no other.                                               *)
THEOREM HooksAlwaysPaired == Spec => []HooksPaired
<1>1. IInv => HooksPaired
  BY DEF IInv
<1>2. QED
  BY <1>1, Always, PTL

(* A new session that could not be handed over does not stay in a store    *)
(* that evicts it, where the example prompts do not throw                  *)
(* (specs/hal-engine-session-lifetime/spec.md:18,21).                      *)
THEOREM NothingEverLeftBehind == Spec => []NothingLeftBehind
<1>1. IInv => NothingLeftBehind
  <2> SUFFICES ASSUME IInv, options.hasEvict, ~options.promptsMayThrow, NEW s \in stored,
                      conn[s].at = "gone", conn[s].session = s, received[s] = {}
               PROVE  conn[s].kept
    BY DEF NothingLeftBehind, LeftBehind
  <2>1. s \in Sockets
    BY DEF IInv, TypeOK
  <2>2. ~conn[s].delivered
    BY <2>1, Before
  <2>3. QED
    BY <2>2 DEF IInv, Left
<1>2. QED
  BY <1>1, Always, PTL

(* The store is never told to evict a session some client received, where  *)
(* a client has to name the session it resumes: the promise                *)
(* ReceivedIsNeverEvicted makes holds without resume.latest.               *)
THEOREM NamedIsNeverEvicted == Spec => [][~options.latest => ~EvictsReceived]_vars
<1>1. IInv /\ [Next]_vars => [~options.latest => ~EvictsReceived]_vars
  <2> SUFFICES ASSUME IInv, Next, ~options.latest, NEW t \in Sockets,
                      t \in stored, t \notin stored', received[t] # {}
               PROVE  FALSE
    BY DEF EvictsReceived
  <2>1. PICK s \in Sockets, kept \in BOOLEAN : Evicted(s, kept)
    BY DEF Next, Proceed, Connect, Close, LookUp, Insert, CreateRejects, FoundClosed, Deliver,
       SendThrows, PromptsThrow
  <2>2. conn[s].at = "evicting" /\ t = conn[s].session
    BY <2>1 DEF Evicted
  <2>3. QED
    BY <2>2, EvictedUnreceived
<1>2. QED
  BY <1>1, Always, PTL DEF Spec
=============================================================================
