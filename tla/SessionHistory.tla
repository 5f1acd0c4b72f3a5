--------------------------- MODULE SessionHistory ---------------------------
(***************************************************************************)
(* A user's conversations over time, and a client that pages through them: *)
(* the in-memory store (infrastructure/stores/inMemorySessionStore.ts),    *)
(* the list both stores answer (sessionListWindow.ts), and the chain that  *)
(* reads one list at a time per socket (transport/ws/conversationList.ts). *)
(*                                                                         *)
(* No list frame says which request it answers, so a client attributes the *)
(* answers in the order of its requests.  Meanwhile sessions are created,  *)
(* written to, erased and age out.                                         *)
(*                                                                         *)
(* The in-memory store answers within the frame's own task.  Of the Mongo  *)
(* store only its listing is here (MongoSessionStore has the rest): a find *)
(* is carried out, and answered, at moments of its own.  Its writes may    *)
(* carry a stamp that is older by then; those of one session are in order. *)
(*                                                                         *)
(* Sessions of other users are filtered out first and are left away.       *)
(***************************************************************************)
EXTENDS Integers, Sequences, FiniteSets, SequencesExt

CONSTANTS
    Sessions,   \* session ids, in the order ids are compared
    Walks,      \* bound: the lists the client pages through
    PageSize,   \* the limit its requests name
    MaxAge,     \* maxAgeMs
    MaxNow      \* bound: the clock

ASSUME IdsAssumption == Sessions \subseteq Nat /\ IsFiniteSet(Sessions)
ASSUME WindowAssumption == PageSize \in Nat \ {0} /\ MaxAge \in Nat /\ MaxNow \in Nat \ {0}

VARIABLES
    store,      \* which of the two stores the server was given
    now,
    minted,     \* the session ids given out: none is given twice
    held,       \* the sessions the store holds
    createdAt,  \* per session held in memory, what it ages by
    activity,   \* per session, when it was last written to: its updatedAt
    reading,    \* the socket's list frames on the chain, the oldest first
    asked,      \* the client's unanswered requests, the oldest first
    walk,       \* per walk, what the client knows
    steady      \* per walk, the rows there since its first request (history)

vars == <<store, now, minted, held, createdAt, activity, reading, asked, walk, steady>>
sessionVars == <<minted, held, createdAt, activity>>

Rows == [id : Sessions, at : Nat]
Frames == [walk : Walks, before : SUBSET Rows, found : BOOLEAN, page : SUBSET Rows]

TypeOK ==
    /\ store \in {"memory", "mongo"}
    /\ now \in 1..MaxNow
    /\ minted \subseteq Sessions /\ held \subseteq minted
    /\ createdAt \in [Sessions -> 0..now] /\ activity \in [Sessions -> 0..now]
    /\ reading \in Seq(Frames) /\ asked \in Seq(Walks)
    /\ walk \in [Walks -> [at : {"start", "asked", "more", "over", "refused"},
                           cursor : SUBSET Rows, shown : [Sessions -> Nat]]]
    /\ steady \in [Walks -> SUBSET Rows]

Init ==
    /\ store \in {"memory", "mongo"}
    /\ now = 1
    /\ minted = {} /\ held = {}
    /\ createdAt = [s \in Sessions |-> 0] /\ activity = [s \in Sessions |-> 0]
    /\ reading = <<>> /\ asked = <<>>
    /\ walk = [w \in Walks |-> [at |-> "start", cursor |-> {}, shown |-> [s \in Sessions |-> 0]]]
    /\ steady = [w \in Walks |-> {}]

-----------------------------------------------------------------------------
(* The store.                                                              *)
Expired(s) == store = "memory" /\ now - createdAt[s] > MaxAge

Row(s) == [id |-> s, at |-> activity[s]]

(* ownedBy: what a list is read from.                                      *)
Owned == {Row(s) : s \in {q \in held : ~Expired(q)}}

(* A write's stamp, not before the session's last.                         *)
Stamps(last) == IF store = "memory" THEN {now} ELSE {t \in 1..now : last <= t}

(* What the store held of these sessions goes with them.                   *)
Drop(gone) ==
    /\ createdAt' = [s \in Sessions |-> IF s \in gone THEN 0 ELSE createdAt[s]]
    /\ activity' = [s \in Sessions |-> IF s \in gone THEN 0 ELSE activity[s]]
    /\ held' = held \ gone
    /\ UNCHANGED minted

(* sweepExpired stops at the first of the Map that is live.  Its order is  *)
(* that of creation, so none that has aged out is behind it.               *)
Swept == {s \in held : Expired(s)}

Create(s, stamp) ==
    /\ s \notin minted
    /\ minted' = minted \union {s}
    /\ held' = (held \ Swept) \union {s}
    /\ createdAt' = [q \in Sessions |-> IF q = s /\ store = "memory" THEN stamp
                                   ELSE IF q \in Swept THEN 0 ELSE createdAt[q]]
    /\ activity' = [q \in Sessions |-> IF q = s THEN stamp ELSE IF q \in Swept THEN 0 ELSE activity[q]]
    /\ UNCHANGED <<store, now, reading, asked, walk>>

(* A turn's entries, or the save of it.                                    *)
Write(s, stamp) ==
    /\ s \in held
    /\ activity' = [activity EXCEPT ![s] = stamp]
    /\ UNCHANGED <<store, now, minted, held, createdAt, reading, asked, walk>>

(* get and lookup, of a session that has aged out.                         *)
Lookup(s) ==
    /\ s \in held /\ Expired(s)
    /\ Drop({s})
    /\ UNCHANGED <<store, now, reading, asked, walk>>

(* delete, evict, clear, and the erasures of the Mongo store.              *)
Delete(gone) == Drop(gone) /\ UNCHANGED <<store, now, reading, asked, walk>>

Tick ==
    /\ now < MaxNow
    /\ now' = now + 1
    /\ UNCHANGED <<store, reading, asked, walk>> /\ UNCHANGED sessionVars

-----------------------------------------------------------------------------
(* The order of a list, and where a cursor's page starts in it.             *)
Newer(r, q) == r.at > q.at \/ (r.at = q.at /\ r.id > q.id)

(* Slip: a cursor is on its own page.                                      *)
SitsAfterOrOn(row, cursor) == row.at < cursor.at \/ (row.at = cursor.at /\ row.id <= cursor.id)

SitsAfter(row, cursor) == row.at < cursor.at \/ (row.at = cursor.at /\ row.id < cursor.id)

From(rows, before) == {row \in rows : \A cursor \in before : SitsAfter(row, cursor)}

(* The newest of these rows, as many as the limit allows.                  *)
IsPage(page, rows) ==
    /\ Cardinality(page) <= PageSize
    /\ Cardinality(page) < PageSize => page = rows
    /\ \A row \in page, rest \in rows \ page : Newer(row, rest)

Pages(before) == {page \in SUBSET From(Owned, before) : IsPage(page, From(Owned, before))}

-----------------------------------------------------------------------------
(* The client asks for the page after the last row it was shown, and the   *)
(* frame is put on the socket's chain.                                     *)
Ask(w) ==
    /\ walk[w].at \in {"start", "more"}
    /\ reading' = Append(reading, [walk |-> w, before |-> walk[w].cursor, found |-> FALSE, page |-> {}])
    /\ asked' = Append(asked, w)
    /\ walk' = [walk EXCEPT ![w].at = "asked"]
    /\ UNCHANGED <<store, now>> /\ UNCHANGED sessionVars

(* Slip: no chain, a frame is read as soon as it comes.                    *)
DueAtOnce == DOMAIN reading

(* The frame whose read is in flight.                                      *)
Due == {i \in DOMAIN reading : i = 1}

(* What a client knows once it was shown a page.  One that is shorter than *)
(* the limit is the last; else the next is asked for by this one's last    *)
(* row.                                                                    *)
Counted(shown, page) == [s \in Sessions |-> IF \E row \in page : row.id = s THEN shown[s] + 1 ELSE shown[s]]

Shown(known, page) ==
    IF Cardinality(page) < PageSize
    THEN {[at |-> "over", cursor |-> {}, shown |-> Counted(known.shown, page)]}
    ELSE {[at |-> "more", cursor |-> {last}, shown |-> Counted(known.shown, page)] :
             last \in {row \in page : \A other \in page \ {row} : Newer(other, row)}}

Refused(known) == [known EXCEPT !.at = "refused", !.cursor = {}]

(* The i-th frame is answered, and the client takes that for its oldest    *)
(* request.                                                                *)
Answer(i, known) ==
    /\ reading' = RemoveAt(reading, i)
    /\ asked' = Tail(asked)
    /\ walk' = [walk EXCEPT ![Head(asked)] = known]
    /\ UNCHANGED <<store, now>> /\ UNCHANGED sessionVars

ListFor(i) ==
    /\ store = "memory"
    /\ \E page \in Pages(reading[i].before) :
           \E known \in Shown(walk[Head(asked)], page) : Answer(i, known)

FindCarriedOut(i) ==
    /\ store = "mongo" /\ ~reading[i].found
    /\ \E page \in Pages(reading[i].before) :
           reading' = [reading EXCEPT ![i].found = TRUE, ![i].page = page]
    /\ UNCHANGED <<store, now, asked, walk>> /\ UNCHANGED sessionVars

FindAnswered(i) ==
    /\ store = "mongo" /\ reading[i].found
    /\ \E known \in Shown(walk[Head(asked)], reading[i].page) : Answer(i, known)

FindRejected(i) ==
    /\ store = "mongo"
    /\ Answer(i, Refused(walk[Head(asked)]))

-----------------------------------------------------------------------------
Step ==
    \/ \E s \in Sessions : \/ \E stamp \in Stamps(1) : Create(s, stamp)
                           \/ \E stamp \in Stamps(activity[s]) : Write(s, stamp)
                           \/ Lookup(s)
    \/ \E gone \in (SUBSET held) \ {{}} : Delete(gone)
    \/ Tick
    \/ \E w \in Walks : Ask(w)
    \/ \E i \in Due : ListFor(i) \/ FindCarriedOut(i) \/ FindAnswered(i) \/ FindRejected(i)

(* The rows a walk could have shown from its first request to its last     *)
(* answer.                                                                 *)
Watch == steady' = [w \in Walks |-> IF walk[w].at = "start" THEN Owned'
                                    ELSE IF walk[w].at \in {"asked", "more"} THEN steady[w] \intersect Owned'
                                    ELSE {}]

Next == Step /\ Watch

Spec == Init /\ [][Next]_vars

-----------------------------------------------------------------------------
(* A walk shows no session twice, whatever is written, erased or answered  *)
(* late in between (specs/hal-engine-conversation-list/spec.md, "Paging").  *)
EachRowOnce == \A w \in Walks, s \in Sessions : walk[w].shown[s] <= 1

(* A walk that came to its last page has shown every session that was      *)
(* there throughout and that nobody wrote to: none falls between two       *)
(* pages, not on a tie either, and no page is another request's.           *)
WalkMissesNone ==
    \A w \in Walks : walk[w].at = "over" => \A row \in steady[w] : walk[w].shown[row.id] > 0
=============================================================================
