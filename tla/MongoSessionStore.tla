--------------------------- MODULE MongoSessionStore ---------------------------
(***************************************************************************)
(* MongoSessionStore (src/infrastructure/stores/mongo/mongoSessionStore.ts): *)
(* a cache of live session objects in front of a collection.  A call sends *)
(* its command to the collection, which carries it out at some later time, *)
(* and goes on when it is answered, later still; commands of different     *)
(* calls are carried out in any order.  Any answer may be a rejection,     *)
(* and a rejection may follow a command that was carried out.              *)
(*                                                                         *)
(* A call is named, and made once.  The object a create or a get builds is *)
(* named after it, and so is the turn a save writes: what a document or an *)
(* object holds is the set of the saves whose turns are in it.  A get that *)
(* finds its session in the cache changes nothing and is not modelled, nor *)
(* are the calls that only count or list.                                  *)
(***************************************************************************)
EXTENDS Naturals, Sequences, FiniteSets, SequencesExt

CONSTANTS
    Sessions,      \* session ids
    Calls,         \* the calls that may be made
    None,
    MaxAge,        \* maxAgeMs
    MaxTime        \* bound: the clock

ASSUME NoneAssumption == None \notin Calls /\ \A turns \in SUBSET Calls : None # turns
ASSUME BoundsAssumption == {MaxAge, MaxTime} \subseteq Nat

VARIABLES
    clock,      \* now()
    docs,       \* the collection: per id, the turns its document holds, or None
    cache,      \* the Map, in insertion order
    inFlight,   \* inFlightGets: the reads no erasure has withdrawn
    object,     \* per create or get, the turns in the object it built, or None
    call,       \* per call, what it asks and how far it is
    minted,     \* the ids that were ever stored or created (history)
    overlapped  \* the ids ever read while created or while read by another (history)

mongoVars == <<clock, docs, cache, inFlight, object, call, minted, overlapped>>

Content == (SUBSET Calls) \union {None}

NoCall == [op |-> "none", ids |-> {}, of |-> None, data |-> None, at |-> "new", landed |-> FALSE]

Waiting(c) == call[c].at = "asked"

MongoTypeOK ==
    /\ clock \in 0..MaxTime
    /\ docs \in [Sessions -> Content]
    /\ cache \in Seq([id : Sessions, obj : Calls, at : 0..MaxTime])
    /\ inFlight \subseteq {c \in Calls : call[c].op = "get" /\ Waiting(c)}
    /\ object \in [Calls -> Content]
    /\ call \in [Calls -> [op : {"none", "create", "get", "save", "erase", "wipe"}, ids : SUBSET Sessions,
                           of : Calls \union {None}, data : Content,
                           at : {"new", "asked", "done", "rejected"}, landed : BOOLEAN]]
    /\ overlapped \subseteq minted /\ minted \subseteq Sessions

(* A process starts with an empty cache, on whatever earlier ones stored.  *)
MongoInit ==
    /\ clock = 0
    /\ minted \in SUBSET Sessions
    /\ docs = [id \in Sessions |-> IF id \in minted THEN {} ELSE None]
    /\ cache = <<>>
    /\ inFlight = {}
    /\ object = [c \in Calls |-> None]
    /\ call = [c \in Calls |-> NoCall]
    /\ overlapped = {}

-----------------------------------------------------------------------------
Aged(held) == clock - held.at > MaxAge

Cached(id) == {cache[i] : i \in {j \in DOMAIN cache : cache[j].id = id}}

(* The cache with these of its entries alone, in their order: there is one. *)
Only(kept) ==
    {[i \in DOMAIN order |-> cache[order[i]]] :
        order \in {f \in [1..Cardinality(kept) -> kept] : \A i, j \in DOMAIN f : i < j => f[i] < f[j]}}

Without(ids) == Only({i \in DOMAIN cache : cache[i].id \notin ids})

(* What has aged goes first, up to the first entry that has not.           *)
Swept == {i \in DOMAIN cache : \A j \in 1..i : Aged(cache[j])}

(* remember: the entry is the youngest, wherever it was before.            *)
Remember(id, obj) ==
    {Append(rest, [id |-> id, obj |-> obj, at |-> clock]) :
        rest \in Only({i \in DOMAIN cache \ Swept : cache[i].id # id})}

Withdraw(ids) == {c \in inFlight : call[c].ids \intersect ids = {}}

(* forget, and forgetAll, of all sessions: the entries go, and the reads   *)
(* still waiting on them are withdrawn.                                    *)
Forget(ids) == cache' \in Without(ids) /\ inFlight' = Withdraw(ids)

-----------------------------------------------------------------------------
(* Asking: the part of a call before its command is answered.              *)
Ask(c, op, ids, of, data) ==
    /\ call[c].at = "new"
    /\ call' = [call EXCEPT ![c] = [op |-> op, ids |-> ids, of |-> of, data |-> data,
                                    at |-> "asked", landed |-> FALSE]]
    /\ UNCHANGED <<clock, docs>>

(* create, with an id that was just minted.                                *)
Create(c, id) ==
    /\ id \notin minted
    /\ Ask(c, "create", {id}, None, {})
    /\ minted' = minted \union {id}
    /\ UNCHANGED <<cache, inFlight, object, overlapped>>

Pending(op, id) == {c \in Calls : call[c].op = op /\ Waiting(c) /\ call[c].ids = {id}}

(* What others than its creator may come by.                               *)
Known(id) == id \in minted /\ Pending("create", id) = {}

NoteOverlap(id) ==
    overlapped' = IF Pending("create", id) \union Pending("get", id) = {} THEN overlapped
                  ELSE overlapped \union {id}

(* Slip: the cache is not looked at.                                       *)
GetAnyway(c, id) ==
    /\ id \in minted
    /\ Ask(c, "get", {id}, None, None)
    /\ inFlight' = inFlight \union {c}
    /\ NoteOverlap(id)
    /\ UNCHANGED <<cache, object, minted>>

(* get, of a session that is not cached or whose entry has aged; latestFor *)
(* comes by a session whose create has not answered.                       *)
Get(c, id) ==
    /\ id \in minted
    /\ \A held \in Cached(id) : Aged(held)
    /\ Ask(c, "get", {id}, None, None)
    /\ cache' \in Without({id})
    /\ inFlight' = inFlight \union {c}
    /\ NoteOverlap(id)
    /\ UNCHANGED <<object, minted>>

(* A turn of a live session writes to its object in place and then saves   *)
(* it, under the session's lock.                                           *)
SaveTurn(c, o) ==
    /\ object[o] # None
    /\ \A d \in Calls : ~(call[d].op = "save" /\ call[d].of # None /\ Waiting(d)
                          /\ call[d].ids = call[o].ids)
    /\ Ask(c, "save", call[o].ids, o, object[o] \union {c})
    /\ object' = [object EXCEPT ![o] = @ \union {c}]
    /\ UNCHANGED <<cache, inFlight, minted, overlapped>>

(* The REST router saves a copy of its own, made of the turns it served.   *)
SaveOwnCopy(c, id) ==
    /\ Known(id)
    /\ Ask(c, "save", {id}, None,
           {c} \union {d \in Calls : call[d].op = "save" /\ call[d].of = None /\ call[d].ids = {id}})
    /\ UNCHANGED <<cache, inFlight, object, minted, overlapped>>

(* eraseConversation, delete, evict, a batch of eraseOlderThan: by id,     *)
(* also of a session whose create has not answered, which is recorded.     *)
EraseConversations(c, ids) ==
    /\ ids # {} /\ ids \subseteq minted
    /\ Ask(c, "erase", ids, None, UNION {Pending("create", id) : id \in ids})
    /\ UNCHANGED <<cache, inFlight, object, minted, overlapped>>

(* eraseAll: of whatever is there when it is carried out.                  *)
EraseAll(c) ==
    /\ Ask(c, "wipe", Sessions, None, {})
    /\ UNCHANGED <<cache, inFlight, object, minted, overlapped>>

(* What a command makes of the collection: only create upserts.            *)
CarriedOut(c) ==
    LET its == call[c].ids IN
    CASE call[c].op = "get" -> docs
      [] call[c].op \in {"erase", "wipe"} -> [id \in Sessions |-> IF id \in its THEN None ELSE docs[id]]
      [] call[c].op = "create" -> [id \in Sessions |-> IF id \in its THEN call[c].data ELSE docs[id]]
      [] call[c].op = "save" -> [id \in Sessions |-> IF id \in its /\ docs[id] # None
                                                     THEN call[c].data ELSE docs[id]]

(* The calls that may still create a session.                              *)
Creating == {d \in Calls : call[d].at = "new" \/ (call[d].op = "create" /\ Waiting(d))}

(* A read takes what it finds along; of a wipe it is recorded which        *)
(* creates were behind it.                                                 *)
TakenAlong(c) ==
    CASE call[c].op = "get" -> docs[CHOOSE id \in call[c].ids : TRUE]
      [] call[c].op = "wipe" -> Creating
      [] call[c].op \in {"create", "save", "erase"} -> call[c].data

(* The collection carries out a command.                                   *)
Land(c) ==
    /\ Waiting(c) /\ ~call[c].landed
    /\ docs' = CarriedOut(c)
    /\ call' = [call EXCEPT ![c].landed = TRUE, ![c].data = TakenAlong(c)]
    /\ UNCHANGED <<clock, cache, inFlight, object, minted, overlapped>>

-----------------------------------------------------------------------------
(* Answers.                                                                *)
Over(c, how) == call' = [call EXCEPT ![c].at = how] /\ UNCHANGED <<clock, docs, minted, overlapped>>

CreateAnswered(c, id) ==
    /\ call[c].op = "create" /\ call[c].ids = {id} /\ Waiting(c) /\ call[c].landed
    /\ object' = [object EXCEPT ![c] = {}]
    /\ cache' \in Remember(id, c)
    /\ UNCHANGED inFlight
    /\ Over(c, "done")

(* A read that was withdrawn is returned and not cached.                   *)
GetAnswered(c, id) ==
    /\ call[c].op = "get" /\ call[c].ids = {id} /\ Waiting(c) /\ call[c].landed
    /\ object' = [object EXCEPT ![c] = call[c].data]
    /\ IF call[c].data # None /\ c \in inFlight THEN cache' \in Remember(id, c) ELSE UNCHANGED cache
    /\ inFlight' = inFlight \ {c}
    /\ Over(c, "done")

(* Slip: a save of another copy leaves the cached object where it is.      *)
SaveForgetsNothing(c, id) ==
    /\ call[c].op = "save" /\ call[c].ids = {id} /\ Waiting(c) /\ call[c].landed
    /\ UNCHANGED <<cache, inFlight, object>>
    /\ Over(c, "done")

(* The cached object is behind what any other copy just wrote.             *)
SaveAnswered(c, id) ==
    /\ call[c].op = "save" /\ call[c].ids = {id} /\ Waiting(c) /\ call[c].landed
    /\ IF call[c].of # None /\ \E held \in Cached(id) : held.obj = call[c].of
       THEN UNCHANGED <<cache, inFlight>> ELSE Forget({id})
    /\ UNCHANGED object
    /\ Over(c, "done")

(* Slip: the reads that wait on an erased session are not withdrawn.       *)
ErasesInCache(c) ==
    call[c].op \in {"erase", "wipe"} /\ cache' \in Without(call[c].ids) /\ UNCHANGED inFlight

(* What an erasure forgets once it was sent, however it is answered.       *)
Erases(c) == call[c].op \in {"erase", "wipe"} /\ Forget(call[c].ids)

EraseAnswered(c) ==
    /\ Waiting(c) /\ call[c].landed
    /\ Erases(c)
    /\ UNCHANGED object
    /\ Over(c, "done")

(* A rejection, whether or not the command was carried out: an erasure     *)
(* that was sent forgets all the same, one that could not connect does     *)
(* not, and a read is off the books.                                       *)
Rejected(c) ==
    /\ Waiting(c)
    /\ \/ Erases(c)
       \/ /\ call[c].op \in {"erase", "wipe"} => ~call[c].landed
          /\ inFlight' = inFlight \ {c}
          /\ UNCHANGED cache
    /\ UNCHANGED object
    /\ Over(c, "rejected")

(* clear empties the cache alone.                                          *)
Clear ==
    /\ cache # <<>>
    /\ cache' = <<>>
    /\ UNCHANGED <<clock, docs, inFlight, object, call, minted, overlapped>>

ClockTicks ==
    /\ clock < MaxTime
    /\ clock' = clock + 1
    /\ UNCHANGED <<docs, cache, inFlight, object, call, minted, overlapped>>

MongoNext ==
    \/ Clear \/ ClockTicks
    \/ \E c \in Calls :
          \/ \E id \in Sessions : Create(c, id) \/ Get(c, id) \/ SaveOwnCopy(c, id)
          \/ \E o \in Calls : SaveTurn(c, o)
          \/ \E ids \in SUBSET Sessions : EraseConversations(c, ids)
          \/ EraseAll(c)
          \/ Land(c) \/ EraseAnswered(c) \/ Rejected(c)
          \/ \E id \in Sessions : CreateAnswered(c, id) \/ GetAnswered(c, id) \/ SaveAnswered(c, id)

MongoSpec == MongoInit /\ [][MongoNext]_mongoVars

-----------------------------------------------------------------------------
Quiet(id) == \A c \in Calls : Waiting(c) => id \notin call[c].ids

Spared(c, id) == \E d \in call[c].data : call[d].op = "create" /\ call[d].ids = {id}

(* Once an erasure has answered, a session it erased is in neither the     *)
(* collection nor the cache and never comes back to either: no read that   *)
(* was waiting, no save of an object somebody still holds, and no rejected *)
(* answer of another call brings it back.  Only a create that was still    *)
(* waiting for its answer may: when an erasure by id was asked, or when    *)
(* eraseAll was carried out, which reaches creates sent after it too       *)
(* (specs/hal-engine-mongo-session-store/spec.md:27,29,34-37).             *)
ErasedIsGone ==
    \A c \in Calls : call[c].op \in {"erase", "wipe"} /\ call[c].at \in {"done", "rejected"} /\ call[c].landed =>
        \A id \in call[c].ids : Spared(c, id) \/ (docs[id] = None /\ Cached(id) = {})

(* While nothing is under way on a session its cached object holds every   *)
(* turn its document holds, though several objects of it may be saved and  *)
(* read in any order.  The exceptions: a read that overlapped another read *)
(* of its session or its create, and a save that was carried out and then  *)
(* rejected, each leave the cached object behind the document.             *)
CacheIsFresh ==
    \A id \in Sessions :
        /\ id \notin overlapped /\ Quiet(id)
        /\ \A c \in Calls : call[c].op = "save" /\ call[c].ids = {id} /\ call[c].landed
                               => call[c].at # "rejected"
        => \A held \in Cached(id) : docs[id] # None => docs[id] \subseteq object[held.obj]

(* The cache holds each session once, as an object that was built for it,  *)
(* and in the order of its age: the sweep, which stops at the first entry  *)
(* that has not aged, then drops every entry that has, also of a session   *)
(* nobody reads again (mongoSessionStore.ts:262;                           *)
(* specs/hal-engine-mongo-session-store/spec.md:15).                       *)
CacheWellFormed ==
    /\ MongoTypeOK
    /\ \A i \in DOMAIN cache : object[cache[i].obj] # None /\ call[cache[i].obj].ids = {cache[i].id}
    /\ \A i, j \in DOMAIN cache : i < j => cache[i].id # cache[j].id /\ cache[i].at <= cache[j].at

(* What is cached is what is stored, and the sweep can find it: the two     *)
(* above.                                                                  *)
CacheIsSound == CacheWellFormed /\ CacheIsFresh

Replaces(id) == \E held \in Cached(id), new \in Cached(id)' : held.obj # new.obj

(* As long as a session is cached it is cached as the same object, the one *)
(* its turns are written to, except a session that was ever read while     *)
(* another read of it, or its create, was under way: the later answer      *)
(* replaces the object (mongoSessionStore.ts:87, 106).                     *)
StableObject == [][\A id \in Sessions \ overlapped' : ~Replaces(id)]_mongoVars

(* What that exception leaves open, as the documents claim it: while a     *)
(* turn is being saved, its session, if cached, is cached as the object    *)
(* the turn was written to (docs/session-stores.md:99,                     *)
(* mongoSessionStore.ts:177).                                              *)
LiveIsCached ==
    \A c \in Calls : call[c].op = "save" /\ call[c].of # None /\ Waiting(c) =>
        \A id \in call[c].ids : \A held \in Cached(id) : held.obj = call[c].of

===============================================================================
