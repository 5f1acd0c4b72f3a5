------------------------------ MODULE RestChats ------------------------------
(***************************************************************************)
(* The demo chat routes (src/transport/routes/chats.ts) over a store that  *)
(* saves: the router's chats, the run of the orchestrator each message     *)
(* starts, on a session of its own and under no lock, what that run makes  *)
(* of its session and saves when it is through, and a host that erases     *)
(* conversations meanwhile.                                                *)
(*                                                                         *)
(* A post is one HTTP request.  A message, and an entry of a session, is   *)
(* the post it came with.  Of its content only a question's rewriting is   *)
(* kept; what the entry policy makes of it is SessionHistory's.            *)
(***************************************************************************)
EXTENDS Naturals, Sequences, FiniteSets, SequencesExt

CONSTANTS
    Posts,    \* requests, numbered as they arrive: opening a chat, or a message to one
    Chats,    \* chat ids
    Users,    \* the ids auth.http attaches
    MaxTools  \* bound: entries the tools of one run add to its session

ASSUME PostsAssumption == Posts \subseteq Nat /\ MaxTools \in Nat

VARIABLES
    post,     \* per request: who sent it, for which chat, and how far it is
    chat,     \* the router's Map: owner and messages of the chats it lists
    stored,   \* per chat, what the store holds of it
    erased    \* the chats the host has erased (history)

chatVars == <<post, chat, stored, erased>>

NoOne == "no one"
Absent == [present |-> FALSE, entries |-> <<>>]
Unlisted == [listed |-> FALSE, owner |-> NoOne, messages |-> <<>>]
Idle == [at |-> "none", user |-> NoOne, chat |-> NoOne, entries |-> <<>>]

Message == [role : {"user", "rewritten", "assistant", "tool"}, post : Posts]
Asks(p) == [role |-> "user", post |-> p]
AsksInOtherWords(p) == [role |-> "rewritten", post |-> p]
Answers(p) == [role |-> "assistant", post |-> p]
ToolEntry(p) == [role |-> "tool", post |-> p]

ChatTypeOK ==
    /\ post \in [Posts -> [at : {"none", "creating", "created", "running", "saved", "threw", "answered"},
                           user : Users \union {NoOne}, chat : Chats \union {NoOne},
                           entries : Seq(Message)]]
    /\ chat \in [Chats -> [listed : BOOLEAN, owner : Users \union {NoOne}, messages : Seq(Message)]]
    /\ stored \in [Chats -> [present : BOOLEAN, entries : Seq(Message)]]
    /\ erased \subseteq Chats

ChatInit ==
    /\ post = [p \in Posts |-> Idle]
    /\ chat = [c \in Chats |-> Unlisted]
    /\ stored = [c \in Chats |-> Absent]
    /\ erased = {}

InFlight == {p \in Posts : post[p].at \notin {"none", "answered"}}

-----------------------------------------------------------------------------
(* Whatever a response says, it ends the request.                          *)
Answered(p) == post' = [post EXCEPT ![p].at = "answered", ![p].entries = <<>>]

(* POST /chats: a fresh id, known to nobody yet, and the store first.      *)
Unused(c) == \A p \in Posts : post[p].chat # c

OpenChat(p, u, c) ==
    /\ post[p].at = "none" /\ Unused(c)
    /\ post' = [post EXCEPT ![p] = [Idle EXCEPT !.at = "creating", !.user = u, !.chat = c]]
    /\ UNCHANGED <<chat, stored, erased>>

StoreCreates(p) ==
    /\ post[p].at = "creating"
    /\ stored' = [stored EXCEPT ![post[p].chat] = [present |-> TRUE, entries |-> <<>>]]
    /\ post' = [post EXCEPT ![p].at = "created"]
    /\ UNCHANGED <<chat, erased>>

StoreRefuses(p) ==
    /\ post[p].at = "creating"
    /\ Answered(p)
    /\ UNCHANGED <<chat, stored, erased>>

List(p) ==
    /\ post[p].at = "created"
    /\ chat' = [chat EXCEPT ![post[p].chat] =
                    [listed |-> TRUE, owner |-> post[p].user, messages |-> <<>>]]
    /\ Answered(p)
    /\ UNCHANGED <<stored, erased>>

-----------------------------------------------------------------------------
(* authorizedChat: a known user, a chat that is listed, and it is theirs.  *)
Authorized(u, c) == u # NoOne /\ chat[c].listed /\ chat[c].owner = u

(* A request turned away: by auth, over its sender's budget, by the route's *)
(* guard, or as a message without content.  None of them leaves a trace.   *)
Refuse(p) ==
    /\ post[p].at = "none"
    /\ Answered(p)
    /\ UNCHANGED <<chat, stored, erased>>

(* The session's copy of the messages, the question pushed.                *)
SessionEntries(p, c) == Append(chat[c].messages, Asks(p))

(* POST /chats/:id/messages, up to its first await.                        *)
PostMessage(p, u, c) ==
    /\ post[p].at = "none" /\ Authorized(u, c)
    /\ chat' = [chat EXCEPT ![c].messages = Append(@, Asks(p))]
    /\ post' = [post EXCEPT ![p] = [Idle EXCEPT !.at = "running", !.user = u, !.chat = c,
                                                !.entries = SessionEntries(p, c)]]
    /\ UNCHANGED <<stored, erased>>

(* Slip: a save that brings back what was erased.                          *)
SaveAnyway(c, entries) == [stored EXCEPT ![c] = [present |-> TRUE, entries |-> entries]]

(* A store writes only a session it still holds.                           *)
Save(c, entries) ==
    [stored EXCEPT ![c] = IF @.present THEN [present |-> TRUE, entries |-> entries] ELSE Absent]

(* Slip: the session's entries are the chat's own, not a copy of them.     *)
LiveSession(p, question, k) == chat[post[p].chat].messages \o [i \in 1..k |-> ToolEntry(p)]

(* What a run has made of its session when it is through: beforeUserInput  *)
(* may have rewritten the last user entry, which is the question, and each *)
(* entry a tool sent the client is appended.                               *)
SessionOf(p, question, k) ==
    [post[p].entries EXCEPT ![Len(post[p].entries)] = question] \o [i \in 1..k |-> ToolEntry(p)]

(* The run's finally saves its session, whether the run came to an answer  *)
(* or threw; a save that fails is logged.                                  *)
RunEnds(p, outcome) ==
    /\ post[p].at = "running" /\ outcome \in {"saved", "threw"}
    /\ \E question \in {Asks(p), AsksInOtherWords(p)}, k \in 0..MaxTools :
         stored' \in {Save(post[p].chat, SessionOf(p, question, k)), stored}
    /\ post' = [post EXCEPT ![p].at = outcome]
    /\ UNCHANGED <<chat, erased>>

Reply(p) ==
    /\ post[p].at = "saved"
    /\ chat' = [chat EXCEPT ![post[p].chat].messages = Append(@, Answers(p))]
    /\ Answered(p)
    /\ UNCHANGED <<stored, erased>>

(* The question stays in the chat, without an answer.                      *)
ReplyError(p) ==
    /\ post[p].at = "threw"
    /\ Answered(p)
    /\ UNCHANGED <<chat, stored, erased>>

Erase(c) ==
    /\ stored[c].present
    /\ stored' = [stored EXCEPT ![c] = Absent]
    /\ erased' = erased \union {c}
    /\ UNCHANGED <<post, chat>>

-----------------------------------------------------------------------------
Arrive(p) ==
    /\ \A q \in Posts : q < p => post[q].at # "none"
    /\ \/ \E u \in Users, c \in Chats : OpenChat(p, u, c) \/ PostMessage(p, u, c)
       \/ Refuse(p)

Proceed(p) ==
    \/ StoreCreates(p) \/ StoreRefuses(p) \/ List(p)
    \/ \E outcome \in {"saved", "threw"} : RunEnds(p, outcome)
    \/ Reply(p) \/ ReplyError(p)

ChatNext == (\E p \in Posts : Arrive(p) \/ Proceed(p)) \/ (\E c \in Chats : Erase(c))

ChatSpec == ChatInit /\ [][ChatNext]_chatVars

-----------------------------------------------------------------------------
(* A session as the run of p leaves it on chat c: the chat's messages up   *)
(* to p's own question, this perhaps rewritten, and behind it nothing but  *)
(* entries of p's tools.                                                   *)
LeftByRun(p, c, entries) ==
    \E n \in 1..Len(chat[c].messages) :
        /\ chat[c].messages[n] = Asks(p)
        /\ n <= Len(entries)
        /\ \A i \in 1..(n - 1) : entries[i] = chat[c].messages[i]
        /\ entries[n] \in {Asks(p), AsksInOtherWords(p)}
        /\ \A i \in (n + 1)..Len(entries) : entries[i] = ToolEntry(p)

(* However the runs of a chat overlap and whichever saves last, what is    *)
(* stored is the session of one run that has ended, on a conversation the  *)
(* chat really had: no question asked or answered meanwhile, no half of    *)
(* another run's session and no entry of another run's tools is in it      *)
(* (chats.ts:98-128, 136-142, chatOrchestrator.ts:281, 439-448).           *)
CopiesAreHistory ==
    \A c \in Chats : stored[c].entries # <<>> =>
        \E p \in Posts : /\ post[p].chat = c /\ post[p].at \in {"saved", "threw", "answered"}
                         /\ LeftByRun(p, c, stored[c].entries)

(* An erased conversation is not stored again, although its chat is still  *)
(* listed and runs on it still end, and a listed chat was in the store     *)
(* first (specs/hal-engine-chat-routes/spec.md, POST /chats).              *)
ErasedStaysErased ==
    \A c \in Chats : /\ c \in erased => ~stored[c].present
                     /\ chat[c].listed /\ c \notin erased => stored[c].present
=============================================================================
