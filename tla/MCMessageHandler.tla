-------------------------- MODULE MCMessageHandler --------------------------
(* Two messages, on one socket or on the two a session is open on: a turn  *)
(* can be refused, abandoned or cut short in front of one that waits.      *)
EXTENDS MessageHandler

Content(string, blank, length) == [string |-> string, blank |-> blank, length |-> length]
Limit(given, whole, value) == [given |-> given, whole |-> whole, value |-> value]
Cursor(given, updatedAt, sessionId) == [given |-> given, updatedAt |-> updatedAt, sessionId |-> sessionId]

(* Every verdict, at its boundary.                                         *)
MCPayloads ==
    [type : {"user_message"},
     content : {Content(FALSE, FALSE, 0), Content(TRUE, TRUE, 1), Content(TRUE, FALSE, MaxContentLength),
                Content(TRUE, FALSE, MaxContentLength + 1)}]
    \union [type : {"ping"}, timestamp : BOOLEAN]
    \union [type : {"list_conversations"},
            limit : {Limit(FALSE, FALSE, 0), Limit(TRUE, FALSE, 1)}
                    \union {Limit(TRUE, TRUE, n) : n \in {0, 1, MaxLimit, MaxLimit + 1}},
            before : {Cursor(FALSE, FALSE, FALSE)} \union {Cursor(TRUE, u, i) : u, i \in BOOLEAN}]
    \union {[type |-> "other"]}
=============================================================================
