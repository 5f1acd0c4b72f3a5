----------------------------- MODULE MCTransport -----------------------------
EXTENDS Transport

CONSTANTS s1, s2

Cast(starts, stops, sockets, posts) ==
    [starts |-> starts, stops |-> stops, sockets |-> sockets, posts |-> posts]

(* The server stopped and started again; its sockets; the chats; and all   *)
(* of them at once.                                                        *)
MCCasts ==
    {Cast({1, 2, 3}, {1, 2}, {s1}, {}), Cast({1}, {1}, {s1, s2}, {}),
     Cast({1}, {}, {}, 1..4), Cast({1, 2}, {1}, {s1}, 1..2)}

(* The server alone, started three times and stopped once.                 *)
MCServerCasts == {Cast({1, 2, 3}, {1}, {}, {})}
=============================================================================
