---------------------------- MODULE MCToolRounds ----------------------------
EXTENDS ToolRounds

(* Two calls side by side in the first round, one in the second.           *)
CallsPerRound == <<2, 1>>
=============================================================================
