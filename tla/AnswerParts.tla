----------------------------- MODULE AnswerParts -----------------------------
(***************************************************************************)
(* What a model's answer is made of: text, character by character, because *)
(* the prompt mask and the thinking-tag parser tell characters apart, and  *)
(* calls of tools.                                                         *)
(***************************************************************************)
EXTENDS Naturals, Sequences

CONSTANTS
    Characters,
    Labels       \* what tools and ids are called

ASSUME LabelsAssumption == {"", "tool", "call", "hist"} \subseteq Labels

Text == Seq(Characters)

(* slice(from - 1)                                                         *)
Since(text, from) == SubSeq(text, from, Len(text))

(* What the prompt mask finds in a text: nothing that it knows, a token,   *)
(* or a value it has a token for.                                          *)
Found == {"nothing", "token", "value"}

(* The input of a call, a JSON object: its strings, at any depth, and the  *)
(* rest of it, its keys and its numbers.                                   *)
Input == [strings : Found, rest : Found]
EmptyInput == [strings |-> "nothing", rest |-> "nothing"]

(* A tool's name, or an id, which somebody gave a number.                  *)
Name == [of : Labels, number : Nat \X Nat]
Named(of) == [of |-> of, number |-> <<0, 0>>]
Call == [id : Name, name : Name, input : Input]

(* Why an answer ended.                                                    *)
StopReason == {"tool_use", "end_turn", "max_tokens", "safety"}
=============================================================================
