------------------------------ MODULE PromptMask ------------------------------
(***************************************************************************)
(* src/providers/withMask.ts: a deployment's pseudonyms.  What goes to the *)
(* vendor holds a token in place of every value the mask recognises, and   *)
(* the tokens in what comes back are put back before anything reads them.  *)
(*                                                                         *)
(* A text is a sequence of characters.  One value, Real, and its token     *)
(* stand for the mapping of a binding.                                     *)
(***************************************************************************)
EXTENDS Naturals, Sequences, SequencesExt, AnswerParts

CONSTANTS
    Token,           \* what the vendor sees
    Real,            \* what stands there otherwise
    MaxTokenLength   \* mask.maxTokenLength

(* The deployer's promise: no token is longer than it said.                *)
ASSUME MaskAssumption ==
    /\ Token \in Text \ {<<>>} /\ Real \in Text \ {<<>>}
    /\ MaxTokenLength \in Nat /\ Len(Token) <= MaxTokenLength

(* What no interface asks for, and a stream restored piece by piece needs: *)
(* a value put back makes no token together with what stands around it.    *)
Alike(p, q) == IsPrefix(p, q) \/ IsPrefix(q, p)

StandsApart ==
    /\ \A i \in 1..Len(Real) : ~Alike(Token, Since(Real, i))
    /\ \A i \in 2..Len(Token) : ~Alike(Since(Token, i), Real)

(* binding.restore                                                         *)
Restore[text \in Text] ==
    IF text = <<>> THEN <<>>
    ELSE IF IsPrefix(Token, text) THEN Real \o Restore[Since(text, Len(Token) + 1)]
    ELSE <<Head(text)>> \o Restore[Tail(text)]

-----------------------------------------------------------------------------
(* The chunks of a stream.                                                 *)
TextChunk(text) == IF text = <<>> THEN <<>> ELSE <<[type |-> "text", text |-> text]>>
ToolChunk(call) == [type |-> "tool_use", call |-> call]
StopChunk(reason, usage) == [type |-> "stop", stopReason |-> reason, usage |-> usage]

Chunk ==
    [type : {"text"}, text : Text] \union [type : {"tool_use"}, call : Call]
        \union [type : {"stop"}, stopReason : StopReason, usage : Nat]

(* heldBackRestorer: what a push lets go, and what it keeps back.          *)
PushKeeping(keep, held, text) ==
    LET restored == Restore[held \o text]
        cut == IF Len(restored) > keep THEN Len(restored) - keep ELSE 0
    IN  [held |-> Since(restored, cut + 1),
         chunks |-> TextChunk(SubSeq(restored, 1, cut))]

(* Slip: one character too few is held back.                               *)
PushHoldingTooLittle(held, text) == PushKeeping(MaxTokenLength - 2, held, text)

Push(held, text) == PushKeeping(MaxTokenLength - 1, held, text)

FlushHeld(held) == [held |-> <<>>, chunks |-> TextChunk(Restore[held])]

(* mapStrings: every string of an input, none of its keys and numbers.     *)
RestoreStrings(input) == [input EXCEPT !.strings = IF @ = "token" THEN "value" ELSE @]
ApplyStrings(input) == [input EXCEPT !.strings = IF @ = "value" THEN "token" ELSE @]

(* One chunk of the provider's, as withMask passes it on.                  *)
RestoreChunk(held, chunk) ==
    IF chunk.type = "text" THEN Push(held, chunk.text)
    ELSE LET kept == FlushHeld(held)
             passed == IF chunk.type = "tool_use"
                       THEN ToolChunk([chunk.call EXCEPT !.input = RestoreStrings(@)])
                       ELSE chunk
         IN  [kept EXCEPT !.chunks = Append(@, passed)]

RestoreChunks(held, chunks) ==
    LET passed[given \in Seq(Chunk)] ==
            IF given = <<>> THEN [held |-> held, chunks |-> <<>>]
            ELSE LET before == passed[Front(given)]
                     next == RestoreChunk(before.held, Last(given))
                 IN  [held |-> next.held, chunks |-> before.chunks \o next.chunks]
    IN  passed[chunks]

-----------------------------------------------------------------------------
(* binding.apply, of a text or of the results of a message's calls.        *)
Applied(message) == [message EXCEPT !.content = IF @ = "value" THEN "token" ELSE @]

(* Slip: the texts and the results are masked, what the model asked not.   *)
MaskContentAlone(message) == IF message.kind = "tool_use" THEN message ELSE Applied(message)

(* maskMessage: a text, the inputs of the calls, or their results.         *)
MaskCalls(calls) == [i \in DOMAIN calls |-> [calls[i] EXCEPT !.input = ApplyStrings(@)]]

MaskMessage(message) ==
    IF message.kind = "tool_use" THEN [message EXCEPT !.blocks = MaskCalls(@)] ELSE Applied(message)
=============================================================================
