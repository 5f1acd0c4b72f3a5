-------------------------- MODULE ThinkingTagParser --------------------------
(***************************************************************************)
(* src/infrastructure/parsers/thinkingTagParser.ts: cuts the text of a     *)
(* stream, which may break off anywhere, at the tags that open and close   *)
(* the model's thinking.  A segment is given as its characters, each with  *)
(* the type of the segment it is in; an empty one is none.                 *)
(***************************************************************************)
EXTENDS Naturals, Sequences, SequencesExt, AnswerParts

CONSTANTS OpenTag, CloseTag

ASSUME TagsAssumption ==
    /\ OpenTag \in Text \ {<<>>} /\ CloseTag \in Text
    /\ Len(OpenTag) <= Len(CloseTag)

Parser == [buffer : Text, insideThinking : BOOLEAN]

Holding(insideThinking, buffer) == [buffer |-> buffer, insideThinking |-> insideThinking]

NewParser == Holding(FALSE, <<>>)

TagSought(insideThinking) == IF insideThinking THEN CloseTag ELSE OpenTag

Segment(insideThinking, text) ==
    [i \in DOMAIN text |-> <<IF insideThinking THEN "thinking" ELSE "text", text[i]>>]

(* Where the tag starts in the buffer, 0 for nowhere.                      *)
TagIndex(buffer, tag) ==
    LET starts == {i \in DOMAIN buffer : IsPrefix(tag, Since(buffer, i))}
    IN  IF starts = {} THEN 0 ELSE Min(starts)

(* How much of the buffer's end could still grow into the tag.             *)
PartialMatchLength(buffer, tag) ==
    Max({n \in 0..(Len(tag) - 1) :
            n <= Len(buffer) /\ IsPrefix(Since(buffer, Len(buffer) - n + 1), tag)})

(* drain: the segments of the buffer, and what is left of it.              *)
Drain[parser \in Parser] ==
    LET inside == parser.insideThinking
        buffer == parser.buffer
        tag == TagSought(inside)
        index == TagIndex(buffer, tag)
        held == PartialMatchLength(buffer, tag)
        kept == Len(buffer) - held
    IN  IF index # 0
        THEN LET rest == Drain[Holding(~inside, Since(buffer, index + Len(tag)))]
             IN  [parser |-> rest.parser,
                  segments |-> Segment(inside, SubSeq(buffer, 1, index - 1)) \o rest.segments]
        ELSE [parser |-> Holding(inside, Since(buffer, kept + 1)),
              segments |-> Segment(inside, SubSeq(buffer, 1, kept))]

PushText(parser, text) == Drain[Holding(parser.insideThinking, parser.buffer \o text)]

FlushText(parser) ==
    [parser |-> Holding(parser.insideThinking, <<>>),
     segments |-> Segment(parser.insideThinking, parser.buffer)]

-----------------------------------------------------------------------------
(* What a text says, read from its beginning in one go.                    *)
Read[from \in Parser] ==
    LET inside == from.insideThinking
        text == from.buffer
        tag == TagSought(inside)
    IN  IF text = <<>> THEN [segments |-> <<>>, inside |-> inside]
        ELSE IF IsPrefix(tag, text) THEN Read[Holding(~inside, Since(text, Len(tag) + 1))]
        ELSE LET rest == Read[Holding(inside, Tail(text))]
             IN  [segments |-> Segment(inside, <<Head(text)>>) \o rest.segments, inside |-> rest.inside]
=============================================================================
