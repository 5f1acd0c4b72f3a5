------------------------- MODULE ProviderTurnProofs -------------------------
(***************************************************************************)
(* Proofs about the provider turn, for every setup, vendor, alphabet and   *)
(* bound; those about text, for a token and a value that stand apart.      *)
(*                                                                         *)
(* TypeOK types the state. AbortStops is what makes an abort quiet; Holds  *)
(* says what the requests have in common; Following, wherever the turn is, *)
(* how much of what was said is shown; Tallies, what has been counted of   *)
(* it. Each is inductive with the type, Tallies with Following too.        *)
(***************************************************************************)
EXTENDS AnswerLaws

-----------------------------------------------------------------------------
(* The conversation (conversationContext.ts): what history becomes, and    *)
(* what is left of it in the window.                                       *)

(* The orchestrator's messages array.                                      *)
Messages == Seq(Message)

(* A message's fields have their types.                                    *)
LEMMA MessageParts ==
  ASSUME NEW m \in Message
  PROVE /\ m.role \in {"user", "assistant"} /\ m.kind \in {"text", "tool_use", "tool_result"}
        /\ m.blocks \in Seq(Call) /\ m.size \in Nat /\ m.content \in Found
<1> HIDE DEF Call, Found
<1> QED BY DEF Message

(* Messages of text, of calls and of results.                              *)
LEMMA TextMessageIs ==
  ASSUME NEW role \in {"user", "assistant"}, NEW size \in Nat, NEW content \in Found
  PROVE /\ TextMessage(role, size, content) \in Message
        /\ TextMessage(role, size, content).role = role /\ TextMessage(role, size, content).kind = "text"
<1> HIDE DEF Call, Found
<1>1. <<>> \in Seq(Call)
  OBVIOUS
<1> QED BY <1>1 DEF TextMessage, Message

LEMMA CallMessageIs ==
  ASSUME NEW calls \in Seq(Call), NEW content \in Found
  PROVE /\ CallMessage(calls) \in Message
        /\ CallMessage(calls).role = "assistant" /\ CallMessage(calls).kind = "tool_use"
        /\ CallMessage(calls).blocks = calls
        /\ ResultMessage(calls, content) \in Message
        /\ ResultMessage(calls, content).role = "user" /\ ResultMessage(calls, content).kind = "tool_result"
        /\ ResultMessage(calls, content).blocks = calls
<1>0. "nothing" \in Found
  BY DEF Found
<1> HIDE DEF Call, Found
<1>1. Len(calls) \in Nat
  OBVIOUS
<1> QED BY <1>0, <1>1 DEF CallMessage, ResultMessage, Message

(* Every message with calls is followed by their answers, and no answer    *)
(* stands without its calls.                                               *)
AnsweredAt(m, i) ==
    /\ i + 1 <= Len(m) /\ m[i + 1].kind = "tool_result" /\ m[i + 1].role = "user"
    /\ m[i + 1].blocks = m[i].blocks

(* Every message of calls has its results behind it, and results stand     *)
(* nowhere else: what a vendor takes (Converses) is that and a first text  *)
(* of the user's.                                                          *)
Paired(m) ==
    \A i \in 1..Len(m) :
        /\ m[i].kind = "tool_use" => AnsweredAt(m, i)
        /\ m[i].kind = "tool_result" => i > 1 /\ m[i - 1].kind = "tool_use"

(* Sequences of messages.                                                  *)
LEMMA MessagesAlgebra ==
  /\ <<>> \in Messages
  /\ \A a, b \in Messages : a \o b \in Messages /\ Len(a \o b) = Len(a) + Len(b)
  /\ \A a \in Messages : Len(a) \in Nat /\ a \o <<>> = a /\ <<>> \o a = a /\ \A i \in 1..Len(a) : a[i] \in Message
  /\ \A m \in Message : <<m>> \in Messages /\ Len(<<m>>) = 1 /\ <<m>>[1] = m
  /\ \A m, n \in Message : <<m, n>> \in Messages /\ Len(<<m, n>>) = 2 /\ <<m, n>>[1] = m /\ <<m, n>>[2] = n
  /\ \A a \in Messages, m \in Message : Append(a, m) \in Messages /\ Append(a, m) = a \o <<m>>
<1> HIDE DEF Message
<1> QED BY DEF Messages

(* The messages of two sequences put together.                             *)
LEMMA MessagesAt ==
  ASSUME NEW a \in Messages, NEW b \in Messages
  PROVE /\ \A i \in 1..Len(a) : (a \o b)[i] = a[i]
        /\ \A i \in 1..Len(b) : (a \o b)[Len(a) + i] = b[i]
<1> HIDE DEF Message
<1> QED BY DEF Messages

(* Paired conversations put together are paired; so are one text, calls    *)
(* with their results, and nothing.                                        *)
LEMMA PairedConcat ==
  ASSUME NEW a \in Messages, NEW b \in Messages, Paired(a), Paired(b)
  PROVE Paired(a \o b)
<1> DEFINE c == a \o b
           n == Len(a)
           k == Len(b)
<1>1. n \in Nat /\ k \in Nat /\ Len(c) = n + k
  BY MessagesAlgebra
<1>2. \A i \in 1..n : c[i] = a[i]
  BY MessagesAt
<1>3. \A i \in 1..k : c[n + i] = b[i]
  BY MessagesAt
<1>4. \A i \in 1..n : /\ a[i].kind = "tool_use" => AnsweredAt(a, i)
                      /\ a[i].kind = "tool_result" => i > 1 /\ a[i - 1].kind = "tool_use"
  BY DEF Paired
<1>5. \A i \in 1..k : /\ b[i].kind = "tool_use" => AnsweredAt(b, i)
                      /\ b[i].kind = "tool_result" => i > 1 /\ b[i - 1].kind = "tool_use"
  BY DEF Paired
<1> HIDE DEF c
<1>6. ASSUME NEW i \in 1..n
      PROVE /\ c[i].kind = "tool_use" => AnsweredAt(c, i)
            /\ c[i].kind = "tool_result" => i > 1 /\ c[i - 1].kind = "tool_use"
  <2>1. c[i] = a[i]
    BY <1>2
  <2>2. CASE a[i].kind = "tool_use"
    <3>1. AnsweredAt(a, i)
      BY <2>2, <1>4
    <3>2. i + 1 <= n /\ c[i + 1] = a[i + 1]
      BY <3>1, <1>1, <1>2 DEF AnsweredAt
    <3> QED BY <3>1, <3>2, <2>1, <2>2, <1>1 DEF AnsweredAt
  <2>3. CASE a[i].kind = "tool_result"
    <3>1. i > 1 /\ a[i - 1].kind = "tool_use"
      BY <2>3, <1>4
    <3>2. c[i - 1] = a[i - 1]
      BY <3>1, <1>1, <1>2
    <3> QED BY <3>1, <3>2, <2>1, <2>3
  <2> QED BY <2>1, <2>2, <2>3
<1>7. ASSUME NEW j \in 1..k
      PROVE /\ c[n + j].kind = "tool_use" => AnsweredAt(c, n + j)
            /\ c[n + j].kind = "tool_result" => n + j > 1 /\ c[n + j - 1].kind = "tool_use"
  <2>1. c[n + j] = b[j]
    BY <1>3
  <2>2. CASE b[j].kind = "tool_use"
    <3>1. AnsweredAt(b, j)
      BY <2>2, <1>5
    <3>2. j + 1 \in 1..k /\ (n + j) + 1 = n + (j + 1)
      BY <3>1, <1>1 DEF AnsweredAt
    <3>3. c[(n + j) + 1] = b[j + 1]
      BY <3>2, <1>3
    <3> QED BY <3>1, <3>2, <3>3, <2>1, <2>2, <1>1 DEF AnsweredAt
  <2>3. CASE b[j].kind = "tool_result"
    <3>1. j > 1 /\ b[j - 1].kind = "tool_use"
      BY <2>3, <1>5
    <3>2. c[n + (j - 1)] = b[j - 1] /\ (n + j) - 1 = n + (j - 1)
      BY <3>1, <1>1, <1>3
    <3> QED BY <3>1, <3>2, <2>1, <2>3, <1>1
  <2> QED BY <2>1, <2>2, <2>3
<1>8. ASSUME NEW i \in 1..Len(c)
      PROVE /\ c[i].kind = "tool_use" => AnsweredAt(c, i)
            /\ c[i].kind = "tool_result" => i > 1 /\ c[i - 1].kind = "tool_use"
  <2>1. CASE i <= n
    BY <2>1, <1>6
  <2>2. CASE i > n
    <3>1. PICK j \in 1..k : i = n + j
      <4>1. i - n \in 1..k /\ i = n + (i - n)
        BY <2>2, <1>1
      <4> QED BY <4>1
    <3> QED BY <3>1, <1>7
  <2> QED BY <2>1, <2>2, <1>1
<1> QED BY <1>8 DEF Paired, c

LEMMA PairedOne ==
  ASSUME NEW m \in Message, m.kind = "text"
  PROVE Paired(<<m>>)
BY MessagesAlgebra DEF Paired

LEMMA PairedTwo ==
  ASSUME NEW calls \in Seq(Call), NEW content \in Found
  PROVE /\ Paired(<<CallMessage(calls), ResultMessage(calls, content)>>)
        /\ <<CallMessage(calls), ResultMessage(calls, content)>> \in Messages
<1> DEFINE q == <<CallMessage(calls), ResultMessage(calls, content)>>
<1>1. q \in Messages /\ Len(q) = 2 /\ q[1] = CallMessage(calls) /\ q[2] = ResultMessage(calls, content)
  BY MessagesAlgebra, CallMessageIs
<1> HIDE DEF q
<1>2. q[1].kind = "tool_use" /\ q[2].kind = "tool_result" /\ q[2].role = "user" /\ q[2].blocks = q[1].blocks
  BY <1>1, CallMessageIs
<1>3. AnsweredAt(q, 1)
  BY <1>1, <1>2 DEF AnsweredAt
<1>4. Paired(q)
  BY <1>1, <1>2, <1>3 DEF Paired
<1> QED BY <1>1, <1>4 DEF q

LEMMA PairedNone == Paired(<<>>)
BY DEF Paired

(* The conversations that are.                                             *)
PairedMessages == {m \in Messages : Paired(m)}

(* ... and many put together.                                              *)
LEMMA PairedAlgebra ==
  /\ <<>> \in PairedMessages
  /\ \A a, b \in PairedMessages : a \o b \in PairedMessages
  /\ PairedMessages \subseteq Messages
BY PairedNone, PairedConcat, MessagesAlgebra DEF PairedMessages

LEMMA PairedFlat ==
  ASSUME NEW s \in Seq(PairedMessages)
  PROVE /\ FlattenSeq(s) \in PairedMessages /\ s \in Seq(Messages)
        /\ s # <<>> => /\ FlattenSeq(Front(s)) \in PairedMessages /\ Last(s) \in PairedMessages
                       /\ FlattenSeq(s) = FlattenSeq(Front(s)) \o Last(s)
<1> DEFINE T == {z \in Seq(PairedMessages) : FlattenSeq(z) \in PairedMessages}
<1> HIDE DEF PairedMessages
<1>0. ASSUME NEW z \in Seq(PairedMessages) PROVE z \in Seq(Messages)
  BY PairedAlgebra
<1>1. <<>> \in T
  <2>1. <<>> \in Seq(PairedMessages)
    OBVIOUS
  <2> QED BY <2>1, FlattenEmpty, PairedAlgebra
<1>2. ASSUME NEW z \in Seq(PairedMessages), NEW x \in PairedMessages PROVE FlattenSeq(Append(z, x)) = FlattenSeq(z) \o x
  <2> HIDE DEF Message
  <2>1. z \in Seq(Seq(Message)) /\ x \in Seq(Message)
    BY <1>0, PairedAlgebra DEF Messages
  <2> QED BY <2>1, FlattenAppend
<1>3. ASSUME NEW z \in Seq(PairedMessages), NEW x \in PairedMessages, z \in T PROVE Append(z, x) \in T
  <2>1. Append(z, x) \in Seq(PairedMessages)
    OBVIOUS
  <2> QED BY <2>1, <1>2, <1>3, PairedAlgebra
<1> HIDE DEF T
<1>4. Seq(PairedMessages) \subseteq T
  BY <1>1, <1>3, SequenceInduction
<1>5. \A z \in Seq(PairedMessages) : FlattenSeq(z) \in PairedMessages
  BY <1>4 DEF T
<1>6. ASSUME s # <<>>
      PROVE /\ FlattenSeq(Front(s)) \in PairedMessages /\ Last(s) \in PairedMessages
            /\ FlattenSeq(s) = FlattenSeq(Front(s)) \o Last(s)
  <2>1. Front(s) \in Seq(PairedMessages) /\ Last(s) \in PairedMessages /\ s = Append(Front(s), Last(s))
    BY <1>6, FrontAndLast
  <2> DEFINE f == Front(s)
             l == Last(s)
  <2> HIDE DEF f, l
  <2>2. f \in Seq(PairedMessages) /\ l \in PairedMessages /\ s = Append(f, l)
    BY <2>1 DEF f, l
  <2>3. FlattenSeq(s) = FlattenSeq(f) \o l /\ FlattenSeq(f) \in PairedMessages
    BY <2>2, <1>2, <1>5
  <2> QED BY <2>2, <2>3 DEF f, l
<1> QED BY <1>0, <1>5, <1>6

(* An entry's fields have their types.                                     *)
LEMMA EntryParts ==
  ASSUME NEW e \in Entry
  PROVE /\ e.role \in {"user", "assistant", "thinking", "tool"} /\ e.size \in Nat
        /\ e.content \in Found /\ e.cleared \in BOOLEAN
<1> HIDE DEF Found
<1> QED BY DEF Entry

(* The call of a tool entry (historyToolPair).                             *)
LEMMA HistoryCallType ==
  ASSUME NEW entries, NEW i \in Nat, entries[i].content \in Found
  PROVE HistoryCall(entries, i) \in Seq(Call)
<1> DEFINE T == {j \in 1..(i - 1) : entries[j].role = "tool" /\ ~entries[j].cleared}
<1>1. IsFiniteSet(1..(i - 1))
  BY FS_Interval
<1>2. T \subseteq 1..(i - 1)
  OBVIOUS
<1> HIDE DEF T
<1>3. Cardinality(T) \in Nat
  BY <1>1, <1>2, FS_Subset, FS_CardinalityType
<1>4. ToolNumber(entries, i) \in Nat
  BY <1>3 DEF ToolNumber, T
<1> DEFINE k == ToolNumber(entries, i)
<1>5. [of |-> "hist", number |-> <<0, k>>] \in Name
  <2>1. <<0, k>> \in Nat \X Nat
    BY <1>4
  <2> QED BY <2>1, NumberedType
<1>6. Named("tool") \in Name
  BY NamedType
<1> DEFINE n == [of |-> "hist", number |-> <<0, k>>]
           input == [strings |-> entries[i].content, rest |-> "nothing"]
           c == [id |-> n, name |-> Named("tool"), input |-> input]
<1>10. input \in Input
  BY DEF Input, Found
<1> HIDE DEF k, n, input
<1>7. n \in Name
  BY <1>5 DEF n
<1>8. c \in Call
  <2> HIDE DEF Name, Input
  <2> QED BY <1>6, <1>7, <1>10 DEF Call
<1>9. HistoryCall(entries, i) = <<c>>
  BY DEF HistoryCall, c, n, k, input
<1> HIDE DEF c
<1> QED BY <1>8, <1>9

(* What an entry becomes is paired, and a text of the user's stays one.    *)
LEMMA MessagesOfType ==
  ASSUME NEW entries \in Seq(Entry), NEW i \in 1..Len(entries)
  PROVE /\ MessagesOf(entries, i) \in PairedMessages
        /\ entries[i].role = "user" /\ ~entries[i].cleared =>
              MessagesOf(entries, i) = <<TextMessage("user", entries[i].size, entries[i].content)>>
<1> DEFINE e == entries[i]
<1>1. e \in Entry /\ i \in Nat
  <2> HIDE DEF Entry
  <2> QED OBVIOUS
<1>2. /\ e.role \in {"user", "assistant", "thinking", "tool"} /\ e.size \in Nat
      /\ e.content \in Found /\ e.cleared \in BOOLEAN
  BY <1>1, EntryParts
<1> DEFINE h == HistoryCall(entries, i)
<1>3. h \in Seq(Call)
  BY <1>1, <1>2, HistoryCallType
<1> HIDE DEF h
<1>4. /\ (e.cleared \/ e.role = "thinking") => MessagesOf(entries, i) = <<>>
      /\ (~e.cleared /\ e.role = "tool") => MessagesOf(entries, i) = <<CallMessage(h), ResultMessage(h, "nothing")>>
      /\ (~e.cleared /\ e.role \in {"user", "assistant"}) =>
             MessagesOf(entries, i) = <<TextMessage(e.role, e.size, e.content)>>
  BY <1>2 DEF MessagesOf, h
<1>5. <<CallMessage(h), ResultMessage(h, "nothing")>> \in PairedMessages
  BY <1>3, PairedTwo DEF PairedMessages, Found
<1>6. ASSUME e.role \in {"user", "assistant"} PROVE <<TextMessage(e.role, e.size, e.content)>> \in PairedMessages
  <2> DEFINE t == TextMessage(e.role, e.size, e.content)
  <2>1. t \in Message /\ t.kind = "text"
    BY <1>2, <1>6, TextMessageIs
  <2> HIDE DEF t
  <2>2. <<t>> \in Messages /\ Paired(<<t>>)
    BY <2>1, PairedOne, MessagesAlgebra
  <2> QED BY <2>2 DEF PairedMessages, t
<1>7. <<>> \in PairedMessages
  BY PairedAlgebra
<1> HIDE DEF PairedMessages
<1>8. CASE e.cleared \/ e.role = "thinking"
  BY <1>8, <1>4, <1>7, <1>2
<1>9. CASE ~e.cleared /\ e.role = "tool"
  BY <1>9, <1>4, <1>5, <1>2
<1>10. CASE ~e.cleared /\ e.role \in {"user", "assistant"}
  BY <1>10, <1>4, <1>6
<1> QED BY <1>8, <1>9, <1>10, <1>2

(* What a history becomes is paired, and ends in the user's text if the    *)
(* history does.                                                           *)
LEMMA ToContentMessagesFacts ==
  ASSUME NEW entries \in Seq(Entry)
  PROVE /\ ToContentMessages(entries) \in PairedMessages
        /\ (entries # <<>> /\ Last(entries).role = "user" /\ ~Last(entries).cleared) =>
             \E a \in PairedMessages, t \in Message :
                /\ ToContentMessages(entries) = a \o <<t>>
                /\ t.role = "user" /\ t.kind = "text"
<1> DEFINE s == [i \in DOMAIN entries |-> MessagesOf(entries, i)]
<1>1. DOMAIN entries = 1..Len(entries) /\ Len(entries) \in Nat
  OBVIOUS
<1>2. \A i \in 1..Len(entries) : s[i] \in PairedMessages
  BY MessagesOfType, <1>1
<1>3. s \in Seq(PairedMessages) /\ Len(s) = Len(entries)
  <2> HIDE DEF PairedMessages
  <2> QED BY <1>1, <1>2
<1>4. ToContentMessages(entries) = FlattenSeq(s)
  BY DEF ToContentMessages
<1>5. FlattenSeq(s) \in PairedMessages
  BY <1>3, PairedFlat
<1>6. ASSUME entries # <<>>, Last(entries).role = "user", ~Last(entries).cleared
      PROVE \E a \in PairedMessages, t \in Message :
                /\ FlattenSeq(s) = a \o <<t>>
                /\ t.role = "user" /\ t.kind = "text"
  <2>1. Last(entries) \in Entry /\ Len(entries) \in 1..Len(entries) /\ Last(entries) = entries[Len(entries)]
    <3> HIDE DEF Entry
    <3> QED BY SMTT(30), <1>6, FrontAndLast
  <2> DEFINE e == Last(entries)
             t == TextMessage("user", e.size, e.content)
  <2>2. e.size \in Nat /\ e.content \in Found
    BY <2>1, EntryParts
  <2>3. t \in Message /\ t.role = "user" /\ t.kind = "text"
    BY <2>2, TextMessageIs
  <2>4. s[Len(entries)] = <<t>>
    BY <2>1, <1>6, MessagesOfType, <1>1
  <2> HIDE DEF t, s, PairedMessages
  <2>5. s # <<>> /\ Last(s) = <<t>>
    BY <2>4, <1>3, <1>6 DEF Last
  <2>6. FlattenSeq(Front(s)) \in PairedMessages /\ FlattenSeq(s) = FlattenSeq(Front(s)) \o <<t>>
    BY <2>5, <1>3, PairedFlat
  <2> QED BY <2>3, <2>6
<1> HIDE DEF s
<1> QED BY <1>4, <1>5, <1>6

(* The length of content is a fold, and adds up.                           *)
LEMMA ContentLengthFold ==
  /\ ContentLength[<<>>] = 0
  /\ \A s \in Messages : ContentLength[s] \in Nat
  /\ \A s \in Messages, x \in Message : ContentLength[Append(s, x)] = ContentLength[s] + x.size
<1> DEFINE step == [p \in Nat \X Message |-> p[1] + p[2].size]
<1>1. step \in [Nat \X Message -> Nat]
  <2>1. \A p \in Nat \X Message : p[1] + p[2].size \in Nat
    <3> SUFFICES ASSUME NEW p \in Nat \X Message PROVE p[1] + p[2].size \in Nat
      OBVIOUS
    <3>1. p[1] \in Nat /\ p[2] \in Message
      <4> HIDE DEF Message
      <4> QED OBVIOUS
    <3>2. p[2].size \in Nat
      BY <3>1, MessageParts
    <3> QED BY <3>1, <3>2
  <2> HIDE DEF Message
  <2> QED BY <2>1
<1>3. \A r \in Nat, u \in Message : step[<<r, u>>] = r + u.size
  <2> HIDE DEF Message
  <2> QED OBVIOUS
<1> HIDE DEF step, Message
<1>4. Foldable(Message, Nat, 0, step)
  BY <1>1, SequenceRecursion
<1>5. PICK f \in [Seq(Message) -> Nat] : \A s \in Seq(Message) :
          f[s] = IF s = <<>> THEN 0 ELSE step[<<f[Front(s)], Last(s)>>]
  BY <1>4 DEF Foldable
<1> DEFINE body(g, s) == IF s = <<>> THEN 0 ELSE g[Front(s)] + Last(s).size
<1>6. \A s \in Seq(Message) : f[s] = body(f, s)
  <2> SUFFICES ASSUME NEW s \in Seq(Message), s # <<>> PROVE f[s] = f[Front(s)] + Last(s).size
    BY <1>5
  <2>1. Front(s) \in Seq(Message) /\ Last(s) \in Message
    BY FrontAndLast
  <2>2. f[Front(s)] \in Nat
    BY <2>1
  <2> QED BY <1>3, <1>5, <2>1, <2>2
<1>7. f = [s \in Seq(Message) |-> body(f, s)]
  BY <1>6
<1>8. ContentLength = CHOOSE g : g = [s \in Seq(Message) |-> body(g, s)]
  BY Zenon DEF ContentLength
<1>9. ContentLength = [s \in Seq(Message) |-> body(ContentLength, s)]
  BY <1>7, <1>8
<1>10. \A s \in Seq(Message) : ContentLength[s] = body(ContentLength, s)
  BY <1>9
<1>11. ContentLength[<<>>] = 0
  <2>1. <<>> \in Seq(Message)
    OBVIOUS
  <2> QED BY <1>10, <2>1
<1>12. ASSUME NEW s \in Seq(Message), s # <<>>, ContentLength[Front(s)] \in Nat
       PROVE ContentLength[s] = step[<<ContentLength[Front(s)], Last(s)>>]
  BY <1>3, <1>10, <1>12, FrontAndLast
<1>13. Folds(Message, Nat, 0, step, ContentLength)
  <2>1. 0 \in Nat
    OBVIOUS
  <2>2. \A s \in Seq(Message) : s # <<>> /\ ContentLength[Front(s)] \in Nat
             => ContentLength[s] = step[<<ContentLength[Front(s)], Last(s)>>]
    BY <1>12
  <2> DEFINE g == ContentLength
  <2>3. g[<<>>] = 0 /\ \A s \in Seq(Message) : s # <<>> /\ g[Front(s)] \in Nat => g[s] = step[<<g[Front(s)], Last(s)>>]
    BY <1>11, <2>2
  <2> HIDE DEF g
  <2>4. Folds(Message, Nat, 0, step, g)
    BY <1>1, <2>1, <2>3, FoldOf
  <2> QED BY <2>4 DEF g
<1>14. /\ \A s \in Seq(Message) : ContentLength[s] \in Nat
       /\ \A s \in Seq(Message), u \in Message : ContentLength[Append(s, u)] = step[<<ContentLength[s], u>>]
  BY <1>13 DEF Folds
<1>15. \A s \in Seq(Message), u \in Message : ContentLength[Append(s, u)] = ContentLength[s] + u.size
  BY <1>3, <1>14
<1> QED BY <1>11, <1>14, <1>15 DEF Messages

(* Sequences with the same messages are the same.                          *)
LEMMA MessagesEqual ==
  ASSUME NEW a \in Messages, NEW b \in Messages, Len(a) = Len(b), \A i \in 1..Len(a) : a[i] = b[i]
  PROVE a = b
<1> HIDE DEF Message
<1>1. a \in Seq(Message) /\ b \in Seq(Message)
  BY DEF Messages
<1> QED BY <1>1, SeqEqual

(* Induction over sequences of messages.                                   *)
LEMMA MessagesInduction ==
  ASSUME NEW T, <<>> \in T, \A s \in Messages, x \in Message : s \in T => Append(s, x) \in T
  PROVE Messages \subseteq T
<1> HIDE DEF Message
<1> QED BY SequenceInduction DEF Messages

LEMMA ContentLengthConcat ==
  ASSUME NEW a \in Messages, NEW b \in Messages
  PROVE ContentLength[a \o b] = ContentLength[a] + ContentLength[b]
<1> DEFINE T == {z \in Messages : ContentLength[a \o z] = ContentLength[a] + ContentLength[z]}
<1>1. <<>> \in T
  BY ContentLengthFold, MessagesAlgebra
<1>2. ASSUME NEW z \in Messages, NEW x \in Message, z \in T PROVE Append(z, x) \in T
  <2>1. Append(z, x) \in Messages /\ a \o z \in Messages
    BY MessagesAlgebra
  <2>2. a \o Append(z, x) = Append(a \o z, x)
    <3> HIDE DEF Message
    <3> QED BY DEF Messages
  <2>3. ContentLength[a \o Append(z, x)] = ContentLength[a \o z] + x.size
    BY <2>1, <2>2, ContentLengthFold
  <2>4. ContentLength[Append(z, x)] = ContentLength[z] + x.size
    BY ContentLengthFold
  <2>5. ContentLength[a] \in Nat /\ ContentLength[z] \in Nat /\ x.size \in Nat
    BY ContentLengthFold, MessageParts
  <2>6. ContentLength[a \o z] = ContentLength[a] + ContentLength[z]
    BY <1>2
  <2> QED BY <2>1, <2>3, <2>4, <2>5, <2>6
<1> HIDE DEF T
<1>3. Messages \subseteq T
  BY <1>1, <1>2, MessagesInduction
<1> QED BY <1>3 DEF T

(* What is left of a conversation from its k-th message on.                *)
LEMMA FromFacts ==
  ASSUME NEW m \in Messages, NEW k \in 1..(Len(m) + 1)
  PROVE /\ From(m, k) \in Messages /\ Len(From(m, k)) = Len(m) - k + 1
        /\ \A i \in 1..(Len(m) - k + 1) : From(m, k)[i] = m[k + i - 1]
<1> HIDE DEF Message
<1> QED BY DEF Messages, From

LEMMA FromFirst ==
  ASSUME NEW m \in Messages
  PROVE From(m, 1) = m
<1> HIDE DEF Message
<1> QED BY DEF Messages, From

LEMMA FromFrom ==
  ASSUME NEW m \in Messages, NEW k \in 1..(Len(m) + 1), NEW j \in 1..(Len(m) - k + 2)
  PROVE /\ k + j - 1 \in 1..(Len(m) + 1)
        /\ From(From(m, k), j) = From(m, k + j - 1)
<1> DEFINE a == From(m, k)
           i == k + j - 1
           b == From(m, i)
           c == From(a, j)
<1>0. Len(m) \in Nat
  BY MessagesAlgebra
<1>1. a \in Messages /\ Len(a) = Len(m) - k + 1 /\ \A x \in 1..(Len(m) - k + 1) : a[x] = m[k + x - 1]
  BY FromFacts
<1>2. i \in 1..(Len(m) + 1)
  BY <1>0
<1> HIDE DEF a
<1>3. j \in 1..(Len(a) + 1)
  BY <1>1, <1>0
<1>4. c \in Messages /\ Len(c) = Len(a) - j + 1 /\ \A x \in 1..(Len(a) - j + 1) : c[x] = a[j + x - 1]
  BY <1>1, <1>3, FromFacts
<1>5. b \in Messages /\ Len(b) = Len(m) - i + 1 /\ \A x \in 1..(Len(m) - i + 1) : b[x] = m[i + x - 1]
  BY <1>2, FromFacts
<1> HIDE DEF b, c
<1>6. Len(b) = Len(c)
  BY <1>0, <1>1, <1>4, <1>5
<1>7. ASSUME NEW x \in 1..Len(c) PROVE c[x] = b[x]
  <2> DEFINE y == j + x - 1
  <2>1. y \in 1..(Len(m) - k + 1) /\ x \in 1..(Len(a) - j + 1) /\ x \in 1..(Len(m) - i + 1)
    BY <1>0, <1>1, <1>4, <1>5, <1>6
  <2>2. c[x] = a[y] /\ a[y] = m[k + y - 1] /\ b[x] = m[i + x - 1]
    BY <2>1, <1>1, <1>4, <1>5
  <2>3. k + y - 1 = i + x - 1
    BY <2>1, <1>0
  <2> QED BY <2>2, <2>3
<1>8. b = c
  BY <1>4, <1>5, <1>6, <1>7, MessagesEqual
<1> QED BY <1>2, <1>8 DEF a, b, c

(* What begins later is no longer.                                         *)
LEMMA ShorterIsLighter ==
  ASSUME NEW m \in Messages, NEW j \in 1..(Len(m) + 1), NEW k \in 1..(Len(m) + 1), j <= k
  PROVE ContentLength[From(m, k)] <= ContentLength[From(m, j)]
<1> DEFINE a == SubSeq(m, j, k - 1)
<1>1. a \in Messages /\ From(m, k) \in Messages /\ From(m, j) = a \o From(m, k)
  <2> HIDE DEF Message
  <2>1. m \in Seq(Message) /\ Len(m) \in Nat
    BY DEF Messages
  <2>2. SubSeq(m, j, k - 1) \in Seq(Message) /\ SubSeq(m, k, Len(m)) \in Seq(Message)
    BY <2>1
  <2> DEFINE i == k - 1
             n == Len(m)
  <2>3. i \in (j - 1)..n /\ n \in i..n /\ i + 1 = k
    BY <2>1
  <2> HIDE DEF i, n
  <2>4. SubSeq(m, j, i) \o SubSeq(m, i + 1, n) = SubSeq(m, j, n)
    BY <2>1, <2>3, ConcatAdjacentSubSeq DEF n
  <2>5. SubSeq(m, j, k - 1) \o SubSeq(m, k, Len(m)) = SubSeq(m, j, Len(m))
    BY <2>3, <2>4 DEF i, n
  <2> QED BY <2>2, <2>5 DEF Messages, From
<1> HIDE DEF a
<1>2. ContentLength[From(m, j)] = ContentLength[a] + ContentLength[From(m, k)]
  BY <1>1, ContentLengthConcat
<1>3. ContentLength[a] \in Nat /\ ContentLength[From(m, k)] \in Nat
  BY <1>1, ContentLengthFold
<1> QED BY <1>2, <1>3

(* The least of some numbers is one of them.                               *)
LEMMA LeastOf ==
  ASSUME NEW T \in SUBSET Nat, T # {}
  PROVE Min(T) \in T /\ \A n \in T : Min(T) <= n
<1>1. \E n \in T : \A k \in T : n <= k
  BY LeastNumber DEF Least
<1> QED BY <1>1 DEF Min

(* What each step of the window leaves: the conversation from k on.        *)
NewestFrom(m, max, k) ==
    /\ k \in 1..Len(m) /\ Newest(m, max) = From(m, k)
    /\ max # 0 => Len(m) - k + 1 <= max
    /\ \A j \in 1..(k - 1) : max # 0 /\ Len(m) - j + 1 > max

FittingFrom(m, max, k) ==
    /\ k \in 1..Len(m) /\ Fitting(m, max) = From(m, k)
    /\ ContentLength[From(m, k)] <= max \/ k = Len(m)
    /\ \A j \in 1..(k - 1) : ContentLength[From(m, j)] > max /\ j # Len(m)

OpenedFrom(m, k) ==
    /\ k \in 1..Len(m) /\ Opened(m) = From(m, k)
    /\ OpensWithUserText(m[k])
    /\ \A j \in 1..(k - 1) : ~OpensWithUserText(m[j])

(* There is such a k for each.                                             *)
LEMMA NewestIs ==
  ASSUME NEW m \in Messages, m # <<>>, NEW max \in Nat
  PROVE \E k \in Nat : NewestFrom(m, max, k)
<1>1. Len(m) \in Nat /\ Len(m) >= 1
  <2> HIDE DEF Message
  <2> QED BY DEF Messages
<1>2. CASE max \in 1..Len(m)
  <2> DEFINE k == Len(m) - max + 1
  <2>1. k \in 1..Len(m) /\ Len(m) - k + 1 <= max /\ \A j \in 1..(k - 1) : Len(m) - j + 1 > max
    BY <1>1, <1>2
  <2>2. Newest(m, max) = From(m, k)
    BY <1>2 DEF Newest
  <2> HIDE DEF k
  <2> QED BY <1>2, <2>1, <2>2 DEF NewestFrom
<1>3. CASE max \notin 1..Len(m)
  <2>1. Newest(m, max) = From(m, 1)
    BY <1>3, FromFirst DEF Newest
  <2>2. max # 0 => Len(m) - 1 + 1 <= max
    BY <1>1, <1>3
  <2>3. \A j \in 1..(1 - 1) : FALSE
    OBVIOUS
  <2>4. NewestFrom(m, max, 1)
    BY <1>1, <2>1, <2>2, <2>3 DEF NewestFrom
  <2> QED BY <2>4
<1> QED BY <1>2, <1>3

LEMMA FittingIs ==
  ASSUME NEW m \in Messages, m # <<>>, NEW max \in Nat
  PROVE \E k \in Nat : FittingFrom(m, max, k)
<1>1. Len(m) \in Nat /\ Len(m) >= 1 /\ DOMAIN m = 1..Len(m)
  <2> HIDE DEF Message
  <2> QED BY DEF Messages
<1> DEFINE T == {k \in 1..Len(m) : \/ ContentLength[From(m, k)] <= max
                                   \/ k = Len(m)}
<1>2. T \in SUBSET Nat /\ Len(m) \in T
  BY <1>1
<1>3. Fitting(m, max) = From(m, Min(T))
  BY <1>1 DEF Fitting
<1>4. Min(T) \in T /\ \A n \in T : Min(T) <= n
  BY <1>2, LeastOf
<1> DEFINE k == Min(T)
<1>5. k \in T /\ (\A n \in T : k <= n) /\ Fitting(m, max) = From(m, k)
  BY <1>3, <1>4
<1> HIDE DEF k
<1>10. k \in 1..Len(m) /\ (ContentLength[From(m, k)] <= max \/ k = Len(m))
  BY <1>5
<1>6. \A j \in 1..(k - 1) : j \in 1..Len(m) /\ ~(k <= j)
  <2> DEFINE n == Len(m)
  <2>1. n \in Nat /\ k \in 1..n
    BY <1>1, <1>10
  <2> HIDE DEF n
  <2>2. \A j \in 1..(k - 1) : j \in 1..n /\ ~(k <= j)
    BY <2>1
  <2> QED BY <2>2 DEF n
<1>7. \A j \in 1..(k - 1) : j \in Nat /\ ~(ContentLength[From(m, j)] <= max) /\ j # Len(m)
  BY <1>5, <1>6
<1>8. \A j \in 1..(k - 1) : ContentLength[From(m, j)] \in Nat
  <2> SUFFICES ASSUME NEW j \in 1..(k - 1) PROVE ContentLength[From(m, j)] \in Nat
    OBVIOUS
  <2>1. j \in 1..(Len(m) + 1)
    BY <1>1, <1>6
  <2>2. From(m, j) \in Messages
    BY <2>1, FromFacts
  <2> QED BY <2>2, ContentLengthFold
<1>11. Fitting(m, max) = From(m, k) /\ k \in Nat
  BY <1>5
<1> HIDE DEF T
<1>12. \A j \in 1..(k - 1) : ContentLength[From(m, j)] > max /\ j # Len(m)
  <2> SUFFICES ASSUME NEW j \in 1..(k - 1) PROVE ContentLength[From(m, j)] > max /\ j # Len(m)
    OBVIOUS
  <2> DEFINE n == ContentLength[From(m, j)]
  <2>1. n \in Nat /\ ~(n <= max) /\ j # Len(m)
    BY <1>7, <1>8
  <2> HIDE DEF n
  <2>2. n > max /\ j # Len(m)
    BY <2>1
  <2> QED BY <2>2 DEF n
<1>9. FittingFrom(m, max, k)
  BY <1>10, <1>11, <1>12 DEF FittingFrom
<1> QED BY <1>9, <1>11

LEMMA OpenedIs ==
  ASSUME NEW m \in Messages, m # <<>>, OpensWithUserText(m[Len(m)])
  PROVE \E k \in Nat : OpenedFrom(m, k)
<1>1. Len(m) \in Nat /\ Len(m) >= 1
  <2> HIDE DEF Message
  <2> QED BY DEF Messages
<1> DEFINE T == {k \in 1..Len(m) : OpensWithUserText(m[k])}
<1>2. T \in SUBSET Nat /\ Len(m) \in T
  BY <1>1
<1>3. Min(T) \in T /\ \A n \in T : Min(T) <= n
  BY <1>2, LeastOf
<1>4. SelectInSeq(m, OpensWithUserText) = Min(T)
  BY <1>2 DEF SelectInSeq
<1> DEFINE k == Min(T)
<1>5. k \in T /\ (\A n \in T : k <= n) /\ SelectInSeq(m, OpensWithUserText) = k
  BY <1>3, <1>4
<1> HIDE DEF k
<1>6. Opened(m) = From(m, k)
  BY <1>5 DEF Opened
<1>7. \A j \in 1..(k - 1) : ~OpensWithUserText(m[j])
  BY <1>1, <1>5
<1>8. OpenedFrom(m, k)
  BY <1>5, <1>6, <1>7 DEF OpenedFrom
<1> QED BY <1>5, <1>8

(* A conversation's first message.                                         *)
LEMMA FromHead ==
  ASSUME NEW m \in Messages, NEW j \in 1..Len(m)
  PROVE From(m, j) # <<>> /\ Head(From(m, j)) = m[j] /\ From(m, j) \in Messages
<1> DEFINE a == From(m, j)
<1>0. Len(m) \in Nat
  BY MessagesAlgebra
<1>1. a \in Messages /\ Len(a) = Len(m) - j + 1 /\ \A i \in 1..(Len(m) - j + 1) : a[i] = m[j + i - 1]
  BY <1>0, FromFacts
<1> HIDE DEF a
<1>2. Len(a) >= 1 /\ a[1] = m[j]
  <2>1. 1 \in 1..(Len(m) - j + 1) /\ j + 1 - 1 = j
    BY <1>0
  <2> QED BY <1>0, <1>1, <2>1
<1>3. a # <<>> /\ Head(a) = a[1]
  <2> HIDE DEF Message
  <2> QED BY <1>1, <1>2 DEF Messages
<1> QED BY <1>1, <1>2, <1>3 DEF a

(* The window, step by step, and what it promises of every suffix.         *)
Windowed(m, c, k) ==
    /\ k \in 1..Len(m) /\ ApplyMessageWindow(m, c) = From(m, k)
    /\ OpensWithUserText(m[k])
    /\ Admissible(From(m, k), c)
    /\ \A j \in 1..(k - 1) : ~Admissible(From(m, j), c)

(* applyMessageWindow cuts one after the other what no earlier beginning   *)
(* would pass.                                                             *)
LEMMA WindowIs ==
  ASSUME NEW m \in Messages, m # <<>>, OpensWithUserText(m[Len(m)]),
         NEW c, c.maxMessages \in Nat, c.maxContentLength \in Nat
  PROVE \E k \in Nat : Windowed(m, c, k)
<1> DEFINE n == Len(m)
           max == c.maxMessages
           longest == c.maxContentLength
<1>0. n \in Nat /\ n >= 1
  <2> HIDE DEF Message
  <2> QED BY DEF Messages
<1>1. PICK k \in Nat : NewestFrom(m, max, k)
  BY NewestIs
<1> DEFINE a == From(m, k)
<1>2. /\ k \in 1..n /\ Newest(m, max) = a
      /\ max # 0 => n - k + 1 <= max
      /\ \A j \in 1..(k - 1) : max # 0 /\ n - j + 1 > max
  BY <1>1 DEF NewestFrom
<1>3. a \in Messages /\ Len(a) = n - k + 1 /\ \A i \in 1..(n - k + 1) : a[i] = m[k + i - 1]
  <2>1. k \in 1..(Len(m) + 1)
    BY <1>0, <1>2
  <2> QED BY <2>1, FromFacts
<1>4. a # <<>>
  BY <1>2, FromHead
<1>5. PICK l \in Nat : FittingFrom(a, longest, l)
  <2> HIDE DEF a
  <2> QED BY <1>3, <1>4, FittingIs
<1> DEFINE b == From(a, l)
           i == k + l - 1
<1>6. /\ l \in 1..Len(a) /\ Fitting(a, longest) = b
      /\ ContentLength[b] <= longest \/ l = Len(a)
      /\ \A j \in 1..(l - 1) : ContentLength[From(a, j)] > longest /\ j # Len(a)
  BY <1>5 DEF FittingFrom
<1>7. \A j \in 1..(n - k + 2) : From(a, j) = From(m, k + j - 1) /\ k + j - 1 \in 1..(n + 1)
  <2>1. k \in 1..(Len(m) + 1)
    BY <1>0, <1>2
  <2> QED BY <2>1, FromFrom
<1>8. l \in 1..(n - k + 2) /\ i \in 1..n /\ i \in 1..(n + 1)
  BY <1>0, <1>2, <1>3, <1>6
<1>9. b = From(m, i)
  BY <1>7, <1>8
<1>10. b \in Messages /\ Len(b) = n - i + 1 /\ \A j \in 1..(n - i + 1) : b[j] = m[i + j - 1]
  BY <1>8, <1>9, FromFacts
<1>11. b # <<>>
  BY <1>8, <1>9, FromHead
<1>12. OpensWithUserText(b[Len(b)])
  <2>1. Len(b) \in 1..(n - i + 1) /\ i + Len(b) - 1 = n
    BY <1>0, <1>8, <1>10
  <2>2. b[Len(b)] = m[i + Len(b) - 1]
    BY <1>10, <2>1
  <2> QED BY <2>1, <2>2
<1>13. PICK q \in Nat : OpenedFrom(b, q)
  <2> HIDE DEF b
  <2> QED BY <1>10, <1>11, <1>12, OpenedIs
<1> DEFINE g == i + q - 1
<1>14. /\ q \in 1..Len(b) /\ Opened(b) = From(b, q) /\ OpensWithUserText(b[q])
       /\ \A j \in 1..(q - 1) : ~OpensWithUserText(b[j])
  BY <1>13 DEF OpenedFrom
<1>15. From(b, q) = From(m, g) /\ g \in 1..n
  <2>1. q \in 1..(n - i + 2) /\ g \in 1..n
    BY <1>0, <1>8, <1>10, <1>14
  <2>2. From(From(m, i), q) = From(m, g)
    BY <1>8, <2>1, FromFrom
  <2> QED BY <1>9, <2>1, <2>2
<1>16. ApplyMessageWindow(m, c) = From(m, g)
  BY <1>2, <1>6, <1>14, <1>15 DEF ApplyMessageWindow
<1>17. b[q] = m[g]
  BY <1>0, <1>8, <1>10, <1>14
<1>18. OpensWithUserText(m[g])
  BY <1>14, <1>17
<1> HIDE DEF a, b, i
<1>19. k \in 1..n /\ i \in 1..n /\ l \in Nat /\ l >= 1 /\ q \in Nat /\ q >= 1 /\ i = k + l - 1 /\ g = i + q - 1 /\ g \in 1..n
       /\ Len(a) = n - k + 1 /\ Len(b) = n - i + 1
  BY <1>2, <1>3, <1>6, <1>8, <1>10, <1>14, <1>15 DEF i
<1> HIDE DEF g
<1>20. /\ From(m, g) \in Messages /\ From(m, g) # <<>> /\ Head(From(m, g)) = m[g]
       /\ Len(From(m, g)) = n - g + 1
  <2>1. g \in 1..(Len(m) + 1)
    BY <1>0, <1>19
  <2>2. Len(From(m, g)) = n - g + 1
    BY <2>1, FromFacts
  <2> QED BY <2>2, <1>19, FromHead
<1>21. Admissible(From(m, g), c)
  <2>1. max # 0 => Len(From(m, g)) <= max
    BY SMTT(30), <1>0, <1>2, <1>19, <1>20
  <2>2. ASSUME Len(From(m, g)) > 1 PROVE ContentLength[From(m, g)] <= longest
    <3>1. l # Len(a)
      BY <2>2, <1>0, <1>19, <1>20
    <3>2. ContentLength[From(m, i)] <= longest
      BY <3>1, <1>6, <1>9
    <3>3. i \in 1..(Len(m) + 1) /\ g \in 1..(Len(m) + 1) /\ i <= g
      BY <1>0, <1>19
    <3>4. ContentLength[From(m, g)] <= ContentLength[From(m, i)]
      BY <3>3, ShorterIsLighter
    <3>5. From(m, i) \in Messages
      BY <3>3, FromFacts
    <3>6. ContentLength[From(m, g)] \in Nat /\ ContentLength[From(m, i)] \in Nat
      BY <3>5, <1>20, ContentLengthFold
    <3> QED BY <3>2, <3>4, <3>6
  <2> QED BY <2>1, <2>2, <1>18, <1>20 DEF Admissible
<1>22. ASSUME NEW j \in 1..(g - 1) PROVE ~Admissible(From(m, j), c)
  <2>1. j \in 1..n /\ j \in 1..(Len(m) + 1) /\ j \in Nat
    BY <1>0, <1>19
  <2>2. From(m, j) # <<>> /\ Head(From(m, j)) = m[j] /\ Len(From(m, j)) = n - j + 1
    BY <2>1, FromHead, FromFacts
  <2>3. CASE j < k
    <3>1. max # 0 /\ n - j + 1 > max
      BY <2>1, <2>3, <1>2, <1>19
    <3>2. ~(n - j + 1 <= max)
      BY <3>1, <2>1, <1>0
    <3> QED BY <2>2, <3>1, <3>2 DEF Admissible
  <2>4. CASE k <= j /\ j < i
    <3> DEFINE d == j - k + 1
    <3>1. d \in 1..(l - 1) /\ d \in 1..(n - k + 2) /\ k + d - 1 = j
      BY <2>1, <2>4, <1>0, <1>19
    <3> HIDE DEF d
    <3>2. ContentLength[From(a, d)] > longest /\ d # Len(a) /\ From(a, d) = From(m, j)
      BY <3>1, <1>6, <1>7
    <3>3. n - j + 1 > 1
      BY <3>1, <3>2, <2>1, <2>4, <1>0, <1>19
    <3>4. From(m, j) \in Messages
      BY <2>1, FromFacts
    <3>5. ~(ContentLength[From(m, j)] <= longest)
      <4> DEFINE e == ContentLength[From(m, j)]
      <4>1. e \in Nat /\ e > longest
        BY <3>2, <3>4, ContentLengthFold
      <4> HIDE DEF e
      <4>2. ~(e <= longest)
        BY <4>1
      <4> QED BY <4>2 DEF e
    <3> QED BY <2>2, <3>3, <3>5 DEF Admissible
  <2>5. CASE i <= j
    <3> DEFINE d == j - i + 1
    <3>1. d \in 1..(q - 1) /\ d \in 1..(n - i + 1) /\ i + d - 1 = j
      BY <2>1, <2>5, <1>0, <1>19
    <3> HIDE DEF d
    <3>2. ~OpensWithUserText(b[d]) /\ b[d] = m[i + d - 1]
      BY <3>1, <1>10, <1>14
    <3>3. ~OpensWithUserText(m[j])
      BY <3>1, <3>2
    <3> QED BY <2>2, <3>3 DEF Admissible
  <2> QED BY <2>1, <2>3, <2>4, <2>5, <1>19
<1>23. Windowed(m, c, g)
  BY <1>16, <1>18, <1>19, <1>21, <1>22 DEF Windowed
<1> QED BY <1>19, <1>23

(* So the window is the longest admissible end of the conversation.        *)
LEMMA WindowIsLongest ==
  ASSUME NEW m \in Messages, NEW c, NEW k \in Nat, Windowed(m, c, k)
  PROVE LongestAdmissible(m, c) = ApplyMessageWindow(m, c)
<1> DEFINE P(i) == /\ Admissible(From(m, i), c)
                   /\ \A j \in 1..(i - 1) : ~Admissible(From(m, j), c)
<1>1. Len(m) \in Nat /\ k \in 1..Len(m)
  BY MessagesAlgebra DEF Windowed
<1>2. k \in 1..(Len(m) + 1) /\ P(k)
  BY <1>1 DEF Windowed
<1>3. ASSUME NEW i \in 1..(Len(m) + 1), P(i) PROVE i = k
  <2>1. ~(i < k)
    <3> SUFFICES ASSUME i < k PROVE FALSE
      OBVIOUS
    <3>1. i \in 1..(k - 1)
      BY <1>1
    <3> QED BY <3>1, <1>2, <1>3
  <2>2. ~(k < i)
    <3> SUFFICES ASSUME k < i PROVE FALSE
      OBVIOUS
    <3>1. k \in 1..(i - 1)
      BY <1>1
    <3> QED BY <3>1, <1>2, <1>3
  <2> QED BY <2>1, <2>2, <1>1
<1> DEFINE z == CHOOSE i \in 1..(Len(m) + 1) : P(i)
<1>4. LongestAdmissible(m, c) = From(m, z)
  BY DEF LongestAdmissible
<1>5. z \in 1..(Len(m) + 1) /\ P(z)
  <2> HIDE DEF P
  <2> QED BY <1>2
<1>6. z = k
  BY <1>3, <1>5
<1> QED BY <1>4, <1>6 DEF Windowed

-----------------------------------------------------------------------------
(* The tool registry (registry.ts): validators are cached, by name and by  *)
(* schema, and no answer shows it.                                         *)

(* ... as one record.                                                      *)
Registry(n, s, v, d) == [names |-> n, source |-> s, static |-> v, dynamic |-> d]

(* Its fields.                                                             *)
LEMMA RegistryFields ==
  ASSUME NEW n, NEW s, NEW v, NEW d
  PROVE /\ Registry(n, s, v, d).names = n /\ Registry(n, s, v, d).source = s
        /\ Registry(n, s, v, d).static = v /\ Registry(n, s, v, d).dynamic = d
BY DEF Registry

(* A plain tool's validator is of its schema, a kept one of its key.       *)
Static(s, v) ==
    \A n \in DOMAIN s : s[n].function = FALSE => n \in DOMAIN v /\ v[n] = s[n].answers.schema

(* A validator kept by schema is that schema's.                            *)
Dynamic(d) == \A k \in DOMAIN d : d[k] = k

(* The caches are right.                                                   *)
Sound(g) ==
    /\ g = Registry(g.names, g.source, g.static, g.dynamic)
    /\ DOMAIN g.static \subseteq DOMAIN g.source
    /\ \A n \in DOMAIN g.source : g.source[n].function \in BOOLEAN
    /\ Static(g.source, g.static)
    /\ Dynamic(g.dynamic)

(* A registry put together of sound caches.                                *)
LEMMA SoundOf ==
  ASSUME NEW n, NEW s, NEW v, NEW d,
         DOMAIN v \subseteq DOMAIN s, \A x \in DOMAIN s : s[x].function \in BOOLEAN,
         Static(s, v), Dynamic(d)
  PROVE Sound(Registry(n, s, v, d))
<1> DEFINE g == Registry(n, s, v, d)
<1>1. g.names = n /\ g.source = s /\ g.static = v /\ g.dynamic = d
  BY RegistryFields
<1>2. g = Registry(n, s, v, d)
  OBVIOUS
<1> HIDE DEF g
<1>3. Sound(g)
  BY <1>1, <1>2 DEF Sound
<1> QED BY <1>3 DEF g

(* A new one is sound.                                                     *)
LEMMA NewRegistrySound == Sound(NewRegistry)
<1>1. NewRegistry = Registry(<<>>, <<>>, <<>>, <<>>)
  BY DEF NewRegistry, Registry
<1>2. DOMAIN <<>> = {}
  OBVIOUS
<1>3. Sound(Registry(<<>>, <<>>, <<>>, <<>>))
  BY <1>2, SoundOf DEF Static, Dynamic
<1> QED BY <1>1, <1>3

(* A schema is a function or is not.                                       *)
LEMMA SourceParts ==
  ASSUME NEW c \in Source
  PROVE c.function = TRUE \/ c.function = FALSE
<1> HIDE DEF Name
<1> QED BY DEF Source

(* A record of those four fields.                                          *)
IsRegistry(g) == g = Registry(g.names, g.source, g.static, g.dynamic)

(* The model's EXCEPTs, written out.                                       *)
LEMMA IsRegistryExcept ==
  ASSUME NEW g, IsRegistry(g), NEW a, NEW b
  PROVE /\ [g EXCEPT !.source = b] = Registry(g.names, b, g.static, g.dynamic)
        /\ [g EXCEPT !.dynamic = a] = Registry(g.names, g.source, g.static, a)
<1> DEFINE n == g.names
           s == g.source
           v == g.static
           d == g.dynamic
<1>1. g = Registry(n, s, v, d)
  BY DEF IsRegistry
<1>2. g.names = n /\ g.source = s /\ g.static = v /\ g.dynamic = d
  OBVIOUS
<1> HIDE DEF n, s, v, d
<1>3. g = [names |-> n, source |-> s, static |-> v, dynamic |-> d]
  BY <1>1 DEF Registry
<1>7. [g EXCEPT !.source = b] = Registry(n, b, v, d)
  BY <1>3 DEF Registry
<1>8. [g EXCEPT !.dynamic = a] = Registry(n, s, v, a)
  BY <1>3 DEF Registry
<1> QED BY <1>2, <1>7, <1>8

(* Registering leaves the caches right, and so does the owner's change of  *)
(* a schema that is a function.                                            *)
LEMMA RegisterIs ==
  ASSUME NEW g, Sound(g), NEW c \in Source
  PROVE Sound(Register(g, c))
<1> DEFINE n == c.answers.name
           schema == c.answers.schema
           taken == Has(g, n) \/ ~(c.function \/ Compiles(schema))
<1>0. c.function = TRUE \/ c.function = FALSE
  BY SourceParts
<1>1. CASE taken
  BY <1>1 DEF Register
<1>2. CASE ~taken
  <2> DEFINE s == Having(g.source, n, c)
             v == IF c.function THEN g.static ELSE Having(g.static, n, schema)
             a == Append(g.names, n)
  <2>1. Register(g, c) = [g EXCEPT !.names = a, !.source = s, !.static = v]
    BY <1>2 DEF Register
  <2>2. g = Registry(g.names, g.source, g.static, g.dynamic)
    BY DEF Sound
  <2>4. n \notin DOMAIN g.source /\ n \notin DOMAIN g.static
    BY <1>2 DEF Has, Sound
  <2>7. /\ c.function = TRUE => v = g.static
        /\ c.function = FALSE => v = Having(g.static, n, schema)
    OBVIOUS
  <2>12. s = Having(g.source, n, c)
    OBVIOUS
  <2> HIDE DEF s, v, a, n, schema, taken
  <2>13. IsRegistry(g)
    BY <2>2 DEF IsRegistry
  <2>14. [g EXCEPT !.names = a, !.source = s, !.static = v] = Registry(a, s, v, g.dynamic)
    <3>1. [g EXCEPT !.names = a, !.source = s, !.static = v]
              = [x \in DOMAIN g |-> IF x = "static" THEN v ELSE IF x = "source" THEN s ELSE IF x = "names" THEN a ELSE g[x]]
      BY <2>13 DEF IsRegistry, Registry
    <3>2. DOMAIN g = {"names", "source", "static", "dynamic"}
      BY <2>13 DEF IsRegistry, Registry
    <3> QED BY <3>1, <3>2 DEF Registry
  <2>3. Register(g, c) = Registry(a, s, v, g.dynamic)
    BY Zenon, <2>1, <2>14
  <2>5. DOMAIN s = DOMAIN g.source \union {n} /\ s[n] = c /\ \A x \in DOMAIN g.source : s[x] = g.source[x]
    BY <2>4, <2>12 DEF Having
  <2>6. c.function = FALSE => /\ DOMAIN v = DOMAIN g.static \union {n} /\ v[n] = schema
                              /\ \A x \in DOMAIN g.static : v[x] = g.static[x]
    BY <2>4, <2>7 DEF Having
  <2>8. DOMAIN v \subseteq DOMAIN s
    BY <1>0, <2>5, <2>6, <2>7 DEF Sound
  <2>9. \A x \in DOMAIN s : s[x].function \in BOOLEAN
    BY <1>0, <2>5 DEF Sound
  <2>10. Static(s, v)
    <3> SUFFICES ASSUME NEW x \in DOMAIN s, s[x].function = FALSE
                 PROVE x \in DOMAIN v /\ v[x] = s[x].answers.schema
      BY DEF Static
    <3>1. CASE x = n
      <4>1. c.function = FALSE
        BY <3>1, <2>5
      <4>2. s[x].answers.schema = schema
        BY <3>1, <2>5 DEF schema
      <4> QED BY <4>1, <4>2, <3>1, <2>5, <2>6
    <3>2. CASE x # n
      <4>1. x \in DOMAIN g.source /\ s[x] = g.source[x]
        BY <3>2, <2>5
      <4>2. x \in DOMAIN g.static /\ g.static[x] = g.source[x].answers.schema
        BY <4>1 DEF Sound, Static
      <4>3. x \in DOMAIN v /\ v[x] = g.static[x]
        BY <4>2, <1>0, <2>6, <2>7
      <4> QED BY <4>1, <4>2, <4>3
    <3> QED BY <3>1, <3>2
  <2>11. Dynamic(g.dynamic)
    BY DEF Sound
  <2> QED BY <2>3, <2>8, <2>9, <2>10, <2>11, SoundOf
<1> QED BY <1>1, <1>2

LEMMA RedefinedIs ==
  ASSUME NEW g, Sound(g), NEW n \in DOMAIN g.source, g.source[n].function, NEW schema
  PROVE Sound(Redefined(g, n, schema))
<1> DEFINE c == [function |-> TRUE, answers |-> [name |-> g.source[n].answers.name, schema |-> schema]]
           s == [g.source EXCEPT ![n] = c]
<1>1. Redefined(g, n, schema) = [g EXCEPT !.source = s]
  BY DEF Redefined
<1>2. g = Registry(g.names, g.source, g.static, g.dynamic)
  BY DEF Sound
<1>3. Redefined(g, n, schema) = Registry(g.names, s, g.static, g.dynamic)
  <2> HIDE DEF s
  <2> QED BY <1>1, <1>2, IsRegistryExcept DEF IsRegistry
<1>4. c.function = TRUE
  OBVIOUS
<1>5. DOMAIN s = DOMAIN g.source /\ s[n] = c /\ \A x \in DOMAIN g.source : x # n => s[x] = g.source[x]
  OBVIOUS
<1> HIDE DEF s, c
<1>6. Static(s, g.static)
  <2> SUFFICES ASSUME NEW x \in DOMAIN s, s[x].function = FALSE
               PROVE x \in DOMAIN g.static /\ g.static[x] = s[x].answers.schema
    BY DEF Static
  <2>1. x # n /\ s[x] = g.source[x]
    BY <1>4, <1>5
  <2> QED BY <2>1, <1>5 DEF Sound, Static
<1>7. \A x \in DOMAIN s : s[x].function \in BOOLEAN
  BY <1>4, <1>5 DEF Sound
<1>8. DOMAIN g.static \subseteq DOMAIN s /\ Dynamic(g.dynamic)
  BY <1>5 DEF Sound
<1> QED BY <1>3, <1>6, <1>7, <1>8, SoundOf

(* The tools of two registries are the same, and their definitions.        *)
SameTools(g, h) == h.source = g.source /\ h.static = g.static /\ h.names = g.names

(* The validator used is the current schema's, cached or not.              *)
LEMMA GetValidatorIs ==
  ASSUME NEW g, Sound(g), NEW n \in DOMAIN g.source
  PROVE /\ GetValidator(g, n).validator = g.source[n].answers.schema
        /\ Sound(GetValidator(g, n).registry) /\ SameTools(g, GetValidator(g, n).registry)
<1> DEFINE schema == g.source[n].answers.schema
           kept == Having(g.dynamic, schema, schema)
<1>0. IsRegistry(g) /\ g.source[n].function \in BOOLEAN /\ Dynamic(g.dynamic)
  BY DEF Sound, IsRegistry
<1>1. CASE ~g.source[n].function
  <2>1. GetValidator(g, n) = [registry |-> g, validator |-> g.static[n]]
    BY <1>1 DEF GetValidator
  <2>2. g.source[n].function = FALSE
    BY <1>0, <1>1
  <2>3. g.static[n] = schema
    BY <2>2 DEF Sound, Static
  <2>4. SameTools(g, g)
    BY DEF SameTools
  <2> QED BY <2>1, <2>3, <2>4
<1>2. CASE g.source[n].function /\ (Compiles(schema) \/ schema \in DOMAIN g.dynamic)
  <2>1. GetValidator(g, n) = [registry |-> [g EXCEPT !.dynamic = kept], validator |-> kept[schema]]
    BY <1>2 DEF GetValidator, KeptUnder
  <2>2. /\ DOMAIN kept = DOMAIN g.dynamic \union {schema}
        /\ \A x \in DOMAIN g.dynamic : kept[x] = g.dynamic[x]
        /\ schema \notin DOMAIN g.dynamic => kept[schema] = schema
    BY DEF Having
  <2> HIDE DEF schema, kept
  <2>3. Dynamic(kept)
    <3> SUFFICES ASSUME NEW x \in DOMAIN kept PROVE kept[x] = x
      BY DEF Dynamic
    <3>1. CASE x \in DOMAIN g.dynamic
      BY <3>1, <2>2, <1>0 DEF Dynamic
    <3>2. CASE x \notin DOMAIN g.dynamic
      BY <3>2, <2>2
    <3> QED BY <3>1, <3>2
  <2>4. schema \in DOMAIN kept
    BY <2>2
  <2>5. kept[schema] = schema
    BY <2>3, <2>4 DEF Dynamic
  <2> DEFINE h == Registry(g.names, g.source, g.static, kept)
  <2>6. [g EXCEPT !.dynamic = kept] = h
    BY <1>0, IsRegistryExcept
  <2>7. Sound(h)
    <3>1. DOMAIN g.static \subseteq DOMAIN g.source /\ Static(g.source, g.static)
      BY DEF Sound
    <3>2. \A x \in DOMAIN g.source : g.source[x].function \in BOOLEAN
      BY DEF Sound
    <3> QED BY <3>1, <3>2, <2>3, SoundOf
  <2>8. SameTools(g, h)
    BY RegistryFields DEF SameTools
  <2> HIDE DEF h
  <2>9. GetValidator(g, n).registry = h /\ GetValidator(g, n).validator = kept[schema]
    BY <2>1, <2>6
  <2> QED BY <2>5, <2>7, <2>8, <2>9 DEF schema
<1>3. CASE g.source[n].function /\ ~(Compiles(schema) \/ schema \in DOMAIN g.dynamic)
  <2>1. GetValidator(g, n) = [registry |-> g, validator |-> schema]
    BY <1>3 DEF GetValidator, KeptUnder
  <2>2. SameTools(g, g)
    BY DEF SameTools
  <2> QED BY <2>1, <2>2
<1> QED BY <1>0, <1>1, <1>2, <1>3

(* A call is answered as the tools define it.                              *)
Executes(g, h, c) ==
    /\ Execute(h, c).answer = AsDefined(g, c)
    /\ Sound(Execute(h, c).registry) /\ SameTools(g, Execute(h, c).registry)

(* So it is, whatever has been cached.                                     *)
LEMMA ExecuteIs ==
  ASSUME NEW g, NEW h, Sound(h), SameTools(g, h), NEW c
  PROVE Executes(g, h, c)
<1>1. CASE ~Has(h, c.name)
  <2>1. Execute(h, c) = [registry |-> h, answer |-> "missing"]
    BY <1>1 DEF Execute
  <2>2. AsDefined(g, c) = "missing"
    BY <1>1 DEF AsDefined, Has, SameTools
  <2> QED BY <2>1, <2>2 DEF Executes
<1>2. CASE Has(h, c.name)
  <2> DEFINE v == GetValidator(h, c.name)
  <2>1. Execute(h, c) = [registry |-> v.registry, answer |-> Verdict(v.validator, c.input)]
    BY <1>2 DEF Execute
  <2>2. c.name \in DOMAIN h.source
    BY <1>2 DEF Has
  <2>3. v.validator = h.source[c.name].answers.schema /\ Sound(v.registry) /\ SameTools(h, v.registry)
    BY <2>2, GetValidatorIs
  <2>4. AsDefined(g, c) = Verdict(h.source[c.name].answers.schema, c.input)
    BY <1>2 DEF AsDefined, Has, SameTools
  <2> HIDE DEF v
  <2>5. SameTools(g, v.registry)
    BY <2>3 DEF SameTools
  <2>6. Execute(h, c).registry = v.registry /\ Execute(h, c).answer = Verdict(v.validator, c.input)
    BY <2>1
  <2> QED BY <2>3, <2>4, <2>5, <2>6 DEF Executes
<1> QED BY <1>1, <1>2

(* Functions from some of S to T.                                          *)
Maps(S, T) == UNION {[D -> T] : D \in SUBSET S}

(* ... and one key more.                                                   *)
LEMMA MapsIff ==
  ASSUME NEW S, NEW T, NEW f
  PROVE f \in Maps(S, T) <=> DOMAIN f \subseteq S /\ f \in [DOMAIN f -> T]
BY DEF Maps

LEMMA HavingType ==
  ASSUME NEW S, NEW T, NEW f \in Maps(S, T), NEW k \in S, NEW v \in T
  PROVE Having(f, k, v) \in Maps(S, T)
<1> DEFINE D == DOMAIN f \union {k}
           h == Having(f, k, v)
<1>1. DOMAIN f \subseteq S /\ f \in [DOMAIN f -> T]
  BY MapsIff
<1>2. D \subseteq S
  BY <1>1
<1>3. h \in [D -> T]
  BY <1>1 DEF Having
<1> HIDE DEF h
<1>4. DOMAIN h = D
  BY <1>3
<1>5. h \in Maps(S, T)
  BY <1>2, <1>3, <1>4, MapsIff
<1> QED BY <1>5 DEF h

(* What has been compiled for the tools that are functions.                *)
Kept == {[k \in K |-> k] : K \in SUBSET STRING}

(* ... are right, and with one more still are.                             *)
LEMMA KeptFacts ==
  /\ \A d \in Kept : Dynamic(d) /\ DOMAIN d \subseteq STRING
  /\ \A d \in Kept, x \in STRING : Having(d, x, x) \in Kept
<1>1. ASSUME NEW d \in Kept PROVE Dynamic(d) /\ DOMAIN d \subseteq STRING
  BY DEF Kept, Dynamic
<1>2. ASSUME NEW d \in Kept, NEW x \in STRING PROVE Having(d, x, x) \in Kept
  <2>1. PICK K \in SUBSET STRING : d = [k \in K |-> k]
    BY DEF Kept
  <2> DEFINE L == K \union {x}
  <2>2. Having(d, x, x) = [k \in L |-> k]
    BY <2>1 DEF Having
  <2>3. L \in SUBSET STRING
    OBVIOUS
  <2> QED BY <2>2, <2>3 DEF Kept
<1> QED BY <1>1, <1>2

(* What a registry is.                                                     *)
RegistryType == [names : Seq(Name), source : Maps(Name, Source), static : Maps(Name, STRING), dynamic : Kept]

Registries == {g \in RegistryType : Sound(g)}

(* ... piece by piece.                                                     *)
LEMMA RegistryTypeOf ==
  /\ \A g \in RegistryType : /\ g.names \in Seq(Name) /\ g.source \in Maps(Name, Source)
                             /\ g.static \in Maps(Name, STRING) /\ g.dynamic \in Kept
                             /\ IsRegistry(g)
  /\ \A n \in Seq(Name), s \in Maps(Name, Source), v \in Maps(Name, STRING), d \in Kept :
        Registry(n, s, v, d) \in RegistryType
<1> HIDE DEF Name, Source, Kept, Maps
<1> QED BY DEF RegistryType, IsRegistry, Registry

(* A source's fields have their types.                                     *)
LEMMA SourceType ==
  ASSUME NEW c \in Source
  PROVE c.answers.name \in Name /\ c.answers.schema \in STRING /\ c.function \in BOOLEAN
<1> HIDE DEF Name
<1> QED BY DEF Source

(* Every operation keeps a registry one.                                   *)
LEMMA NewRegistryType == NewRegistry \in Registries
<1>1. NewRegistry = Registry(<<>>, <<>>, <<>>, <<>>)
  BY DEF NewRegistry, Registry
<1>2. DOMAIN <<>> = {} /\ <<>> \in Seq(Name)
  <2> HIDE DEF Name
  <2> QED OBVIOUS
<1>3. \A S, T : <<>> \in Maps(S, T)
  BY SMTT(30), <1>2 DEF Maps
<1>4. <<>> \in Kept
  <2>1. <<>> = [k \in {} |-> k]
    OBVIOUS
  <2> QED BY <2>1 DEF Kept
<1>5. NewRegistry \in RegistryType
  BY <1>1, <1>2, <1>3, <1>4, RegistryTypeOf
<1> QED BY <1>5, NewRegistrySound DEF Registries

LEMMA RegisterType ==
  ASSUME NEW g \in Registries, NEW c \in Source
  PROVE Register(g, c) \in Registries
<1> DEFINE n == c.answers.name
           schema == c.answers.schema
           taken == Has(g, n) \/ ~(c.function \/ Compiles(schema))
<1>0. g \in RegistryType /\ Sound(g)
  BY DEF Registries
<1>1. n \in Name /\ schema \in STRING
  BY SourceType
<1>2. /\ g.names \in Seq(Name) /\ g.source \in Maps(Name, Source)
      /\ g.static \in Maps(Name, STRING) /\ g.dynamic \in Kept /\ IsRegistry(g)
  BY <1>0, RegistryTypeOf
<1>3. CASE taken
  BY <1>3 DEF Register
<1>4. CASE ~taken
  <2> DEFINE s == Having(g.source, n, c)
             v == IF c.function THEN g.static ELSE Having(g.static, n, schema)
             a == Append(g.names, n)
  <2>1. Register(g, c) = [g EXCEPT !.names = a, !.source = s, !.static = v]
    BY <1>4 DEF Register
  <2>2. s \in Maps(Name, Source)
    BY <1>1, <1>2, HavingType
  <2>3. v \in Maps(Name, STRING)
    BY <1>1, <1>2, HavingType
  <2>4. a \in Seq(Name)
    <3> HIDE DEF Name, n
    <3> QED BY <1>1, <1>2
  <2> HIDE DEF s, v, a
  <2>5. [g EXCEPT !.names = a, !.source = s, !.static = v] = Registry(a, s, v, g.dynamic)
    <3>1. [g EXCEPT !.names = a, !.source = s, !.static = v]
              = [x \in DOMAIN g |-> IF x = "static" THEN v ELSE IF x = "source" THEN s ELSE IF x = "names" THEN a ELSE g[x]]
      BY <1>2 DEF IsRegistry, Registry
    <3>2. DOMAIN g = {"names", "source", "static", "dynamic"}
      BY <1>2 DEF IsRegistry, Registry
    <3> QED BY <3>1, <3>2 DEF Registry
  <2>6. Register(g, c) \in RegistryType
    BY <1>2, <2>1, <2>2, <2>3, <2>4, <2>5, RegistryTypeOf
  <2> QED BY <1>0, <2>6, RegisterIs DEF Registries
<1> QED BY <1>3, <1>4

LEMMA RedefinedType ==
  ASSUME NEW g \in Registries, NEW n \in DOMAIN g.source, g.source[n].function, NEW schema \in STRING
  PROVE Redefined(g, n, schema) \in Registries
<1> DEFINE k == g.source[n].answers.name
           c == [function |-> TRUE, answers |-> [name |-> k, schema |-> schema]]
           s == [g.source EXCEPT ![n] = c]
<1>0. g \in RegistryType /\ Sound(g)
  BY DEF Registries
<1>1. /\ g.names \in Seq(Name) /\ g.source \in Maps(Name, Source)
      /\ g.static \in Maps(Name, STRING) /\ g.dynamic \in Kept /\ IsRegistry(g)
  BY <1>0, RegistryTypeOf
<1>2. DOMAIN g.source \subseteq Name /\ g.source \in [DOMAIN g.source -> Source]
  BY <1>1, MapsIff
<1>3. k \in Name
  <2>1. g.source[n] \in Source
    BY <1>2
  <2> QED BY <2>1, SourceType
<1>4. Redefined(g, n, schema) = [g EXCEPT !.source = s]
  BY DEF Redefined
<1>5. c \in Source
  <2> HIDE DEF Name, k
  <2> QED BY <1>3 DEF Source
<1> HIDE DEF c
<1>6. s \in [DOMAIN g.source -> Source] /\ DOMAIN s = DOMAIN g.source
  BY <1>2, <1>5
<1> HIDE DEF s
<1>7. s \in Maps(Name, Source)
  BY <1>2, <1>6, MapsIff
<1>8. Redefined(g, n, schema) \in RegistryType
  <2>1. [g EXCEPT !.source = s] = Registry(g.names, s, g.static, g.dynamic)
    BY <1>1, IsRegistryExcept
  <2>2. Registry(g.names, s, g.static, g.dynamic) \in RegistryType
    BY <1>1, <1>7, RegistryTypeOf
  <2> QED BY <1>4, <2>1, <2>2
<1> QED BY <1>0, <1>8, RedefinedIs DEF Registries

LEMMA ExecuteType ==
  ASSUME NEW g \in Registries, NEW c \in Call
  PROVE Execute(g, c).registry \in Registries
<1> DEFINE n == c.name
           v == GetValidator(g, n)
           schema == g.source[n].answers.schema
           kept == Having(g.dynamic, schema, schema)
<1>0. g \in RegistryType /\ Sound(g)
  BY DEF Registries
<1>1. /\ g.names \in Seq(Name) /\ g.source \in Maps(Name, Source)
      /\ g.static \in Maps(Name, STRING) /\ g.dynamic \in Kept /\ IsRegistry(g)
  BY <1>0, RegistryTypeOf
<1>2. CASE ~Has(g, n)
  BY <1>2 DEF Execute
<1>3. CASE Has(g, n)
  <2>1. n \in DOMAIN g.source
    BY <1>3 DEF Has
  <2>2. schema \in STRING
    <3>1. g.source[n] \in Source
      BY <1>1, <2>1, MapsIff
    <3> QED BY <3>1, SourceType
  <2>3. kept \in Kept
    BY <1>1, <2>2, KeptFacts
  <2>4. Execute(g, c).registry = v.registry
    BY <1>3 DEF Execute
  <2>5. v.registry = g \/ v.registry = [g EXCEPT !.dynamic = kept]
    BY DEF GetValidator, KeptUnder
  <2> HIDE DEF kept
  <2>6. [g EXCEPT !.dynamic = kept] \in RegistryType
    <3>1. [g EXCEPT !.dynamic = kept] = Registry(g.names, g.source, g.static, kept)
      BY <1>1, IsRegistryExcept
    <3>2. Registry(g.names, g.source, g.static, kept) \in RegistryType
      BY <1>1, <2>3, RegistryTypeOf
    <3> QED BY <3>1, <3>2
  <2>7. Sound(v.registry)
    BY <1>0, <2>1, GetValidatorIs
  <2> HIDE DEF v
  <2> QED BY <1>0, <2>4, <2>5, <2>6, <2>7 DEF Registries
<1> QED BY <1>2, <1>3

(* So does registering several.                                            *)
LEMMA RegisteredFold ==
  /\ Registered[<<>>] = NewRegistry
  /\ \A s \in Seq(Source) : Registered[s] \in Registries
<1> DEFINE step == [p \in Registries \X Source |-> Register(p[1], p[2])]
<1> HIDE DEF Registries, Source
<1>1. step \in [Registries \X Source -> Registries]
  <2>1. \A p \in Registries \X Source : Register(p[1], p[2]) \in Registries
    BY RegisterType
  <2> QED BY <2>1
<1>2. \A r \in Registries, c \in Source : step[<<r, c>>] = Register(r, c)
  OBVIOUS
<1>3. NewRegistry \in Registries
  BY NewRegistryType
<1> HIDE DEF step
<1>4. Foldable(Source, Registries, NewRegistry, step)
  BY <1>1, <1>3, SequenceRecursion
<1>5. PICK f \in [Seq(Source) -> Registries] : \A s \in Seq(Source) :
          f[s] = IF s = <<>> THEN NewRegistry ELSE step[<<f[Front(s)], Last(s)>>]
  BY <1>4 DEF Foldable
<1> DEFINE body(g, s) == IF s = <<>> THEN NewRegistry ELSE Register(g[Front(s)], Last(s))
<1>6. \A s \in Seq(Source) : f[s] = body(f, s)
  <2> SUFFICES ASSUME NEW s \in Seq(Source), s # <<>> PROVE f[s] = Register(f[Front(s)], Last(s))
    BY <1>5
  <2>1. Front(s) \in Seq(Source) /\ Last(s) \in Source
    BY FrontAndLast
  <2>2. f[Front(s)] \in Registries
    BY <2>1
  <2> QED BY <1>2, <1>5, <2>1, <2>2
<1>7. f = [s \in Seq(Source) |-> body(f, s)]
  BY <1>6
<1>8. Registered = CHOOSE g : g = [s \in Seq(Source) |-> body(g, s)]
  BY Zenon DEF Registered
<1>9. Registered = [s \in Seq(Source) |-> body(Registered, s)]
  BY <1>7, <1>8
<1>10. \A s \in Seq(Source) : Registered[s] = body(Registered, s)
  BY <1>9
<1>11. Registered[<<>>] = NewRegistry
  <2>1. <<>> \in Seq(Source)
    OBVIOUS
  <2> QED BY <1>10, <2>1
<1>12. \A s \in Seq(Source) : s # <<>> /\ Registered[Front(s)] \in Registries
           => Registered[s] = step[<<Registered[Front(s)], Last(s)>>]
  BY <1>2, <1>10, FrontAndLast
<1>13. Folds(Source, Registries, NewRegistry, step, Registered)
  BY <1>1, <1>3, <1>11, <1>12, FoldOf
<1> QED BY <1>11, <1>13 DEF Folds

(* What may come of a call, and of a round's.                              *)
Answers == {"missing", "throws", "runs", "invalid"}
Runs == [registry : Registries, answers : Seq(Answers)]

(* One call more.                                                          *)
RunOn(r, c) == [registry |-> Execute(r.registry, c).registry,
                answers |-> Append(r.answers, Execute(r.registry, c).answer)]

(* ... has its type.                                                       *)
LEMMA RunsOf ==
  /\ \A r \in Runs : r.registry \in Registries /\ r.answers \in Seq(Answers)
  /\ \A g \in Registries, a \in Seq(Answers) : [registry |-> g, answers |-> a] \in Runs
<1> HIDE DEF Registries, Answers
<1> QED BY DEF Runs

LEMMA AnswerType ==
  \A g, c : Execute(g, c).answer \in Answers
BY DEF Execute, Verdict, Answers

LEMMA RunOnType ==
  ASSUME NEW r \in Runs, NEW c \in Call
  PROVE RunOn(r, c) \in Runs
<1>1. r.registry \in Registries /\ r.answers \in Seq(Answers)
  BY RunsOf
<1>2. Execute(r.registry, c).registry \in Registries
  BY <1>1, ExecuteType
<1>3. Execute(r.registry, c).answer \in Answers
  BY AnswerType
<1>4. Append(r.answers, Execute(r.registry, c).answer) \in Seq(Answers)
  <2> HIDE DEF Answers
  <2> QED BY <1>1, <1>3
<1> QED BY <1>2, <1>4, RunsOf DEF RunOn

(* ExecuteAll is a fold over the calls.                                    *)
LEMMA ExecuteAllFold ==
  ASSUME NEW g \in Registries
  PROVE /\ ExecuteAll(g, <<>>) = [registry |-> g, answers |-> <<>>]
        /\ \A s \in Seq(Call) : ExecuteAll(g, s) \in Runs
        /\ \A s \in Seq(Call), c \in Call : ExecuteAll(g, Append(s, c)) = RunOn(ExecuteAll(g, s), c)
<1> DEFINE step == [p \in Runs \X Call |-> RunOn(p[1], p[2])]
           first == [registry |-> g, answers |-> <<>>]
           done[given \in Seq(Call)] ==
             IF given = <<>> THEN [registry |-> g, answers |-> <<>>]
             ELSE LET before == done[Front(given)]
                      one == Execute(before.registry, Last(given))
                  IN  [registry |-> one.registry, answers |-> Append(before.answers, one.answer)]
<1>1. \A s : ExecuteAll(g, s) = done[s]
  BY Zenon DEF ExecuteAll
<1> HIDE DEF Registries, Runs, Call
<1>2. step \in [Runs \X Call -> Runs]
  <2>1. \A p \in Runs \X Call : RunOn(p[1], p[2]) \in Runs
    BY RunOnType
  <2> QED BY <2>1
<1>3. \A r \in Runs, c \in Call : step[<<r, c>>] = RunOn(r, c)
  OBVIOUS
<1>0. first \in Runs
  <2>1. <<>> \in Seq(Answers)
    OBVIOUS
  <2> QED BY <2>1, RunsOf
<1> HIDE DEF step
<1>4. Foldable(Call, Runs, first, step)
  BY <1>0, <1>2, SequenceRecursion
<1>5. PICK f \in [Seq(Call) -> Runs] : \A s \in Seq(Call) :
          f[s] = IF s = <<>> THEN first ELSE step[<<f[Front(s)], Last(s)>>]
  BY <1>4 DEF Foldable
<1> DEFINE body(h, s) == IF s = <<>> THEN first ELSE RunOn(h[Front(s)], Last(s))
<1>6. \A s \in Seq(Call) : f[s] = body(f, s)
  <2> SUFFICES ASSUME NEW s \in Seq(Call), s # <<>> PROVE f[s] = RunOn(f[Front(s)], Last(s))
    BY <1>5
  <2>1. Front(s) \in Seq(Call) /\ Last(s) \in Call
    BY FrontAndLast
  <2>2. f[Front(s)] \in Runs
    BY <2>1
  <2> QED BY <1>3, <1>5, <2>1, <2>2
<1>7. f = [s \in Seq(Call) |-> body(f, s)]
  BY <1>6
<1>8. done = CHOOSE h : h = [s \in Seq(Call) |-> body(h, s)]
  BY Zenon DEF RunOn
<1> HIDE DEF done
<1>9. done = [s \in Seq(Call) |-> body(done, s)]
  BY <1>7, <1>8
<1>10. \A s \in Seq(Call) : done[s] = body(done, s)
  BY <1>9
<1>11. done[<<>>] = first
  <2>1. <<>> \in Seq(Call)
    OBVIOUS
  <2> QED BY <1>10, <2>1
<1>12. \A s \in Seq(Call) : s # <<>> /\ done[Front(s)] \in Runs => done[s] = step[<<done[Front(s)], Last(s)>>]
  BY <1>3, <1>10, FrontAndLast
<1>13. Folds(Call, Runs, first, step, done)
  <2> HIDE DEF first
  <2> QED BY <1>0, <1>2, <1>11, <1>12, FoldOf
<1>14. /\ done[<<>>] = first
       /\ \A s \in Seq(Call) : done[s] \in Runs
       /\ \A s \in Seq(Call), c \in Call : done[Append(s, c)] = step[<<done[s], c>>]
  BY <1>13 DEF Folds
<1>15. \A s \in Seq(Call), c \in Call : done[Append(s, c)] = RunOn(done[s], c)
  BY <1>3, <1>14
<1> QED BY <1>1, <1>14, <1>15

(* What every call is told: what its tool is defined as.                   *)
Told(g, calls) ==
    /\ ExecuteAll(g, calls).registry \in Registries
    /\ SameTools(g, ExecuteAll(g, calls).registry)
    /\ ExecuteAll(g, calls).answers = [i \in DOMAIN calls |-> AsDefined(g, calls[i])]

(* Induction over the calls.                                               *)
LEMMA CallsInduction ==
  ASSUME NEW T, <<>> \in T, \A s \in Seq(Call), c \in Call : s \in T => Append(s, c) \in T
  PROVE Seq(Call) \subseteq T
BY SequenceInduction

(* So it is with all calls of a round.                                     *)
LEMMA ExecuteAllTells ==
  ASSUME NEW g \in Registries, NEW calls \in Seq(Call)
  PROVE Told(g, calls)
<1> DEFINE T == {s \in Seq(Call) : Told(g, s)}
           F == [c \in Call |-> AsDefined(g, c)]
           B == {AsDefined(g, c) : c \in Call}
<1> HIDE DEF Call
<1>0. \A s \in Seq(Call) : [i \in DOMAIN s |-> AsDefined(g, s[i])] = Mapped(F, s)
  BY DEF Mapped
<1>1. F \in [Call -> B] /\ \A c \in Call : F[c] = AsDefined(g, c)
  OBVIOUS
<1> HIDE DEF F, B
<1>2. <<>> \in T
  <2>1. <<>> \in Seq(Call) /\ ExecuteAll(g, <<>>) = [registry |-> g, answers |-> <<>>]
    BY ExecuteAllFold
  <2>2. Mapped(F, <<>>) = <<>>
    BY MappedEmpty
  <2>3. [i \in DOMAIN <<>> |-> AsDefined(g, <<>>[i])] = <<>>
    BY <1>0, <2>1, <2>2
  <2> QED BY <2>1, <2>3 DEF Told, SameTools
<1>3. ASSUME NEW s \in Seq(Call), NEW c \in Call, Told(g, s) PROVE Told(g, Append(s, c))
  <2> DEFINE r == ExecuteAll(g, s)
             h == r.registry
  <2>1. r \in Runs /\ ExecuteAll(g, Append(s, c)) = RunOn(r, c)
    BY ExecuteAllFold
  <2>2. h \in Registries /\ SameTools(g, h) /\ r.answers = [i \in DOMAIN s |-> AsDefined(g, s[i])]
    BY <1>3 DEF Told
  <2> HIDE DEF r
  <2>3. Executes(g, h, c)
    BY <2>2, ExecuteIs DEF Registries
  <2>4. Execute(h, c).registry \in Registries
    BY <2>2, ExecuteType
  <2> DEFINE q == Append(s, c)
  <2>5. q \in Seq(Call)
    OBVIOUS
  <2>6. Mapped(F, q) = Append(Mapped(F, s), AsDefined(g, c))
    BY ZenonT(60), <1>1, MappedAppend
  <2> HIDE DEF q
  <2>7. RunOn(r, c).answers = Append(r.answers, AsDefined(g, c)) /\ RunOn(r, c).registry = Execute(h, c).registry
    BY <2>3 DEF RunOn, Executes
  <2>8. r.answers = Mapped(F, s)
    BY <1>0, <2>2
  <2>9. ExecuteAll(g, q).answers = [i \in DOMAIN q |-> AsDefined(g, q[i])]
    BY <1>0, <2>1, <2>5, <2>6, <2>7, <2>8 DEF q
  <2>10. ExecuteAll(g, q).registry = Execute(h, c).registry
    BY <2>1, <2>7 DEF q
  <2>11. Told(g, q)
    BY <2>3, <2>4, <2>9, <2>10 DEF Told, Executes
  <2> QED BY <2>11 DEF q
<1>4. \A s \in Seq(Call), c \in Call : s \in T => Append(s, c) \in T
  <2>1. \A s \in Seq(Call), c \in Call : Append(s, c) \in Seq(Call)
    OBVIOUS
  <2> QED BY <1>3, <2>1
<1> HIDE DEF T
<1>5. Seq(Call) \subseteq T
  BY <1>2, <1>4, CallsInduction
<1> QED BY <1>5 DEF T

-----------------------------------------------------------------------------
(* Types along a step: what an adapter makes of an event, and what a       *)
(* vendor may send.                                                        *)

(* The vendors whose adapters are modelled.                                *)
Vendors == {"bedrock", "vertex", "mock"}

(* What kind of events a vendor sends.                                     *)
Suits(v, e) ==
    /\ v = "bedrock" => e.kind \in BedrockKinds
    /\ v = "vertex" => e.kind = "response"
    /\ v = "mock" => e.kind \in {"turn", "exhausted"}

(* The step's results have their types.                                    *)
StepTyped(step) == step.adapter \in Adapters /\ step.chunks \in Chunks

(* ... each vendor's, event by event.                                      *)
LEMMA StepTypedIs ==
  ASSUME NEW step, NEW b \in Adapters, NEW c \in Chunks, StepIs(step, b, c)
  PROVE StepTyped(step)
BY DEF StepIs, StepTyped

LEMMA BedrockEventType ==
  ASSUME NEW a \in Adapters, NEW e \in Event, e.kind \in BedrockKinds
  PROVE StepTyped(BedrockEvent(a, e))
<1> DEFINE s == BedrockEvent(a, e)
<1> HIDE DEF s
<1>1. /\ a.call \in Name /\ a.input \in Seq(Pieces) /\ a.stop \in Stopped /\ a.usage \in Nat
      /\ a.endOfTurn \in StopReason /\ a.over \in BOOLEAN
  BY AdapterParts
<1>2. <<>> \in Chunks /\ <<>> \in Seq(Pieces)
  <2>1. <<>> \in Seq(Pieces)
    OBVIOUS
  <2> QED BY <2>1, ChunkFacts
<1>3. CASE e.kind = "text"
  <2>1. TextChunk(e.text) \in Chunks
    BY <1>3, EventParts, TextChunkIs
  <2>2. StepIs(s, a, TextChunk(e.text))
    BY <1>3, BedrockEventIs DEF s
  <2> QED BY <2>1, <2>2, StepTypedIs DEF s
<1>4. CASE e.kind = "toolStart"
  <2> DEFINE b == Adapter(e.id, <<>>, a.stop, a.usage, a.endOfTurn, a.over)
  <2>1. b \in Adapters
    BY <1>1, <1>2, <1>4, EventParts, AdapterType
  <2>2. StepIs(s, b, <<>>)
    BY <1>4, BedrockEventIs DEF s
  <2> HIDE DEF b
  <2> QED BY <1>2, <2>1, <2>2, StepTypedIs DEF s
<1>5. CASE e.kind = "toolInput"
  <2> DEFINE i == Append(a.input, e.piece)
             b == Adapter(a.call, i, a.stop, a.usage, a.endOfTurn, a.over)
  <2>1. i \in Seq(Pieces)
    <3>1. e.piece \in Pieces
      BY <1>5, EventParts
    <3> HIDE DEF Pieces
    <3> QED BY <1>1, <3>1
  <2>2. StepIs(s, b, <<>>)
    BY <1>5, BedrockEventIs DEF s
  <2> HIDE DEF i
  <2>3. b \in Adapters
    BY <1>1, <2>1, AdapterType
  <2> HIDE DEF b
  <2> QED BY <1>2, <2>2, <2>3, StepTypedIs DEF s
<1>6. CASE e.kind = "messageStop"
  <2> DEFINE b == Adapter(a.call, a.input, e.reason, a.usage, a.endOfTurn, a.over)
  <2>1. e.reason \in Stopped
    BY <1>6, EventParts DEF Stopped
  <2>2. b \in Adapters
    BY <1>1, <2>1, AdapterType
  <2>3. StepIs(s, b, <<>>)
    BY <1>6, BedrockEventIs DEF s
  <2> HIDE DEF b
  <2> QED BY <1>2, <2>2, <2>3, StepTypedIs DEF s
<1>7. CASE e.kind = "metadata"
  <2> DEFINE u == Newer(e.usage, a.usage)
             b == Adapter(a.call, a.input, a.stop, u, a.endOfTurn, a.over)
  <2>1. u \in Nat
    BY <1>1, <1>7, EventParts, NewerType
  <2>2. StepIs(s, b, <<>>)
    BY <1>7, BedrockEventIs DEF s
  <2> HIDE DEF u
  <2>3. b \in Adapters
    BY <1>1, <2>1, AdapterType
  <2> HIDE DEF b
  <2> QED BY <1>2, <2>2, <2>3, StepTypedIs DEF s
<1>8. CASE e.kind = "blockStop"
  <2>1. s = HandleBlockStop(a)
    BY <1>8, BedrockEventIs DEF s
  <2>2. CASE a.call = NoCall
    BY <1>2, <2>1, <2>2, BlockStopIs, StepTypedIs DEF s
  <2>3. CASE a.call # NoCall /\ HandleBlockStop(a).error = ""
    <3> DEFINE b == Adapter(NoCall, <<>>, a.stop, a.usage, a.endOfTurn, a.over)
               c == <<ToolChunk(WholeCall(a))>>
    <3>1. StepIs(s, b, c) /\ WholeCall(a) \in Call
      BY <2>1, <2>3, BlockStopIs
    <3>2. NoCall \in Name
      BY NamedType DEF NoCall
    <3>3. b \in Adapters
      BY <1>1, <1>2, <3>2, AdapterType
    <3>4. c \in Chunks
      BY <3>1, ChunkFacts
    <3> HIDE DEF b, c
    <3> QED BY <3>1, <3>3, <3>4, StepTypedIs DEF s
  <2>4. CASE HandleBlockStop(a).error # ""
    <3>1. HandleBlockStop(a).adapter = a /\ HandleBlockStop(a).chunks = <<>>
      BY <2>4 DEF HandleBlockStop, Yields, Throws
    <3> QED BY <1>2, <2>1, <3>1 DEF StepTyped, s
  <2> QED BY <2>2, <2>3, <2>4
<1> QED BY <1>3, <1>4, <1>5, <1>6, <1>7, <1>8 DEF BedrockKinds

(* The stop behind some chunks.                                            *)
LEMMA ChunksWithStop ==
  ASSUME NEW c \in Chunks, NEW r \in StopReason, NEW u \in Nat
  PROVE Append(c, StopChunk(r, u)) \in Chunks /\ <<StopChunk(r, u)>> \in Chunks
        /\ c \o <<StopChunk(r, u)>> \in Chunks /\ Append(c, StopChunk(r, u)) = c \o <<StopChunk(r, u)>>
BY ChunkFacts

LEMMA EndOfTurnType ==
  ASSUME NEW a \in Adapters, NEW e
  PROVE EndOfTurn(a, e) \in StopReason
<1>1. a.endOfTurn \in StopReason /\ "tool_use" \in StopReason
  BY AdapterParts DEF StopReason
<1> QED BY <1>1 DEF EndOfTurn

LEMMA VertexEventType ==
  ASSUME NEW a \in Adapters, NEW e \in Event, e.kind = "response"
  PROVE StepTyped(VertexEvent(a, e))
<1> DEFINE s == VertexEvent(a, e)
           t == EndOfTurn(a, e)
           u == NewerCount(a, e)
           c == YieldedOf(e.parts)
<1>1. /\ a.call \in Name /\ a.input \in Seq(Pieces) /\ a.stop \in Stopped /\ a.usage \in Nat
      /\ a.endOfTurn \in StopReason /\ a.over \in BOOLEAN
  BY AdapterParts
<1>2. e.parts \in Seq(Part) /\ e.usage \in Nat /\ e.finish \in {"", "STOP", "MAX_TOKENS", "SAFETY"}
  BY EventParts
<1>3. c \in Chunks
  BY <1>2, PartsFold
<1>4. t \in StopReason
  BY EndOfTurnType
<1>5. u \in Nat
  BY <1>1, <1>2, NewerType DEF NewerCount
<1>6. /\ e.finish = "" => StepIs(s, Adapter(a.call, a.input, a.stop, u, t, a.over), c)
      /\ e.finish # "" =>
              StepIs(s, Adapter(a.call, a.input, a.stop, u, t, TRUE), Append(c, StopChunk(StopReasonOf(e.finish, t), u)))
  BY VertexEventIs
<1> HIDE DEF s, t, u, c
<1>7. \A o \in BOOLEAN : Adapter(a.call, a.input, a.stop, u, t, o) \in Adapters
  BY <1>1, <1>4, <1>5, AdapterType
<1>8. CASE e.finish = ""
  BY <1>1, <1>3, <1>6, <1>7, <1>8, StepTypedIs DEF s
<1>9. CASE e.finish # ""
  <2> DEFINE r == StopReasonOf(e.finish, t)
             d == Append(c, StopChunk(r, u))
             b == Adapter(a.call, a.input, a.stop, u, t, TRUE)
  <2>1. r \in StopReason
    BY <1>2, <1>4, <1>9, StopReasonType
  <2>2. StepIs(s, b, d)
    BY <1>6, <1>9
  <2> HIDE DEF r
  <2>3. d \in Chunks
    BY <1>3, <1>5, <2>1, ChunksWithStop
  <2>4. b \in Adapters
    BY <1>7
  <2> HIDE DEF b, d
  <2> QED BY <2>2, <2>3, <2>4, StepTypedIs DEF s
<1> QED BY <1>8, <1>9

(* The count of a script, or the fixed one.                                *)
MockUsage(e) == Newer(e.usage, FixedUsage)

(* What a script yields.                                                   *)
LEMMA ScriptIs ==
  ASSUME NEW e \in Event, e.kind = "turn"
  PROVE /\ ScriptedChunks(e) = (WordChunks(e.words) \o CallChunks(e.calls)) \o <<StopChunk(MockStop(e.calls), MockUsage(e))>>
        /\ WordChunks(e.words) \in Chunks /\ CallChunks(e.calls) \in Chunks
        /\ e.words \in Seq(Text) /\ e.calls \in Seq(Call)
        /\ WordChunks(e.words) \o CallChunks(e.calls) \in Chunks
        /\ MockStop(e.calls) \in StopReason /\ MockUsage(e) \in Nat
<1> DEFINE stop == StopChunk(MockStop(e.calls), MockUsage(e))
           words == WordChunks(e.words)
           calls == CallChunks(e.calls)
<1>1. e.words \in Seq(Text) /\ e.calls \in Seq(Call) /\ e.usage \in Nat
  BY EventParts
<1>2. words \in Chunks /\ calls \in Chunks
  BY <1>1, WordsFold, CallsFold
<1>3. MockStop(e.calls) \in StopReason /\ MockUsage(e) \in Nat
  BY <1>1, NewerType DEF MockStop, StopReason, MockUsage, FixedUsage
<1>4. ScriptedChunks(e) = (words \o calls) \o <<stop>>
  BY <1>1, LinesOf DEF ScriptedChunks, MockUsage
<1>5. words \o calls \in Chunks
  BY <1>2, ChunkFacts
<1> QED BY <1>1, <1>2, <1>3, <1>4, <1>5

(* What the mock does with a script, and when it has none left.            *)
LEMMA MockEventIs ==
  ASSUME NEW a \in Adapters, NEW e \in Event, e.kind \in {"turn", "exhausted"}
  PROVE /\ e.kind = "turn" =>
              StepIs(MockEvent(a, e), Adapter(a.call, a.input, a.stop, a.usage, a.endOfTurn, TRUE), ScriptedChunks(e))
        /\ e.kind = "exhausted" => /\ MockEvent(a, e).error = "UNKNOWN" /\ MockEvent(a, e).adapter = a
                                   /\ MockEvent(a, e).chunks = <<>>
<1>1. ASSUME e.kind = "turn"
      PROVE StepIs(MockEvent(a, e), Adapter(a.call, a.input, a.stop, a.usage, a.endOfTurn, TRUE), ScriptedChunks(e))
  <2>1. MockEvent(a, e) = Yields([a EXCEPT !.over = TRUE], ScriptedChunks(e))
    BY <1>1 DEF MockEvent
  <2>2. [a EXCEPT !.over = TRUE] = Adapter(a.call, a.input, a.stop, a.usage, a.endOfTurn, TRUE)
    BY AdapterOneExcept
  <2> DEFINE b == Adapter(a.call, a.input, a.stop, a.usage, a.endOfTurn, TRUE)
             c == ScriptedChunks(e)
  <2>3. MockEvent(a, e) = Yields(b, c)
    BY <2>1, <2>2
  <2> HIDE DEF b, c
  <2>4. StepIs(MockEvent(a, e), b, c)
    BY <2>3, YieldsIs
  <2> QED BY <2>4 DEF b, c
<1>2. e.kind = "exhausted" => /\ MockEvent(a, e).error = "UNKNOWN" /\ MockEvent(a, e).adapter = a
                              /\ MockEvent(a, e).chunks = <<>>
  BY DEF MockEvent, Throws
<1> QED BY <1>1, <1>2

LEMMA MockEventType ==
  ASSUME NEW a \in Adapters, NEW e \in Event, e.kind \in {"turn", "exhausted"}
  PROVE StepTyped(MockEvent(a, e))
<1>1. CASE e.kind = "turn"
  <2> DEFINE b == Adapter(a.call, a.input, a.stop, a.usage, a.endOfTurn, TRUE)
             c == ScriptedChunks(e)
  <2>1. StepIs(MockEvent(a, e), b, c)
    BY <1>1, MockEventIs
  <2>2. b \in Adapters
    BY AdapterParts, AdapterType
  <2>3. c \in Chunks
    <3> DEFINE d == WordChunks(e.words) \o CallChunks(e.calls)
               r == MockStop(e.calls)
               u == MockUsage(e)
    <3>1. c = d \o <<StopChunk(r, u)>> /\ d \in Chunks /\ r \in StopReason /\ u \in Nat
      BY <1>1, ScriptIs
    <3> HIDE DEF c, d, r, u
    <3> QED BY <3>1, ChunksWithStop
  <2> HIDE DEF b, c
  <2> QED BY <2>1, <2>2, <2>3, StepTypedIs
<1>2. CASE e.kind = "exhausted"
  BY <1>2, MockEventIs, ChunkFacts DEF StepTyped
<1> QED BY <1>1, <1>2

(* Every vendor's step has its type.                                       *)
LEMMA AdapterEventType ==
  ASSUME NEW v \in Vendors, NEW a \in Adapters, NEW e \in Event, Suits(v, e)
  PROVE StepTyped(AdapterEvent(v, a, e))
<1>1. CASE v = "bedrock"
  BY <1>1, BedrockEventType DEF AdapterEvent, Suits
<1>2. CASE v = "vertex"
  BY <1>2, VertexEventType DEF AdapterEvent, Suits
<1>3. CASE v = "mock"
  BY <1>3, MockEventType DEF AdapterEvent, Suits
<1> QED BY <1>1, <1>2, <1>3 DEF Vendors

(* The end of each vendor's stream.                                        *)
LEMMA AdapterEndIs ==
  ASSUME NEW a \in Adapters
  PROVE /\ a.stop = NoStop => StepIs(AdapterEnd("bedrock", a), Adapter(a.call, a.input, a.stop, a.usage, a.endOfTurn, TRUE), <<>>)
        /\ a.stop # NoStop => StepIs(AdapterEnd("bedrock", a), Adapter(a.call, a.input, a.stop, a.usage, a.endOfTurn, TRUE),
                                     <<StopChunk(a.stop, a.usage)>>)
        /\ a.stop # NoStop => a.stop \in StopReason
        /\ \A v : v # "bedrock" =>
              StepIs(AdapterEnd(v, a), Adapter(a.call, a.input, a.stop, a.usage, a.endOfTurn, TRUE),
                     <<StopChunk(a.endOfTurn, a.usage)>>)
<1>1. [a EXCEPT !.over = TRUE] = Adapter(a.call, a.input, a.stop, a.usage, a.endOfTurn, TRUE)
  BY AdapterOneExcept
<1>2. /\ a.stop = NoStop => AdapterEnd("bedrock", a) = Yields([a EXCEPT !.over = TRUE], <<>>)
      /\ a.stop # NoStop => AdapterEnd("bedrock", a) = Yields([a EXCEPT !.over = TRUE], <<StopChunk(a.stop, a.usage)>>)
      /\ \A v : v # "bedrock" => AdapterEnd(v, a) = Yields([a EXCEPT !.over = TRUE], <<StopChunk(a.endOfTurn, a.usage)>>)
  BY DEF AdapterEnd, BedrockEnd, VertexEnd
<1>3. a.stop # NoStop => a.stop \in StopReason
  BY AdapterParts DEF Stopped
<1> QED BY <1>1, <1>2, <1>3, YieldsIs

LEMMA AdapterEndType ==
  ASSUME NEW v \in Vendors, NEW a \in Adapters
  PROVE StepTyped(AdapterEnd(v, a))
<1> DEFINE b == Adapter(a.call, a.input, a.stop, a.usage, a.endOfTurn, TRUE)
<1>1. b \in Adapters
  BY AdapterParts, AdapterType
<1>2. <<>> \in Chunks /\ a.usage \in Nat /\ a.endOfTurn \in StopReason
  BY AdapterParts, ChunkFacts
<1>3. a.stop # NoStop => <<StopChunk(a.stop, a.usage)>> \in Chunks
  BY <1>2, AdapterEndIs, ChunksWithStop
<1>4. <<StopChunk(a.endOfTurn, a.usage)>> \in Chunks
  BY <1>2, ChunksWithStop
<1>5. /\ a.stop = NoStop => StepIs(AdapterEnd("bedrock", a), b, <<>>)
      /\ a.stop # NoStop => StepIs(AdapterEnd("bedrock", a), b, <<StopChunk(a.stop, a.usage)>>)
      /\ v # "bedrock" => StepIs(AdapterEnd(v, a), b, <<StopChunk(a.endOfTurn, a.usage)>>)
  BY AdapterEndIs
<1> HIDE DEF b
<1>6. CASE v # "bedrock"
  BY <1>1, <1>4, <1>5, <1>6, StepTypedIs
<1>7. CASE v = "bedrock" /\ a.stop = NoStop
  BY <1>1, <1>2, <1>5, <1>7, StepTypedIs
<1>8. CASE v = "bedrock" /\ a.stop # NoStop
  BY <1>1, <1>3, <1>5, <1>8, StepTypedIs
<1> QED BY <1>6, <1>7, <1>8

(* Events are put together of their kinds' fields.                         *)
LEMMA EventOf ==
  /\ \A t \in Text : [kind |-> "text", text |-> t] \in Event
  /\ \A n \in Name : [kind |-> "toolStart", id |-> n] \in Event
  /\ \A p \in Pieces : [kind |-> "toolInput", piece |-> p] \in Event
  /\ [kind |-> "blockStop"] \in Event /\ [kind |-> "exhausted"] \in Event
  /\ \A r \in StopReason : [kind |-> "messageStop", reason |-> r] \in Event
  /\ \A u \in Nat : [kind |-> "metadata", usage |-> u] \in Event
  /\ Response \subseteq Event /\ Script \subseteq Event
<1> HIDE DEF Text, Name, Pieces, StopReason, Response, Script
<1> QED BY DEF Event

(* What is assumed of a setup, field by field.                             *)
LEMMA SetupFacts ==
  ASSUME NEW s \in Setups
  PROVE /\ s.entries \in Seq(Entry) /\ s.entries # <<>>
        /\ Last(s.entries).role = "user" /\ ~Last(s.entries).cleared
        /\ s.maxMessages \in Nat /\ s.maxContentLength \in Nat
        /\ s.vendor \in Vendors /\ (s.masked = TRUE \/ s.masked = FALSE) /\ s.masked \in BOOLEAN
        /\ s.scripts \subseteq Script
        /\ s.tools \in Seq(Source) /\ s.before \in Seq(Call)
        /\ s.later \subseteq Source /\ s.schemas \subseteq STRING
BY SetupsAssumption DEF Vendors

(* A script or a response, its counts multiplied.                          *)
LEMMA CountedResponse ==
  ASSUME NEW r \in Response, NEW n \in Nat
  PROVE LET q == [r EXCEPT !.usage = @ * n] IN
          /\ q \in Response /\ q.kind = "response" /\ q.usage = r.usage * n
<1> DEFINE F == {"", "STOP", "MAX_TOKENS", "SAFETY"}
           P == Seq([text : Text, call : BOOLEAN])
           u == r.usage * n
           q == [r EXCEPT !.usage = u]
<1>0. Response = [kind : {"response"}, parts : P, finish : F, usage : Nat]
  BY DEF Response
<1> HIDE DEF F, P
<1>1. r.usage \in Nat
  BY <1>0
<1>2. u \in Nat
  BY <1>1
<1> HIDE DEF u
<1>3. q \in Response /\ q.kind = "response" /\ q.usage = u
  BY <1>0, <1>2
<1> QED BY <1>3 DEF u

LEMMA CountedScript ==
  ASSUME NEW r \in Script, NEW n \in Nat
  PROVE LET q == [r EXCEPT !.usage = @ * n] IN
          /\ q \in Script /\ q.kind = "turn" /\ q.usage = r.usage * n
<1> DEFINE W == Seq(Text)
           C == Seq(Call)
           u == r.usage * n
           q == [r EXCEPT !.usage = u]
<1>0. Script = [kind : {"turn"}, usage : Nat, words : W, calls : C]
  BY DEF Script
<1> HIDE DEF W, C
<1>1. r.usage \in Nat
  BY <1>0
<1>2. u \in Nat
  BY <1>1
<1> HIDE DEF u
<1>3. q \in Script /\ q.kind = "turn" /\ q.usage = u
  BY <1>0, <1>2
<1> QED BY <1>3 DEF u

(* What a vendor sends is an event of its.                                 *)
Comes(e) ==
    /\ e \in Event /\ Suits(setup.vendor, e)
    /\ setup.vendor = "bedrock" => BedrockMaySay(e)
    /\ e.kind = "toolStart" => e.id # NoCall

(* Every event of the model is one.                                        *)
LEMMA BedrockComes ==
  ASSUME setup \in Setups, setup.vendor = "bedrock", said \in Seq(Events), said # <<>>,
         NEW e \in BedrockEvents, BedrockMaySay(e)
  PROVE Comes(e)
<1>1. Len(said) \in Nat /\ Now \in Events
  <2> HIDE DEF Events
  <2> QED BY FrontAndLast DEF Now
<1>2. Len(Now) \in Nat
  BY <1>1, EventsFacts
<1> DEFINE z == <<Len(said), Len(Now)>>
           id == [of |-> "call", number |-> z]
<1>3. z \in Nat \X Nat
  BY <1>1, <1>2
<1> HIDE DEF z
<1>4. id \in Name
  BY <1>3, NumberedType
<1>5. id # NoCall
  BY DEF NoCall, Named
<1>6. e \in [kind : {"text"}, text : Texts]
      \/ e \in {[kind |-> "toolStart", id |-> id], [kind |-> "blockStop"], [kind |-> "metadata", usage |-> Len(said)]}
      \/ e \in [kind : {"toolInput"}, piece : Pieces]
      \/ e \in [kind : {"messageStop"}, reason : {"tool_use", "end_turn", "max_tokens"}]
  BY DEF BedrockEvents, z
<1> HIDE DEF id
<1>7. e \in Event /\ e.kind \in BedrockKinds /\ (e.kind = "toolStart" => e.id # NoCall)
  <2>1. CASE e \in [kind : {"text"}, text : Texts]
    <3>1. e.text \in Text /\ e = [kind |-> "text", text |-> e.text] /\ e.kind = "text"
      BY <2>1, VendorsAssumption
    <3> QED BY <3>1, EventOf DEF BedrockKinds
  <2>2. CASE e = [kind |-> "toolStart", id |-> id]
    <3>1. e \in Event /\ e.kind = "toolStart" /\ e.id = id
      BY <2>2, <1>4, EventOf
    <3> QED BY <3>1, <1>5 DEF BedrockKinds
  <2>3. CASE e = [kind |-> "blockStop"]
    BY <2>3, EventOf DEF BedrockKinds
  <2>4. CASE e = [kind |-> "metadata", usage |-> Len(said)]
    BY <2>4, <1>1, EventOf DEF BedrockKinds
  <2>5. CASE e \in [kind : {"toolInput"}, piece : Pieces]
    <3>1. e.piece \in Pieces /\ e = [kind |-> "toolInput", piece |-> e.piece] /\ e.kind = "toolInput"
      BY <2>5
    <3> QED BY <3>1, EventOf DEF BedrockKinds
  <2>6. CASE e \in [kind : {"messageStop"}, reason : {"tool_use", "end_turn", "max_tokens"}]
    <3>1. e.reason \in StopReason /\ e = [kind |-> "messageStop", reason |-> e.reason] /\ e.kind = "messageStop"
      BY <2>6 DEF StopReason
    <3> QED BY <3>1, EventOf DEF BedrockKinds
  <2> QED BY <1>6, <2>1, <2>2, <2>3, <2>4, <2>5, <2>6
<1>8. Suits(setup.vendor, e)
  BY <1>7 DEF Suits
<1> QED BY <1>7, <1>8 DEF Comes

LEMMA VendorComes ==
  ASSUME setup \in Setups, said \in Seq(Events), said # <<>>, VendorSays
  PROVE \E e \in Event : Comes(e) /\ Receive(e)
<1>0. Len(said) \in Nat
  <2> HIDE DEF Events
  <2> QED OBVIOUS
<1>1. CASE setup.vendor = "bedrock" /\ \E e \in BedrockEvents : BedrockMaySay(e) /\ Receive(e)
  BY <1>1, BedrockComes DEF Comes
<1>2. CASE setup.vendor = "vertex" /\ \E e \in VertexEvents : Receive(e)
  <2>1. PICK r \in Responses : Receive([r EXCEPT !.usage = @ * Len(said)])
    BY <1>2 DEF VertexEvents
  <2> DEFINE e == [r EXCEPT !.usage = @ * Len(said)]
  <2>2. r \in Response
    BY VendorsAssumption
  <2>3. e \in Response /\ e.kind = "response"
    BY <1>0, <2>2, CountedResponse
  <2>4. Receive(e)
    BY <2>1
  <2> HIDE DEF e
  <2>5. e \in Event /\ Comes(e)
    BY <1>2, <2>3, EventOf DEF Comes, Suits
  <2> QED BY <2>4, <2>5
<1>3. CASE setup.vendor = "mock" /\ \E e \in MockEvents : Receive(e)
  <2>1. PICK e \in MockEvents : Receive(e)
    BY <1>3
  <2>2. CASE e = [kind |-> "exhausted"]
    BY <1>3, <2>1, <2>2, EventOf DEF Comes, Suits
  <2>3. CASE e # [kind |-> "exhausted"]
    <3>1. PICK r \in setup.scripts : e = [r EXCEPT !.usage = @ * Len(said)]
      BY <2>1, <2>3 DEF MockEvents
    <3>2. r \in Script
      BY SetupFacts
    <3>3. e \in Script /\ e.kind = "turn"
      BY <1>0, <3>1, <3>2, CountedScript
    <3> QED BY <1>3, <2>1, <3>3, EventOf DEF Comes, Suits
  <2> QED BY <2>2, <2>3
<1> QED BY <1>1, <1>2, <1>3 DEF VendorSays

(* What is on its way to the handler: the text the mask holds back, and    *)
(* what streamRound and the handler have made of the rest.                 *)

-----------------------------------------------------------------------------
(* The turn's state has its type, whatever the constants.                  *)

(* What is held back and what is heard, now.                               *)
Ear == [held |-> wire.held, w |-> Hearing]

(* The types of the variables.                                             *)
Places == {"ask", "streaming", "ended", "tools", "done", "failed", "abandoned"}
Wires == [adapter : Adapters, held : Text]
Turns == [usage : Nat, text : Text]
WireMessage == [role : {"user", "assistant", "model"}, kind : {"text", "tool_use", "tool_result"},
                names : Names, inputs : Seq(Input), content : Found]
Requests == Seq(Seq(WireMessage))

(* Every variable has its type.                                            *)
Typed ==
    /\ setup \in Setups /\ at \in Places /\ messages \in Messages
    /\ wire \in Wires /\ round \in Rounds /\ registry \in Registries
    /\ turn \in Turns /\ shown \in Shown /\ said \in Seq(Events) /\ aborted \in BOOLEAN

(* There is one list of events for every request.                          *)
Heeded ==
    /\ requests \in Requests /\ Len(said) = Len(requests)
    /\ at \in {"streaming", "ended", "tools", "done"} => said # <<>>

(* The type invariant of the turn.                                         *)
TypeOK == Typed /\ Heeded

(* What is heard now has its type.                                         *)
LEMMA EarType ==
  ASSUME Typed
  PROVE Ear \in Ears /\ Hearing \in Hearings /\ wire.held \in Text /\ wire.adapter \in Adapters
        /\ Ear.held = wire.held /\ Ear.w = Hearing /\ Ear.w.round = round /\ Ear.w.shown = shown
        /\ wire = [adapter |-> wire.adapter, held |-> wire.held]
<1>1. wire.held \in Text /\ wire.adapter \in Adapters /\ wire = [adapter |-> wire.adapter, held |-> wire.held]
  <2> HIDE DEF Text, Adapters
  <2> QED BY DEF Typed, Wires
<1>2. Hearing \in Hearings
  BY HearingParts DEF Hearing, Typed
<1>3. Ear.held = wire.held /\ Ear.w = Hearing
  BY DEF Ear
<1>4. Hearing.round = round /\ Hearing.shown = shown
  BY DEF Hearing
<1>5. Ear \in Ears
  BY <1>1, <1>2, EarParts DEF Ear
<1> QED BY <1>1, <1>2, <1>3, <1>4, <1>5

(* The model's operators in the terms used here.                           *)
LEMMA UnmaskedIs == \A h, c : Unmasked(h, c) = Passes(setup.masked, h, c)
BY DEF Unmasked, Passes

LEMMA HearIs ==
  /\ \A w, c : aborted = FALSE => Hear(w, c) = HearRegardless(w, c)
  /\ \A w, c : aborted = TRUE => Hear(w, c) = w
BY DEF Hear

(* An event that is received: the adapter's step, and what is heard of it. *)
Received(e, step, y) ==
    /\ at = "streaming" /\ aborted = FALSE
    /\ said' = [said EXCEPT ![Len(said)] = Append(@, e)]
    /\ \/ /\ step.error = ""
          /\ wire' = [adapter |-> step.adapter, held |-> y.held]
          /\ round' = y.w.round /\ shown' = y.w.shown
          /\ at' = IF step.adapter.over THEN "ended" ELSE "streaming"
          /\ UNCHANGED error
       \/ /\ step.error # ""
          /\ Fails([code |-> step.error, retryable |-> FALSE])
          /\ UNCHANGED round
    /\ UNCHANGED <<setup, messages, requests, toolVars, turn, aborted>>

(* ... is what Receive does.                                               *)
LEMMA ReceiveIs ==
  ASSUME Typed, NEW e, Receive(e)
  PROVE LET step == AdapterEvent(setup.vendor, wire.adapter, e)
        IN  Received(e, step, Hears(setup.masked, Ear, step.chunks))
<1> DEFINE step == AdapterEvent(setup.vendor, wire.adapter, e)
           y == Hears(setup.masked, Ear, step.chunks)
<1>0. aborted = FALSE /\ at = "streaming"
  BY DEF Receive, Typed
<1>1. y.held = Unmasked(wire.held, step.chunks).held
  BY UnmaskedIs, EarType DEF Hears
<1>2. y.w = Hear(Hearing, Unmasked(wire.held, step.chunks).chunks)
  BY <1>0, UnmaskedIs, HearIs, EarType DEF Hears
<1>3. Received(e, step, y)
  <2> HIDE DEF y
  <2>1. said' = [said EXCEPT ![Len(said)] = Append(@, e)]
    BY DEF Receive, Saying
  <2>2. UNCHANGED <<setup, messages, requests, toolVars, turn, aborted>>
    BY DEF Receive
  <2>3. \/ /\ step.error = ""
           /\ wire' = [adapter |-> step.adapter, held |-> y.held]
           /\ round' = y.w.round /\ shown' = y.w.shown
           /\ at' = IF step.adapter.over THEN "ended" ELSE "streaming"
           /\ UNCHANGED error
        \/ /\ step.error # ""
           /\ Fails([code |-> step.error, retryable |-> FALSE])
           /\ UNCHANGED round
    BY <1>1, <1>2 DEF Receive
  <2> HIDE DEF step
  <2> QED BY <1>0, <2>1, <2>2, <2>3 DEF Received
<1> QED BY <1>3

(* The end of the vendor's stream: the chunks it ends with, then what the  *)
(* mask still held.                                                        *)
Closing(m, x, chunks) ==
    [held |-> <<>>,
     w |-> HearRegardless(x.w, Passes(m, x.held, chunks).chunks
                                 \o (IF m THEN FlushHeld(Passes(m, x.held, chunks).held).chunks ELSE <<>>))]

(* A step that ends the stream.                                            *)
Ended(step, y) ==
    /\ at = "streaming" /\ aborted = FALSE /\ setup.vendor # "mock"
    /\ wire' = [adapter |-> step.adapter, held |-> <<>>]
    /\ round' = y.w.round /\ shown' = y.w.shown /\ at' = "ended"
    /\ UNCHANGED <<setup, messages, requests, toolVars, turn, said, aborted, error>>

(* ... is what VendorEnds does.                                            *)
LEMMA VendorEndsIs ==
  ASSUME Typed, VendorEnds
  PROVE LET step == AdapterEnd(setup.vendor, wire.adapter)
        IN  Ended(step, Closing(setup.masked, Ear, step.chunks))
<1> DEFINE step == AdapterEnd(setup.vendor, wire.adapter)
           y == Closing(setup.masked, Ear, step.chunks)
<1>0. aborted = FALSE /\ at = "streaming"
  BY DEF VendorEnds, Typed
<1>2. y.w = Hear(Hearing, Unmasked(wire.held, step.chunks).chunks \o Rest(Unmasked(wire.held, step.chunks).held))
  BY <1>0, UnmaskedIs, HearIs, EarType DEF Closing, Rest
<1>3. Ended(step, y)
  <2> HIDE DEF y
  <2>2. UNCHANGED <<setup, messages, requests, toolVars, turn, said, aborted, error>>
    BY DEF VendorEnds
  <2>3. /\ wire' = [adapter |-> step.adapter, held |-> <<>>]
        /\ round' = y.w.round /\ shown' = y.w.shown /\ at' = "ended" /\ setup.vendor # "mock"
    BY <1>2 DEF VendorEnds
  <2> HIDE DEF step
  <2> QED BY <1>0, <2>2, <2>3 DEF Ended
<1> QED BY <1>3

(* What is heard at the end has its type.                                  *)
LEMMA ClosingType ==
  ASSUME NEW m \in BOOLEAN, NEW x \in Ears, NEW c \in Chunks
  PROVE Closing(m, x, c) \in Ears
<1> DEFINE h == Passes(m, x.held, c).held
           p == Passes(m, x.held, c).chunks
           r == IF m THEN FlushHeld(h).chunks ELSE <<>>
<1>1. x.held \in Text /\ x.w \in Hearings
  BY EarParts
<1>2. h \in Text /\ p \in Chunks
  BY <1>1, PassesFacts
<1> HIDE DEF h, p
<1>3. FlushHeld(h).chunks = TextChunk(Restored(h))
  BY DEF FlushHeld, Restored
<1>4. r \in Chunks
  BY <1>2, <1>3, RestoredType, TextChunkIs, ChunkFacts
<1> HIDE DEF r
<1>5. p \o r \in Chunks
  BY <1>2, <1>4, ChunkFacts
<1>6. HearRegardless(x.w, p \o r) \in Hearings
  BY <1>1, <1>5, HearFold
<1>7. <<>> \in Text
  BY TextFacts
<1> QED BY <1>6, <1>7, EarParts DEF Closing, h, p, r

(* So has what is shown once the parser is flushed.                        *)
LEMMA FlushedType ==
  ASSUME NEW w \in Hearings
  PROVE /\ Flushed(w) \in Shown
        /\ Flushed(w).parser = Holding(w.shown.parser.insideThinking, <<>>)
        /\ Flushed(w).segments = w.shown.segments \o Segment(w.shown.parser.insideThinking, w.shown.parser.buffer)
<1>1. w.shown \in Shown /\ w.shown.parser \in Parser /\ w.shown.segments \in Segments
  BY HearingParts
<1> DEFINE f == FlushText(w.shown.parser)
<1>2. f.parser = Holding(w.shown.parser.insideThinking, <<>>) /\ f.parser \in Parser
      /\ f.segments = Segment(w.shown.parser.insideThinking, w.shown.parser.buffer) /\ f.segments \in Segments
  BY <1>1, FlushTextIs
<1>3. Flushed(w) = Given(w.shown.segments, f)
  BY DEF Flushed
<1> HIDE DEF f
<1>4. Flushed(w) \in Shown
  BY <1>1, <1>2, <1>3, GivenType
<1>5. Flushed(w).parser = f.parser /\ Flushed(w).segments = w.shown.segments \o f.segments
  <2> DEFINE a == f.parser
             b == w.shown.segments \o f.segments
  <2>1. Flushed(w) = [parser |-> a, segments |-> b]
    BY <1>3 DEF Given
  <2> HIDE DEF a, b
  <2>2. Flushed(w).parser = a /\ Flushed(w).segments = b
    BY <2>1
  <2> QED BY <2>2 DEF a, b
<1> QED BY <1>2, <1>4, <1>5

(* What was said, with one event more in the last round.                   *)
SaidMore(e) == Append(Front(said), Append(Now, e))

(* ... has its type.                                                       *)
LEMMA SaidGrows ==
  ASSUME said \in Seq(Events), said # <<>>, NEW e \in Event
  PROVE /\ [said EXCEPT ![Len(said)] = Append(@, e)] = SaidMore(e)
        /\ SaidMore(e) \in Seq(Events) /\ SaidMore(e) # <<>> /\ Len(SaidMore(e)) = Len(said)
        /\ Front(SaidMore(e)) = Front(said) /\ Last(SaidMore(e)) = Append(Now, e)
        /\ Front(said) \in Seq(Events) /\ Now \in Events
<1> DEFINE f == Front(said)
           n == Append(Now, e)
<1>1. /\ f \in Seq(Events) /\ Now \in Events /\ Len(said) \in Nat /\ Len(said) > 0
      /\ Len(f) = Len(said) - 1 /\ Now = said[Len(said)] /\ \A i \in 1..(Len(said) - 1) : f[i] = said[i]
  <2> HIDE DEF Events
  <2> QED BY FrontAndLast DEF Now
<1>2. n \in Events
  BY <1>1, EventsFacts
<1>3. n = Append(said[Len(said)], e)
  BY <1>1
<1> HIDE DEF f, n, Events
<1>4. Append(f, n) \in Seq(Events) /\ Append(f, n) # <<>> /\ Front(Append(f, n)) = f /\ Last(Append(f, n)) = n
  BY <1>1, <1>2, AppendFront
<1>5. Len(Append(f, n)) = Len(said)
  BY <1>1, <1>2
<1>6. [said EXCEPT ![Len(said)] = Append(@, e)] = Append(f, n)
  <2> DEFINE L == [said EXCEPT ![Len(said)] = n]
             R == Append(f, n)
  <2>1. L \in Seq(Events) /\ Len(L) = Len(said)
    BY <1>1, <1>2
  <2>2. \A i \in 1..Len(said) : L[i] = R[i]
    BY <1>1, <1>2
  <2>3. L = R
    <3> HIDE DEF L, R
    <3>1. Len(L) = Len(R) /\ R \in Seq(Events)
      BY <2>1, <1>4, <1>5 DEF R
    <3> QED BY <2>1, <2>2, <3>1, SeqEqual
  <2> QED BY <2>3, <1>3
<1> QED BY <1>1, <1>4, <1>5, <1>6 DEF SaidMore, f, n

(* A masked message holds no value where the code looks for one, and is    *)
(* what it was otherwise.                                                  *)
LEMMA MaskedCall ==
  ASSUME NEW c \in Call
  PROVE LET d == [c EXCEPT !.input = ApplyStrings(@)]
        IN  d \in Call /\ d.id = c.id /\ d.input.strings # "value"
<1> DEFINE n == ApplyStrings(c.input)
           d == [c EXCEPT !.input = n]
<1>1. n \in Input /\ n.strings # "value"
  BY CallParts, StringsIs
<1> HIDE DEF n
<1>2. d \in Call /\ d.id = c.id /\ d.input = n
  <2> HIDE DEF Name, Input
  <2> QED BY <1>1 DEF Call
<1> QED BY <1>1, <1>2 DEF n

LEMMA MaskedCalls ==
  ASSUME NEW calls \in Seq(Call)
  PROVE LET b == MaskCalls(calls)
        IN  /\ b \in Seq(Call) /\ Len(b) = Len(calls) /\ Ids(b) = Ids(calls)
            /\ \A i \in DOMAIN b : b[i].input.strings # "value"
<1> DEFINE g(c) == [c EXCEPT !.input = ApplyStrings(@)]
           b == [i \in DOMAIN calls |-> g(calls[i])]
<1>1. DOMAIN calls = 1..Len(calls) /\ Len(calls) \in Nat /\ \A i \in 1..Len(calls) : calls[i] \in Call
  <2> HIDE DEF Call
  <2> QED OBVIOUS
<1>2. \A i \in 1..Len(calls) : g(calls[i]) \in Call /\ g(calls[i]).id = calls[i].id
                                /\ g(calls[i]).input.strings # "value"
  BY <1>1, MaskedCall
<1> HIDE DEF g
<1>3. b \in [1..Len(calls) -> Call]
  BY <1>1, <1>2
<1>4. b \in Seq(Call) /\ Len(b) = Len(calls) /\ DOMAIN b = 1..Len(calls)
  <2> HIDE DEF Call, b
  <2> QED BY <1>1, <1>3
<1>5. \A i \in DOMAIN b : b[i].id = calls[i].id /\ b[i].input.strings # "value"
  BY <1>1, <1>2
<1>6. Ids(b) = Ids(calls)
  BY <1>1, <1>5 DEF Ids
<1>7. MaskCalls(calls) = b
  BY DEF MaskCalls, g
<1> QED BY <1>4, <1>5, <1>6, <1>7

LEMMA MaskMessageIs ==
  ASSUME NEW m \in Message
  PROVE LET u == MaskMessage(m) IN
        /\ u \in Message /\ u.role = m.role /\ u.kind = m.kind
        /\ Len(u.blocks) = Len(m.blocks) /\ Ids(u.blocks) = Ids(m.blocks)
        /\ m.kind # "tool_use" => u.content # "value"
        /\ m.kind = "tool_use" => \A i \in DOMAIN u.blocks : u.blocks[i].input.strings # "value"
<1> DEFINE R == {"user", "assistant"}
           K == {"text", "tool_use", "tool_result"}
           B == Seq(Call)
           u == MaskMessage(m)
           b == MaskCalls(m.blocks)
           c == IF m.content = "value" THEN "token" ELSE m.content
<1>0. Message = [role : R, kind : K, blocks : B, size : Nat, content : Found]
  BY DEF Message
<1>1. /\ b \in B /\ Len(b) = Len(m.blocks) /\ Ids(b) = Ids(m.blocks)
      /\ \A i \in DOMAIN b : b[i].input.strings # "value"
  <2>1. m.blocks \in Seq(Call)
    BY MessageParts
  <2> QED BY <2>1, MaskedCalls
<1>2. c \in Found /\ c # "value"
  BY MessageParts DEF Found
<1>3. CASE m.kind = "tool_use"
  <2>1. u = [m EXCEPT !.blocks = b]
    BY <1>3 DEF MaskMessage
  <2> HIDE DEF u, b, B, R, K, Found
  <2> QED BY <1>0, <1>1, <1>3, <2>1 DEF u
<1>4. CASE m.kind # "tool_use"
  <2>1. u = [m EXCEPT !.content = c]
    BY <1>4 DEF MaskMessage, Applied
  <2> HIDE DEF u, c, B, R, K, Found
  <2> QED BY <1>0, <1>2, <1>4, <2>1 DEF u
<1> QED BY <1>3, <1>4

(* What a message is on the wire.                                          *)
WireOf(s, m) == IF s.vendor = "vertex" THEN VertexMessage(m) ELSE BedrockMessage(m)

(* It keeps what the vendor looks at.                                      *)
Wired(s, m, q) ==
    /\ q \in WireMessage /\ q.kind = m.kind /\ q.content = ContentOf(m) /\ q.inputs = InputsOf(m)
    /\ q.role = "user" <=> m.role = "user"
    /\ Len(q.names) = Len(m.blocks)
    /\ s.vendor # "vertex" => q.names = Ids(m.blocks)

(* Names taken of the calls.                                               *)
LEMMA NamesOf ==
  ASSUME NEW f \in [Call -> Name], NEW b \in Seq(Call)
  PROVE [i \in DOMAIN b |-> f[b[i]]] \in Names /\ Len([i \in DOMAIN b |-> f[b[i]]]) = Len(b)
<1> HIDE DEF Call, Name
<1>1. Mapped(f, b) \in Seq(Name)
  BY MappedType
<1>2. Len(Mapped(f, b)) = Len(b)
  BY MappedLength
<1> QED BY <1>1, <1>2 DEF Mapped, Names

(* ... so it does.                                                         *)
LEMMA WiredOnTheWire ==
  ASSUME NEW s, NEW m \in Message
  PROVE Wired(s, m, WireOf(s, m))
<1>0. /\ m.role \in {"user", "assistant"} /\ m.kind \in {"text", "tool_use", "tool_result"}
      /\ m.blocks \in Seq(Call) /\ m.content \in Found
  BY MessageParts
<1> DEFINE b == m.blocks
           ids == [i \in DOMAIN b |-> b[i].id]
           names == [i \in DOMAIN b |-> b[i].name]
<1>1. ids \in Names /\ Len(ids) = Len(b) /\ ids = Ids(b)
  BY <1>0, IdsFacts DEF Ids
<1>2. names \in Names /\ Len(names) = Len(b)
  <2> DEFINE f == [c \in Call |-> c.name]
  <2>1. f \in [Call -> Name]
    BY CallParts
  <2>2. \A i \in DOMAIN b : b[i] \in Call /\ f[b[i]] = b[i].name
    <3> HIDE DEF b
    <3>1. b \in Seq(Call)
      BY <1>0 DEF b
    <3>2. \A i \in DOMAIN b : b[i] \in Call
      <4> HIDE DEF Call
      <4> QED BY <3>1
    <3> QED BY <3>2
  <2>3. names = [i \in DOMAIN b |-> f[b[i]]]
    BY <2>2
  <2> HIDE DEF f
  <2> QED BY <1>0, <2>1, <2>3, NamesOf
<1> DEFINE inputs == InputsOf(m)
           content == ContentOf(m)
<1>5. inputs \in Seq(Input)
  <2>1. \A i \in 1..Len(b) : b[i].input \in Input
    <3> HIDE DEF b
    <3>1. b \in Seq(Call)
      BY <1>0 DEF b
    <3>2. \A i \in 1..Len(b) : b[i] \in Call
      <4> HIDE DEF Call
      <4> QED BY <3>1
    <3> QED BY <3>2, CallParts
  <2>2. DOMAIN b = 1..Len(b) /\ Len(b) \in Nat
    BY <1>0
  <2> HIDE DEF Input
  <2>3. [i \in DOMAIN b |-> b[i].input] \in Seq(Input)
    <3> HIDE DEF b
    <3>1. [i \in DOMAIN b |-> b[i].input] \in [1..Len(b) -> Input]
      BY <2>1, <2>2
    <3> QED BY <3>1, <2>2, SeqDef
  <2> QED BY <2>3 DEF InputsOf
<1>6. content \in Found
  BY <1>0 DEF ContentOf, Found
<1> HIDE DEF inputs, content, Input, Found
<1>3. CASE s.vendor # "vertex"
  <2> DEFINE q == WireOf(s, m)
  <2>1. q = [role |-> m.role, kind |-> m.kind, names |-> ids, inputs |-> inputs, content |-> content]
    BY <1>3 DEF WireOf, BedrockMessage, inputs, content
  <2> HIDE DEF q, ids, b
  <2>2. q \in WireMessage
    BY <2>1, <1>0, <1>1, <1>5, <1>6 DEF WireMessage, b
  <2>3. q.kind = m.kind /\ q.inputs = inputs /\ q.content = content /\ q.role = m.role /\ q.names = ids
    BY <2>1
  <2> QED BY <2>2, <2>3, <1>1 DEF q, Wired, b, inputs, content
<1>4. CASE s.vendor = "vertex"
  <2> DEFINE q == WireOf(s, m)
             n == IF m.kind = "tool_use" THEN names ELSE ids
             r == IF m.role = "assistant" THEN "model" ELSE "user"
  <2>0. n = [i \in DOMAIN m.blocks |-> IF m.kind = "tool_use" THEN m.blocks[i].name ELSE m.blocks[i].id]
    OBVIOUS
  <2>1. q = [role |-> r, kind |-> m.kind, names |-> n, inputs |-> inputs, content |-> content]
    BY <1>4, <2>0 DEF WireOf, VertexMessage, inputs, content
  <2>2. n \in Names /\ Len(n) = Len(b)
    <3> HIDE DEF ids, names, b
    <3> QED BY <1>1, <1>2
  <2>3. r \in {"user", "assistant", "model"} /\ (r = "user" <=> m.role = "user")
    BY <1>0
  <2> HIDE DEF q, n, r, ids, names, b
  <2>4. q \in WireMessage
    BY <2>1, <2>2, <2>3, <1>0, <1>5, <1>6 DEF WireMessage
  <2>5. q.kind = m.kind /\ q.inputs = inputs /\ q.content = content /\ q.role = r /\ q.names = n
    BY <2>1
  <2> QED BY <1>4, <2>2, <2>3, <2>4, <2>5 DEF q, Wired, b, inputs, content
<1> QED BY <1>3, <1>4

(* What a round sends.                                                     *)
MaskedOf(s, m) == IF s.masked THEN MaskMessage(m) ELSE m
SentOf(s, ms) == [i \in DOMAIN ms |-> WireOf(s, MaskedOf(s, ms[i]))]

(* Nothing on the wire is a value, but for the keys and numbers of inputs. *)
Clean(q) ==
    /\ q.content # "value"
    /\ \A j \in DOMAIN q.inputs : q.inputs[j].strings # "value"

(* A message sent keeps what the vendor looks at, and is masked if the     *)
(* deployment masks.                                                       *)
SentAt(s, m, q) ==
    /\ q \in WireMessage /\ q.kind = m.kind /\ (s.masked = TRUE => Clean(q))
    /\ q.role = "user" <=> m.role = "user"
    /\ Len(q.names) = Len(m.blocks)
    /\ s.vendor # "vertex" => q.names = Ids(m.blocks)

(* A conversation's messages, by number.                                   *)
LEMMA MessagesDomain ==
  ASSUME NEW ms \in Messages
  PROVE Len(ms) \in Nat /\ DOMAIN ms = 1..Len(ms) /\ \A i \in 1..Len(ms) : ms[i] \in Message
<1> HIDE DEF Message
<1> QED BY DEF Messages

(* So it is with every one.                                                *)
LEMMA SentIs ==
  ASSUME NEW ms \in Messages, NEW s \in Setups
  PROVE /\ SentOf(s, ms) \in Seq(WireMessage) /\ Len(SentOf(s, ms)) = Len(ms)
        /\ \A i \in 1..Len(ms) : SentAt(s, ms[i], SentOf(s, ms)[i])
<1> DEFINE sent == SentOf(s, ms)
<1>0. Len(ms) \in Nat /\ DOMAIN ms = 1..Len(ms) /\ \A i \in 1..Len(ms) : ms[i] \in Message
  BY MessagesDomain
<1>1. \A i \in 1..Len(ms) : SentAt(s, ms[i], sent[i])
  <2> TAKE i \in 1..Len(ms)
  <2>2. sent[i] = WireOf(s, MaskedOf(s, ms[i]))
    BY <1>0 DEF SentOf
  <2>3. CASE s.masked = TRUE
    <3>1. MaskedOf(s, ms[i]) = MaskMessage(ms[i])
      BY <2>3 DEF MaskedOf
    <3> DEFINE u == MaskMessage(ms[i])
    <3>3. u \in Message
      BY <1>0, MaskMessageIs
    <3>4. sent[i] = WireOf(s, u)
      BY <2>2, <3>1
    <3> HIDE DEF u, sent
    <3>5. Wired(s, u, WireOf(s, u))
      BY <3>3, WiredOnTheWire
    <3>2. Wired(s, u, sent[i])
      BY <3>4, <3>5
    <3>6. /\ u.role = ms[i].role /\ u.kind = ms[i].kind
          /\ Len(u.blocks) = Len(ms[i].blocks) /\ Ids(u.blocks) = Ids(ms[i].blocks)
          /\ u.kind # "tool_use" => u.content # "value"
          /\ u.kind = "tool_use" => \A k \in DOMAIN u.blocks : u.blocks[k].input.strings # "value"
      BY <1>0, MaskMessageIs DEF u
    <3>7. Clean(sent[i])
      <4>1. sent[i].content = ContentOf(u) /\ sent[i].inputs = InputsOf(u)
        BY <3>2 DEF Wired
      <4>2. ContentOf(u) # "value"
        BY <3>6 DEF ContentOf
      <4>3. \A j \in DOMAIN InputsOf(u) : InputsOf(u)[j].strings # "value"
        BY <3>6 DEF InputsOf
      <4> QED BY <4>1, <4>2, <4>3 DEF Clean
    <3> QED BY <3>2, <3>6, <3>7 DEF Wired, SentAt
  <2>4. CASE s.masked = FALSE
    <3>1. MaskedOf(s, ms[i]) = ms[i]
      BY <2>4 DEF MaskedOf
    <3>2. Wired(s, ms[i], sent[i])
      BY <1>0, <2>2, <3>1, WiredOnTheWire
    <3> HIDE DEF sent
    <3> QED BY <3>2, <2>4 DEF Wired, SentAt
  <2> QED BY <2>3, <2>4, SetupFacts
<1>2. sent = [i \in 1..Len(ms) |-> sent[i]]
  BY <1>0 DEF SentOf
<1> HIDE DEF sent
<1>3. sent \in [1..Len(ms) -> WireMessage]
  <2>1. \A i \in 1..Len(ms) : sent[i] \in WireMessage
    BY <1>1 DEF SentAt
  <2> HIDE DEF WireMessage
  <2> QED BY <2>1, <1>2
<1>4. sent \in Seq(WireMessage) /\ Len(sent) = Len(ms)
  <2> HIDE DEF WireMessage
  <2> QED BY <1>0, <1>3
<1> QED BY <1>1, <1>4 DEF sent

(* The model's request is that.                                            *)
LEMMA SentNow ==
  [i \in DOMAIN messages |-> OnTheWire(MaskedForSending[i])] = SentOf(setup, messages)
<1>1. \A i \in DOMAIN messages : MaskedForSending[i] = MaskedOf(setup, messages[i])
  BY DEF MaskedForSending, MaskedOf
<1>2. \A x : OnTheWire(x) = WireOf(setup, x)
  BY DEF OnTheWire, WireOf
<1> QED BY <1>1, <1>2 DEF SentOf

(* Behind a text no answer stands without its call.                        *)
LEMMA PairedFrom ==
  ASSUME NEW m \in Messages, Paired(m), NEW k \in 1..Len(m), m[k].kind = "text"
  PROVE From(m, k) \in PairedMessages /\ From(m, k) # <<>> /\ From(m, k)[1] = m[k]
<1> DEFINE s == From(m, k)
           n == Len(m) - k + 1
<1>0. Len(m) \in Nat /\ n \in Nat /\ n >= 1 /\ k \in Nat /\ k >= 1
  BY MessagesAlgebra
<1>1. s \in Messages /\ Len(s) = n /\ \A i \in 1..n : s[i] = m[k + i - 1]
  BY <1>0, FromFacts
<1>2. s[1] = m[k]
  BY <1>0, <1>1
<1> HIDE DEF s
<1>3. Paired(s)
  <2> SUFFICES ASSUME NEW i \in 1..n
               PROVE /\ s[i].kind = "tool_use" => AnsweredAt(s, i)
                     /\ s[i].kind = "tool_result" => i > 1 /\ s[i - 1].kind = "tool_use"
    BY <1>1 DEF Paired
  <2> DEFINE j == k + i - 1
  <2>1. j \in 1..Len(m) /\ s[i] = m[j]
    BY <1>0, <1>1
  <2>2. ASSUME s[i].kind = "tool_use" PROVE AnsweredAt(s, i)
    <3>1. AnsweredAt(m, j)
      BY <2>1, <2>2 DEF Paired
    <3>2. i + 1 \in 1..n /\ i + 1 <= n /\ j + 1 = k + (i + 1) - 1
      BY <3>1, <1>0 DEF AnsweredAt
    <3>3. s[i + 1] = m[j + 1]
      BY SMTT(30), <3>2, <1>1
    <3> HIDE DEF j, n
    <3> QED BY <3>1, <3>2, <3>3, <2>1, <1>1 DEF AnsweredAt
  <2>3. ASSUME s[i].kind = "tool_result" PROVE i > 1 /\ s[i - 1].kind = "tool_use"
    <3>1. j > 1 /\ m[j - 1].kind = "tool_use"
      BY <2>1, <2>3 DEF Paired
    <3>2. i # 1
      BY <1>2, <2>3
    <3>3. i - 1 \in 1..n /\ i > 1 /\ j - 1 = k + (i - 1) - 1
      BY <1>0, <3>2
    <3>4. s[i - 1] = m[j - 1]
      BY <3>3, <1>1
    <3> QED BY <3>1, <3>3, <3>4
  <2> QED BY <2>2, <2>3
<1>4. s # <<>>
  BY <1>0, <1>1
<1> QED BY <1>1, <1>2, <1>3, <1>4 DEF s, PairedMessages

(* What the first round of a turn asks with.                               *)
Begun(s, m) ==
    /\ m \in PairedMessages /\ m # <<>> /\ OpensWithUserText(m[1])
    /\ m = LongestAdmissible(ToContentMessages(s.entries), s)

(* ... are the longest admissible end of the history.                      *)
LEMMA ToMessagesBegins ==
  ASSUME NEW s \in Setups
  PROVE Begun(s, ToMessages(s.entries, s))
<1> DEFINE c == ToContentMessages(s.entries)
<1>0. /\ s.entries \in Seq(Entry) /\ s.entries # <<>>
      /\ Last(s.entries).role = "user" /\ ~Last(s.entries).cleared
      /\ s.maxMessages \in Nat /\ s.maxContentLength \in Nat
  BY SetupFacts
<1>1. /\ c \in PairedMessages
      /\ \E a \in PairedMessages, t \in Message : c = a \o <<t>> /\ t.role = "user" /\ t.kind = "text"
  BY <1>0, ToContentMessagesFacts
<1>2. ToMessages(s.entries, s) = ApplyMessageWindow(c, s)
  BY DEF ToMessages
<1>3. PICK a \in PairedMessages, t \in Message : c = a \o <<t>> /\ t.role = "user" /\ t.kind = "text"
  BY <1>1
<1> HIDE DEF c
<1>4. c \in Messages /\ Paired(c) /\ a \in Messages
  BY <1>1 DEF PairedMessages
<1>5. Len(c) = Len(a) + 1 /\ Len(a) \in Nat /\ c[Len(c)] = t
  <2>1. <<t>> \in Messages /\ Len(<<t>>) = 1 /\ <<t>>[1] = t /\ Len(a) \in Nat
    BY <1>4, MessagesAlgebra
  <2>2. Len(c) = Len(a) + 1
    BY <1>3, <1>4, <2>1, MessagesAlgebra
  <2>3. (a \o <<t>>)[Len(a) + 1] = <<t>>[1]
    BY <2>1, <1>4, MessagesAt
  <2> QED BY <2>1, <2>2, <2>3, <1>3
<1>6. c # <<>> /\ OpensWithUserText(c[Len(c)])
  BY <1>3, <1>5 DEF OpensWithUserText
<1>7. PICK k \in Nat : Windowed(c, s, k)
  BY <1>0, <1>4, <1>6, WindowIs
<1>8. k \in 1..Len(c) /\ ApplyMessageWindow(c, s) = From(c, k) /\ OpensWithUserText(c[k])
  BY <1>7 DEF Windowed
<1>9. From(c, k) \in PairedMessages /\ From(c, k) # <<>> /\ From(c, k)[1] = c[k]
  BY <1>4, <1>8, PairedFrom DEF OpensWithUserText
<1>10. LongestAdmissible(c, s) = ApplyMessageWindow(c, s)
  BY <1>4, <1>7, WindowIsLongest
<1> QED BY <1>2, <1>8, <1>9, <1>10 DEF Begun, c

(* What a round begins with has its type.                                  *)
LEMMA NewThings ==
  /\ NewWire \in Wires /\ NewWire.held = <<>> /\ NewWire.adapter = NewAdapter
  /\ NewRound \in Rounds /\ NewRound.calls = <<>> /\ NewRound.stopReason = NoStop /\ NewRound.usage = 0
  /\ NewRound.text = <<>>
  /\ NewParser \in Parser /\ NewParser = Holding(FALSE, <<>>)
<1>1. NewAdapter \in Adapters /\ <<>> \in Text
  BY NewAdapterIs, TextFacts
<1>2. NewWire \in Wires /\ NewWire.held = <<>> /\ NewWire.adapter = NewAdapter
  <2> HIDE DEF Adapters, NewAdapter, Text
  <2> QED BY <1>1 DEF NewWire, Wires
<1>3. NoStop \in Stopped /\ <<>> \in Seq(Call)
  <2> HIDE DEF Call
  <2> QED BY DEF Stopped
<1>4. NewRound \in Rounds
  BY <1>1, <1>3, HearingParts DEF NewRound
<1>5. NewParser \in Parser /\ NewParser = Holding(FALSE, <<>>)
  BY <1>1, HoldingFacts DEF NewParser
<1> QED BY <1>2, <1>4, <1>5 DEF NewRound

(* The registry a turn begins with.                                        *)
LEMMA FirstRegistry ==
  ASSUME NEW s \in Setups
  PROVE ExecuteAll(Registered[s.tools], s.before).registry \in Registries
<1>1. s.tools \in Seq(Source) /\ s.before \in Seq(Call)
  BY SetupFacts
<1>2. Registered[s.tools] \in Registries
  BY <1>1, RegisteredFold
<1> QED BY <1>1, <1>2, ExecuteAllTells DEF Told

(* The initial state and every step keep the type, action by action; of    *)
(* some steps what else they do is stated for later.                       *)
LEMMA InitTyped == Init => TypeOK
<1> SUFFICES ASSUME Init PROVE TypeOK
  OBVIOUS
<1>1. setup \in Setups /\ at = "ask" /\ requests = <<>> /\ said = <<>> /\ aborted = FALSE
  BY DEF Init
<1>2. messages \in Messages
  BY <1>1, ToMessagesBegins DEF Init, Begun, PairedMessages
<1>3. wire \in Wires /\ round \in Rounds
  BY NewThings DEF Init
<1>4. registry \in Registries
  BY FirstRegistry DEF Init
<1>5. turn \in Turns
  <2>1. turn = [usage |-> 0, text |-> <<>>]
    BY DEF Init
  <2> QED BY <2>1, TextFacts DEF Turns
<1>6. shown \in Shown
  <2>1. shown = [parser |-> NewParser, segments |-> <<>>]
    BY DEF Init
  <2> QED BY <2>1, NewThings, SegmentsConcat, HearingParts
<1>7. requests \in Requests /\ said \in Seq(Events) /\ Len(said) = Len(requests)
  <2> HIDE DEF WireMessage, Events
  <2> QED BY <1>1 DEF Requests
<1> QED BY <1>1, <1>2, <1>3, <1>4, <1>5, <1>6, <1>7 DEF TypeOK, Typed, Heeded, Places

LEMMA FailsIs ==
  ASSUME Typed, NEW code, Fails(code)
  PROVE /\ shown' \in Shown /\ wire' \in Wires /\ at' = "failed"
        /\ shown' = Flushed(Hearing) /\ wire'.held = <<>>
        /\ shown'.segments = shown.segments \o Segment(shown.parser.insideThinking, shown.parser.buffer)
<1>1. shown' = Flushed(Hearing) /\ at' = "failed" /\ wire' = [wire EXCEPT !.held = <<>>]
  BY DEF Fails
<1>2. Hearing \in Hearings /\ Hearing.shown = shown
  BY EarType DEF Hearing
<1>3. wire' \in Wires /\ wire'.held = <<>>
  <2>1. wire \in Wires /\ <<>> \in Text
    BY TextFacts DEF Typed
  <2> HIDE DEF Text, Adapters
  <2> QED BY <1>1, <2>1 DEF Wires
<1> QED BY <1>1, <1>2, <1>3, FlushedType

LEMMA AskTyped ==
  ASSUME TypeOK, Ask
  PROVE TypeOK' /\ requests' = Append(requests, SentOf(setup, messages)) /\ said' = Append(said, <<>>)
<1>1. UNCHANGED <<setup, messages, registry, changed, turn, shown, aborted, error>>
      /\ wire' = NewWire /\ round' = NewRound /\ at' = "streaming"
      /\ said' = Append(said, <<>>)
  BY DEF Ask
<1>2. requests' = Append(requests, SentOf(setup, messages))
  BY SentNow DEF Ask
<1>3. SentOf(setup, messages) \in Seq(WireMessage)
  BY SentIs DEF TypeOK, Typed
<1>4. said \in Seq(Events) /\ requests \in Requests /\ Len(said) = Len(requests) /\ <<>> \in Events
  BY EventsFacts DEF TypeOK, Typed, Heeded
<1>5. said' \in Seq(Events) /\ requests' \in Requests /\ Len(said') = Len(requests') /\ said' # <<>>
  <2> HIDE DEF Events, WireMessage
  <2> QED BY <1>1, <1>2, <1>3, <1>4 DEF Requests
<1>6. Typed'
  BY <1>1, <1>5, NewThings DEF TypeOK, Typed, Places
<1>7. Heeded'
  BY <1>5 DEF Heeded
<1> QED BY <1>1, <1>2, <1>6, <1>7 DEF TypeOK

LEMMA ReceiveTyped ==
  ASSUME TypeOK, NEW e \in Event, Comes(e), Receive(e)
  PROVE TypeOK' /\ said' = SaidMore(e)
<1> DEFINE step == AdapterEvent(setup.vendor, wire.adapter, e)
           y == Hears(setup.masked, Ear, step.chunks)
<1>1. Typed /\ Heeded
  BY DEF TypeOK
<1>2. Received(e, step, y)
  BY <1>1, ReceiveIs
<1>3. step.adapter \in Adapters /\ step.chunks \in Chunks
  <2>1. setup.vendor \in Vendors /\ wire.adapter \in Adapters
    BY <1>1, SetupFacts, EarType DEF Typed
  <2> QED BY <2>1, AdapterEventType DEF Comes, StepTyped
<1>4. y \in Ears
  BY <1>1, <1>3, SetupFacts, EarType, HearsType DEF Typed
<1> HIDE DEF step, y
<1>5. y.held \in Text /\ y.w.round \in Rounds /\ y.w.shown \in Shown
  BY <1>4, EarParts, HearingParts
<1>6. UNCHANGED <<setup, messages, requests, toolVars, turn, aborted>> /\ at = "streaming"
      /\ said' = [said EXCEPT ![Len(said)] = Append(@, e)]
  BY <1>2 DEF Received
<1>7. said' = SaidMore(e) /\ said' \in Seq(Events) /\ said' # <<>> /\ Len(said') = Len(said)
  BY <1>1, <1>6, SaidGrows DEF Typed, Heeded
<1>8. at' \in Places /\ wire' \in Wires /\ round' \in Rounds /\ shown' \in Shown
  <2>1. CASE step.error = ""
    <3>1. /\ wire' = [adapter |-> step.adapter, held |-> y.held]
          /\ round' = y.w.round /\ shown' = y.w.shown
          /\ at' = IF step.adapter.over THEN "ended" ELSE "streaming"
      BY <1>2, <2>1 DEF Received
    <3> QED BY <3>1, <1>3, <1>5 DEF Places, Wires
  <2>2. CASE step.error # ""
    <3>1. Fails([code |-> step.error, retryable |-> FALSE]) /\ round' = round
      BY <1>2, <2>2 DEF Received
    <3> QED BY <3>1, <1>1, FailsIs DEF Places, Typed
  <2> QED BY <2>1, <2>2
<1>9. Typed'
  BY <1>1, <1>6, <1>7, <1>8 DEF Typed, toolVars
<1>10. Heeded'
  BY <1>1, <1>6, <1>7 DEF Heeded
<1> QED BY <1>7, <1>9, <1>10 DEF TypeOK

LEMMA VendorEndsTyped ==
  ASSUME TypeOK, VendorEnds
  PROVE TypeOK'
<1> DEFINE step == AdapterEnd(setup.vendor, wire.adapter)
           y == Closing(setup.masked, Ear, step.chunks)
<1>1. Typed /\ Heeded
  BY DEF TypeOK
<1>2. Ended(step, y)
  BY <1>1, VendorEndsIs
<1>3. step.adapter \in Adapters /\ step.chunks \in Chunks
  <2>1. setup.vendor \in Vendors /\ wire.adapter \in Adapters
    BY <1>1, SetupFacts, EarType DEF Typed
  <2> QED BY <2>1, AdapterEndType DEF StepTyped
<1>4. y \in Ears
  BY <1>1, <1>3, SetupFacts, EarType, ClosingType DEF Typed
<1> HIDE DEF step, y
<1>5. <<>> \in Text /\ y.w.round \in Rounds /\ y.w.shown \in Shown
  BY <1>4, EarParts, HearingParts, TextFacts
<1>6. /\ UNCHANGED <<setup, messages, requests, toolVars, turn, said, aborted, error>>
      /\ wire' = [adapter |-> step.adapter, held |-> <<>>]
      /\ round' = y.w.round /\ shown' = y.w.shown /\ at' = "ended" /\ at = "streaming"
  BY <1>2 DEF Ended
<1>7. wire' \in Wires
  BY <1>3, <1>5, <1>6 DEF Wires
<1>8. Typed'
  BY <1>1, <1>5, <1>6, <1>7 DEF Typed, toolVars, Places
<1>9. Heeded'
  BY <1>1, <1>6 DEF Heeded
<1> QED BY <1>8, <1>9 DEF TypeOK

LEMMA EndRoundTyped ==
  ASSUME TypeOK, EndRound
  PROVE TypeOK'
<1>1. Typed /\ Heeded
  BY DEF TypeOK
<1>2. /\ at = "ended" /\ at' \in {"tools", "done"}
      /\ UNCHANGED <<setup, messages, requests, wire, round, toolVars, said, aborted, error>>
      /\ turn' = [usage |-> turn.usage + round.usage, text |-> turn.text \o round.text]
  BY DEF EndRound, AccumulateUsage
<1>3. turn' \in Turns
  <2>1. round.usage \in Nat /\ round.text \in Text
    BY <1>1, EarType, HearingParts DEF Typed, Hearing
  <2>2. turn.usage \in Nat /\ turn.text \in Text
    <3> HIDE DEF Text
    <3> QED BY <1>1 DEF Typed, Turns
  <2>3. turn.text \o round.text \in Text
    BY <2>1, <2>2, TextFacts
  <2> QED BY <1>2, <2>1, <2>2, <2>3 DEF Turns
<1>4. shown' \in Shown
  <2>1. shown' = Flushed(Hearing) \/ shown' = shown
    BY DEF EndRound
  <2> QED BY <2>1, <1>1, EarType, FlushedType DEF Typed
<1> QED BY <1>1, <1>2, <1>3, <1>4 DEF TypeOK, Typed, Heeded, toolVars, Places

LEMMA RunToolsTyped ==
  ASSUME TypeOK, RunTools
  PROVE TypeOK' /\ SameTools(registry, registry')
<1> DEFINE ran == ExecuteAll(registry, round.calls)
<1>1. Typed /\ Heeded
  BY DEF TypeOK
<1>2. round.calls \in Seq(Call)
  BY <1>1, HearingParts, EarType DEF Typed, Hearing
<1>3. ran.registry \in Registries /\ SameTools(registry, ran.registry)
  BY <1>1, <1>2, ExecuteAllTells DEF Told, Typed
<1> HIDE DEF ran
<1>4. /\ at = "tools" /\ registry' = ran.registry
      /\ UNCHANGED <<setup, requests, round, tools, changed, turn, said, aborted>>
  BY DEF RunTools, ran
<1>5. /\ messages' \in Messages /\ at' \in Places /\ wire' \in Wires /\ shown' \in Shown
      /\ at' \in {"ask", "failed"}
  <2>1. CASE /\ messages' = messages \o <<CallMessage(round.calls), ResultMessage(round.calls, "value")>>
             /\ at' = "ask"
             /\ UNCHANGED <<wire, shown, error>>
    <3>1. <<CallMessage(round.calls), ResultMessage(round.calls, "value")>> \in Messages
      BY <1>2, PairedTwo DEF Found
    <3> QED BY <2>1, <3>1, <1>1, MessagesAlgebra DEF Typed, Places
  <2>2. CASE /\ messages' = Append(messages, CallMessage(round.calls))
             /\ Fails([code |-> "UNKNOWN", retryable |-> FALSE])
    <3>1. CallMessage(round.calls) \in Message
      BY <1>2, CallMessageIs DEF Found
    <3> QED BY <2>2, <3>1, <1>1, MessagesAlgebra, FailsIs DEF Typed, Places
  <2> QED BY <2>1, <2>2 DEF RunTools
<1> QED BY <1>1, <1>3, <1>4, <1>5 DEF TypeOK, Typed, Heeded

LEMMA ToolsChangeTyped ==
  ASSUME TypeOK, ToolsChange
  PROVE TypeOK'
<1>1. Typed /\ Heeded
  BY DEF TypeOK
<1>2. UNCHANGED <<setup, at, messages, requests, wire, round, tools, turn, shown, said, aborted, error>>
  BY DEF ToolsChange
<1>3. registry' \in Registries
  <2>1. CASE \E source \in setup.later : registry' = Register(registry, source)
    <3>1. setup.later \subseteq Source
      BY <1>1, SetupFacts DEF Typed
    <3> QED BY <2>1, <3>1, <1>1, RegisterType DEF Typed
  <2>2. CASE \E name \in DOMAIN registry.source, schema \in setup.schemas :
               registry.source[name].function /\ registry' = Redefined(registry, name, schema)
    <3>1. setup.schemas \subseteq STRING
      BY <1>1, SetupFacts DEF Typed
    <3> QED BY <2>2, <3>1, <1>1, RedefinedType DEF Typed
  <2> QED BY <2>1, <2>2 DEF ToolsChange
<1> QED BY <1>1, <1>2, <1>3 DEF TypeOK, Typed, Heeded

LEMMA AbandonIs ==
  ASSUME TypeOK, Abandon
  PROVE /\ TypeOK'
        /\ at' = "abandoned" /\ aborted = TRUE /\ round' = round /\ shown' = Flushed(Hearing)
        /\ UNCHANGED <<setup, messages, requests, toolVars, turn, said, aborted, error>>
<1>1. Typed /\ Heeded
  BY DEF TypeOK
<1>2. aborted = TRUE /\ at' = "abandoned" /\ wire' = [wire EXCEPT !.held = <<>>]
      /\ UNCHANGED <<setup, messages, requests, toolVars, turn, said, aborted, error>>
  BY <1>1 DEF Abandon, Typed
<1>3. round' = Hearing.round /\ shown' = Flushed(Hearing)
  BY <1>2, HearIs DEF Abandon
<1>4. round' = round
  BY <1>3 DEF Hearing
<1>5. shown' \in Shown
  BY <1>1, <1>3, EarType, FlushedType
<1>6. wire' \in Wires
  <2>1. wire \in Wires /\ <<>> \in Text
    BY <1>1, TextFacts DEF Typed
  <2> HIDE DEF Text, Adapters
  <2> QED BY <1>2, <2>1 DEF Wires
<1>7. TypeOK'
  BY <1>1, <1>2, <1>4, <1>5, <1>6 DEF TypeOK, Typed, Heeded, toolVars, Places
<1> QED BY <1>2, <1>3, <1>4, <1>7

LEMMA VendorFailsTyped ==
  ASSUME TypeOK, NEW fault, VendorFails(fault)
  PROVE TypeOK' /\ at' = "failed" /\ shown' = Flushed(Hearing)
<1>1. Typed /\ Heeded
  BY DEF TypeOK
<1>2. Fails(ErrorOf(setup.vendor, fault)) /\ UNCHANGED <<setup, messages, requests, round, toolVars, turn, said, aborted>>
  BY DEF VendorFails
<1>3. shown' \in Shown /\ wire' \in Wires /\ at' = "failed" /\ shown' = Flushed(Hearing)
  BY <1>1, <1>2, FailsIs
<1> QED BY <1>1, <1>2, <1>3 DEF TypeOK, Typed, Heeded, toolVars, Places

LEMMA MaskThrowsTyped ==
  ASSUME TypeOK, MaskThrows
  PROVE TypeOK'
<1>1. at' \in {"abandoned", "failed"}
      /\ UNCHANGED <<setup, messages, requests, wire, round, toolVars, turn, shown, said, aborted>>
  BY DEF MaskThrows
<1> QED BY <1>1 DEF TypeOK, Typed, Heeded, toolVars, Places

LEMMA AbortTyped ==
  ASSUME TypeOK, Abort
  PROVE TypeOK'
<1>1. aborted' = TRUE
      /\ UNCHANGED <<setup, at, messages, requests, wire, round, toolVars, turn, shown, said, error>>
  BY DEF Abort
<1> QED BY <1>1 DEF TypeOK, Typed, Heeded, toolVars

LEMMA StutterTyped ==
  ASSUME TypeOK, UNCHANGED vars
  PROVE TypeOK'
BY DEF TypeOK, Typed, Heeded, vars, toolVars

LEMMA NextTyped == TypeOK /\ [Next]_vars => TypeOK'
<1> SUFFICES ASSUME TypeOK, [Next]_vars PROVE TypeOK'
  OBVIOUS
<1>1. CASE MaskThrows
  BY <1>1, MaskThrowsTyped
<1>2. CASE Ask
  BY <1>2, AskTyped
<1>3. CASE VendorSays
  <2>1. at = "streaming"
    BY <1>3 DEF VendorSays
  <2>2. \E e \in Event : Comes(e) /\ Receive(e)
    BY <1>3, <2>1, VendorComes DEF TypeOK, Typed, Heeded
  <2> QED BY <2>2, ReceiveTyped
<1>4. CASE VendorEnds
  BY <1>4, VendorEndsTyped
<1>5. CASE \E fault \in setup.faults : VendorFails(fault)
  BY <1>5, VendorFailsTyped
<1>6. CASE EndRound
  BY <1>6, EndRoundTyped
<1>7. CASE RunTools
  BY <1>7, RunToolsTyped
<1>8. CASE ToolsChange
  BY <1>8, ToolsChangeTyped
<1>9. CASE Abort
  BY <1>9, AbortTyped
<1>10. CASE Abandon
  BY <1>10, AbandonIs
<1>11. CASE Over \/ UNCHANGED vars
  BY <1>11, StutterTyped DEF Over
<1> QED BY <1>1, <1>2, <1>3, <1>4, <1>5, <1>6, <1>7, <1>8, <1>9, <1>10, <1>11 DEF Next

(* Every state of every turn is of the model's types: the variables, and   *)
(* one list of events for each request, whatever vendor, setup and number  *)
(* of rounds.                                                              *)
THEOREM TypeCorrect == Spec => []TypeOK
BY InitTyped, NextTyped, PTL DEF Spec

-----------------------------------------------------------------------------
(* What leaves the process, and what an abort ends.                        *)

(* Only a new round adds a request.                                        *)
LEMMA RequestsGrow ==
  ASSUME TypeOK, [Next]_vars
  PROVE \/ Ask /\ requests' = Append(requests, SentOf(setup, messages))
        \/ requests' = requests /\ setup' = setup
<1>1. CASE MaskThrows
  BY <1>1 DEF MaskThrows
<1>2. CASE Ask
  BY <1>2, AskTyped
<1>3. CASE VendorSays
  <2>1. at = "streaming"
    BY <1>3 DEF VendorSays
  <2>2. PICK e \in Event : Comes(e) /\ Receive(e)
    BY <1>3, <2>1, VendorComes DEF TypeOK, Typed, Heeded
  <2>3. UNCHANGED <<setup, messages, requests, toolVars, turn, aborted>>
    BY <2>2 DEF Receive
  <2> QED BY <2>3
<1>4. CASE VendorEnds
  BY <1>4 DEF VendorEnds
<1>5. CASE \E fault \in setup.faults : VendorFails(fault)
  BY <1>5 DEF VendorFails
<1>6. CASE EndRound
  BY <1>6 DEF EndRound
<1>7. CASE RunTools
  <2>1. UNCHANGED <<setup, requests, round, tools, changed, turn, said, aborted>>
    BY <1>7 DEF RunTools
  <2> QED BY <2>1
<1>8. CASE ToolsChange
  BY <1>8 DEF ToolsChange
<1>9. CASE Abort
  BY <1>9 DEF Abort
<1>10. CASE Abandon
  BY <1>10, AbandonIs
<1>11. CASE Over \/ UNCHANGED vars
  BY <1>11 DEF Over, vars
<1> QED BY <1>1, <1>2, <1>3, <1>4, <1>5, <1>6, <1>7, <1>8, <1>9, <1>10, <1>11 DEF Next

(* The requests before it stay.                                            *)
LEMMA RequestsAppended ==
  ASSUME NEW r, r \in Requests, NEW q \in Seq(WireMessage)
  PROVE /\ Len(r) \in Nat /\ Len(Append(r, q)) = Len(r) + 1
        /\ \A i \in 1..Len(r) : Append(r, q)[i] = r[i]
        /\ Append(r, q)[Len(r) + 1] = q
        /\ DOMAIN r = 1..Len(r) /\ DOMAIN Append(r, q) = 1..(Len(r) + 1)
<1> HIDE DEF WireMessage
<1> QED BY DEF Requests

(* Where the deployment masks, no request holds a value, and no call that  *)
(* a round gathered a token.                                               *)
RequestsClean == setup.masked = TRUE => \A r \in DOMAIN requests : \A i \in DOMAIN requests[r] : Clean(requests[r][i])
RoundFull == setup.masked = TRUE => round.calls \in Seq(FullCall)

(* No step sends the real value.                                           *)
LEMMA RequestsCleanKept ==
  ASSUME TypeOK, RequestsClean, [Next]_vars
  PROVE RequestsClean'
<1>1. CASE requests' = requests /\ setup' = setup
  BY <1>1 DEF RequestsClean
<1>2. CASE Ask /\ requests' = Append(requests, SentOf(setup, messages))
  <2>1. setup' = setup
    BY <1>2 DEF Ask
  <2> DEFINE Sent == SentOf(setup, messages)
  <2>2. Sent \in Seq(WireMessage) /\ Len(Sent) = Len(messages)
        /\ \A i \in 1..Len(messages) : SentAt(setup, messages[i], Sent[i])
    BY SentIs DEF TypeOK, Typed
  <2>9. requests' = Append(requests, Sent)
    BY <1>2
  <2> HIDE DEF Sent
  <2>3. ASSUME setup.masked = TRUE, NEW i \in DOMAIN Sent
        PROVE Clean(Sent[i])
    <3>2. i \in 1..Len(messages)
      <4> HIDE DEF WireMessage
      <4> QED BY <2>2
    <3> QED BY <2>2, <2>3, <3>2 DEF SentAt
  <2>4. ASSUME setup.masked = TRUE, NEW r \in DOMAIN requests', NEW i \in DOMAIN requests'[r]
        PROVE Clean(requests'[r][i])
    <3>1. /\ Len(requests) \in Nat /\ DOMAIN requests' = 1..(Len(requests) + 1)
          /\ \A k \in 1..Len(requests) : requests'[k] = requests[k]
          /\ requests'[Len(requests) + 1] = Sent /\ DOMAIN requests = 1..Len(requests)
      BY <2>9, <2>2, RequestsAppended DEF TypeOK, Heeded
    <3>2. CASE r = Len(requests) + 1
      BY <3>1, <3>2, <2>3, <2>4
    <3>3. CASE r # Len(requests) + 1
      <4>1. r \in DOMAIN requests /\ requests'[r] = requests[r]
        BY <3>1, <3>3
      <4> QED BY <4>1, <2>4 DEF RequestsClean
    <3> QED BY <3>2, <3>3
  <2> QED BY <2>1, <2>4 DEF RequestsClean
<1> QED BY <1>1, <1>2, RequestsGrow

(* What the end of a masked stream lets go of is text.                     *)
LEMMA ClosingFull ==
  ASSUME NEW x \in Ears, x.w.round.calls \in Seq(FullCall), NEW a \in Chunks
  PROVE Closing(TRUE, x, a).w.round.calls \in Seq(FullCall)
<1> DEFINE h == RestoreChunks(x.held, a).held
           p == RestoreChunks(x.held, a).chunks
           t == FlushHeld(h).chunks
<1>1. x.held \in Text /\ x.w \in Hearings
  BY EarParts
<1>2. h \in Text /\ p \in Seq(FullChunk) /\ p \in Chunks
  <2>1. RestoreChunks(x.held, a) \in Masks
    BY <1>1, RestoreChunksFold
  <2> QED BY <1>1, <2>1, RestoreChunksFull DEF Masks
<1>3. Closing(TRUE, x, a).w = HearRegardless(x.w, p \o t)
  BY DEF Closing, Passes
<1> HIDE DEF h, p
<1>4. t = TextChunk(Restored(h)) /\ Restored(h) \in Text
  BY <1>2, RestoredType DEF FlushHeld, Restored
<1>5. t \in Seq(FullChunk) /\ t \in Chunks
  BY <1>4, FullChunkFacts, TextChunkIs, ChunkFacts
<1> HIDE DEF t
<1>6. p \o t \in Seq(FullChunk) /\ p \o t \in Chunks
  BY <1>2, <1>5, FullChunkFacts, ChunkFacts
<1> QED BY <1>1, <1>3, <1>6, HearFull

(* No step lets a token through to a tool.                                 *)
LEMMA RoundFullKept ==
  ASSUME TypeOK, RoundFull, [Next]_vars
  PROVE RoundFull'
<1>0. Typed
  BY DEF TypeOK
<1>1. CASE MaskThrows
  BY <1>1 DEF MaskThrows, RoundFull
<1>2. CASE Ask
  <2>1. setup' = setup /\ round' = NewRound
    BY <1>2 DEF Ask
  <2>2. round'.calls = <<>>
    BY <2>1 DEF NewRound
  <2>3. <<>> \in Seq(FullCall)
    <3> HIDE DEF FullCall
    <3> QED OBVIOUS
  <2> QED BY <2>2, <2>3 DEF RoundFull
<1>3. CASE VendorSays
  <2>1. at = "streaming"
    BY <1>3 DEF VendorSays
  <2>2. PICK e \in Event : Comes(e) /\ Receive(e)
    BY <1>3, <2>1, VendorComes DEF TypeOK, Typed, Heeded
  <2> DEFINE step == AdapterEvent(setup.vendor, wire.adapter, e)
             y == Hears(setup.masked, Ear, step.chunks)
  <2>3. Received(e, step, y)
    BY <2>2, <1>0, ReceiveIs
  <2>4. step.chunks \in Chunks
    <3>1. setup.vendor \in Vendors /\ wire.adapter \in Adapters
      BY <1>0, SetupFacts, EarType DEF Typed
    <3> QED BY <3>1, <2>2, AdapterEventType DEF Comes, StepTyped
  <2>5. setup' = setup /\ (round' = round \/ round' = y.w.round)
    BY <2>3 DEF Received
  <2>6. ASSUME setup.masked = TRUE PROVE y.w.round.calls \in Seq(FullCall)
    <3>1. Ear \in Ears /\ Ear.w.round.calls \in Seq(FullCall)
      BY <2>6, <1>0, EarType DEF RoundFull
    <3>2. y = Hears(TRUE, Ear, step.chunks)
      BY <2>6
    <3> HIDE DEF step, y
    <3> QED BY <3>1, <3>2, <2>4, HearsFull
  <2> HIDE DEF step, y
  <2> QED BY <2>5, <2>6 DEF RoundFull
<1>4. CASE VendorEnds
  <2> DEFINE step == AdapterEnd(setup.vendor, wire.adapter)
             y == Closing(setup.masked, Ear, step.chunks)
  <2>1. Ended(step, y)
    BY <1>0, <1>4, VendorEndsIs
  <2>2. step.chunks \in Chunks
    <3>1. setup.vendor \in Vendors /\ wire.adapter \in Adapters
      BY <1>0, SetupFacts, EarType DEF Typed
    <3> QED BY <3>1, AdapterEndType DEF StepTyped
  <2>3. setup' = setup /\ round' = y.w.round
    BY <2>1 DEF Ended
  <2>4. ASSUME setup.masked = TRUE PROVE y.w.round.calls \in Seq(FullCall)
    <3>1. Ear \in Ears /\ Ear.w.round.calls \in Seq(FullCall)
      BY <2>4, <1>0, EarType DEF RoundFull
    <3>2. y = Closing(TRUE, Ear, step.chunks)
      BY <2>4
    <3> HIDE DEF step, y
    <3> QED BY <3>1, <3>2, <2>2, ClosingFull
  <2> HIDE DEF step, y
  <2> QED BY <2>3, <2>4 DEF RoundFull
<1>5. CASE \E fault \in setup.faults : VendorFails(fault)
  BY <1>5 DEF VendorFails, RoundFull
<1>6. CASE EndRound
  BY <1>6 DEF EndRound, RoundFull
<1>7. CASE RunTools
  <2>1. UNCHANGED <<setup, requests, round, tools, changed, turn, said, aborted>>
    BY <1>7 DEF RunTools
  <2> QED BY <2>1 DEF RoundFull
<1>8. CASE ToolsChange
  BY <1>8 DEF ToolsChange, RoundFull
<1>9. CASE Abort
  BY <1>9 DEF Abort, RoundFull
<1>10. CASE Abandon
  BY <1>10, AbandonIs DEF RoundFull
<1>11. CASE Over \/ UNCHANGED vars
  BY <1>11 DEF Over, vars, RoundFull
<1> QED BY <1>1, <1>2, <1>3, <1>4, <1>5, <1>6, <1>7, <1>8, <1>9, <1>10, <1>11 DEF Next

(* Where the deployment masks: of the texts, the call inputs' strings and  *)
(* the results a turn sends, in its history and in every later round, none *)
(* is a value; and of the inputs' strings a tool runs with, none a token.  *)
(* Both follow from the branches of maskMessage and restoreChunk, whatever *)
(* the vendor, the messages and the calls; keys and numbers pass unchanged *)
(* (withMask.ts:62-68, 86-101).                                            *)
THEOREM NothingReal == Spec => []NothingRealLeaves
<1>1. Init => RequestsClean /\ RoundFull
  <2> SUFFICES ASSUME Init PROVE RequestsClean /\ RoundFull
    OBVIOUS
  <2>1. requests = <<>> /\ round.calls = <<>>
    BY DEF Init, NewRound
  <2>2. <<>> \in Seq(FullCall)
    <3> HIDE DEF FullCall
    <3> QED OBVIOUS
  <2> QED BY <2>1, <2>2 DEF RequestsClean, RoundFull
<1>2. TypeOK /\ RequestsClean /\ RoundFull => NothingRealLeaves
  <2> SUFFICES ASSUME TypeOK, RequestsClean, RoundFull, setup.masked
               PROVE /\ \A r \in DOMAIN requests : \A i \in DOMAIN requests[r] : Clean(requests[r][i])
                     /\ \A i \in DOMAIN round.calls : round.calls[i].input.strings # "token"
    BY DEF NothingRealLeaves, Clean
  <2>1. setup.masked = TRUE
    BY SetupFacts DEF TypeOK, Typed
  <2>2. \A i \in DOMAIN round.calls : round.calls[i] \in FullCall
    <3>1. round.calls \in Seq(FullCall)
      BY <2>1 DEF RoundFull
    <3> HIDE DEF FullCall
    <3> QED BY <3>1
  <2> QED BY <2>1, <2>2 DEF RequestsClean, FullCall
<1> QED BY <1>1, <1>2, RequestsCleanKept, RoundFullKept, TypeCorrect, PTL DEF Spec

(* An aborted turn is neither behind a round nor through.                  *)
AbortStops == aborted = TRUE => at \notin {"ended", "done"}

(* ... and no step changes that.                                           *)
LEMMA AbortStopsKept ==
  ASSUME TypeOK, AbortStops, [Next]_vars
  PROVE AbortStops'
<1>1. CASE MaskThrows
  BY <1>1 DEF MaskThrows, AbortStops
<1>2. CASE Ask
  BY <1>2 DEF Ask, AbortStops
<1>3. CASE VendorSays
  <2>1. at = "streaming"
    BY <1>3 DEF VendorSays
  <2>2. PICK e \in Event : Comes(e) /\ Receive(e)
    BY <1>3, <2>1, VendorComes DEF TypeOK, Typed, Heeded
  <2>3. aborted' = aborted /\ ~aborted
    BY <2>2 DEF Receive
  <2> QED BY <2>3 DEF AbortStops
<1>4. CASE VendorEnds
  BY <1>4 DEF VendorEnds, AbortStops
<1>5. CASE \E fault \in setup.faults : VendorFails(fault)
  BY <1>5 DEF VendorFails, Fails, AbortStops
<1>6. CASE EndRound
  BY <1>6 DEF EndRound, AbortStops
<1>7. CASE RunTools
  <2>1. ~aborted /\ UNCHANGED <<setup, requests, round, tools, changed, turn, said, aborted>>
    BY <1>7 DEF RunTools
  <2> QED BY <2>1 DEF AbortStops
<1>8. CASE ToolsChange
  BY <1>8 DEF ToolsChange, AbortStops
<1>9. CASE Abort
  BY <1>9 DEF Abort, AbortStops
<1>10. CASE Abandon
  BY <1>10, AbandonIs DEF AbortStops
<1>11. CASE Over \/ UNCHANGED vars
  BY <1>11 DEF Over, vars, AbortStops
<1> QED BY <1>1, <1>2, <1>3, <1>4, <1>5, <1>6, <1>7, <1>8, <1>9, <1>10, <1>11 DEF Next

(* After an abort nothing is asked, added up or shown but what the parser  *)
(* still kept.                                                             *)
QuietStep ==
    aborted => /\ requests' = requests /\ turn' = turn
               /\ \/ shown' = shown
                  \/ shown'.segments = shown.segments
                         \o Segment(shown.parser.insideThinking, shown.parser.buffer)

(* So it is with every step.                                               *)
LEMMA QuietSteps ==
  ASSUME TypeOK, AbortStops, [Next]_vars
  PROVE QuietStep
<1> SUFFICES ASSUME aborted
             PROVE /\ requests' = requests /\ turn' = turn
                   /\ \/ shown' = shown
                      \/ shown'.segments = shown.segments
                             \o Segment(shown.parser.insideThinking, shown.parser.buffer)
  BY DEF QuietStep
<1>0. aborted = TRUE
  BY DEF TypeOK, Typed
<1>1. CASE MaskThrows
  BY <1>1 DEF MaskThrows
<1>2. CASE Ask
  BY <1>2 DEF Ask
<1>3. CASE VendorSays
  <2>1. at = "streaming"
    BY <1>3 DEF VendorSays
  <2>2. PICK e \in Event : Comes(e) /\ Receive(e)
    BY <1>3, <2>1, VendorComes DEF TypeOK, Typed, Heeded
  <2> QED BY <2>2 DEF Receive
<1>4. CASE VendorEnds
  BY <1>4 DEF VendorEnds
<1>5. CASE \E fault \in setup.faults : VendorFails(fault)
  BY <1>5 DEF VendorFails
<1>6. CASE EndRound
  BY <1>0, <1>6 DEF EndRound, AbortStops
<1>7. CASE RunTools
  BY <1>7 DEF RunTools
<1>8. CASE ToolsChange
  BY <1>8 DEF ToolsChange
<1>9. CASE Abort
  BY <1>9 DEF Abort
<1>10. CASE Abandon
  <2>1. requests' = requests /\ turn' = turn /\ shown' = Flushed(Hearing)
    BY <1>10, AbandonIs
  <2>2. Hearing \in Hearings /\ Hearing.shown = shown
    BY EarType DEF TypeOK, Hearing
  <2> QED BY <2>1, <2>2, FlushedType
<1>11. CASE Over \/ UNCHANGED vars
  BY <1>11 DEF Over, vars
<1> QED BY <1>1, <1>2, <1>3, <1>4, <1>5, <1>6, <1>7, <1>8, <1>9, <1>10, <1>11 DEF Next

(* No step after an abort asks the vendor, adds to the turn's totals or    *)
(* shows more than what the parser had kept back (chatOrchestrator.ts:135, *)
(* messageHandler.ts:228).                                                 *)
THEOREM AbortQuiet == Spec => QuietAfterAbort
<1>1. Init => AbortStops
  BY DEF Init, AbortStops
<1>2. TypeOK /\ AbortStops /\ [Next]_vars => [QuietStep]_vars
  BY QuietSteps
<1>3. Spec => [][QuietStep]_vars
  BY <1>1, <1>2, AbortStopsKept, TypeCorrect, PTL DEF Spec
<1>4. Spec => QuietAfterAbort
  BY <1>3 DEF QuietAfterAbort, QuietStep
<1> QED BY <1>4

(* What a vendor accepts.                                                  *)

-----------------------------------------------------------------------------
(* What is asked of a vendor.                                              *)

(* ProviderTurn's Answered, of any vendor: the calls at i have their       *)
(* results behind them.                                                    *)
AnsweredBy(vendor, request, i) ==
    /\ i < Len(request) /\ request[i + 1].kind = "tool_result" /\ request[i + 1].role = "user"
    /\ Len(request[i + 1].names) = Len(request[i].names)
    /\ vendor # "vertex" => request[i + 1].names = request[i].names

(* No vendor would refuse the request.                                     *)
Accepted(vendor, request) ==
    /\ request # <<>> /\ request[1].role = "user" /\ request[1].kind = "text"
    /\ \A i \in DOMAIN request :
        /\ request[i].kind = "tool_use" => AnsweredBy(vendor, request, i)
        /\ request[i].kind = "tool_result" => request[i - 1].kind = "tool_use"

(* A paired conversation that opens with the user's text is accepted.      *)
LEMMA SentAccepted ==
  ASSUME NEW s \in Setups, NEW ms \in PairedMessages, ms # <<>>, OpensWithUserText(ms[1])
  PROVE Accepted(s.vendor, SentOf(s, ms))
<1> DEFINE q == SentOf(s, ms)
           n == Len(ms)
<1>0. ms \in Messages /\ Paired(ms)
  BY DEF PairedMessages
<1>1. q \in Seq(WireMessage) /\ Len(q) = n /\ \A i \in 1..n : SentAt(s, ms[i], q[i])
  BY <1>0, SentIs
<1>2. n \in Nat /\ n # 0
  <2> HIDE DEF Message
  <2> QED BY <1>0 DEF Messages
<1> HIDE DEF q
<1>3. DOMAIN q = 1..n /\ q # <<>>
  <2> HIDE DEF n, WireMessage
  <2> QED BY <1>1, <1>2
<1>4. q[1].role = "user" /\ q[1].kind = "text"
  BY <1>1, <1>2 DEF SentAt, OpensWithUserText
<1>5. ASSUME NEW i \in 1..n
      PROVE /\ q[i].kind = "tool_use" => AnsweredBy(s.vendor, q, i)
            /\ q[i].kind = "tool_result" => q[i - 1].kind = "tool_use"
  <2>1. SentAt(s, ms[i], q[i])
    BY <1>1
  <2>2. ASSUME q[i].kind = "tool_use" PROVE AnsweredBy(s.vendor, q, i)
    <3>1. AnsweredAt(ms, i)
      BY <2>1, <2>2, <1>0 DEF Paired, SentAt
    <3>2. i + 1 \in 1..n /\ i < n
      BY <3>1, <1>2 DEF AnsweredAt
    <3>3. SentAt(s, ms[i + 1], q[i + 1])
      BY <1>1, <3>2
    <3> HIDE DEF n
    <3>4. q[i + 1].kind = "tool_result" /\ q[i + 1].role = "user"
      BY <3>1, <3>3 DEF AnsweredAt, SentAt
    <3>5. Len(q[i + 1].names) = Len(q[i].names)
      BY <3>1, <3>3, <2>1 DEF AnsweredAt, SentAt
    <3>6. s.vendor # "vertex" => q[i + 1].names = q[i].names
      BY <3>1, <3>3, <2>1 DEF AnsweredAt, SentAt
    <3>7. i < Len(q)
      BY <3>2, <1>1
    <3> QED BY <3>4, <3>5, <3>6, <3>7 DEF AnsweredBy
  <2>3. ASSUME q[i].kind = "tool_result" PROVE q[i - 1].kind = "tool_use"
    <3>1. i > 1 /\ ms[i - 1].kind = "tool_use"
      BY <2>1, <2>3, <1>0 DEF Paired, SentAt
    <3>2. i - 1 \in 1..n
      BY <3>1, <1>2
    <3> QED BY <3>1, <3>2, <1>1 DEF SentAt
  <2> QED BY <2>2, <2>3
<1> QED BY <1>3, <1>4, <1>5 DEF Accepted, q

(* A longer conversation is sent as the shorter one and more.              *)
LEMMA SentPrefix ==
  ASSUME NEW s \in Setups, NEW a \in Messages, NEW b \in Messages
  PROVE IsPrefix(SentOf(s, a), SentOf(s, a \o b))
<1> DEFINE p == SentOf(s, a)
           q == SentOf(s, a \o b)
           c == a \o b
<1>1. c \in Messages /\ Len(c) = Len(a) + Len(b) /\ Len(a) \in Nat /\ Len(b) \in Nat
  BY MessagesAlgebra
<1>2. \A i \in 1..Len(a) : c[i] = a[i]
  BY MessagesAt
<1>3. DOMAIN a = 1..Len(a) /\ DOMAIN c = 1..Len(c)
  BY <1>1, MessagesDomain
<1>4. p \in Seq(WireMessage) /\ Len(p) = Len(a) /\ q \in Seq(WireMessage) /\ Len(q) = Len(c)
  BY <1>1, SentIs
<1> HIDE DEF c
<1>5. \A i \in 1..Len(a) : q[i] = p[i]
  <2> TAKE i \in 1..Len(a)
  <2>1. i \in DOMAIN a /\ i \in DOMAIN c /\ c[i] = a[i]
    BY <1>1, <1>2, <1>3
  <2>2. p[i] = WireOf(s, MaskedOf(s, a[i]))
    BY <2>1 DEF SentOf
  <2>3. SentOf(s, c)[i] = WireOf(s, MaskedOf(s, c[i]))
    BY <2>1 DEF SentOf
  <2> QED BY <2>1, <2>2, <2>3 DEF c
<1> HIDE DEF p, q
<1>6. IsPrefix(p, q)
  BY <1>1, <1>4, <1>5, PrefixPointwise
<1> QED BY <1>6 DEF p, q

-----------------------------------------------------------------------------
(* The conversation the first round asks with.                             *)
Opening == LongestAdmissible(ToContentMessages(setup.entries), setup)

(* The messages while the turn goes on, and the requests made of them.     *)
Converses ==
    /\ messages \in PairedMessages /\ messages # <<>> /\ OpensWithUserText(messages[1])
    /\ at = "ask" =>
         /\ Len(messages) = Len(Opening) + 2 * Len(requests)
         /\ requests # <<>> => IsPrefix(requests[Len(requests)], SentOf(setup, messages))
    /\ at # "ask" =>
         /\ Len(messages) = Len(Opening) + 2 * (Len(requests) - 1)
         /\ requests[Len(requests)] = SentOf(setup, messages)

(* While the turn goes on, every round has added its calls and their       *)
(* results.                                                                *)
Conversing == at \in {"ask", "streaming", "ended", "tools"} => Converses

(* A request is accepted, has the length its round gives it, and begins    *)
(* with the last.                                                          *)
RequestFine(r) ==
    /\ Accepted(setup.vendor, requests[r]) /\ Len(requests[r]) = Len(Opening) + 2 * (r - 1)
    /\ r > 1 => IsPrefix(requests[r - 1], requests[r])

(* So it is with every request.                                            *)
Requested == \A r \in 1..Len(requests) : RequestFine(r)

(* Every round offered the tools read when the turn began.                 *)
Offered ==
    /\ tools = [read |-> tools.read, offered |-> tools.offered]
    /\ tools.offered \in Seq({tools.read}) /\ Len(tools.offered) = Len(requests)

(* All of it holds when a turn begins, and of the next request.            *)
LEMMA InitConverses == Init => Conversing /\ Requested /\ Offered
<1> SUFFICES ASSUME Init PROVE Conversing /\ Requested /\ Offered
  OBVIOUS
<1>1. setup \in Setups /\ at = "ask" /\ requests = <<>> /\ messages = ToMessages(setup.entries, setup)
      /\ tools = [read |-> TurnTools, offered |-> <<>>]
  BY DEF Init
<1>2. messages \in PairedMessages /\ messages # <<>> /\ OpensWithUserText(messages[1]) /\ messages = Opening
  BY <1>1, ToMessagesBegins DEF Begun, Opening
<1>3. Len(messages) \in Nat /\ Len(requests) = 0
  BY <1>1, <1>2, MessagesDomain DEF PairedMessages
<1>4. Conversing
  BY <1>1, <1>2, <1>3 DEF Conversing, Converses
<1>5. Requested
  BY <1>3 DEF Requested
<1>6. Offered
  <2> DEFINE r == TurnTools
  <2>1. tools = [read |-> r, offered |-> <<>>]
    BY <1>1
  <2> HIDE DEF r
  <2>2. tools.read = r /\ tools.offered = <<>>
    BY <2>1
  <2> QED BY <2>1, <2>2, <1>3 DEF Offered
<1> QED BY <1>4, <1>5, <1>6

LEMMA AskConverses ==
  ASSUME TypeOK, Conversing, Requested, Offered, Ask
  PROVE Conversing' /\ Requested' /\ Offered'
<1> DEFINE q == SentOf(setup, messages)
           n == Len(requests)
<1>1. /\ at = "ask" /\ at' = "streaming" /\ requests' = Append(requests, q)
      /\ UNCHANGED <<setup, messages>>
      /\ tools' = [tools EXCEPT !.offered = Append(@, tools.read)]
  BY AskTyped DEF Ask
<1>2. Converses
  BY <1>1 DEF Conversing
<1>3. /\ messages \in PairedMessages /\ messages # <<>> /\ OpensWithUserText(messages[1])
      /\ Len(messages) = Len(Opening) + 2 * n
      /\ requests # <<>> => IsPrefix(requests[n], q)
  BY <1>1, <1>2 DEF Converses
<1>4. setup \in Setups /\ messages \in Messages /\ requests \in Requests
  BY <1>3 DEF PairedMessages, TypeOK, Typed, Heeded
<1>5. Accepted(setup.vendor, q) /\ q \in Seq(WireMessage) /\ Len(q) = Len(messages)
  BY <1>3, <1>4, SentAccepted, SentIs
<1>6. SentOf(setup', messages') = q /\ Opening' = Opening
  BY <1>1 DEF Opening
<1> HIDE DEF q
<1>7. /\ n \in Nat /\ Len(requests') = n + 1
      /\ \A i \in 1..n : requests'[i] = requests[i]
      /\ requests'[n + 1] = q
  BY <1>1, <1>4, <1>5, RequestsAppended
<1>71. Len(messages) \in Nat
  BY <1>4, MessagesDomain
<1>8. Conversing'
  <2>1. n + 1 - 1 = n
    BY <1>7
  <2>2. Len(messages') = Len(Opening') + 2 * (Len(requests') - 1)
    BY <1>1, <1>3, <1>6, <1>7, <2>1
  <2> HIDE DEF n
  <2> QED BY <1>1, <1>3, <1>6, <1>7, <2>2 DEF Conversing, Converses
<1>9. Requested'
  <2> SUFFICES ASSUME NEW r \in 1..(n + 1)
               PROVE /\ Accepted(setup.vendor, requests'[r]) /\ Len(requests'[r]) = Len(Opening) + 2 * (r - 1)
                     /\ r > 1 => IsPrefix(requests'[r - 1], requests'[r])
    BY <1>6, <1>7, <1>1 DEF Requested, RequestFine
  <2>1. CASE r = n + 1
    <3>1. Accepted(setup.vendor, requests'[r]) /\ Len(requests'[r]) = Len(Opening) + 2 * (r - 1)
      BY <1>3, <1>5, <1>7, <2>1
    <3>2. ASSUME r > 1 PROVE IsPrefix(requests'[r - 1], requests'[r])
      <4>1. n \in 1..n /\ r - 1 = n
        BY <1>7, <2>1, <3>2
      <4>2. requests # <<>>
        BY <4>1
      <4>3. requests'[n] = requests[n]
        BY <4>1, <1>7
      <4> HIDE DEF n
      <4> QED BY <4>1, <4>2, <4>3, <1>3, <1>7, <2>1
    <3> QED BY <3>1, <3>2
  <2>2. CASE r # n + 1
    <3>1. r \in 1..n
      BY <1>7, <2>2
    <3>2. RequestFine(r)
      BY <3>1 DEF Requested
    <3>3. r > 1 => r - 1 \in 1..n
      BY <3>1, <1>7
    <3> QED BY <3>1, <3>2, <3>3, <1>7 DEF RequestFine
  <2> QED BY <2>1, <2>2
<1>10. Offered'
  <2> DEFINE a == tools.read
             b == tools.offered
  <2>1. tools = [read |-> a, offered |-> b] /\ b \in Seq({a}) /\ Len(b) = n
    BY DEF Offered
  <2>2. tools' = [tools EXCEPT !.offered = Append(b, a)]
    BY <1>1
  <2> HIDE DEF a, b, n
  <2>3. tools' = [read |-> a, offered |-> Append(b, a)]
    BY <2>1, <2>2
  <2>4. tools'.read = a /\ tools'.offered = Append(b, a)
    BY <2>3
  <2>5. Append(b, a) \in Seq({a}) /\ Len(Append(b, a)) = n + 1
    BY <2>1
  <2> QED BY <2>3, <2>4, <2>5, <1>7 DEF Offered
<1> QED BY <1>8, <1>9, <1>10

(* The turn goes on.                                                       *)
Underway == {"ask", "streaming", "ended", "tools"}

(* A step without a request changes no request; one that leaves the        *)
(* messages alone leaves the conversation.                                 *)
LEMMA RequestedKept ==
  ASSUME Requested, Offered, UNCHANGED <<setup, requests, tools>>
  PROVE Requested' /\ Offered'
BY DEF Requested, RequestFine, Offered, Opening

LEMMA ConversingKept ==
  ASSUME Conversing, UNCHANGED <<setup, messages, requests>>,
         at' \in Underway => at \in Underway /\ (at' = "ask" <=> at = "ask")
  PROVE Conversing'
<1> SUFFICES ASSUME at' \in Underway PROVE Converses'
  BY DEF Conversing, Underway
<1>1. at \in Underway /\ (at' = "ask" <=> at = "ask")
  OBVIOUS
<1>2. Converses
  BY <1>1 DEF Conversing, Underway
<1> QED BY <1>1, <1>2 DEF Converses, Opening

(* The calls of a round and their results lengthen the conversation by     *)
(* two.                                                                    *)
LEMMA RunToolsConverses ==
  ASSUME TypeOK, Conversing, RunTools
  PROVE Conversing'
<1> DEFINE two == <<CallMessage(round.calls), ResultMessage(round.calls, "value")>>
           n == Len(requests)
<1>1. at = "tools" /\ UNCHANGED <<setup, requests>>
  BY DEF RunTools
<1>2. CASE messages' = messages \o two /\ at' = "ask"
  <2>1. Converses
    BY <1>1 DEF Conversing
  <2>2. /\ messages \in PairedMessages /\ messages # <<>> /\ OpensWithUserText(messages[1])
        /\ Len(messages) = Len(Opening) + 2 * (n - 1) /\ requests[n] = SentOf(setup, messages)
    BY <2>1, <1>1 DEF Converses
  <2>3. round.calls \in Seq(Call)
    BY HearingParts, EarType DEF TypeOK, Typed, Hearing
  <2>4. two \in PairedMessages /\ two \in Messages
    BY <2>3, PairedTwo DEF PairedMessages, Found
  <2>5. Len(two) = 2
    OBVIOUS
  <2> HIDE DEF two
  <2>6. messages' \in PairedMessages
    BY <1>2, <2>2, <2>4, PairedAlgebra
  <2>7. messages \in Messages /\ Len(messages) \in Nat /\ setup \in Setups
    BY <2>2, MessagesDomain DEF PairedMessages, TypeOK, Typed
  <2>8. Len(messages') = Len(messages) + 2
    <3>1. Len(messages \o two) = Len(messages) + Len(two)
      BY <2>4, <2>7, MessagesAlgebra
    <3> QED BY <3>1, <1>2, <2>5
  <2>9. messages'[1] = messages[1] /\ messages' # <<>>
    <3>1. Len(messages) # 0 /\ <<>> \in Messages
      <4> HIDE DEF Message
      <4> QED BY <2>2, <2>7 DEF Messages
    <3>2. (messages \o two)[1] = messages[1]
      BY <3>1, <2>7, <2>4, MessagesAt
    <3>3. messages' # <<>>
      BY <3>1, <2>8, <2>7
    <3> QED BY <3>2, <3>3, <1>2
  <2>10. IsPrefix(SentOf(setup, messages), SentOf(setup, messages'))
    BY <1>2, <2>4, <2>7, SentPrefix
  <2>11. Opening \in Messages /\ Len(Opening) \in Nat /\ n \in Nat
    <3>1. Opening \in PairedMessages
      BY <2>7, ToMessagesBegins DEF Begun, Opening
    <3>2. requests \in Requests
      BY DEF TypeOK, Heeded
    <3>3. n \in Nat
      <4> HIDE DEF WireMessage
      <4> QED BY <3>2 DEF Requests
    <3> QED BY <3>1, <3>3, MessagesDomain DEF PairedMessages
  <2>12. Len(messages') = Len(Opening) + 2 * n
    BY <2>2, <2>7, <2>8, <2>11
  <2>13. Opening' = Opening
    BY <1>1 DEF Opening
  <2> QED BY <1>1, <1>2, <2>2, <2>6, <2>9, <2>10, <2>12, <2>13 DEF Conversing, Converses
<1>3. CASE at' = "failed"
  BY <1>3 DEF Conversing
<1>4. (messages' = messages \o two /\ at' = "ask") \/ at' = "failed"
  BY DEF RunTools, Fails
<1> QED BY <1>2, <1>3, <1>4

(* The inductive invariant of the requests, with the type.                 *)
Holds == Conversing /\ Requested /\ Offered

(* No step breaks it.                                                      *)
LEMMA NextConverses ==
  ASSUME TypeOK, Holds, [Next]_vars
  PROVE Holds'
<1>0. Conversing /\ Requested /\ Offered
  BY DEF Holds
<1>1. CASE MaskThrows
  <2>1. UNCHANGED <<setup, messages, requests, tools>> /\ at' \in {"failed", "abandoned"}
    BY <1>1 DEF MaskThrows, toolVars
  <2> QED BY <1>0, <2>1, ConversingKept, RequestedKept DEF Holds, Underway
<1>2. CASE Ask
  BY <1>0, <1>2, AskConverses DEF Holds
<1>3. CASE VendorSays
  <2>1. at = "streaming"
    BY <1>3 DEF VendorSays
  <2>2. PICK e \in Event : Comes(e) /\ Receive(e)
    BY <1>3, <2>1, VendorComes DEF TypeOK, Typed, Heeded
  <2>3. UNCHANGED <<setup, messages, requests, tools>> /\ at' \in {"ended", "streaming", "failed"}
    BY <2>2 DEF Receive, Fails, toolVars
  <2> QED BY <1>0, <2>1, <2>3, ConversingKept, RequestedKept DEF Holds, Underway
<1>4. CASE VendorEnds
  <2>1. UNCHANGED <<setup, messages, requests, tools>> /\ at = "streaming" /\ at' = "ended"
    BY <1>4 DEF VendorEnds, toolVars
  <2> QED BY <1>0, <2>1, ConversingKept, RequestedKept DEF Holds, Underway
<1>5. CASE \E fault \in setup.faults : VendorFails(fault)
  <2>1. UNCHANGED <<setup, messages, requests, tools>> /\ at' = "failed"
    BY <1>5 DEF VendorFails, Fails, toolVars
  <2> QED BY <1>0, <2>1, ConversingKept, RequestedKept DEF Holds, Underway
<1>6. CASE EndRound
  <2>1. UNCHANGED <<setup, messages, requests, tools>> /\ at = "ended" /\ at' \in {"tools", "done"}
    BY <1>6 DEF EndRound, toolVars
  <2> QED BY <1>0, <2>1, ConversingKept, RequestedKept DEF Holds, Underway
<1>7. CASE RunTools
  <2>1. UNCHANGED <<setup, requests, tools>>
    BY <1>7 DEF RunTools
  <2> QED BY <1>0, <1>7, <2>1, RunToolsConverses, RequestedKept DEF Holds
<1>8. CASE ToolsChange
  <2>1. UNCHANGED <<setup, at, messages, requests, tools>>
    BY <1>8 DEF ToolsChange
  <2> QED BY <1>0, <2>1, ConversingKept, RequestedKept DEF Holds, Underway
<1>9. CASE Abort
  <2>1. UNCHANGED <<setup, at, messages, requests, tools>>
    BY <1>9 DEF Abort, toolVars
  <2> QED BY <1>0, <2>1, ConversingKept, RequestedKept DEF Holds, Underway
<1>10. CASE Abandon
  <2>1. UNCHANGED <<setup, messages, requests, tools>> /\ at' = "abandoned"
    BY <1>10, AbandonIs DEF toolVars
  <2> QED BY <1>0, <2>1, ConversingKept, RequestedKept DEF Holds, Underway
<1>11. CASE Over \/ UNCHANGED vars
  <2>1. UNCHANGED <<setup, at, messages, requests, tools>>
    BY <1>11 DEF Over, vars, toolVars
  <2> QED BY <1>0, <2>1, ConversingKept, RequestedKept DEF Holds, Underway
<1> QED BY <1>1, <1>2, <1>3, <1>4, <1>5, <1>6, <1>7, <1>8, <1>9, <1>10, <1>11 DEF Next

(* It is what the model states of requests.                                *)
LEMMA FineAcceptable ==
  ASSUME TypeOK, Holds
  PROVE RequestAcceptable
<1> DEFINE n == Len(requests)
<1>0. Requested /\ Offered
  BY DEF Holds
<1>1. n \in Nat /\ DOMAIN requests = 1..n
  <2>1. requests \in Requests
    BY DEF TypeOK, Heeded
  <2> HIDE DEF WireMessage
  <2> QED BY <2>1 DEF Requests
<1>2. ASSUME NEW r \in DOMAIN requests
      PROVE LET request == requests[r] IN
            /\ request # <<>> /\ request[1].role = "user" /\ request[1].kind = "text"
            /\ \A i \in DOMAIN request :
                /\ request[i].kind = "tool_use" => Answered(request, i)
                /\ request[i].kind = "tool_result" => request[i - 1].kind = "tool_use"
            /\ Len(request) = Len(requests[1]) + 2 * (r - 1)
            /\ r = 1 => Len(request) = Len(LongestAdmissible(ToContentMessages(setup.entries), setup))
            /\ r > 1 => IsPrefix(requests[r - 1], request) /\ tools.offered[r] = tools.offered[r - 1]
  <2> DEFINE request == requests[r]
  <2>0. r \in 1..n /\ 1 \in 1..n
    BY <1>1, <1>2
  <2>1. RequestFine(r) /\ RequestFine(1)
    BY <1>0, <2>0 DEF Requested
  <2>2. Accepted(setup.vendor, request)
    BY <2>1 DEF RequestFine
  <2>3. \A i : AnsweredBy(setup.vendor, request, i) <=> Answered(request, i)
    BY DEF AnsweredBy, Answered
  <2>4. Len(Opening) \in Nat
    <3>1. Opening \in PairedMessages
      BY ToMessagesBegins DEF Begun, Opening, TypeOK, Typed
    <3> QED BY <3>1, MessagesDomain DEF PairedMessages
  <2>5. Len(request) = Len(requests[1]) + 2 * (r - 1) /\ Len(requests[1]) = Len(Opening)
    BY <2>0, <2>1, <2>4 DEF RequestFine
  <2>6. ASSUME r > 1 PROVE tools.offered[r] = tools.offered[r - 1]
    <3> DEFINE o == tools.offered
               a == tools.read
    <3>1. o \in Seq({a}) /\ Len(o) = n
      BY <1>0 DEF Offered
    <3>2. r - 1 \in 1..n
      BY <2>0, <2>6, <1>1
    <3> HIDE DEF o, a, n
    <3>3. o[r] = a /\ o[r - 1] = a
      BY <3>1, <3>2, <2>0
    <3> QED BY <3>3 DEF o
  <2>7. r > 1 => IsPrefix(requests[r - 1], request)
    BY <2>1 DEF RequestFine
  <2> HIDE DEF request
  <2>8. /\ request # <<>> /\ request[1].role = "user" /\ request[1].kind = "text"
        /\ \A i \in DOMAIN request :
            /\ request[i].kind = "tool_use" => Answered(request, i)
            /\ request[i].kind = "tool_result" => request[i - 1].kind = "tool_use"
    BY <2>2, <2>3 DEF Accepted
  <2>9. r = 1 => Len(request) = Len(LongestAdmissible(ToContentMessages(setup.entries), setup))
    BY <2>5 DEF Opening, request
  <2> QED BY <2>5, <2>6, <2>7, <2>8, <2>9 DEF request
<1>3. at = "tools" => ExecuteAll(registry, round.calls).answers =
                            [i \in DOMAIN round.calls |-> AsDefined(registry, round.calls[i])]
  <2>1. round.calls \in Seq(Call) /\ registry \in Registries
    BY HearingParts, EarType DEF TypeOK, Typed, Hearing
  <2> QED BY <2>1, ExecuteAllTells DEF Told
<1> QED BY <1>2, <1>3 DEF RequestAcceptable

(* No vendor has cause to refuse a request of any turn: it opens with a    *)
(* user's text, calls and results are paired, the first is the longest end *)
(* of the conversation the bounds admit, later ones begin with the         *)
(* earlier, all rounds offer the same tools, and every call is answered as *)
(* its tool is defined, whatever has been cached (conversationContext.ts,  *)
(* registry.ts).                                                           *)
THEOREM Acceptable == Spec => []RequestAcceptable
<1>1. Init => Holds
  BY InitConverses DEF Holds
<1>2. TypeOK /\ Holds /\ [Next]_vars => Holds'
  BY NextConverses
<1>3. TypeOK /\ Holds => RequestAcceptable
  BY FineAcceptable
<1> QED BY <1>1, <1>2, <1>3, TypeCorrect, PTL DEF Spec

(* What is heard of a mock's turn.                                         *)

-----------------------------------------------------------------------------
(* The end of a stream, and what all rounds read as.                       *)

(* What is heard of a script.                                              *)
MockHeard(m, base, x, events, e, y) ==
    /\ Ends(m, base, y, Append(events, e)) /\ Finished(base, y)
    /\ Ids(y.w.round.calls) = Ids(x.w.round.calls) \o CallsIn(UtterancesOf(e))
    /\ y.w.round.stopReason = MockStop(e.calls)
    /\ y.w.round.usage = Newer(MockUsage(e), x.w.round.usage)

(* So it is with every script.                                             *)
LEMMA MockHears ==
  ASSUME StandsApart, NEW m \in BOOLEAN, NEW base \in ReadResult, NEW x, NEW events \in Events,
         Listens(m, base, x, Rendering(m, Utterances(events))), NEW e \in Event, e.kind = "turn"
  PROVE MockHeard(m, base, x, events, e, Hears(m, x, ScriptedChunks(e)))
<1> DEFINE chunks == WordChunks(e.words) \o CallChunks(e.calls)
           says == WordsSaid(e.words) \o CallsSaid(e.calls)
           r == MockStop(e.calls)
           u == MockUsage(e)
           c == StopChunk(r, u)
           us == Utterances(events)
           z == Hears(m, x, chunks)
           y == Hears(m, x, ScriptedChunks(e))
           next == Append(events, e)
<1>1. /\ ScriptedChunks(e) = chunks \o <<c>>
      /\ WordChunks(e.words) \in Chunks /\ CallChunks(e.calls) \in Chunks
      /\ e.words \in Seq(Text) /\ e.calls \in Seq(Call) /\ chunks \in Chunks
      /\ r \in StopReason /\ u \in Nat
  BY ScriptIs
<1>2. x \in Ears
  BY ListensReady
<1>3. us \in Sayings /\ Utterances(next) = us \o UtterancesOf(e) /\ UtterancesOf(e) = says /\ next \in Events
  BY UtterancesFold, EventSays, EventsFacts
<1>4. Carries(m, base, says, chunks)
  <2>1. WordsSaid(e.words) \in Sayings /\ CallsSaid(e.calls) \in Sayings
    BY <1>1, WordsFold, CallsFold
  <2>2. Carries(m, base, WordsSaid(e.words), WordChunks(e.words))
    BY <1>1, CarriesWords
  <2>3. Carries(m, base, CallsSaid(e.calls), CallChunks(e.calls))
    BY <1>1, CarriesCalls
  <2> QED BY <1>1, <2>1, <2>2, <2>3, CarriesBoth
<1>5. Listens(m, base, z, Rendering(m, Utterances(next))) /\ Counted(x, z, UtterancesOf(e))
  <2> HIDE DEF us, z, chunks, says, next
  <2>1. Listens(m, base, x, Rendering(m, us))
    BY DEF us
  <2>2. Listens(m, base, z, Rendering(m, us \o says)) /\ Counted(x, z, says)
    BY <1>3, <1>4, <2>1 DEF Carries, z
  <2> QED BY <1>3, <2>2
<1>6. <<c>> \in Chunks
  BY <1>1, ChunkFacts
<1>7. y = Hears(m, z, <<c>>)
  <2> HIDE DEF chunks, c
  <2>1. Hears(m, x, chunks \o <<c>>) = Hears(m, Hears(m, x, chunks), <<c>>)
    BY <1>1, <1>2, <1>6, HearsConcat
  <2> QED BY <2>1, <1>1
<1> HIDE DEF z, next
<1>8. Ready(m, base, z) /\ HeardOf(m, z, next)
  BY <1>3, <1>5, ListensReady, ListensHeard
<1> HIDE DEF r, u
<1>9. StoppedWith(m, base, z, next, r, u, y)
  BY <1>1, <1>7, <1>8, StopEnds
<1> HIDE DEF y, says, us
<1>10. MockHeard(m, base, x, events, e, y)
  BY <1>5, <1>9 DEF MockHeard, StoppedWith, Counted, next, r, u
<1> QED BY <1>10 DEF y

(* The end of a stream that brings no stop: what was held is let go of.    *)
LEMMA ClosingNothing ==
  ASSUME NEW m \in BOOLEAN, NEW x \in Ears, Keeps(m, x.held)
  PROVE Closing(m, x, <<>>) = Released(x)
<1> DEFINE h == x.held
<1>1. h \in Text /\ PutBack(m, h) = h /\ (m = FALSE => h = <<>>)
  BY KeptIsText
<1>2. Passes(m, h, <<>>).held = h /\ Passes(m, h, <<>>).chunks = <<>>
  BY <1>1, PassesFacts
<1>3. FlushHeld(h).chunks = TextChunk(Restored(h))
  BY DEF FlushHeld, Restored
<1>4. m = TRUE => Restored(h) = h
  BY <1>1, PutBackFacts
<1>5. (IF m THEN FlushHeld(h).chunks ELSE <<>>) = TextChunk(h)
  <2>1. CASE m = TRUE
    BY <1>3, <1>4, <2>1
  <2>2. CASE m = FALSE
    BY <1>1, <2>2, TextChunkIs
  <2> QED BY <2>1, <2>2
<1>6. <<>> \o TextChunk(h) = TextChunk(h)
  BY <1>1, TextChunkIs, ChunksAlgebra
<1> QED BY <1>2, <1>5, <1>6 DEF Closing, Released

(* The end of one that brings its stop.                                    *)
LEMMA ClosingStop ==
  ASSUME NEW m \in BOOLEAN, NEW x \in Ears, Keeps(m, x.held), NEW r \in StopReason, NEW u \in Nat
  PROVE Closing(m, x, <<StopChunk(r, u)>>) = Hears(m, x, <<StopChunk(r, u)>>)
<1> DEFINE c == <<StopChunk(r, u)>>
           p == Passes(m, x.held, c)
<1>1. p.held = <<>> /\ p.chunks = TextChunk(x.held) \o c
  BY PassesStop
<1>2. x.held \in Text /\ c \in Chunks
  BY EarParts, ChunkFacts
<1>3. p.chunks \in Chunks
  BY <1>2, PassesFacts
<1> HIDE DEF c, p
<1>4. FlushHeld(<<>>).chunks = <<>>
  <2>1. FlushHeld(<<>>).chunks = TextChunk(Restored(<<>>))
    BY DEF FlushHeld, Restored
  <2> QED BY <2>1, RestoredEmpty, TextChunkIs, TextFacts
<1>5. p.chunks \o (IF m THEN FlushHeld(p.held).chunks ELSE <<>>) = p.chunks
  BY <1>1, <1>3, <1>4, ChunksAlgebra
<1> QED BY <1>1, <1>5 DEF Closing, Hears, p, c

(* The text a round's events say.                                          *)
LEMMA TextOfFacts ==
  ASSUME NEW m \in BOOLEAN
  PROVE /\ \A s \in Events : TextOf(m, s) \in Text
        /\ TextOf(m, <<>>) = <<>>
        /\ \A s \in Events, e \in Event : UtterancesOf(e) = <<>> => TextOf(m, Append(s, e)) = TextOf(m, s)
<1>1. ASSUME NEW us \in Sayings
      PROVE Rendering(m, us).before \o PutBack(m, Rendering(m, us).since) \in Text
  <2>1. Rendering(m, us).before \in Text /\ Rendering(m, us).since \in Text
    BY RenderingParts
  <2> QED BY <2>1, PutBackFacts, TextFacts
<1>2. \A s : TextOf(m, s) = Rendering(m, Utterances(s)).before \o PutBack(m, Rendering(m, Utterances(s)).since)
  BY DEF TextOf
<1>3. \A s \in Events : TextOf(m, s) \in Text
  BY <1>1, <1>2, UtterancesFold
<1>4. TextOf(m, <<>>) = <<>>
  <2>1. Rendering(m, Utterances(<<>>)) = Blank
    BY UtterancesFold, RenderFold
  <2>2. Blank.before = <<>> /\ Blank.since = <<>>
    BY DEF Blank
  <2>3. PutBack(m, <<>>) = <<>>
    BY PutBackFacts
  <2>4. <<>> \o <<>> = <<>>
    BY TextFacts
  <2> QED BY <1>2, <2>1, <2>2, <2>3, <2>4
<1>5. ASSUME NEW s \in Events, NEW e \in Event, UtterancesOf(e) = <<>>
      PROVE TextOf(m, Append(s, e)) = TextOf(m, s)
  <2>1. Utterances(Append(s, e)) = Utterances(s) \o <<>> /\ Utterances(s) \in Sayings
    BY <1>5, UtterancesFold
  <2>2. Utterances(Append(s, e)) = Utterances(s)
    BY <2>1, SayingsAlgebra
  <2> QED BY <1>2, <2>2
<1> QED BY <1>3, <1>4, <1>5

-----------------------------------------------------------------------------
(* The rounds' texts are read one behind the other.                        *)
LEMMA ReadOnIs ==
  ASSUME NEW r \in ReadResult, NEW x \in Text
  PROVE /\ ReadOn(r, x) = Prepend(r.segments, Rd(r.inside, x)) /\ ReadOn(r, x) \in ReadResult
        /\ r.segments \in Segments /\ r.inside \in BOOLEAN
<1>1. r.segments \in Segments /\ r.inside \in BOOLEAN
  BY DEF ReadResult
<1>2. ReadOn(r, x) = Prepend(r.segments, Rd(r.inside, x))
  BY DEF ReadOn, Prepend, Rd
<1>3. Rd(r.inside, x) \in ReadResult
  BY <1>1, RdType
<1> QED BY <1>1, <1>2, <1>3, PrependType

(* Nothing read, outside a thought.                                        *)
Unread == [segments |-> <<>>, inside |-> FALSE]

(* Reading is a fold over the rounds.                                      *)
LEMMA ReadingFold ==
  ASSUME NEW m \in BOOLEAN
  PROVE /\ Reading(m, <<>>) = Unread
        /\ \A s \in Seq(Events) : Reading(m, s) \in ReadResult
        /\ \A s \in Seq(Events), es \in Events : Reading(m, Append(s, es)) = ReadOn(Reading(m, s), TextOf(m, es))
<1> DEFINE step == [p \in ReadResult \X Events |-> ReadOn(p[1], TextOf(m, p[2]))]
           read[given \in Seq(Seq(Event))] ==
             IF given = <<>> THEN [segments |-> <<>>, inside |-> FALSE]
             ELSE ReadOn(read[Front(given)], TextOf(m, Last(given)))
<1>1. \A s : Reading(m, s) = read[s]
  BY Zenon DEF Reading
<1>2. step \in [ReadResult \X Events -> ReadResult]
  <2>1. \A p \in ReadResult \X Events : ReadOn(p[1], TextOf(m, p[2])) \in ReadResult
    BY ReadOnIs, TextOfFacts
  <2> HIDE DEF Events
  <2> QED BY <2>1
<1>3. \A r \in ReadResult, es \in Events : step[<<r, es>>] = ReadOn(r, TextOf(m, es))
  <2> HIDE DEF Events
  <2> QED OBVIOUS
<1>0. Unread \in ReadResult
  BY SegmentsConcat DEF Unread, ReadResult
<1> HIDE DEF step
<1>4. Foldable(Events, ReadResult, Unread, step)
  BY <1>0, <1>2, SequenceRecursion
<1>5. PICK f \in [Seq(Events) -> ReadResult] : \A s \in Seq(Events) :
          f[s] = IF s = <<>> THEN Unread ELSE step[<<f[Front(s)], Last(s)>>]
  BY <1>4 DEF Foldable
<1> DEFINE body(g, s) == IF s = <<>> THEN Unread ELSE ReadOn(g[Front(s)], TextOf(m, Last(s)))
<1>6. \A s \in Seq(Events) : f[s] = body(f, s)
  <2> SUFFICES ASSUME NEW s \in Seq(Events), s # <<>> PROVE f[s] = ReadOn(f[Front(s)], TextOf(m, Last(s)))
    BY <1>5
  <2>1. Front(s) \in Seq(Events) /\ Last(s) \in Events
    <3> HIDE DEF Events
    <3> QED BY FrontAndLast
  <2>2. f[Front(s)] \in ReadResult
    BY <2>1
  <2> QED BY <1>3, <1>5, <2>1, <2>2
<1>7. f = [s \in Seq(Events) |-> body(f, s)]
  <2> HIDE DEF Events
  <2> QED BY <1>6
<1>8. read = CHOOSE g : g = [s \in Seq(Events) |-> body(g, s)]
  BY Zenon DEF Unread, Events
<1> HIDE DEF read
<1>9. read = [s \in Seq(Events) |-> body(read, s)]
  BY <1>7, <1>8
<1>10. \A s \in Seq(Events) : read[s] = body(read, s)
  BY <1>9
<1>11. read[<<>>] = Unread
  <2>1. <<>> \in Seq(Events)
    <3> HIDE DEF Events
    <3> QED OBVIOUS
  <2> QED BY <1>10, <2>1
<1>12. ASSUME NEW s \in Seq(Events), s # <<>>, read[Front(s)] \in ReadResult
       PROVE read[s] = step[<<read[Front(s)], Last(s)>>]
  <2>1. Last(s) \in Events
    <3> HIDE DEF Events
    <3> QED BY <1>12, FrontAndLast
  <2> QED BY <1>3, <1>10, <1>12, <2>1
<1>13. Folds(Events, ReadResult, Unread, step, read)
  BY <1>0, <1>2, <1>11, <1>12, FoldOf
<1>14. /\ read[<<>>] = Unread
       /\ \A s \in Seq(Events) : read[s] \in ReadResult
       /\ \A s \in Seq(Events), es \in Events : read[Append(s, es)] = step[<<read[s], es>>]
  BY <1>13 DEF Folds
<1>15. \A s \in Seq(Events), es \in Events : read[Append(s, es)] = ReadOn(read[s], TextOf(m, es))
  BY <1>3, <1>14
<1> QED BY <1>1, <1>14, <1>15

(* What the rounds before the last one read as.                            *)
Base(m, s) == Reading(m, Front(s))

(* ReadingBut, of any rounds.                                              *)
ButOf(m, s, missing) ==
    IF s = <<>> THEN <<>>
    ELSE LET text == TextOf(m, Last(s))
         IN  ReadOn(Reading(m, Front(s)), SubSeq(text, 1, Len(text) - missing)).segments

(* All is shown.                                                           *)
Whole(m, sh, s) == sh.segments = ButOf(m, s, 0)

(* All is shown but for what could be the beginning of a token.            *)
Broken(m, sh, s) ==
    \E missing \in 0..(MaxTokenLength - 1) :
        /\ missing # 0 => m /\ s # <<>> /\ missing <= Len(TextOf(m, Last(s)))
        /\ sh.segments = ButOf(m, s, missing)

(* What is shown begins what is to be shown, and lacks less than a token   *)
(* and a tag.                                                              *)
Near(m, sh, s) ==
    /\ IsPrefix(sh.segments, ButOf(m, s, 0))
    /\ Len(ButOf(m, s, 0)) <= Len(sh.segments) + MaxTokenLength + Len(CloseTag) - 2

(* Between two rounds nothing is held back.                                *)
Settled(m, sh, s) ==
    /\ sh.parser.buffer = <<>>
    /\ Reading(m, s) = [segments |-> sh.segments, inside |-> sh.parser.insideThinking]

(* What the handler has when it closes.                                    *)
ClosedOver(sh, y) == y.segments = sh.segments \o Segment(sh.parser.insideThinking, sh.parser.buffer)

(* The rounds' events: the last round's and the others'.                   *)
LEMMA SaidParts ==
  ASSUME NEW m \in BOOLEAN, NEW s \in Seq(Events), s # <<>>
  PROVE /\ Front(s) \in Seq(Events) /\ Last(s) \in Events /\ s = Append(Front(s), Last(s))
        /\ Base(m, s) \in ReadResult /\ TextOf(m, Last(s)) \in Text
        /\ Reading(m, s) = ReadOn(Base(m, s), TextOf(m, Last(s)))
<1>1. Front(s) \in Seq(Events) /\ Last(s) \in Events /\ s = Append(Front(s), Last(s))
  <2> HIDE DEF Events
  <2> QED BY FrontAndLast
<1> QED BY ZenonT(60), <1>1, ReadingFold, TextOfFacts DEF Base

(* A text but for none of its characters, and the rounds' reading.         *)
LEMMA AllOf ==
  ASSUME NEW x \in Text
  PROVE SubSeq(x, 1, Len(x) - 0) = x
<1>1. Len(x) \in Nat
  BY TextFacts
<1>2. SubSeq(x, 1, Len(x)) = x
  BY SubSeqFull DEF Text
<1> QED BY <1>1, <1>2

LEMMA ButNothing ==
  ASSUME NEW m \in BOOLEAN, NEW s \in Seq(Events)
  PROVE ButOf(m, s, 0) = Reading(m, s).segments
<1>1. CASE s = <<>>
  <2>1. Reading(m, s).segments = <<>>
    BY <1>1, ReadingFold DEF Unread
  <2> QED BY <1>1, <2>1 DEF ButOf
<1>2. CASE s # <<>>
  <2> DEFINE t == TextOf(m, Last(s))
  <2>1. t \in Text /\ Reading(m, s) = ReadOn(Base(m, s), t)
    BY <1>2, SaidParts
  <2>2. SubSeq(t, 1, Len(t) - 0) = t
    BY <2>1, AllOf
  <2>3. ButOf(m, s, 0) = ReadOn(Reading(m, Front(s)), SubSeq(t, 1, Len(t) - 0)).segments
    BY <1>2 DEF ButOf
  <2> QED BY <2>1, <2>2, <2>3 DEF Base
<1> QED BY <1>1, <1>2

(* Between two rounds, all is shown.                                       *)
LEMMA SettledWhole ==
  ASSUME NEW m \in BOOLEAN, NEW s \in Seq(Events), NEW sh, Settled(m, sh, s)
  PROVE Whole(m, sh, s)
<1>1. Reading(m, s).segments = sh.segments
  BY DEF Settled
<1> QED BY <1>1, ButNothing DEF Whole

(* The bounds are numbers.                                                 *)
LEMMA BoundFacts ==
  /\ MaxTokenLength \in Nat /\ MaxTokenLength >= 1
  /\ Len(CloseTag) \in Nat /\ Len(CloseTag) >= 1
<1>1. Len(TagSought(TRUE)) >= 1 /\ Len(TagSought(TRUE)) <= Len(CloseTag) /\ Len(CloseTag) \in Nat
      /\ Len(TagSought(TRUE)) \in Nat
  BY TagFacts
<1>2. Len(CloseTag) >= 1
  <2> DEFINE a == Len(TagSought(TRUE))
             b == Len(CloseTag)
  <2>1. a >= 1 /\ a <= b /\ a \in Nat /\ b \in Nat
    BY <1>1
  <2> HIDE DEF a, b
  <2>2. b >= 1
    BY <2>1
  <2> QED BY <2>2 DEF b
<1>3. MaxTokenLength \in Nat /\ MaxTokenLength >= 1
  BY TokenFacts
<1> QED BY <1>1, <1>2, <1>3

(* All shown is all but none; all shown is near.                           *)
LEMMA WholeBroken ==
  ASSUME NEW m, NEW sh, NEW s, Whole(m, sh, s)
  PROVE Broken(m, sh, s)
<1>1. 0 \in 0..(MaxTokenLength - 1)
  BY BoundFacts
<1> QED BY <1>1 DEF Whole, Broken

LEMMA SettledNear ==
  ASSUME NEW m \in BOOLEAN, NEW s \in Seq(Events), NEW sh \in Shown, Settled(m, sh, s)
  PROVE Near(m, sh, s)
<1> DEFINE g == sh.segments
<1>1. ButOf(m, s, 0) = g
  BY SettledWhole DEF Whole
<1>2. g \in Segments
  BY HearingParts DEF Shown
<1> HIDE DEF g
<1>3. Len(g) \in Nat /\ g \o <<>> = g /\ <<>> \in Segments
  BY <1>2, SegmentsConcat
<1>4. IsPrefix(g, g)
  <2>1. IsPrefix(g, g \o <<>>)
    BY <1>2, <1>3, PrefixConcat DEF Segments
  <2> QED BY <1>3, <2>1
<1>5. Len(g) <= Len(g) + MaxTokenLength + Len(CloseTag) - 2
  BY <1>3, BoundFacts
<1> QED BY <1>1, <1>4, <1>5 DEF Near, g

(* While the vendor speaks, the handler is behind by what is held back.    *)
LEMMA ReadyNear ==
  ASSUME NEW m \in BOOLEAN, NEW s \in Seq(Events), s # <<>>, NEW x,
         Ready(m, Base(m, s), x), HeardOf(m, x, Last(s))
  PROVE Near(m, x.w.shown, s)
<1> DEFINE base == Base(m, s)
           sh == x.w.shown
           g == sh.segments
           b == sh.parser.insideThinking
           f == sh.parser.buffer
           h == x.held
           t == x.w.round.text
           R == Rd(b, f \o h)
<1>1. base \in ReadResult /\ TextOf(m, Last(s)) \in Text /\ Reading(m, s) = ReadOn(base, TextOf(m, Last(s)))
  BY SaidParts
<1>2. TextOf(m, Last(s)) = t \o h /\ h \in Text /\ t \in Text
  BY DEF HeardOf
<1>3. x \in Ears /\ Len(h) \in Nat /\ Len(h) <= MaxTokenLength - 1 /\ Parses(base, t, sh) /\ Short(sh.parser)
  BY KeptIsText DEF Ready
<1>4. sh \in Shown /\ g \in Segments /\ sh.parser \in Parser
  BY <1>3, EarParts, HearingParts
<1>5. b \in BOOLEAN /\ f \in Text
  BY <1>4, HoldingFacts
<1>6. ReadOn(base, t \o h) = Prepend(base.segments, Rd(base.inside, t \o h))
  BY <1>1, <1>2, ReadOnIs
<1>7. Prepend(base.segments, Rd(base.inside, t \o h)) = Prepend(g, R)
  BY <1>2, <1>3 DEF Parses
<1>8. ButOf(m, s, 0) = Prepend(g, R).segments
  BY <1>1, <1>2, <1>6, <1>7, ButNothing
<1>9. f \o h \in Text /\ Len(f \o h) = Len(f) + Len(h) /\ Len(f) \in Nat
  BY <1>2, <1>5, TextFacts
<1>10. R.segments \in Segments /\ Len(R.segments) <= Len(f \o h)
  BY <1>5, <1>9, RdType, RdLength
<1>11. Len(f) <= Len(CloseTag) - 1
  <2>1. Len(f) <= Len(TagSought(b)) - 1
    BY <1>3 DEF Short
  <2>2. Len(TagSought(b)) \in Nat /\ Len(TagSought(b)) <= Len(CloseTag) /\ Len(CloseTag) \in Nat
    BY <1>5, TagFacts
  <2> HIDE DEF f, b
  <2> QED BY <2>1, <2>2, <1>9
<1> DEFINE q == R.segments
<1>12. ButOf(m, s, 0) = g \o q
  BY <1>8 DEF Prepend
<1> HIDE DEF g, R, f, h, sh
<1>13. IsPrefix(g, g \o q)
  BY <1>4, <1>10, PrefixConcat DEF Segments
<1>14. Len(g \o q) = Len(g) + Len(q) /\ Len(g) \in Nat /\ Len(q) \in Nat
  BY <1>4, <1>10, SegmentsConcat
<1> HIDE DEF q
<1>15. Len(g \o q) <= Len(g) + MaxTokenLength + Len(CloseTag) - 2
  <2>1. Len(q) <= Len(f) + Len(h)
    BY <1>9, <1>10 DEF q
  <2> QED BY <2>1, <1>3, <1>9, <1>11, <1>14, BoundFacts
<1> QED BY <1>12, <1>13, <1>15 DEF Near, g, sh

(* A stream that breaks off loses what the mask held back.                 *)
LEMMA ReadyBroken ==
  ASSUME NEW m \in BOOLEAN, NEW s \in Seq(Events), s # <<>>, NEW x,
         Ready(m, Base(m, s), x), HeardOf(m, x, Last(s)), NEW y, ClosedOver(x.w.shown, y)
  PROVE Broken(m, y, s)
<1> DEFINE base == Base(m, s)
           sh == x.w.shown
           h == x.held
           t == x.w.round.text
           T == TextOf(m, Last(s))
<1>1. base \in ReadResult
  BY SaidParts
<1>2. T = t \o h /\ h \in Text /\ t \in Text
  BY DEF HeardOf
<1>3. x \in Ears /\ Len(h) \in Nat /\ Len(h) <= MaxTokenLength - 1 /\ (m = FALSE => h = <<>>)
      /\ Parses(base, t, sh) /\ Short(sh.parser)
  BY KeptIsText DEF Ready
<1>4. sh \in Shown
  BY <1>3, EarParts, HearingParts
<1>5. Prepend(base.segments, Rd(base.inside, t))
        = [segments |-> sh.segments \o Segment(sh.parser.insideThinking, sh.parser.buffer),
           inside |-> sh.parser.insideThinking]
  BY <1>1, <1>2, <1>3, <1>4, ParsesNow
<1>6. y.segments = ReadOn(base, t).segments
  <2> DEFINE R == ReadOn(base, t)
             c == sh.segments \o Segment(sh.parser.insideThinking, sh.parser.buffer)
  <2>1. R = Prepend(base.segments, Rd(base.inside, t))
    BY <1>1, <1>2, ReadOnIs
  <2>2. R = [segments |-> c, inside |-> sh.parser.insideThinking]
    BY <1>5, <2>1
  <2>3. y.segments = c
    BY DEF ClosedOver
  <2> HIDE DEF R, c
  <2>4. R.segments = c
    BY <2>2
  <2> QED BY <2>3, <2>4 DEF R
<1>7. Len(T) = Len(t) + Len(h) /\ Len(t) \in Nat
  BY <1>2, TextFacts
<1>8. SubSeq(T, 1, Len(T) - Len(h)) = t
  <2>1. Len(T) - Len(h) = Len(t)
    BY <1>3, <1>7
  <2>2. SubSeq(t \o h, 1, Len(t)) = t
    <3> HIDE DEF t, h
    <3>1. CASE t = <<>>
      <4>1. Len(t) = 0 /\ t \o h = h
        BY <1>2, <3>1, TextFacts
      <4>2. SubSeq(h, 1, 0) = <<>>
        BY <1>2, SubSeqEmpty DEF Text
      <4> QED BY <3>1, <4>1, <4>2
    <3>2. CASE t # <<>>
      <4>1. Len(t) >= 1
        BY <1>2, <1>7, <3>2, EmptySeq DEF Text
      <4>2. SubSeq(t \o h, 1, Len(t)) = SubSeq(t, 1, Len(t))
        BY <1>2, <1>7, <4>1, SubSeqOfConcat1 DEF Text
      <4>3. SubSeq(t, 1, Len(t)) = t
        BY <1>2, SubSeqFull DEF Text
      <4> QED BY <4>2, <4>3
    <3> QED BY <3>1, <3>2
  <2> QED BY <1>2, <2>1, <2>2
<1>9. ButOf(m, s, Len(h)) = ReadOn(base, t).segments
  BY <1>8 DEF ButOf, Base
<1>10. Len(h) # 0 => m /\ Len(h) <= Len(T)
  <2>1. h = <<>> => Len(h) = 0
    BY TextFacts
  <2> DEFINE k == Len(h)
             l == Len(t)
             n == Len(T)
  <2>2. n = l + k /\ l \in Nat /\ k \in Nat /\ (m = FALSE => k = 0)
    BY <1>3, <1>7, <2>1
  <2> HIDE DEF k, l, n
  <2>3. k <= n
    BY <2>2
  <2>4. k # 0 => m = TRUE
    BY <2>2
  <2>5. k # 0 => m /\ k <= n
    BY <2>3, <2>4
  <2> QED BY <2>5 DEF k, n
<1>11. Len(h) \in 0..(MaxTokenLength - 1)
  BY <1>3, BoundFacts
<1> DEFINE n == Len(h)
<1>12. n \in 0..(MaxTokenLength - 1) /\ (n # 0 => m /\ s # <<>> /\ n <= Len(TextOf(m, Last(s))))
       /\ y.segments = ButOf(m, s, n)
  BY <1>6, <1>9, <1>10, <1>11
<1> HIDE DEF n
<1> QED BY <1>12 DEF Broken

(* A call is being received exactly where the events say so.               *)

-----------------------------------------------------------------------------
(* The invariant of what is shown, and that every step keeps it.           *)

(* Bedrock is in the middle of a call.                                     *)
Telling(events) == events # <<>> /\ Last(events).kind \in {"toolStart", "toolInput"}

(* The adapter keeps a call's id exactly then.                             *)
Tuned(v, a, events) ==
    /\ a.over = FALSE
    /\ v = "bedrock" => (a.call # NoCall <=> Telling(events))
    /\ v # "bedrock" => a.call = NoCall
    /\ v = "mock" => events = <<>>

(* While the stream is on, it is attended to, from where the rounds before *)
(* ended.                                                                  *)
Streams(m, v, a, x, s) == Attends(m, Base(m, s), a, x, Last(s)) /\ Tuned(v, a, Last(s))

(* ... and once it has ended.                                              *)
Closes(m, x, s) == Ends(m, Base(m, s), x, Last(s))

(* How much of what was said has been shown, wherever the turn is.         *)
Following ==
    /\ at = "streaming" => Streams(setup.masked, setup.vendor, wire.adapter, Ear, said)
    /\ at = "ended" => Closes(setup.masked, Ear, said)
    /\ at \in {"ask", "tools"} => Settled(setup.masked, shown, said)
    /\ at = "done" => Whole(setup.masked, shown, said)
    /\ at \in {"failed", "abandoned"} => Broken(setup.masked, shown, said)

(* A round begins where the last one ended.                                *)
LEMMA RoundOpens ==
  ASSUME NEW m \in BOOLEAN, NEW s \in Seq(Events), NEW sh \in Shown, Settled(m, sh, s)
  PROVE /\ Append(s, <<>>) \in Seq(Events) /\ Append(s, <<>>) # <<>>
        /\ Front(Append(s, <<>>)) = s /\ Last(Append(s, <<>>)) = <<>>
        /\ Base(m, Append(s, <<>>)) = [segments |-> sh.segments, inside |-> sh.parser.insideThinking]
<1>1. <<>> \in Events
  BY EventsFacts
<1>2. Append(s, <<>>) \in Seq(Events) /\ Append(s, <<>>) # <<>>
      /\ Front(Append(s, <<>>)) = s /\ Last(Append(s, <<>>)) = <<>>
  <2> HIDE DEF Events
  <2> QED BY <1>1, AppendFront
<1> QED BY <1>2 DEF Base, Settled

(* A round begins attended to.                                             *)
LEMMA SettledOpens ==
  ASSUME NEW m \in BOOLEAN, NEW v, NEW s \in Seq(Events), NEW sh \in Shown, Settled(m, sh, s)
  PROVE Streams(m, v, NewAdapter, [held |-> <<>>, w |-> [round |-> NewRound, shown |-> sh]], Append(s, <<>>))
<1> DEFINE x == [held |-> <<>>, w |-> [round |-> NewRound, shown |-> sh]]
           t == Append(s, <<>>)
           base == Base(m, t)
<1>1. t # <<>> /\ Last(t) = <<>> /\ base = [segments |-> sh.segments, inside |-> sh.parser.insideThinking]
  BY RoundOpens
<1>2. x.held = <<>> /\ x.w = [round |-> NewRound, shown |-> sh] /\ x.w.round = NewRound /\ x.w.shown = sh
  OBVIOUS
<1>3. x \in Ears
  <2>1. [round |-> NewRound, shown |-> sh] \in Hearings
    BY NewThings, HearingParts
  <2> QED BY <2>1, TextFacts, EarParts
<1>4. NewRound.text = <<>> /\ NewRound.stopReason = NoStop /\ NewRound.usage = 0
  BY NewThings
<1>5. sh.parser \in Parser /\ sh.parser.buffer = <<>> /\ sh.parser.insideThinking \in BOOLEAN
  <2>1. sh.parser \in Parser
    BY DEF Shown
  <2> QED BY <2>1, HoldingFacts DEF Settled
<1>6. Short(sh.parser)
  <2>1. Len(TagSought(sh.parser.insideThinking)) >= 1 /\ Len(TagSought(sh.parser.insideThinking)) \in Nat
    BY <1>5, TagFacts
  <2>2. Len(sh.parser.buffer) = 0
    BY <1>5, TextFacts
  <2> QED BY <2>1, <2>2 DEF Short
<1>7. base.segments = sh.segments /\ base.inside = sh.parser.insideThinking
  BY <1>1
<1>8. Utterances(<<>>) = <<>> /\ Rendering(m, <<>>) = Blank
  BY UtterancesFold, RenderFold
<1>9. Tuned(v, NewAdapter, Last(t))
  BY <1>1, NewAdapterIs DEF Tuned, Telling
<1>10. NewAdapter.call = NoCall
  BY NewAdapterIs
<1> HIDE DEF x, t, base
<1>11. Parses(base, x.w.round.text, x.w.shown)
  BY <1>2, <1>4, <1>5, <1>7 DEF Parses
<1>12. Ready(m, base, x)
  BY <1>2, <1>3, <1>6, <1>11, KeepsNothing DEF Ready
<1>13. Renders(m, x.held, x.w.round.text, Rendering(m, Utterances(Last(t))))
  BY <1>1, <1>2, <1>4, <1>8, RendersItself DEF Blank
<1> QED BY <1>2, <1>4, <1>9, <1>10, <1>12, <1>13 DEF Streams, Attends, base, x, t

(* So it is when a turn begins.                                            *)
LEMMA InitFollows == Init => Following
<1> SUFFICES ASSUME Init PROVE Following
  OBVIOUS
<1>1. setup \in Setups /\ at = "ask" /\ said = <<>> /\ shown = [parser |-> NewParser, segments |-> <<>>]
  BY DEF Init
<1>2. setup.masked \in BOOLEAN
  BY <1>1, SetupFacts
<1>3. Reading(setup.masked, said) = Unread
  BY <1>1, <1>2, ReadingFold
<1>4. shown.parser = Holding(FALSE, <<>>) /\ shown.segments = <<>>
  BY <1>1, NewThings
<1>5. shown.parser.buffer = <<>> /\ shown.parser.insideThinking = FALSE
  BY <1>4 DEF Holding
<1>6. Settled(setup.masked, shown, said)
  BY <1>3, <1>4, <1>5 DEF Settled, Unread
<1> QED BY <1>1, <1>6 DEF Following

(* A flush closes what was shown.                                          *)
LEMMA FlushedCloses ==
  ASSUME NEW w \in Hearings
  PROVE ClosedOver(w.shown, Flushed(w))
BY FlushedType DEF ClosedOver

(* Closed between rounds, all is shown.                                    *)
LEMMA SettledClosed ==
  ASSUME NEW m \in BOOLEAN, NEW s \in Seq(Events), NEW sh \in Shown, Settled(m, sh, s), NEW y, ClosedOver(sh, y)
  PROVE Whole(m, y, s)
<1>1. sh.parser.buffer = <<>> /\ Whole(m, sh, s)
  BY SettledWhole DEF Settled
<1>2. sh.parser \in Parser /\ sh.segments \in Segments
  BY DEF Shown
<1>3. sh.parser.insideThinking \in BOOLEAN
  BY <1>2, HoldingFacts
<1>4. Segment(sh.parser.insideThinking, <<>>) = <<>>
  BY <1>3, SegmentEmpty
<1>5. sh.segments \o <<>> = sh.segments
  BY <1>2, SegmentsConcat
<1>6. y.segments = sh.segments
  BY <1>1, <1>4, <1>5 DEF ClosedOver
<1> QED BY <1>1, <1>6 DEF Whole

(* At the end of a stream, with a stop or without.                         *)
LEMMA EndsHeard ==
  ASSUME NEW m \in BOOLEAN, NEW s \in Seq(Events), s # <<>>, NEW x, Ends(m, Base(m, s), x, Last(s))
  PROVE /\ Finished(Base(m, s), x) => Settled(m, x.w.shown, s)
        /\ Unstopped(Base(m, s), x) => Ready(m, Base(m, s), x)
        /\ HeardOf(m, x, Last(s)) /\ x \in Ears /\ x.w.shown \in Shown
<1> DEFINE base == Base(m, s)
           t == TextOf(m, Last(s))
<1>1. base \in ReadResult /\ t \in Text /\ Reading(m, s) = ReadOn(base, t)
  BY SaidParts
<1>2. x \in Ears /\ x.held = <<>> /\ x.w.round.text = t
  BY DEF Ends
<1>3. ReadOn(base, t) = Prepend(base.segments, Rd(base.inside, t))
  BY <1>1, ReadOnIs
<1>4. x.w.shown \in Shown
  BY <1>2, EarParts, HearingParts
<1>5. t \o <<>> = t /\ <<>> \in Text
  BY <1>1, TextFacts
<1> HIDE DEF base, t
<1>6. Finished(base, x) => Settled(m, x.w.shown, s)
  BY <1>1, <1>2, <1>3 DEF Finished, Settled
<1>7. Unstopped(base, x) => Ready(m, base, x)
  BY <1>2, KeepsNothing DEF Unstopped, Ready
<1>8. HeardOf(m, x, Last(s))
  BY <1>1, <1>2, <1>5 DEF HeardOf, t
<1> QED BY <1>2, <1>4, <1>6, <1>7, <1>8 DEF base

(* One of the two.                                                         *)
LEMMA EndsEither ==
  ASSUME NEW m, NEW b, NEW x, NEW e, Ends(m, b, x, e)
  PROVE Finished(b, x) \/ Unstopped(b, x)
BY DEF Ends

(* With a stop, nothing is held back; without, it is near, and whole when  *)
(* closed.                                                                 *)
LEMMA EndsSettled ==
  ASSUME NEW m \in BOOLEAN, NEW s \in Seq(Events), s # <<>>, NEW x, Closes(m, x, s), x.w.round.stopReason # NoStop
  PROVE Settled(m, x.w.shown, s)
<1>1. ~Unstopped(Base(m, s), x)
  BY DEF Unstopped
<1>2. Ends(m, Base(m, s), x, Last(s))
  BY DEF Closes
<1> QED BY <1>1, <1>2, EndsEither, EndsHeard

LEMMA EndsNear ==
  ASSUME NEW m \in BOOLEAN, NEW s \in Seq(Events), s # <<>>, NEW x, Closes(m, x, s)
  PROVE Near(m, x.w.shown, s)
<1>1. Ends(m, Base(m, s), x, Last(s))
  BY DEF Closes
<1>2. HeardOf(m, x, Last(s)) /\ x.w.shown \in Shown
  BY <1>1, EndsHeard
<1>3. CASE Finished(Base(m, s), x)
  <2>1. Settled(m, x.w.shown, s)
    BY <1>1, <1>3, EndsHeard
  <2> QED BY <1>2, <2>1, SettledNear
<1>4. CASE Unstopped(Base(m, s), x)
  <2>1. Ready(m, Base(m, s), x)
    BY <1>1, <1>4, EndsHeard
  <2> QED BY <1>2, <2>1, ReadyNear
<1> QED BY <1>1, <1>3, <1>4, EndsEither

LEMMA EndsWhole ==
  ASSUME NEW m \in BOOLEAN, NEW s \in Seq(Events), s # <<>>, NEW x, Closes(m, x, s), NEW y, ClosedOver(x.w.shown, y)
  PROVE Whole(m, y, s)
<1>1. Ends(m, Base(m, s), x, Last(s))
  BY DEF Closes
<1>2. x.w.shown \in Shown
  BY <1>1, EndsHeard
<1>3. CASE Finished(Base(m, s), x)
  <2>1. Settled(m, x.w.shown, s)
    BY <1>1, <1>3, EndsHeard
  <2> QED BY <1>2, <2>1, SettledClosed
<1>4. CASE Unstopped(Base(m, s), x)
  <2> DEFINE base == Base(m, s)
             t == TextOf(m, Last(s))
             sh == x.w.shown
             c == sh.segments \o Segment(sh.parser.insideThinking, sh.parser.buffer)
             R == ReadOn(base, t)
  <2>1. base \in ReadResult /\ t \in Text /\ Reading(m, s) = R
    BY SaidParts
  <2>2. x.w.round.text = t
    BY <1>1 DEF Ends
  <2>3. Parses(base, t, sh) /\ Short(sh.parser)
    BY <1>4, <2>2 DEF Unstopped
  <2>4. R = [segments |-> c, inside |-> sh.parser.insideThinking]
    <3>1. R = Prepend(base.segments, Rd(base.inside, t))
      BY <2>1, ReadOnIs
    <3>2. Prepend(base.segments, Rd(base.inside, t)) = [segments |-> c, inside |-> sh.parser.insideThinking]
      <4> HIDE DEF base, t, sh, R
      <4> QED BY <1>2, <2>1, <2>3, ParsesNow DEF sh
    <3> QED BY <3>1, <3>2
  <2>5. y.segments = c
    BY DEF ClosedOver
  <2> HIDE DEF base, t, sh, c, R
  <2>6. R.segments = c
    BY <2>4
  <2>7. ButOf(m, s, 0) = R.segments
    BY <2>1, ButNothing
  <2> QED BY <2>5, <2>6, <2>7 DEF Whole
<1> QED BY <1>1, <1>3, <1>4, EndsEither

(* Bedrock sends blocks one after the other.                               *)
InTurn(v, events, e) ==
    v = "bedrock" =>
        /\ e.kind \in {"text", "toolStart", "messageStop", "metadata"} => ~Telling(events)
        /\ e.kind = "toolInput" => Telling(events)

(* So the model's vendors send them.                                       *)
LEMMA ComesInTurn ==
  ASSUME NEW e, Comes(e)
  PROVE InTurn(setup.vendor, Now, e)
<1> SUFFICES ASSUME setup.vendor = "bedrock"
             PROVE /\ e.kind \in {"text", "toolStart", "messageStop", "metadata"} => ~Telling(Now)
                   /\ e.kind = "toolInput" => Telling(Now)
  BY DEF InTurn
<1>1. BedrockMaySay(e)
  BY DEF Comes
<1>2. InTool <=> Telling(Now)
  BY DEF InTool, Telling
<1>3. e.kind \in {"text", "toolStart", "messageStop", "metadata"} => ~InTool
  BY <1>1 DEF BedrockMaySay
<1>4. e.kind = "toolInput" => InTool
  BY <1>1 DEF BedrockMaySay
<1> QED BY <1>2, <1>3, <1>4

(* An event becomes a stream that goes on, one that ended, or a failure.   *)
Taken(m, v, base, x, events, step, y) ==
    /\ step.error = "" /\ step.adapter.over = FALSE => Attends(m, base, step.adapter, y, events) /\ Tuned(v, step.adapter, events)
    /\ step.error = "" /\ step.adapter.over = TRUE => Ends(m, base, y, events)
    /\ step.error # "" => Ready(m, base, x) /\ HeardOf(m, x, events)

(* Attending, all of the text is heard or held.                            *)
LEMMA AttendsReady ==
  ASSUME NEW m \in BOOLEAN, NEW base, NEW a, NEW x, NEW events \in Events, Attends(m, base, a, x, events)
  PROVE Ready(m, base, x) /\ HeardOf(m, x, events) /\ x \in Ears
        /\ x.w.round.stopReason = NoStop /\ x.w.round.usage = 0
BY TextSoFar DEF Attends, Ready

(* A failure says nothing.                                                 *)
LEMMA FailureSays ==
  ASSUME NEW m \in BOOLEAN, NEW base, NEW a, NEW x, NEW events \in Events, Attends(m, base, a, x, events),
         NEW e \in Event, UtterancesOf(e) = <<>>
  PROVE Ready(m, base, x) /\ HeardOf(m, x, Append(events, e))
<1>1. Ready(m, base, x) /\ HeardOf(m, x, events)
  BY AttendsReady
<1>2. TextOf(m, Append(events, e)) = TextOf(m, events)
  BY TextOfFacts
<1> QED BY <1>1, <1>2 DEF HeardOf

(* What becomes of a call's id.                                            *)
LEMMA BedrockCalls ==
  ASSUME NEW a \in Adapters, NEW e \in Event, e.kind \in BedrockKinds, BedrockEvent(a, e).error = ""
  PROVE /\ e.kind = "toolStart" => BedrockEvent(a, e).adapter.call = e.id
        /\ e.kind = "blockStop" => BedrockEvent(a, e).adapter.call = NoCall
        /\ e.kind \in {"text", "toolInput", "messageStop", "metadata"} => BedrockEvent(a, e).adapter.call = a.call
        /\ BedrockEvent(a, e).adapter.over = a.over
<1> DEFINE b == BedrockEvent(a, e).adapter
<1>1. CASE e.kind = "text"
  <2>1. b = a
    BY <1>1, BedrockEventIs DEF StepIs
  <2> QED BY <1>1, <2>1
<1>2. CASE e.kind = "toolStart"
  <2>1. b = Adapter(e.id, <<>>, a.stop, a.usage, a.endOfTurn, a.over)
    BY <1>2, BedrockEventIs DEF StepIs
  <2> DEFINE q == Adapter(e.id, <<>>, a.stop, a.usage, a.endOfTurn, a.over)
  <2>2. q.call = e.id /\ q.over = a.over
    BY DEF Adapter
  <2>3. b = q
    BY <2>1
  <2> HIDE DEF q, b
  <2>4. b.call = e.id /\ b.over = a.over
    BY <2>2, <2>3
  <2> QED BY <1>2, <2>4 DEF b
<1>3. CASE e.kind = "toolInput"
  <2>1. b = Adapter(a.call, Append(a.input, e.piece), a.stop, a.usage, a.endOfTurn, a.over)
    BY <1>3, BedrockEventIs DEF StepIs
  <2> DEFINE q == Adapter(a.call, Append(a.input, e.piece), a.stop, a.usage, a.endOfTurn, a.over)
  <2>2. q.call = a.call /\ q.over = a.over
    BY DEF Adapter
  <2>3. b = q
    BY <2>1
  <2> HIDE DEF q, b
  <2>4. b.call = a.call /\ b.over = a.over
    BY <2>2, <2>3
  <2> QED BY <1>3, <2>4 DEF b
<1>4. CASE e.kind = "messageStop"
  <2>1. b = Adapter(a.call, a.input, e.reason, a.usage, a.endOfTurn, a.over)
    BY <1>4, BedrockEventIs DEF StepIs
  <2> DEFINE q == Adapter(a.call, a.input, e.reason, a.usage, a.endOfTurn, a.over)
  <2>2. q.call = a.call /\ q.over = a.over
    BY DEF Adapter
  <2>3. b = q
    BY <2>1
  <2> HIDE DEF q, b
  <2>4. b.call = a.call /\ b.over = a.over
    BY <2>2, <2>3
  <2> QED BY <1>4, <2>4 DEF b
<1>5. CASE e.kind = "metadata"
  <2>1. b = Adapter(a.call, a.input, a.stop, Newer(e.usage, a.usage), a.endOfTurn, a.over)
    BY <1>5, BedrockEventIs DEF StepIs
  <2> DEFINE q == Adapter(a.call, a.input, a.stop, Newer(e.usage, a.usage), a.endOfTurn, a.over)
  <2>2. q.call = a.call /\ q.over = a.over
    BY DEF Adapter
  <2>3. b = q
    BY <2>1
  <2> HIDE DEF q, b
  <2>4. b.call = a.call /\ b.over = a.over
    BY <2>2, <2>3
  <2> QED BY <1>5, <2>4 DEF b
<1>6. CASE e.kind = "blockStop"
  <2>1. BedrockEvent(a, e) = HandleBlockStop(a)
    BY <1>6, BedrockEventIs
  <2>2. CASE a.call = NoCall
    <3>1. b = a
      BY <2>1, <2>2, BlockStopIs DEF StepIs
    <3> QED BY <1>6, <2>2, <3>1
  <2>3. CASE a.call # NoCall
    <3>1. b = Adapter(NoCall, <<>>, a.stop, a.usage, a.endOfTurn, a.over)
      BY <2>1, <2>3, BlockStopIs DEF StepIs
    <3> DEFINE q == Adapter(NoCall, <<>>, a.stop, a.usage, a.endOfTurn, a.over)
    <3>2. q.call = NoCall /\ q.over = a.over
      BY DEF Adapter
    <3>3. b = q
      BY <3>1
    <3> HIDE DEF q, b
    <3>4. b.call = NoCall /\ b.over = a.over
      BY <3>2, <3>3
    <3> QED BY <1>6, <3>4 DEF b
  <2> QED BY <2>2, <2>3
<1> QED BY <1>1, <1>2, <1>3, <1>4, <1>5, <1>6 DEF BedrockKinds

(* Every event of each vendor is taken so.                                 *)
LEMMA BedrockTaken ==
  ASSUME StandsApart, NEW m \in BOOLEAN, NEW base \in ReadResult, NEW a \in Adapters, NEW x, NEW events \in Events,
         Attends(m, base, a, x, events), Tuned("bedrock", a, events),
         NEW e \in Event, e.kind \in BedrockKinds, InTurn("bedrock", events, e), e.kind = "toolStart" => e.id # NoCall
  PROVE Taken(m, "bedrock", base, x, Append(events, e), BedrockEvent(a, e), Hears(m, x, BedrockEvent(a, e).chunks))
<1> DEFINE step == BedrockEvent(a, e)
           y == Hears(m, x, step.chunks)
           f == Append(events, e)
<1>1. a.over = FALSE /\ (a.call # NoCall <=> Telling(events))
  BY DEF Tuned
<1>2. e.kind \in {"text", "toolStart", "messageStop", "metadata"} => a.call = NoCall
  BY <1>1 DEF InTurn
<1>3. e.kind = "toolInput" => a.call # NoCall
  BY <1>1 DEF InTurn
<1>4. f # <<>> /\ Last(f) = e
  BY EventsFacts
<1>5. Telling(f) <=> e.kind \in {"toolStart", "toolInput"}
  BY <1>4 DEF Telling
<1>6. ASSUME step.error = ""
      PROVE Attends(m, base, step.adapter, y, f) /\ Tuned("bedrock", step.adapter, f) /\ step.adapter.over = FALSE
  <2>1. Attends(m, base, step.adapter, y, f)
    BY <1>2, <1>6, BedrockHears
  <2>2. /\ e.kind = "toolStart" => step.adapter.call = e.id
        /\ e.kind = "blockStop" => step.adapter.call = NoCall
        /\ e.kind \in {"text", "toolInput", "messageStop", "metadata"} => step.adapter.call = a.call
        /\ step.adapter.over = FALSE
    BY <1>1, <1>6, BedrockCalls
  <2> HIDE DEF step, f, y
  <2>3. step.adapter.call # NoCall <=> Telling(f)
    BY <1>2, <1>3, <1>5, <2>2 DEF BedrockKinds
  <2> QED BY <2>1, <2>2, <2>3 DEF Tuned
<1>7. ASSUME step.error # ""
      PROVE Ready(m, base, x) /\ HeardOf(m, x, f)
  <2>1. e.kind = "blockStop"
    <3>1. e.kind \in BedrockKinds \ {"blockStop"} => step.error = ""
      BY ZenonT(60), BedrockEventIs DEF StepIs, BedrockKinds
    <3> QED BY <1>7, <3>1
  <2>2. UtterancesOf(e) = <<>>
    BY <2>1, UtterancesOfIs
  <2> QED BY <2>2, FailureSays
<1> HIDE DEF step, f, y
<1>8. Taken(m, "bedrock", base, x, f, step, y)
  BY <1>6, <1>7 DEF Taken
<1> QED BY <1>8 DEF step, f, y

LEMMA VertexTaken ==
  ASSUME StandsApart, NEW m \in BOOLEAN, NEW base \in ReadResult, NEW a \in Adapters, NEW x, NEW events \in Events,
         Attends(m, base, a, x, events), Tuned("vertex", a, events), NEW e \in Event, e.kind = "response"
  PROVE Taken(m, "vertex", base, x, Append(events, e), VertexEvent(a, e), Hears(m, x, VertexEvent(a, e).chunks))
<1> DEFINE step == VertexEvent(a, e)
           y == Hears(m, x, step.chunks)
           f == Append(events, e)
<1>1. a.over = FALSE /\ a.call = NoCall
  BY DEF Tuned
<1>2. Listens(m, base, x, Rendering(m, Utterances(events)))
  BY <1>1, AttendsListens
<1>3. x.w.round.stopReason = NoStop /\ x.w.round.usage = 0
  BY AttendsReady
<1>4. VertexHeard(m, base, a, x, events, e, step, y)
  BY <1>2, VertexHears
<1>5. CASE e.finish = ""
  <2>1. step.adapter = Adapter(a.call, a.input, a.stop, NewerCount(a, e), EndOfTurn(a, e), a.over) /\ step.error = ""
    BY <1>5, VertexEventIs DEF StepIs
  <2>2. Listens(m, base, y, Rendering(m, Utterances(f))) /\ Counted(x, y, UtterancesOf(e))
    BY <1>4, <1>5 DEF VertexHeard
  <2> HIDE DEF step, f, y
  <2>3. step.adapter.call = NoCall /\ step.adapter.over = FALSE
    <3> DEFINE q == Adapter(a.call, a.input, a.stop, NewerCount(a, e), EndOfTurn(a, e), a.over)
    <3>1. q.call = a.call /\ q.over = a.over
      BY DEF Adapter
    <3>2. step.adapter = q
      BY <2>1
    <3> HIDE DEF q
    <3> QED BY <1>1, <3>1, <3>2
  <2>4. Attends(m, base, step.adapter, y, f)
    <3>1. Ready(m, base, y) /\ Renders(m, y.held, y.w.round.text, Rendering(m, Utterances(f)))
      BY <2>2, ListensReady DEF Listens
    <3>2. y.w.round.stopReason = NoStop /\ y.w.round.usage = 0
      BY <1>3, <2>2 DEF Counted
    <3> QED BY <2>3, <3>1, <3>2 DEF Attends
  <2>5. Tuned("vertex", step.adapter, f)
    BY <2>3 DEF Tuned
  <2>6. Taken(m, "vertex", base, x, f, step, y)
    BY <2>1, <2>3, <2>4, <2>5 DEF Taken
  <2> QED BY <2>6 DEF step, f, y
<1>6. CASE e.finish # ""
  <2>1. step.adapter = Adapter(a.call, a.input, a.stop, NewerCount(a, e), EndOfTurn(a, e), TRUE) /\ step.error = ""
    BY <1>6, VertexEventIs DEF StepIs
  <2>2. Ends(m, base, y, f)
    BY <1>4, <1>6 DEF VertexHeard
  <2> HIDE DEF step, f, y
  <2>3. step.adapter.over = TRUE
    <3> DEFINE q == Adapter(a.call, a.input, a.stop, NewerCount(a, e), EndOfTurn(a, e), TRUE)
    <3>1. q.over = TRUE
      BY DEF Adapter
    <3>2. step.adapter = q
      BY <2>1
    <3> HIDE DEF q
    <3> QED BY <3>1, <3>2
  <2>4. Taken(m, "vertex", base, x, f, step, y)
    BY <2>1, <2>2, <2>3 DEF Taken
  <2> QED BY <2>4 DEF step, f, y
<1> QED BY <1>5, <1>6

LEMMA MockTaken ==
  ASSUME StandsApart, NEW m \in BOOLEAN, NEW base \in ReadResult, NEW a \in Adapters, NEW x, NEW events \in Events,
         Attends(m, base, a, x, events), Tuned("mock", a, events), NEW e \in Event, e.kind \in {"turn", "exhausted"}
  PROVE Taken(m, "mock", base, x, Append(events, e), MockEvent(a, e), Hears(m, x, MockEvent(a, e).chunks))
<1> DEFINE step == MockEvent(a, e)
           y == Hears(m, x, step.chunks)
           f == Append(events, e)
<1>1. a.call = NoCall
  BY DEF Tuned
<1>2. Listens(m, base, x, Rendering(m, Utterances(events)))
  BY <1>1, AttendsListens
<1>3. CASE e.kind = "turn"
  <2>1. step.adapter = Adapter(a.call, a.input, a.stop, a.usage, a.endOfTurn, TRUE) /\ step.error = ""
        /\ step.chunks = ScriptedChunks(e)
    BY <1>3, MockEventIs DEF StepIs
  <2>2. MockHeard(m, base, x, events, e, y)
    BY <1>2, <1>3, <2>1, MockHears
  <2> HIDE DEF step, y
  <2>3. Ends(m, base, y, f)
    BY <2>2 DEF MockHeard
  <2> HIDE DEF f
  <2>4. step.adapter.over = TRUE
    <3> DEFINE q == Adapter(a.call, a.input, a.stop, a.usage, a.endOfTurn, TRUE)
    <3>1. q.over = TRUE
      BY DEF Adapter
    <3>2. step.adapter = q
      BY <2>1
    <3> HIDE DEF q
    <3> QED BY <3>1, <3>2
  <2>5. Taken(m, "mock", base, x, f, step, y)
    BY <2>1, <2>3, <2>4 DEF Taken
  <2> QED BY <2>5 DEF step, f, y
<1>4. CASE e.kind = "exhausted"
  <2>1. step.error = "UNKNOWN"
    BY <1>4, MockEventIs
  <2>2. UtterancesOf(e) = <<>>
    BY <1>4, UtterancesOfIs
  <2>3. Ready(m, base, x) /\ HeardOf(m, x, f)
    BY <2>2, FailureSays
  <2> HIDE DEF step, f, y
  <2>4. Taken(m, "mock", base, x, f, step, y)
    BY <2>1, <2>3 DEF Taken
  <2> QED BY <2>4 DEF step, f, y
<1> QED BY <1>3, <1>4

(* ... whichever vendor is configured.                                     *)
LEMMA EventTaken ==
  ASSUME StandsApart, NEW m \in BOOLEAN, NEW v \in Vendors, NEW base \in ReadResult, NEW a \in Adapters, NEW x, NEW events \in Events,
         Attends(m, base, a, x, events), Tuned(v, a, events),
         NEW e \in Event, Suits(v, e), InTurn(v, events, e), e.kind = "toolStart" => e.id # NoCall
  PROVE Taken(m, v, base, x, Append(events, e), AdapterEvent(v, a, e), Hears(m, x, AdapterEvent(v, a, e).chunks))
<1>1. CASE v = "bedrock"
  <2>1. AdapterEvent(v, a, e) = BedrockEvent(a, e)
    BY <1>1 DEF AdapterEvent
  <2>2. e.kind \in BedrockKinds
    BY <1>1 DEF Suits
  <2> QED BY <1>1, <2>1, <2>2, BedrockTaken
<1>2. CASE v = "vertex"
  <2>1. AdapterEvent(v, a, e) = VertexEvent(a, e)
    BY <1>2 DEF AdapterEvent
  <2>2. e.kind = "response"
    BY <1>2 DEF Suits
  <2> QED BY <1>2, <2>1, <2>2, VertexTaken
<1>3. CASE v = "mock"
  <2>1. AdapterEvent(v, a, e) = MockEvent(a, e)
    BY <1>3 DEF AdapterEvent
  <2>2. e.kind \in {"turn", "exhausted"}
    BY <1>3 DEF Suits
  <2> QED BY <1>3, <2>1, <2>2, MockTaken
<1> QED BY <1>1, <1>2, <1>3 DEF Vendors

(* What is heard has its type.                                             *)
LEMMA ReadyEars ==
  ASSUME NEW m, NEW base, NEW x, Ready(m, base, x)
  PROVE x \in Ears /\ Keeps(m, x.held)
BY DEF Ready

(* The stream's end lets go of what is held back, with a stop or without.  *)
LEMMA StopCloses ==
  ASSUME NEW m \in BOOLEAN, NEW base \in ReadResult, NEW x, NEW events, Ready(m, base, x), HeardOf(m, x, events),
         NEW r \in StopReason, NEW u \in Nat
  PROVE StoppedWith(m, base, x, events, r, u, Closing(m, x, <<StopChunk(r, u)>>))
<1>1. Closing(m, x, <<StopChunk(r, u)>>) = Hears(m, x, <<StopChunk(r, u)>>)
  BY ReadyEars, ClosingStop
<1> QED BY <1>1, StopEnds

LEMMA ReleaseCloses ==
  ASSUME NEW m \in BOOLEAN, NEW base \in ReadResult, NEW x, NEW events, Ready(m, base, x), HeardOf(m, x, events),
         x.w.round.stopReason = NoStop
  PROVE Ends(m, base, Closing(m, x, <<>>), events) /\ Same(x, Closing(m, x, <<>>))
<1> DEFINE y == Released(x)
<1>1. Closing(m, x, <<>>) = y
  BY ReadyEars, ClosingNothing
<1>2. Emptied(m, base, x, y) /\ Same(x, y)
  BY ReleasedFacts
<1> HIDE DEF y
<1>3. Ends(m, base, y, events)
  BY <1>2 DEF Emptied, Same, HeardOf, Ends, Unstopped
<1> QED BY <1>1, <1>2, <1>3

(* Every stream's end ends it, with a stop or without.                     *)
LEMMA StreamEnds ==
  ASSUME NEW m \in BOOLEAN, NEW v, NEW base \in ReadResult, NEW a \in Adapters, NEW x, NEW events \in Events,
         Attends(m, base, a, x, events)
  PROVE Ends(m, base, Closing(m, x, AdapterEnd(v, a).chunks), events)
<1> DEFINE c == AdapterEnd(v, a).chunks
<1>1. Ready(m, base, x) /\ HeardOf(m, x, events) /\ x.w.round.stopReason = NoStop
  BY AttendsReady
<1>2. a.usage \in Nat /\ a.endOfTurn \in StopReason
  BY AdapterParts
<1>3. CASE v = "bedrock" /\ a.stop = NoStop
  <2>1. c = <<>>
    BY <1>3, AdapterEndIs DEF StepIs
  <2> HIDE DEF c
  <2> QED BY <1>1, <2>1, ReleaseCloses DEF c
<1>4. CASE v = "bedrock" /\ a.stop # NoStop
  <2>1. c = <<StopChunk(a.stop, a.usage)>> /\ a.stop \in StopReason
    BY <1>4, AdapterEndIs DEF StepIs
  <2> HIDE DEF c
  <2>2. StoppedWith(m, base, x, events, a.stop, a.usage, Closing(m, x, <<StopChunk(a.stop, a.usage)>>))
    BY <1>1, <1>2, <2>1, StopCloses
  <2> QED BY <2>1, <2>2 DEF StoppedWith, c
<1>5. CASE v # "bedrock"
  <2>1. c = <<StopChunk(a.endOfTurn, a.usage)>>
    BY <1>5, AdapterEndIs DEF StepIs
  <2> HIDE DEF c
  <2>2. StoppedWith(m, base, x, events, a.endOfTurn, a.usage, Closing(m, x, <<StopChunk(a.endOfTurn, a.usage)>>))
    BY <1>1, <1>2, StopCloses
  <2> QED BY <2>1, <2>2 DEF StoppedWith, c
<1> QED BY <1>3, <1>4, <1>5

(* What the type invariant says, in the terms used here.                   *)
LEMMA TypedParts ==
  ASSUME TypeOK
  PROVE /\ setup \in Setups /\ setup.masked \in BOOLEAN /\ setup.vendor \in Vendors
        /\ said \in Seq(Events) /\ shown \in Shown /\ Ear \in Ears /\ Hearing \in Hearings
        /\ wire.adapter \in Adapters /\ Ear.held = wire.held /\ Ear.w = Hearing
        /\ Ear.w.round = round /\ Ear.w.shown = shown /\ Hearing.shown = shown
        /\ (at \in {"streaming", "ended", "tools", "done"} => said # <<>>)
<1>1. Hearing.shown = shown
  BY DEF Hearing
<1> QED BY <1>1, SetupFacts, EarType DEF TypeOK, Typed, Heeded

(* Every action keeps what is shown following what is said.                *)
LEMMA AskFollows ==
  ASSUME TypeOK, Following, Ask
  PROVE Following'
<1>1. Settled(setup.masked, shown, said)
  BY DEF Ask, Following
<1>2. at' = "streaming" /\ setup' = setup /\ shown' = shown /\ round' = NewRound /\ wire' = NewWire
      /\ said' = Append(said, <<>>)
  BY AskTyped DEF Ask
<1>3. Streams(setup.masked, setup.vendor, NewAdapter, [held |-> <<>>, w |-> [round |-> NewRound, shown |-> shown]],
              Append(said, <<>>))
  BY <1>1, TypedParts, SettledOpens
<1>4. Ear' = [held |-> <<>>, w |-> [round |-> NewRound, shown |-> shown]] /\ wire'.adapter = NewAdapter
  BY <1>2, NewThings DEF Ear, Hearing
<1> QED BY <1>2, <1>3, <1>4 DEF Following

LEMMA ReceiveFollows ==
  ASSUME StandsApart, TypeOK, Following, NEW e \in Event, Comes(e), Receive(e)
  PROVE Following'
<1> DEFINE m == setup.masked
           step == AdapterEvent(setup.vendor, wire.adapter, e)
           y == Hears(m, Ear, step.chunks)
           s == SaidMore(e)
           base == Base(m, s)
<1>1. Typed
  BY DEF TypeOK
<1>2. Received(e, step, y)
  BY <1>1, ReceiveIs
<1>3. at = "streaming" /\ setup' = setup /\ said' = s
  BY <1>2, ReceiveTyped DEF Received
<1>4. m \in BOOLEAN /\ said \in Seq(Events) /\ said # <<>> /\ shown \in Shown
  BY <1>3, TypedParts
<1>5. s \in Seq(Events) /\ s # <<>> /\ Front(s) = Front(said) /\ Last(s) = Append(Now, e) /\ Now \in Events
  BY <1>4, SaidGrows
<1>6. base = Base(m, said) /\ base \in ReadResult
  BY <1>4, <1>5, SaidParts DEF Base
<1>7. Attends(m, base, wire.adapter, Ear, Now) /\ Tuned(setup.vendor, wire.adapter, Now)
  <2>1. Streams(m, setup.vendor, wire.adapter, Ear, said)
    BY <1>3 DEF Following
  <2> QED BY <1>6, <2>1 DEF Streams, Now
<1>8. Taken(m, setup.vendor, base, Ear, Append(Now, e), step, y)
  <2>1. Suits(setup.vendor, e) /\ InTurn(setup.vendor, Now, e) /\ (e.kind = "toolStart" => e.id # NoCall)
    BY ComesInTurn DEF Comes
  <2> HIDE DEF base, m
  <2> QED BY <1>4, <1>5, <1>6, <1>7, <2>1, TypedParts, EventTaken
<1>9. step.adapter \in Adapters /\ y \in Ears
  <2>1. StepTyped(step)
    BY TypedParts, AdapterEventType DEF Comes
  <2> QED BY <1>4, <2>1, TypedParts, HearsType DEF StepTyped
<1> HIDE DEF m, step, y, s, base
<1>10. CASE step.error = ""
  <2>1. wire' = [adapter |-> step.adapter, held |-> y.held] /\ round' = y.w.round /\ shown' = y.w.shown
        /\ at' = IF step.adapter.over THEN "ended" ELSE "streaming"
    BY <1>2, <1>10 DEF Received
  <2>2. y = [held |-> y.held, w |-> y.w] /\ y.w = [round |-> y.w.round, shown |-> y.w.shown]
    BY <1>9, EarParts, HearingParts
  <2>3. Ear' = y /\ wire'.adapter = step.adapter
    BY <2>1, <2>2 DEF Ear, Hearing
  <2>4. step.adapter.over = TRUE \/ step.adapter.over = FALSE
    BY <1>9, AdapterParts
  <2>5. CASE step.adapter.over = TRUE
    <3>1. at' = "ended" /\ Ends(m, base, y, Last(s))
      BY <1>5, <1>8, <1>10, <2>1, <2>5 DEF Taken
    <3>2. Closes(m, y, s)
      BY <3>1 DEF Closes, base
    <3> QED BY <1>3, <2>3, <3>1, <3>2 DEF Following, m
  <2>6. CASE step.adapter.over = FALSE
    <3>1. at' = "streaming" /\ Attends(m, base, step.adapter, y, Last(s)) /\ Tuned(setup.vendor, step.adapter, Last(s))
      BY <1>5, <1>8, <1>10, <2>1, <2>6 DEF Taken
    <3>2. Streams(m, setup.vendor, step.adapter, y, s)
      BY <3>1 DEF Streams, base
    <3> QED BY <1>3, <2>3, <3>1, <3>2 DEF Following, m
  <2> QED BY <2>4, <2>5, <2>6
<1>11. CASE step.error # ""
  <2>1. Fails([code |-> step.error, retryable |-> FALSE])
    BY <1>2, <1>11 DEF Received
  <2>2. at' = "failed" /\ shown' = Flushed(Hearing)
    BY <1>1, <2>1, FailsIs
  <2>3. Ready(m, base, Ear) /\ HeardOf(m, Ear, Last(s))
    BY <1>5, <1>8, <1>11 DEF Taken
  <2>4. ClosedOver(shown, Flushed(Hearing)) /\ Ear.w.shown = shown
    BY TypedParts, FlushedCloses
  <2>5. Broken(m, Flushed(Hearing), s)
    BY <1>4, <1>5, <2>3, <2>4, ReadyBroken DEF base
  <2> QED BY <1>3, <2>2, <2>5 DEF Following, m
<1> QED BY <1>10, <1>11

LEMMA VendorEndsFollows ==
  ASSUME TypeOK, Following, VendorEnds
  PROVE Following'
<1> DEFINE m == setup.masked
           step == AdapterEnd(setup.vendor, wire.adapter)
           y == Closing(m, Ear, step.chunks)
           base == Base(m, said)
<1>1. Typed
  BY DEF TypeOK
<1>2. Ended(step, y)
  BY <1>1, VendorEndsIs
<1>3. at = "streaming" /\ setup' = setup /\ said' = said /\ at' = "ended"
      /\ wire' = [adapter |-> step.adapter, held |-> <<>>] /\ round' = y.w.round /\ shown' = y.w.shown
  BY <1>2 DEF Ended
<1>4. m \in BOOLEAN /\ said \in Seq(Events) /\ said # <<>>
  BY <1>3, TypedParts
<1>5. base \in ReadResult /\ Last(said) \in Events
  BY <1>4, SaidParts
<1>6. Attends(m, base, wire.adapter, Ear, Last(said))
  <2>1. Streams(m, setup.vendor, wire.adapter, Ear, said)
    BY <1>3 DEF Following
  <2> QED BY <2>1 DEF Streams
<1>7. Ends(m, base, y, Last(said))
  <2> HIDE DEF m, base
  <2> QED BY <1>4, <1>5, <1>6, TypedParts, StreamEnds
<1>8. y \in Ears /\ y.held = <<>>
  BY <1>7 DEF Ends
<1> HIDE DEF m, step, y, base
<1>9. y = [held |-> y.held, w |-> y.w] /\ y.w = [round |-> y.w.round, shown |-> y.w.shown]
  BY <1>8, EarParts, HearingParts
<1>10. Ear' = y
  BY <1>3, <1>8, <1>9 DEF Ear, Hearing
<1>11. Closes(m, y, said)
  BY <1>7 DEF Closes, base
<1> QED BY <1>3, <1>10, <1>11 DEF Following, m

(* The handler's closing of a round that has not ended.                    *)
LEMMA BreaksOff ==
  ASSUME TypeOK, Following, at \in {"ask", "streaming", "tools"}
  PROVE Broken(setup.masked, Flushed(Hearing), said)
<1>1. ClosedOver(shown, Flushed(Hearing))
  BY TypedParts, FlushedCloses
<1>2. CASE at = "streaming"
  <2>1. Attends(setup.masked, Base(setup.masked, said), wire.adapter, Ear, Last(said))
    BY <1>2 DEF Following, Streams
  <2>2. said # <<>> /\ said \in Seq(Events) /\ setup.masked \in BOOLEAN /\ Ear.w.shown = shown
    BY <1>2, TypedParts
  <2>3. Last(said) \in Events
    BY <2>2, SaidParts
  <2>4. Ready(setup.masked, Base(setup.masked, said), Ear) /\ HeardOf(setup.masked, Ear, Last(said))
    BY <2>1, <2>2, <2>3, AttendsReady
  <2> QED BY <1>1, <2>2, <2>4, ReadyBroken
<1>3. CASE at \in {"ask", "tools"}
  <2>1. Settled(setup.masked, shown, said)
    BY <1>3 DEF Following
  <2>2. Whole(setup.masked, Flushed(Hearing), said)
    BY <1>1, <2>1, TypedParts, SettledClosed
  <2> QED BY <2>2, WholeBroken
<1> QED BY <1>2, <1>3

LEMMA VendorFailsFollows ==
  ASSUME TypeOK, Following, NEW fault, VendorFails(fault)
  PROVE Following'
<1>1. at = "streaming" /\ setup' = setup /\ said' = said
  BY DEF VendorFails
<1>2. at' = "failed" /\ shown' = Flushed(Hearing)
  BY VendorFailsTyped
<1> QED BY <1>1, <1>2, BreaksOff DEF Following

LEMMA AbandonFollows ==
  ASSUME TypeOK, Following, Abandon
  PROVE Following'
<1>1. at \in {"ask", "streaming", "tools"}
  BY DEF Abandon
<1>2. at' = "abandoned" /\ shown' = Flushed(Hearing) /\ setup' = setup /\ said' = said
  BY AbandonIs
<1> QED BY <1>1, <1>2, BreaksOff DEF Following

LEMMA MaskThrowsFollows ==
  ASSUME TypeOK, Following, MaskThrows
  PROVE Following'
<1>1. at = "ask" /\ at' \in {"failed", "abandoned"} /\ setup' = setup /\ said' = said /\ shown' = shown
  BY DEF MaskThrows
<1>2. Settled(setup.masked, shown, said)
  BY <1>1 DEF Following
<1>3. Broken(setup.masked, shown, said)
  BY <1>2, TypedParts, SettledWhole, WholeBroken
<1> QED BY <1>1, <1>3 DEF Following

LEMMA EndRoundFollows ==
  ASSUME TypeOK, Following, EndRound
  PROVE Following'
<1>1. at = "ended" /\ setup' = setup /\ said' = said /\ at' \in {"tools", "done"}
      /\ (at' = "tools" => round.stopReason = "tool_use")
      /\ shown' = IF at' = "done" THEN Flushed(Hearing) ELSE shown
  BY DEF EndRound, ContinueToolLoop
<1>2. Closes(setup.masked, Ear, said)
  BY <1>1 DEF Following
<1>3. said # <<>> /\ said \in Seq(Events) /\ setup.masked \in BOOLEAN /\ Ear.w.shown = shown /\ Ear.w.round = round
  BY <1>1, TypedParts
<1>4. CASE at' = "tools"
  <2>1. round.stopReason # NoStop
    BY <1>1, <1>4 DEF NoStop
  <2>2. Settled(setup.masked, shown, said)
    BY <1>2, <1>3, <2>1, EndsSettled
  <2> QED BY <1>1, <1>4, <2>2 DEF Following
<1>5. CASE at' = "done"
  <2>1. ClosedOver(Ear.w.shown, Flushed(Hearing))
    BY TypedParts, FlushedCloses
  <2>2. Whole(setup.masked, Flushed(Hearing), said)
    BY <1>2, <1>3, <2>1, EndsWhole
  <2> QED BY <1>1, <1>5, <2>2 DEF Following
<1> QED BY <1>1, <1>4, <1>5

LEMMA RunToolsFollows ==
  ASSUME TypeOK, Following, RunTools
  PROVE Following'
<1>1. at = "tools" /\ setup' = setup /\ said' = said
      /\ (\/ at' = "ask" /\ shown' = shown
          \/ Fails([code |-> "UNKNOWN", retryable |-> FALSE]))
  BY DEF RunTools
<1>2. Settled(setup.masked, shown, said)
  BY <1>1 DEF Following
<1>3. CASE at' = "ask" /\ shown' = shown
  BY <1>1, <1>2, <1>3 DEF Following
<1>4. CASE Fails([code |-> "UNKNOWN", retryable |-> FALSE])
  <2>1. at' = "failed" /\ shown' = Flushed(Hearing)
    BY <1>4, FailsIs DEF TypeOK
  <2> QED BY <1>1, <2>1, BreaksOff DEF Following
<1> QED BY <1>1, <1>3, <1>4

(* Steps of the tools and the abort leave it alone.                        *)
LEMMA StaysFollows ==
  ASSUME Following, UNCHANGED <<setup, at, wire, round, shown, said>>
  PROVE Following'
<1>1. Ear' = Ear
  BY DEF Ear, Hearing
<1> QED BY <1>1 DEF Following

(* No step breaks it.                                                      *)
LEMMA NextFollows ==
  ASSUME StandsApart, TypeOK, Following, [Next]_vars
  PROVE Following'
<1>1. CASE UNCHANGED vars
  BY <1>1, StaysFollows DEF vars
<1>2. CASE Next
  <2>1. CASE MaskThrows
    BY <2>1, MaskThrowsFollows
  <2>2. CASE Ask
    BY <2>2, AskFollows
  <2>3. CASE VendorSays
    <3>1. at = "streaming"
      BY <2>3 DEF VendorSays
    <3>2. setup \in Setups /\ said \in Seq(Events) /\ said # <<>>
      BY <3>1, TypedParts
    <3>3. PICK e \in Event : Comes(e) /\ Receive(e)
      BY <2>3, <3>2, VendorComes
    <3> QED BY <3>3, ReceiveFollows
  <2>4. CASE VendorEnds
    BY <2>4, VendorEndsFollows
  <2>5. ASSUME NEW fault \in setup.faults, VendorFails(fault) PROVE Following'
    BY <2>5, VendorFailsFollows
  <2>6. CASE EndRound
    BY <2>6, EndRoundFollows
  <2>7. CASE RunTools
    BY <2>7, RunToolsFollows
  <2>8. CASE ToolsChange
    BY <2>8, StaysFollows DEF ToolsChange
  <2>9. CASE Abort
    BY <2>9, StaysFollows DEF Abort
  <2>10. CASE Abandon
    BY <2>10, AbandonFollows
  <2>11. CASE Over
    BY <2>11, StaysFollows DEF Over, vars
  <2> QED BY <1>2, <2>1, <2>2, <2>3, <2>4, <2>5, <2>6, <2>7, <2>8, <2>9, <2>10, <2>11 DEF Next
<1> QED BY <1>1, <1>2

(* Read off the events, as the property reads it.                          *)
LEMMA ReadingButIs == \A n : ReadingBut(n) = ButOf(setup.masked, said, n)
BY DEF ReadingBut, ButOf, Now

(* The invariant is what the model states of what is shown.                *)
LEMMA FollowsIsShown ==
  ASSUME TypeOK, Following
  PROVE SpokenIsShown
<1> DEFINE m == setup.masked
<1>1. m \in BOOLEAN /\ said \in Seq(Events) /\ shown \in Shown /\ Ear.w.shown = shown
  BY TypedParts
<1>2. at \in Places
  BY DEF TypeOK, Typed
<1>3. Near(m, shown, said) => IsPrefix(shown.segments, ReadingBut(0))
                              /\ Len(ReadingBut(0)) <= Len(shown.segments) + MaxTokenLength + Len(CloseTag) - 2
  BY ReadingButIs DEF Near
<1>4. CASE at \in {"failed", "abandoned"}
  <2>1. Broken(m, shown, said)
    BY <1>4 DEF Following
  <2>2. \E missing \in 0..(MaxTokenLength - 1) :
            /\ missing # 0 => setup.masked /\ said # <<>> /\ missing <= Len(TextOf(setup.masked, Now))
            /\ shown.segments = ReadingBut(missing)
    BY <2>1, ReadingButIs DEF Broken, Now
  <2> QED BY <1>4, <2>2 DEF SpokenIsShown
<1>5. CASE at = "done"
  <2>1. Whole(m, shown, said)
    BY <1>5 DEF Following
  <2> QED BY <1>5, <2>1, ReadingButIs DEF Whole, SpokenIsShown
<1>6. CASE at \in {"ask", "tools"}
  <2>1. Near(m, shown, said)
    BY <1>1, <1>6, SettledNear DEF Following
  <2> QED BY <1>3, <1>6, <2>1 DEF SpokenIsShown
<1>7. CASE at \in {"streaming", "ended"}
  <2>1. said # <<>>
    BY <1>7, TypedParts
  <2>2. CASE at = "ended"
    <3>1. Near(m, shown, said)
      BY <1>1, <2>1, <2>2, EndsNear DEF Following
    <3> QED BY <1>3, <2>2, <3>1 DEF SpokenIsShown
  <2>3. CASE at = "streaming"
    <3>1. Attends(m, Base(m, said), wire.adapter, Ear, Last(said))
      BY <2>3 DEF Following, Streams
    <3>2. Last(said) \in Events
      BY <1>1, <2>1, SaidParts
    <3>3. Ready(m, Base(m, said), Ear) /\ HeardOf(m, Ear, Last(said))
      BY <1>1, <3>1, <3>2, AttendsReady
    <3>4. Near(m, shown, said)
      BY <1>1, <2>1, <3>3, ReadyNear
    <3> QED BY <1>3, <2>3, <3>4 DEF SpokenIsShown
  <2> QED BY <1>7, <2>2, <2>3
<1> QED BY <1>2, <1>4, <1>5, <1>6, <1>7 DEF Places

(* For a token and a value that stand apart, which the mask's interface    *)
(* does not promise (MCProviderTurnOverlap shows what happens otherwise):  *)
(* however the vendor cuts its text, what the handler is given is what the *)
(* whole text reads as with the values in place, and it is never further   *)
(* behind than a token and a tag that may still come (withMask.ts:108,     *)
(* thinkingTagParser.ts:27).                                               *)
THEOREM ShownAsSpoken ==
  ASSUME StandsApart
  PROVE Spec => []SpokenIsShown
<1>1. Init => TypeOK /\ Following
  BY InitTyped, InitFollows
<1>2. TypeOK /\ Following /\ [Next]_vars => TypeOK' /\ Following'
  BY NextTyped, NextFollows
<1>3. TypeOK /\ Following => SpokenIsShown
  BY FollowsIsShown
<1> QED BY <1>1, <1>2, <1>3, PTL DEF Spec

(* Where a sequence has an element of some kind, and the last of these.    *)

-----------------------------------------------------------------------------
(* The counts, the stops and the calls, as read off the events.            *)

(* Where an event of P stands.                                             *)
Marks(P, s) == {i \in DOMAIN s : s[i] \in P}

(* The last of them is one.                                                *)
LEMMA MarksFacts ==
  ASSUME NEW P, NEW s \in Events
  PROVE /\ Marks(P, s) \subseteq 1..Len(s) /\ Len(s) \in Nat
        /\ Marks(P, s) # {} => Max(Marks(P, s)) \in 1..Len(s) /\ s[Max(Marks(P, s))] \in P
        /\ Marks(P, <<>>) = {}
<1> HIDE DEF Events
<1>1. DOMAIN s = 1..Len(s) /\ Len(s) \in Nat
  <2> USE DEF Events
  <2> HIDE DEF Event
  <2> QED OBVIOUS
<1> DEFINE T == Marks(P, s)
           b == Len(s)
<1>2. T \subseteq 1..b
  BY <1>1 DEF Marks
<1>3. \A i \in T : s[i] \in P
  BY DEF Marks
<1>4. Marks(P, <<>>) = {}
  BY DEF Marks
<1> HIDE DEF T, b
<1>5. ASSUME T # {}
      PROVE Max(T) \in T
  <2>1. T \subseteq 0..b /\ b \in Nat
    BY <1>1, <1>2 DEF b
  <2> QED BY <1>5, <2>1, GreatestNumber
<1> QED BY <1>1, <1>2, <1>3, <1>4, <1>5 DEF T, b

(* Events, one more.                                                       *)
LEMMA EventsAt ==
  ASSUME NEW s \in Events, NEW e \in Event
  PROVE /\ Len(Append(s, e)) = Len(s) + 1 /\ Len(s) \in Nat
        /\ DOMAIN s = 1..Len(s) /\ DOMAIN Append(s, e) = 1..(Len(s) + 1)
        /\ \A i \in 1..Len(s) : Append(s, e)[i] = s[i] /\ s[i] \in Event
        /\ Append(s, e)[Len(s) + 1] = e
<1> HIDE DEF Event
<1> QED BY DEF Events

(* ... which is the last if it is of P, and changes nothing if not.        *)
LEMMA MarksAppend ==
  ASSUME NEW P, NEW s \in Events, NEW e \in Event
  PROVE /\ e \in P => /\ Marks(P, Append(s, e)) # {}
                      /\ Append(s, e)[Max(Marks(P, Append(s, e)))] = e
        /\ e \notin P => /\ Marks(P, Append(s, e)) = Marks(P, s)
                         /\ Marks(P, s) # {} =>
                              Append(s, e)[Max(Marks(P, Append(s, e)))] = s[Max(Marks(P, s))]
<1> DEFINE t == Append(s, e)
           T == Marks(P, t)
           n == Len(s) + 1
<1>1. Len(s) \in Nat /\ n \in Nat /\ DOMAIN s = 1..Len(s) /\ DOMAIN t = 1..n
      /\ (\A i \in 1..Len(s) : t[i] = s[i]) /\ t[n] = e
  BY EventsAt
<1>2. n \in 1..n
  BY <1>1
<1> HIDE DEF t
<1>3. ASSUME e \in P PROVE T # {} /\ t[Max(T)] = e
  <2>1. n \in T
    BY <1>1, <1>2, <1>3 DEF Marks
  <2>2. T \subseteq 0..n
    BY <1>1 DEF Marks
  <2> HIDE DEF T
  <2>3. Max(T) \in T /\ \A k \in T : k <= Max(T)
    BY <1>1, <2>1, <2>2, GreatestNumber
  <2>4. n <= Max(T) /\ Max(T) \in 0..n
    BY <2>1, <2>2, <2>3
  <2> HIDE DEF n
  <2>5. Max(T) = n
    BY <1>1, <2>4
  <2> QED BY <1>1, <2>1, <2>5
<1>4. ASSUME e \notin P PROVE T = Marks(P, s)
  <2>1. ASSUME NEW i PROVE i \in T <=> i \in Marks(P, s)
    <3>1. CASE i \in 1..Len(s)
      <4>1. i \in 1..n
        BY <1>1, <3>1
      <4> QED BY <1>1, <3>1, <4>1 DEF Marks
    <3>2. CASE i \notin 1..Len(s)
      <4>1. i \in 1..n => i = n
        BY <1>1, <3>2
      <4> QED BY <1>1, <1>4, <3>2, <4>1 DEF Marks
    <3> QED BY <3>1, <3>2
  <2> QED BY <2>1
<1>5. ASSUME e \notin P, Marks(P, s) # {} PROVE t[Max(T)] = s[Max(Marks(P, s))]
  <2>1. Max(Marks(P, s)) \in 1..Len(s)
    BY <1>5, MarksFacts
  <2>2. T = Marks(P, s)
    BY <1>4, <1>5
  <2> HIDE DEF T
  <2> QED BY <1>1, <2>1, <2>2
<1> QED BY <1>3, <1>4, <1>5 DEF t

(* The last counts that were sent, and the last stop.                      *)
Counting == {e \in Event : e.kind \in {"metadata", "response", "turn"} /\ e.usage # 0}
Stopping == {e \in Event : e.kind = "messageStop"}

(* The last of them.                                                       *)
LastCount(s) == IF Counts(s) # {} THEN s[Max(Counts(s))].usage ELSE 0
LastStop(s) == IF Stops(s) # {} THEN s[Max(Stops(s))].reason ELSE NoStop

(* The model's sets are such.                                              *)
LEMMA MarksAre ==
  ASSUME NEW s \in Events
  PROVE Counts(s) = Marks(Counting, s) /\ Stops(s) = Marks(Stopping, s)
<1>1. \A i \in DOMAIN s : s[i] \in Event
  <2> HIDE DEF Event
  <2> QED BY DEF Events
<1> HIDE DEF Event
<1> QED BY <1>1 DEF Counts, Stops, Marks, Counting, Stopping

(* The last count and the last stop, with an event more.                   *)
LEMMA LastCountFacts ==
  /\ LastCount(<<>>) = 0
  /\ \A s \in Events : LastCount(s) \in Nat
  /\ \A s \in Events, e \in Event :
        /\ e \in Counting => LastCount(Append(s, e)) = e.usage
        /\ e \notin Counting => LastCount(Append(s, e)) = LastCount(s)
<1> DEFINE P == Counting
<1>0. <<>> \in Events
  BY EventsFacts
<1>1. \A e \in P : e.usage \in Nat
  BY EventParts DEF Counting
<1> HIDE DEF P
<1>2. LastCount(<<>>) = 0
  BY <1>0, MarksAre, MarksFacts DEF LastCount
<1>3. ASSUME NEW s \in Events PROVE LastCount(s) \in Nat
  BY <1>1, MarksAre, MarksFacts DEF LastCount, P
<1>4. ASSUME NEW s \in Events, NEW e \in Event
      PROVE /\ e \in P => LastCount(Append(s, e)) = e.usage
            /\ e \notin P => LastCount(Append(s, e)) = LastCount(s)
  <2> DEFINE t == Append(s, e)
  <2>1. t \in Events
    BY EventsFacts
  <2>2. Counts(t) = Marks(P, t) /\ Counts(s) = Marks(P, s)
    BY <2>1, MarksAre DEF P
  <2>3. /\ e \in P => Marks(P, t) # {} /\ t[Max(Marks(P, t))] = e
        /\ e \notin P => /\ Marks(P, t) = Marks(P, s)
                         /\ Marks(P, s) # {} => t[Max(Marks(P, t))] = s[Max(Marks(P, s))]
    BY ZenonT(60), MarksAppend
  <2> HIDE DEF t
  <2>4. e \in P => LastCount(t) = e.usage
    BY <2>2, <2>3 DEF LastCount
  <2>5. e \notin P => LastCount(t) = LastCount(s)
    BY <2>2, <2>3 DEF LastCount
  <2> QED BY <2>4, <2>5 DEF t
<1> QED BY <1>2, <1>3, <1>4 DEF P

LEMMA LastStopFacts ==
  /\ LastStop(<<>>) = NoStop
  /\ \A s \in Events, e \in Event :
        /\ e \in Stopping => LastStop(Append(s, e)) = e.reason
        /\ e \notin Stopping => LastStop(Append(s, e)) = LastStop(s)
<1> DEFINE P == Stopping
<1>0. <<>> \in Events
  BY EventsFacts
<1> HIDE DEF P
<1>2. LastStop(<<>>) = NoStop
  BY <1>0, MarksAre, MarksFacts DEF LastStop
<1>4. ASSUME NEW s \in Events, NEW e \in Event
      PROVE /\ e \in P => LastStop(Append(s, e)) = e.reason
            /\ e \notin P => LastStop(Append(s, e)) = LastStop(s)
  <2> DEFINE t == Append(s, e)
  <2>1. t \in Events
    BY EventsFacts
  <2>2. Stops(t) = Marks(P, t) /\ Stops(s) = Marks(P, s)
    BY <2>1, MarksAre DEF P
  <2>3. /\ e \in P => Marks(P, t) # {} /\ t[Max(Marks(P, t))] = e
        /\ e \notin P => /\ Marks(P, t) = Marks(P, s)
                         /\ Marks(P, s) # {} => t[Max(Marks(P, t))] = s[Max(Marks(P, s))]
    BY MarksAppend
  <2> HIDE DEF t
  <2>4. e \in P => LastStop(t) = e.reason
    BY <2>2, <2>3 DEF LastStop
  <2>5. e \notin P => LastStop(t) = LastStop(s)
    BY <2>2, <2>3 DEF LastStop
  <2> QED BY <2>4, <2>5 DEF t
<1> QED BY <1>2, <1>4 DEF P

(* The calls that were begun, whether they were finished or not.           *)
StartOf(e) == IF e.kind = "toolStart" THEN <<e.id>> ELSE <<>>

(* ... and all the calls begun.                                            *)
StartF == [e \in Event |-> StartOf(e)]
Started(s) == Flat(StartF, s)

(* What SpokenCalls has of the event at i.                                 *)
WholeAt(s, i) == IF Starts(s, i) /\ Closed(s, i) THEN <<s[i].id>> ELSE <<>>
WholeOnes(s) == [i \in DOMAIN s |-> WholeAt(s, i)]

(* They are names.                                                         *)
LEMMA StartTypes ==
  /\ \A e \in Event : StartOf(e) \in Names
  /\ StartF \in [Event -> Names]
  /\ \A e \in Event : StartF[e] = StartOf(e)
<1>1. ASSUME NEW e \in Event PROVE StartOf(e) \in Names
  BY EventParts, NamesAlgebra DEF StartOf
<1> HIDE DEF Event, Names
<1> QED BY <1>1 DEF StartF

(* ... and a fold.                                                         *)
LEMMA StartedFold ==
  /\ Started(<<>>) = <<>>
  /\ \A s \in Events : Started(s) \in Names
  /\ \A s \in Events, e \in Event : Started(Append(s, e)) = Started(s) \o StartOf(e)
<1> DEFINE g == StartF
<1>1. g \in [Event -> Seq(Name)] /\ \A e \in Event : g[e] = StartOf(e)
  BY StartTypes DEF Names
<1> HIDE DEF g, Event
<1>2. /\ Flat(g, <<>>) = <<>>
      /\ \A s \in Seq(Event) : Flat(g, s) \in Seq(Name)
      /\ \A s \in Seq(Event), e \in Event : Flat(g, Append(s, e)) = Flat(g, s) \o g[e]
  BY <1>1, FlatFacts
<1> QED BY <1>1, <1>2 DEF Started, Events, Names, g

(* The model's SpokenCalls is that.                                        *)
LEMMA BedrockCallsAre ==
  \A s : SpokenCalls("bedrock", s) = FlattenSeq(WholeOnes(s))
BY DEF SpokenCalls, WholeOnes, WholeAt

(* ... has its type.                                                       *)
LEMMA WholeOnesType ==
  ASSUME NEW s \in Events
  PROVE WholeOnes(s) \in Seq(Names) /\ Mapped(StartF, s) \in Seq(Names)
<1>1. \A i \in DOMAIN s : s[i] \in Event
  <2> HIDE DEF Event
  <2> QED BY DEF Events
<1>2. \A i \in DOMAIN s : WholeAt(s, i) \in Names
  <2> SUFFICES ASSUME NEW i \in DOMAIN s PROVE WholeAt(s, i) \in Names
    OBVIOUS
  <2>1. s[i].kind = "toolStart" => s[i].id \in Name
    BY <1>1, EventParts
  <2> QED BY <2>1, NamesAlgebra DEF WholeAt, Starts
<1>3. Len(s) \in Nat /\ DOMAIN s = 1..Len(s)
  <2> HIDE DEF Event
  <2> QED BY DEF Events
<1>4. WholeOnes(s) \in Seq(Names)
  <2> HIDE DEF Names
  <2>1. WholeOnes(s) \in [1..Len(s) -> Names]
    BY <1>2, <1>3 DEF WholeOnes
  <2> QED BY <1>3, <2>1
<1>5. Mapped(StartF, s) \in Seq(Names)
  BY StartTypes, MappedType DEF Events
<1> QED BY <1>4, <1>5

(* A sequence with one element more.                                       *)
LEMMA AppendIs ==
  ASSUME NEW A, NEW f \in Seq(A), NEW g \in Seq(A), NEW v \in A,
         Len(g) = Len(f) + 1, \A i \in 1..Len(f) : g[i] = f[i], g[Len(f) + 1] = v
  PROVE g = Append(f, v)
<1>1. Append(f, v) \in Seq(A) /\ Len(Append(f, v)) = Len(f) + 1 /\ Len(f) \in Nat
  OBVIOUS
<1>2. ASSUME NEW i \in 1..Len(g) PROVE g[i] = Append(f, v)[i]
  <2>1. CASE i = Len(f) + 1
    BY <2>1
  <2>2. CASE i # Len(f) + 1
    <3>1. i \in 1..Len(f)
      BY <1>1, <2>2
    <3> QED BY <3>1
  <2> QED BY <2>1, <2>2
<1> QED BY <1>1, <1>2, SeqEqual

(* The end of a block makes whole what was begun; nothing else does.       *)
LEMMA BedrockCallsAppend ==
  ASSUME NEW s \in Events, NEW e \in Event
  PROVE /\ e.kind = "blockStop" => SpokenCalls("bedrock", Append(s, e)) = Started(s)
        /\ e.kind # "blockStop" => SpokenCalls("bedrock", Append(s, e)) = SpokenCalls("bedrock", s)
<1> DEFINE t == Append(s, e)
           n == Len(s)
           w == WholeOnes(t)
<1>1. t \in Events /\ n \in Nat /\ DOMAIN s = 1..n /\ DOMAIN t = 1..(n + 1) /\ t[n + 1] = e
      /\ \A i \in 1..n : t[i] = s[i] /\ s[i] \in Event
  BY EventsFacts, EventsAt
<1>2. w \in Seq(Names) /\ WholeOnes(s) \in Seq(Names) /\ Mapped(StartF, s) \in Seq(Names)
  BY <1>1, WholeOnesType
<1> HIDE DEF t, n
<1>3. Len(w) = n + 1 /\ Len(WholeOnes(s)) = n /\ Len(Mapped(StartF, s)) = n
  BY <1>1 DEF WholeOnes, Mapped
<1>4. \A i \in 1..(n + 1) : w[i] = WholeAt(t, i)
  BY <1>1 DEF WholeOnes
<1>5. \A i \in 1..n : WholeOnes(s)[i] = WholeAt(s, i) /\ Mapped(StartF, s)[i] = StartOf(s[i])
  <2>1. \A i \in 1..n : Mapped(StartF, s)[i] = StartF[s[i]] /\ WholeOnes(s)[i] = WholeAt(s, i)
    BY <1>1 DEF Mapped, WholeOnes
  <2> QED BY <1>1, <2>1, StartTypes
<1>6. WholeAt(t, n + 1) = <<>>
  <2>1. ~Closed(t, n + 1)
    BY <1>1 DEF Closed
  <2> QED BY <2>1 DEF WholeAt
<1>7. <<>> \in Names
  BY NamesAlgebra
<1> HIDE DEF w
<1>8. CASE e.kind = "blockStop"
  <2>1. \A i \in 1..n : w[i] = Mapped(StartF, s)[i]
    <3> SUFFICES ASSUME NEW i \in 1..n PROVE WholeAt(t, i) = StartOf(s[i])
      BY <1>1, <1>4, <1>5
    <3>1. Closed(t, i)
      <4>1. n + 1 \in DOMAIN t /\ n + 1 > i /\ t[n + 1].kind = "blockStop"
        BY <1>1, <1>8
      <4> QED BY <4>1 DEF Closed
    <3> QED BY <1>1, <3>1 DEF WholeAt, StartOf, Starts
  <2>2. w = Append(Mapped(StartF, s), <<>>)
    <3> HIDE DEF Names
    <3>1. w[Len(Mapped(StartF, s)) + 1] = <<>>
      BY <1>1, <1>3, <1>4, <1>6
    <3> QED BY <1>2, <1>3, <1>7, <2>1, <3>1, AppendIs
  <2>3. FlattenSeq(w) = FlattenSeq(Mapped(StartF, s)) \o <<>>
    BY <1>2, <1>7, <2>2, FlattenAppend DEF Names
  <2>4. Started(s) \in Names /\ FlattenSeq(Mapped(StartF, s)) = Started(s)
    BY StartedFold DEF Started, Flat
  <2>5. FlattenSeq(w) = Started(s)
    BY <2>3, <2>4, NamesAlgebra
  <2> QED BY <1>8, <2>5, BedrockCallsAre DEF w, t
<1>9. CASE e.kind # "blockStop"
  <2>1. \A i \in 1..n : w[i] = WholeOnes(s)[i]
    <3> SUFFICES ASSUME NEW i \in 1..n PROVE WholeAt(t, i) = WholeAt(s, i)
      BY <1>1, <1>4, <1>5
    <3>1. Closed(t, i) <=> Closed(s, i)
      <4>1. \A j : j \in 1..(n + 1) /\ j # n + 1 => j \in 1..n
        BY <1>1
      <4>2. \A j : j \in 1..n => j \in 1..(n + 1)
        BY <1>1
      <4> QED BY <1>1, <1>9, <4>1, <4>2 DEF Closed
    <3> QED BY <1>1, <3>1 DEF WholeAt, Starts
  <2>2. w = Append(WholeOnes(s), <<>>)
    <3> HIDE DEF Names
    <3>1. w[Len(WholeOnes(s)) + 1] = <<>>
      BY <1>1, <1>3, <1>4, <1>6
    <3> QED BY <1>2, <1>3, <1>7, <2>1, <3>1, AppendIs
  <2>3. FlattenSeq(w) = FlattenSeq(WholeOnes(s)) \o <<>> /\ FlattenSeq(WholeOnes(s)) \in Names
    BY <1>2, <1>7, <2>2, FlattenAppend DEF Names
  <2>4. FlattenSeq(w) = FlattenSeq(WholeOnes(s))
    BY <2>3, NamesAlgebra
  <2> QED BY <1>9, <2>4, BedrockCallsAre DEF w, t
<1> QED BY <1>8, <1>9

(* Nothing said, no calls.                                                 *)
LEMMA SpokenNothing ==
  /\ SpokenCalls("bedrock", <<>>) = <<>> /\ Started(<<>>) = <<>>
  /\ \A v : v # "bedrock" => SpokenCalls(v, <<>>) = <<>>
  /\ \A v, s : v # "bedrock" => SpokenCalls(v, s) = CallsIn(Utterances(s))
<1>1. WholeOnes(<<>>) = <<>>
  BY DEF WholeOnes
<1>2. SpokenCalls("bedrock", <<>>) = <<>>
  BY <1>1, BedrockCallsAre, FlattenEmpty
<1>3. \A v, s : v # "bedrock" => SpokenCalls(v, s) = CallsIn(Utterances(s))
  BY DEF SpokenCalls, CallsIn
<1> QED BY <1>2, <1>3, StartedFold, UtterancesFold, CallsInFacts

(* What a round's events count for.                                        *)
UsageIn(v, es) == IF es = <<>> THEN 0 ELSE SpokenUsage(v, es)

(* The text of all rounds.                                                 *)
TextsOf(m, s) == FlattenSeq([r \in DOMAIN s |-> TextOf(m, s[r])])

(* Bedrock's stop is the last one sent.                                    *)
LEMMA BedrockStopIs == \A s : SpokenStop("bedrock", s) = LastStop(s)
BY DEF SpokenStop, LastStop

(* What the model's IFs say of the count.                                  *)
LEMMA SpokenUsageIs ==
  ASSUME NEW v, NEW s
  PROVE /\ SpokenStop(v, s) = NoStop => SpokenUsage(v, s) = 0
        /\ SpokenStop(v, s) # NoStop /\ v # "mock" => SpokenUsage(v, s) = LastCount(s)
        /\ SpokenStop(v, s) # NoStop /\ v = "mock" /\ LastCount(s) # 0 => SpokenUsage(v, s) = LastCount(s)
        /\ SpokenStop(v, s) # NoStop /\ v = "mock" /\ Counts(s) = {} => SpokenUsage(v, s) = FixedUsage
BY DEF SpokenUsage, LastCount

(* It is a number.                                                         *)
LEMMA UsageInType ==
  ASSUME NEW v, NEW s \in Events
  PROVE UsageIn(v, s) \in Nat
<1>1. LastCount(s) \in Nat
  BY LastCountFacts
<1>2. FixedUsage \in Nat
  BY DEF FixedUsage
<1>3. SpokenUsage(v, s) \in {0, LastCount(s), FixedUsage}
  BY DEF SpokenUsage, LastCount
<1> QED BY <1>1, <1>2, <1>3 DEF UsageIn

(* The counts of all rounds are a fold, and so are their texts.            *)
LEMMA UsageFold ==
  ASSUME NEW v
  PROVE /\ UsageOf(v, <<>>) = 0
        /\ \A s \in Seq(Events) : UsageOf(v, s) \in Nat
        /\ \A s \in Seq(Events), es \in Events : UsageOf(v, Append(s, es)) = UsageOf(v, s) + UsageIn(v, es)
<1> DEFINE step == [p \in Nat \X Events |-> p[1] + UsageIn(v, p[2])]
           usage[given \in Seq(Seq(Event))] ==
             IF given = <<>> THEN 0
             ELSE usage[Front(given)]
                    + (IF Last(given) = <<>> THEN 0 ELSE SpokenUsage(v, Last(given)))
<1>1. \A s : UsageOf(v, s) = usage[s]
  BY Zenon DEF UsageOf
<1>2. step \in [Nat \X Events -> Nat]
  <2>1. \A p \in Nat \X Events : p[1] + UsageIn(v, p[2]) \in Nat
    <3> HIDE DEF Events
    <3> QED BY UsageInType
  <2> HIDE DEF Events
  <2> QED BY <2>1
<1>3. \A r \in Nat, es \in Events : step[<<r, es>>] = r + UsageIn(v, es)
  <2> HIDE DEF Events
  <2> QED OBVIOUS
<1> HIDE DEF step
<1>4. Foldable(Events, Nat, 0, step)
  BY <1>2, SequenceRecursion
<1>5. PICK f \in [Seq(Events) -> Nat] : \A s \in Seq(Events) :
          f[s] = IF s = <<>> THEN 0 ELSE step[<<f[Front(s)], Last(s)>>]
  BY <1>4 DEF Foldable
<1> DEFINE body(g, s) == IF s = <<>> THEN 0 ELSE g[Front(s)] + UsageIn(v, Last(s))
<1>6. \A s \in Seq(Events) : f[s] = body(f, s)
  <2> SUFFICES ASSUME NEW s \in Seq(Events), s # <<>> PROVE f[s] = f[Front(s)] + UsageIn(v, Last(s))
    BY <1>5
  <2>1. Front(s) \in Seq(Events) /\ Last(s) \in Events
    <3> HIDE DEF Events
    <3> QED BY FrontAndLast
  <2>2. f[Front(s)] \in Nat
    BY <2>1
  <2> QED BY <1>3, <1>5, <2>1, <2>2
<1>7. f = [s \in Seq(Events) |-> body(f, s)]
  <2> HIDE DEF Events
  <2> QED BY <1>6
<1>8. usage = CHOOSE g : g = [s \in Seq(Events) |-> body(g, s)]
  BY Zenon DEF UsageIn, Events
<1> HIDE DEF usage
<1>9. usage = [s \in Seq(Events) |-> body(usage, s)]
  BY <1>7, <1>8
<1>10. \A s \in Seq(Events) : usage[s] = body(usage, s)
  BY <1>9
<1>11. usage[<<>>] = 0
  <2>1. <<>> \in Seq(Events)
    <3> HIDE DEF Events
    <3> QED OBVIOUS
  <2> QED BY <1>10, <2>1
<1>12. ASSUME NEW s \in Seq(Events), s # <<>>, usage[Front(s)] \in Nat
       PROVE usage[s] = step[<<usage[Front(s)], Last(s)>>]
  <2>1. Last(s) \in Events
    <3> HIDE DEF Events
    <3> QED BY <1>12, FrontAndLast
  <2> QED BY <1>3, <1>10, <1>12, <2>1
<1> DEFINE zero == 0
<1>0. zero \in Nat /\ usage[<<>>] = zero
  BY <1>11
<1> HIDE DEF zero
<1>13. Folds(Events, Nat, zero, step, usage)
  <2> HIDE DEF Events
  <2> QED BY <1>0, <1>2, <1>12, FoldOf
<1>14. /\ usage[<<>>] = 0
       /\ \A s \in Seq(Events) : usage[s] \in Nat
       /\ \A s \in Seq(Events), es \in Events : usage[Append(s, es)] = step[<<usage[s], es>>]
  BY <1>11, <1>13 DEF Folds
<1>15. \A s \in Seq(Events), es \in Events : usage[Append(s, es)] = usage[s] + UsageIn(v, es)
  BY <1>3, <1>14
<1> QED BY <1>1, <1>14, <1>15

LEMMA TextsFold ==
  ASSUME NEW m \in BOOLEAN
  PROVE /\ TextsOf(m, <<>>) = <<>>
        /\ \A s \in Seq(Events) : TextsOf(m, s) \in Text
        /\ \A s \in Seq(Events), es \in Events : TextsOf(m, Append(s, es)) = TextsOf(m, s) \o TextOf(m, es)
<1> DEFINE g == [es \in Events |-> TextOf(m, es)]
<1>1. g \in [Events -> Text] /\ \A es \in Events : g[es] = TextOf(m, es)
  <2>1. \A es \in Events : TextOf(m, es) \in Text
    BY TextOfFacts
  <2> HIDE DEF Events, Text
  <2> QED BY <2>1
<1> HIDE DEF g
<1>2. /\ Flat(g, <<>>) = <<>>
      /\ \A s \in Seq(Events) : Flat(g, s) \in Seq(Characters)
      /\ \A s \in Seq(Events), es \in Events : Flat(g, Append(s, es)) = Flat(g, s) \o g[es]
  <2>1. g \in [Events -> Seq(Characters)]
    BY <1>1 DEF Text
  <2> HIDE DEF Events
  <2> QED BY <2>1, FlatFacts
<1>3. \A s \in Seq(Events) : TextsOf(m, s) = Flat(g, s)
  <2> HIDE DEF Events
  <2> SUFFICES ASSUME NEW s \in Seq(Events) PROVE TextsOf(m, s) = Flat(g, s)
    OBVIOUS
  <2>1. \A r \in DOMAIN s : s[r] \in Events
    OBVIOUS
  <2>2. [r \in DOMAIN s |-> TextOf(m, s[r])] = Mapped(g, s)
    BY <1>1, <2>1 DEF Mapped
  <2> QED BY <2>2 DEF TextsOf, Flat
<1>4. <<>> \in Seq(Events) /\ \A s \in Seq(Events), es \in Events : Append(s, es) \in Seq(Events)
  <2> HIDE DEF Events
  <2> QED OBVIOUS
<1> HIDE DEF Events
<1> QED BY <1>1, <1>2, <1>3, <1>4 DEF Text

(* What a Bedrock adapter holds is what the events say so far: the counts, *)
(* the stop, and the calls, of which one may not be whole yet.             *)

-----------------------------------------------------------------------------
(* The invariant of the counts, the stops and the calls, and that every    *)
(* step keeps it.                                                          *)

(* The call being put together.                                            *)
BegunCall(call) == IF call = NoCall THEN <<>> ELSE <<call>>

(* The adapter's count and stop are the last, the calls heard are the      *)
(* whole ones, and one at most has been begun.                             *)
Tally(call, usage, stop, ids, events) ==
    /\ usage = LastCount(events) /\ stop = LastStop(events)
    /\ SpokenCalls("bedrock", events) = ids /\ ids \in Names
    /\ Started(events) = ids \o BegunCall(call)

(* So it is before any event, and after each of Bedrock's.                 *)
LEMMA TallyNothing == Tally(NoCall, 0, NoStop, <<>>, <<>>)
<1>1. <<>> \in Names /\ <<>> \o BegunCall(NoCall) = <<>>
  BY NamesAlgebra DEF BegunCall
<1> QED BY <1>1, LastCountFacts, LastStopFacts, SpokenNothing DEF Tally

(* An event that neither counts nor stops, begins nor ends a call.         *)
LEMMA TallyKept ==
  ASSUME NEW call, NEW usage, NEW stop, NEW ids, NEW s \in Events, Tally(call, usage, stop, ids, s),
         NEW e \in Event, e.kind \in {"text", "toolInput"}
  PROVE Tally(call, usage, stop, ids, Append(s, e))
<1>1. e \notin Counting /\ e \notin Stopping
  BY DEF Counting, Stopping
<1>2. Started(s) \in Names /\ Started(Append(s, e)) = Started(s) \o <<>>
  BY StartedFold DEF StartOf
<1>3. Started(Append(s, e)) = Started(s)
  BY <1>2, NamesAlgebra
<1> QED BY <1>1, <1>3, LastCountFacts, LastStopFacts, BedrockCallsAppend DEF Tally

LEMMA TallyBegins ==
  ASSUME NEW usage, NEW stop, NEW ids, NEW s \in Events, Tally(NoCall, usage, stop, ids, s),
         NEW e \in Event, e.kind = "toolStart", e.id # NoCall
  PROVE Tally(e.id, usage, stop, ids, Append(s, e))
<1>1. e \notin Counting /\ e \notin Stopping
  BY DEF Counting, Stopping
<1>2. Started(Append(s, e)) = Started(s) \o <<e.id>>
  BY StartedFold DEF StartOf
<1>3. Started(s) = ids
  BY NamesAlgebra DEF Tally, BegunCall
<1> QED BY <1>1, <1>2, <1>3, LastCountFacts, LastStopFacts, BedrockCallsAppend DEF Tally, BegunCall

LEMMA TallyEnds ==
  ASSUME NEW call \in Name, NEW usage, NEW stop, NEW ids, NEW s \in Events, Tally(call, usage, stop, ids, s),
         NEW e \in Event, e.kind = "blockStop"
  PROVE Tally(NoCall, usage, stop, ids \o BegunCall(call), Append(s, e))
<1>1. e \notin Counting /\ e \notin Stopping
  BY DEF Counting, Stopping
<1>2. Started(s) \in Names /\ Started(Append(s, e)) = Started(s) \o <<>>
  BY StartedFold DEF StartOf
<1>3. Started(Append(s, e)) = Started(s)
  BY <1>2, NamesAlgebra
<1>4. SpokenCalls("bedrock", Append(s, e)) = Started(s)
  BY BedrockCallsAppend
<1> QED BY <1>1, <1>2, <1>3, <1>4, LastCountFacts, LastStopFacts DEF Tally, BegunCall

LEMMA TallyStops ==
  ASSUME NEW call, NEW usage, NEW stop, NEW ids, NEW s \in Events, Tally(call, usage, stop, ids, s),
         NEW e \in Event, e.kind = "messageStop"
  PROVE Tally(call, usage, e.reason, ids, Append(s, e))
<1>1. e \notin Counting /\ e \in Stopping
  BY DEF Counting, Stopping
<1>2. Started(s) \in Names /\ Started(Append(s, e)) = Started(s) \o <<>>
  BY StartedFold DEF StartOf
<1>3. Started(Append(s, e)) = Started(s)
  BY <1>2, NamesAlgebra
<1> QED BY <1>1, <1>3, LastCountFacts, LastStopFacts, BedrockCallsAppend DEF Tally

LEMMA TallyCounts ==
  ASSUME NEW call, NEW usage, NEW stop, NEW ids, NEW s \in Events, Tally(call, usage, stop, ids, s),
         NEW e \in Event, e.kind = "metadata"
  PROVE Tally(call, Newer(e.usage, usage), stop, ids, Append(s, e))
<1>1. e \notin Stopping /\ (e \in Counting <=> e.usage # 0)
  BY DEF Counting, Stopping
<1>2. Started(s) \in Names /\ Started(Append(s, e)) = Started(s) \o <<>>
  BY StartedFold DEF StartOf
<1>3. Started(Append(s, e)) = Started(s)
  BY <1>2, NamesAlgebra
<1>4. LastCount(Append(s, e)) = Newer(e.usage, LastCount(s))
  BY <1>1, LastCountFacts DEF Newer
<1> QED BY <1>1, <1>3, <1>4, LastStopFacts, BedrockCallsAppend DEF Tally

(* The adapter's part of it.                                               *)
TallyOf(a, x, events) == Tally(a.call, a.usage, a.stop, Ids(x.w.round.calls), events)

(* It is the fields that count.                                            *)
LEMMA TallyMoves ==
  ASSUME NEW a, NEW x, NEW b, NEW y, NEW events,
         NEW call, NEW usage, NEW stop, NEW ids, Tally(call, usage, stop, ids, events),
         b.call = call, b.usage = usage, b.stop = stop, Ids(y.w.round.calls) = ids
  PROVE TallyOf(b, y, events)
BY DEF TallyOf

(* No event of Bedrock's breaks it.                                        *)
LEMMA BedrockTallied ==
  ASSUME StandsApart, NEW m \in BOOLEAN, NEW base \in ReadResult, NEW a \in Adapters, NEW x, NEW s \in Events,
         Attends(m, base, a, x, s), TallyOf(a, x, s),
         NEW e \in Event, e.kind \in BedrockKinds, BedrockEvent(a, e).error = "",
         e.kind \in {"text", "toolStart"} => a.call = NoCall, e.kind = "toolStart" => e.id # NoCall
  PROVE TallyOf(BedrockEvent(a, e).adapter, Hears(m, x, BedrockEvent(a, e).chunks), Append(s, e))
<1> DEFINE b == BedrockEvent(a, e).adapter
           c == BedrockEvent(a, e).chunks
           y == Hears(m, x, c)
           ids == Ids(x.w.round.calls)
           t == Append(s, e)
<1>1. Tally(a.call, a.usage, a.stop, ids, s)
  BY DEF TallyOf
<1>2. Ready(m, base, x) /\ x \in Ears
  BY AttendsReady
<1>3. a.call \in Name /\ ids \in Names
  BY <1>1, AdapterParts DEF Tally
<1>4. c = <<>> => y = x
  BY <1>2, HearsNothing
<1>5. CASE e.kind = "text"
  <2>1. b = a /\ c = TextChunk(e.text)
    BY <1>5, BedrockEventIs DEF StepIs
  <2>2. e.text \in Text
    BY <1>5, EventParts
  <2>3. Listens(m, base, x, Rendering(m, Utterances(s)))
    BY <1>5, AttendsListens
  <2>4. Counted(x, y, <<Speaks(e.text)>>)
    <3>1. Carries(m, base, <<Speaks(e.text)>>, TextChunk(e.text))
      BY <2>2, CarriesText
    <3>2. Utterances(s) \in Sayings
      BY UtterancesFold
    <3> QED BY <2>1, <2>3, <3>1, <3>2 DEF Carries
  <2>5. Ids(y.w.round.calls) = ids
    BY <1>3, <2>2, <2>4, CallsInOne, NamesAlgebra DEF Counted
  <2>6. Tally(a.call, a.usage, a.stop, ids, t)
    BY <1>1, <1>5, TallyKept
  <2> HIDE DEF b, y, ids, t
  <2>7. TallyOf(b, y, t)
    BY <2>1, <2>5, <2>6, TallyMoves
  <2> QED BY <2>7 DEF b, y, t
<1>6. CASE e.kind = "toolStart"
  <2> DEFINE q == Adapter(e.id, <<>>, a.stop, a.usage, a.endOfTurn, a.over)
  <2>1. b = q /\ y = x
    BY <1>4, <1>6, BedrockEventIs DEF StepIs
  <2>2. q.call = e.id /\ q.usage = a.usage /\ q.stop = a.stop
    BY DEF Adapter
  <2>3. Tally(e.id, a.usage, a.stop, ids, t)
    BY <1>1, <1>6, TallyBegins
  <2> HIDE DEF b, y, t, q
  <2>4. TallyOf(b, y, t)
    BY <2>1, <2>2, <2>3, TallyMoves DEF ids
  <2> QED BY <2>4 DEF b, y, t
<1>7. CASE e.kind = "toolInput"
  <2> DEFINE q == Adapter(a.call, Append(a.input, e.piece), a.stop, a.usage, a.endOfTurn, a.over)
  <2>1. b = q /\ y = x
    BY <1>4, <1>7, BedrockEventIs DEF StepIs
  <2>2. q.call = a.call /\ q.usage = a.usage /\ q.stop = a.stop
    BY DEF Adapter
  <2>3. Tally(a.call, a.usage, a.stop, ids, t)
    BY <1>1, <1>7, TallyKept
  <2> HIDE DEF b, y, t, q
  <2>4. TallyOf(b, y, t)
    BY <2>1, <2>2, <2>3, TallyMoves DEF ids
  <2> QED BY <2>4 DEF b, y, t
<1>8. CASE e.kind = "messageStop"
  <2> DEFINE q == Adapter(a.call, a.input, e.reason, a.usage, a.endOfTurn, a.over)
  <2>1. b = q /\ y = x
    BY <1>4, <1>8, BedrockEventIs DEF StepIs
  <2>2. q.call = a.call /\ q.usage = a.usage /\ q.stop = e.reason
    BY DEF Adapter
  <2>3. Tally(a.call, a.usage, e.reason, ids, t)
    BY <1>1, <1>8, TallyStops
  <2> HIDE DEF b, y, t, q
  <2>4. TallyOf(b, y, t)
    BY <2>1, <2>2, <2>3, TallyMoves DEF ids
  <2> QED BY <2>4 DEF b, y, t
<1>9. CASE e.kind = "metadata"
  <2> DEFINE u == Newer(e.usage, a.usage)
             q == Adapter(a.call, a.input, a.stop, u, a.endOfTurn, a.over)
  <2>1. b = q /\ y = x
    BY <1>4, <1>9, BedrockEventIs DEF StepIs
  <2>2. q.call = a.call /\ q.usage = u /\ q.stop = a.stop
    BY DEF Adapter
  <2>3. Tally(a.call, u, a.stop, ids, t)
    BY <1>1, <1>9, TallyCounts
  <2> HIDE DEF b, y, t, q, u
  <2>4. TallyOf(b, y, t)
    BY <2>1, <2>2, <2>3, TallyMoves DEF ids
  <2> QED BY <2>4 DEF b, y, t
<1>10. CASE e.kind = "blockStop"
  <2>1. BedrockEvent(a, e) = HandleBlockStop(a)
    BY <1>10, BedrockEventIs
  <2>2. Tally(NoCall, a.usage, a.stop, ids \o BegunCall(a.call), t)
    BY <1>1, <1>3, <1>10, TallyEnds
  <2>3. CASE a.call = NoCall
    <3>1. b = a /\ y = x
      BY <1>4, <2>1, <2>3, BlockStopIs DEF StepIs
    <3>2. ids \o BegunCall(a.call) = ids
      BY <1>3, <2>3, NamesAlgebra DEF BegunCall
    <3> HIDE DEF b, y, t
    <3>3. TallyOf(b, y, t)
      BY <2>2, <2>3, <3>1, <3>2, TallyMoves DEF ids
    <3> QED BY <3>3 DEF b, y, t
  <2>4. CASE a.call # NoCall
    <3> DEFINE q == Adapter(NoCall, <<>>, a.stop, a.usage, a.endOfTurn, a.over)
               k == WholeCall(a)
    <3>1. b = q /\ c = <<ToolChunk(k)>> /\ k \in Call /\ k.id = a.call
      BY <2>1, <2>4, BlockStopIs DEF StepIs
    <3>2. q.call = NoCall /\ q.usage = a.usage /\ q.stop = a.stop
      BY DEF Adapter
    <3> HIDE DEF q, k
    <3>3. HeardCall(m, base, x, k, y)
      BY <1>2, <3>1, HearsTool
    <3>4. PICK d \in Call : d.id = k.id /\ y.w.round.calls = Append(x.w.round.calls, d)
      BY <3>3 DEF HeardCall
    <3>5. x.w.round.calls \in Seq(Call)
      BY <1>2, EarRound
    <3>6. Ids(y.w.round.calls) = ids \o BegunCall(a.call)
      <4>1. Ids(y.w.round.calls) = Append(ids, a.call)
        BY <3>1, <3>4, <3>5, IdsFacts
      <4> QED BY <1>3, <2>4, <4>1, NamesAlgebra DEF BegunCall
    <3> HIDE DEF b, y, t, ids
    <3>7. TallyOf(b, y, t)
      BY <2>2, <3>1, <3>2, <3>6, TallyMoves
    <3> QED BY <3>7 DEF b, y, t
  <2> QED BY <2>3, <2>4
<1> QED BY <1>5, <1>6, <1>7, <1>8, <1>9, <1>10 DEF BedrockKinds

(* The stop that follows from the calls.                                   *)
EndFor(ids) == IF ids # <<>> THEN "tool_use" ELSE "end_turn"

(* The same of Vertex, whose stop follows from the calls.                  *)
VertexTally(a, x, events) ==
    /\ a.usage = LastCount(events)
    /\ Ids(x.w.round.calls) = CallsIn(Utterances(events))
    /\ a.endOfTurn = EndFor(CallsIn(Utterances(events)))
    /\ events # <<>> => Last(events).finish = ""

(* A round as the vendor spoke it.                                         *)
RoundSpoken(v, x, events) ==
    /\ Ids(x.w.round.calls) = SpokenCalls(v, events)
    /\ events # <<>> => x.w.round.stopReason = SpokenStop(v, events)
    /\ x.w.round.usage = UsageIn(v, events)

(* The calls of one event more.                                            *)
LEMMA CallsMore ==
  ASSUME NEW s \in Events, NEW e \in Event
  PROVE /\ CallsIn(Utterances(Append(s, e))) = CallsIn(Utterances(s)) \o CallsIn(UtterancesOf(e))
        /\ CallsIn(Utterances(s)) \in Names /\ CallsIn(UtterancesOf(e)) \in Names
        /\ CallsIn(Utterances(Append(s, e))) \in Names
<1>1. Utterances(Append(s, e)) = Utterances(s) \o UtterancesOf(e) /\ Utterances(s) \in Sayings
      /\ UtterancesOf(e) \in Sayings
  BY UtterancesFold, EventSays
<1>2. CallsIn(Utterances(s) \o UtterancesOf(e)) = CallsIn(Utterances(s)) \o CallsIn(UtterancesOf(e))
  BY <1>1, CallsInConcat
<1>3. CallsIn(Utterances(s)) \in Names /\ CallsIn(UtterancesOf(e)) \in Names
  BY <1>1, CallsInFacts
<1>4. CallsIn(Utterances(s)) \o CallsIn(UtterancesOf(e)) \in Names
  BY <1>3, NamesAlgebra
<1> QED BY <1>1, <1>2, <1>3, <1>4

(* A count replaces none.                                                  *)
LEMMA NewerNothing == \A u \in Nat : Newer(u, 0) = u
BY DEF Newer

(* Whether some calls were among two stretches.                            *)
LEMMA EndForMore ==
  ASSUME NEW p \in Names, NEW q \in Names
  PROVE EndFor(p \o q) = IF q # <<>> THEN "tool_use" ELSE EndFor(p)
<1>1. p \o q = <<>> <=> p = <<>> /\ q = <<>>
  BY NamesAlgebra
<1> QED BY <1>1 DEF EndFor

(* What a response adds.                                                   *)
LEMMA VertexMore ==
  ASSUME NEW a \in Adapters, NEW x, NEW s \in Events, VertexTally(a, x, s), NEW e \in Event, e.kind = "response"
  PROVE /\ NewerCount(a, e) = LastCount(Append(s, e)) /\ NewerCount(a, e) \in Nat
        /\ EndOfTurn(a, e) = EndFor(CallsIn(Utterances(Append(s, e))))
        /\ Ids(x.w.round.calls) \o CallsIn(UtterancesOf(e)) = CallsIn(Utterances(Append(s, e)))
<1>1. /\ CallsIn(Utterances(Append(s, e))) = CallsIn(Utterances(s)) \o CallsIn(UtterancesOf(e))
      /\ CallsIn(Utterances(s)) \in Names /\ CallsIn(UtterancesOf(e)) \in Names
  BY CallsMore
<1>2. e.parts \in Seq(Part) /\ UtterancesOf(e) = SaidIn(e.parts) /\ e.usage \in Nat
  BY EventParts, EventSays
<1>3. HasTool(YieldedOf(e.parts)) <=> CallsIn(UtterancesOf(e)) # <<>>
  BY <1>2, CalledParts
<1>4. EndOfTurn(a, e) = EndFor(CallsIn(Utterances(Append(s, e))))
  BY <1>1, <1>3, EndForMore DEF EndOfTurn, VertexTally
<1>5. e \in Counting <=> e.usage # 0
  BY DEF Counting
<1>6. NewerCount(a, e) = LastCount(Append(s, e))
  BY <1>5, LastCountFacts DEF NewerCount, Newer, VertexTally
<1>7. LastCount(Append(s, e)) \in Nat
  BY EventsFacts, LastCountFacts
<1> QED BY <1>1, <1>4, <1>6, <1>7 DEF VertexTally

(* A response without a finish reason keeps the tally; with one, the round *)
(* is as spoken.                                                           *)
LEMMA VertexTallied ==
  ASSUME StandsApart, NEW m \in BOOLEAN, NEW base \in ReadResult, NEW a \in Adapters, NEW x, NEW s \in Events,
         Attends(m, base, a, x, s), Tuned("vertex", a, s), VertexTally(a, x, s), NEW e \in Event, e.kind = "response",
         e.finish = ""
  PROVE VertexTally(VertexEvent(a, e).adapter, Hears(m, x, VertexEvent(a, e).chunks), Append(s, e))
<1> DEFINE b == VertexEvent(a, e).adapter
           y == Hears(m, x, VertexEvent(a, e).chunks)
           t == Append(s, e)
           q == Adapter(a.call, a.input, a.stop, NewerCount(a, e), EndOfTurn(a, e), a.over)
<1>1. a.call = NoCall
  BY DEF Tuned
<1>2. VertexHeard(m, base, a, x, s, e, VertexEvent(a, e), y)
  BY <1>1, AttendsListens, VertexHears
<1>3. Ids(y.w.round.calls) = Ids(x.w.round.calls) \o CallsIn(UtterancesOf(e))
  BY <1>2 DEF VertexHeard, Counted
<1>4. b = q
  BY VertexEventIs DEF StepIs
<1>5. q.usage = NewerCount(a, e) /\ q.endOfTurn = EndOfTurn(a, e)
  BY DEF Adapter
<1>6. Last(t) = e
  BY EventsFacts
<1> HIDE DEF b, y, t, q
<1>7. VertexTally(b, y, t)
  BY <1>3, <1>4, <1>5, <1>6, VertexMore DEF VertexTally, t
<1> QED BY <1>7 DEF b, y, t

LEMMA VertexStopped ==
  ASSUME StandsApart, NEW m \in BOOLEAN, NEW base \in ReadResult, NEW a \in Adapters, NEW x, NEW s \in Events,
         Attends(m, base, a, x, s), Tuned("vertex", a, s), VertexTally(a, x, s), NEW e \in Event, e.kind = "response",
         e.finish # ""
  PROVE RoundSpoken("vertex", Hears(m, x, VertexEvent(a, e).chunks), Append(s, e))
<1> DEFINE y == Hears(m, x, VertexEvent(a, e).chunks)
           t == Append(s, e)
           u == NewerCount(a, e)
           r == EndOfTurn(a, e)
           c == CallsIn(Utterances(t))
<1>1. a.call = NoCall /\ x.w.round.usage = 0
  BY AttendsReady DEF Tuned
<1>2. VertexHeard(m, base, a, x, s, e, VertexEvent(a, e), y)
  BY <1>1, AttendsListens, VertexHears
<1>3. /\ Ids(y.w.round.calls) = Ids(x.w.round.calls) \o CallsIn(UtterancesOf(e))
      /\ y.w.round.stopReason = StopReasonOf(e.finish, r)
      /\ y.w.round.usage = Newer(u, x.w.round.usage)
  BY <1>2 DEF VertexHeard
<1>4. u = LastCount(t) /\ u \in Nat /\ r = EndFor(c) /\ Ids(x.w.round.calls) \o CallsIn(UtterancesOf(e)) = c
  BY VertexMore
<1>5. Last(t) = e /\ t # <<>>
  BY EventsFacts
<1>6. e.finish \in {"STOP", "MAX_TOKENS", "SAFETY"}
  BY EventParts
<1>7. SpokenCalls("vertex", t) = c
  BY SpokenNothing
<1> HIDE DEF t, u, r, c, y
<1>8. StopReasonOf(e.finish, r) = SpokenStop("vertex", t)
  BY <1>4, <1>5, <1>6, <1>7 DEF StopReasonOf, SpokenStop, EndFor
<1>9. StopReasonOf(e.finish, r) # NoStop
  BY <1>4, <1>6 DEF StopReasonOf, NoStop, EndFor
<1>10. y.w.round.usage = u
  BY <1>1, <1>3, <1>4, NewerNothing
<1>11. SpokenUsage("vertex", t) = u
  BY <1>4, <1>8, <1>9, SpokenUsageIs
<1>12. RoundSpoken("vertex", y, t)
  BY <1>3, <1>4, <1>5, <1>7, <1>8, <1>10, <1>11 DEF RoundSpoken, UsageIn
<1> QED BY <1>12 DEF y, t

(* A script's round is as spoken.                                          *)
LEMMA MockStopped ==
  ASSUME StandsApart, NEW m \in BOOLEAN, NEW base \in ReadResult, NEW a \in Adapters, NEW x,
         Attends(m, base, a, x, <<>>), Tuned("mock", a, <<>>), Ids(x.w.round.calls) = <<>>, NEW e \in Event, e.kind = "turn"
  PROVE RoundSpoken("mock", Hears(m, x, ScriptedChunks(e)), Append(<<>>, e))
<1> DEFINE y == Hears(m, x, ScriptedChunks(e))
           s == <<>>
           t == Append(s, e)
           c == CallsIn(UtterancesOf(e))
<1>0. s \in Events
  BY EventsFacts
<1>1. a.call = NoCall /\ x.w.round.usage = 0
  BY <1>0, AttendsReady DEF Tuned
<1>2. MockHeard(m, base, x, s, e, y)
  <2>1. Listens(m, base, x, Rendering(m, Utterances(s)))
    BY <1>1, AttendsListens
  <2> HIDE DEF s
  <2> QED BY <1>0, <2>1, MockHears
<1>3. /\ Ids(y.w.round.calls) = Ids(x.w.round.calls) \o c
      /\ y.w.round.stopReason = MockStop(e.calls)
      /\ y.w.round.usage = Newer(MockUsage(e), x.w.round.usage)
  BY <1>2 DEF MockHeard
<1>4. c \in Names /\ CallsIn(Utterances(t)) = CallsIn(Utterances(s)) \o c /\ CallsIn(Utterances(s)) = <<>>
  BY <1>0, CallsMore, UtterancesFold, CallsInFacts
<1>5. <<>> \o c = c
  BY <1>4, NamesAlgebra
<1>6. c # <<>> <=> e.calls # <<>>
  <2>1. e.words \in Seq(Text) /\ e.calls \in Seq(Call)
    BY EventParts
  <2>2. UtterancesOf(e) = WordsSaid(e.words) \o CallsSaid(e.calls)
    BY EventSays
  <2>3. WordsSaid(e.words) \in Sayings /\ CallsSaid(e.calls) \in Sayings
    BY <2>1, WordsFold, CallsFold
  <2>4. c = CallsIn(WordsSaid(e.words)) \o CallsIn(CallsSaid(e.calls))
    BY <2>2, <2>3, CallsInConcat
  <2>5. CallsIn(WordsSaid(e.words)) = <<>> /\ (CallsIn(CallsSaid(e.calls)) # <<>> <=> e.calls # <<>>)
    BY <2>1, CarriesWords, CarriesCalls
  <2>6. CallsIn(CallsSaid(e.calls)) \in Names
    BY <2>3, CallsInFacts
  <2> HIDE DEF c
  <2> QED BY <2>4, <2>5, <2>6, NamesAlgebra
<1>7. SpokenCalls("mock", t) = c
  BY <1>4, <1>5, SpokenNothing
<1>8. SpokenStop("mock", t) = MockStop(e.calls) /\ MockStop(e.calls) # NoStop
  <2> HIDE DEF c, t
  <2> QED BY <1>6, <1>7 DEF SpokenStop, MockStop, NoStop
<1>9. y.w.round.usage = MockUsage(e) /\ MockUsage(e) = Newer(e.usage, FixedUsage)
  BY <1>1, <1>3, ScriptIs, NewerNothing DEF MockUsage
<1>10. SpokenUsage("mock", t) = Newer(e.usage, FixedUsage)
  <2>1. t \in Events /\ e \in Counting <=> t \in Events /\ e.usage # 0
    BY DEF Counting
  <2>2. t \in Events
    BY <1>0, EventsFacts
  <2>3. CASE e.usage # 0
    <3>1. LastCount(t) = e.usage
      BY <1>0, <2>1, <2>2, <2>3, LastCountFacts
    <3> HIDE DEF t
    <3> QED BY <1>8, <2>3, <3>1, SpokenUsageIs DEF Newer
  <2>4. CASE e.usage = 0
    <3>1. Marks(Counting, t) = {}
      BY <1>0, <2>1, <2>2, <2>4, MarksAppend, MarksFacts
    <3>2. Counts(t) = {}
      BY <2>2, <3>1, MarksAre
    <3> HIDE DEF t
    <3> QED BY <1>8, <2>4, <3>2, SpokenUsageIs DEF Newer
  <2> QED BY <2>3, <2>4
<1>11. t # <<>>
  BY <1>0, EventsFacts
<1> HIDE DEF y, t, c, s
<1>12. RoundSpoken("mock", y, t)
  BY <1>3, <1>5, <1>7, <1>8, <1>9, <1>10, <1>11 DEF RoundSpoken, UsageIn
<1> QED BY <1>12 DEF y, t, s

(* The calls, counts and stop of a round that streams.                     *)
Tallied(v, a, x, events) ==
    /\ v = "bedrock" => TallyOf(a, x, events)
    /\ v = "vertex" => VertexTally(a, x, events)
    /\ v = "mock" => Ids(x.w.round.calls) = <<>>

(* So it is when a round begins.                                           *)
LEMMA TalliedNothing ==
  ASSUME NEW v, NEW x, x.w.round.calls = <<>>
  PROVE Tallied(v, NewAdapter, x, <<>>)
<1>1. Ids(x.w.round.calls) = <<>>
  BY IdsFacts
<1>2. NewAdapter.call = NoCall /\ NewAdapter.stop = NoStop /\ NewAdapter.usage = 0 /\ NewAdapter.endOfTurn = "end_turn"
  BY NewAdapterIs
<1>3. TallyOf(NewAdapter, x, <<>>)
  BY <1>1, <1>2, TallyNothing DEF TallyOf
<1>4. CallsIn(Utterances(<<>>)) = <<>>
  BY UtterancesFold, CallsInFacts
<1>5. VertexTally(NewAdapter, x, <<>>)
  BY <1>1, <1>2, <1>4, LastCountFacts DEF VertexTally, EndFor
<1> QED BY <1>1, <1>3, <1>5 DEF Tallied

(* What an event makes of it.                                              *)
TalliesOn(v, step, y, events) ==
    /\ step.error = "" /\ step.adapter.over = FALSE => Tallied(v, step.adapter, y, events)
    /\ step.error = "" /\ step.adapter.over = TRUE => RoundSpoken(v, y, events)

(* So it is with every event that does not fail.                           *)
LEMMA EventTallied ==
  ASSUME StandsApart, NEW m \in BOOLEAN, NEW v \in Vendors, NEW base \in ReadResult, NEW a \in Adapters, NEW x, NEW events \in Events,
         Attends(m, base, a, x, events), Tuned(v, a, events), Tallied(v, a, x, events),
         NEW e \in Event, Suits(v, e), InTurn(v, events, e), e.kind = "toolStart" => e.id # NoCall
  PROVE TalliesOn(v, AdapterEvent(v, a, e), Hears(m, x, AdapterEvent(v, a, e).chunks), Append(events, e))
<1>1. CASE v = "bedrock"
  <2> DEFINE step == BedrockEvent(a, e)
             y == Hears(m, x, step.chunks)
             f == Append(events, e)
  <2>1. AdapterEvent(v, a, e) = step
    BY <1>1 DEF AdapterEvent
  <2>2. e.kind \in BedrockKinds
    BY <1>1 DEF Suits
  <2>3. a.over = FALSE /\ (a.call # NoCall <=> Telling(events))
    BY <1>1 DEF Tuned
  <2>4. e.kind \in {"text", "toolStart"} => a.call = NoCall
    BY <1>1, <2>3 DEF InTurn
  <2>5. TallyOf(a, x, events)
    BY <1>1 DEF Tallied
  <2>6. step.error = "" => TallyOf(step.adapter, y, f) /\ step.adapter.over = FALSE
    BY <2>2, <2>3, <2>4, <2>5, BedrockTallied, BedrockCalls
  <2> HIDE DEF step, y, f
  <2>7. TalliesOn(v, step, y, f)
    BY <1>1, <2>6 DEF TalliesOn, Tallied
  <2> QED BY <2>1, <2>7 DEF y, f
<1>2. CASE v = "vertex"
  <2> DEFINE step == VertexEvent(a, e)
             y == Hears(m, x, step.chunks)
             f == Append(events, e)
  <2>1. AdapterEvent(v, a, e) = step
    BY <1>2 DEF AdapterEvent
  <2>2. e.kind = "response" /\ Tuned("vertex", a, events)
    BY <1>2 DEF Suits
  <2>3. a.over = FALSE /\ VertexTally(a, x, events)
    BY <1>2 DEF Tuned, Tallied
  <2>4. CASE e.finish = ""
    <3> DEFINE q == Adapter(a.call, a.input, a.stop, NewerCount(a, e), EndOfTurn(a, e), a.over)
    <3>1. VertexTally(step.adapter, y, f)
      BY <2>2, <2>3, <2>4, VertexTallied
    <3>2. q.over = a.over
      BY DEF Adapter
    <3>3. step.adapter = q
      BY <2>2, <2>4, VertexEventIs DEF StepIs
    <3> HIDE DEF q, step, y, f
    <3>4. step.adapter.over = FALSE
      BY <2>3, <3>2, <3>3
    <3>5. TalliesOn(v, step, y, f)
      BY <1>2, <3>1, <3>4 DEF TalliesOn, Tallied
    <3> QED BY <2>1, <3>5 DEF y, f
  <2>5. CASE e.finish # ""
    <3> DEFINE q == Adapter(a.call, a.input, a.stop, NewerCount(a, e), EndOfTurn(a, e), TRUE)
    <3>1. RoundSpoken("vertex", y, f)
      BY <2>2, <2>3, <2>5, VertexStopped
    <3>2. q.over = TRUE
      BY DEF Adapter
    <3>3. step.adapter = q
      BY <2>2, <2>5, VertexEventIs DEF StepIs
    <3> HIDE DEF q, step, y, f
    <3>4. step.adapter.over = TRUE
      BY <3>2, <3>3
    <3>5. TalliesOn(v, step, y, f)
      BY <1>2, <3>1, <3>4 DEF TalliesOn
    <3> QED BY <2>1, <3>5 DEF y, f
  <2> QED BY <2>4, <2>5
<1>3. CASE v = "mock"
  <2> DEFINE step == MockEvent(a, e)
             y == Hears(m, x, step.chunks)
             f == Append(events, e)
  <2>1. AdapterEvent(v, a, e) = step
    BY <1>3 DEF AdapterEvent
  <2>2. e.kind \in {"turn", "exhausted"} /\ Tuned("mock", a, events)
    BY <1>3 DEF Suits
  <2>3. events = <<>> /\ Ids(x.w.round.calls) = <<>>
    BY <1>3 DEF Tuned, Tallied
  <2>4. CASE e.kind = "turn"
    <3> DEFINE q == Adapter(a.call, a.input, a.stop, a.usage, a.endOfTurn, TRUE)
    <3>1. step.chunks = ScriptedChunks(e) /\ step.adapter = q
      BY <2>4, MockEventIs DEF StepIs
    <3>2. RoundSpoken("mock", y, f)
      BY <2>2, <2>3, <2>4, <3>1, MockStopped
    <3>3. q.over = TRUE
      BY DEF Adapter
    <3> HIDE DEF q, step, y, f
    <3>4. step.adapter.over = TRUE
      BY <3>1, <3>3
    <3>5. TalliesOn(v, step, y, f)
      BY <1>3, <3>2, <3>4 DEF TalliesOn
    <3> QED BY <2>1, <3>5 DEF y, f
  <2>5. CASE e.kind = "exhausted"
    <3>1. step.error = "UNKNOWN"
      BY <2>5, MockEventIs
    <3> HIDE DEF step, y, f
    <3>2. TalliesOn(v, step, y, f)
      BY <3>1 DEF TalliesOn
    <3> QED BY <2>1, <3>2 DEF y, f
  <2> QED BY <2>2, <2>4, <2>5
<1> QED BY <1>1, <1>2, <1>3 DEF Vendors

(* A stop at the stream's end is heard.                                    *)
LEMMA StopTallied ==
  ASSUME NEW m \in BOOLEAN, NEW base \in ReadResult, NEW x, NEW events, Ready(m, base, x), HeardOf(m, x, events),
         x.w.round.usage = 0, NEW r \in StopReason, NEW u \in Nat
  PROVE LET y == Closing(m, x, <<StopChunk(r, u)>>)
        IN  y.w.round.calls = x.w.round.calls /\ y.w.round.stopReason = r /\ y.w.round.usage = u
<1> DEFINE y == Closing(m, x, <<StopChunk(r, u)>>)
<1>1. StoppedWith(m, base, x, events, r, u, y)
  BY StopCloses
<1> HIDE DEF y
<1>2. y.w.round.calls = x.w.round.calls /\ y.w.round.stopReason = r /\ y.w.round.usage = u
  BY <1>1, NewerNothing DEF StoppedWith
<1> QED BY <1>2 DEF y

(* So every stream's end leaves the round as spoken.                       *)
LEMMA StreamTallied ==
  ASSUME NEW m \in BOOLEAN, NEW v \in {"bedrock", "vertex"}, NEW base \in ReadResult, NEW a \in Adapters, NEW x,
         NEW events \in Events, Attends(m, base, a, x, events), Tallied(v, a, x, events)
  PROVE RoundSpoken(v, Closing(m, x, AdapterEnd(v, a).chunks), events)
<1> DEFINE c == AdapterEnd(v, a).chunks
           y == Closing(m, x, c)
<1>1. Ready(m, base, x) /\ HeardOf(m, x, events) /\ x.w.round.stopReason = NoStop /\ x.w.round.usage = 0
  BY AttendsReady
<1>2. a.usage \in Nat /\ a.endOfTurn \in StopReason
  BY AdapterParts
<1>3. CASE v = "bedrock"
  <2>1. a.usage = LastCount(events) /\ a.stop = LastStop(events) /\ SpokenCalls("bedrock", events) = Ids(x.w.round.calls)
    BY <1>3 DEF Tallied, TallyOf, Tally
  <2>2. SpokenStop("bedrock", events) = a.stop
    BY <2>1, BedrockStopIs
  <2>3. CASE a.stop = NoStop
    <3>1. c = <<>>
      BY <1>3, <2>3, AdapterEndIs DEF StepIs
    <3> HIDE DEF c
    <3>2. Same(x, y)
      BY <1>1, <3>1, ReleaseCloses
    <3> HIDE DEF y
    <3>3. UsageIn("bedrock", events) = 0
      BY <2>2, <2>3, SpokenUsageIs DEF UsageIn
    <3>4. RoundSpoken(v, y, events)
      BY <1>1, <1>3, <2>1, <2>2, <2>3, <3>2, <3>3 DEF RoundSpoken, Same
    <3> QED BY <3>4 DEF y, c
  <2>4. CASE a.stop # NoStop
    <3>1. c = <<StopChunk(a.stop, a.usage)>> /\ a.stop \in StopReason
      BY <1>3, <2>4, AdapterEndIs DEF StepIs
    <3> HIDE DEF c
    <3>2. y.w.round.calls = x.w.round.calls /\ y.w.round.stopReason = a.stop /\ y.w.round.usage = a.usage
      BY <1>1, <1>2, <3>1, StopTallied
    <3> HIDE DEF y
    <3>3. events # <<>>
      BY <2>1, <2>4, LastStopFacts
    <3>4. UsageIn("bedrock", events) = a.usage
      BY <2>1, <2>2, <2>4, <3>3, SpokenUsageIs DEF UsageIn
    <3>5. RoundSpoken(v, y, events)
      BY <1>3, <2>1, <2>2, <3>2, <3>4 DEF RoundSpoken
    <3> QED BY <3>5 DEF y, c
  <2> QED BY <2>3, <2>4
<1>4. CASE v = "vertex"
  <2> DEFINE d == CallsIn(Utterances(events))
  <2>1. /\ a.usage = LastCount(events) /\ Ids(x.w.round.calls) = d /\ a.endOfTurn = EndFor(d)
        /\ events # <<>> => Last(events).finish = ""
    BY <1>4 DEF Tallied, VertexTally
  <2>2. SpokenCalls("vertex", events) = d
    BY SpokenNothing
  <2> HIDE DEF d
  <2>3. events # <<>> => SpokenStop("vertex", events) = a.endOfTurn
    BY <2>1, <2>2 DEF SpokenStop, EndFor
  <2>4. a.endOfTurn # NoStop
    BY <2>1 DEF EndFor, NoStop
  <2>5. c = <<StopChunk(a.endOfTurn, a.usage)>>
    BY <1>4, AdapterEndIs DEF StepIs
  <2> HIDE DEF c
  <2>6. y.w.round.calls = x.w.round.calls /\ y.w.round.stopReason = a.endOfTurn /\ y.w.round.usage = a.usage
    BY <1>1, <1>2, <2>5, StopTallied
  <2> HIDE DEF y
  <2>7. UsageIn("vertex", events) = a.usage
    <3>1. CASE events = <<>>
      BY <2>1, <3>1, LastCountFacts DEF UsageIn
    <3>2. CASE events # <<>>
      BY <2>1, <2>3, <2>4, <3>2, SpokenUsageIs DEF UsageIn
    <3> QED BY <3>1, <3>2
  <2>8. RoundSpoken(v, y, events)
    BY <1>4, <2>1, <2>2, <2>3, <2>6, <2>7 DEF RoundSpoken
  <2> QED BY <2>8 DEF y, c
<1> QED BY <1>3, <1>4

(* What the turn reports of the rounds behind it.                          *)
Summed(s, t, past) == t.usage = UsageOf(s.vendor, past) /\ t.text = TextsOf(s.masked, past)

(* The inductive invariant of the counts, with Following and the type.     *)
Tallies ==
    /\ at = "streaming" => Tallied(setup.vendor, wire.adapter, Ear, Last(said)) /\ Summed(setup, turn, Front(said))
    /\ at = "ended" => RoundSpoken(setup.vendor, Ear, Last(said)) /\ Summed(setup, turn, Front(said))
    /\ at \in {"ask", "tools", "done"} => Summed(setup, turn, said)

(* It holds when a turn begins, and no action breaks it.                   *)
LEMMA InitTallies == Init => Tallies
<1> SUFFICES ASSUME Init PROVE Tallies
  OBVIOUS
<1>1. setup \in Setups /\ at = "ask" /\ said = <<>> /\ turn = [usage |-> 0, text |-> <<>>]
  BY DEF Init
<1>2. setup.masked \in BOOLEAN
  BY <1>1, SetupFacts
<1>3. turn.usage = 0 /\ turn.text = <<>>
  BY <1>1
<1>4. Summed(setup, turn, said)
  BY <1>1, <1>2, <1>3, UsageFold, TextsFold DEF Summed
<1> QED BY <1>1, <1>4 DEF Tallies

LEMMA AskTallies ==
  ASSUME TypeOK, Following, Tallies, Ask
  PROVE Tallies'
<1>1. Settled(setup.masked, shown, said) /\ Summed(setup, turn, said)
  BY DEF Ask, Following, Tallies
<1>2. at' = "streaming" /\ setup' = setup /\ turn' = turn /\ round' = NewRound /\ wire' = NewWire
      /\ said' = Append(said, <<>>)
  BY AskTyped DEF Ask
<1>3. Front(said') = said /\ Last(said') = <<>>
  BY <1>1, <1>2, TypedParts, RoundOpens
<1>4. wire'.adapter = NewAdapter
  BY <1>2, NewThings
<1> DEFINE x == [held |-> wire'.held, w |-> [round |-> round', shown |-> shown']]
<1>5. x.w.round.calls = <<>>
  BY <1>2, NewThings
<1>6. Ear' = x
  BY DEF Ear, Hearing
<1> HIDE DEF x
<1>7. Tallied(setup.vendor, NewAdapter, x, <<>>)
  BY <1>5, TalliedNothing
<1> QED BY <1>1, <1>2, <1>3, <1>4, <1>6, <1>7 DEF Tallies

LEMMA ReceiveTallies ==
  ASSUME StandsApart, TypeOK, Following, Tallies, NEW e \in Event, Comes(e), Receive(e)
  PROVE Tallies'
<1> DEFINE m == setup.masked
           step == AdapterEvent(setup.vendor, wire.adapter, e)
           y == Hears(m, Ear, step.chunks)
           s == SaidMore(e)
           base == Base(m, said)
<1>1. Typed
  BY DEF TypeOK
<1>2. Received(e, step, y)
  BY <1>1, ReceiveIs
<1>3. at = "streaming" /\ setup' = setup /\ turn' = turn /\ said' = s
  BY <1>2, ReceiveTyped DEF Received
<1>4. m \in BOOLEAN /\ said \in Seq(Events) /\ said # <<>>
  BY <1>3, TypedParts
<1>5. Front(s) = Front(said) /\ Last(s) = Append(Now, e) /\ Now \in Events
  BY <1>4, SaidGrows
<1>6. base \in ReadResult
  BY <1>4, SaidParts
<1>7. Attends(m, base, wire.adapter, Ear, Now) /\ Tuned(setup.vendor, wire.adapter, Now)
  BY <1>3 DEF Following, Streams, Now
<1>8. Tallied(setup.vendor, wire.adapter, Ear, Now) /\ Summed(setup, turn, Front(said))
  BY <1>3 DEF Tallies, Now
<1>9. TalliesOn(setup.vendor, step, y, Append(Now, e))
  <2>1. Suits(setup.vendor, e) /\ InTurn(setup.vendor, Now, e) /\ (e.kind = "toolStart" => e.id # NoCall)
    BY ComesInTurn DEF Comes
  <2> HIDE DEF base, m
  <2> QED BY <1>4, <1>5, <1>6, <1>7, <1>8, <2>1, TypedParts, EventTallied
<1>10. step.adapter \in Adapters /\ y \in Ears
  <2>1. StepTyped(step)
    BY TypedParts, AdapterEventType DEF Comes
  <2> QED BY <1>4, <2>1, TypedParts, HearsType DEF StepTyped
<1> HIDE DEF m, step, y, s, base
<1>11. CASE step.error = ""
  <2>1. wire' = [adapter |-> step.adapter, held |-> y.held] /\ round' = y.w.round /\ shown' = y.w.shown
        /\ at' = IF step.adapter.over THEN "ended" ELSE "streaming"
    BY <1>2, <1>11 DEF Received
  <2>2. y = [held |-> y.held, w |-> y.w] /\ y.w = [round |-> y.w.round, shown |-> y.w.shown]
    BY <1>10, EarParts, HearingParts
  <2>3. Ear' = y /\ wire'.adapter = step.adapter
    BY <2>1, <2>2 DEF Ear, Hearing
  <2>4. step.adapter.over = TRUE \/ step.adapter.over = FALSE
    BY <1>10, AdapterParts
  <2>5. CASE step.adapter.over = TRUE
    <3>1. at' = "ended" /\ RoundSpoken(setup.vendor, y, Last(s))
      BY <1>5, <1>9, <1>11, <2>1, <2>5 DEF TalliesOn
    <3> QED BY <1>3, <1>5, <1>8, <2>3, <3>1 DEF Tallies
  <2>6. CASE step.adapter.over = FALSE
    <3>1. at' = "streaming" /\ Tallied(setup.vendor, step.adapter, y, Last(s))
      BY <1>5, <1>9, <1>11, <2>1, <2>6 DEF TalliesOn
    <3> QED BY <1>3, <1>5, <1>8, <2>3, <3>1 DEF Tallies
  <2> QED BY <2>4, <2>5, <2>6
<1>12. CASE step.error # ""
  <2>1. at' = "failed"
    BY <1>1, <1>2, <1>12, FailsIs DEF Received
  <2> QED BY <2>1 DEF Tallies
<1> QED BY <1>11, <1>12

LEMMA VendorEndsTallies ==
  ASSUME TypeOK, Following, Tallies, VendorEnds
  PROVE Tallies'
<1> DEFINE m == setup.masked
           step == AdapterEnd(setup.vendor, wire.adapter)
           y == Closing(m, Ear, step.chunks)
           base == Base(m, said)
<1>1. Typed
  BY DEF TypeOK
<1>2. Ended(step, y)
  BY <1>1, VendorEndsIs
<1>3. at = "streaming" /\ setup' = setup /\ turn' = turn /\ said' = said /\ at' = "ended"
      /\ wire' = [adapter |-> step.adapter, held |-> <<>>] /\ round' = y.w.round /\ shown' = y.w.shown
      /\ setup.vendor # "mock"
  BY <1>2 DEF Ended
<1>4. m \in BOOLEAN /\ said \in Seq(Events) /\ said # <<>> /\ setup.vendor \in {"bedrock", "vertex"}
  BY <1>3, TypedParts DEF Vendors
<1>5. base \in ReadResult /\ Last(said) \in Events
  BY <1>4, SaidParts
<1>6. Attends(m, base, wire.adapter, Ear, Last(said))
  BY <1>3 DEF Following, Streams
<1>7. Tallied(setup.vendor, wire.adapter, Ear, Last(said)) /\ Summed(setup, turn, Front(said))
  BY <1>3 DEF Tallies
<1>8. RoundSpoken(setup.vendor, y, Last(said))
  <2> HIDE DEF m, base
  <2> QED BY <1>4, <1>5, <1>6, <1>7, TypedParts, StreamTallied
<1>9. y \in Ears /\ y.held = <<>>
  <2>1. Ends(m, base, y, Last(said))
    <3> HIDE DEF m, base
    <3> QED BY <1>4, <1>5, <1>6, TypedParts, StreamEnds
  <2> QED BY <2>1 DEF Ends
<1> HIDE DEF m, step, y, base
<1>10. y = [held |-> y.held, w |-> y.w] /\ y.w = [round |-> y.w.round, shown |-> y.w.shown]
  BY <1>9, EarParts, HearingParts
<1>11. Ear' = y
  BY <1>3, <1>9, <1>10 DEF Ear, Hearing
<1> QED BY <1>3, <1>7, <1>8, <1>11 DEF Tallies

LEMMA EndRoundTallies ==
  ASSUME TypeOK, Following, Tallies, EndRound
  PROVE Tallies'
<1> DEFINE s == Front(said)
           es == Last(said)
<1>1. at = "ended" /\ setup' = setup /\ said' = said /\ at' \in {"tools", "done"}
      /\ turn' = [usage |-> turn.usage + round.usage, text |-> turn.text \o round.text]
  BY DEF EndRound, AccumulateUsage
<1>2. Closes(setup.masked, Ear, said) /\ RoundSpoken(setup.vendor, Ear, es) /\ Summed(setup, turn, s)
  BY <1>1 DEF Following, Tallies
<1>3. said # <<>> /\ said \in Seq(Events) /\ setup.masked \in BOOLEAN /\ Ear.w.round = round
  BY <1>1, TypedParts
<1>4. s \in Seq(Events) /\ es \in Events /\ said = Append(s, es)
  BY <1>3, SaidParts
<1>5. round.text = TextOf(setup.masked, es)
  BY <1>2, <1>3 DEF Closes, Ends
<1>6. round.usage = UsageIn(setup.vendor, es)
  BY <1>2, <1>3 DEF RoundSpoken
<1> HIDE DEF s, es
<1>7. UsageOf(setup.vendor, said) = UsageOf(setup.vendor, s) + UsageIn(setup.vendor, es)
  BY <1>4, UsageFold
<1>8. TextsOf(setup.masked, said) = TextsOf(setup.masked, s) \o TextOf(setup.masked, es)
  BY <1>3, <1>4, TextsFold
<1>9. turn'.usage = turn.usage + round.usage /\ turn'.text = turn.text \o round.text
  BY <1>1
<1>10. Summed(setup, turn', said)
  BY <1>2, <1>5, <1>6, <1>7, <1>8, <1>9 DEF Summed
<1> QED BY <1>1, <1>10 DEF Tallies

(* The tools, the world's changes and an abort say nothing.                *)
LEMMA StaysTallies ==
  ASSUME Tallies, UNCHANGED <<setup, at, wire, round, shown, said, turn>>
  PROVE Tallies'
<1>1. Ear' = Ear
  BY DEF Ear, Hearing
<1> QED BY <1>1 DEF Tallies

(* No step breaks it.                                                      *)
LEMMA NextTallies ==
  ASSUME StandsApart, TypeOK, Following, Tallies, [Next]_vars
  PROVE Tallies'
<1>1. CASE UNCHANGED vars
  BY <1>1, StaysTallies DEF vars
<1>2. CASE Next
  <2>1. CASE MaskThrows
    <3>1. at' \in {"failed", "abandoned"}
      BY <2>1 DEF MaskThrows
    <3> QED BY <3>1 DEF Tallies
  <2>2. CASE Ask
    BY <2>2, AskTallies
  <2>3. CASE VendorSays
    <3>1. at = "streaming"
      BY <2>3 DEF VendorSays
    <3>2. setup \in Setups /\ said \in Seq(Events) /\ said # <<>>
      BY <3>1, TypedParts
    <3>3. PICK e \in Event : Comes(e) /\ Receive(e)
      BY <2>3, <3>2, VendorComes
    <3> QED BY <3>3, ReceiveTallies
  <2>4. CASE VendorEnds
    BY <2>4, VendorEndsTallies
  <2>5. ASSUME NEW fault \in setup.faults, VendorFails(fault) PROVE Tallies'
    <3>1. at' = "failed"
      BY <2>5, VendorFailsTyped
    <3> QED BY <3>1 DEF Tallies
  <2>6. CASE EndRound
    BY <2>6, EndRoundTallies
  <2>7. CASE RunTools
    <3>1. at = "tools" /\ setup' = setup /\ said' = said /\ turn' = turn
          /\ (at' = "ask" \/ Fails([code |-> "UNKNOWN", retryable |-> FALSE]))
      BY <2>7 DEF RunTools
    <3>2. at' \in {"ask", "failed"}
      BY <3>1 DEF Fails
    <3> QED BY <3>1, <3>2 DEF Tallies
  <2>8. CASE ToolsChange
    BY <2>8, StaysTallies DEF ToolsChange
  <2>9. CASE Abort
    BY <2>9, StaysTallies DEF Abort
  <2>10. CASE Abandon
    <3>1. at' = "abandoned"
      BY <2>10, AbandonIs
    <3> QED BY <3>1 DEF Tallies
  <2>11. CASE Over
    BY <2>11, StaysTallies DEF Over, vars
  <2> QED BY <1>2, <2>1, <2>2, <2>3, <2>4, <2>5, <2>6, <2>7, <2>8, <2>9, <2>10, <2>11 DEF Next
<1> QED BY <1>1, <1>2

(* It is what the model states of a round.                                 *)
LEMMA TalliesAsSpoken ==
  ASSUME TypeOK, Tallies
  PROVE RoundAsSpoken
<1>1. ASSUME at = "ended"
      PROVE /\ [i \in DOMAIN round.calls |-> round.calls[i].id] = SpokenCalls(setup.vendor, Now)
            /\ Now # <<>> => /\ round.stopReason = SpokenStop(setup.vendor, Now)
                             /\ round.usage = SpokenUsage(setup.vendor, Now)
  <2>1. RoundSpoken(setup.vendor, Ear, Now) /\ Ear.w.round = round
    BY <1>1, TypedParts DEF Tallies, Now
  <2> QED BY <2>1 DEF RoundSpoken, Ids, UsageIn
<1>2. ASSUME at = "done"
      PROVE /\ turn.usage = UsageOf(setup.vendor, said)
            /\ turn.text = FlattenSeq([r \in DOMAIN said |-> TextOf(setup.masked, said[r])])
  BY <1>2 DEF Tallies, Summed, TextsOf
<1> QED BY <1>1, <1>2 DEF RoundAsSpoken

(* For a token and a value that stand apart, which only the texts need: a  *)
(* round ends with the calls, the stop and the counts the vendor sent,     *)
(* each once, and a turn reports all its rounds                            *)
(* (bedrockStreamHandlers.ts:14, chatOrchestrator.ts:451).                 *)
THEOREM AsSpoken ==
  ASSUME StandsApart
  PROVE Spec => []RoundAsSpoken
<1>1. Init => TypeOK /\ Following /\ Tallies
  BY InitTyped, InitFollows, InitTallies
<1>2. TypeOK /\ Following /\ Tallies /\ [Next]_vars => TypeOK' /\ Following' /\ Tallies'
  BY NextTyped, NextFollows, NextTallies
<1>3. TypeOK /\ Following /\ Tallies => RoundAsSpoken
  BY TalliesAsSpoken
<1> QED BY <1>1, <1>2, <1>3, PTL DEF Spec

=============================================================================
