----------------------------- MODULE AnswerLaws -----------------------------
(***************************************************************************)
(* Laws of the operators a provider turn is built from, for every          *)
(* alphabet, token and label: the prompt mask, the parser of thinking      *)
(* tags, what the orchestrator makes of a stream, and what each vendor's   *)
(* adapter makes of an event.                                              *)
(*                                                                         *)
(* Several of the operators call themselves on what is shorter, or fold a  *)
(* sequence. What they compute for every input is proved here in first     *)
(* order: from sets of numbers comes induction, from that a recursion      *)
(* lemma, and from that each equation.                                     *)
(***************************************************************************)
EXTENDS ProviderTurn, FiniteSetTheorems, SequenceTheorems, TLAPS

-----------------------------------------------------------------------------
(* Induction and recursion, in first order. The library's induction        *)
(* theorems take an operator as a parameter, which no backend can          *)
(* instantiate; here the induction is over membership of a set, and what a *)
(* recursive function is comes of the set of its partial solutions.        *)

(* Some number of T is below every other.                                  *)
Least(T) == \E n \in T : \A m \in T : n <= m

(* Numbers are well ordered, since finite sets of them are by inclusion.   *)
LEMMA LeastNumber ==
  ASSUME NEW T \in SUBSET Nat, T # {}
  PROVE Least(T)
<1> DEFINE below(n) == 1..n
           all == {below(n) : n \in T}
           order == StrictSubsetOrdering(Nat)
           subs == FiniteSubsetsOf(Nat)
<1>1. \A n \in T : below(n) \in subs
  BY FS_Interval DEF FiniteSubsetsOf
<1>2. all \subseteq subs /\ all # {}
  BY <1>1
<1>3. IsWellFoundedOn(order, subs)
  BY FS_StrictSubsetOrderingWellFounded
<1>4. \A m, n \in T : m < n => <<below(m), below(n)>> \in order
  <2> SUFFICES ASSUME NEW m \in T, NEW n \in T, m < n PROVE <<below(m), below(n)>> \in order
    OBVIOUS
  <2>1. below(m) \subseteq below(n) /\ below(m) # below(n)
    <3>1. n \in below(n) /\ n \notin below(m)
      OBVIOUS
    <3> QED BY <3>1
  <2>2. below(m) \in SUBSET Nat /\ below(n) \in SUBSET Nat
    OBVIOUS
  <2> HIDE DEF below
  <2> QED BY <2>1, <2>2 DEF StrictSubsetOrdering
<1> HIDE DEF all, order, subs, below
<1>5. \E x \in all : \A y \in all : ~(<<y, x>> \in order)
  BY <1>2, <1>3, WFMin
<1>6. PICK x \in all : \A y \in all : ~(<<y, x>> \in order)
  BY <1>5
<1>7. PICK n \in T : x = below(n)
  BY DEF all
<1>8. \A m \in T : below(m) \in all
  BY DEF all
<1>9. \A m \in T : ~(m < n)
  BY <1>4, <1>6, <1>7, <1>8
<1>10. QED
  BY <1>9 DEF Least

(* Induction over numbers, for a set instead of a predicate.               *)
LEMMA Induction ==
  ASSUME NEW T, 0 \in T, \A n \in Nat : n \in T => n+1 \in T
  PROVE Nat \subseteq T
<1> DEFINE R == {n \in Nat : n \notin T}
<1> SUFFICES ASSUME R # {} PROVE FALSE
  OBVIOUS
<1>1. PICK n \in R : \A m \in R : n <= m
  BY LeastNumber DEF Least
<1>2. n - 1 \in Nat /\ n - 1 \notin R
  BY <1>1
<1>3. n - 1 \in T
  BY <1>2
<1>4. QED
  BY <1>1, <1>2, <1>3

(* Induction over sequences from the empty one on, for a set.              *)
LEMMA SequenceInduction ==
  ASSUME NEW A, NEW T, <<>> \in T, \A s \in Seq(A), x \in A : s \in T => Append(s, x) \in T
  PROVE Seq(A) \subseteq T
<1> DEFINE L == {n \in Nat : \A s \in Seq(A) : Len(s) = n => s \in T}
<1>1. 0 \in L
  <2>1. \A s \in Seq(A) : Len(s) = 0 => s = <<>>
    OBVIOUS
  <2> QED BY <2>1
<1>2. \A n \in Nat : n \in L => n + 1 \in L
  <2> SUFFICES ASSUME NEW n \in Nat, n \in L, NEW s \in Seq(A), Len(s) = n + 1 PROVE s \in T
    OBVIOUS
  <2> DEFINE front == SubSeq(s, 1, n)
  <2>1. front \in Seq(A) /\ Len(front) = n /\ s[n + 1] \in A
    OBVIOUS
  <2>2. s = Append(front, s[n + 1])
    OBVIOUS
  <2>3. front \in T
    BY <2>1
  <2> HIDE DEF front
  <2> QED BY <2>1, <2>2, <2>3
<1> HIDE DEF L
<1>3. Nat \subseteq L
  BY <1>1, <1>2, Induction
<1> QED
  <2> SUFFICES ASSUME NEW s \in Seq(A) PROVE s \in T
    OBVIOUS
  <2>1. Len(s) \in Nat
    OBVIOUS
  <2>2. Len(s) \in L
    BY <2>1, <1>3
  <2> QED BY <2>2 DEF L

(* The step's value at d depends on the function only where it is smaller. *)
Local(D, R, size, step) ==
    \A d \in D : \A f, g \in [D -> R] :
        (\A e \in D : size[e] < size[d] => f[e] = g[e]) => step[<<d, f>>] = step[<<d, g>>]

(* f is what the step says it is, below n.                                 *)
Solves(D, size, step, n, f) == \A d \in D : size[d] < n => f[d] = step[<<d, f>>]

(* f and g are one function below n.                                       *)
Agree(D, size, n, f, g) == \A d \in D : size[d] < n => f[d] = g[d]

(* Two solutions below n are one function there.                           *)
LEMMA SolutionsAgree ==
  ASSUME NEW D, NEW R, NEW size \in [D -> Nat], NEW step \in [D \X [D -> R] -> R],
         Local(D, R, size, step),
         NEW n \in Nat, NEW f \in [D -> R], NEW g \in [D -> R],
         Solves(D, size, step, n, f), Solves(D, size, step, n, g)
  PROVE Agree(D, size, n, f, g)
<1> DEFINE T == {k \in Nat : k <= n => \A d \in D : size[d] < k => f[d] = g[d]}
<1>1. 0 \in T
  OBVIOUS
<1>2. \A k \in Nat : k \in T => k + 1 \in T
  <2> SUFFICES ASSUME NEW k \in Nat, k \in T, k + 1 <= n, NEW d \in D, size[d] < k + 1
               PROVE f[d] = g[d]
    OBVIOUS
  <2>1. \A e \in D : size[e] < size[d] => f[e] = g[e]
    OBVIOUS
  <2>2. step[<<d, f>>] = step[<<d, g>>]
    BY <2>1 DEF Local
  <2>3. size[d] < n
    <3>1. size[d] \in Nat
      OBVIOUS
    <3> QED BY <3>1
  <2>4. f[d] = step[<<d, f>>] /\ g[d] = step[<<d, g>>]
    BY <2>3 DEF Solves
  <2> QED BY <2>2, <2>4
<1> HIDE DEF T
<1>3. n \in T
  BY <1>1, <1>2, Induction
<1> QED BY <1>3 DEF T, Agree

(* Some function is what the step says it is, everywhere.                  *)
Solvable(D, R, step) == \E f \in [D -> R] : \A d \in D : f[d] = step[<<d, f>>]

(* A step that looks only at what is smaller defines a function: every [d  *)
(* \in D |-> ...] that calls itself on smaller arguments exists. The       *)
(* solution at d is read off a solution below size[d] + 1.                 *)
LEMMA Recursion ==
  ASSUME NEW D, NEW R, R # {}, NEW size \in [D -> Nat], NEW step \in [D \X [D -> R] -> R],
         Local(D, R, size, step)
  PROVE Solvable(D, R, step)
<1> DEFINE T == {n \in Nat : \E f \in [D -> R] : Solves(D, size, step, n, f)}
<1>1. 0 \in T
  <2>1. PICK r \in R : TRUE
    OBVIOUS
  <2>2. [d \in D |-> r] \in [D -> R]
    OBVIOUS
  <2>3. Solves(D, size, step, 0, [d \in D |-> r])
    BY DEF Solves
  <2> QED BY <2>2, <2>3
<1>2. \A n \in Nat : n \in T => n + 1 \in T
  <2> SUFFICES ASSUME NEW n \in Nat, NEW f \in [D -> R], Solves(D, size, step, n, f)
               PROVE \E g \in [D -> R] : Solves(D, size, step, n + 1, g)
    OBVIOUS
  <2> DEFINE g == [d \in D |-> IF size[d] < n THEN f[d] ELSE step[<<d, f>>]]
  <2>1. g \in [D -> R]
    OBVIOUS
  <2>2. \A d \in D : size[d] < n => g[d] = f[d]
    OBVIOUS
  <2>3. \A d \in D : ~(size[d] < n) => g[d] = step[<<d, f>>]
    OBVIOUS
  <2> HIDE DEF g
  <2>4. ASSUME NEW d \in D, size[d] < n + 1 PROVE g[d] = step[<<d, g>>]
    <3>1. \A e \in D : size[e] < size[d] => f[e] = g[e]
      BY <2>2, <2>4
    <3>2. step[<<d, f>>] = step[<<d, g>>]
      BY <3>1, <2>1 DEF Local
    <3>3. size[d] < n => f[d] = step[<<d, f>>]
      BY DEF Solves
    <3> QED BY <2>2, <2>3, <3>2, <3>3
  <2>5. Solves(D, size, step, n + 1, g)
    BY <2>4 DEF Solves
  <2> QED BY <2>1, <2>5
<1>3. Nat \subseteq T
  <2> HIDE DEF T
  <2> QED BY <1>1, <1>2, Induction
<1> DEFINE solution == [n \in Nat |-> CHOOSE f \in [D -> R] : Solves(D, size, step, n, f)]
<1>4. \A n \in Nat : solution[n] \in [D -> R] /\ Solves(D, size, step, n, solution[n])
  BY <1>3
<1> HIDE DEF solution, T
<1> DEFINE F == [d \in D |-> solution[size[d] + 1][d]]
<1>5. \A d \in D : size[d] + 1 \in Nat
  OBVIOUS
<1>6. F \in [D -> R]
  BY <1>4, <1>5
<1>7. \A d \in D : F[d] = solution[size[d] + 1][d]
  OBVIOUS
<1> HIDE DEF F
<1>8. ASSUME NEW d \in D PROVE F[d] = step[<<d, F>>]
  <2> DEFINE f == solution[size[d] + 1]
  <2>1. f \in [D -> R] /\ Solves(D, size, step, size[d] + 1, f)
    BY <1>4, <1>5
  <2>2. ASSUME NEW e \in D, size[e] < size[d] PROVE F[e] = f[e]
    <3>1. solution[size[e] + 1] \in [D -> R] /\ Solves(D, size, step, size[e] + 1, solution[size[e] + 1])
      BY <1>4, <1>5
    <3>2. Solves(D, size, step, size[e] + 1, f)
      <4>1. size[e] \in Nat /\ size[d] \in Nat
        OBVIOUS
      <4>2. \A x \in D : size[x] \in Nat
        OBVIOUS
      <4> HIDE DEF f
      <4> QED BY <2>1, <2>2, <4>1, <4>2 DEF Solves
    <3>3. \A x \in D : size[x] < size[e] + 1 => solution[size[e] + 1][x] = f[x]
      <4>1. size[e] + 1 \in Nat
        BY <1>5
      <4> DEFINE m == size[e] + 1
                 g == solution[m]
      <4>2. m \in Nat /\ g \in [D -> R] /\ Solves(D, size, step, m, g) /\ Solves(D, size, step, m, f)
        BY <3>1, <3>2, <4>1
      <4>3. f \in [D -> R]
        BY <2>1
      <4> HIDE DEF f, m, g
      <4>4. Agree(D, size, m, g, f)
        BY <4>2, <4>3, SolutionsAgree
      <4> QED BY <4>4 DEF m, g, Agree
    <3> HIDE DEF f
    <3>4. size[e] < size[e] + 1
      OBVIOUS
    <3> QED BY <3>3, <3>4, <1>7
  <2>3. F[d] = f[d]
    BY <1>7
  <2> HIDE DEF f
  <2>4. step[<<d, F>>] = step[<<d, f>>]
    BY <2>1, <2>2, <1>6 DEF Local
  <2>5. f[d] = step[<<d, f>>]
    BY <2>1 DEF Solves
  <2> QED BY <2>3, <2>4, <2>5
<1> QED BY <1>6, <1>8 DEF Solvable

(* A sequence that is not empty, taken apart at its end.                   *)
LEMMA FrontAndLast ==
  ASSUME NEW A, NEW s \in Seq(A), s # <<>>
  PROVE /\ Front(s) \in Seq(A) /\ Last(s) \in A /\ Len(s) \in Nat /\ Len(s) > 0
        /\ Len(Front(s)) = Len(s) - 1 /\ s = Append(Front(s), Last(s))
        /\ Last(s) = s[Len(s)] /\ \A i \in 1..(Len(s) - 1) : Front(s)[i] = s[i]
<1>1. Len(s) \in Nat /\ Len(s) > 0
  OBVIOUS
<1>2. PICK n \in Nat : Len(s) = n + 1
  <2>1. Len(s) - 1 \in Nat /\ Len(s) = (Len(s) - 1) + 1
    BY <1>1
  <2> QED BY <2>1
<1> DEFINE front == SubSeq(s, 1, n)
<1>3. front \in Seq(A) /\ Len(front) = n /\ s[n + 1] \in A
  BY <1>2
<1>4. \A i \in 1..n : front[i] = s[i]
  BY <1>2
<1>5. s = Append(front, s[n + 1])
  BY <1>2
<1>6. Front(s) = front /\ Last(s) = s[n + 1]
  BY <1>2 DEF Front, Last
<1> HIDE DEF front
<1> QED BY <1>1, <1>2, <1>3, <1>4, <1>5, <1>6

(* ... and put together.                                                   *)
LEMMA AppendFront ==
  ASSUME NEW A, NEW s \in Seq(A), NEW x \in A
  PROVE /\ Append(s, x) \in Seq(A) /\ Append(s, x) # <<>>
        /\ Front(Append(s, x)) = s /\ Last(Append(s, x)) = x
  BY DEF Front, Last

(* A function on sequences, defined from the front and the last element.   *)
Foldable(A, S, base, step) ==
    \E f \in [Seq(A) -> S] : \A s \in Seq(A) :
        f[s] = IF s = <<>> THEN base ELSE step[<<f[Front(s)], Last(s)>>]

(* There is one for every base and step.                                   *)
LEMMA SequenceRecursion ==
  ASSUME NEW A, NEW S, NEW base \in S, NEW step \in [S \X A -> S]
  PROVE Foldable(A, S, base, step)
<1> DEFINE D == Seq(A)
           size == [s \in D |-> Len(s)]
           body == [p \in D \X [D -> S] |->
                      IF p[1] = <<>> THEN base ELSE step[<<p[2][Front(p[1])], Last(p[1])>>]]
<1>1. size \in [D -> Nat]
  OBVIOUS
<1>2. \A d \in D, f \in [D -> S] :
        body[<<d, f>>] = IF d = <<>> THEN base ELSE step[<<f[Front(d)], Last(d)>>]
  OBVIOUS
<1>3. \A d \in D, f \in [D -> S] : d # <<>> => step[<<f[Front(d)], Last(d)>>] \in S
  <2> SUFFICES ASSUME NEW d \in D, NEW f \in [D -> S], d # <<>>
               PROVE step[<<f[Front(d)], Last(d)>>] \in S
    OBVIOUS
  <2>1. Front(d) \in D /\ Last(d) \in A
    BY FrontAndLast
  <2>2. f[Front(d)] \in S
    BY <2>1
  <2> QED BY <2>1, <2>2
<1>4. body \in [D \X [D -> S] -> S]
  BY <1>3
<1>5. \A d \in D : size[d] = Len(d)
  OBVIOUS
<1> HIDE DEF body, size
<1>6. Local(D, S, size, body)
  <2> SUFFICES ASSUME NEW d \in D, NEW f \in [D -> S], NEW g \in [D -> S],
                      \A e \in D : size[e] < size[d] => f[e] = g[e]
               PROVE body[<<d, f>>] = body[<<d, g>>]
    BY DEF Local
  <2>1. CASE d = <<>>
    BY <1>2, <2>1
  <2>2. CASE d # <<>>
    <3>1. Front(d) \in D /\ Len(Front(d)) < Len(d)
      <4>1. d \in Seq(A)
        OBVIOUS
      <4>2. Front(d) \in Seq(A) /\ Len(Front(d)) = Len(d) - 1 /\ Len(d) \in Nat
        BY <2>2, <4>1, FrontAndLast
      <4> QED BY <4>2
    <3>2. f[Front(d)] = g[Front(d)]
      BY <3>1, <1>5
    <3> QED BY <1>2, <2>2, <3>2
  <2> QED BY <2>1, <2>2
<1>7. Solvable(D, S, body)
  <2> HIDE DEF D
  <2>1. S # {}
    OBVIOUS
  <2> QED BY <2>1, <1>1, <1>4, <1>6, Recursion
<1> QED BY ZenonT(60), <1>2, <1>7 DEF Solvable, Foldable

(* FlattenSeq is such a function.                                          *)
LEMMA Flattening ==
  ASSUME NEW A
  PROVE \E f \in [Seq(Seq(A)) -> Seq(A)] :
          /\ \A s \in Seq(Seq(A)) : f[s] = IF s = <<>> THEN <<>> ELSE f[Front(s)] \o Last(s)
          /\ \A s \in Seq(Seq(A)) : FlattenSeq(s) = f[s]
<1> DEFINE S == Seq(A)
           join == [p \in S \X S |-> p[1] \o p[2]]
<1>1. join \in [S \X S -> S] /\ <<>> \in S
  <2>1. \A a, b \in S : a \o b \in S
    OBVIOUS
  <2> HIDE DEF S
  <2>2. join \in [S \X S -> S]
    BY <2>1
  <2> QED BY <2>2 DEF S
<1>2. \A a, b \in S : join[<<a, b>>] = a \o b
  OBVIOUS
<1>3. PICK f \in [Seq(S) -> S] :
        \A s \in Seq(S) : f[s] = IF s = <<>> THEN <<>> ELSE join[<<f[Front(s)], Last(s)>>]
  <2> HIDE DEF join, S
  <2>1. Foldable(S, S, <<>>, join)
    BY <1>1, SequenceRecursion
  <2> QED BY <2>1 DEF Foldable
<1>4. \A s \in Seq(S) : f[s] = IF s = <<>> THEN <<>> ELSE f[Front(s)] \o Last(s)
  <2> SUFFICES ASSUME NEW s \in Seq(S), s # <<>> PROVE f[s] = f[Front(s)] \o Last(s)
    BY <1>3
  <2>1. Front(s) \in Seq(S) /\ Last(s) \in S
    BY FrontAndLast
  <2>2. f[Front(s)] \in S
    BY <2>1
  <2> HIDE DEF join, S
  <2> QED BY <1>2, <1>3, <2>1, <2>2
<1>5. ASSUME NEW s \in Seq(S), s # <<>> PROVE FlattenSeq(s) = f[s]
  <2> DEFINE n == Len(s)
             flatten[i \in 1..n] == IF i = 1 THEN s[i] ELSE flatten[i-1] \o s[i]
             g == [i \in 1..n |-> f[SubSeq(s, 1, i)]]
  <2>1. n \in Nat /\ n > 0
    BY <1>5
  <2>2. \A i \in 1..n : SubSeq(s, 1, i) \in Seq(S) /\ SubSeq(s, 1, i) # <<>>
                        /\ Last(SubSeq(s, 1, i)) = s[i] /\ s[i] \in S
                        /\ Front(SubSeq(s, 1, i)) = SubSeq(s, 1, i - 1)
    <3> SUFFICES ASSUME NEW i \in 1..n PROVE
            /\ SubSeq(s, 1, i) \in Seq(S) /\ SubSeq(s, 1, i) # <<>>
            /\ Last(SubSeq(s, 1, i)) = s[i] /\ s[i] \in S
            /\ Front(SubSeq(s, 1, i)) = SubSeq(s, 1, i - 1)
      OBVIOUS
    <3> DEFINE t == SubSeq(s, 1, i)
    <3>1. t \in Seq(S) /\ Len(t) = i /\ \A k \in 1..i : t[k] = s[k]
      BY <2>1
    <3>2. s[i] \in S /\ i \in Nat /\ i > 0
      BY <2>1
    <3>3. SubSeq(t, 1, i - 1) = SubSeq(s, 1, i - 1)
      BY <2>1, <3>2
    <3> HIDE DEF t
    <3>4. t # <<>> /\ Last(t) = s[i] /\ Front(t) = SubSeq(s, 1, i - 1)
      BY <3>1, <3>2, <3>3 DEF Front, Last
    <3> QED BY <3>1, <3>2, <3>4 DEF t
  <2>3. \A i \in 1..n : f[SubSeq(s, 1, i)] = f[SubSeq(s, 1, i - 1)] \o s[i]
    <3> HIDE DEF n
    <3> QED BY <1>4, <2>2
  <2>4. f[<<>>] = <<>> /\ SubSeq(s, 1, 0) = <<>>
    <3>1. <<>> \in Seq(S)
      OBVIOUS
    <3>2. f[<<>>] = <<>>
      <4> HIDE DEF S
      <4> QED BY <1>4, <3>1
    <3>3. SubSeq(s, 1, 0) = <<>>
      OBVIOUS
    <3> QED BY <3>2, <3>3
  <2>5. f[SubSeq(s, 1, 1)] = s[1]
    <3>1. 1 \in 1..n
      BY <2>1
    <3>2. f[SubSeq(s, 1, 1)] = f[SubSeq(s, 1, 1 - 1)] \o s[1] /\ s[1] \in S
      <4> HIDE DEF n, S
      <4> QED BY <2>2, <2>3, <3>1
    <3>3. SubSeq(s, 1, 1 - 1) = <<>>
      BY <2>4
    <3>4. f[SubSeq(s, 1, 1)] = <<>> \o s[1]
      BY <2>4, <3>2, <3>3
    <3> QED BY <3>2, <3>4
  <2>6. g = [i \in 1..n |-> IF i = 1 THEN s[i] ELSE g[i-1] \o s[i]]
    <3>1. ASSUME NEW i \in 1..n PROVE g[i] = IF i = 1 THEN s[i] ELSE g[i-1] \o s[i]
      <4>1. CASE i = 1
        BY <2>5, <4>1
      <4>2. CASE i # 1
        <5>1. i - 1 \in 1..n
          BY <4>2, <2>1
        <5>2. g[i-1] = f[SubSeq(s, 1, i - 1)] /\ g[i] = f[SubSeq(s, 1, i)]
          BY <5>1
        <5> QED BY <5>2, <2>3, <4>2
      <4> QED BY <4>1, <4>2
    <3> QED BY <3>1
  <2>7. flatten = [i \in 1..n |-> IF i = 1 THEN s[i] ELSE flatten[i-1] \o s[i]]
    <3> HIDE DEF g
    <3> QED BY <2>6
  <2>8. FlattenSeq(s) = flatten[n]
    BY <1>5, <2>1 DEF FlattenSeq
  <2> HIDE DEF flatten, g
  <2> DEFINE T == {i \in Nat : i \in 1..n => flatten[i] = f[SubSeq(s, 1, i)]}
  <2>9. 0 \in T
    OBVIOUS
  <2> HIDE DEF T, n, S
  <2>10. \A i \in Nat : i \in T => i + 1 \in T
    <3> SUFFICES ASSUME NEW i \in Nat, i \in T PROVE i + 1 \in T
      OBVIOUS
    <3>1. ASSUME NEW k \in 1..n, k = i + 1 PROVE flatten[k] = f[SubSeq(s, 1, k)]
      <4>1. CASE k = 1
        <5>1. flatten[k] = s[1]
          BY <2>7, <4>1
        <5> QED BY <2>5, <4>1, <5>1
      <4>2. CASE k # 1
        <5>1. flatten[k] = flatten[k - 1] \o s[k]
          BY <2>7, <4>2
        <5>2. k - 1 = i /\ i \in 1..n
          BY <2>1, <3>1, <4>2
        <5>3. flatten[i] = f[SubSeq(s, 1, i)]
          BY <5>2 DEF T
        <5>4. f[SubSeq(s, 1, k)] = f[SubSeq(s, 1, k - 1)] \o s[k]
          BY <2>3
        <5> QED BY <5>1, <5>2, <5>3, <5>4
      <4> QED BY <4>1, <4>2
    <3> QED BY <3>1 DEF T
  <2>11. n \in T
    BY <2>1, <2>9, <2>10, Induction
  <2>12. SubSeq(s, 1, n) = s
    BY DEF n
  <2>13. n \in 1..n
    BY <2>1
  <2>14. flatten[n] = f[SubSeq(s, 1, n)]
    <3> HIDE DEF n
    <3> QED BY <2>11, <2>13 DEF T
  <2> QED BY <2>8, <2>12, <2>14
<1>6. FlattenSeq(<<>>) = f[<<>>]
  <2>1. <<>> \in Seq(S)
    OBVIOUS
  <2>2. f[<<>>] = <<>>
    <3> HIDE DEF S
    <3> QED BY <1>4, <2>1
  <2> QED BY <2>2 DEF FlattenSeq
<1> QED BY <1>4, <1>5, <1>6

(* FlattenSeq of nothing, and of one sequence more.                        *)
LEMMA FlattenEmpty == FlattenSeq(<<>>) = <<>>
  BY DEF FlattenSeq

LEMMA FlattenAppend ==
  ASSUME NEW A, NEW s \in Seq(Seq(A)), NEW x \in Seq(A)
  PROVE /\ FlattenSeq(s) \in Seq(A)
        /\ FlattenSeq(Append(s, x)) = FlattenSeq(s) \o x
<1>1. PICK f \in [Seq(Seq(A)) -> Seq(A)] :
          /\ \A t \in Seq(Seq(A)) : f[t] = IF t = <<>> THEN <<>> ELSE f[Front(t)] \o Last(t)
          /\ \A t \in Seq(Seq(A)) : FlattenSeq(t) = f[t]
  BY Flattening
<1>2. /\ Append(s, x) \in Seq(Seq(A)) /\ Append(s, x) # <<>>
      /\ Front(Append(s, x)) = s /\ Last(Append(s, x)) = x
  BY AppendFront
<1> QED BY ZenonT(60), <1>1, <1>2

-----------------------------------------------------------------------------
(* Induction over what is smaller.                                         *)

(* Complete induction over a size, and over the length of sequences.       *)
LEMMA ShorterFirst ==
  ASSUME NEW D, NEW size \in [D -> Nat], NEW T,
         \A d \in D : (\A e \in D : size[e] < size[d] => e \in T) => d \in T
  PROVE D \subseteq T
<1> DEFINE L == {n \in Nat : \A d \in D : size[d] < n => d \in T}
<1>1. 0 \in L
  OBVIOUS
<1> HIDE DEF L
<1>2. \A n \in Nat : n \in L => n + 1 \in L
  <2> SUFFICES ASSUME NEW n \in Nat, n \in L PROVE n + 1 \in L
    OBVIOUS
  <2>1. ASSUME NEW d \in D, size[d] < n + 1 PROVE d \in T
    <3>1. \A e \in D : size[e] < size[d] => e \in T
      BY <2>1 DEF L
    <3> QED BY <3>1
  <2> QED BY <2>1 DEF L
<1>3. Nat \subseteq L
  BY <1>1, <1>2, Induction
<1> QED
  <2> SUFFICES ASSUME NEW d \in D PROVE d \in T
    OBVIOUS
  <2>1. size[d] \in Nat /\ size[d] + 1 \in Nat /\ size[d] < size[d] + 1
    OBVIOUS
  <2> QED BY <2>1, <1>3 DEF L

LEMMA ShorterSequencesFirst ==
  ASSUME NEW A, NEW T,
         \A x \in Seq(A) : (\A y \in Seq(A) : Len(y) < Len(x) => y \in T) => x \in T
  PROVE Seq(A) \subseteq T
<1> DEFINE D == Seq(A)
           size == [x \in D |-> Len(x)]
<1>1. size \in [D -> Nat]
  OBVIOUS
<1>2. \A x \in D : size[x] = Len(x)
  OBVIOUS
<1>3. \A x \in D : (\A y \in D : Len(y) < Len(x) => y \in T) => x \in T
  OBVIOUS
<1> HIDE DEF size, D
<1>4. \A d \in D : (\A e \in D : size[e] < size[d] => e \in T) => d \in T
  BY SMTT(30), <1>2, <1>3
<1>5. D \subseteq T
  BY <1>1, <1>4, ShorterFirst
<1> QED BY <1>5 DEF D

-----------------------------------------------------------------------------
(* Sequences: prefixes and what is behind them.                            *)

(* A sequence begins every sequence it is put in front of ...              *)
LEMMA PrefixConcat ==
  ASSUME NEW A, NEW q \in Seq(A), NEW y \in Seq(A)
  PROVE IsPrefix(q, q \o y)
  BY DEF IsPrefix

(* ... and each sequence is its prefix and what is behind it.              *)
LEMMA ConcatPrefix ==
  ASSUME NEW A, NEW q \in Seq(A), NEW x \in Seq(A), IsPrefix(q, x)
  PROVE /\ Len(q) <= Len(x) /\ Len(q) \in Nat /\ Len(x) \in Nat
        /\ SubSeq(x, Len(q) + 1, Len(x)) \in Seq(A)
        /\ Len(SubSeq(x, Len(q) + 1, Len(x))) = Len(x) - Len(q)
        /\ x = q \o SubSeq(x, Len(q) + 1, Len(x))
<1>1. Len(q) \in Nat /\ Len(x) \in Nat /\ Len(q) <= Len(x)
  BY DEF IsPrefix
<1>2. SubSeq(x, Len(q) + 1, Len(x)) \in Seq(A)
      /\ Len(SubSeq(x, Len(q) + 1, Len(x))) = Len(x) - Len(q)
  BY <1>1
<1>3. SubSeq(x, 1, Len(q)) = q
  BY <1>1 DEF IsPrefix
<1>4. x = SubSeq(x, 1, Len(q)) \o SubSeq(x, Len(q) + 1, Len(x))
  <2> DEFINE k == Len(q)
             n == Len(x)
  <2>1. 1 \in 1..(Len(x) + 1) /\ k \in (1 - 1)..Len(x) /\ n \in k..Len(x)
    BY <1>1
  <2>2. SubSeq(x, 1, n) = x
    BY SubSeqFull
  <2> HIDE DEF k, n
  <2>3. SubSeq(x, 1, k) \o SubSeq(x, k + 1, n) = SubSeq(x, 1, n)
    BY <2>1, ConcatAdjacentSubSeq
  <2> QED BY <2>2, <2>3 DEF k, n
<1> QED BY <1>1, <1>2, <1>3, <1>4

LEMMA PrefixIff ==
  ASSUME NEW A, NEW q \in Seq(A), NEW x \in Seq(A)
  PROVE IsPrefix(q, x) <=> \E y \in Seq(A) : x = q \o y
<1>1. ASSUME IsPrefix(q, x) PROVE \E y \in Seq(A) : x = q \o y
  <2>1. SubSeq(x, Len(q) + 1, Len(x)) \in Seq(A) /\ x = q \o SubSeq(x, Len(q) + 1, Len(x))
    BY <1>1, ConcatPrefix
  <2> QED BY <2>1
<1>2. ASSUME NEW y \in Seq(A), x = q \o y PROVE IsPrefix(q, x)
  BY <1>2, PrefixConcat
<1> QED BY <1>1, <1>2

(* A sequence that is not empty, taken apart at its beginning.             *)
LEMMA HeadAndTail ==
  ASSUME NEW A, NEW x \in Seq(A), x # <<>>
  PROVE /\ Head(x) \in A /\ Tail(x) \in Seq(A) /\ Len(x) \in Nat /\ Len(Tail(x)) = Len(x) - 1
        /\ x = <<Head(x)>> \o Tail(x) /\ <<Head(x)>> \in Seq(A)
<1>1. Len(x) \in Nat /\ Len(x) >= 1 /\ Head(x) = x[1] /\ Head(x) \in A
  OBVIOUS
<1>2. Tail(x) \in Seq(A) /\ Len(Tail(x)) = Len(x) - 1 /\ \A i \in 1..Len(Tail(x)) : Tail(x)[i] = x[i + 1]
  BY HeadTailProperties
<1>3. <<Head(x)>> \in Seq(A) /\ Len(<<Head(x)>>) = 1 /\ <<Head(x)>>[1] = Head(x)
  BY <1>1
<1> DEFINE y == <<Head(x)>> \o Tail(x)
<1>4. y \in Seq(A) /\ Len(y) = Len(x)
  BY <1>1, <1>2, <1>3
<1>5. ASSUME NEW i \in 1..Len(x) PROVE x[i] = y[i]
  <2>1. CASE i = 1
    BY <1>1, <1>2, <1>3, <2>1
  <2>2. CASE i # 1
    <3>1. i - 1 \in 1..Len(Tail(x)) /\ (i - 1) + 1 = i
      BY <1>1, <1>2, <2>2
    <3>2. y[i] = Tail(x)[i - 1]
      BY <1>1, <1>2, <1>3, <2>2
    <3> QED BY <1>2, <3>1, <3>2
  <2> QED BY <2>1, <2>2
<1> HIDE DEF y
<1>6. x = y
  BY <1>4, <1>5, SeqEqual
<1> QED BY <1>1, <1>2, <1>3, <1>6 DEF y

(* What stands behind the same beginning is the same.                      *)
LEMMA CancelLeft ==
  ASSUME NEW A, NEW s \in Seq(A), NEW t \in Seq(A), NEW v \in Seq(A), s \o t = s \o v
  PROVE t = v
  BY ConcatSimplifications

-----------------------------------------------------------------------------
(* The prompt mask (withMask.ts): what putting the value in the place of   *)
(* every token of a text yields.                                           *)

(* The token and the real value: neither is empty.                         *)
LEMMA TokenFacts ==
  /\ Token \in Text /\ Real \in Text /\ Token # <<>> /\ Real # <<>>
  /\ Len(Token) \in Nat /\ Len(Real) \in Nat /\ Len(Token) >= 1 /\ Len(Real) >= 1
  /\ MaxTokenLength \in Nat /\ Len(Token) <= MaxTokenLength
<1>1. Token \in Text /\ Real \in Text /\ Token # <<>> /\ Real # <<>>
      /\ MaxTokenLength \in Nat /\ Len(Token) <= MaxTokenLength
  BY MaskAssumption
<1>2. \A q \in Text : q # <<>> => Len(q) \in Nat /\ Len(q) >= 1 /\ DOMAIN q = 1..Len(q)
  BY DEF Text
<1> QED BY <1>1, <1>2

(* A text that begins with the token is the token and a shorter text.      *)
LEMMA BehindToken ==
  ASSUME NEW x \in Text, IsPrefix(Token, x)
  PROVE /\ Since(x, Len(Token) + 1) \in Text /\ Len(Since(x, Len(Token) + 1)) < Len(x)
        /\ x = Token \o Since(x, Len(Token) + 1)
  BY TokenFacts, ConcatPrefix DEF Text, Since

(* Restore's step.                                                         *)
RestoreStep ==
    [p \in Text \X [Text -> Text] |->
        IF p[1] = <<>> THEN <<>>
        ELSE IF IsPrefix(Token, p[1]) THEN Real \o p[2][Since(p[1], Len(Token) + 1)]
        ELSE <<Head(p[1])>> \o p[2][Tail(p[1])]]

(* Restore is what its definition says: its recursion is on shorter texts. *)
LEMMA RestoreEquation ==
  /\ \A x \in Text : Restore[x] =
        IF x = <<>> THEN <<>>
        ELSE IF IsPrefix(Token, x) THEN Real \o Restore[Since(x, Len(Token) + 1)]
        ELSE <<Head(x)>> \o Restore[Tail(x)]
<1> DEFINE R == [Text -> Text]
           body(x, f) == IF x = <<>> THEN <<>>
                         ELSE IF IsPrefix(Token, x) THEN Real \o f[Since(x, Len(Token) + 1)]
                         ELSE <<Head(x)>> \o f[Tail(x)]
           size == [x \in Text |-> Len(x)]
<1>1. \A x \in Text, f \in R : RestoreStep[<<x, f>>] = body(x, f)
  BY DEF RestoreStep
<1>2. \A x \in Text : x # <<>> => /\ Head(x) \in Characters /\ <<Head(x)>> \in Text /\ Tail(x) \in Text
                                  /\ Len(Tail(x)) < Len(x)
  BY HeadAndTail DEF Text
<1>3. \A a, b \in Text : a \o b \in Text
  BY DEF Text
<1>4. <<>> \in Text
  BY DEF Text
<1>5. \A x \in Text, f \in R : body(x, f) \in Text
  BY <1>2, <1>3, <1>4, BehindToken, TokenFacts
<1>6. RestoreStep \in [Text \X R -> Text]
  <2>1. RestoreStep = [p \in Text \X R |-> RestoreStep[p]]
    BY DEF RestoreStep
  <2> HIDE DEF R, body
  <2>2. \A p \in Text \X R : RestoreStep[p] \in Text
    BY <1>1, <1>5
  <2> QED BY <2>1, <2>2
<1>7. size \in [Text -> Nat] /\ \A x \in Text : size[x] = Len(x)
  BY DEF Text
<1> HIDE DEF size
<1>8. Local(Text, Text, size, RestoreStep)
  <2> SUFFICES ASSUME NEW d \in Text, NEW f \in R, NEW g \in R,
                      \A e \in Text : size[e] < size[d] => f[e] = g[e]
               PROVE RestoreStep[<<d, f>>] = RestoreStep[<<d, g>>]
    BY DEF Local
  <2>1. \A e \in Text : Len(e) < Len(d) => f[e] = g[e]
    BY <1>7
  <2>2. body(d, f) = body(d, g)
    BY <2>1, <1>2, BehindToken
  <2> QED BY <1>1, <2>2
<1>9. Solvable(Text, Text, RestoreStep)
  BY <1>4, <1>6, <1>7, <1>8, Recursion
<1>10. PICK f \in R : \A x \in Text : f[x] = RestoreStep[<<x, f>>]
  BY <1>9 DEF Solvable
<1>11. f = [x \in Text |-> body(x, f)]
  BY <1>1, <1>10
<1>12. Restore = [x \in Text |-> body(x, Restore)]
  BY <1>11 DEF Restore
<1> QED BY <1>12

(* Restoring a text yields a text; the empty one stays; a token in front   *)
(* becomes the real value; any other character stays.                      *)
LEMMA RestoreType == \A x \in Text : Restore[x] \in Text
<1> DEFINE T == {x \in Text : Restore[x] \in Text}
<1>1. ASSUME NEW x \in Text, \A y \in Text : Len(y) < Len(x) => y \in T PROVE x \in T
  <2>1. \A a, b \in Text : a \o b \in Text
    BY DEF Text
  <2>2. CASE x = <<>>
    BY <2>2, RestoreEquation
  <2>3. CASE x # <<>> /\ IsPrefix(Token, x)
    BY ZenonT(60), <1>1, <2>1, <2>3, RestoreEquation, BehindToken, TokenFacts
  <2>4. CASE x # <<>> /\ ~IsPrefix(Token, x)
    <3>1. <<Head(x)>> \in Text /\ Tail(x) \in Text /\ Len(Tail(x)) < Len(x)
      BY <2>4, HeadAndTail DEF Text
    <3> QED BY <1>1, <2>1, <2>4, <3>1, RestoreEquation
  <2> QED BY <2>2, <2>3, <2>4
<1> HIDE DEF T
<1>2. Text \subseteq T
  BY <1>1, ShorterSequencesFirst DEF Text
<1> QED BY <1>2 DEF T

(* Restore, by the way a text begins.                                      *)
LEMMA RestoreEmpty == Restore[<<>>] = <<>>
<1>1. <<>> \in Text
  BY DEF Text
<1> QED BY <1>1, RestoreEquation

LEMMA RestoreToken ==
  ASSUME NEW y \in Text
  PROVE Token \o y \in Text /\ Restore[Token \o y] = Real \o Restore[y]
<1>1. Token \o y \in Text /\ IsPrefix(Token, Token \o y) /\ Token \o y # <<>>
  BY TokenFacts, PrefixConcat DEF Text
<1>2. Since(Token \o y, Len(Token) + 1) \in Text
      /\ Token \o y = Token \o Since(Token \o y, Len(Token) + 1)
  BY <1>1, BehindToken
<1>3. Since(Token \o y, Len(Token) + 1) = y
  <2> HIDE DEF Since
  <2> QED BY <1>2, TokenFacts, CancelLeft DEF Text
<1> QED BY <1>1, <1>3, RestoreEquation

LEMMA RestoreCharacter ==
  ASSUME NEW c \in Characters, NEW y \in Text, ~IsPrefix(Token, <<c>> \o y)
  PROVE Restore[<<c>> \o y] = <<c>> \o Restore[y]
<1> DEFINE x == <<c>> \o y
<1>1. x \in Text /\ x # <<>>
  BY DEF Text
<1>2. Head(x) = c
  BY DEF Text
<1>3. Tail(x) \in Text /\ x = <<Head(x)>> \o Tail(x)
  BY <1>1, HeadAndTail DEF Text
<1>4. <<c>> \in Text
  BY DEF Text
<1> HIDE DEF x
<1>5. <<c>> \o y = <<c>> \o Tail(x)
  BY <1>2, <1>3 DEF x
<1>6. Tail(x) = y
  BY <1>3, <1>4, <1>5, CancelLeft DEF Text
<1> QED BY <1>1, <1>2, <1>6, RestoreEquation DEF x

(* q stands in x at i.                                                     *)
At(q, x, i) == IsPrefix(q, Since(x, i))

(* ... character by character.                                             *)
LEMMA AtPointwise ==
  ASSUME NEW A, NEW q \in Seq(A), NEW x \in Seq(A), NEW i \in Nat, i >= 1, i <= Len(x) + 1
  PROVE At(q, x, i) <=> /\ i + Len(q) - 1 <= Len(x)
                        /\ \A k \in 1..Len(q) : x[i + k - 1] = q[k]
<1> DEFINE s == Since(x, i)
           m == Len(q)
           n == Len(x)
<1>1. m \in Nat /\ n \in Nat
  OBVIOUS
<1>2. s \in Seq(A) /\ Len(s) = n - i + 1 /\ \A k \in 1..(n - i + 1) : s[k] = x[i + k - 1]
  BY DEF Since
<1> HIDE DEF s
<1>3. ASSUME IsPrefix(q, s) PROVE i + m - 1 <= n /\ \A k \in 1..m : x[i + k - 1] = q[k]
  <2>1. m <= n - i + 1
    BY <1>2, <1>3 DEF IsPrefix
  <2>2. \A k \in 1..m : s[k] = q[k]
    <3>1. SubSeq(q, 1, m) = SubSeq(s, 1, m)
      BY <1>3 DEF IsPrefix
    <3>2. \A k \in 1..m : SubSeq(q, 1, m)[k] = q[k]
      BY <1>1
    <3>3. \A k \in 1..m : SubSeq(s, 1, m)[k] = s[k]
      BY <1>1, <1>2, <2>1
    <3> QED BY <3>1, <3>2, <3>3
  <2>3. \A k \in 1..m : k \in 1..(n - i + 1)
    BY <1>1, <2>1
  <2> HIDE DEF m, n
  <2> QED BY SMTT(30), <1>1, <1>2, <2>1, <2>2, <2>3
<1>4. ASSUME i + m - 1 <= n, \A k \in 1..m : x[i + k - 1] = q[k] PROVE IsPrefix(q, s)
  <2>1. m <= n - i + 1
    BY <1>1, <1>4
  <2>2. \A k \in 1..m : k \in 1..(n - i + 1)
    BY <1>1, <2>1
  <2>3. \A k \in 1..m : s[k] = q[k]
    <3> HIDE DEF m, n
    <3> QED BY <1>2, <1>4, <2>2
  <2>4. SubSeq(q, 1, m) = SubSeq(s, 1, m)
    <3>1. SubSeq(q, 1, m) \in Seq(A) /\ SubSeq(s, 1, m) \in Seq(A)
          /\ Len(SubSeq(q, 1, m)) = m /\ Len(SubSeq(s, 1, m)) = m
      BY <1>1, <1>2, <2>1
    <3>2. \A k \in 1..m : SubSeq(q, 1, m)[k] = q[k] /\ SubSeq(s, 1, m)[k] = s[k]
      BY <1>1, <1>2, <2>1
    <3> QED BY <2>3, <3>1, <3>2, SeqEqual
  <2> QED BY <1>2, <2>1, <2>4 DEF IsPrefix
<1> QED BY <1>3, <1>4 DEF At, s

(* All of x is x since its first.                                          *)
LEMMA SinceFirst ==
  ASSUME NEW A, NEW x \in Seq(A)
  PROVE Since(x, 1) = x
  BY SubSeqFull DEF Since

(* Where q stands in b, it stands as far behind a in a \o b.               *)
LEMMA AtBehind ==
  ASSUME NEW A, NEW q \in Seq(A), NEW a \in Seq(A), NEW b \in Seq(A), NEW i \in Nat, i >= 1, i <= Len(b) + 1
  PROVE At(q, a \o b, Len(a) + i) <=> At(q, b, i)
<1> DEFINE x == a \o b
           la == Len(a)
           lb == Len(b)
           m == Len(q)
<1>1. la \in Nat /\ lb \in Nat /\ m \in Nat
  OBVIOUS
<1>2. x \in Seq(A) /\ Len(x) = la + lb /\ \A k \in 1..lb : x[la + k] = b[k]
  OBVIOUS
<1>3. la + i \in Nat /\ la + i >= 1 /\ la + i <= Len(x) + 1
  BY <1>1, <1>2
<1>4. At(q, x, la + i) <=> /\ (la + i) + m - 1 <= la + lb
                           /\ \A k \in 1..m : x[(la + i) + k - 1] = q[k]
  <2> HIDE DEF x, la
  <2> QED BY ZenonT(60), <1>2, <1>3, AtPointwise
<1>5. At(q, b, i) <=> /\ i + m - 1 <= lb /\ \A k \in 1..m : b[i + k - 1] = q[k]
  BY AtPointwise
<1> HIDE DEF x, la, lb, m
<1>6. (la + i) + m - 1 <= la + lb <=> i + m - 1 <= lb
  BY <1>1
<1>7. ASSUME i + m - 1 <= lb, NEW k \in 1..m PROVE x[(la + i) + k - 1] = b[i + k - 1]
  <2>1. i + k - 1 \in 1..lb /\ (la + i) + k - 1 = la + (i + k - 1)
    BY <1>1, <1>7
  <2> QED BY <1>2, <2>1
<1> QED BY <1>4, <1>5, <1>6, <1>7 DEF x, la

(* A prefix, character by character, and by first characters.              *)
LEMMA PrefixPointwise ==
  ASSUME NEW A, NEW q \in Seq(A), NEW x \in Seq(A)
  PROVE IsPrefix(q, x) <=> Len(q) <= Len(x) /\ \A k \in 1..Len(q) : x[k] = q[k]
<1>1. At(q, x, 1) <=> /\ 1 + Len(q) - 1 <= Len(x) /\ \A k \in 1..Len(q) : x[1 + k - 1] = q[k]
  BY AtPointwise
<1>2. \A k \in 1..Len(q) : 1 + k - 1 = k
  OBVIOUS
<1>3. 1 + Len(q) - 1 = Len(q)
  OBVIOUS
<1>4. At(q, x, 1) <=> IsPrefix(q, x)
  BY SinceFirst DEF At
<1> QED BY <1>1, <1>2, <1>3, <1>4

LEMMA PrefixCons ==
  ASSUME NEW A, NEW c \in A, NEW d \in A, NEW a \in Seq(A), NEW b \in Seq(A)
  PROVE IsPrefix(<<c>> \o a, <<d>> \o b) <=> c = d /\ IsPrefix(a, b)
<1> DEFINE q == <<c>> \o a
           x == <<d>> \o b
           m == Len(a)
           n == Len(b)
<1>1. m \in Nat /\ n \in Nat
  OBVIOUS
<1>2. q \in Seq(A) /\ Len(q) = m + 1 /\ q[1] = c /\ \A k \in 1..m : q[k + 1] = a[k]
  OBVIOUS
<1>3. x \in Seq(A) /\ Len(x) = n + 1 /\ x[1] = d /\ \A k \in 1..n : x[k + 1] = b[k]
  OBVIOUS
<1>4. IsPrefix(a, b) <=> m <= n /\ \A k \in 1..m : b[k] = a[k]
  BY PrefixPointwise
<1> HIDE DEF q, x
<1>5. IsPrefix(q, x) <=> Len(q) <= Len(x) /\ \A k \in 1..Len(q) : x[k] = q[k]
  BY SMTT(30), <1>2, <1>3, PrefixPointwise
<1> HIDE DEF m, n
<1>6. ASSUME IsPrefix(q, x) PROVE c = d /\ IsPrefix(a, b)
  <2>1. m <= n /\ \A k \in 1..(m + 1) : x[k] = q[k]
    BY <1>1, <1>2, <1>3, <1>5, <1>6
  <2>2. x[1] = q[1]
    BY <1>1, <2>1
  <2>3. \A k \in 1..m : x[k + 1] = q[k + 1] /\ k \in 1..n
    BY <1>1, <2>1
  <2> QED BY <1>2, <1>3, <1>4, <2>1, <2>2, <2>3
<1>7. ASSUME c = d, IsPrefix(a, b) PROVE IsPrefix(q, x)
  <2>1. m <= n /\ \A k \in 1..m : b[k] = a[k]
    BY <1>4, <1>7
  <2>2. ASSUME NEW k \in 1..(m + 1) PROVE x[k] = q[k]
    <3>1. CASE k = 1
      BY <1>2, <1>3, <1>7, <3>1
    <3>2. CASE k # 1
      <4>1. k - 1 \in 1..m /\ k - 1 \in 1..n /\ (k - 1) + 1 = k
        BY <1>1, <2>1, <3>2
      <4> QED BY <1>2, <1>3, <2>1, <4>1
    <3> QED BY <3>1, <3>2
  <2> QED BY <1>1, <1>2, <1>3, <1>5, <2>1, <2>2
<1> QED BY <1>6, <1>7 DEF q, x

(* Texts as sequences.                                                     *)
LEMMA TextFacts ==
  /\ <<>> \in Text /\ Len(<<>>) = 0
  /\ \A c \in Characters : <<c>> \in Text /\ Len(<<c>>) = 1 /\ <<c>>[1] = c
  /\ \A a \in Text : Len(a) \in Nat /\ (Len(a) = 0 => a = <<>>) /\ <<>> \o a = a /\ a \o <<>> = a
  /\ \A a, b \in Text : a \o b \in Text /\ Len(a \o b) = Len(a) + Len(b)
  BY DEF Text

LEMMA Assoc == \A a, b, c \in Text : (a \o b) \o c = a \o (b \o c)
  BY SMTT(30), ConcatAssociative DEF Text

LEMMA AssocOf ==
  ASSUME NEW a, NEW b, NEW c, a \in Text, b \in Text, c \in Text
  PROVE (a \o b) \o c = a \o (b \o c)
  BY Assoc

(* A text that is not empty has a first character.                         *)
LEMMA FirstOf ==
  ASSUME NEW x \in Text, x # <<>>
  PROVE \E c \in Characters, y \in Text : x = <<c>> \o y /\ Len(y) < Len(x) /\ Len(x) = Len(y) + 1
<1>1. Head(x) \in Characters /\ Tail(x) \in Text /\ Len(x) \in Nat /\ Len(Tail(x)) = Len(x) - 1
        /\ x = <<Head(x)>> \o Tail(x)
  BY HeadAndTail DEF Text
<1>2. Len(Tail(x)) < Len(x) /\ Len(x) = Len(Tail(x)) + 1
  BY <1>1
<1> QED BY <1>1, <1>2

(* The characters of two texts put together.                               *)
LEMMA ConcatAt ==
  ASSUME NEW a \in Text, NEW b \in Text
  PROVE /\ \A i \in 1..Len(a) : (a \o b)[i] = a[i]
        /\ \A i \in 1..Len(b) : (a \o b)[Len(a) + i] = b[i]
  BY DEF Text

(* The laws of prefixes above, for texts.                                  *)
LEMMA TextPrefix ==
  ASSUME NEW q \in Text, NEW x \in Text
  PROVE IsPrefix(q, x) <=> Len(q) <= Len(x) /\ \A k \in 1..Len(q) : x[k] = q[k]
  BY PrefixPointwise DEF Text

LEMMA TextPrefixCons ==
  ASSUME NEW c \in Characters, NEW d \in Characters, NEW a \in Text, NEW b \in Text
  PROVE IsPrefix(<<c>> \o a, <<d>> \o b) <=> c = d /\ IsPrefix(a, b)
  BY PrefixCons DEF Text

LEMMA TextAtFirst ==
  ASSUME NEW q \in Text, NEW x \in Text
  PROVE At(q, x, 1) <=> IsPrefix(q, x)
  BY SinceFirst DEF At, Text

LEMMA TextAtBehind ==
  ASSUME NEW q \in Text, NEW a \in Text, NEW b \in Text, NEW i \in Nat, i >= 1, i <= Len(b) + 1
  PROVE At(q, a \o b, Len(a) + i) <=> At(q, b, i)
  BY AtBehind DEF Text

LEMMA TextAt ==
  ASSUME NEW q \in Text, NEW x \in Text, NEW i \in Nat, i >= 1, i <= Len(x) + 1
  PROVE At(q, x, i) <=> /\ i + Len(q) - 1 <= Len(x)
                        /\ \A k \in 1..Len(q) : x[i + k - 1] = q[k]
  BY AtPointwise DEF Text

(* Induction over texts: all shorter ones first.                           *)
LEMMA ShorterTexts ==
  ASSUME NEW T, \A x \in Text : (\A y \in Text : Len(y) < Len(x) => y \in T) => x \in T
  PROVE Text \subseteq T
  BY ShorterSequencesFirst DEF Text

(* Restore's value, as an operator: what the provers take apart more       *)
(* readily.                                                                *)
Restored(x) == Restore[x]

LEMMA RestoredType == \A x \in Text : Restored(x) \in Text
  BY RestoreType DEF Restored

LEMMA RestoredEmpty == Restored(<<>>) = <<>>
  BY RestoreEmpty DEF Restored

LEMMA RestoredToken ==
  ASSUME NEW y \in Text
  PROVE Token \o y \in Text /\ Restored(Token \o y) = Real \o Restored(y)
  BY RestoreToken DEF Restored

LEMMA RestoredCharacter ==
  ASSUME NEW c \in Characters, NEW y \in Text, ~IsPrefix(Token, <<c>> \o y)
  PROVE Restored(<<c>> \o y) = <<c>> \o Restored(y)
  BY RestoreCharacter DEF Restored

(* What no token stands in is let through unchanged.                       *)
LEMMA Passing ==
  ASSUME NEW e \in Text, NEW y \in Text, \A i \in 1..Len(e) : ~At(Token, e \o y, i)
  PROVE Restored(e \o y) = e \o Restored(y)
<1> DEFINE P(x) == \A z \in Text : (\A i \in 1..Len(x) : ~At(Token, x \o z, i)) => Restored(x \o z) = x \o Restored(z)
           T == {x \in Text : P(x)}
<1>1. ASSUME NEW x \in Text, \A w \in Text : Len(w) < Len(x) => w \in T PROVE x \in T
  <2>1. CASE x = <<>>
    <3>1. \A z \in Text : <<>> \o z = z /\ <<>> \o Restored(z) = Restored(z)
      BY RestoredType, TextFacts
    <3> QED BY <2>1, <3>1
  <2>2. CASE x # <<>>
    <3>1. PICK c \in Characters, w \in Text : x = <<c>> \o w /\ Len(w) < Len(x) /\ Len(x) = Len(w) + 1
      BY <2>2, FirstOf
    <3>2. ASSUME NEW z \in Text, \A i \in 1..Len(x) : ~At(Token, x \o z, i)
          PROVE Restored(x \o z) = x \o Restored(z)
      <4>1. w \o z \in Text /\ <<c>> \in Text /\ Restored(z) \in Text /\ Len(<<c>>) = 1
            /\ Len(w) \in Nat /\ Len(z) \in Nat /\ Len(w \o z) = Len(w) + Len(z) /\ Token \in Text
        BY RestoredType, TokenFacts, TextFacts
      <4>2. x \o z = <<c>> \o (w \o z) /\ x \o Restored(z) = <<c>> \o (w \o Restored(z))
        <5>1. (<<c>> \o w) \o z = <<c>> \o (w \o z)
          BY <4>1, AssocOf
        <5>2. (<<c>> \o w) \o Restored(z) = <<c>> \o (w \o Restored(z))
          BY SMTT(30), <4>1, AssocOf
        <5> QED BY <3>1, <5>1, <5>2
      <4>3. ~At(Token, x \o z, 1)
        BY <3>1, <3>2, <4>1
      <4>4. ~IsPrefix(Token, <<c>> \o (w \o z))
        <5>1. <<c>> \o (w \o z) \in Text
          BY <4>1, TextFacts
        <5> QED BY <4>1, <4>2, <4>3, <5>1, TextAtFirst
      <4>5. Restored(x \o z) = <<c>> \o Restored(w \o z)
        BY <4>1, <4>2, <4>4, RestoredCharacter
      <4>6. ASSUME NEW i \in 1..Len(w) PROVE ~At(Token, w \o z, i)
        <5>1. 1 + i \in 1..Len(x) /\ i \in Nat /\ i >= 1 /\ i <= Len(w \o z) + 1
          BY <3>1, <4>1
        <5>2. ~At(Token, <<c>> \o (w \o z), 1 + i)
          BY <3>2, <4>2, <5>1
        <5> QED BY <4>1, <5>1, <5>2, TextAtBehind
      <4>7. Restored(w \o z) = w \o Restored(z)
        BY <1>1, <3>1, <4>6
      <4> QED BY <4>2, <4>5, <4>7
    <3> QED BY <3>2
  <2> QED BY <2>1, <2>2
<1> HIDE DEF T
<1>2. Text \subseteq T
  BY <1>1, ShorterTexts
<1> QED BY <1>2 DEF T

(* A text, by the way it begins.                                           *)
LEMMA Beginnings ==
  ASSUME NEW x \in Text, x # <<>>
  PROVE \/ \E y \in Text : x = Token \o y /\ Len(y) < Len(x)
        \/ \E c \in Characters, y \in Text : x = <<c>> \o y /\ Len(y) < Len(x) /\ ~IsPrefix(Token, x)
<1>1. CASE IsPrefix(Token, x)
  BY <1>1, BehindToken
<1>2. CASE ~IsPrefix(Token, x)
  BY <1>2, FirstOf
<1> QED BY <1>1, <1>2

(* The rest of a text, character by character.                             *)
LEMMA SinceIs ==
  ASSUME NEW x \in Text, NEW i \in 1..Len(x)
  PROVE /\ Since(x, i) \in Text /\ Len(Since(x, i)) = Len(x) - i + 1
        /\ \A k \in 1..Len(Since(x, i)) : Since(x, i)[k] = x[i + k - 1]
BY DEF Since, Text

LEMMA SinceBehind ==
  ASSUME NEW d \in Characters, NEW p \in Text, NEW i \in 1..Len(p)
  PROVE i + 1 \in 1..Len(<<d>> \o p) /\ Since(<<d>> \o p, i + 1) = Since(p, i)
<1> DEFINE x == <<d>> \o p
           l == Since(x, i + 1)
           r == Since(p, i)
<1>1. Len(p) \in Nat /\ <<d>> \in Text /\ Len(<<d>>) = 1 /\ x \in Text /\ Len(x) = 1 + Len(p)
  BY TextFacts
<1>2. \A k \in 1..Len(p) : x[1 + k] = p[k]
  BY <1>1, ConcatAt
<1> HIDE DEF x
<1>3. i + 1 \in 1..Len(x)
  BY <1>1
<1>4. l \in Text /\ Len(l) = Len(x) - (i + 1) + 1 /\ \A k \in 1..Len(l) : l[k] = x[(i + 1) + k - 1]
  BY <1>1, <1>3, SinceIs
<1>5. r \in Text /\ Len(r) = Len(p) - i + 1 /\ \A k \in 1..Len(r) : r[k] = p[i + k - 1]
  BY SinceIs
<1> HIDE DEF l, r
<1>6. Len(l) = Len(r)
  BY <1>1, <1>4, <1>5
<1>7. ASSUME NEW k \in 1..Len(r) PROVE l[k] = r[k]
  <2>1. i + k - 1 \in 1..Len(p) /\ (i + 1) + k - 1 = 1 + (i + k - 1)
    BY <1>1, <1>5
  <2> QED BY <1>2, <1>4, <1>5, <1>6, <2>1
<1>8. l = r
  BY <1>4, <1>5, <1>6, <1>7, SeqEqual DEF Text
<1> QED BY <1>3, <1>8 DEF x, l, r

(* Two beginnings of one text.                                             *)
LEMMA BothBegin ==
  ASSUME NEW p \in Text, NEW q \in Text, NEW x \in Text, IsPrefix(p, x), IsPrefix(q, x)
  PROVE Alike(p, q)
<1>1. Len(p) \in Nat /\ Len(q) \in Nat
  BY TextFacts
<1>2. (\A k \in 1..Len(p) : x[k] = p[k]) /\ (\A k \in 1..Len(q) : x[k] = q[k])
  BY TextPrefix
<1>3. CASE Len(p) <= Len(q)
  <2>1. \A k \in 1..Len(p) : q[k] = p[k]
    BY <1>1, <1>2, <1>3
  <2> QED BY <1>3, <2>1, TextPrefix DEF Alike
<1>4. CASE Len(q) <= Len(p)
  <2>1. \A k \in 1..Len(q) : p[k] = q[k]
    BY <1>1, <1>2, <1>4
  <2> QED BY <1>4, <2>1, TextPrefix DEF Alike
<1> QED BY <1>1, <1>3, <1>4

(* No part of it goes on in the value: it was there before it was put back. *)
Foreign(p) == \A i \in 1..Len(p) : ~Alike(Since(p, i), Real)

(* ... nor does a part of what stands behind its first.                    *)
LEMMA ForeignBehind ==
  ASSUME NEW d \in Characters, NEW p \in Text, Foreign(<<d>> \o p)
  PROVE Foreign(p)
BY SinceBehind DEF Foreign

(* Restoring puts in no beginning of a token: what a foreign text begins   *)
(* after restoring, it began before.                                       *)
LEMMA NotPutBack ==
  ASSUME NEW q \in Text, NEW x \in Text, NEW y \in Text,
         Foreign(q),
         IsPrefix(q, Restored(x) \o y)
  PROVE IsPrefix(q, x \o y)
<1> DEFINE P(z) == \A p \in Text : Foreign(p) /\ IsPrefix(p, Restored(z) \o y) => IsPrefix(p, z \o y)
           T == {z \in Text : P(z)}
<1>0. \A z \in Text : IsPrefix(<<>>, z)
  BY TextFacts, TextPrefix
<1>1. ASSUME NEW z \in Text, \A w \in Text : Len(w) < Len(z) => w \in T PROVE z \in T
  <2> SUFFICES ASSUME NEW p \in Text, Foreign(p), IsPrefix(p, Restored(z) \o y) PROVE IsPrefix(p, z \o y)
    OBVIOUS
  <2>0. \A a, b \in Text : a \o b \in Text
    BY TextFacts
  <2>1. CASE z = <<>>
    BY <2>1, RestoredEmpty
  <2>2. CASE p = <<>>
    BY <1>0, <2>0, <2>2
  <2>3. CASE p # <<>> /\ \E w \in Text : z = Token \o w
    <3>1. PICK w \in Text : z = Token \o w
      BY <2>3
    <3>2. Restored(w) \in Text /\ Restored(w) \o y \in Text /\ Real \in Text /\ Len(Real) \in Nat /\ Len(Real) >= 1
      BY <2>0, RestoredType, TokenFacts
    <3>3. Restored(z) \o y = Real \o (Restored(w) \o y)
      <4>1. Restored(z) = Real \o Restored(w)
        BY <3>1, RestoredToken
      <4>2. (Real \o Restored(w)) \o y = Real \o (Restored(w) \o y)
        BY SMTT(30), <3>2, AssocOf
      <4> QED BY <4>1, <4>2
    <3>4. Real \o (Restored(w) \o y) \in Text /\ IsPrefix(Real, Real \o (Restored(w) \o y))
      <4>1. \A k \in 1..Len(Real) : (Real \o (Restored(w) \o y))[k] = Real[k]
        BY <3>2, ConcatAt
      <4>2. Len(Real) <= Len(Real \o (Restored(w) \o y)) /\ Real \o (Restored(w) \o y) \in Text
        BY <3>2, TextFacts
      <4> QED BY <3>2, <4>1, <4>2, TextPrefix
    <3>5. Alike(p, Real)
      BY <3>2, <3>3, <3>4, BothBegin
    <3>6. 1 \in 1..Len(p) /\ Since(p, 1) = p
      BY <2>3, TextFacts, SinceFirst DEF Text
    <3> QED BY <3>5, <3>6 DEF Foreign
  <2>4. CASE p # <<>> /\ \E c \in Characters, w \in Text : z = <<c>> \o w /\ Len(w) < Len(z) /\ ~IsPrefix(Token, z)
    <3>1. PICK c \in Characters, w \in Text : z = <<c>> \o w /\ Len(w) < Len(z) /\ ~IsPrefix(Token, z)
      BY <2>4
    <3>2. Restored(w) \in Text /\ <<c>> \in Text /\ Restored(w) \o y \in Text /\ w \o y \in Text
      BY <2>0, RestoredType, TextFacts
    <3>3. Restored(z) \o y = <<c>> \o (Restored(w) \o y) /\ z \o y = <<c>> \o (w \o y)
      <4>1. Restored(z) = <<c>> \o Restored(w)
        BY <3>1, RestoredCharacter
      <4>2. (<<c>> \o Restored(w)) \o y = <<c>> \o (Restored(w) \o y)
        BY <3>2, AssocOf
      <4>3. (<<c>> \o w) \o y = <<c>> \o (w \o y)
        BY <3>2, AssocOf
      <4> QED BY <3>1, <4>1, <4>2, <4>3
    <3>4. PICK d \in Characters, p2 \in Text : p = <<d>> \o p2
      BY ZenonT(60), <2>4, FirstOf
    <3>5. d = c /\ IsPrefix(p2, Restored(w) \o y)
      BY <3>2, <3>3, <3>4, TextPrefixCons
    <3>6. Foreign(p2)
      BY <3>4, ForeignBehind
    <3>7. IsPrefix(p2, w \o y)
      BY <1>1, <3>1, <3>5, <3>6
    <3> QED BY <3>2, <3>3, <3>4, <3>5, <3>7, TextPrefixCons
  <2>5. z # <<>> => \/ \E w \in Text : z = Token \o w
                    \/ \E c \in Characters, w \in Text : z = <<c>> \o w /\ Len(w) < Len(z) /\ ~IsPrefix(Token, z)
    BY Beginnings
  <2> QED BY <2>1, <2>2, <2>3, <2>4, <2>5
<1> HIDE DEF T
<1>2. Text \subseteq T
  BY <1>1, ShorterTexts
<1>3. P(x)
  BY <1>2 DEF T
<1> QED BY <1>3

(* Nothing behind the token's first character goes on in the value.        *)
LEMMA TokenForeign ==
  ASSUME StandsApart
  PROVE \E d \in Characters, q \in Text : Token = <<d>> \o q /\ Foreign(q)
<1>1. PICK d \in Characters, q \in Text : Token = <<d>> \o q
  BY TokenFacts, FirstOf
<1>2. ASSUME NEW i \in 1..Len(q) PROVE ~Alike(Since(q, i), Real)
  <2>1. i + 1 \in 1..Len(Token) /\ Since(Token, i + 1) = Since(q, i)
    BY <1>1, SinceBehind
  <2>2. i + 1 \in 2..Len(Token)
    BY <2>1
  <2> QED BY <2>1, <2>2 DEF StandsApart
<1> QED BY <1>1, <1>2 DEF Foreign

(* No token begins within the value.                                       *)
LEMMA NoneInReal ==
  ASSUME StandsApart, NEW y \in Text
  PROVE \A i \in 1..Len(Real) : ~At(Token, Real \o y, i)
<1> SUFFICES ASSUME NEW i \in 1..Len(Real), At(Token, Real \o y, i) PROVE FALSE
  OBVIOUS
<1> DEFINE x == Real \o y
           r == Since(Real, i)
<1>1. /\ Real \in Text /\ Token \in Text /\ x \in Text /\ Len(Real) \in Nat /\ Len(y) \in Nat
      /\ Len(x) = Len(Real) + Len(y)
  BY TokenFacts, TextFacts
<1>2. \A k \in 1..Len(Real) : x[k] = Real[k]
  BY <1>1, ConcatAt
<1>3. r \in Text /\ Len(r) = Len(Real) - i + 1 /\ \A k \in 1..Len(r) : r[k] = Real[i + k - 1]
  BY <1>1, SinceIs
<1> HIDE DEF x, r
<1>4. i \in 1..Len(x) /\ i \in Nat /\ i >= 1 /\ i <= Len(x) + 1
  BY <1>1
<1>5. At(r, x, i)
  <2>1. i + Len(r) - 1 <= Len(x)
    BY <1>1, <1>3
  <2>2. ASSUME NEW k \in 1..Len(r) PROVE x[i + k - 1] = r[k]
    <3>1. i + k - 1 \in 1..Len(Real)
      BY <1>1, <1>3
    <3> QED BY <1>2, <1>3, <3>1
  <2> QED BY <1>1, <1>3, <1>4, <2>1, <2>2, TextAt
<1>6. Since(x, i) \in Text
  BY <1>1, <1>4, SinceIs
<1>7. IsPrefix(Token, Since(x, i)) /\ IsPrefix(r, Since(x, i))
  BY <1>5 DEF At, x
<1>8. Alike(Token, r)
  BY <1>1, <1>3, <1>6, <1>7, BothBegin
<1> QED BY <1>8 DEF StandsApart, r

(* So a real value in front is let through unchanged.                      *)
LEMMA RealPasses ==
  ASSUME StandsApart, NEW y \in Text
  PROVE Restored(Real \o y) = Real \o Restored(y)
<1>1. Real \in Text
  BY TokenFacts
<1> QED BY <1>1, NoneInReal, Passing

(* Where no token begins, none begins once what is behind has been         *)
(* restored.                                                               *)
LEMMA StillNoToken ==
  ASSUME StandsApart, NEW c \in Characters, NEW w \in Text, NEW y \in Text,
         ~IsPrefix(Token, <<c>> \o (w \o y))
  PROVE ~IsPrefix(Token, <<c>> \o (Restored(w) \o y))
<1> SUFFICES ASSUME IsPrefix(Token, <<c>> \o (Restored(w) \o y)) PROVE FALSE
  OBVIOUS
<1>1. PICK d \in Characters, q \in Text : Token = <<d>> \o q /\ Foreign(q)
  BY TokenForeign
<1>2. Restored(w) \in Text
  BY RestoredType
<1>3. Restored(w) \o y \in Text /\ w \o y \in Text
  BY <1>2, TextFacts
<1>4. d = c /\ IsPrefix(q, Restored(w) \o y)
  BY <1>1, <1>3, TextPrefixCons
<1>5. IsPrefix(q, w \o y)
  BY <1>1, <1>4, NotPutBack
<1> QED BY <1>1, <1>3, <1>4, <1>5, TextPrefixCons

(* A text shorter than the token has none to restore.                      *)
LEMMA TooShort ==
  ASSUME NEW x \in Text, Len(x) < Len(Token)
  PROVE Restored(x) = x
<1>1. Token \in Text /\ Len(Token) \in Nat /\ Len(x) \in Nat /\ x \o <<>> = x /\ <<>> \in Text
  BY TokenFacts, TextFacts
<1>2. ASSUME NEW i \in 1..Len(x) PROVE ~At(Token, x \o <<>>, i)
  <2>1. i \in Nat /\ i >= 1 /\ i <= Len(x) + 1 /\ ~(i + Len(Token) - 1 <= Len(x))
    BY <1>1
  <2>2. ~At(Token, x, i)
    BY <1>1, <2>1, TextAt
  <2> QED BY <1>1, <2>2
<1>3. Restored(x \o <<>>) = x \o Restored(<<>>)
  BY <1>1, <1>2, Passing
<1> QED BY <1>1, <1>3, RestoredEmpty

(* Restoring what is restored already changes nothing: a text may be       *)
(* restored in two goes, the second over the result of the first and what  *)
(* came since. That is what lets the mask work on a stream.                *)
LEMMA RestoredTwice ==
  ASSUME StandsApart, NEW x \in Text, NEW y \in Text
  PROVE Restored(Restored(x) \o y) = Restored(x \o y)
<1> DEFINE P(w) == Restored(Restored(w) \o y) = Restored(w \o y)
           T == {w \in Text : P(w)}
<1>1. ASSUME NEW z \in Text, \A w \in Text : Len(w) < Len(z) => w \in T PROVE z \in T
  <2>1. CASE z = <<>>
    BY <2>1, RestoredEmpty
  <2>2. ASSUME NEW w \in Text, z = Token \o w, Len(w) < Len(z) PROVE P(z)
    <3>1. Restored(w) \in Text /\ Token \in Text /\ Real \in Text
      BY RestoredType, TokenFacts
    <3>2. w \o y \in Text /\ Restored(w) \o y \in Text
      BY <3>1, TextFacts
    <3>3. Restored(z) = Real \o Restored(w)
      BY <2>2, RestoredToken
    <3>4. Restored(z) \o y = Real \o (Restored(w) \o y)
      BY <3>1, <3>3, AssocOf
    <3>5. z \o y = Token \o (w \o y)
      BY <3>1, <2>2, AssocOf
    <3>6. Restored(z \o y) = Real \o Restored(w \o y)
      BY <3>2, <3>5, RestoredToken
    <3>7. Restored(Restored(z) \o y) = Real \o Restored(Restored(w) \o y)
      BY <3>2, <3>4, RealPasses
    <3>8. P(w)
      BY <1>1, <2>2
    <3> QED BY <3>6, <3>7, <3>8
  <2>3. ASSUME NEW c \in Characters, NEW w \in Text, z = <<c>> \o w, Len(w) < Len(z), ~IsPrefix(Token, z)
        PROVE P(z)
    <3>1. Restored(w) \in Text /\ Token \in Text /\ <<c>> \in Text
      BY RestoredType, TokenFacts, TextFacts
    <3>2. w \o y \in Text /\ Restored(w) \o y \in Text /\ z \o y \in Text
      BY <3>1, TextFacts
    <3>3. Restored(z) = <<c>> \o Restored(w)
      BY <2>3, RestoredCharacter
    <3>4. Restored(z) \o y = <<c>> \o (Restored(w) \o y)
      BY <3>1, <3>3, AssocOf
    <3>5. z \o y = <<c>> \o (w \o y)
      BY <3>1, <2>3, AssocOf
    <3>6. CASE IsPrefix(Token, z \o y)
      <4>1. Len(z) < Len(Token)
        <5> SUFFICES ASSUME Len(Token) <= Len(z) PROVE FALSE
          BY <3>1, TextFacts
        <5>1. \A k \in 1..Len(Token) : (z \o y)[k] = Token[k]
          BY <3>1, <3>2, <3>6, TextPrefix
        <5>2. \A k \in 1..Len(Token) : k \in 1..Len(z)
          BY <3>1, TextFacts
        <5>3. \A k \in 1..Len(Token) : z[k] = Token[k]
          BY <5>1, <5>2, ConcatAt
        <5> QED BY <2>3, <3>1, <5>3, TextPrefix
      <4>2. Restored(z) = z
        BY <4>1, TooShort
      <4> QED BY <4>2
    <3>7. CASE ~IsPrefix(Token, z \o y)
      <4>1. ~IsPrefix(Token, <<c>> \o (w \o y))
        BY <3>5, <3>7
      <4>2. ~IsPrefix(Token, <<c>> \o (Restored(w) \o y))
        BY <4>1, StillNoToken
      <4>3. Restored(z \o y) = <<c>> \o Restored(w \o y)
        BY <3>2, <3>5, <4>1, RestoredCharacter
      <4>4. Restored(Restored(z) \o y) = <<c>> \o Restored(Restored(w) \o y)
        BY <3>2, <3>4, <4>2, RestoredCharacter
      <4>5. P(w)
        BY <1>1, <2>3
      <4> QED BY <4>3, <4>4, <4>5
    <3> QED BY <3>6, <3>7
  <2> HIDE DEF P
  <2>4. P(z)
    BY <2>1, <2>2, <2>3, Beginnings DEF P
  <2> QED BY <2>4
<1> HIDE DEF T, P
<1>2. Text \subseteq T
  BY <1>1, ShorterTexts
<1> QED BY <1>2 DEF T, P

(* No token stands in x.                                                   *)
TokenFree(x) == \A i \in 1..Len(x) : ~At(Token, x, i)

(* A restored text has no token left.                                      *)
LEMMA RestoredFree ==
  ASSUME StandsApart, NEW x \in Text
  PROVE TokenFree(Restored(x))
<1> DEFINE T == {w \in Text : TokenFree(Restored(w))}
<1>1. ASSUME NEW z \in Text, \A w \in Text : Len(w) < Len(z) => w \in T PROVE TokenFree(Restored(z))
  <2>1. CASE z = <<>>
    <3>1. Restored(z) = <<>> /\ Len(<<>>) = 0
      BY <2>1, RestoredEmpty, TextFacts
    <3> QED BY <3>1 DEF TokenFree
  <2>2. ASSUME NEW w \in Text, z = Token \o w, Len(w) < Len(z) PROVE TokenFree(Restored(z))
    <3>1. Restored(w) \in Text /\ Token \in Text /\ Real \in Text /\ Len(Restored(w)) \in Nat /\ Len(Real) \in Nat
          /\ Len(Real \o Restored(w)) = Len(Real) + Len(Restored(w))
      BY RestoredType, TokenFacts, TextFacts
    <3>2. Restored(z) = Real \o Restored(w)
      BY <2>2, RestoredToken
    <3>3. ASSUME NEW i \in 1..Len(Real \o Restored(w)) PROVE ~At(Token, Real \o Restored(w), i)
      <4>1. CASE i <= Len(Real)
        BY <3>1, <4>1, NoneInReal
      <4>2. CASE ~(i <= Len(Real))
        <5> DEFINE j == i - Len(Real)
        <5>1. j \in 1..Len(Restored(w)) /\ j \in Nat /\ j >= 1 /\ j <= Len(Restored(w)) + 1 /\ i = Len(Real) + j
          BY <3>1, <4>2
        <5> HIDE DEF j
        <5>2. ~At(Token, Restored(w), j)
          BY <1>1, <2>2, <5>1 DEF TokenFree
        <5> QED BY <3>1, <5>1, <5>2, TextAtBehind
      <4> QED BY <4>1, <4>2
    <3> QED BY <3>2, <3>3 DEF TokenFree
  <2>3. ASSUME NEW c \in Characters, NEW w \in Text, z = <<c>> \o w, Len(w) < Len(z), ~IsPrefix(Token, z)
        PROVE TokenFree(Restored(z))
    <3>1. Restored(w) \in Text /\ Token \in Text /\ <<c>> \in Text /\ Len(Restored(w)) \in Nat /\ Len(<<c>>) = 1
          /\ <<>> \in Text /\ w \o <<>> = w /\ Restored(w) \o <<>> = Restored(w)
          /\ <<c>> \o Restored(w) \in Text /\ Len(<<c>> \o Restored(w)) = 1 + Len(Restored(w))
      <4>1. Restored(w) \in Text /\ Token \in Text /\ <<c>> \in Text /\ Len(<<c>>) = 1 /\ <<>> \in Text
        BY RestoredType, TokenFacts, TextFacts
      <4> QED BY <4>1, TextFacts
    <3>2. Restored(z) = <<c>> \o Restored(w)
      BY <2>3, RestoredCharacter
    <3>3. ASSUME NEW i \in 1..Len(<<c>> \o Restored(w)) PROVE ~At(Token, <<c>> \o Restored(w), i)
      <4>1. CASE i = 1
        <5>1. ~IsPrefix(Token, <<c>> \o (w \o <<>>))
          BY <2>3, <3>1
        <5>2. ~IsPrefix(Token, <<c>> \o (Restored(w) \o <<>>))
          BY <3>1, <5>1, StillNoToken
        <5>3. ~IsPrefix(Token, <<c>> \o Restored(w))
          BY <3>1, <5>2
        <5> QED BY <3>1, <4>1, <5>3, TextAtFirst
      <4>2. CASE i # 1
        <5> DEFINE j == i - 1
        <5>1. j \in 1..Len(Restored(w)) /\ j \in Nat /\ j >= 1 /\ j <= Len(Restored(w)) + 1 /\ i = 1 + j
          BY <3>1, <4>2
        <5> HIDE DEF j
        <5>2. ~At(Token, Restored(w), j)
          BY <1>1, <2>3, <5>1 DEF TokenFree
        <5>3. At(Token, <<c>> \o Restored(w), Len(<<c>>) + j) <=> At(Token, Restored(w), j)
          BY <3>1, <5>1, TextAtBehind
        <5> QED BY <3>1, <5>1, <5>2, <5>3
      <4> QED BY <4>1, <4>2
    <3> QED BY <3>2, <3>3 DEF TokenFree
  <2> QED BY <2>1, <2>2, <2>3, Beginnings
<1>2. \A z \in Text : (\A w \in Text : Len(w) < Len(z) => w \in T) => z \in T
  BY <1>1
<1> HIDE DEF T
<1>3. Text \subseteq T
  BY <1>2, ShorterTexts
<1> QED BY <1>3 DEF T

(* What has none is unchanged.                                             *)
LEMMA FreePasses ==
  ASSUME NEW x \in Text, TokenFree(x)
  PROVE Restored(x) = x
<1>1. <<>> \in Text /\ x \o <<>> = x
  BY TextFacts
<1>2. Restored(x \o <<>>) = x \o Restored(<<>>)
  BY <1>1, Passing DEF TokenFree
<1> QED BY <1>1, <1>2, RestoredEmpty

(* The end of a text without a token has none.                             *)
LEMMA FreeBehind ==
  ASSUME NEW a \in Text, NEW b \in Text, TokenFree(a \o b)
  PROVE TokenFree(b)
<1>1. Len(a) \in Nat /\ Len(b) \in Nat /\ Len(a \o b) = Len(a) + Len(b) /\ Token \in Text
  BY TextFacts, TokenFacts
<1>2. ASSUME NEW i \in 1..Len(b) PROVE ~At(Token, b, i)
  <2>1. Len(a) + i \in 1..Len(a \o b) /\ i \in Nat /\ i >= 1 /\ i <= Len(b) + 1
    BY <1>1
  <2>2. ~At(Token, a \o b, Len(a) + i)
    BY <2>1 DEF TokenFree
  <2> QED BY <1>1, <2>1, <2>2, TextAtBehind
<1> QED BY <1>2 DEF TokenFree

(* What cannot be part of a token with what is still to come may go.       *)
LEMMA Cut ==
  ASSUME NEW e \in Text, NEW h \in Text, NEW y \in Text, TokenFree(e \o h),
         e = <<>> \/ Len(Token) <= Len(h) + 1
  PROVE Restored((e \o h) \o y) = e \o Restored(h \o y)
<1>1. Len(e) \in Nat /\ Len(h) \in Nat /\ Len(y) \in Nat /\ Token \in Text /\ Len(Token) \in Nat
      /\ e \o h \in Text /\ h \o y \in Text
  BY TextFacts, TokenFacts
<1>2. Len(e \o h) = Len(e) + Len(h) /\ Len((e \o h) \o y) = Len(e) + Len(h) + Len(y) /\ (e \o h) \o y \in Text
  BY <1>1, TextFacts
<1>3. (e \o h) \o y = e \o (h \o y)
  BY SMTT(30), AssocOf
<1>4. ASSUME NEW i \in 1..Len(e) PROVE ~At(Token, e \o (h \o y), i)
  <2> SUFFICES ASSUME At(Token, (e \o h) \o y, i) PROVE FALSE
    BY <1>3
  <2>0. Len(e) # 0
    OBVIOUS
  <2>1. e # <<>>
    BY <2>0, TextFacts
  <2>2. i \in Nat /\ i >= 1 /\ i <= Len(e \o h) + 1 /\ i <= Len((e \o h) \o y) + 1 /\ i \in 1..Len(e \o h)
    BY <1>1, <1>2
  <2>3. \A k \in 1..Len(Token) : ((e \o h) \o y)[i + k - 1] = Token[k]
    BY ZenonT(60), <1>1, <1>2, <2>2, TextAt
  <2>4. i + Len(Token) - 1 <= Len(e \o h)
    BY <1>1, <1>2, <2>1
  <2>5. \A k \in 1..Len(Token) : i + k - 1 \in 1..Len(e \o h)
    BY <1>1, <2>2, <2>4
  <2>6. \A k \in 1..Len(e \o h) : ((e \o h) \o y)[k] = (e \o h)[k]
    BY <1>1, ConcatAt
  <2>7. \A k \in 1..Len(Token) : (e \o h)[i + k - 1] = Token[k]
    BY <2>3, <2>5, <2>6
  <2>8. At(Token, e \o h, i)
    BY <1>1, <2>2, <2>4, <2>7, TextAt
  <2> QED BY <2>2, <2>8 DEF TokenFree
<1>5. Restored(e \o (h \o y)) = e \o Restored(h \o y)
  BY <1>1, <1>4, Passing
<1> QED BY <1>3, <1>5

(* A text cut after n characters.                                          *)
LEMMA Split ==
  ASSUME NEW x \in Text, NEW n \in Nat, n <= Len(x)
  PROVE /\ SubSeq(x, 1, n) \in Text /\ Since(x, n + 1) \in Text
        /\ Len(SubSeq(x, 1, n)) = n /\ Len(Since(x, n + 1)) = Len(x) - n
        /\ x = SubSeq(x, 1, n) \o Since(x, n + 1)
<1>1. Len(x) \in Nat /\ x \in Seq(Characters)
  BY DEF Text
<1>2. /\ SubSeq(x, 1, n) \in Text /\ Since(x, n + 1) \in Text
      /\ Len(SubSeq(x, 1, n)) = n /\ Len(Since(x, n + 1)) = Len(x) - n
  BY <1>1 DEF Text, Since
<1> DEFINE l == Len(x)
<1>3. 1 \in 1..(Len(x) + 1) /\ n \in (1 - 1)..Len(x) /\ l \in n..Len(x)
  BY <1>1
<1>4. SubSeq(x, 1, l) = x
  BY <1>1, SubSeqFull
<1> HIDE DEF l
<1>5. SubSeq(x, 1, n) \o SubSeq(x, n + 1, l) = SubSeq(x, 1, l)
  BY <1>1, <1>3, ConcatAdjacentSubSeq
<1> QED BY <1>2, <1>4, <1>5 DEF l, Since

(* A push of the mask: nothing is lost, whatever is still to come.         *)
LetsGo(held, text) ==
    \E out \in Text :
            /\ Push(held, text).chunks = TextChunk(out)
            /\ Push(held, text).held \in Text /\ TokenFree(Push(held, text).held)
            /\ Len(Push(held, text).held) <= MaxTokenLength - 1
            /\ \A rest \in Text :
                  Restored((held \o text) \o rest) = out \o Restored(Push(held, text).held \o rest)

(* Push is right (withMask.ts:108): it lets go of nothing a later chunk    *)
(* could complete to a token.                                              *)
LEMMA Pushed ==
  ASSUME StandsApart, NEW held \in Text, NEW text \in Text
  PROVE LetsGo(held, text)
<1> DEFINE x == held \o text
           r == Restored(x)
           keep == MaxTokenLength - 1
           cut == IF Len(r) > keep THEN Len(r) - keep ELSE 0
           out == SubSeq(r, 1, cut)
           h == Since(r, cut + 1)
<1>1. x \in Text /\ r \in Text
  BY RestoredType, TextFacts
<1>2. Push(held, text) = [held |-> h, chunks |-> TextChunk(out)]
  BY DEF Push, PushKeeping, Restored
<1>3. TokenFree(r)
  BY <1>1, RestoredFree
<1>4. Len(r) \in Nat /\ Len(Token) \in Nat /\ MaxTokenLength \in Nat /\ Len(Token) <= MaxTokenLength
      /\ Len(Token) >= 1
  BY <1>1, TextFacts, TokenFacts
<1>5. \A rest \in Text : Restored(x \o rest) = Restored(r \o rest)
  BY <1>1, RestoredTwice
<1> HIDE DEF x, r
<1>6. cut \in Nat /\ cut <= Len(r) /\ Len(r) - cut <= keep /\ (cut = 0 \/ Len(r) - cut = keep)
  BY <1>4
<1> HIDE DEF cut
<1>7. out \in Text /\ h \in Text /\ Len(out) = cut /\ Len(h) = Len(r) - cut /\ r = out \o h
  BY <1>1, <1>6, Split
<1> HIDE DEF out, h
<1>8. TokenFree(h)
  BY <1>3, <1>7, FreeBehind
<1>9. out = <<>> \/ Len(Token) <= Len(h) + 1
  BY <1>4, <1>6, <1>7, TextFacts
<1>10. \A rest \in Text : Restored(r \o rest) = out \o Restored(h \o rest)
  BY SMTT(30), <1>3, <1>7, <1>9, Cut
<1>11. Len(h) <= MaxTokenLength - 1
  BY <1>6, <1>7
<1>12. Push(held, text).held = h /\ Push(held, text).chunks = TextChunk(out)
  BY <1>2
<1>13. \A rest \in Text : Restored(x \o rest) = out \o Restored(h \o rest)
  BY <1>5, <1>10
<1> QED BY <1>7, <1>8, <1>11, <1>12, <1>13 DEF x, LetsGo

-----------------------------------------------------------------------------
(* The thinking tags (thinkingTagParser.ts): Read is what a whole text     *)
(* means, its characters marked as text or thinking; Drain is what the     *)
(* parser does with a buffer. Read looks at each character, Drain searches *)
(* for the tag: both are shown to say the same.                            *)

(* A character as it is shown.                                             *)
Marked == {"text", "thinking"} \X Characters
Segments == Seq(Marked)

(* Either tag is a text, not empty, and no longer than the closing one.    *)
LEMMA TagFacts ==
  \A inside \in BOOLEAN :
    /\ TagSought(inside) \in Text /\ Len(TagSought(inside)) \in Nat
    /\ Len(TagSought(inside)) >= 1 /\ Len(TagSought(inside)) <= Len(CloseTag) /\ Len(CloseTag) \in Nat
<1>1. OpenTag \in Text /\ CloseTag \in Text /\ OpenTag # <<>> /\ Len(OpenTag) <= Len(CloseTag)
  BY TagsAssumption
<1>2. Len(OpenTag) \in Nat /\ Len(CloseTag) \in Nat /\ Len(OpenTag) # 0
  BY <1>1, TextFacts
<1> QED BY <1>1, <1>2 DEF TagSought

(* A segment has the length of its text, and segments of texts put         *)
(* together are put together.                                              *)
LEMMA SegmentType ==
  ASSUME NEW inside \in BOOLEAN, NEW x \in Text
  PROVE Segment(inside, x) \in Segments /\ Len(Segment(inside, x)) = Len(x)
<1>1. Len(x) \in Nat /\ DOMAIN x = 1..Len(x) /\ \A i \in 1..Len(x) : x[i] \in Characters
  BY DEF Text
<1>2. \A i \in 1..Len(x) : <<IF inside THEN "thinking" ELSE "text", x[i]>> \in Marked
  BY <1>1 DEF Marked
<1> HIDE DEF Marked
<1> QED BY <1>1, <1>2 DEF Segment, Segments

LEMMA SegmentEmpty == \A inside \in BOOLEAN : Segment(inside, <<>>) = <<>>
<1>1. \A inside \in BOOLEAN : Segment(inside, <<>>) \in Segments /\ Len(Segment(inside, <<>>)) = 0
  BY SegmentType, TextFacts
<1> QED BY <1>1 DEF Segments

LEMMA SegmentConcat ==
  ASSUME NEW inside \in BOOLEAN, NEW a \in Text, NEW b \in Text
  PROVE Segment(inside, a \o b) = Segment(inside, a) \o Segment(inside, b)
<1> DEFINE m == Len(a)
           n == Len(b)
           mark(c) == <<IF inside THEN "thinking" ELSE "text", c>>
           l == Segment(inside, a \o b)
           r == Segment(inside, a) \o Segment(inside, b)
<1>1. m \in Nat /\ n \in Nat /\ a \o b \in Text /\ Len(a \o b) = m + n
      /\ DOMAIN a = 1..m /\ DOMAIN b = 1..n /\ DOMAIN (a \o b) = 1..(m + n)
  BY DEF Text
<1>2. Segment(inside, a) \in Segments /\ Segment(inside, b) \in Segments
      /\ Len(Segment(inside, a)) = m /\ Len(Segment(inside, b)) = n
      /\ l \in Segments /\ Len(l) = m + n
  BY <1>1, SegmentType
<1>3. r \in Segments /\ Len(r) = m + n
      /\ (\A i \in 1..m : r[i] = Segment(inside, a)[i])
      /\ (\A i \in 1..n : r[m + i] = Segment(inside, b)[i])
  BY SMTT(30), <1>2 DEF Segments
<1>4. /\ \A i \in 1..m : Segment(inside, a)[i] = mark(a[i])
      /\ \A i \in 1..n : Segment(inside, b)[i] = mark(b[i])
      /\ \A i \in 1..(m + n) : l[i] = mark((a \o b)[i])
  BY <1>1 DEF Segment
<1>5. /\ \A i \in 1..m : (a \o b)[i] = a[i]
      /\ \A i \in 1..n : (a \o b)[m + i] = b[i]
  BY ConcatAt
<1> HIDE DEF m, n, l, r, mark
<1>6. ASSUME NEW i \in 1..(m + n) PROVE l[i] = r[i]
  <2>1. CASE i <= m
    <3>1. i \in 1..m
      BY <1>1, <2>1
    <3> QED BY ZenonT(60), <1>3, <1>4, <1>5, <3>1
  <2>2. CASE ~(i <= m)
    <3> DEFINE j == i - m
    <3>1. j \in 1..n /\ i = m + j
      BY <1>1, <2>2
    <3> HIDE DEF j
    <3>2. r[m + j] = mark(b[j])
      BY <1>3, <1>4, <3>1
    <3>3. l[i] = mark((a \o b)[m + j])
      BY <1>4, <3>1
    <3> QED BY <1>5, <3>1, <3>2, <3>3
  <2> QED BY <2>1, <2>2
<1>7. l = r
  BY <1>2, <1>3, <1>6, SeqEqual DEF Segments
<1> QED BY <1>7 DEF l, r

-----------------------------------------------------------------------------

(* What Read tells of a text.                                              *)
ReadResult == [segments : Segments, inside : BOOLEAN]

(* Outside after inside, inside after outside.                             *)
Other(b) == IF b THEN FALSE ELSE TRUE

(* The negation, as a value the provers take apart more readily.           *)
LEMMA OtherFacts == \A b \in BOOLEAN : (~b) = Other(b) /\ Other(b) \in BOOLEAN
BY Zenon DEF Other

(* A parser is its buffer and where it is.                                 *)
LEMMA HoldingFacts ==
  /\ \A b \in BOOLEAN, x \in Text :
        Holding(b, x) \in Parser /\ Holding(b, x).buffer = x /\ Holding(b, x).insideThinking = b
  /\ \A p \in Parser : p.buffer \in Text /\ p.insideThinking \in BOOLEAN /\ p = Holding(p.insideThinking, p.buffer)
BY DEF Holding, Parser

(* A text that begins with the tag sought is that tag and a shorter text.  *)
LEMMA BehindTag ==
  ASSUME NEW x \in Text, NEW inside \in BOOLEAN, IsPrefix(TagSought(inside), x)
  PROVE /\ Since(x, Len(TagSought(inside)) + 1) \in Text
        /\ Len(Since(x, Len(TagSought(inside)) + 1)) < Len(x)
        /\ x = TagSought(inside) \o Since(x, Len(TagSought(inside)) + 1)
  BY TagFacts, ConcatPrefix DEF Text, Since

(* A text that is not empty is its head and a shorter text.                *)
LEMMA TailOf ==
  ASSUME NEW x \in Text, x # <<>>
  PROVE /\ Head(x) \in Characters /\ <<Head(x)>> \in Text /\ Tail(x) \in Text /\ Len(Tail(x)) < Len(x)
        /\ x = <<Head(x)>> \o Tail(x)
  BY HeadAndTail DEF Text

(* Segments as sequences.                                                  *)
LEMMA SegmentsConcat ==
  /\ <<>> \in Segments
  /\ \A s, t \in Segments : s \o t \in Segments /\ Len(s \o t) = Len(s) + Len(t)
  /\ \A s \in Segments : Len(s) \in Nat /\ s \o <<>> = s /\ <<>> \o s = s
BY DEF Segments

LEMMA SegmentsAssoc ==
  ASSUME NEW a, NEW b, NEW c, a \in Segments, b \in Segments, c \in Segments
  PROVE (a \o b) \o c = a \o (b \o c)
BY DEF Segments

(* What is read of a text behind the segments s.                           *)
Prepend(s, r) == [segments |-> s \o r.segments, inside |-> r.inside]

LEMMA PrependType ==
  \A s \in Segments, r \in ReadResult : Prepend(s, r) \in ReadResult
BY SegmentsConcat DEF Prepend, ReadResult

(* What is left to read behind a tag, and behind a character.              *)
BehindTagOf(p) == Holding(~p.insideThinking, Since(p.buffer, Len(TagSought(p.insideThinking)) + 1))
BehindFirst(p) == Holding(p.insideThinking, Tail(p.buffer))

(* Read's step, of a function f in place of Read.                          *)
ReadBody(f, p) ==
    IF p.buffer = <<>> THEN [segments |-> <<>>, inside |-> p.insideThinking]
    ELSE IF IsPrefix(TagSought(p.insideThinking), p.buffer) THEN f[BehindTagOf(p)]
    ELSE Prepend(Segment(p.insideThinking, <<Head(p.buffer)>>), f[BehindFirst(p)])

ReadStep == [p \in Parser \X [Parser -> ReadResult] |-> ReadBody(p[2], p[1])]

(* Both are parsers with less in their buffer.                             *)
LEMMA Behind ==
  ASSUME NEW p \in Parser, p.buffer # <<>>
  PROVE /\ IsPrefix(TagSought(p.insideThinking), p.buffer) =>
              BehindTagOf(p) \in Parser /\ Len(BehindTagOf(p).buffer) < Len(p.buffer)
        /\ BehindFirst(p) \in Parser /\ Len(BehindFirst(p).buffer) < Len(p.buffer)
        /\ Segment(p.insideThinking, <<Head(p.buffer)>>) \in Segments
<1>1. p.buffer \in Text /\ p.insideThinking \in BOOLEAN
  BY HoldingFacts
<1>2. (~p.insideThinking) = Other(p.insideThinking) /\ Other(p.insideThinking) \in BOOLEAN
  BY <1>1, OtherFacts
<1>3. BehindTagOf(p) = Holding(Other(p.insideThinking), Since(p.buffer, Len(TagSought(p.insideThinking)) + 1))
  BY <1>2 DEF BehindTagOf
<1>4. IsPrefix(TagSought(p.insideThinking), p.buffer) =>
              BehindTagOf(p) \in Parser /\ Len(BehindTagOf(p).buffer) < Len(p.buffer)
  BY <1>1, <1>2, <1>3, BehindTag, HoldingFacts
<1>5. BehindFirst(p) \in Parser /\ Len(BehindFirst(p).buffer) < Len(p.buffer)
  BY ZenonT(60), <1>1, TailOf, HoldingFacts DEF BehindFirst
<1>6. Segment(p.insideThinking, <<Head(p.buffer)>>) \in Segments
  BY <1>1, TailOf, SegmentType
<1> QED BY <1>4, <1>5, <1>6

(* The step's value is what Read may tell.                                 *)
LEMMA ReadBodyType ==
  ASSUME NEW f \in [Parser -> ReadResult], NEW p \in Parser
  PROVE ReadBody(f, p) \in ReadResult
<1>1. CASE p.buffer = <<>>
  BY <1>1, HoldingFacts, SegmentsConcat DEF ReadBody, ReadResult
<1>2. CASE p.buffer # <<>> /\ IsPrefix(TagSought(p.insideThinking), p.buffer)
  BY <1>2, Behind DEF ReadBody
<1>3. CASE p.buffer # <<>> /\ ~IsPrefix(TagSought(p.insideThinking), p.buffer)
  BY <1>3, Behind, PrependType DEF ReadBody
<1> QED BY <1>1, <1>2, <1>3

(* Read is what its definition says: its recursion is on shorter buffers.  *)
LEMMA ReadEquation == \A p \in Parser : Read[p] = ReadBody(Read, p) /\ Read[p] \in ReadResult
<1> DEFINE size == [p \in Parser |-> Len(p.buffer)]
<1>1. \A p \in Parser, f \in [Parser -> ReadResult] : ReadStep[<<p, f>>] = ReadBody(f, p)
  BY DEF ReadStep
<1>2. ReadStep \in [Parser \X [Parser -> ReadResult] -> ReadResult]
  <2>1. \A p \in Parser \X [Parser -> ReadResult] : ReadBody(p[2], p[1]) \in ReadResult
    BY ReadBodyType
  <2> QED BY <2>1 DEF ReadStep
<1>3. size \in [Parser -> Nat] /\ \A p \in Parser : size[p] = Len(p.buffer)
  BY HoldingFacts, TextFacts
<1> HIDE DEF size
<1>4. Local(Parser, ReadResult, size, ReadStep)
  <2> SUFFICES ASSUME NEW d \in Parser, NEW f \in [Parser -> ReadResult], NEW g \in [Parser -> ReadResult],
                      \A e \in Parser : size[e] < size[d] => f[e] = g[e]
               PROVE ReadStep[<<d, f>>] = ReadStep[<<d, g>>]
    BY DEF Local
  <2>1. \A e \in Parser : Len(e.buffer) < Len(d.buffer) => f[e] = g[e]
    BY <1>3
  <2>2. ReadBody(f, d) = ReadBody(g, d)
    BY <2>1, Behind DEF ReadBody
  <2> QED BY <1>1, <2>2
<1>5. ReadResult # {}
  <2>1. [segments |-> <<>>, inside |-> TRUE] \in ReadResult
    BY SegmentsConcat DEF ReadResult
  <2> QED BY <2>1
<1>6. Solvable(Parser, ReadResult, ReadStep)
  BY <1>2, <1>3, <1>4, <1>5, Recursion
<1>7. PICK f \in [Parser -> ReadResult] : \A p \in Parser : f[p] = ReadStep[<<p, f>>]
  BY <1>6 DEF Solvable
<1>8. f = [p \in Parser |-> ReadBody(f, p)]
  BY <1>1, <1>7
<1>9. Read = CHOOSE r : r = [p \in Parser |-> ReadBody(r, p)]
  BY Zenon DEF Read, ReadBody, BehindTagOf, BehindFirst, Prepend
<1>10. Read = [p \in Parser |-> ReadBody(Read, p)]
  BY <1>8, <1>9
<1>11. \A p \in Parser : Read[p] = ReadBody(Read, p)
  BY <1>10
<1> DEFINE T == {p \in Parser : Read[p] \in ReadResult}
<1>12. ASSUME NEW d \in Parser, \A e \in Parser : size[e] < size[d] => e \in T PROVE d \in T
  <2>1. \A e \in Parser : Len(e.buffer) < Len(d.buffer) => Read[e] \in ReadResult
    BY <1>3, <1>12
  <2>2. ReadBody(Read, d) \in ReadResult
    <3>1. CASE d.buffer = <<>>
      BY <3>1, HoldingFacts, SegmentsConcat DEF ReadBody, ReadResult
    <3>2. CASE d.buffer # <<>> /\ IsPrefix(TagSought(d.insideThinking), d.buffer)
      BY <2>1, <3>2, Behind DEF ReadBody
    <3>3. CASE d.buffer # <<>> /\ ~IsPrefix(TagSought(d.insideThinking), d.buffer)
      BY <2>1, <3>3, Behind, PrependType DEF ReadBody
    <3> QED BY <3>1, <3>2, <3>3
  <2> QED BY <1>11, <2>2
<1> HIDE DEF T
<1>13. Parser \subseteq T
  BY <1>3, <1>12, ShorterFirst
<1> QED BY <1>11, <1>13 DEF T

(* Read of a text, from inside a thought or outside.                       *)
Rd(b, x) == Read[Holding(b, x)]

(* Nothing shown.                                                          *)
Silence(b) == [segments |-> <<>>, inside |-> b]

(* What is read of a text has its type.                                    *)
LEMMA RdType ==
  \A b \in BOOLEAN, x \in Text :
    /\ Rd(b, x) \in ReadResult
    /\ Rd(b, x).segments \in Segments /\ Rd(b, x).inside \in BOOLEAN
<1>1. \A b \in BOOLEAN, x \in Text : Rd(b, x) \in ReadResult
  BY ReadEquation, HoldingFacts DEF Rd
<1> QED BY <1>1 DEF ReadResult

(* What is read behind two segments.                                       *)
LEMMA PrependTwice ==
  ASSUME NEW s, NEW t, NEW r, s \in Segments, t \in Segments, r \in ReadResult
  PROVE Prepend(s \o t, r) = Prepend(s, Prepend(t, r))
<1> DEFINE u == r.segments
<1>1. u \in Segments
  BY DEF ReadResult
<1> HIDE DEF u
<1>2. (s \o t) \o u = s \o (t \o u)
  BY SMTT(30), <1>1, SegmentsAssoc
<1> QED BY <1>2 DEF Prepend, u

LEMMA PrependNothing ==
  ASSUME NEW r, r \in ReadResult
  PROVE Prepend(<<>>, r) = r
<1>1. r.segments \in Segments /\ r = [segments |-> r.segments, inside |-> r.inside]
  BY DEF ReadResult
<1>2. <<>> \o r.segments = r.segments
  BY <1>1, SegmentsConcat
<1> QED BY <1>1, <1>2 DEF Prepend

(* Reading nothing shows nothing; a tag turns inside to outside; any other *)
(* character is shown as what it is.                                       *)
LEMMA RdEmpty == \A b \in BOOLEAN : Rd(b, <<>>) = Silence(b)
<1> TAKE b \in BOOLEAN
<1>1. <<>> \in Text
  BY TextFacts
<1>2. Holding(b, <<>>) \in Parser /\ Holding(b, <<>>).buffer = <<>> /\ Holding(b, <<>>).insideThinking = b
  BY <1>1, HoldingFacts
<1>3. Read[Holding(b, <<>>)] = ReadBody(Read, Holding(b, <<>>))
  BY <1>2, ReadEquation
<1> QED BY <1>2, <1>3 DEF ReadBody, Rd, Silence

LEMMA RdTag ==
  ASSUME NEW b \in BOOLEAN, NEW y \in Text
  PROVE TagSought(b) \o y \in Text /\ Rd(b, TagSought(b) \o y) = Rd(Other(b), y)
<1> DEFINE x == TagSought(b) \o y
           p == Holding(b, x)
<1>1. x \in Text /\ IsPrefix(TagSought(b), x) /\ x # <<>>
  <2>1. TagSought(b) \in Text /\ Len(TagSought(b)) >= 1
    BY TagFacts
  <2>2. IsPrefix(TagSought(b), x)
    BY <2>1, PrefixConcat DEF Text
  <2>3. x \in Text /\ Len(x) >= 1
    <3> Len(y) \in Nat
      BY TextFacts
    <3> QED BY <2>1, TextFacts
  <2> QED BY <2>2, <2>3, TextFacts
<1>2. Since(x, Len(TagSought(b)) + 1) = y
  <2>1. Since(x, Len(TagSought(b)) + 1) \in Text
        /\ x = TagSought(b) \o Since(x, Len(TagSought(b)) + 1)
    BY <1>1, BehindTag
  <2> HIDE DEF Since
  <2> QED BY <2>1, TagFacts, CancelLeft DEF Text
<1>3. p \in Parser /\ p.buffer = x /\ p.insideThinking = b
  BY <1>1, HoldingFacts
<1>4. (~b) = Other(b) /\ Other(b) \in BOOLEAN
  BY OtherFacts
<1> HIDE DEF p, x
<1>5. BehindTagOf(p) = Holding(Other(b), y)
  BY <1>2, <1>3, <1>4 DEF BehindTagOf
<1>6. Read[p] = Read[BehindTagOf(p)]
  BY <1>1, <1>3, ReadEquation DEF ReadBody
<1>7. Read[p] = Rd(b, x)
  BY DEF p, Rd
<1> QED BY <1>1, <1>5, <1>6, <1>7 DEF x, Rd

LEMMA RdCharacter ==
  ASSUME NEW b \in BOOLEAN, NEW c \in Characters, NEW y \in Text, ~IsPrefix(TagSought(b), <<c>> \o y)
  PROVE Rd(b, <<c>> \o y) = Prepend(Segment(b, <<c>>), Rd(b, y))
<1> DEFINE x == <<c>> \o y
           p == Holding(b, x)
<1>1. x \in Text /\ x # <<>>
  BY DEF Text
<1>2. Head(x) = c
  BY DEF Text
<1>3. Tail(x) \in Text /\ x = <<Head(x)>> \o Tail(x)
  BY <1>1, HeadAndTail DEF Text
<1>4. <<c>> \in Text
  BY DEF Text
<1> HIDE DEF x
<1>5. <<c>> \o y = <<c>> \o Tail(x)
  BY <1>2, <1>3 DEF x
<1>6. Tail(x) = y
  BY <1>3, <1>4, <1>5, CancelLeft DEF Text
<1>7. p \in Parser /\ p.buffer = x /\ p.insideThinking = b
  BY <1>1, HoldingFacts
<1>8. ~IsPrefix(TagSought(b), x)
  BY DEF x
<1> HIDE DEF p
<1>9. BehindFirst(p) = Holding(b, y)
  BY <1>6, <1>7 DEF BehindFirst
<1>10. Read[p] = Prepend(Segment(b, <<c>>), Read[Holding(b, y)])
  BY <1>1, <1>2, <1>7, <1>8, <1>9, ReadEquation DEF ReadBody
<1>11. Read[p] = Rd(b, x)
  BY DEF p, Rd
<1> QED BY <1>10, <1>11 DEF x, Rd

(* What no tag stands in is shown as it is.                                *)
LEMMA RdPassing ==
  ASSUME NEW b \in BOOLEAN, NEW e \in Text, NEW y \in Text,
         \A i \in 1..Len(e) : ~At(TagSought(b), e \o y, i)
  PROVE Rd(b, e \o y) = Prepend(Segment(b, e), Rd(b, y))
<1> DEFINE P(x) == \A z \in Text : (\A i \in 1..Len(x) : ~At(TagSought(b), x \o z, i))
                                      => Rd(b, x \o z) = Prepend(Segment(b, x), Rd(b, z))
           T == {x \in Text : P(x)}
<1>1. ASSUME NEW x \in Text, \A w \in Text : Len(w) < Len(x) => w \in T PROVE x \in T
  <2>1. CASE x = <<>>
    <3>1. \A z \in Text : <<>> \o z = z /\ Prepend(<<>>, Rd(b, z)) = Rd(b, z)
      BY RdType, PrependNothing, TextFacts
    <3>2. Segment(b, <<>>) = <<>>
      BY SegmentEmpty
    <3> QED BY <2>1, <3>1, <3>2
  <2>2. CASE x # <<>>
    <3>1. PICK c \in Characters, w \in Text : x = <<c>> \o w /\ Len(w) < Len(x) /\ Len(x) = Len(w) + 1
      BY <2>2, FirstOf
    <3>2. ASSUME NEW z \in Text, \A i \in 1..Len(x) : ~At(TagSought(b), x \o z, i)
          PROVE Rd(b, x \o z) = Prepend(Segment(b, x), Rd(b, z))
      <4>1. w \o z \in Text /\ <<c>> \in Text /\ Len(<<c>>) = 1
            /\ Len(w) \in Nat /\ Len(z) \in Nat /\ Len(w \o z) = Len(w) + Len(z) /\ TagSought(b) \in Text
        BY TagFacts, TextFacts
      <4>2. x \o z = <<c>> \o (w \o z)
        <5>1. (<<c>> \o w) \o z = <<c>> \o (w \o z)
          BY <4>1, AssocOf
        <5> QED BY <3>1, <5>1
      <4>3. ~At(TagSought(b), x \o z, 1)
        BY <3>1, <3>2, <4>1
      <4>4. ~IsPrefix(TagSought(b), <<c>> \o (w \o z))
        <5>1. <<c>> \o (w \o z) \in Text
          BY <4>1, TextFacts
        <5> QED BY <4>1, <4>2, <4>3, <5>1, TextAtFirst
      <4>5. Rd(b, x \o z) = Prepend(Segment(b, <<c>>), Rd(b, w \o z))
        BY <4>1, <4>2, <4>4, RdCharacter
      <4>6. ASSUME NEW i \in 1..Len(w) PROVE ~At(TagSought(b), w \o z, i)
        <5>1. 1 + i \in 1..Len(x) /\ i \in Nat /\ i >= 1 /\ i <= Len(w \o z) + 1
          BY <3>1, <4>1
        <5>2. ~At(TagSought(b), <<c>> \o (w \o z), 1 + i)
          BY <3>2, <4>2, <5>1
        <5> QED BY <4>1, <5>1, <5>2, TextAtBehind
      <4>7. Rd(b, w \o z) = Prepend(Segment(b, w), Rd(b, z))
        BY <1>1, <3>1, <4>6
      <4>8. Segment(b, x) = Segment(b, <<c>>) \o Segment(b, w)
        BY ZenonT(60), <3>1, <4>1, SegmentConcat
      <4>9. Segment(b, <<c>>) \in Segments /\ Segment(b, w) \in Segments /\ Rd(b, z) \in ReadResult
        BY <4>1, SegmentType, RdType
      <4>10. Prepend(Segment(b, x), Rd(b, z)) = Prepend(Segment(b, <<c>>), Prepend(Segment(b, w), Rd(b, z)))
        BY <4>8, <4>9, PrependTwice
      <4> QED BY <4>5, <4>7, <4>10
    <3> QED BY <3>2
  <2> QED BY <2>1, <2>2
<1> HIDE DEF T
<1>2. Text \subseteq T
  BY <1>1, ShorterTexts
<1> QED BY <1>2 DEF T

(* A text shorter than q has no place for it.                              *)
LEMMA NoRoom ==
  ASSUME NEW q \in Text, NEW x \in Text, Len(x) < Len(q)
  PROVE \A i \in 1..Len(x) : ~At(q, x, i)
<1>1. Len(q) \in Nat /\ Len(x) \in Nat
  BY TextFacts
<1> QED BY <1>1, TextAt

(* A text too short for a tag reads as it is.                              *)
LEMMA RdShort ==
  ASSUME NEW b \in BOOLEAN, NEW x \in Text, Len(x) < Len(TagSought(b))
  PROVE Rd(b, x) = [segments |-> Segment(b, x), inside |-> b]
<1>1. x \o <<>> = x /\ <<>> \in Text /\ TagSought(b) \in Text
  BY TagFacts, TextFacts
<1>2. Rd(b, x \o <<>>) = Prepend(Segment(b, x), Rd(b, <<>>))
  BY <1>1, NoRoom, RdPassing
<1> DEFINE s == Segment(b, x)
<1>3. s \in Segments
  BY SegmentType
<1> HIDE DEF s
<1>4. s \o <<>> = s
  BY <1>3, SegmentsConcat
<1>5. Rd(b, x) = Prepend(s, Silence(b))
  BY <1>1, <1>2, RdEmpty DEF s
<1>6. Prepend(s, Silence(b)) = [segments |-> s, inside |-> b]
  BY <1>4 DEF Prepend, Silence
<1> QED BY <1>5, <1>6 DEF s

(* A text that is not empty begins with the tag or with another character. *)
LEMMA TagBeginnings ==
  ASSUME NEW b \in BOOLEAN, NEW x \in Text, x # <<>>
  PROVE \/ \E y \in Text : x = TagSought(b) \o y /\ Len(y) < Len(x)
        \/ \E c \in Characters, y \in Text :
              x = <<c>> \o y /\ Len(y) < Len(x) /\ Len(x) = Len(y) + 1 /\ ~IsPrefix(TagSought(b), x)
<1>1. CASE IsPrefix(TagSought(b), x)
  BY <1>1, BehindTag
<1>2. CASE ~IsPrefix(TagSought(b), x)
  BY <1>2, FirstOf
<1> QED BY <1>1, <1>2

(* A text reads as no more characters than it has.                         *)
LEMMA RdLength ==
  \A x \in Text : \A b \in BOOLEAN : Len(Rd(b, x).segments) <= Len(x)
<1> DEFINE T == {x \in Text : \A b \in BOOLEAN : Len(Rd(b, x).segments) <= Len(x)}
<1>1. ASSUME NEW x \in Text, \A w \in Text : Len(w) < Len(x) => w \in T PROVE x \in T
  <2> SUFFICES ASSUME NEW b \in BOOLEAN PROVE Len(Rd(b, x).segments) <= Len(x)
    OBVIOUS
  <2>0. Len(x) \in Nat
    BY TextFacts
  <2>1. CASE x = <<>>
    BY <2>1, RdEmpty, TextFacts DEF Silence
  <2>2. ASSUME NEW y \in Text, x = TagSought(b) \o y, Len(y) < Len(x) PROVE Len(Rd(b, x).segments) <= Len(x)
    <3>1. Rd(b, x) = Rd(Other(b), y) /\ Other(b) \in BOOLEAN
      BY <2>2, RdTag, OtherFacts
    <3>2. Len(Rd(Other(b), y).segments) <= Len(y)
      BY <1>1, <2>2, <3>1
    <3>3. Rd(Other(b), y).segments \in Segments /\ Len(Rd(Other(b), y).segments) \in Nat /\ Len(y) \in Nat
      BY <3>1, RdType, SegmentsConcat, TextFacts
    <3> QED BY <2>0, <2>2, <3>1, <3>2, <3>3
  <2>3. ASSUME NEW c \in Characters, NEW y \in Text, x = <<c>> \o y, Len(y) < Len(x), Len(x) = Len(y) + 1,
               ~IsPrefix(TagSought(b), x)
        PROVE Len(Rd(b, x).segments) <= Len(x)
    <3>1. Rd(b, x) = Prepend(Segment(b, <<c>>), Rd(b, y))
      BY <2>3, RdCharacter
    <3>2. Len(Rd(b, y).segments) <= Len(y)
      BY <1>1, <2>3
    <3>3. Segment(b, <<c>>) \in Segments /\ Len(Segment(b, <<c>>)) = 1
      BY SegmentType, TextFacts
    <3>4. Rd(b, y).segments \in Segments /\ Len(Rd(b, y).segments) \in Nat /\ Len(y) \in Nat
      BY RdType, SegmentsConcat, TextFacts
    <3>5. Rd(b, x).segments = Segment(b, <<c>>) \o Rd(b, y).segments
      BY <3>1 DEF Prepend
    <3>6. Len(Rd(b, x).segments) = 1 + Len(Rd(b, y).segments)
      <4> DEFINE u == Segment(b, <<c>>)
                 v == Rd(b, y).segments
      <4>1. u \in Segments /\ v \in Segments /\ Len(u) = 1
        BY <3>3, <3>4
      <4> HIDE DEF u, v
      <4>2. Len(u \o v) = 1 + Len(v)
        BY <4>1, SegmentsConcat
      <4> QED BY <3>5, <4>2 DEF u, v
    <3> QED BY <2>3, <3>2, <3>4, <3>6
  <2> QED BY <2>1, <2>2, <2>3, TagBeginnings
<1> HIDE DEF T
<1>2. Text \subseteq T
  BY <1>1, ShorterTexts
<1> QED BY <1>2 DEF T

(* A text since its ith character.                                         *)
LEMMA SinceText ==
  ASSUME NEW x \in Text, NEW i \in Nat, i >= 1, i <= Len(x) + 1
  PROVE /\ Since(x, i) \in Text /\ Len(Since(x, i)) = Len(x) - i + 1
        /\ \A k \in 1..(Len(x) - i + 1) : Since(x, i)[k] = x[i + k - 1]
BY DEF Text, Since

(* TagIndex (indexOf) is where the tag stands first, 0 if it does not.     *)
LEMMA TagIndexFacts ==
  ASSUME NEW x \in Text, NEW q \in Text
  PROVE /\ TagIndex(x, q) = 0 => \A i \in 1..Len(x) : ~At(q, x, i)
        /\ TagIndex(x, q) # 0 => /\ TagIndex(x, q) \in 1..Len(x) /\ At(q, x, TagIndex(x, q))
                                 /\ \A i \in 1..Len(x) : i < TagIndex(x, q) => ~At(q, x, i)
<1> DEFINE S == {i \in 1..Len(x) : At(q, x, i)}
<1>1. Len(x) \in Nat /\ DOMAIN x = 1..Len(x)
  BY DEF Text
<1>2. TagIndex(x, q) = IF S = {} THEN 0 ELSE Min(S)
  BY <1>1 DEF TagIndex, At
<1>3. ASSUME S # {} PROVE Min(S) \in S /\ \A i \in S : Min(S) <= i
  <2>1. S \in SUBSET Nat
    BY <1>1
  <2> HIDE DEF S
  <2>2. Least(S)
    BY <1>3, <2>1, LeastNumber
  <2>3. \E n \in S : \A m \in S : n <= m
    BY <2>2 DEF Least
  <2>4. Min(S) = CHOOSE n \in S : \A m \in S : n <= m
    BY DEF Min
  <2> QED BY <2>3, <2>4
<1>4. CASE S = {}
  <2>1. TagIndex(x, q) = 0
    BY <1>2, <1>4
  <2> QED BY <1>4, <2>1
<1>5. CASE S # {}
  <2> DEFINE k == Min(S)
  <2>1. k \in S /\ (\A i \in S : k <= i) /\ TagIndex(x, q) = k
    BY <1>2, <1>3, <1>5
  <2> HIDE DEF k
  <2>2. k \in 1..Len(x) /\ At(q, x, k) /\ k # 0
    BY <1>1, <2>1
  <2>3. ASSUME NEW i \in 1..Len(x), i < k PROVE ~At(q, x, i)
    <3>1. i \notin S
      BY <1>1, <2>1, <2>2, <2>3
    <3> QED BY <3>1
  <2> QED BY <2>1, <2>2, <2>3
<1> QED BY <1>4, <1>5

(* The greatest of some numbers is one of them.                            *)
LEMMA GreatestNumber ==
  ASSUME NEW T, NEW b \in Nat, T \subseteq 0..b, T # {}
  PROVE Max(T) \in T /\ \A m \in T : m <= Max(T)
<1> DEFINE S == {b - m : m \in T}
<1>1. S \in SUBSET Nat /\ S # {}
  <2>1. ASSUME NEW m \in T PROVE b - m \in Nat
    OBVIOUS
  <2>2. S # {}
    OBVIOUS
  <2> QED BY <2>1, <2>2
<1>2. Least(S)
  <2> HIDE DEF S
  <2> QED BY <1>1, LeastNumber
<1>3. \E n \in T : \A m \in T : n >= m
  <2>1. PICK u \in S : \A v \in S : u <= v
    BY <1>2 DEF Least
  <2>2. PICK n \in T : u = b - n
    OBVIOUS
  <2>3. ASSUME NEW m \in T PROVE n >= m
    <3>1. b - m \in S
      OBVIOUS
    <3>2. b - n <= b - m
      BY <2>1, <2>2, <3>1
    <3>3. n \in 0..b /\ m \in 0..b
      OBVIOUS
    <3> QED BY <3>2, <3>3
  <2> QED BY <2>3
<1>4. Max(T) = CHOOSE n \in T : \A m \in T : n >= m
  BY DEF Max
<1>5. Max(T) \in T /\ \A m \in T : Max(T) >= m
  BY <1>3, <1>4
<1>6. ASSUME NEW m \in T PROVE m <= Max(T)
  BY <1>5
<1> QED BY <1>5, <1>6

(* PartialMatchLength is how much of the buffer's end begins a tag, and    *)
(* nothing longer does.                                                    *)
LEMMA PartialMatchFacts ==
  ASSUME NEW x \in Text, NEW q \in Text, Len(q) >= 1
  PROVE /\ PartialMatchLength(x, q) \in 0..(Len(q) - 1) /\ PartialMatchLength(x, q) <= Len(x)
        /\ \A n \in 0..(Len(q) - 1) : n <= Len(x) /\ n > PartialMatchLength(x, q)
                                         => ~IsPrefix(Since(x, Len(x) - n + 1), q)
<1> DEFINE T == {n \in 0..(Len(q) - 1) : n <= Len(x) /\ IsPrefix(Since(x, Len(x) - n + 1), q)}
<1>1. Len(x) \in Nat /\ Len(q) \in Nat /\ Len(q) - 1 \in Nat
  BY TextFacts
<1>2. 0 \in T
  <2>1. Since(x, Len(x) + 1) \in Text /\ Len(Since(x, Len(x) + 1)) = 0
    BY <1>1, SinceText
  <2>2. Since(x, Len(x) + 1) = <<>>
    BY <2>1, TextFacts
  <2>3. IsPrefix(<<>>, q)
    BY TextFacts, TextPrefix
  <2>4. Len(x) - 0 + 1 = Len(x) + 1
    BY <1>1
  <2> QED BY <1>1, <2>2, <2>3, <2>4
<1>3. PartialMatchLength(x, q) = Max(T)
  BY DEF PartialMatchLength
<1>4. T \subseteq 0..(Len(q) - 1)
  OBVIOUS
<1>5. Max(T) \in T /\ \A m \in T : m <= Max(T)
  <2> HIDE DEF T
  <2> QED BY <1>1, <1>2, <1>4, GreatestNumber
<1> DEFINE k == Max(T)
<1>6. k \in 0..(Len(q) - 1) /\ k <= Len(x)
  BY <1>5
<1>7. ASSUME NEW n \in 0..(Len(q) - 1), n <= Len(x), n > k PROVE ~IsPrefix(Since(x, Len(x) - n + 1), q)
  <2>1. n \notin T
    <3> HIDE DEF T
    <3> QED BY <1>1, <1>5, <1>6, <1>7
  <2> QED BY <1>7, <2>1
<1> QED BY <1>3, <1>6, <1>7

(* Behind what is held back no tag can begin before it.                    *)
LEMMA NothingBefore ==
  ASSUME NEW x \in Text, NEW q \in Text, Len(q) >= 1, NEW rest \in Text,
         \A i \in 1..Len(x) : ~At(q, x, i)
  PROVE \A i \in 1..(Len(x) - PartialMatchLength(x, q)) : ~At(q, x \o rest, i)
<1> DEFINE n == PartialMatchLength(x, q)
<1>1. n \in 0..(Len(q) - 1) /\ n <= Len(x)
      /\ \A m \in 0..(Len(q) - 1) : m <= Len(x) /\ m > n => ~IsPrefix(Since(x, Len(x) - m + 1), q)
  BY PartialMatchFacts
<1> HIDE DEF n
<1>2. Len(x) \in Nat /\ Len(q) \in Nat /\ Len(rest) \in Nat /\ x \o rest \in Text /\ Len(x \o rest) = Len(x) + Len(rest)
  BY TextFacts
<1>3. ASSUME NEW i \in 1..(Len(x) - n), At(q, x \o rest, i) PROVE FALSE
  <2>0. i \in Nat /\ i >= 1 /\ i <= Len(x)
    BY <1>1, <1>2
  <2>1. i + Len(q) - 1 <= Len(x \o rest) /\ \A k \in 1..Len(q) : (x \o rest)[i + k - 1] = q[k]
    <3> DEFINE y == x \o rest
    <3>1. y \in Text /\ i <= Len(y) + 1 /\ At(q, y, i)
      BY <1>2, <1>3, <2>0
    <3> HIDE DEF y
    <3>2. i + Len(q) - 1 <= Len(y) /\ \A k \in 1..Len(q) : y[i + k - 1] = q[k]
      BY <2>0, <3>1, TextAt
    <3> QED BY <3>2 DEF y
  <2>2. \A j \in 1..Len(x) : (x \o rest)[j] = x[j]
    BY ConcatAt
  <2>3. CASE i + Len(q) - 1 <= Len(x)
    <3>1. \A k \in 1..Len(q) : x[i + k - 1] = q[k]
      <4> TAKE k \in 1..Len(q)
      <4> DEFINE j == i + k - 1
      <4>1. j \in 1..Len(x)
        BY <1>2, <2>0, <2>3
      <4>2. (x \o rest)[j] = q[k]
        BY <2>1
      <4> HIDE DEF j
      <4>3. x[j] = q[k]
        BY <2>2, <4>1, <4>2
      <4> QED BY <4>3 DEF j
    <3>2. At(q, x, i)
      BY SMTT(30), <1>2, <2>0, <2>3, <3>1, TextAt
    <3> QED BY <1>2, <2>0, <3>2
  <2>4. CASE ~(i + Len(q) - 1 <= Len(x))
    <3> DEFINE m == Len(x) - i + 1
               s == Since(x, i)
    <3>1. m \in 0..(Len(q) - 1) /\ m <= Len(x) /\ m > n /\ m <= Len(q) /\ Len(x) - m + 1 = i
      BY <1>1, <1>2, <2>0, <2>4
    <3>2. s \in Text /\ Len(s) = m /\ \A k \in 1..m : s[k] = x[i + k - 1]
      BY <2>0, SinceText
    <3>3. ~IsPrefix(s, q)
      BY <1>1, <3>1
    <3>4. \A k \in 1..m : q[k] = x[i + k - 1]
      <4> TAKE k \in 1..m
      <4> DEFINE j == i + k - 1
      <4>1. j \in 1..Len(x) /\ k \in 1..Len(q)
        BY <1>2, <2>0, <3>1
      <4>2. (x \o rest)[j] = q[k]
        BY <2>1, <4>1
      <4> HIDE DEF j
      <4>3. x[j] = q[k]
        BY <2>2, <4>1, <4>2
      <4> QED BY <4>3 DEF j
    <3> HIDE DEF m, s
    <3>5. \A k \in 1..Len(s) : q[k] = s[k]
      BY <3>2, <3>4
    <3>6. IsPrefix(s, q)
      BY <3>1, <3>2, <3>5, TextPrefix
    <3> QED BY <3>3, <3>6
  <2> QED BY <2>3, <2>4
<1> QED BY <1>3 DEF n

(* A tag that ends within x stands in x.                                   *)
LEMMA AtWithin ==
  ASSUME NEW x \in Text, NEW q \in Text, NEW rest \in Text, NEW i \in 1..Len(x),
         i + Len(q) - 1 <= Len(x), At(q, x \o rest, i)
  PROVE At(q, x, i)
<1>1. Len(x) \in Nat /\ Len(q) \in Nat /\ Len(rest) \in Nat /\ x \o rest \in Text /\ Len(x \o rest) = Len(x) + Len(rest)
  BY TextFacts
<1>2. \A k \in 1..Len(q) : (x \o rest)[i + k - 1] = q[k]
  <2> DEFINE y == x \o rest
  <2>1. y \in Text /\ i \in Nat /\ i >= 1 /\ i <= Len(y) + 1 /\ At(q, y, i)
    BY <1>1
  <2> HIDE DEF y
  <2>2. \A k \in 1..Len(q) : y[i + k - 1] = q[k]
    BY <2>1, TextAt
  <2> QED BY <2>2 DEF y
<1>3. \A j \in 1..Len(x) : (x \o rest)[j] = x[j]
  BY ConcatAt
<1>4. \A k \in 1..Len(q) : x[i + k - 1] = q[k]
  <2> TAKE k \in 1..Len(q)
  <2> DEFINE j == i + k - 1
  <2>1. j \in 1..Len(x)
    BY <1>1
  <2>2. (x \o rest)[j] = q[k]
    BY <1>2
  <2> HIDE DEF j
  <2>3. x[j] = q[k]
    BY <1>3, <2>1, <2>2
  <2> QED BY <2>3 DEF j
<1>5. i \in Nat /\ i >= 1 /\ i <= Len(x) + 1
  BY <1>1
<1> QED BY <1>1, <1>4, <1>5, TextAt

(* What Drain returns.                                                     *)
DrainResult == [parser : Parser, segments : Segments]

(* Drain's two ways: where a tag stands, the parser behind it; where none  *)
(* does, the buffer cut before what begins one.                            *)
IndexOf(p) == TagIndex(p.buffer, TagSought(p.insideThinking))
KeptOf(p) == Len(p.buffer) - PartialMatchLength(p.buffer, TagSought(p.insideThinking))
AfterTag(p) == Holding(~p.insideThinking, Since(p.buffer, IndexOf(p) + Len(TagSought(p.insideThinking))))
Ahead(s, step) == [parser |-> step.parser, segments |-> s \o step.segments]
LeftOver(p) == [parser |-> Holding(p.insideThinking, Since(p.buffer, KeptOf(p) + 1)),
                segments |-> Segment(p.insideThinking, SubSeq(p.buffer, 1, KeptOf(p)))]

(* Drain's step, of a function f in place of Drain.                        *)
DrainBody(f, p) ==
    IF IndexOf(p) # 0
    THEN Ahead(Segment(p.insideThinking, SubSeq(p.buffer, 1, IndexOf(p) - 1)), f[AfterTag(p)])
    ELSE LeftOver(p)

DrainStep == [p \in Parser \X [Parser -> DrainResult] |-> DrainBody(p[2], p[1])]

(* What comes of a buffer behind shown segments has its type.              *)
LEMMA AheadType ==
  \A s \in Segments, step \in DrainResult : Ahead(s, step) \in DrainResult
BY SegmentsConcat DEF Ahead, DrainResult

(* The buffer is shorter than the tag it looks for.                        *)
Short(p) == Len(p.buffer) <= Len(TagSought(p.insideThinking)) - 1

(* What a parser's buffer and whatever comes behind it read as.            *)
ReadsAs(p, step) ==
    \A rest \in Text :
        Rd(p.insideThinking, p.buffer \o rest)
            = Prepend(step.segments, Rd(step.parser.insideThinking, step.parser.buffer \o rest))

(* With no tag in the buffer, what is shown and what is kept read as the   *)
(* buffer did, whatever comes later.                                       *)
LEMMA LeftOverFacts ==
  ASSUME NEW p \in Parser, IndexOf(p) = 0
  PROVE LeftOver(p) \in DrainResult /\ Short(LeftOver(p).parser) /\ ReadsAs(p, LeftOver(p))
<1> DEFINE x == p.buffer
           b == p.insideThinking
           q == TagSought(b)
           k == KeptOf(p)
           e == SubSeq(x, 1, k)
           h == Since(x, k + 1)
<1>1. x \in Text /\ b \in BOOLEAN /\ q \in Text /\ Len(q) >= 1
  BY HoldingFacts, TagFacts
<1>2. TagIndex(x, q) = 0 /\ k = Len(x) - PartialMatchLength(x, q)
  BY DEF IndexOf, KeptOf
<1>3. LeftOver(p) = [parser |-> Holding(b, h), segments |-> Segment(b, e)]
  BY DEF LeftOver
<1>4. ReadsAs(p, LeftOver(p)) <=> \A rest \in Text :
          Rd(b, x \o rest) = Prepend(LeftOver(p).segments, Rd(LeftOver(p).parser.insideThinking, LeftOver(p).parser.buffer \o rest))
  BY Zenon DEF ReadsAs
<1> HIDE DEF x, b, q, k, e, h
<1>5. k \in Nat /\ k <= Len(x) /\ Len(x) - k <= Len(q) - 1 /\ Len(x) \in Nat /\ Len(q) \in Nat
  BY <1>1, <1>2, PartialMatchFacts, TextFacts
<1>6. e \in Text /\ h \in Text /\ Len(e) = k /\ Len(h) = Len(x) - k /\ x = e \o h
  BY <1>1, <1>5, Split DEF e, h
<1>7. \A i \in 1..Len(x) : ~At(q, x, i)
  BY <1>1, <1>2, TagIndexFacts
<1>8. ASSUME NEW rest \in Text PROVE Rd(b, x \o rest) = Prepend(Segment(b, e), Rd(b, h \o rest))
  <2>1. \A i \in 1..k : ~At(q, x \o rest, i)
    BY <1>1, <1>2, <1>7, NothingBefore
  <2>2. h \o rest \in Text
    BY <1>6, TextFacts
  <2>3. (e \o h) \o rest = e \o (h \o rest)
    BY SMTT(30), <1>6, AssocOf
  <2>4. \A i \in 1..Len(e) : ~At(TagSought(b), e \o (h \o rest), i)
    BY <1>6, <2>1, <2>3 DEF q
  <2>5. Rd(b, e \o (h \o rest)) = Prepend(Segment(b, e), Rd(b, h \o rest))
    BY <1>1, <1>6, <2>2, <2>4, RdPassing
  <2> QED BY <1>6, <2>3, <2>5
<1>9. Holding(b, h) \in Parser /\ Holding(b, h).buffer = h /\ Holding(b, h).insideThinking = b
  BY <1>1, <1>6, HoldingFacts
<1>10. Segment(b, e) \in Segments
  BY <1>1, <1>6, SegmentType
<1>11. LeftOver(p).parser = Holding(b, h) /\ LeftOver(p).segments = Segment(b, e)
  BY <1>3
<1>12. LeftOver(p) \in DrainResult
  BY <1>3, <1>9, <1>10 DEF DrainResult
<1>13. Short(LeftOver(p).parser)
  BY <1>5, <1>6, <1>9, <1>11 DEF Short, q
<1>14. ReadsAs(p, LeftOver(p))
  BY <1>4, <1>8, <1>9, <1>11
<1> QED BY <1>12, <1>13, <1>14

(* With a tag, what is before it is shown and what is behind it is         *)
(* shorter, and together they read as the buffer did.                      *)
LEMMA AfterTagFacts ==
  ASSUME NEW p \in Parser, IndexOf(p) # 0
  PROVE /\ AfterTag(p) \in Parser /\ Len(AfterTag(p).buffer) < Len(p.buffer)
        /\ Segment(p.insideThinking, SubSeq(p.buffer, 1, IndexOf(p) - 1)) \in Segments
        /\ \A rest \in Text :
             Rd(p.insideThinking, p.buffer \o rest)
                = Prepend(Segment(p.insideThinking, SubSeq(p.buffer, 1, IndexOf(p) - 1)),
                          Rd(AfterTag(p).insideThinking, AfterTag(p).buffer \o rest))
<1> DEFINE x == p.buffer
           b == p.insideThinking
           q == TagSought(b)
           k == IndexOf(p)
           n == k - 1
           e == SubSeq(x, 1, n)
           y == Since(x, n + 1)
           w == Since(y, Len(q) + 1)
<1>1. x \in Text /\ b \in BOOLEAN /\ q \in Text /\ Len(q) >= 1 /\ Len(q) \in Nat /\ Len(x) \in Nat
  BY HoldingFacts, TagFacts, TextFacts
<1>2. k = TagIndex(x, q)
  BY DEF IndexOf
<1>3. k \in 1..Len(x) /\ At(q, x, k) /\ \A i \in 1..Len(x) : i < k => ~At(q, x, i)
  <2> HIDE DEF x, q
  <2> QED BY <1>1, <1>2, TagIndexFacts
<1>4. (~b) = Other(b) /\ Other(b) \in BOOLEAN
  BY <1>1, OtherFacts
<1>5. AfterTag(p) = Holding(Other(b), Since(x, k + Len(q)))
  BY <1>4 DEF AfterTag
<1> HIDE DEF x, b, q, k
<1>6. n \in Nat /\ n <= Len(x) /\ n + 1 = k
  BY <1>1, <1>3
<1> HIDE DEF n
<1>7. e \in Text /\ y \in Text /\ Len(e) = n /\ Len(y) = Len(x) - n /\ x = e \o y
  BY <1>1, <1>6, Split DEF e, y
<1>8. IsPrefix(q, y)
  BY <1>3, <1>6 DEF At, y
<1>9. w \in Text /\ y = q \o w /\ Len(w) < Len(y) /\ Len(q) <= Len(y)
  <2>1. w \in Text /\ Len(w) < Len(y) /\ y = q \o w
    BY <1>1, <1>7, <1>8, BehindTag DEF q, w
  <2> HIDE DEF w
  <2>2. Len(q) <= Len(y)
    BY <1>1, <2>1, TextFacts
  <2> QED BY <2>1, <2>2
<1>10. Since(x, k + Len(q)) = w
  <2>0. Len(y) \in Nat /\ Len(w) \in Nat
    BY <1>7, <1>9, TextFacts
  <2>1. k + Len(q) \in Nat /\ k + Len(q) >= 1 /\ k + Len(q) <= Len(x) + 1
    BY <1>1, <1>3, <1>6, <1>7, <1>9
  <2>2. Since(x, k + Len(q)) \in Text /\ Len(Since(x, k + Len(q))) = Len(x) - (k + Len(q)) + 1
        /\ \A i \in 1..(Len(x) - (k + Len(q)) + 1) : Since(x, k + Len(q))[i] = x[k + Len(q) + i - 1]
    <3> DEFINE m == k + Len(q)
    <3> HIDE DEF m
    <3>1. m \in Nat /\ m >= 1 /\ m <= Len(x) + 1
      BY <2>1 DEF m
    <3>2. Since(x, m) \in Text /\ Len(Since(x, m)) = Len(x) - m + 1 /\ \A i \in 1..(Len(x) - m + 1) : Since(x, m)[i] = x[m + i - 1]
      BY <1>1, <3>1, SinceText
    <3> QED BY <3>2 DEF m
  <2>3. Len(y) = Len(q) + Len(w)
    BY <1>1, <1>9, TextFacts
  <2>4. Len(Since(x, k + Len(q))) = Len(w)
    BY SMTT(30), <1>1, <1>3, <1>6, <1>7, <2>0, <2>2, <2>3
  <2>5. ASSUME NEW i \in 1..Len(w) PROVE Since(x, k + Len(q))[i] = w[i]
    <3> DEFINE j == Len(q) + i
               l == k + Len(q) + i - 1
    <3>0. Len(w) = Len(x) - (k + Len(q)) + 1 /\ Len(y) = Len(q) + Len(w) /\ n \in Nat /\ n + 1 = k
          /\ Len(q) \in Nat /\ Len(w) \in Nat
      BY <1>1, <1>6, <2>0, <2>2, <2>3, <2>4
    <3>1. j \in 1..Len(y) /\ l = n + j /\ i \in 1..(Len(x) - (k + Len(q)) + 1)
      BY <3>0
    <3>2. Since(x, k + Len(q))[i] = x[l]
      BY <2>2, <3>1
    <3>3. y[j] = w[i]
      BY <1>1, <1>9, ConcatAt
    <3> HIDE DEF j, l
    <3>4. x[n + j] = y[j]
      BY ZenonT(60), <1>7, <3>1, ConcatAt
    <3> QED BY <3>1, <3>2, <3>3, <3>4
  <2>6. \A a, c \in Text : Len(a) = Len(c) /\ (\A i \in 1..Len(c) : a[i] = c[i]) => a = c
    BY SeqEqual DEF Text
  <2> HIDE DEF w
  <2> QED BY <1>9, <2>2, <2>4, <2>5, <2>6
<1>11. AfterTag(p) = Holding(Other(b), w)
  BY <1>5, <1>10
<1>12. AfterTag(p) \in Parser /\ AfterTag(p).buffer = w /\ AfterTag(p).insideThinking = Other(b)
  BY <1>4, <1>9, <1>11, HoldingFacts
<1>13. Len(w) < Len(x)
  <2> Len(y) \in Nat /\ Len(w) \in Nat
    BY <1>7, <1>9, TextFacts
  <2> QED BY <1>1, <1>6, <1>7, <1>9
<1>14. Segment(b, e) \in Segments
  BY <1>1, <1>7, SegmentType
<1>15. ASSUME NEW rest \in Text PROVE Rd(b, x \o rest) = Prepend(Segment(b, e), Rd(Other(b), w \o rest))
  <2> HIDE DEF e, y, w
  <2>1. w \o rest \in Text /\ y \o rest \in Text /\ Len(w) \in Nat
    BY <1>7, <1>9, TextFacts
  <2>2. x \o rest = e \o (y \o rest) /\ y \o rest = q \o (w \o rest)
    <3>1. (e \o y) \o rest = e \o (y \o rest)
      BY SMTT(30), <1>7, AssocOf
    <3>0. q \in Text /\ w \in Text
      BY <1>1, <1>9
    <3>2. (q \o w) \o rest = q \o (w \o rest)
      BY SMTT(30), <3>0, AssocOf
    <3> QED BY <1>7, <1>9, <3>1, <3>2
  <2>3. ASSUME NEW i \in 1..Len(e) PROVE ~At(q, x \o rest, i)
    <3>1. i \in 1..Len(x) /\ i < k /\ i + Len(q) - 1 <= Len(x)
      <4> Len(y) \in Nat
        BY <1>7, TextFacts
      <4> QED BY <1>1, <1>3, <1>6, <1>7, <1>9
    <3>2. ~At(q, x, i)
      BY <1>3, <3>1
    <3> QED BY <1>1, <3>1, <3>2, AtWithin
  <2>4. \A i \in 1..Len(e) : ~At(TagSought(b), e \o (y \o rest), i)
    BY <2>2, <2>3 DEF q
  <2>5. Rd(b, e \o (y \o rest)) = Prepend(Segment(b, e), Rd(b, y \o rest))
    BY <1>1, <1>7, <2>1, <2>4, RdPassing
  <2>6. Rd(b, q \o (w \o rest)) = Rd(Other(b), w \o rest)
    BY <1>1, <2>1, RdTag DEF q
  <2> QED BY <2>2, <2>5, <2>6
<1>16. SubSeq(p.buffer, 1, IndexOf(p) - 1) = e
  BY DEF e, x, n, k
<1> HIDE DEF e, w, y
<1>17. p.insideThinking = b /\ p.buffer = x
  BY DEF b, x
<1> QED BY <1>12, <1>13, <1>14, <1>15, <1>16, <1>17

(* So does the buffer, when what is behind the tag reads as it did.        *)
LEMMA AheadReads ==
  ASSUME NEW p \in Parser, IndexOf(p) # 0, NEW step \in DrainResult, ReadsAs(AfterTag(p), step)
  PROVE ReadsAs(p, Ahead(Segment(p.insideThinking, SubSeq(p.buffer, 1, IndexOf(p) - 1)), step))
<1> DEFINE s == Segment(p.insideThinking, SubSeq(p.buffer, 1, IndexOf(p) - 1))
           a == AfterTag(p)
<1>1. a \in Parser /\ s \in Segments
      /\ \A rest \in Text : Rd(p.insideThinking, p.buffer \o rest) = Prepend(s, Rd(a.insideThinking, a.buffer \o rest))
  BY AfterTagFacts
<1>2. ReadsAs(a, step)
  OBVIOUS
<1> HIDE DEF s, a
<1>3. step.segments \in Segments /\ step.parser \in Parser
  BY DEF DrainResult
<1>4. ASSUME NEW rest \in Text
      PROVE Rd(p.insideThinking, p.buffer \o rest)
              = Prepend(s \o step.segments, Rd(step.parser.insideThinking, step.parser.buffer \o rest))
  <2> DEFINE r == Rd(step.parser.insideThinking, step.parser.buffer \o rest)
             t == step.segments
  <2>1. Rd(a.insideThinking, a.buffer \o rest) = Prepend(t, r)
    BY <1>2 DEF ReadsAs
  <2>2. step.parser.buffer \in Text /\ step.parser.insideThinking \in BOOLEAN
    BY <1>3, HoldingFacts
  <2>3. r \in ReadResult /\ t \in Segments
    BY <1>3, <2>2, RdType, TextFacts
  <2> HIDE DEF r, t
  <2>4. Prepend(s \o t, r) = Prepend(s, Prepend(t, r))
    BY <1>1, <2>3, PrependTwice
  <2>5. Rd(p.insideThinking, p.buffer \o rest) = Prepend(s \o t, r)
    BY <1>1, <2>1, <2>4
  <2> QED BY <2>5 DEF r, t
<1>5. Ahead(s, step).segments = s \o step.segments /\ Ahead(s, step).parser = step.parser
  BY DEF Ahead
<1>6. ReadsAs(p, Ahead(s, step))
  BY <1>4, <1>5 DEF ReadsAs
<1> QED BY <1>6 DEF s

(* The step's value is what Drain may return.                              *)
LEMMA DrainBodyType ==
  ASSUME NEW f \in [Parser -> DrainResult], NEW p \in Parser
  PROVE DrainBody(f, p) \in DrainResult
<1>1. CASE IndexOf(p) # 0
  BY <1>1, AfterTagFacts, AheadType DEF DrainBody
<1>2. CASE IndexOf(p) = 0
  BY <1>2, LeftOverFacts DEF DrainBody
<1> QED BY <1>1, <1>2

(* Drain is what its definition says: its recursion is on shorter buffers. *)
LEMMA DrainEquation == \A p \in Parser : Drain[p] = DrainBody(Drain, p)
<1> DEFINE size == [p \in Parser |-> Len(p.buffer)]
<1>1. \A p \in Parser, f \in [Parser -> DrainResult] : DrainStep[<<p, f>>] = DrainBody(f, p)
  BY DEF DrainStep
<1>2. DrainStep \in [Parser \X [Parser -> DrainResult] -> DrainResult]
  <2>1. \A p \in Parser \X [Parser -> DrainResult] : DrainBody(p[2], p[1]) \in DrainResult
    BY DrainBodyType
  <2> QED BY <2>1 DEF DrainStep
<1>3. size \in [Parser -> Nat] /\ \A p \in Parser : size[p] = Len(p.buffer)
  BY HoldingFacts, TextFacts
<1> HIDE DEF size
<1>4. Local(Parser, DrainResult, size, DrainStep)
  <2> SUFFICES ASSUME NEW d \in Parser, NEW f \in [Parser -> DrainResult], NEW g \in [Parser -> DrainResult],
                      \A e \in Parser : size[e] < size[d] => f[e] = g[e]
               PROVE DrainStep[<<d, f>>] = DrainStep[<<d, g>>]
    BY DEF Local
  <2>1. \A e \in Parser : Len(e.buffer) < Len(d.buffer) => f[e] = g[e]
    BY <1>3
  <2>2. DrainBody(f, d) = DrainBody(g, d)
    BY <2>1, AfterTagFacts DEF DrainBody
  <2> QED BY <1>1, <2>2
<1>5. DrainResult # {}
  <2>1. <<>> \in Text
    BY TextFacts
  <2>2. [parser |-> Holding(TRUE, <<>>), segments |-> <<>>] \in DrainResult
    BY <2>1, SegmentsConcat, HoldingFacts DEF DrainResult
  <2> QED BY <2>2
<1>6. Solvable(Parser, DrainResult, DrainStep)
  BY <1>2, <1>3, <1>4, <1>5, Recursion
<1>7. PICK f \in [Parser -> DrainResult] : \A p \in Parser : f[p] = DrainStep[<<p, f>>]
  BY <1>6 DEF Solvable
<1>8. f = [p \in Parser |-> DrainBody(f, p)]
  BY <1>1, <1>7
<1>9. Drain = CHOOSE r : r = [p \in Parser |-> DrainBody(r, p)]
  BY Zenon DEF Drain, DrainBody, IndexOf, KeptOf, AfterTag, Ahead, LeftOver
<1>10. Drain = [p \in Parser |-> DrainBody(Drain, p)]
  BY <1>8, <1>9
<1> QED BY <1>10

(* Whatever comes behind it, a buffer reads as what drain lets go of it    *)
(* and then as what it keeps, which is too short for a tag.                *)
LEMMA Drained ==
  \A p \in Parser : Drain[p] \in DrainResult /\ Short(Drain[p].parser) /\ ReadsAs(p, Drain[p])
<1> DEFINE size == [p \in Parser |-> Len(p.buffer)]
           P(p) == Drain[p] \in DrainResult /\ Short(Drain[p].parser) /\ ReadsAs(p, Drain[p])
           T == {p \in Parser : P(p)}
<1>1. size \in [Parser -> Nat] /\ \A p \in Parser : size[p] = Len(p.buffer)
  BY HoldingFacts, TextFacts
<1> HIDE DEF size
<1>2. ASSUME NEW d \in Parser, \A e \in Parser : size[e] < size[d] => e \in T PROVE d \in T
  <2>1. CASE IndexOf(d) # 0
    <3> DEFINE a == AfterTag(d)
               s == Segment(d.insideThinking, SubSeq(d.buffer, 1, IndexOf(d) - 1))
    <3>1. a \in Parser /\ Len(a.buffer) < Len(d.buffer) /\ s \in Segments
      BY <2>1, AfterTagFacts
    <3>2. a \in T
      BY <1>1, <1>2, <3>1
    <3>3. Drain[a] \in DrainResult /\ Short(Drain[a].parser) /\ ReadsAs(a, Drain[a])
      BY <3>2
    <3>4. ReadsAs(d, Ahead(s, Drain[a]))
      BY <2>1, <3>3, AheadReads
    <3>5. Drain[d] = Ahead(s, Drain[a])
      BY <2>1, DrainEquation DEF DrainBody
    <3> HIDE DEF a, s
    <3>6. Ahead(s, Drain[a]) \in DrainResult /\ Ahead(s, Drain[a]).parser = Drain[a].parser
      BY <3>1, <3>3, AheadType DEF Ahead
    <3> QED BY <3>3, <3>4, <3>5, <3>6
  <2>2. CASE IndexOf(d) = 0
    <3>1. Drain[d] = LeftOver(d)
      BY <2>2, DrainEquation DEF DrainBody
    <3> QED BY <2>2, <3>1, LeftOverFacts
  <2> QED BY <2>1, <2>2
<1> HIDE DEF T
<1>3. Parser \subseteq T
  BY <1>1, <1>2, ShorterFirst
<1> QED BY <1>3 DEF T

(* A function defined by recursion on a sequence, through a step that keeps to S. *)

-----------------------------------------------------------------------------
(* A stream of chunks, through the mask and to the handler: both are folds *)
(* over it.                                                                *)

(* g is the fold of step over sequences, from base.                        *)
Folds(A, S, base, step, g) ==
    /\ g[<<>>] = base
    /\ \A s \in Seq(A) : g[s] \in S
    /\ \A s \in Seq(A), x \in A : g[Append(s, x)] = step[<<g[s], x>>]

(* A function that takes a sequence's last element off is such a fold.     *)
LEMMA FoldOf ==
  ASSUME NEW A, NEW S, NEW base \in S, NEW step \in [S \X A -> S], NEW g,
         g[<<>>] = base,
         \A s \in Seq(A) : s # <<>> /\ g[Front(s)] \in S => g[s] = step[<<g[Front(s)], Last(s)>>]
  PROVE Folds(A, S, base, step, g)
<1> DEFINE T == {s \in Seq(A) : g[s] \in S}
<1>1. <<>> \in T
  OBVIOUS
<1>2. ASSUME NEW s \in Seq(A), NEW x \in A, g[s] \in S
      PROVE g[Append(s, x)] = step[<<g[s], x>>] /\ Append(s, x) \in Seq(A) /\ step[<<g[s], x>>] \in S
  <2>1. Append(s, x) \in Seq(A) /\ Append(s, x) # <<>> /\ Front(Append(s, x)) = s /\ Last(Append(s, x)) = x
    BY AppendFront
  <2>2. g[Append(s, x)] = step[<<g[s], x>>]
    BY <1>2, <2>1
  <2> QED BY <1>2, <2>1, <2>2
<1>3. \A s \in Seq(A), x \in A : s \in T => Append(s, x) \in T
  BY <1>2
<1> HIDE DEF T
<1>4. Seq(A) \subseteq T
  BY <1>1, <1>3, SequenceInduction
<1>5. \A s \in Seq(A) : g[s] \in S
  BY <1>4 DEF T
<1> QED BY <1>2, <1>5 DEF Folds

-----------------------------------------------------------------------------

(* A text chunk, empty or not.                                             *)
TextOnly(x) == [type |-> "text", text |-> x]
Chunks == Seq(Chunk)

(* Chunks, and sequences of them.                                          *)
LEMMA ChunkFacts ==
  /\ <<>> \in Chunks
  /\ \A x \in Text : TextOnly(x) \in Chunk
  /\ \A c \in Call : ToolChunk(c) \in Chunk
  /\ \A r \in StopReason, u \in Nat : StopChunk(r, u) \in Chunk
  /\ \A c \in Chunk : <<c>> \in Chunks
  /\ \A a, b \in Chunks : a \o b \in Chunks
  /\ \A a \in Chunks, c \in Chunk : Append(a, c) \in Chunks /\ Append(a, c) = a \o <<c>>
<1>1. \A x \in Text : TextOnly(x) \in Chunk
  BY DEF TextOnly, Chunk
<1>2. \A c \in Call : ToolChunk(c) \in Chunk
  BY DEF ToolChunk, Chunk
<1>3. \A r \in StopReason, u \in Nat : StopChunk(r, u) \in Chunk
  BY DEF StopChunk, Chunk
<1>4. /\ <<>> \in Chunks
      /\ \A c \in Chunk : <<c>> \in Chunks
      /\ \A a, b \in Chunks : a \o b \in Chunks
      /\ \A a \in Chunks, c \in Chunk : Append(a, c) \in Chunks /\ Append(a, c) = a \o <<c>>
  <2> HIDE DEF Chunk
  <2> QED BY DEF Chunks
<1> QED BY <1>1, <1>2, <1>3, <1>4

(* No chunk for an empty text.                                             *)
LEMMA TextChunkIs ==
  \A x \in Text : TextChunk(x) \in Chunks /\ TextChunk(x) = IF x = <<>> THEN <<>> ELSE <<TextOnly(x)>>
BY ChunkFacts DEF TextChunk, TextOnly

(* A call's fields have their types.                                       *)
LEMMA CallParts ==
  \A c \in Call : /\ c.id \in Name /\ c.name \in Name /\ c.input \in Input
BY DEF Call

(* What the mask holds, and what it has let through.                       *)
Masks == [held : Text, chunks : Chunks]

(* What Push and FlushHeld return.                                         *)
LEMMA PushType ==
  ASSUME NEW held \in Text, NEW text \in Text
  PROVE /\ Push(held, text) \in Masks
        /\ \E out \in Text : Push(held, text).chunks = TextChunk(out)
<1> DEFINE r == Restored(held \o text)
           keep == MaxTokenLength - 1
           cut == IF Len(r) > keep THEN Len(r) - keep ELSE 0
           out == SubSeq(r, 1, cut)
           h == Since(r, cut + 1)
<1>1. r \in Text
  BY RestoredType, TextFacts
<1>2. Push(held, text) = [held |-> h, chunks |-> TextChunk(out)]
  BY DEF Push, PushKeeping, Restored
<1>3. Len(r) \in Nat /\ keep \in Nat
  BY <1>1, TextFacts, TokenFacts
<1> HIDE DEF r, keep
<1>4. cut \in Nat /\ cut <= Len(r)
  BY <1>3
<1> HIDE DEF cut
<1>5. out \in Text /\ h \in Text
  BY <1>1, <1>4, Split
<1> QED BY <1>2, <1>5, TextChunkIs DEF Masks

LEMMA FlushHeldIs ==
  ASSUME NEW held \in Text
  PROVE FlushHeld(held) = [held |-> <<>>, chunks |-> TextChunk(Restored(held))]
BY DEF FlushHeld, Restored

(* An input, with the values put back in its strings or masked there.      *)
LEMMA StringsIs ==
  ASSUME NEW n \in Input
  PROVE /\ RestoreStrings(n) \in Input /\ RestoreStrings(n).strings # "token"
        /\ ApplyStrings(n) \in Input /\ ApplyStrings(n).strings # "value"
BY DEF Input, Found, RestoreStrings, ApplyStrings

LEMMA MaskedInputType == MaskedInput \in Input
BY DEF MaskedInput, Input, Found

(* A call with the real value in its input.                                *)
RestoredCall(call) == [id |-> call.id, name |-> call.name, input |-> RestoreStrings(call.input)]

(* ... is a call, and what the model's EXCEPT makes.                       *)
LEMMA RestoredCallIs ==
  ASSUME NEW call \in Call
  PROVE RestoredCall(call) \in Call /\ [call EXCEPT !.input = RestoreStrings(@)] = RestoredCall(call)
<1>1. RestoreStrings(call.input) \in Input
  BY CallParts, StringsIs
<1>2. RestoredCall(call) \in Call
  BY <1>1, CallParts DEF RestoredCall, Call
<1>3. [call EXCEPT !.input = RestoreStrings(@)] = RestoredCall(call)
  BY DEF RestoredCall, Call
<1> QED BY <1>2, <1>3

(* A chunk behind what was let through.                                    *)
LEMMA AppendedTo ==
  ASSUME NEW m, NEW t, NEW p, m = [held |-> <<>>, chunks |-> t]
  PROVE [m EXCEPT !.chunks = Append(@, p)] = [held |-> <<>>, chunks |-> Append(t, p)]
BY SMTT(30)

(* What the mask makes of each kind of chunk.                              *)
LEMMA RestoreTextIs ==
  ASSUME NEW held \in Text, NEW x \in Text
  PROVE RestoreChunk(held, TextOnly(x)) = Push(held, x)
BY DEF RestoreChunk, TextOnly

LEMMA RestoreToolIs ==
  ASSUME NEW held \in Text, NEW call \in Call
  PROVE RestoreChunk(held, ToolChunk(call))
          = [held |-> <<>>, chunks |-> TextChunk(Restored(held)) \o <<ToolChunk(RestoredCall(call))>>]
<1> DEFINE c == ToolChunk(call)
           t == TextChunk(Restored(held))
           p == ToolChunk(RestoredCall(call))
<1>1. c.type = "tool_use" /\ c.call = call
  BY DEF ToolChunk
<1>2. FlushHeld(held) = [held |-> <<>>, chunks |-> t] /\ t \in Chunks
  BY FlushHeldIs, RestoredType, TextChunkIs
<1>3. p \in Chunk /\ ToolChunk([call EXCEPT !.input = RestoreStrings(@)]) = p
  BY RestoredCallIs, ChunkFacts
<1>4. RestoreChunk(held, c) = [FlushHeld(held) EXCEPT !.chunks = Append(@, p)]
  BY <1>1, <1>3 DEF RestoreChunk
<1> HIDE DEF c, t, p
<1>5. Append(t, p) = t \o <<p>>
  BY <1>2, <1>3, ChunkFacts
<1>6. RestoreChunk(held, c) = [held |-> <<>>, chunks |-> Append(t, p)]
  BY SMTT(30), <1>2, <1>4
<1> QED BY <1>5, <1>6 DEF c, t, p

LEMMA RestoreStopIs ==
  ASSUME NEW held \in Text, NEW r \in StopReason, NEW u \in Nat
  PROVE RestoreChunk(held, StopChunk(r, u))
          = [held |-> <<>>, chunks |-> TextChunk(Restored(held)) \o <<StopChunk(r, u)>>]
<1> DEFINE c == StopChunk(r, u)
           t == TextChunk(Restored(held))
<1>1. c.type = "stop"
  BY DEF StopChunk
<1>2. FlushHeld(held) = [held |-> <<>>, chunks |-> t] /\ t \in Chunks
  BY FlushHeldIs, RestoredType, TextChunkIs
<1>3. c \in Chunk
  BY ChunkFacts
<1>4. RestoreChunk(held, c) = [FlushHeld(held) EXCEPT !.chunks = Append(@, c)]
  BY <1>1 DEF RestoreChunk
<1> HIDE DEF c, t
<1>5. Append(t, c) = t \o <<c>>
  BY <1>2, <1>3, ChunkFacts
<1>6. RestoreChunk(held, c) = [held |-> <<>>, chunks |-> Append(t, c)]
  <2> DEFINE m == FlushHeld(held)
             l == RestoreChunk(held, c)
  <2>1. m = [held |-> <<>>, chunks |-> t]
    BY <1>2
  <2>2. l = [m EXCEPT !.chunks = Append(@, c)]
    BY <1>4
  <2>3. l = [held |-> <<>>, chunks |-> Append(t, c)]
    <3> HIDE DEF m, l
    <3>1. [m EXCEPT !.chunks = Append(@, c)] = [held |-> <<>>, chunks |-> Append(t, c)]
      BY <2>1, AppendedTo
    <3> QED BY <2>2, <3>1
  <2> QED BY <2>3
<1> QED BY <1>5, <1>6 DEF c, t

(* A chunk is one of the three.                                            *)
LEMMA ChunkKinds ==
  ASSUME NEW c \in Chunk
  PROVE \/ \E x \in Text : c = TextOnly(x)
        \/ \E call \in Call : c = ToolChunk(call)
        \/ \E r \in StopReason, u \in Nat : c = StopChunk(r, u)
<1>1. CASE c \in [type : {"text"}, text : Text]
  BY <1>1 DEF TextOnly
<1>2. CASE c \in [type : {"tool_use"}, call : Call]
  BY <1>2 DEF ToolChunk
<1>3. CASE c \in [type : {"stop"}, stopReason : StopReason, usage : Nat]
  BY <1>3 DEF StopChunk
<1> QED BY <1>1, <1>2, <1>3 DEF Chunk

(* What is held and what was let through, as one record.                   *)
LEMMA MaskOf ==
  \A h \in Text, c \in Chunks : [held |-> h, chunks |-> c] \in Masks
BY DEF Masks

(* What the mask does with a chunk has its type.                           *)
LEMMA RestoreChunkType ==
  ASSUME NEW held \in Text, NEW c \in Chunk
  PROVE RestoreChunk(held, c) \in Masks
<1>0. <<>> \in Text /\ TextChunk(Restored(held)) \in Chunks
  BY RestoredType, TextFacts, TextChunkIs
<1>1. ASSUME NEW x \in Text, c = TextOnly(x) PROVE RestoreChunk(held, c) \in Masks
  BY <1>1, RestoreTextIs, PushType
<1>2. ASSUME NEW call \in Call, c = ToolChunk(call) PROVE RestoreChunk(held, c) \in Masks
  <2> DEFINE t == TextChunk(Restored(held))
             p == <<ToolChunk(RestoredCall(call))>>
  <2>1. p \in Chunks /\ t \in Chunks
    BY <1>0, RestoredCallIs, ChunkFacts
  <2>2. RestoreChunk(held, c) = [held |-> <<>>, chunks |-> t \o p]
    BY <1>2, RestoreToolIs
  <2> HIDE DEF t, p
  <2>3. t \o p \in Chunks
    BY <2>1, ChunkFacts
  <2> QED BY <1>0, <2>2, <2>3, MaskOf
<1>3. ASSUME NEW r \in StopReason, NEW u \in Nat, c = StopChunk(r, u) PROVE RestoreChunk(held, c) \in Masks
  <2> DEFINE t == TextChunk(Restored(held))
             p == <<StopChunk(r, u)>>
  <2>1. p \in Chunks /\ t \in Chunks
    BY <1>0, ChunkFacts
  <2>2. RestoreChunk(held, c) = [held |-> <<>>, chunks |-> t \o p]
    BY <1>3, RestoreStopIs
  <2> HIDE DEF t, p
  <2>3. t \o p \in Chunks
    BY <2>1, ChunkFacts
  <2> QED BY <1>0, <2>2, <2>3, MaskOf
<1> QED BY <1>1, <1>2, <1>3, ChunkKinds

-----------------------------------------------------------------------------
(* The chunks of a stream, one after the other.                            *)
Onward(m, c) == [held |-> RestoreChunk(m.held, c).held, chunks |-> m.chunks \o RestoreChunk(m.held, c).chunks]

(* ... has its type.                                                       *)
LEMMA OnwardType ==
  ASSUME NEW m \in Masks, NEW c \in Chunk
  PROVE Onward(m, c) \in Masks
<1>1. m.held \in Text /\ m.chunks \in Chunks
  BY DEF Masks
<1>2. RestoreChunk(m.held, c) \in Masks
  BY <1>1, RestoreChunkType
<1>3. RestoreChunk(m.held, c).held \in Text /\ RestoreChunk(m.held, c).chunks \in Chunks
  BY <1>2 DEF Masks
<1>4. m.chunks \o RestoreChunk(m.held, c).chunks \in Chunks
  BY <1>1, <1>3, ChunkFacts
<1> QED BY <1>3, <1>4, MaskOf DEF Onward

(* RestoreChunks is a fold over the chunks.                                *)
LEMMA RestoreChunksFold ==
  ASSUME NEW held \in Text
  PROVE /\ RestoreChunks(held, <<>>) = [held |-> held, chunks |-> <<>>]
        /\ \A s \in Chunks : RestoreChunks(held, s) \in Masks
        /\ \A s \in Chunks, c \in Chunk : RestoreChunks(held, Append(s, c)) = Onward(RestoreChunks(held, s), c)
<1> DEFINE base == [held |-> held, chunks |-> <<>>]
           step == [p \in Masks \X Chunk |-> Onward(p[1], p[2])]
           passed[given \in Seq(Chunk)] ==
            IF given = <<>> THEN [held |-> held, chunks |-> <<>>]
            ELSE LET before == passed[Front(given)]
                     next == RestoreChunk(before.held, Last(given))
                 IN  [held |-> next.held, chunks |-> before.chunks \o next.chunks]
<1>1. \A s : RestoreChunks(held, s) = passed[s]
  BY Zenon DEF RestoreChunks
<1>2. base \in Masks /\ step \in [Masks \X Chunk -> Masks]
  <2>1. \A p \in Masks \X Chunk : Onward(p[1], p[2]) \in Masks
    BY OnwardType
  <2>2. base \in Masks
    BY ChunkFacts, MaskOf
  <2> QED BY <2>1, <2>2
<1>3. \A m \in Masks, c \in Chunk : step[<<m, c>>] = Onward(m, c)
  OBVIOUS
<1> HIDE DEF base, step
<1>4. Foldable(Chunk, Masks, base, step)
  BY <1>2, SequenceRecursion
<1>5. PICK f \in [Seq(Chunk) -> Masks] : \A s \in Seq(Chunk) :
          f[s] = IF s = <<>> THEN base ELSE step[<<f[Front(s)], Last(s)>>]
  BY <1>4 DEF Foldable
<1> DEFINE body(g, s) == IF s = <<>> THEN base ELSE Onward(g[Front(s)], Last(s))
<1>6. \A s \in Seq(Chunk) : f[s] = body(f, s)
  <2> SUFFICES ASSUME NEW s \in Seq(Chunk), s # <<>> PROVE f[s] = Onward(f[Front(s)], Last(s))
    BY <1>5
  <2>1. Front(s) \in Seq(Chunk) /\ Last(s) \in Chunk
    BY FrontAndLast
  <2>2. f[Front(s)] \in Masks
    BY <2>1
  <2> QED BY <1>3, <1>5, <2>1, <2>2
<1>7. f = [s \in Seq(Chunk) |-> body(f, s)]
  BY <1>6
<1>8. passed = CHOOSE g : g = [s \in Seq(Chunk) |-> body(g, s)]
  BY Zenon DEF Onward, base
<1> HIDE DEF passed
<1>9. passed = [s \in Seq(Chunk) |-> body(passed, s)]
  BY <1>7, <1>8
<1>10. \A s \in Seq(Chunk) : passed[s] = body(passed, s)
  BY <1>9
<1>11. passed[<<>>] = base
  <2>1. <<>> \in Seq(Chunk)
    BY ChunkFacts DEF Chunks
  <2> QED BY <1>10, <2>1
<1>12. ASSUME NEW s \in Seq(Chunk), s # <<>>, passed[Front(s)] \in Masks
       PROVE passed[s] = step[<<passed[Front(s)], Last(s)>>]
  BY <1>3, <1>10, <1>12, FrontAndLast
<1>13. Folds(Chunk, Masks, base, step, passed)
  BY <1>2, <1>11, <1>12, FoldOf
<1>14. /\ passed[<<>>] = base
       /\ \A s \in Seq(Chunk) : passed[s] \in Masks
       /\ \A s \in Seq(Chunk), c \in Chunk : passed[Append(s, c)] = step[<<passed[s], c>>]
  BY <1>13 DEF Folds
<1>15. \A s \in Seq(Chunk), c \in Chunk : passed[Append(s, c)] = Onward(passed[s], c)
  BY <1>3, <1>14
<1> QED BY <1>1, <1>14, <1>15 DEF Chunks, base

(* A stop's reason, if there was a stop.                                   *)
Stopped == StopReason \union {NoStop}

Rounds == [calls : Seq(Call), stopReason : Stopped, usage : Nat, text : Text]
Shown == [parser : Parser, segments : Segments]
Hearings == [round : Rounds, shown : Shown]

(* What the orchestrator has heard of a round, and what the handler has    *)
(* shown.                                                                  *)
LEMMA HearingParts ==
  /\ \A w \in Hearings :
        /\ w.round \in Rounds /\ w.shown \in Shown /\ w = [round |-> w.round, shown |-> w.shown]
        /\ w.round.calls \in Seq(Call) /\ w.round.stopReason \in Stopped /\ w.round.usage \in Nat /\ w.round.text \in Text
        /\ w.shown.parser \in Parser /\ w.shown.segments \in Segments
  /\ \A r \in Rounds, s \in Shown : [round |-> r, shown |-> s] \in Hearings
  /\ \A c \in Seq(Call), r \in Stopped, u \in Nat, t \in Text :
        [calls |-> c, stopReason |-> r, usage |-> u, text |-> t] \in Rounds
  /\ \A p \in Parser, s \in Segments : [parser |-> p, segments |-> s] \in Shown
BY DEF Hearings, Rounds, Shown

(* What a parser makes of more text, and of the end of it.                 *)
LEMMA PushTextIs ==
  ASSUME NEW p \in Parser, NEW x \in Text
  PROVE /\ PushText(p, x).parser \in Parser /\ PushText(p, x).segments \in Segments
        /\ Short(PushText(p, x).parser)
        /\ \A rest \in Text :
             Rd(p.insideThinking, p.buffer \o (x \o rest))
                = Prepend(PushText(p, x).segments,
                          Rd(PushText(p, x).parser.insideThinking, PushText(p, x).parser.buffer \o rest))
<1> DEFINE b == p.insideThinking
           y == p.buffer
           q == Holding(b, y \o x)
           d == Drain[q]
<1>1. y \in Text /\ b \in BOOLEAN /\ y \o x \in Text
  BY HoldingFacts, TextFacts
<1>2. q \in Parser /\ q.buffer = y \o x /\ q.insideThinking = b
  BY <1>1, HoldingFacts
<1>3. PushText(p, x) = d
  BY DEF PushText
<1> HIDE DEF q
<1>4. d \in DrainResult /\ Short(d.parser) /\ ReadsAs(q, d)
  BY <1>2, Drained
<1>5. d.parser \in Parser /\ d.segments \in Segments
  BY <1>4 DEF DrainResult
<1> HIDE DEF d, b, y
<1>6. ASSUME NEW rest \in Text
      PROVE Rd(b, y \o (x \o rest)) = Prepend(d.segments, Rd(d.parser.insideThinking, d.parser.buffer \o rest))
  <2>1. Rd(b, (y \o x) \o rest) = Prepend(d.segments, Rd(d.parser.insideThinking, d.parser.buffer \o rest))
    BY <1>2, <1>4 DEF ReadsAs
  <2>2. (y \o x) \o rest = y \o (x \o rest)
    BY <1>1, AssocOf
  <2> QED BY <2>1, <2>2
<1>7. p.insideThinking = b /\ p.buffer = y
  BY DEF b, y
<1> QED BY <1>3, <1>4, <1>5, <1>6, <1>7

(* A flush shows what was kept.                                            *)
LEMMA FlushTextIs ==
  ASSUME NEW p \in Parser
  PROVE /\ FlushText(p).parser = Holding(p.insideThinking, <<>>) /\ FlushText(p).parser \in Parser
        /\ FlushText(p).segments = Segment(p.insideThinking, p.buffer) /\ FlushText(p).segments \in Segments
<1>1. p.buffer \in Text /\ p.insideThinking \in BOOLEAN /\ <<>> \in Text
  BY HoldingFacts, TextFacts
<1>2. Holding(p.insideThinking, <<>>) \in Parser /\ Segment(p.insideThinking, p.buffer) \in Segments
  BY <1>1, HoldingFacts, SegmentType
<1> QED BY <1>2 DEF FlushText

(* What is shown after what was shown before.                              *)
GivenTo(s, step) == [parser |-> step.parser, segments |-> s.segments \o step.segments]

(* ... has its type.                                                       *)
LEMMA GivenType ==
  ASSUME NEW s \in Shown, NEW step, step.parser \in Parser, step.segments \in Segments
  PROVE GivenTo(s, step) \in Shown /\ Given(s.segments, step) = GivenTo(s, step)
<1>1. s.segments \in Segments
  BY DEF Shown
<1>2. s.segments \o step.segments \in Segments
  BY <1>1, SegmentsConcat
<1> QED BY <1>2, HearingParts DEF GivenTo, Given

(* The model's EXCEPTs on a round, written out.                            *)
LEMMA RoundExcept ==
  ASSUME NEW r \in Rounds
  PROVE /\ \A v : [r EXCEPT !.text = v]
                  = [calls |-> r.calls, stopReason |-> r.stopReason, usage |-> r.usage, text |-> v]
        /\ \A v : [r EXCEPT !.calls = v]
                  = [calls |-> v, stopReason |-> r.stopReason, usage |-> r.usage, text |-> r.text]
BY DEF Rounds

LEMMA StoppedExcept ==
  ASSUME NEW r \in Rounds, NEW v, NEW u
  PROVE [r EXCEPT !.stopReason = v, !.usage = u]
          = [calls |-> r.calls, stopReason |-> v, usage |-> u, text |-> r.text]
<1>1. [r EXCEPT !.stopReason = v, !.usage = u]
          = [x \in DOMAIN r |-> IF x = "usage" THEN u ELSE IF x = "stopReason" THEN v ELSE r[x]]
  BY DEF Rounds
<1>2. DOMAIN r = {"calls", "stopReason", "usage", "text"}
  BY DEF Rounds
<1> QED BY <1>1, <1>2

(* What is heard of a text, of a call and of the stop.                     *)
LEMMA TakeText ==
  ASSUME NEW w \in Hearings, NEW x \in Text
  PROVE TakeChunk(w, TextOnly(x))
          = [round |-> [calls |-> w.round.calls, stopReason |-> w.round.stopReason,
                        usage |-> w.round.usage, text |-> w.round.text \o x],
             shown |-> GivenTo(w.shown, PushText(w.shown.parser, x))]
<1>1. TextOnly(x).type = "text" /\ TextOnly(x).text = x
  BY DEF TextOnly
<1>2. w.round \in Rounds /\ w.shown \in Shown /\ w.shown.parser \in Parser
  BY HearingParts
<1>3. [w.round EXCEPT !.text = @ \o x]
          = [calls |-> w.round.calls, stopReason |-> w.round.stopReason,
             usage |-> w.round.usage, text |-> w.round.text \o x]
  BY <1>2, RoundExcept
<1>4. Given(w.shown.segments, PushText(w.shown.parser, x)) = GivenTo(w.shown, PushText(w.shown.parser, x))
  BY <1>2, PushTextIs, GivenType
<1> QED BY <1>1, <1>3, <1>4 DEF TakeChunk

LEMMA TakeTool ==
  ASSUME NEW w \in Hearings, NEW call \in Call
  PROVE TakeChunk(w, ToolChunk(call))
          = [round |-> [calls |-> Append(w.round.calls, call), stopReason |-> w.round.stopReason,
                        usage |-> w.round.usage, text |-> w.round.text],
             shown |-> w.shown]
<1>1. ToolChunk(call).type = "tool_use" /\ ToolChunk(call).call = call
  BY DEF ToolChunk
<1>2. w.round \in Rounds
  BY HearingParts
<1>3. [w.round EXCEPT !.calls = Append(@, call)]
          = [calls |-> Append(w.round.calls, call), stopReason |-> w.round.stopReason,
             usage |-> w.round.usage, text |-> w.round.text]
  BY <1>2, RoundExcept
<1> QED BY <1>1, <1>3 DEF TakeChunk

LEMMA TakeStop ==
  ASSUME NEW w \in Hearings, NEW r \in StopReason, NEW u \in Nat
  PROVE TakeChunk(w, StopChunk(r, u))
          = [round |-> [calls |-> w.round.calls, stopReason |-> r,
                        usage |-> Newer(u, w.round.usage), text |-> w.round.text],
             shown |-> GivenTo(w.shown, FlushText(w.shown.parser))]
<1>1. StopChunk(r, u).type = "stop" /\ StopChunk(r, u).stopReason = r /\ StopChunk(r, u).usage = u
  BY DEF StopChunk
<1>2. w.round \in Rounds /\ w.shown \in Shown /\ w.shown.parser \in Parser
  BY HearingParts
<1>3. [w.round EXCEPT !.stopReason = r, !.usage = Newer(u, @)]
          = [calls |-> w.round.calls, stopReason |-> r,
             usage |-> Newer(u, w.round.usage), text |-> w.round.text]
  BY <1>2, StoppedExcept
<1>4. Given(w.shown.segments, FlushText(w.shown.parser)) = GivenTo(w.shown, FlushText(w.shown.parser))
  BY <1>2, FlushTextIs, GivenType
<1> QED BY <1>1, <1>3, <1>4 DEF TakeChunk

(* The newer count is a count.                                             *)
LEMMA NewerType == \A u, v \in Nat : Newer(u, v) \in Nat
BY DEF Newer

(* What is heard of a chunk has its type.                                  *)
LEMMA TakeChunkType ==
  ASSUME NEW w \in Hearings, NEW c \in Chunk
  PROVE TakeChunk(w, c) \in Hearings
<1>1. w.round \in Rounds /\ w.shown \in Shown /\ w.round.calls \in Seq(Call) /\ w.round.stopReason \in Stopped
      /\ w.round.usage \in Nat /\ w.round.text \in Text /\ w.shown.parser \in Parser
  BY HearingParts
<1>2. ASSUME NEW x \in Text, c = TextOnly(x) PROVE TakeChunk(w, c) \in Hearings
  <2> DEFINE t == w.round.text
  <2>1. GivenTo(w.shown, PushText(w.shown.parser, x)) \in Shown
    BY <1>1, PushTextIs, GivenType
  <2>2. t \in Text
    BY <1>1
  <2> HIDE DEF t
  <2>3. t \o x \in Text
    BY <2>2, TextFacts
  <2>4. [calls |-> w.round.calls, stopReason |-> w.round.stopReason,
         usage |-> w.round.usage, text |-> t \o x] \in Rounds
    BY <1>1, <2>3, HearingParts
  <2> QED BY <1>2, <2>1, <2>4, TakeText, HearingParts DEF t
<1>3. ASSUME NEW call \in Call, c = ToolChunk(call) PROVE TakeChunk(w, c) \in Hearings
  <2> DEFINE s == w.round.calls
  <2>2. s \in Seq(Call)
    BY <1>1
  <2> HIDE DEF s
  <2>3. Append(s, call) \in Seq(Call)
    BY <2>2
  <2>4. [calls |-> Append(s, call), stopReason |-> w.round.stopReason,
         usage |-> w.round.usage, text |-> w.round.text] \in Rounds
    BY <1>1, <2>3, HearingParts
  <2>5. TakeChunk(w, c) = [round |-> [calls |-> Append(s, call), stopReason |-> w.round.stopReason,
         usage |-> w.round.usage, text |-> w.round.text], shown |-> w.shown]
    BY <1>3, TakeTool DEF s
  <2> QED BY ZenonT(60), <1>1, <2>4, <2>5, HearingParts
<1>4. ASSUME NEW r \in StopReason, NEW u \in Nat, c = StopChunk(r, u) PROVE TakeChunk(w, c) \in Hearings
  <2>0. r \in Stopped /\ Newer(u, w.round.usage) \in Nat
    BY <1>1, NewerType DEF Stopped
  <2>1. GivenTo(w.shown, FlushText(w.shown.parser)) \in Shown
    BY <1>1, FlushTextIs, GivenType
  <2>2. [calls |-> w.round.calls, stopReason |-> r,
         usage |-> Newer(u, w.round.usage), text |-> w.round.text] \in Rounds
    BY <1>1, <2>0, HearingParts
  <2> QED BY <1>4, <2>1, <2>2, TakeStop, HearingParts
<1> QED BY <1>2, <1>3, <1>4, ChunkKinds

(* Induction over sequences of chunks.                                     *)
LEMMA ChunksInduction ==
  ASSUME NEW T, <<>> \in T, \A s \in Chunks, c \in Chunk : s \in T => Append(s, c) \in T
  PROVE Chunks \subseteq T
BY SequenceInduction DEF Chunks

(* Sequences of chunks put together.                                       *)
LEMMA ChunksAlgebra ==
  /\ \A a \in Chunks : a \o <<>> = a /\ <<>> \o a = a
  /\ \A a, b, c \in Chunks : (a \o b) \o c = a \o (b \o c)
  /\ \A a, b \in Chunks, c \in Chunk : a \o Append(b, c) = Append(a \o b, c)
<1> HIDE DEF Chunk
<1> QED BY DEF Chunks

(* The mask's work on one stretch, then on another.                        *)
Both(m, n) == [held |-> n.held, chunks |-> m.chunks \o n.chunks]

(* Masking two stretches is masking the first, then the second.            *)
LEMMA RestoreConcat ==
  ASSUME NEW held \in Text, NEW a \in Chunks, NEW b \in Chunks
  PROVE RestoreChunks(held, a \o b) = Both(RestoreChunks(held, a), RestoreChunks(RestoreChunks(held, a).held, b))
<1> DEFINE m == RestoreChunks(held, a)
           n(s) == RestoreChunks(m.held, s)
           T == {s \in Chunks : RestoreChunks(held, a \o s) = Both(m, n(s))}
<1>1. m \in Masks /\ m.held \in Text /\ m.chunks \in Chunks /\ m = [held |-> m.held, chunks |-> m.chunks]
  <2>1. m \in Masks
    BY RestoreChunksFold
  <2> HIDE DEF m
  <2> QED BY <2>1 DEF Masks
<1>2. \A s \in Chunks : n(s) \in Masks /\ n(s).held \in Text /\ n(s).chunks \in Chunks
  <2>1. \A s \in Chunks : n(s) \in Masks
    BY <1>1, RestoreChunksFold
  <2> HIDE DEF n
  <2> QED BY <2>1 DEF Masks
<1>3. <<>> \in T
  <2>1. a \o <<>> = a /\ <<>> \in Chunks /\ m.chunks \o <<>> = m.chunks
    BY <1>1, ChunksAlgebra, ChunkFacts
  <2>2. n(<<>>) = [held |-> m.held, chunks |-> <<>>]
    BY <1>1, RestoreChunksFold
  <2>3. Both(m, n(<<>>)) = m
    <3> DEFINE k == n(<<>>)
    <3>1. k.held = m.held /\ k.chunks = <<>>
      BY <2>2
    <3> HIDE DEF k, m
    <3>2. Both(m, k) = [held |-> m.held, chunks |-> m.chunks]
      BY <2>1, <3>1 DEF Both
    <3>3. Both(m, k) = m
      BY <1>1, <3>2
    <3> QED BY <3>3 DEF k
  <2> QED BY <2>1, <2>3
<1>4. ASSUME NEW s \in Chunks, NEW c \in Chunk, RestoreChunks(held, a \o s) = Both(m, n(s))
      PROVE RestoreChunks(held, a \o Append(s, c)) = Both(m, n(Append(s, c)))
  <2>1. a \o Append(s, c) = Append(a \o s, c) /\ a \o s \in Chunks
    BY SMTT(30), ChunksAlgebra, ChunkFacts
  <2>2. RestoreChunks(held, Append(a \o s, c)) = Onward(Both(m, n(s)), c)
    BY <1>4, <2>1, RestoreChunksFold
  <2>3. n(Append(s, c)) = Onward(n(s), c)
    BY <1>1, RestoreChunksFold
  <2> DEFINE k == n(s)
             r == RestoreChunk(k.held, c)
  <2>4. k.chunks \in Chunks /\ k.held \in Text
    BY <1>2
  <2>5. r.chunks \in Chunks
    <3>1. r \in Masks
      BY <2>4, RestoreChunkType
    <3> HIDE DEF r
    <3> QED BY <3>1 DEF Masks
  <2>6. Onward(Both(m, k), c) = Both(m, Onward(k, c))
    <3> HIDE DEF m, k
    <3>1. Both(m, k).held = k.held /\ Both(m, k).chunks = m.chunks \o k.chunks
      BY DEF Both
    <3>2. Onward(k, c) = [held |-> r.held, chunks |-> k.chunks \o r.chunks]
      BY DEF Onward
    <3>3. Onward(Both(m, k), c) = [held |-> r.held, chunks |-> (m.chunks \o k.chunks) \o r.chunks]
      BY <3>1 DEF Onward
    <3>4. (m.chunks \o k.chunks) \o r.chunks = m.chunks \o (k.chunks \o r.chunks)
      <4> DEFINE x == m.chunks
                 y == k.chunks
                 z == r.chunks
      <4>1. x \in Chunks /\ y \in Chunks /\ z \in Chunks
        BY <1>1, <2>4, <2>5
      <4> HIDE DEF x, y, z
      <4>2. (x \o y) \o z = x \o (y \o z)
        BY ZenonT(60), <4>1, ChunksAlgebra
      <4> QED BY <4>2 DEF x, y, z
    <3> HIDE DEF r
    <3> QED BY <3>2, <3>3, <3>4 DEF Both
  <2> QED BY <2>1, <2>2, <2>3, <2>6
<1>5. \A s \in Chunks, c \in Chunk : s \in T => Append(s, c) \in T
  <2>1. \A s \in Chunks, c \in Chunk : Append(s, c) \in Chunks
    BY ChunkFacts
  <2> HIDE DEF m, n
  <2> QED BY <1>4, <2>1
<1> HIDE DEF T
<1>6. b \in T
  BY <1>3, <1>5, ChunksInduction
<1> QED BY <1>6 DEF T

-----------------------------------------------------------------------------

(* HearRegardless is a fold over the chunks.                               *)
LEMMA HearFold ==
  ASSUME NEW w \in Hearings
  PROVE /\ HearRegardless(w, <<>>) = w
        /\ \A s \in Chunks : HearRegardless(w, s) \in Hearings
        /\ \A s \in Chunks, c \in Chunk : HearRegardless(w, Append(s, c)) = TakeChunk(HearRegardless(w, s), c)
<1> DEFINE step == [p \in Hearings \X Chunk |-> TakeChunk(p[1], p[2])]
           heard[given \in Seq(Chunk)] ==
             IF given = <<>> THEN w ELSE TakeChunk(heard[Front(given)], Last(given))
<1>1. \A s : HearRegardless(w, s) = heard[s]
  BY Zenon DEF HearRegardless
<1>2. step \in [Hearings \X Chunk -> Hearings]
  <2>1. \A p \in Hearings \X Chunk : TakeChunk(p[1], p[2]) \in Hearings
    BY TakeChunkType
  <2> QED BY <2>1
<1>3. \A m \in Hearings, c \in Chunk : step[<<m, c>>] = TakeChunk(m, c)
  OBVIOUS
<1> HIDE DEF step
<1>4. Foldable(Chunk, Hearings, w, step)
  BY <1>2, SequenceRecursion
<1>5. PICK f \in [Seq(Chunk) -> Hearings] : \A s \in Seq(Chunk) :
          f[s] = IF s = <<>> THEN w ELSE step[<<f[Front(s)], Last(s)>>]
  BY <1>4 DEF Foldable
<1> DEFINE body(g, s) == IF s = <<>> THEN w ELSE TakeChunk(g[Front(s)], Last(s))
<1>6. \A s \in Seq(Chunk) : f[s] = body(f, s)
  <2> SUFFICES ASSUME NEW s \in Seq(Chunk), s # <<>> PROVE f[s] = TakeChunk(f[Front(s)], Last(s))
    BY <1>5
  <2>1. Front(s) \in Seq(Chunk) /\ Last(s) \in Chunk
    BY FrontAndLast
  <2>2. f[Front(s)] \in Hearings
    BY <2>1
  <2> QED BY <1>3, <1>5, <2>1, <2>2
<1>7. f = [s \in Seq(Chunk) |-> body(f, s)]
  BY <1>6
<1>8. heard = CHOOSE g : g = [s \in Seq(Chunk) |-> body(g, s)]
  BY Zenon
<1> HIDE DEF heard
<1>9. heard = [s \in Seq(Chunk) |-> body(heard, s)]
  BY <1>7, <1>8
<1>10. \A s \in Seq(Chunk) : heard[s] = body(heard, s)
  BY <1>9
<1>11. heard[<<>>] = w
  <2>1. <<>> \in Seq(Chunk)
    BY ChunkFacts DEF Chunks
  <2> QED BY <1>10, <2>1
<1>12. ASSUME NEW s \in Seq(Chunk), s # <<>>, heard[Front(s)] \in Hearings
       PROVE heard[s] = step[<<heard[Front(s)], Last(s)>>]
  BY <1>3, <1>10, <1>12, FrontAndLast
<1>13. Folds(Chunk, Hearings, w, step, heard)
  BY <1>2, <1>11, <1>12, FoldOf
<1>14. /\ heard[<<>>] = w
       /\ \A s \in Seq(Chunk) : heard[s] \in Hearings
       /\ \A s \in Seq(Chunk), c \in Chunk : heard[Append(s, c)] = step[<<heard[s], c>>]
  BY <1>13 DEF Folds
<1>15. \A s \in Seq(Chunk), c \in Chunk : heard[Append(s, c)] = TakeChunk(heard[s], c)
  BY <1>3, <1>14
<1> QED BY <1>1, <1>14, <1>15 DEF Chunks

(* Hearing two stretches is hearing the first, then the second.            *)
LEMMA HearConcat ==
  ASSUME NEW w \in Hearings, NEW a \in Chunks, NEW b \in Chunks
  PROVE HearRegardless(w, a \o b) = HearRegardless(HearRegardless(w, a), b)
<1> DEFINE v == HearRegardless(w, a)
           T == {s \in Chunks : HearRegardless(w, a \o s) = HearRegardless(v, s)}
<1>1. v \in Hearings
  BY HearFold
<1>2. <<>> \in T
  <2>1. a \o <<>> = a /\ <<>> \in Chunks
    BY ChunksAlgebra, ChunkFacts
  <2> QED BY <1>1, <2>1, HearFold
<1>3. ASSUME NEW s \in Chunks, NEW c \in Chunk, HearRegardless(w, a \o s) = HearRegardless(v, s)
      PROVE HearRegardless(w, a \o Append(s, c)) = HearRegardless(v, Append(s, c))
  <2>1. a \o Append(s, c) = Append(a \o s, c) /\ a \o s \in Chunks
    BY SMTT(30), ChunksAlgebra, ChunkFacts
  <2>2. HearRegardless(w, Append(a \o s, c)) = TakeChunk(HearRegardless(w, a \o s), c)
    BY <2>1, HearFold
  <2>3. HearRegardless(v, Append(s, c)) = TakeChunk(HearRegardless(v, s), c)
    BY <1>1, HearFold
  <2> QED BY <1>3, <2>1, <2>2, <2>3
<1>4. \A s \in Chunks, c \in Chunk : s \in T => Append(s, c) \in T
  <2>1. \A s \in Chunks, c \in Chunk : Append(s, c) \in Chunks
    BY ChunkFacts
  <2> HIDE DEF v
  <2> QED BY <1>3, <2>1
<1> HIDE DEF T
<1>5. b \in T
  BY <1>2, <1>4, ChunksInduction
<1> QED BY <1>5 DEF T

-----------------------------------------------------------------------------
(* What is heard of a stream of chunks, the mask between the adapter and   *)
(* the orchestrator: x.held is what the mask holds back, x.w what the      *)
(* orchestrator and the handler's parser made of the rest.                 *)

(* The chunks through the mask, if there is one.                           *)
Passes(m, held, chunks) ==
    IF m THEN RestoreChunks(held, chunks) ELSE [held |-> held, chunks |-> chunks]

(* What it lets through, and holds, has its type.                          *)
LEMMA PassesFacts ==
  ASSUME NEW m \in BOOLEAN, NEW held \in Text
  PROVE /\ \A a \in Chunks : Passes(m, held, a).held \in Text /\ Passes(m, held, a).chunks \in Chunks
        /\ Passes(m, held, <<>>).held = held /\ Passes(m, held, <<>>).chunks = <<>>
<1>1. CASE m = TRUE
  <2>1. \A a : Passes(m, held, a) = RestoreChunks(held, a)
    BY <1>1 DEF Passes
  <2>2. \A a \in Chunks : RestoreChunks(held, a).held \in Text /\ RestoreChunks(held, a).chunks \in Chunks
    <3>1. \A a \in Chunks : RestoreChunks(held, a) \in Masks
      BY RestoreChunksFold
    <3> QED BY <3>1 DEF Masks
  <2>3. RestoreChunks(held, <<>>) = [held |-> held, chunks |-> <<>>]
    BY RestoreChunksFold
  <2> QED BY <2>1, <2>2, <2>3
<1>2. CASE m = FALSE
  <2>1. \A a : Passes(m, held, a) = [held |-> held, chunks |-> a]
    BY <1>2 DEF Passes
  <2> QED BY <2>1
<1> QED BY <1>1, <1>2

(* It works on two stretches as on the first, then the second.             *)
LEMMA PassesConcat ==
  ASSUME NEW m \in BOOLEAN, NEW held \in Text, NEW a \in Chunks, NEW b \in Chunks
  PROVE /\ Passes(m, held, a \o b).held = Passes(m, Passes(m, held, a).held, b).held
        /\ Passes(m, held, a \o b).chunks
              = Passes(m, held, a).chunks \o Passes(m, Passes(m, held, a).held, b).chunks
<1>1. CASE m = TRUE
  <2>1. \A h, s : Passes(m, h, s) = RestoreChunks(h, s)
    BY <1>1 DEF Passes
  <2>2. RestoreChunks(held, a \o b) = Both(RestoreChunks(held, a), RestoreChunks(RestoreChunks(held, a).held, b))
    BY RestoreConcat
  <2>3. RestoreChunks(held, a \o b).held = RestoreChunks(RestoreChunks(held, a).held, b).held
    BY <2>2 DEF Both
  <2>4. RestoreChunks(held, a \o b).chunks
          = RestoreChunks(held, a).chunks \o RestoreChunks(RestoreChunks(held, a).held, b).chunks
    <3> DEFINE x == RestoreChunks(held, a)
               y == RestoreChunks(RestoreChunks(held, a).held, b)
               z == RestoreChunks(held, a \o b)
    <3>1. z = Both(x, y)
      BY <2>2
    <3> HIDE DEF x, y, z
    <3>2. z.chunks = x.chunks \o y.chunks
      BY <3>1 DEF Both
    <3> QED BY <3>2 DEF x, y, z
  <2> QED BY <2>1, <2>3, <2>4
<1>2. CASE m = FALSE
  <2>1. \A h, s : Passes(m, h, s) = [held |-> h, chunks |-> s]
    BY <1>2 DEF Passes
  <2>2. \A h, s : Passes(m, h, s).held = h /\ Passes(m, h, s).chunks = s
    BY <2>1
  <2> QED BY ZenonT(60), <2>2
<1> QED BY <1>1, <1>2

(* What is held back and what is heard.                                    *)
Ears == [held : Text, w : Hearings]
Hears(m, x, chunks) ==
    [held |-> Passes(m, x.held, chunks).held, w |-> HearRegardless(x.w, Passes(m, x.held, chunks).chunks)]

(* ... has its type, piece by piece.                                       *)
LEMMA EarParts ==
  /\ \A x \in Ears : x.held \in Text /\ x.w \in Hearings /\ x = [held |-> x.held, w |-> x.w]
  /\ \A h \in Text, w \in Hearings : [held |-> h, w |-> w] \in Ears
BY DEF Ears

(* Hearing chunks, none, and two stretches of them.                        *)
LEMMA HearsType ==
  ASSUME NEW m \in BOOLEAN, NEW x \in Ears, NEW a \in Chunks
  PROVE Hears(m, x, a) \in Ears
<1>1. x.held \in Text /\ x.w \in Hearings
  BY EarParts
<1>2. Passes(m, x.held, a).held \in Text /\ Passes(m, x.held, a).chunks \in Chunks
  BY <1>1, PassesFacts
<1>3. HearRegardless(x.w, Passes(m, x.held, a).chunks) \in Hearings
  BY <1>1, <1>2, HearFold
<1> QED BY <1>2, <1>3, EarParts DEF Hears

LEMMA HearsNothing ==
  ASSUME NEW m \in BOOLEAN, NEW x \in Ears
  PROVE Hears(m, x, <<>>) = x
<1>1. x.held \in Text /\ x.w \in Hearings /\ x = [held |-> x.held, w |-> x.w]
  BY EarParts
<1>2. HearRegardless(x.w, <<>>) = x.w
  BY <1>1, HearFold
<1>3. Passes(m, x.held, <<>>).held = x.held /\ Passes(m, x.held, <<>>).chunks = <<>>
  BY <1>1, PassesFacts
<1> QED BY <1>1, <1>2, <1>3 DEF Hears

LEMMA HearsConcat ==
  ASSUME NEW m \in BOOLEAN, NEW x \in Ears, NEW a \in Chunks, NEW b \in Chunks
  PROVE Hears(m, x, a \o b) = Hears(m, Hears(m, x, a), b)
<1> DEFINE h == x.held
           w == x.w
           pa == Passes(m, h, a)
           pb == Passes(m, pa.held, b)
           pc == Passes(m, h, a \o b)
<1>1. h \in Text /\ w \in Hearings
  BY EarParts
<1>2. pa.held \in Text /\ pa.chunks \in Chunks /\ pc.held = pb.held /\ pc.chunks = pa.chunks \o pb.chunks
  <2> HIDE DEF h
  <2>1. pa.held \in Text /\ pa.chunks \in Chunks
    BY <1>1, PassesFacts
  <2>2. pc.held = pb.held
    BY <1>1, PassesConcat
  <2>3. pc.chunks = pa.chunks \o pb.chunks
    BY <1>1, PassesConcat, Zenon
  <2> QED BY <2>1, <2>2, <2>3
<1>3. pb.chunks \in Chunks
  BY <1>2, PassesFacts
<1>4. Hears(m, x, a \o b) = [held |-> pc.held, w |-> HearRegardless(w, pc.chunks)]
  BY DEF Hears
<1>5. Hears(m, Hears(m, x, a), b) = [held |-> pb.held, w |-> HearRegardless(HearRegardless(w, pa.chunks), pb.chunks)]
  <2>1. Hears(m, x, a).held = pa.held /\ Hears(m, x, a).w = HearRegardless(w, pa.chunks)
    BY DEF Hears
  <2> HIDE DEF pa, w
  <2> QED BY <2>1 DEF Hears
<1> HIDE DEF pa, pb, pc, h, w
<1>6. HearRegardless(w, pa.chunks \o pb.chunks) = HearRegardless(HearRegardless(w, pa.chunks), pb.chunks)
  BY <1>1, <1>2, <1>3, HearConcat
<1> QED BY <1>2, <1>4, <1>5, <1>6

-----------------------------------------------------------------------------

(* The text a turn shows: restored if the deployment masks, as it is if    *)
(* not.                                                                    *)
LEMMA PutBackFacts ==
  ASSUME NEW m \in BOOLEAN
  PROVE /\ \A x \in Text : PutBack(m, x) \in Text
        /\ PutBack(m, <<>>) = <<>>
        /\ m = TRUE => \A x : PutBack(m, x) = Restored(x)
        /\ m = FALSE => \A x : PutBack(m, x) = x
<1>1. m = TRUE => \A x : PutBack(m, x) = Restored(x)
  BY DEF PutBack, Restored
<1>2. m = FALSE => \A x : PutBack(m, x) = x
  BY DEF PutBack
<1> QED BY <1>1, <1>2, RestoredType, RestoredEmpty

(* What the mask keeps back.                                               *)
Keeps(m, held) ==
    /\ held \in Text /\ TokenFree(held) /\ Len(held) <= MaxTokenLength - 1
    /\ m = FALSE => held = <<>>

(* It may hold nothing.                                                    *)
LEMMA KeepsNothing == \A m : Keeps(m, <<>>)
<1>1. <<>> \in Text /\ Len(<<>>) = 0 /\ MaxTokenLength >= 1 /\ MaxTokenLength \in Nat
  BY TokenFacts, TextFacts
<1>2. TokenFree(<<>>)
  BY <1>1 DEF TokenFree
<1> QED BY <1>1, <1>2 DEF Keeps

(* What it holds is shown as it is.                                        *)
LEMMA KeptIsText ==
  ASSUME NEW m \in BOOLEAN, NEW held, Keeps(m, held)
  PROVE held \in Text /\ PutBack(m, held) = held /\ Len(held) \in Nat /\ Len(held) <= MaxTokenLength - 1
        /\ (m = FALSE => held = <<>>)
<1>1. held \in Text /\ TokenFree(held) /\ Len(held) <= MaxTokenLength - 1 /\ (m = FALSE => held = <<>>)
  BY DEF Keeps
<1>2. Restored(held) = held
  BY <1>1, FreePasses
<1> QED BY <1>1, <1>2, PutBackFacts, TextFacts

(* The text so far, with what is kept back, is the rendering of what was said. *)
Renders(m, held, text, r) ==
    \A rest \in Text : text \o PutBack(m, held \o rest) = r.before \o PutBack(m, r.since \o rest)

(* With nothing held, it is the text.                                      *)
LEMMA RendersItself ==
  ASSUME NEW m, NEW text
  PROVE Renders(m, <<>>, text, [before |-> text, since |-> <<>>])
BY DEF Renders

(* If nothing comes, the text and what is held are all of r.               *)
LEMMA RendersNow ==
  ASSUME NEW m \in BOOLEAN, NEW held, Keeps(m, held), NEW text \in Text, NEW r,
         r.before \in Text, r.since \in Text, Renders(m, held, text, r)
  PROVE text \o PutBack(m, held) = r.before \o PutBack(m, r.since)
<1> DEFINE s == r.since
<1>1. held \in Text /\ <<>> \in Text /\ s \in Text
  BY KeptIsText, TextFacts
<1>2. text \o PutBack(m, held \o <<>>) = r.before \o PutBack(m, s \o <<>>)
  BY <1>1 DEF Renders
<1> HIDE DEF s
<1>3. held \o <<>> = held /\ s \o <<>> = s
  BY <1>1, TextFacts
<1>4. text \o PutBack(m, held) = r.before \o PutBack(m, s)
  BY <1>2, <1>3
<1> QED BY <1>4 DEF s

(* A piece of text on its way through the mask.                            *)
PassedOn(m, held, text, r, t) ==
    \E out \in Text :
        /\ Passes(m, held, TextChunk(t)).chunks = TextChunk(out)
        /\ Keeps(m, Passes(m, held, TextChunk(t)).held)
        /\ Renders(m, Passes(m, held, TextChunk(t)).held, text \o out,
                   [before |-> r.before, since |-> r.since \o t])

(* A text that is not empty is given to Push.                              *)
LEMMA MaskPush ==
  ASSUME NEW held \in Text, NEW t \in Text, t # <<>>
  PROVE Passes(TRUE, held, TextChunk(t)) = Push(held, t)
<1>1. TextChunk(t) = Append(<<>>, TextOnly(t)) /\ TextOnly(t) \in Chunk
  BY TextChunkIs, ChunkFacts
<1>2. RestoreChunks(held, Append(<<>>, TextOnly(t))) = Onward(RestoreChunks(held, <<>>), TextOnly(t))
  BY <1>1, ChunkFacts, RestoreChunksFold
<1>3. RestoreChunks(held, <<>>) = [held |-> held, chunks |-> <<>>]
  BY RestoreChunksFold
<1>4. Onward([held |-> held, chunks |-> <<>>], TextOnly(t))
        = [held |-> Push(held, t).held, chunks |-> <<>> \o Push(held, t).chunks]
  BY RestoreTextIs DEF Onward
<1> DEFINE p == Push(held, t)
<1>5. p.chunks \in Chunks /\ p = [held |-> p.held, chunks |-> p.chunks]
  <2>1. p \in Masks
    BY PushType
  <2> HIDE DEF p
  <2> QED BY <2>1 DEF Masks
<1> HIDE DEF p
<1>6. <<>> \o p.chunks = p.chunks
  BY <1>5, ChunksAlgebra
<1>7. RestoreChunks(held, TextChunk(t)) = p
  BY <1>1, <1>2, <1>3, <1>4, <1>5, <1>6 DEF p
<1> QED BY <1>7 DEF Passes, p

(* The mask renders what was said, and the text behind it.                 *)
LEMMA MaskText ==
  ASSUME StandsApart, NEW m \in BOOLEAN, NEW held, Keeps(m, held), NEW text \in Text, NEW r,
         r.before \in Text, r.since \in Text, Renders(m, held, text, r), NEW t \in Text
  PROVE PassedOn(m, held, text, r, t)
<1> DEFINE s == r.since
           b == r.before
           later == [before |-> b, since |-> s \o t]
<1>1. held \in Text /\ s \in Text /\ b \in Text
  BY KeptIsText
<1>2. \A rest \in Text : text \o PutBack(m, held \o rest) = b \o PutBack(m, s \o rest)
  BY DEF Renders
<1>3. later.before = b /\ later.since = s \o t
  OBVIOUS
<1> HIDE DEF s, b, later
<1>4. ASSUME NEW h \in Text, NEW out \in Text,
             \A rest \in Text : PutBack(m, held \o (t \o rest)) = out \o PutBack(m, h \o rest)
      PROVE Renders(m, h, text \o out, later)
  <2> SUFFICES ASSUME NEW rest \in Text
               PROVE (text \o out) \o PutBack(m, h \o rest) = b \o PutBack(m, (s \o t) \o rest)
    BY <1>3 DEF Renders
  <2>1. t \o rest \in Text /\ h \o rest \in Text
    BY TextFacts
  <2>2. text \o PutBack(m, held \o (t \o rest)) = b \o PutBack(m, s \o (t \o rest))
    BY <1>2, <2>1
  <2>3. s \o (t \o rest) = (s \o t) \o rest
    BY SMTT(30), <1>1, AssocOf
  <2>4. PutBack(m, h \o rest) \in Text
    BY <2>1, PutBackFacts
  <2>5. (text \o out) \o PutBack(m, h \o rest) = text \o (out \o PutBack(m, h \o rest))
    <3> DEFINE q == PutBack(m, h \o rest)
    <3> HIDE DEF q
    <3>1. q \in Text
      BY <2>4 DEF q
    <3>2. (text \o out) \o q = text \o (out \o q)
      BY SMTT(30), <3>1, AssocOf
    <3> QED BY <3>2 DEF q
  <2>6. PutBack(m, held \o (t \o rest)) = out \o PutBack(m, h \o rest)
    BY <1>4
  <2> QED BY <2>2, <2>3, <2>5, <2>6
<1>5. CASE t = <<>>
  <2>1. TextChunk(t) = <<>> /\ TextChunk(<<>>) = <<>> /\ <<>> \in Text
    BY <1>5, TextChunkIs, TextFacts
  <2>2. Passes(m, held, TextChunk(t)).held = held /\ Passes(m, held, TextChunk(t)).chunks = TextChunk(<<>>)
    <3>1. Passes(m, held, <<>>).held = held /\ Passes(m, held, <<>>).chunks = <<>>
      BY <1>1, PassesFacts
    <3> QED BY <2>1, <3>1
  <2>3. \A rest \in Text : PutBack(m, held \o (t \o rest)) = <<>> \o PutBack(m, held \o rest)
    <3> TAKE rest \in Text
    <3>1. t \o rest = rest
      BY <1>5, TextFacts
    <3> DEFINE q == PutBack(m, held \o rest)
    <3>2. held \o rest \in Text
      BY <1>1, TextFacts
    <3>3. q \in Text
      BY <3>2, PutBackFacts
    <3> HIDE DEF q
    <3>4. <<>> \o q = q
      BY <3>3, TextFacts
    <3> QED BY <3>1, <3>4 DEF q
  <2>4. Renders(m, held, text \o <<>>, later)
    BY <1>1, <1>4, <2>1, <2>3
  <2> QED BY <2>1, <2>2, <2>4 DEF PassedOn, later, b, s
<1>6. CASE t # <<>> /\ m = TRUE
  <2>1. PICK out \in Text :
            /\ Push(held, t).chunks = TextChunk(out)
            /\ Push(held, t).held \in Text /\ TokenFree(Push(held, t).held)
            /\ Len(Push(held, t).held) <= MaxTokenLength - 1
            /\ \A rest \in Text :
                  Restored((held \o t) \o rest) = out \o Restored(Push(held, t).held \o rest)
    <3>1. LetsGo(held, t)
      BY <1>1, Pushed
    <3> QED BY <3>1 DEF LetsGo
  <2> DEFINE h == Push(held, t).held
  <2>2. Passes(m, held, TextChunk(t)).held = h /\ Passes(m, held, TextChunk(t)).chunks = TextChunk(out)
    BY <1>1, <1>6, <2>1, MaskPush
  <2>3. Keeps(m, h)
    BY <1>6, <2>1 DEF Keeps
  <2>4. h \in Text /\ \A rest \in Text : Restored((held \o t) \o rest) = out \o Restored(h \o rest)
    BY <2>1
  <2> HIDE DEF h
  <2>5. ASSUME NEW rest \in Text PROVE PutBack(m, held \o (t \o rest)) = out \o PutBack(m, h \o rest)
    <3>1. held \o (t \o rest) = (held \o t) \o rest
      BY SMTT(30), <1>1, AssocOf
    <3>2. Restored((held \o t) \o rest) = out \o Restored(h \o rest)
      BY <2>4
    <3>3. PutBack(m, held \o (t \o rest)) = Restored(held \o (t \o rest)) /\ PutBack(m, h \o rest) = Restored(h \o rest)
      BY <1>6, PutBackFacts
    <3> QED BY <3>1, <3>2, <3>3
  <2>6. Renders(m, h, text \o out, later)
    BY <1>4, <2>4, <2>5
  <2> QED BY <2>2, <2>3, <2>6 DEF PassedOn, later, b, s
<1>7. CASE m = FALSE
  <2>1. Passes(m, held, TextChunk(t)).held = held /\ Passes(m, held, TextChunk(t)).chunks = TextChunk(t)
    BY <1>7 DEF Passes
  <2>2. held = <<>>
    BY <1>7, KeptIsText
  <2>3. ASSUME NEW rest \in Text PROVE PutBack(m, held \o (t \o rest)) = t \o PutBack(m, held \o rest)
    <3>1. held \o (t \o rest) = t \o rest /\ held \o rest = rest
      BY <2>2, TextFacts
    <3> QED BY <1>7, <3>1, PutBackFacts
  <2>4. Renders(m, held, text \o t, later)
    BY <1>1, <1>4, <2>3
  <2> QED BY <2>1, <2>4 DEF PassedOn, later, b, s
<1> QED BY <1>5, <1>6, <1>7

(* Whatever comes behind it, what was read before the round and the        *)
(* round's text read as what the handler was given and what its parser     *)
(* still holds.                                                            *)
Parses(base, text, given) ==
    \A rest \in Text :
        Prepend(base.segments, Rd(base.inside, text \o rest))
            = Prepend(given.segments, Rd(given.parser.insideThinking, given.parser.buffer \o rest))

(* It does still, with a text more.                                        *)
LEMMA ParseText ==
  ASSUME NEW base \in ReadResult, NEW text \in Text, NEW given \in Shown, Parses(base, text, given),
         NEW out \in Text
  PROVE /\ GivenTo(given, PushText(given.parser, out)) \in Shown
        /\ Short(GivenTo(given, PushText(given.parser, out)).parser)
        /\ Parses(base, text \o out, GivenTo(given, PushText(given.parser, out)))
<1> DEFINE p == given.parser
           s == given.segments
           step == PushText(p, out)
           d == step.segments
           q == step.parser
           next == GivenTo(given, step)
<1>1. p \in Parser /\ s \in Segments
  BY DEF Shown
<1>2. /\ q \in Parser /\ d \in Segments /\ Short(q)
      /\ \A rest \in Text :
             Rd(p.insideThinking, p.buffer \o (out \o rest)) = Prepend(d, Rd(q.insideThinking, q.buffer \o rest))
  BY <1>1, PushTextIs
<1>3. next \in Shown /\ next.parser = q /\ next.segments = s \o d
  BY <1>1, <1>2, GivenType DEF GivenTo
<1>4. \A rest \in Text : Prepend(base.segments, Rd(base.inside, text \o rest))
                           = Prepend(s, Rd(p.insideThinking, p.buffer \o rest))
  BY DEF Parses
<1> HIDE DEF p, s, step, d, q, next
<1>5. ASSUME NEW rest \in Text
      PROVE Prepend(base.segments, Rd(base.inside, (text \o out) \o rest))
              = Prepend(s \o d, Rd(q.insideThinking, q.buffer \o rest))
  <2>1. out \o rest \in Text /\ q.buffer \in Text /\ q.insideThinking \in BOOLEAN
    BY <1>2, HoldingFacts, TextFacts
  <2>2. (text \o out) \o rest = text \o (out \o rest)
    BY SMTT(30), AssocOf
  <2>3. Prepend(base.segments, Rd(base.inside, text \o (out \o rest)))
          = Prepend(s, Rd(p.insideThinking, p.buffer \o (out \o rest)))
    BY <1>4, <2>1
  <2> DEFINE r == Rd(q.insideThinking, q.buffer \o rest)
  <2>4. r \in ReadResult
    BY <2>1, RdType, TextFacts
  <2>5. Rd(p.insideThinking, p.buffer \o (out \o rest)) = Prepend(d, r)
    BY <1>2
  <2> HIDE DEF r
  <2>6. Prepend(s \o d, r) = Prepend(s, Prepend(d, r))
    BY <1>1, <1>2, <2>4, PrependTwice
  <2>7. Prepend(base.segments, Rd(base.inside, (text \o out) \o rest)) = Prepend(s \o d, r)
    BY <2>2, <2>3, <2>5, <2>6
  <2> QED BY <2>7 DEF r
<1>6. Parses(base, text \o out, next)
  BY <1>3, <1>5 DEF Parses
<1> QED BY <1>2, <1>3, <1>6 DEF next, step, p

(* Now, with nothing behind it.                                            *)
LEMMA ParsesNow ==
  ASSUME NEW base \in ReadResult, NEW text \in Text, NEW given \in Shown, Parses(base, text, given),
         Short(given.parser)
  PROVE Prepend(base.segments, Rd(base.inside, text))
          = [segments |-> given.segments \o Segment(given.parser.insideThinking, given.parser.buffer),
             inside |-> given.parser.insideThinking]
<1> DEFINE p == given.parser
           b == p.insideThinking
           y == p.buffer
           s == given.segments
<1>1. p \in Parser /\ s \in Segments
  BY DEF Shown
<1>2. b \in BOOLEAN /\ y \in Text /\ <<>> \in Text
  BY <1>1, HoldingFacts, TextFacts
<1>3. Prepend(base.segments, Rd(base.inside, text \o <<>>)) = Prepend(s, Rd(b, y \o <<>>))
  BY <1>2 DEF Parses
<1>4. Len(y) < Len(TagSought(b))
  <2>1. Len(y) <= Len(TagSought(b)) - 1
    BY DEF Short
  <2>2. Len(y) \in Nat /\ Len(TagSought(b)) \in Nat
    BY <1>2, TagFacts, TextFacts
  <2> QED BY <2>1, <2>2
<1> HIDE DEF p, b, y, s
<1>5. text \o <<>> = text /\ y \o <<>> = y
  BY <1>2, TextFacts
<1>6. Rd(b, y) = [segments |-> Segment(b, y), inside |-> b]
  BY <1>2, <1>4, RdShort
<1>7. Prepend(base.segments, Rd(base.inside, text)) = [segments |-> s \o Segment(b, y), inside |-> b]
  BY <1>3, <1>5, <1>6 DEF Prepend
<1> QED BY <1>7 DEF s, b, y, p

-----------------------------------------------------------------------------

(* No call, stop or count came.                                            *)
Same(x, y) == /\ y.w.round.calls = x.w.round.calls
              /\ y.w.round.stopReason = x.w.round.stopReason
              /\ y.w.round.usage = x.w.round.usage

(* What is heard of a text.                                                *)
LEMMA HearText ==
  ASSUME NEW w \in Hearings, NEW out \in Text, NEW base \in ReadResult,
         Parses(base, w.round.text, w.shown), Short(w.shown.parser)
  PROVE /\ HearRegardless(w, TextChunk(out)) \in Hearings
        /\ HearRegardless(w, TextChunk(out)).round.calls = w.round.calls
        /\ HearRegardless(w, TextChunk(out)).round.stopReason = w.round.stopReason
        /\ HearRegardless(w, TextChunk(out)).round.usage = w.round.usage
        /\ HearRegardless(w, TextChunk(out)).round.text = w.round.text \o out
        /\ Short(HearRegardless(w, TextChunk(out)).shown.parser)
        /\ Parses(base, w.round.text \o out, HearRegardless(w, TextChunk(out)).shown)
<1> DEFINE t == w.round.text
           v == HearRegardless(w, TextChunk(out))
<1>1. t \in Text /\ w.shown \in Shown
  BY HearingParts
<1>2. v \in Hearings
  BY TextChunkIs, HearFold
<1>3. CASE out = <<>>
  <2>1. v = w
    BY <1>3, TextChunkIs, HearFold
  <2>2. t \o out = t
    <3> HIDE DEF t
    <3> QED BY <1>1, <1>3, TextFacts
  <2> QED BY <1>2, <2>1, <2>2
<1>4. CASE out # <<>>
  <2>1. TextChunk(out) = Append(<<>>, TextOnly(out)) /\ TextOnly(out) \in Chunk /\ <<>> \in Chunks
    BY <1>4, TextChunkIs, ChunkFacts
  <2>2. v = TakeChunk(w, TextOnly(out))
    <3>1. HearRegardless(w, Append(<<>>, TextOnly(out))) = TakeChunk(HearRegardless(w, <<>>), TextOnly(out))
      BY <2>1, HearFold
    <3>2. HearRegardless(w, <<>>) = w
      BY HearFold
    <3> QED BY <2>1, <3>1, <3>2
  <2>3. v.shown = GivenTo(w.shown, PushText(w.shown.parser, out)) /\ v.round.calls = w.round.calls
        /\ v.round.stopReason = w.round.stopReason /\ v.round.usage = w.round.usage /\ v.round.text = t \o out
    BY <2>2, TakeText
  <2> HIDE DEF v, t
  <2>4. Short(v.shown.parser) /\ Parses(base, t \o out, v.shown)
    <3>1. Parses(base, t, w.shown)
      BY DEF t
    <3> QED BY <1>1, <2>3, <3>1, ParseText
  <2> QED BY <1>2, <2>3, <2>4 DEF v, t
<1> QED BY <1>3, <1>4

(* The mask, the round and the parser, in step with what was said.         *)
Listens(m, base, x, r) ==
    /\ x \in Ears /\ Keeps(m, x.held) /\ Short(x.w.shown.parser)
    /\ Parses(base, x.w.round.text, x.w.shown)
    /\ Renders(m, x.held, x.w.round.text, r)

(* What has been said, up to the last call and since.                      *)
RenderingType == [before : Text, since : Text]

(* Hearing a text goes on so.                                              *)
LEMMA HearsText ==
  ASSUME StandsApart, NEW m \in BOOLEAN, NEW base \in ReadResult, NEW x, NEW r \in RenderingType, Listens(m, base, x, r),
         NEW t \in Text
  PROVE /\ Listens(m, base, Hears(m, x, TextChunk(t)), [before |-> r.before, since |-> r.since \o t])
        /\ Same(x, Hears(m, x, TextChunk(t)))
<1> DEFINE h == x.held
           w == x.w
           p == Passes(m, h, TextChunk(t))
           v == HearRegardless(w, p.chunks)
           text == w.round.text
           y == Hears(m, x, TextChunk(t))
           later == [before |-> r.before, since |-> r.since \o t]
<1>1. x \in Ears /\ Keeps(m, h) /\ Short(w.shown.parser) /\ Parses(base, text, w.shown) /\ Renders(m, h, text, r)
  BY DEF Listens
<1>2. h \in Text /\ w \in Hearings /\ text \in Text /\ r.before \in Text /\ r.since \in Text
  BY <1>1, EarParts, HearingParts DEF RenderingType
<1>3. PassedOn(m, h, text, r, t)
  BY <1>1, <1>2, MaskText
<1>4. PICK out \in Text : p.chunks = TextChunk(out) /\ Keeps(m, p.held) /\ Renders(m, p.held, text \o out, later)
  BY <1>3 DEF PassedOn
<1>5. /\ v \in Hearings /\ v.round.calls = w.round.calls /\ v.round.stopReason = w.round.stopReason
      /\ v.round.usage = w.round.usage /\ v.round.text = text \o out /\ Short(v.shown.parser)
      /\ Parses(base, text \o out, v.shown)
  <2>1. v = HearRegardless(w, TextChunk(out))
    BY <1>4
  <2>2. Parses(base, w.round.text, w.shown) /\ Short(w.shown.parser) /\ w \in Hearings
    BY <1>1, <1>2
  <2> HIDE DEF w, v, p
  <2> QED BY <2>1, <2>2, HearText
<1>6. y = [held |-> p.held, w |-> v]
  BY DEF Hears
<1>7. p.held \in Text
  BY <1>2, TextChunkIs, PassesFacts
<1> HIDE DEF h, w, p, v, text, y, later
<1>8. y.held = p.held /\ y.w = v /\ y \in Ears
  BY <1>5, <1>6, <1>7, EarParts
<1>9. Listens(m, base, y, later)
  BY <1>4, <1>5, <1>8 DEF Listens
<1>10. Same(x, y)
  BY <1>5, <1>8 DEF Same, w
<1> QED BY <1>9, <1>10 DEF y, later

(* The mask lets go of what it held.                                       *)
Emptied(m, base, x, y) ==
    /\ y \in Ears /\ y.held = <<>> /\ Short(y.w.shown.parser)
    /\ Parses(base, y.w.round.text, y.w.shown)
    /\ y.w.round.text = x.w.round.text \o x.held

(* The parser reads on, and no call, stop or count came.                   *)
LEMMA EmptiedFacts ==
  ASSUME NEW m \in BOOLEAN, NEW base \in ReadResult, NEW x \in Ears, Keeps(m, x.held), Short(x.w.shown.parser),
         Parses(base, x.w.round.text, x.w.shown)
  PROVE /\ Emptied(m, base, x, [held |-> <<>>, w |-> HearRegardless(x.w, TextChunk(x.held))])
        /\ Same(x, [held |-> <<>>, w |-> HearRegardless(x.w, TextChunk(x.held))])
<1> DEFINE h == x.held
           w == x.w
           v == HearRegardless(w, TextChunk(h))
           y == [held |-> <<>>, w |-> v]
<1>1. h \in Text /\ w \in Hearings /\ <<>> \in Text
  BY EarParts, TextFacts
<1>2. /\ v \in Hearings /\ v.round.calls = w.round.calls /\ v.round.stopReason = w.round.stopReason
      /\ v.round.usage = w.round.usage /\ v.round.text = w.round.text \o h /\ Short(v.shown.parser)
      /\ Parses(base, w.round.text \o h, v.shown)
  BY <1>1, HearText
<1> HIDE DEF v
<1>3. y.held = <<>> /\ y.w = v /\ y \in Ears
  BY <1>1, <1>2, EarParts
<1> HIDE DEF y
<1>4. Emptied(m, base, x, y)
  BY <1>2, <1>3 DEF Emptied
<1>5. Same(x, y)
  BY <1>2, <1>3 DEF Same
<1> QED BY <1>4, <1>5 DEF y, v

(* The last of some chunks is heard last.                                  *)
LEMMA OneChunk ==
  ASSUME NEW w \in Hearings, NEW a \in Chunks, NEW c \in Chunk
  PROVE HearRegardless(w, a \o <<c>>) = TakeChunk(HearRegardless(w, a), c)
<1>1. HearRegardless(w, Append(a, c)) = TakeChunk(HearRegardless(w, a), c)
  BY HearFold
<1>2. Append(a, c) = a \o <<c>>
  BY ChunkFacts
<1> QED BY <1>1, <1>2

(* The mask's work on one chunk.                                           *)
LEMMA PassesOne ==
  ASSUME NEW held \in Text, NEW c \in Chunk
  PROVE Passes(TRUE, held, <<c>>).held = RestoreChunk(held, c).held
        /\ Passes(TRUE, held, <<c>>).chunks = RestoreChunk(held, c).chunks
<1>1. <<c>> = Append(<<>>, c)
  OBVIOUS
<1>2. RestoreChunks(held, Append(<<>>, c)) = Onward(RestoreChunks(held, <<>>), c)
  BY ChunkFacts, RestoreChunksFold
<1>3. RestoreChunks(held, <<>>) = [held |-> held, chunks |-> <<>>]
  BY RestoreChunksFold
<1> DEFINE p == RestoreChunk(held, c)
<1>4. Onward([held |-> held, chunks |-> <<>>], c) = [held |-> p.held, chunks |-> <<>> \o p.chunks]
  BY DEF Onward
<1>5. p.chunks \in Chunks
  <2>1. p \in Masks
    BY RestoreChunkType
  <2> HIDE DEF p
  <2> QED BY <2>1 DEF Masks
<1> HIDE DEF p
<1>6. <<>> \o p.chunks = p.chunks
  BY <1>5, ChunksAlgebra
<1>7. RestoreChunks(held, <<c>>) = [held |-> p.held, chunks |-> p.chunks]
  BY <1>1, <1>2, <1>3, <1>4, <1>6
<1>8. Passes(TRUE, held, <<c>>) = [held |-> p.held, chunks |-> p.chunks]
  BY <1>7 DEF Passes
<1> DEFINE q == Passes(TRUE, held, <<c>>)
<1>9. q = [held |-> p.held, chunks |-> p.chunks]
  BY <1>8
<1> HIDE DEF q
<1>10. q.held = p.held /\ q.chunks = p.chunks
  BY <1>9
<1> QED BY <1>10 DEF p, q

(* What was held goes before a call, which keeps its id.                   *)
LetsGoBefore(m, held, call) ==
    \E c \in Call : /\ c.id = call.id
                    /\ Passes(m, held, <<ToolChunk(call)>>).held = <<>>
                    /\ Passes(m, held, <<ToolChunk(call)>>).chunks = TextChunk(held) \o <<ToolChunk(c)>>

(* So it does with every call, and with the stop.                          *)
LEMMA PassesTool ==
  ASSUME NEW m \in BOOLEAN, NEW held, Keeps(m, held), NEW call \in Call
  PROVE LetsGoBefore(m, held, call)
<1>1. held \in Text /\ (m = FALSE => held = <<>>)
  BY KeptIsText
<1>2. CASE m = TRUE
  <2>1. Restored(held) = held
    BY <1>1, FreePasses DEF Keeps
  <2>2. RestoreChunk(held, ToolChunk(call))
          = [held |-> <<>>, chunks |-> TextChunk(held) \o <<ToolChunk(RestoredCall(call))>>]
    BY <1>1, <2>1, RestoreToolIs
  <2>3. RestoredCall(call) \in Call /\ RestoredCall(call).id = call.id
    BY RestoredCallIs DEF RestoredCall
  <2>4. ToolChunk(call) \in Chunk
    BY ChunkFacts
  <2> DEFINE q == RestoreChunk(held, ToolChunk(call))
             c == RestoredCall(call)
             t == TextChunk(held) \o <<ToolChunk(c)>>
  <2>5. q.held = <<>> /\ q.chunks = t
    BY <2>2
  <2>6. Passes(TRUE, held, <<ToolChunk(call)>>).held = q.held
        /\ Passes(TRUE, held, <<ToolChunk(call)>>).chunks = q.chunks
    BY <1>1, <2>4, PassesOne
  <2> HIDE DEF q
  <2>7. Passes(m, held, <<ToolChunk(call)>>).held = <<>>
        /\ Passes(m, held, <<ToolChunk(call)>>).chunks = TextChunk(held) \o <<ToolChunk(c)>>
    BY <1>2, <2>5, <2>6
  <2> HIDE DEF c
  <2>8. c \in Call /\ c.id = call.id
    BY <2>3 DEF c
  <2> QED BY <2>7, <2>8 DEF LetsGoBefore
<1>3. CASE m = FALSE
  <2>1. held = <<>> /\ TextChunk(held) = <<>>
    BY <1>1, <1>3, TextChunkIs
  <2>2. Passes(m, held, <<ToolChunk(call)>>).held = <<>>
        /\ Passes(m, held, <<ToolChunk(call)>>).chunks = <<ToolChunk(call)>>
    BY <1>3, <2>1 DEF Passes
  <2>3. <<>> \o <<ToolChunk(call)>> = <<ToolChunk(call)>>
    BY ChunkFacts, ChunksAlgebra
  <2> QED BY <2>1, <2>2, <2>3 DEF LetsGoBefore
<1> QED BY <1>2, <1>3

LEMMA PassesStop ==
  ASSUME NEW m \in BOOLEAN, NEW held, Keeps(m, held), NEW r \in StopReason, NEW u \in Nat
  PROVE /\ Passes(m, held, <<StopChunk(r, u)>>).held = <<>>
        /\ Passes(m, held, <<StopChunk(r, u)>>).chunks = TextChunk(held) \o <<StopChunk(r, u)>>
<1>1. held \in Text /\ (m = FALSE => held = <<>>)
  BY KeptIsText
<1>2. CASE m = TRUE
  <2>1. Restored(held) = held
    BY <1>1, FreePasses DEF Keeps
  <2>2. RestoreChunk(held, StopChunk(r, u))
          = [held |-> <<>>, chunks |-> TextChunk(held) \o <<StopChunk(r, u)>>]
    BY <1>1, <2>1, RestoreStopIs
  <2>3. StopChunk(r, u) \in Chunk
    BY ChunkFacts
  <2> DEFINE q == RestoreChunk(held, StopChunk(r, u))
             t == TextChunk(held) \o <<StopChunk(r, u)>>
  <2>4. q.held = <<>> /\ q.chunks = t
    BY <2>2
  <2>5. Passes(TRUE, held, <<StopChunk(r, u)>>).held = q.held
        /\ Passes(TRUE, held, <<StopChunk(r, u)>>).chunks = q.chunks
    BY <1>1, <2>3, PassesOne
  <2> HIDE DEF q
  <2> QED BY <1>2, <2>4, <2>5
<1>3. CASE m = FALSE
  <2>1. held = <<>> /\ TextChunk(held) = <<>>
    BY <1>1, <1>3, TextChunkIs
  <2>2. Passes(m, held, <<StopChunk(r, u)>>).held = <<>>
        /\ Passes(m, held, <<StopChunk(r, u)>>).chunks = <<StopChunk(r, u)>>
    BY <1>3, <2>1 DEF Passes
  <2>3. <<>> \o <<StopChunk(r, u)>> = <<StopChunk(r, u)>>
    BY ChunkFacts, ChunksAlgebra
  <2> QED BY <2>1, <2>2, <2>3
<1> QED BY <1>2, <1>3

(* What a call and a stop find once the mask has let go.                   *)
Released(x) == [held |-> <<>>, w |-> HearRegardless(x.w, TextChunk(x.held))]

(* Between chunks, the text is read, whatever was said.                    *)
Ready(m, base, x) ==
    /\ x \in Ears /\ Keeps(m, x.held) /\ Short(x.w.shown.parser)
    /\ Parses(base, x.w.round.text, x.w.shown)

(* What was held is heard, and nothing else.                               *)
LEMMA ReleasedFacts ==
  ASSUME NEW m \in BOOLEAN, NEW base \in ReadResult, NEW x, Ready(m, base, x)
  PROVE Emptied(m, base, x, Released(x)) /\ Same(x, Released(x))
BY EmptiedFacts DEF Ready, Released

(* What was held is heard, then the call.                                  *)
HeardCall(m, base, x, call, y) ==
    /\ Ready(m, base, y) /\ y.held = <<>>
    /\ y.w.round.text = x.w.round.text \o x.held
    /\ \E c \in Call : c.id = call.id /\ y.w.round.calls = Append(x.w.round.calls, c)
    /\ y.w.round.stopReason = x.w.round.stopReason /\ y.w.round.usage = x.w.round.usage

(* So it is with every call.                                               *)
LEMMA HearsTool ==
  ASSUME NEW m \in BOOLEAN, NEW base \in ReadResult, NEW x, Ready(m, base, x), NEW call \in Call
  PROVE HeardCall(m, base, x, call, Hears(m, x, <<ToolChunk(call)>>))
<1> DEFINE e == Released(x)
           y == Hears(m, x, <<ToolChunk(call)>>)
<1>1. Emptied(m, base, x, e) /\ Same(x, e) /\ x \in Ears /\ Keeps(m, x.held)
  BY ReleasedFacts DEF Ready
<1>2. x.w \in Hearings /\ x.held \in Text /\ e.w \in Hearings
  BY <1>1, EarParts DEF Emptied
<1>3. PICK c \in Call : /\ c.id = call.id
                        /\ Passes(m, x.held, <<ToolChunk(call)>>).held = <<>>
                        /\ Passes(m, x.held, <<ToolChunk(call)>>).chunks = TextChunk(x.held) \o <<ToolChunk(c)>>
  <2>1. LetsGoBefore(m, x.held, call)
    BY <1>1, PassesTool
  <2> QED BY <2>1 DEF LetsGoBefore
<1>4. y.held = <<>> /\ y.w = HearRegardless(x.w, TextChunk(x.held) \o <<ToolChunk(c)>>)
  BY <1>3 DEF Hears
<1>5. e.w = HearRegardless(x.w, TextChunk(x.held))
  BY DEF Released
<1>6. TextChunk(x.held) \in Chunks /\ ToolChunk(c) \in Chunk
  BY <1>2, TextChunkIs, ChunkFacts
<1>7. y.w = TakeChunk(e.w, ToolChunk(c))
  BY <1>2, <1>4, <1>5, <1>6, OneChunk
<1> HIDE DEF e, y
<1>8. /\ y.w.shown = e.w.shown /\ y.w.round.calls = Append(e.w.round.calls, c)
      /\ y.w.round.stopReason = e.w.round.stopReason /\ y.w.round.usage = e.w.round.usage
      /\ y.w.round.text = e.w.round.text
  BY SMTT(30), <1>2, <1>7, TakeTool
<1>9. y \in Ears
  <2>1. y.w \in Hearings
    BY <1>2, <1>6, <1>7, TakeChunkType
  <2>2. y = [held |-> y.held, w |-> y.w]
    BY DEF y, Hears
  <2> QED BY <1>4, <2>1, <2>2, EarParts, TextFacts
<1>10. Ready(m, base, y)
  BY <1>1, <1>4, <1>8, <1>9, KeepsNothing DEF Emptied, Ready
<1> QED BY <1>1, <1>3, <1>4, <1>8, <1>10 DEF HeardCall, Same, Emptied, y

(* All of the round has been read, and the parser holds nothing.           *)
Finished(base, x) ==
    /\ x.w.shown.parser.buffer = <<>>
    /\ Prepend(base.segments, Rd(base.inside, x.w.round.text))
         = [segments |-> x.w.shown.segments, inside |-> x.w.shown.parser.insideThinking]

(* What was held is heard, then the stop: its reason, its count if it has  *)
(* one, and no text is left anywhere.                                      *)
HeardStop(base, x, r, u, y) ==
    /\ y \in Ears /\ y.held = <<>> /\ Finished(base, y)
    /\ y.w.round.text = x.w.round.text \o x.held
    /\ y.w.round.calls = x.w.round.calls
    /\ y.w.round.stopReason = r /\ y.w.round.usage = Newer(u, x.w.round.usage)

(* So it is with every stop.                                               *)
LEMMA HearsStop ==
  ASSUME NEW m \in BOOLEAN, NEW base \in ReadResult, NEW x, Ready(m, base, x), NEW r \in StopReason, NEW u \in Nat
  PROVE HeardStop(base, x, r, u, Hears(m, x, <<StopChunk(r, u)>>))
<1> DEFINE e == Released(x)
           y == Hears(m, x, <<StopChunk(r, u)>>)
           p == e.w.shown.parser
<1>1. Emptied(m, base, x, e) /\ Same(x, e) /\ x \in Ears /\ Keeps(m, x.held)
  BY ReleasedFacts DEF Ready
<1>2. x.w \in Hearings /\ x.held \in Text /\ e.w \in Hearings
  BY <1>1, EarParts DEF Emptied
<1>3. Passes(m, x.held, <<StopChunk(r, u)>>).held = <<>>
      /\ Passes(m, x.held, <<StopChunk(r, u)>>).chunks = TextChunk(x.held) \o <<StopChunk(r, u)>>
  BY <1>1, PassesStop
<1>4. y.held = <<>> /\ y.w = HearRegardless(x.w, TextChunk(x.held) \o <<StopChunk(r, u)>>)
  BY <1>3 DEF Hears
<1>5. e.w = HearRegardless(x.w, TextChunk(x.held))
  BY DEF Released
<1>6. TextChunk(x.held) \in Chunks /\ StopChunk(r, u) \in Chunk
  BY <1>2, TextChunkIs, ChunkFacts
<1>7. y.w = TakeChunk(e.w, StopChunk(r, u))
  BY <1>2, <1>4, <1>5, <1>6, OneChunk
<1>8. y \in Ears
  <2>1. y.w \in Hearings
    BY <1>2, <1>6, <1>7, TakeChunkType
  <2>2. y = [held |-> y.held, w |-> y.w]
    BY DEF Hears
  <2> HIDE DEF y
  <2> QED BY <1>4, <2>1, <2>2, EarParts, TextFacts
<1> HIDE DEF e, y
<1>9. /\ y.w.shown = GivenTo(e.w.shown, FlushText(p)) /\ y.w.round.calls = e.w.round.calls
      /\ y.w.round.stopReason = r /\ y.w.round.usage = Newer(u, e.w.round.usage)
      /\ y.w.round.text = e.w.round.text
  BY <1>2, <1>7, TakeStop
<1>10. p \in Parser /\ e.w.shown \in Shown /\ e.w.round.text \in Text
  BY <1>2, HearingParts
<1>11. FlushText(p).parser = Holding(p.insideThinking, <<>>) /\ FlushText(p).segments = Segment(p.insideThinking, p.buffer)
       /\ Holding(p.insideThinking, <<>>).buffer = <<>> /\ Holding(p.insideThinking, <<>>).insideThinking = p.insideThinking
  BY SMTT(30), <1>10, FlushTextIs, HoldingFacts, TextFacts
<1>12. Prepend(base.segments, Rd(base.inside, e.w.round.text))
         = [segments |-> e.w.shown.segments \o Segment(p.insideThinking, p.buffer), inside |-> p.insideThinking]
  BY <1>1, <1>10, ParsesNow DEF Emptied
<1> DEFINE g == e.w.shown.segments
           f == FlushText(p)
           s == y.w.shown
<1>13. y.w.shown.parser = Holding(p.insideThinking, <<>>)
       /\ y.w.shown.segments = e.w.shown.segments \o Segment(p.insideThinking, p.buffer)
  <2>1. s = [parser |-> f.parser, segments |-> g \o f.segments]
    BY <1>9 DEF GivenTo
  <2> HIDE DEF f, s, g
  <2>2. s.parser = f.parser /\ s.segments = g \o f.segments
    BY <2>1
  <2> QED BY <1>11, <2>2 DEF f, s, g
<1>14. Finished(base, y)
  BY <1>9, <1>11, <1>12, <1>13 DEF Finished
<1> QED BY <1>1, <1>4, <1>8, <1>9, <1>14 DEF HeardStop, Same, Emptied, y

(* A sequence, every element of it replaced; and these put together.       *)

-----------------------------------------------------------------------------
(* What a vendor says: utterances, each some text or a call, and what they *)
(* render to.                                                              *)

(* f of every element, and the sequences it gives put together.            *)
Mapped(f, s) == [i \in DOMAIN s |-> f[s[i]]]
Flat(f, s) == FlattenSeq(Mapped(f, s))

(* ... of nothing, its type, its elements, of one element more.            *)
LEMMA MappedEmpty == \A f : Mapped(f, <<>>) = <<>>
BY DEF Mapped

LEMMA MappedType ==
  ASSUME NEW A, NEW B, NEW f \in [A -> B], NEW s \in Seq(A)
  PROVE Mapped(f, s) \in Seq(B)
<1>1. DOMAIN s = 1..Len(s) /\ Len(s) \in Nat /\ \A i \in 1..Len(s) : s[i] \in A
  OBVIOUS
<1>2. Mapped(f, s) = [i \in 1..Len(s) |-> f[s[i]]]
  BY <1>1 DEF Mapped
<1>3. Mapped(f, s) \in [1..Len(s) -> B]
  BY <1>1, <1>2
<1> QED BY <1>1, <1>3, LenProperties, SeqDef

LEMMA MappedLength ==
  ASSUME NEW A, NEW f, NEW s \in Seq(A)
  PROVE Len(Mapped(f, s)) = Len(s) /\ \A i \in 1..Len(s) : Mapped(f, s)[i] = f[s[i]]
<1>1. DOMAIN s = 1..Len(s) /\ Len(s) \in Nat
  OBVIOUS
<1>2. Mapped(f, s) = [i \in 1..Len(s) |-> f[s[i]]]
  BY <1>1 DEF Mapped
<1> QED BY <1>1, <1>2

LEMMA MappedAppend ==
  ASSUME NEW A, NEW B, NEW f \in [A -> B], NEW s \in Seq(A), NEW x \in A
  PROVE Mapped(f, Append(s, x)) = Append(Mapped(f, s), f[x])
<1> DEFINE l == Mapped(f, Append(s, x))
           r == Append(Mapped(f, s), f[x])
           n == Len(s)
<1>1. Append(s, x) \in Seq(A) /\ n \in Nat /\ Len(Append(s, x)) = n + 1
  OBVIOUS
<1> DEFINE t == Append(s, x)
<1>2. l \in Seq(B) /\ Len(l) = n + 1 /\ Mapped(f, s) \in Seq(B) /\ Len(Mapped(f, s)) = n
  <2>1. Mapped(f, s) \in Seq(B) /\ Len(Mapped(f, s)) = n
    BY MappedType, MappedLength
  <2>2. t \in Seq(A) /\ Len(t) = n + 1
    BY <1>1
  <2> HIDE DEF t
  <2>3. Mapped(f, t) \in Seq(B) /\ Len(Mapped(f, t)) = n + 1
    BY <2>2, MappedType, MappedLength
  <2> QED BY <2>1, <2>3 DEF t
<1>3. r \in Seq(B) /\ Len(r) = n + 1
  BY <1>1, <1>2
<1>4. ASSUME NEW i \in 1..(n + 1)
      PROVE l[i] = r[i]
  <2>1. l[i] = f[Append(s, x)[i]]
    BY <1>1 DEF Mapped
  <2>2. CASE i = n + 1
    BY <1>1, <1>2, <2>1, <2>2
  <2>3. CASE i \in 1..n
    <3>1. Append(s, x)[i] = s[i] /\ r[i] = Mapped(f, s)[i]
      BY <1>1, <1>2, <2>3
    <3>2. Mapped(f, s)[i] = f[s[i]]
      BY <2>3 DEF Mapped
    <3> QED BY <2>1, <3>1, <3>2
  <2>4. i = n + 1 \/ i \in 1..n
    BY <1>1
  <2> QED BY <2>2, <2>3, <2>4
<1> HIDE DEF l, r
<1>5. l = r
  BY <1>1, <1>2, <1>3, <1>4, SeqEqual
<1> QED BY <1>5 DEF l, r

(* Flat is a fold.                                                         *)
LEMMA FlatFacts ==
  ASSUME NEW A, NEW B, NEW f \in [A -> Seq(B)]
  PROVE /\ Flat(f, <<>>) = <<>>
        /\ \A s \in Seq(A) : Flat(f, s) \in Seq(B)
        /\ \A s \in Seq(A), x \in A : Flat(f, Append(s, x)) = Flat(f, s) \o f[x]
<1>1. Flat(f, <<>>) = <<>>
  BY MappedEmpty, FlattenEmpty DEF Flat
<1>2. ASSUME NEW s \in Seq(A)
      PROVE Flat(f, s) \in Seq(B)
  <2>1. Mapped(f, s) \in Seq(Seq(B)) /\ <<>> \in Seq(B)
    BY MappedType
  <2> QED BY <2>1, FlattenAppend DEF Flat
<1>3. ASSUME NEW s \in Seq(A), NEW x \in A
      PROVE Flat(f, Append(s, x)) = Flat(f, s) \o f[x]
  <2>1. Mapped(f, s) \in Seq(Seq(B)) /\ f[x] \in Seq(B)
    BY MappedType
  <2>2. Mapped(f, Append(s, x)) = Append(Mapped(f, s), f[x])
    BY MappedAppend
  <2> QED BY <2>1, <2>2, FlattenAppend DEF Flat
<1> QED BY <1>1, <1>2, <1>3

(* What was said, in order.                                                *)
Sayings == Seq(Utterance)

(* An utterance is some text or a call.                                    *)
LEMMA UtteranceFacts ==
  /\ \A u \in Utterance : u.text \in Text /\ u.call \in Seq(Name)
  /\ \A t \in Text : Speaks(t) \in Utterance /\ Speaks(t).text = t /\ Speaks(t).call = <<>>
  /\ \A n \in Name : Calls(n) \in Utterance /\ Calls(n).text = <<>> /\ Calls(n).call = <<n>> /\ Calls(n).call # <<>>
<1> HIDE DEF Name
<1>1. \A n \in Name : <<n>> \in Seq(Name) /\ <<n>> # <<>>
  OBVIOUS
<1> QED BY <1>1, TextFacts DEF Utterance, Speaks, Calls

(* Sayings put together.                                                   *)
LEMMA SayingsAlgebra ==
  /\ <<>> \in Sayings
  /\ \A u \in Utterance : <<u>> \in Sayings
  /\ \A a \in Sayings : a \o <<>> = a /\ <<>> \o a = a
  /\ \A a, b \in Sayings : a \o b \in Sayings
  /\ \A a, b, c \in Sayings : (a \o b) \o c = a \o (b \o c)
  /\ \A a \in Sayings, u \in Utterance : Append(a, u) \in Sayings /\ Append(a, u) = a \o <<u>>
  /\ \A a, b \in Sayings, u \in Utterance : a \o Append(b, u) = Append(a \o b, u)
<1> HIDE DEF Utterance
<1> QED BY SMTT(30) DEF Sayings

(* A text waits to be put back; a call does not wait, and what is before   *)
(* it is put back first.                                                   *)
RenderOn(m, r, u) ==
    IF u.call = <<>> THEN [before |-> r.before, since |-> r.since \o u.text]
    ELSE [before |-> r.before \o PutBack(m, r.since), since |-> <<>>]

Blank == [before |-> <<>>, since |-> <<>>]

(* ... has its type.                                                       *)
LEMMA RenderOnType ==
  ASSUME NEW m \in BOOLEAN, NEW r \in RenderingType, NEW u \in Utterance
  PROVE RenderOn(m, r, u) \in RenderingType
<1>1. r.before \in Text /\ r.since \in Text /\ u.text \in Text
  BY UtteranceFacts DEF RenderingType
<1>2. PutBack(m, r.since) \in Text
  BY <1>1, PutBackFacts
<1>3. r.since \o u.text \in Text /\ r.before \o PutBack(m, r.since) \in Text /\ <<>> \in Text
  BY <1>1, <1>2, TextFacts
<1> QED BY <1>1, <1>3 DEF RenderOn, RenderingType

(* Rendering is a fold of that.                                            *)
LEMMA RenderFold ==
  ASSUME NEW m \in BOOLEAN
  PROVE /\ Rendering(m, <<>>) = Blank
        /\ \A s \in Sayings : Rendering(m, s) \in RenderingType
        /\ \A s \in Sayings, u \in Utterance : Rendering(m, Append(s, u)) = RenderOn(m, Rendering(m, s), u)
<1> DEFINE step == [p \in RenderingType \X Utterance |-> RenderOn(m, p[1], p[2])]
           rendered[given \in Seq(Utterance)] ==
             IF given = <<>> THEN [before |-> <<>>, since |-> <<>>]
             ELSE LET earlier == rendered[Front(given)] IN
                 IF Last(given).call = <<>>
                 THEN [before |-> earlier.before, since |-> earlier.since \o Last(given).text]
                 ELSE [before |-> earlier.before \o PutBack(m, earlier.since), since |-> <<>>]
<1>1. \A s : Rendering(m, s) = rendered[s]
  BY Zenon DEF Rendering
<1>2. step \in [RenderingType \X Utterance -> RenderingType]
  <2>1. \A p \in RenderingType \X Utterance : RenderOn(m, p[1], p[2]) \in RenderingType
    BY RenderOnType
  <2> QED BY <2>1
<1>3. \A r \in RenderingType, u \in Utterance : step[<<r, u>>] = RenderOn(m, r, u)
  OBVIOUS
<1>0. Blank \in RenderingType
  BY TextFacts DEF Blank, RenderingType
<1> HIDE DEF step
<1>4. Foldable(Utterance, RenderingType, Blank, step)
  BY <1>0, <1>2, SequenceRecursion
<1>5. PICK f \in [Seq(Utterance) -> RenderingType] : \A s \in Seq(Utterance) :
          f[s] = IF s = <<>> THEN Blank ELSE step[<<f[Front(s)], Last(s)>>]
  BY <1>4 DEF Foldable
<1> DEFINE body(g, s) == IF s = <<>> THEN Blank ELSE RenderOn(m, g[Front(s)], Last(s))
<1>6. \A s \in Seq(Utterance) : f[s] = body(f, s)
  <2> SUFFICES ASSUME NEW s \in Seq(Utterance), s # <<>> PROVE f[s] = RenderOn(m, f[Front(s)], Last(s))
    BY <1>5
  <2>1. Front(s) \in Seq(Utterance) /\ Last(s) \in Utterance
    BY FrontAndLast
  <2>2. f[Front(s)] \in RenderingType
    BY <2>1
  <2> QED BY <1>3, <1>5, <2>1, <2>2
<1>7. f = [s \in Seq(Utterance) |-> body(f, s)]
  BY <1>6
<1>8. rendered = CHOOSE g : g = [s \in Seq(Utterance) |-> body(g, s)]
  BY Zenon DEF RenderOn, Blank
<1> HIDE DEF rendered
<1>9. rendered = [s \in Seq(Utterance) |-> body(rendered, s)]
  BY <1>7, <1>8
<1>10. \A s \in Seq(Utterance) : rendered[s] = body(rendered, s)
  BY <1>9
<1>11. rendered[<<>>] = Blank
  <2>1. <<>> \in Seq(Utterance)
    BY SayingsAlgebra DEF Sayings
  <2> QED BY <1>10, <2>1
<1>12. ASSUME NEW s \in Seq(Utterance), s # <<>>, rendered[Front(s)] \in RenderingType
       PROVE rendered[s] = step[<<rendered[Front(s)], Last(s)>>]
  BY <1>3, <1>10, <1>12, FrontAndLast
<1>13. Folds(Utterance, RenderingType, Blank, step, rendered)
  BY <1>0, <1>2, <1>11, <1>12, FoldOf
<1>14. /\ rendered[<<>>] = Blank
       /\ \A s \in Seq(Utterance) : rendered[s] \in RenderingType
       /\ \A s \in Seq(Utterance), u \in Utterance : rendered[Append(s, u)] = step[<<rendered[s], u>>]
  BY <1>13 DEF Folds
<1>15. \A s \in Seq(Utterance), u \in Utterance : rendered[Append(s, u)] = RenderOn(m, rendered[s], u)
  BY <1>3, <1>14
<1> QED BY <1>1, <1>14, <1>15 DEF Sayings

(* The calls' ids, and the calls said.                                     *)
Ids(calls) == [i \in DOMAIN calls |-> calls[i].id]
CallsIn(us) == FlattenSeq([i \in DOMAIN us |-> us[i].call])

(* Sequences of names.                                                     *)
Names == Seq(Name)

(* ... put together.                                                       *)
LEMMA NamesAlgebra ==
  /\ <<>> \in Names
  /\ \A n \in Name : <<n>> \in Names /\ <<n>> # <<>>
  /\ \A a \in Names : a \o <<>> = a /\ <<>> \o a = a
  /\ \A a, b \in Names : a \o b \in Names /\ (a \o b = <<>> <=> a = <<>> /\ b = <<>>)
  /\ \A a, b, c \in Names : (a \o b) \o c = a \o (b \o c)
  /\ \A a \in Names, n \in Name : Append(a, n) \in Names /\ Append(a, n) = a \o <<n>> /\ Append(a, n) # <<>>
<1> HIDE DEF Name
<1> QED BY DEF Names

LEMMA NamesAssoc ==
  ASSUME NEW a, NEW b, NEW c, a \in Names, b \in Names, c \in Names
  PROVE (a \o b) \o c = a \o (b \o c)
BY SMTT(30), NamesAlgebra

(* The ids of no call, and of one more.                                    *)
LEMMA IdsFacts ==
  /\ Ids(<<>>) = <<>>
  /\ \A s \in Seq(Call) : Ids(s) \in Names /\ Len(Ids(s)) = Len(s)
  /\ \A s \in Seq(Call), c \in Call : Ids(Append(s, c)) = Append(Ids(s), c.id)
<1> DEFINE f == [c \in Call |-> c.id]
<1>1. f \in [Call -> Name]
  BY CallParts
<1>2. \A c \in Call : f[c] = c.id
  OBVIOUS
<1>3. ASSUME NEW s \in Seq(Call)
      PROVE Ids(s) = Mapped(f, s)
  <2>1. \A i \in DOMAIN s : s[i] \in Call
    <3> HIDE DEF Call
    <3> QED OBVIOUS
  <2> HIDE DEF f
  <2>2. \A i \in DOMAIN s : f[s[i]] = s[i].id
    BY <1>2, <2>1
  <2> QED BY <2>2 DEF Ids, Mapped
<1> HIDE DEF f, Call
<1>4. ASSUME NEW s \in Seq(Call)
      PROVE Ids(s) \in Names /\ Len(Ids(s)) = Len(s)
  <2>1. Mapped(f, s) \in Names
    BY <1>1, MappedType DEF Names
  <2> QED BY <1>3, <2>1, MappedLength
<1>5. ASSUME NEW s \in Seq(Call), NEW c \in Call
      PROVE Ids(Append(s, c)) = Append(Ids(s), c.id)
  <2>1. Append(s, c) \in Seq(Call)
    OBVIOUS
  <2>2. Mapped(f, Append(s, c)) = Append(Mapped(f, s), f[c])
    BY <1>1, MappedAppend
  <2> QED BY <1>2, <1>3, <2>1, <2>2
<1> QED BY <1>4, <1>5 DEF Ids

(* The calls of what was said are a fold.                                  *)
LEMMA CallsInFacts ==
  /\ CallsIn(<<>>) = <<>>
  /\ \A s \in Sayings : CallsIn(s) \in Names
  /\ \A s \in Sayings, u \in Utterance : CallsIn(Append(s, u)) = CallsIn(s) \o u.call
<1> DEFINE f == [u \in Utterance |-> u.call]
<1>1. f \in [Utterance -> Seq(Name)]
  BY UtteranceFacts
<1>2. \A u \in Utterance : f[u] = u.call
  OBVIOUS
<1> HIDE DEF f, Utterance, Name
<1>3. ASSUME NEW s \in Seq(Utterance)
      PROVE CallsIn(s) = Flat(f, s)
  <2>1. \A i \in DOMAIN s : s[i] \in Utterance
    OBVIOUS
  <2>2. \A i \in DOMAIN s : f[s[i]] = s[i].call
    BY <1>2, <2>1
  <2>3. Mapped(f, s) = [i \in DOMAIN s |-> s[i].call]
    BY <2>2 DEF Mapped
  <2> QED BY <2>3 DEF CallsIn, Flat
<1>4. /\ Flat(f, <<>>) = <<>>
      /\ \A s \in Seq(Utterance) : Flat(f, s) \in Seq(Name)
      /\ \A s \in Seq(Utterance), u \in Utterance : Flat(f, Append(s, u)) = Flat(f, s) \o f[u]
  BY <1>1, FlatFacts
<1>5. \A s \in Seq(Utterance), u \in Utterance : Append(s, u) \in Seq(Utterance)
  OBVIOUS
<1>6. <<>> \in Seq(Utterance)
  OBVIOUS
<1> QED BY <1>2, <1>3, <1>4, <1>5, <1>6 DEF Sayings, Names

(* Induction over what was said.                                           *)
LEMMA SayingsInduction ==
  ASSUME NEW T, <<>> \in T, \A s \in Sayings, u \in Utterance : s \in T => Append(s, u) \in T
  PROVE Sayings \subseteq T
BY SequenceInduction DEF Sayings

(* The calls of two sayings put together, of a text and of a call.         *)
LEMMA CallsInConcat ==
  ASSUME NEW a \in Sayings, NEW b \in Sayings
  PROVE CallsIn(a \o b) = CallsIn(a) \o CallsIn(b)
<1> DEFINE T == {s \in Sayings : CallsIn(a \o s) = CallsIn(a) \o CallsIn(s)}
<1>1. <<>> \in T
  BY CallsInFacts, SayingsAlgebra, NamesAlgebra
<1>2. ASSUME NEW s \in Sayings, NEW u \in Utterance, CallsIn(a \o s) = CallsIn(a) \o CallsIn(s)
      PROVE CallsIn(a \o Append(s, u)) = CallsIn(a) \o CallsIn(Append(s, u))
  <2>1. a \o Append(s, u) = Append(a \o s, u) /\ a \o s \in Sayings
    BY ZenonT(60), SayingsAlgebra
  <2>2. CallsIn(Append(a \o s, u)) = CallsIn(a \o s) \o u.call
    BY <2>1, CallsInFacts
  <2>3. CallsIn(Append(s, u)) = CallsIn(s) \o u.call
    BY CallsInFacts
  <2>4. CallsIn(a) \in Names /\ CallsIn(s) \in Names /\ u.call \in Names
    BY CallsInFacts, UtteranceFacts DEF Names
  <2>5. (CallsIn(a) \o CallsIn(s)) \o u.call = CallsIn(a) \o (CallsIn(s) \o u.call)
    <3> DEFINE x == CallsIn(a)
               y == CallsIn(s)
               z == u.call
    <3>1. x \in Names /\ y \in Names /\ z \in Names
      BY <2>4
    <3> HIDE DEF x, y, z
    <3>2. (x \o y) \o z = x \o (y \o z)
      BY <3>1, NamesAssoc
    <3> QED BY <3>2 DEF x, y, z
  <2> QED BY <1>2, <2>1, <2>2, <2>3, <2>5
<1>3. \A s \in Sayings, u \in Utterance : s \in T => Append(s, u) \in T
  BY <1>2, SayingsAlgebra
<1> HIDE DEF T
<1>4. b \in T
  BY <1>1, <1>3, SayingsInduction
<1> QED BY <1>4 DEF T

LEMMA CallsInOne ==
  /\ \A t \in Text : CallsIn(<<Speaks(t)>>) = <<>>
  /\ \A n \in Name : CallsIn(<<Calls(n)>>) = <<n>>
<1>1. \A u \in Utterance : CallsIn(<<u>>) = u.call
  <2> SUFFICES ASSUME NEW u \in Utterance PROVE CallsIn(<<u>>) = u.call
    OBVIOUS
  <2>1. <<u>> = Append(<<>>, u)
    OBVIOUS
  <2> DEFINE nothing == <<>>
  <2>4. nothing \in Sayings /\ CallsIn(nothing) = <<>>
    BY CallsInFacts, SayingsAlgebra
  <2> HIDE DEF nothing
  <2>5. CallsIn(Append(nothing, u)) = CallsIn(nothing) \o u.call
    BY <2>4, CallsInFacts
  <2>2. CallsIn(Append(<<>>, u)) = <<>> \o u.call
    BY <2>4, <2>5 DEF nothing
  <2>3. u.call \in Names
    BY UtteranceFacts DEF Names
  <2> QED BY <2>1, <2>2, <2>3, NamesAlgebra
<1> QED BY <1>1, UtteranceFacts

(* What a text more renders to, and a call more.                           *)
LEMMA RenderSpeaks ==
  ASSUME NEW m \in BOOLEAN, NEW us \in Sayings, NEW t \in Text
  PROVE Rendering(m, us \o <<Speaks(t)>>)
          = [before |-> Rendering(m, us).before, since |-> Rendering(m, us).since \o t]
<1> DEFINE u == Speaks(t)
<1>1. u \in Utterance /\ u.text = t /\ u.call = <<>>
  BY UtteranceFacts
<1> HIDE DEF u
<1>2. us \o <<u>> = Append(us, u)
  BY <1>1, SayingsAlgebra
<1>3. Rendering(m, Append(us, u)) = RenderOn(m, Rendering(m, us), u)
  BY <1>1, RenderFold
<1> QED BY <1>1, <1>2, <1>3 DEF RenderOn, u

LEMMA RenderCalls ==
  ASSUME NEW m \in BOOLEAN, NEW us \in Sayings, NEW n \in Name
  PROVE Rendering(m, us \o <<Calls(n)>>)
          = [before |-> Rendering(m, us).before \o PutBack(m, Rendering(m, us).since), since |-> <<>>]
<1> DEFINE u == Calls(n)
<1>1. u \in Utterance /\ u.call # <<>>
  BY UtteranceFacts
<1> HIDE DEF u
<1>2. us \o <<u>> = Append(us, u)
  BY <1>1, SayingsAlgebra
<1>3. Rendering(m, Append(us, u)) = RenderOn(m, Rendering(m, us), u)
  BY <1>1, RenderFold
<1> QED BY <1>1, <1>2, <1>3 DEF RenderOn, u

(* Renderings have their type.                                             *)
LEMMA RenderingParts ==
  ASSUME NEW m \in BOOLEAN, NEW us \in Sayings
  PROVE /\ Rendering(m, us) \in RenderingType
        /\ Rendering(m, us).before \in Text /\ Rendering(m, us).since \in Text
<1>1. Rendering(m, us) \in RenderingType
  BY RenderFold
<1> QED BY <1>1 DEF RenderingType

(* The calls came that were said, no stop and no count.                    *)
Counted(x, y, u) ==
    /\ Ids(y.w.round.calls) = Ids(x.w.round.calls) \o CallsIn(u)
    /\ y.w.round.stopReason = x.w.round.stopReason
    /\ y.w.round.usage = x.w.round.usage

(* What is heard of these chunks is what these utterances say.             *)
Carries(m, base, u, chunks) ==
    \A us \in Sayings : \A x :
        Listens(m, base, x, Rendering(m, us)) =>
            /\ Listens(m, base, Hears(m, x, chunks), Rendering(m, us \o u))
            /\ Counted(x, Hears(m, x, chunks), u)

(* Listening is being ready for a call or the stop.                        *)
LEMMA ListensReady ==
  ASSUME NEW m, NEW base, NEW x, NEW r, Listens(m, base, x, r)
  PROVE Ready(m, base, x) /\ x \in Ears
BY DEF Listens, Ready

(* What a round's fields are.                                              *)
LEMMA EarRound ==
  ASSUME NEW x \in Ears
  PROVE /\ x.w.round.calls \in Seq(Call) /\ x.w.round.text \in Text /\ x.held \in Text /\ x.w \in Hearings
        /\ Ids(x.w.round.calls) \in Names
        /\ Ids(x.w.round.calls) \o <<>> = Ids(x.w.round.calls)
<1>1. x.w \in Hearings /\ x.held \in Text
  BY EarParts
<1>2. x.w.round.calls \in Seq(Call) /\ x.w.round.text \in Text
  BY <1>1, HearingParts
<1> QED BY <1>1, <1>2, IdsFacts, NamesAlgebra

(* Nothing carries nothing; a text, a call, and what is put together of    *)
(* these are carried.                                                      *)
LEMMA CarriesNothing ==
  ASSUME NEW m \in BOOLEAN, NEW base
  PROVE Carries(m, base, <<>>, <<>>)
<1> SUFFICES ASSUME NEW us \in Sayings, NEW x, Listens(m, base, x, Rendering(m, us))
             PROVE /\ Listens(m, base, Hears(m, x, <<>>), Rendering(m, us \o <<>>))
                   /\ Counted(x, Hears(m, x, <<>>), <<>>)
  BY DEF Carries
<1>1. x \in Ears
  BY ListensReady
<1>2. Hears(m, x, <<>>) = x /\ us \o <<>> = us /\ CallsIn(<<>>) = <<>>
  BY <1>1, HearsNothing, SayingsAlgebra, CallsInFacts
<1>3. Ids(x.w.round.calls) \o <<>> = Ids(x.w.round.calls)
  BY <1>1, EarRound
<1> QED BY <1>2, <1>3 DEF Counted

LEMMA CarriesText ==
  ASSUME StandsApart, NEW m \in BOOLEAN, NEW base \in ReadResult, NEW t \in Text
  PROVE Carries(m, base, <<Speaks(t)>>, TextChunk(t))
<1> SUFFICES ASSUME NEW us \in Sayings, NEW x, Listens(m, base, x, Rendering(m, us))
             PROVE /\ Listens(m, base, Hears(m, x, TextChunk(t)), Rendering(m, us \o <<Speaks(t)>>))
                   /\ Counted(x, Hears(m, x, TextChunk(t)), <<Speaks(t)>>)
  BY DEF Carries
<1> DEFINE y == Hears(m, x, TextChunk(t))
           r == Rendering(m, us)
<1>1. r \in RenderingType
  BY RenderingParts
<1>2. Listens(m, base, y, [before |-> r.before, since |-> r.since \o t]) /\ Same(x, y)
  BY <1>1, HearsText
<1>3. Rendering(m, us \o <<Speaks(t)>>) = [before |-> r.before, since |-> r.since \o t]
  BY RenderSpeaks
<1>4. CallsIn(<<Speaks(t)>>) = <<>>
  BY CallsInOne
<1>5. Ids(x.w.round.calls) \o <<>> = Ids(x.w.round.calls)
  BY ListensReady, EarRound
<1> HIDE DEF y, r
<1>6. Counted(x, y, <<Speaks(t)>>)
  BY <1>2, <1>4, <1>5 DEF Same, Counted
<1> QED BY <1>2, <1>3, <1>6 DEF y

LEMMA CarriesCall ==
  ASSUME NEW m \in BOOLEAN, NEW base \in ReadResult, NEW call \in Call
  PROVE Carries(m, base, <<Calls(call.id)>>, <<ToolChunk(call)>>)
<1> SUFFICES ASSUME NEW us \in Sayings, NEW x, Listens(m, base, x, Rendering(m, us))
             PROVE /\ Listens(m, base, Hears(m, x, <<ToolChunk(call)>>), Rendering(m, us \o <<Calls(call.id)>>))
                   /\ Counted(x, Hears(m, x, <<ToolChunk(call)>>), <<Calls(call.id)>>)
  BY DEF Carries
<1> DEFINE y == Hears(m, x, <<ToolChunk(call)>>)
           r == Rendering(m, us)
           n == call.id
<1>1. r \in RenderingType /\ r.before \in Text /\ r.since \in Text
  BY RenderingParts
<1>2. Ready(m, base, x) /\ x \in Ears
  BY ListensReady
<1>3. HeardCall(m, base, x, call, y)
  BY <1>2, HearsTool
<1>4. n \in Name
  BY CallParts
<1>5. Rendering(m, us \o <<Calls(n)>>) = [before |-> r.before \o PutBack(m, r.since), since |-> <<>>]
  BY <1>4, RenderCalls
<1> HIDE DEF y, r, n
<1>6. CallsIn(<<Calls(n)>>) = <<n>>
  BY <1>4, CallsInOne
<1>7. x.w.round.calls \in Seq(Call) /\ x.w.round.text \in Text /\ Ids(x.w.round.calls) \in Names
  BY <1>2, EarRound
<1>8. Ids(y.w.round.calls) = Ids(x.w.round.calls) \o <<n>>
  <2>1. PICK c \in Call : c.id = n /\ y.w.round.calls = Append(x.w.round.calls, c)
    BY <1>3 DEF HeardCall, n
  <2>2. Ids(Append(x.w.round.calls, c)) = Append(Ids(x.w.round.calls), c.id)
    BY <1>7, IdsFacts
  <2>3. Append(Ids(x.w.round.calls), n) = Ids(x.w.round.calls) \o <<n>>
    BY <1>4, <1>7, NamesAlgebra
  <2> QED BY <2>1, <2>2, <2>3
<1>9. Counted(x, y, <<Calls(n)>>)
  BY <1>3, <1>6, <1>8 DEF HeardCall, Counted
<1>10. y.w.round.text = r.before \o PutBack(m, r.since)
  <2>1. Keeps(m, x.held) /\ Renders(m, x.held, x.w.round.text, r)
    BY DEF Listens, r
  <2>2. PutBack(m, x.held) = x.held
    BY <2>1, KeptIsText
  <2>3. x.w.round.text \o PutBack(m, x.held) = r.before \o PutBack(m, r.since)
    <3> DEFINE h == x.held
               t == x.w.round.text
    <3>1. Keeps(m, h) /\ t \in Text /\ Renders(m, h, t, r)
      BY <1>7, <2>1
    <3> HIDE DEF h, t
    <3>2. t \o PutBack(m, h) = r.before \o PutBack(m, r.since)
      <4>1. h \in Text /\ h \o <<>> = h /\ r.since \o <<>> = r.since /\ <<>> \in Text
        BY <1>1, <3>1, TextFacts DEF Keeps
      <4>2. \A rest \in Text : t \o PutBack(m, h \o rest) = r.before \o PutBack(m, r.since \o rest)
        BY <3>1 DEF Renders
      <4>3. t \o PutBack(m, h \o <<>>) = r.before \o PutBack(m, r.since \o <<>>)
        BY <4>1, <4>2
      <4> QED BY <4>1, <4>3
    <3> QED BY <3>2 DEF h, t
  <2> QED BY <1>3, <2>2, <2>3 DEF HeardCall
<1>11. Listens(m, base, y, [before |-> y.w.round.text, since |-> <<>>])
  <2>1. Renders(m, <<>>, y.w.round.text, [before |-> y.w.round.text, since |-> <<>>])
    BY RendersItself
  <2> QED BY <1>3, <2>1 DEF HeardCall, Ready, Listens
<1> QED BY <1>5, <1>9, <1>10, <1>11 DEF y, n

LEMMA CarriesBoth ==
  ASSUME NEW m \in BOOLEAN, NEW base, NEW u \in Sayings, NEW v \in Sayings, NEW a \in Chunks, NEW b \in Chunks,
         Carries(m, base, u, a), Carries(m, base, v, b)
  PROVE Carries(m, base, u \o v, a \o b)
<1> SUFFICES ASSUME NEW us \in Sayings, NEW x, Listens(m, base, x, Rendering(m, us))
             PROVE /\ Listens(m, base, Hears(m, x, a \o b), Rendering(m, us \o (u \o v)))
                   /\ Counted(x, Hears(m, x, a \o b), u \o v)
  BY DEF Carries
<1> DEFINE y == Hears(m, x, a)
           z == Hears(m, y, b)
<1>1. x \in Ears
  BY ListensReady
<1>2. Hears(m, x, a \o b) = z
  BY <1>1, HearsConcat
<1>3. Listens(m, base, y, Rendering(m, us \o u)) /\ Counted(x, y, u)
  BY DEF Carries
<1>4. us \o u \in Sayings /\ (us \o u) \o v = us \o (u \o v)
  BY SMTT(30), SayingsAlgebra
<1>5. Listens(m, base, z, Rendering(m, (us \o u) \o v)) /\ Counted(y, z, v)
  BY <1>3, <1>4 DEF Carries
<1> HIDE DEF y, z
<1>6. CallsIn(u \o v) = CallsIn(u) \o CallsIn(v)
  BY CallsInConcat
<1>7. Ids(x.w.round.calls) \o CallsIn(u \o v) = (Ids(x.w.round.calls) \o CallsIn(u)) \o CallsIn(v)
  <2> DEFINE i == Ids(x.w.round.calls)
             j == CallsIn(u)
             k == CallsIn(v)
  <2>1. i \in Names /\ j \in Names /\ k \in Names
    BY <1>1, EarRound, CallsInFacts
  <2> HIDE DEF i, j, k
  <2>2. (i \o j) \o k = i \o (j \o k)
    BY <2>1, NamesAssoc
  <2> QED BY <1>6, <2>2 DEF i, j, k
<1>8. Counted(x, z, u \o v)
  BY <1>3, <1>5, <1>7 DEF Counted
<1> QED BY <1>2, <1>4, <1>5, <1>8

-----------------------------------------------------------------------------
(* What each vendor's event says, and that the chunks an adapter yields    *)
(* for it carry that (bedrockStreamHandlers.ts, vertexProvider.ts,         *)
(* mockProvider.ts).                                                       *)

(* A part of a response (vertex).                                          *)
Part == [text : Text, call : BOOLEAN]

(* A vendor's event is what its kind says.                                 *)
LEMMA EventParts ==
  ASSUME NEW e \in Event
  PROVE /\ e.kind \in {"text", "toolStart", "toolInput", "blockStop", "messageStop", "metadata",
                       "response", "turn", "exhausted"}
        /\ e.kind = "text" => e.text \in Text
        /\ e.kind = "toolStart" => e.id \in Name
        /\ e.kind = "toolInput" => e.piece \in Pieces
        /\ e.kind = "messageStop" => e.reason \in StopReason
        /\ e.kind = "metadata" => e.usage \in Nat
        /\ e.kind = "response" => /\ e.parts \in Seq(Part) /\ e.usage \in Nat
                                  /\ e.finish \in {"", "STOP", "MAX_TOKENS", "SAFETY"}
        /\ e.kind = "turn" => e.words \in Seq(Text) /\ e.calls \in Seq(Call) /\ e.usage \in Nat
<1> DEFINE parts == Seq([text : Text, call : BOOLEAN])
           words == Seq(Text)
           calls == Seq(Call)
<1>0. Event = [kind : {"text"}, text : Text] \union [kind : {"toolStart"}, id : Name]
        \union [kind : {"toolInput"}, piece : Pieces] \union [kind : {"blockStop"}]
        \union [kind : {"messageStop"}, reason : StopReason] \union [kind : {"metadata"}, usage : Nat]
        \union [kind : {"response"}, parts : parts, finish : {"", "STOP", "MAX_TOKENS", "SAFETY"}, usage : Nat]
        \union [kind : {"turn"}, usage : Nat, words : words, calls : calls] \union [kind : {"exhausted"}]
  BY DEF Event, Response, Script
<1>9. parts = Seq(Part) /\ words = Seq(Text) /\ calls = Seq(Call)
  BY DEF Part
<1> HIDE DEF Event, Response, Script, Part, Call, Text, Name, parts, words, calls
<1>1. CASE e \in [kind : {"text"}, text : Text]
  BY <1>1
<1>2. CASE e \in [kind : {"toolStart"}, id : Name]
  BY <1>2
<1>3. CASE e \in [kind : {"toolInput"}, piece : Pieces]
  BY <1>3
<1>4. CASE e \in [kind : {"blockStop"}] \union [kind : {"exhausted"}]
  BY <1>4
<1>5. CASE e \in [kind : {"messageStop"}, reason : StopReason]
  BY <1>5
<1>6. CASE e \in [kind : {"metadata"}, usage : Nat]
  BY <1>6
<1>7. CASE e \in [kind : {"response"}, parts : parts, finish : {"", "STOP", "MAX_TOKENS", "SAFETY"}, usage : Nat]
  BY <1>7, <1>9
<1>8. CASE e \in [kind : {"turn"}, usage : Nat, words : words, calls : calls]
  BY <1>8, <1>9
<1> QED BY <1>0, <1>1, <1>2, <1>3, <1>4, <1>5, <1>6, <1>7, <1>8

(* What an event says, by its kind.                                        *)
LEMMA UtterancesOfIs ==
  ASSUME NEW e
  PROVE /\ e.kind = "response" => UtterancesOf(e) = Parts(e)
        /\ e.kind = "turn" => UtterancesOf(e) = Lines(e)
        /\ e.kind = "text" => UtterancesOf(e) = <<Speaks(e.text)>>
        /\ e.kind = "toolStart" => UtterancesOf(e) = <<Calls(e.id)>>
        /\ e.kind \in {"toolInput", "blockStop", "messageStop", "metadata", "exhausted"} => UtterancesOf(e) = <<>>
BY DEF UtterancesOf

(* What a part of a response says, and yields.                             *)
PartSays(p) == <<Speaks(p.text)>> \o (IF p.call THEN <<Calls(Named("tool"))>> ELSE <<>>)

(* What the parts say, and their chunks, as functions to fold with.        *)
PartSaysF == [p \in Part |-> PartSays(p)]
PartChunksF == [p \in Part |-> PartChunks(p)]

(* The call a part may hold.                                               *)
ToolCall == [id |-> Named("tool"), name |-> Named("tool"), input |-> MaskedInput]

(* A numbered name is a name.                                              *)
LEMMA NumberedType ==
  ASSUME NEW o \in {"", "tool", "call", "hist"}, NEW z \in Nat \X Nat
  PROVE [of |-> o, number |-> z] \in Name
<1>1. o \in Labels
  BY LabelsAssumption
<1> QED BY <1>1 DEF Name

LEMMA NamedType ==
  ASSUME NEW o \in {"", "tool", "call", "hist"}
  PROVE Named(o) \in Name
<1> DEFINE z == <<0, 0>>
<1>1. z \in Nat \X Nat
  OBVIOUS
<1> HIDE DEF z
<1>2. [of |-> o, number |-> z] \in Name
  BY <1>1, NumberedType
<1> QED BY <1>2 DEF Named, z

(* The part's call is one.                                                 *)
LEMMA ToolCallFacts == ToolCall \in Call /\ ToolCall.id = Named("tool") /\ Named("tool") \in Name
<1>1. Named("tool") \in Name
  BY NamedType
<1> HIDE DEF Name, Named
<1> QED BY <1>1, MaskedInputType DEF ToolCall, Call

(* A part's fields have their types.                                       *)
LEMMA PartParts ==
  ASSUME NEW p \in Part
  PROVE p.text \in Text /\ (p.call = TRUE \/ p.call = FALSE)
BY DEF Part

(* What a part says, and its chunks, by whether it has a call.             *)
LEMMA PartSaysIs ==
  ASSUME NEW p \in Part
  PROVE PartSays(p) = IF p.call = TRUE THEN <<Speaks(p.text)>> \o <<Calls(Named("tool"))>> ELSE <<Speaks(p.text)>>
<1>1. <<Speaks(p.text)>> \in Sayings
  BY PartParts, UtteranceFacts, SayingsAlgebra
<1>2. <<Speaks(p.text)>> \o <<>> = <<Speaks(p.text)>>
  BY <1>1, SayingsAlgebra
<1> QED BY <1>2, PartParts DEF PartSays

LEMMA PartChunksIs ==
  ASSUME NEW p \in Part
  PROVE PartChunks(p) = IF p.call = TRUE THEN TextChunk(p.text) \o <<ToolChunk(ToolCall)>> ELSE TextChunk(p.text)
<1>1. TextChunk(p.text) \in Chunks
  BY PartParts, TextChunkIs
<1>2. TextChunk(p.text) \o <<>> = TextChunk(p.text)
  BY <1>1, ChunksAlgebra
<1> QED BY <1>2, PartParts DEF PartChunks, ToolCall

(* ... have their types.                                                   *)
LEMMA PartTypes ==
  /\ PartSaysF \in [Part -> Seq(Utterance)] /\ PartChunksF \in [Part -> Seq(Chunk)]
  /\ \A p \in Part : PartSaysF[p] = PartSays(p) /\ PartChunksF[p] = PartChunks(p)
<1>1. ASSUME NEW p \in Part
      PROVE PartSays(p) \in Sayings /\ PartChunks(p) \in Chunks
  <2>1. <<Speaks(p.text)>> \in Sayings /\ <<Calls(Named("tool"))>> \in Sayings
    BY PartParts, ToolCallFacts, UtteranceFacts, SayingsAlgebra
  <2>2. TextChunk(p.text) \in Chunks /\ <<ToolChunk(ToolCall)>> \in Chunks
    BY PartParts, ToolCallFacts, TextChunkIs, ChunkFacts
  <2>3. PartSays(p) \in Sayings
    <3>1. <<Speaks(p.text)>> \o <<Calls(Named("tool"))>> \in Sayings
      BY <2>1, SayingsAlgebra
    <3> QED BY <2>1, <3>1, PartSaysIs
  <2>4. PartChunks(p) \in Chunks
    <3>1. TextChunk(p.text) \o <<ToolChunk(ToolCall)>> \in Chunks
      BY <2>2, ChunkFacts
    <3> QED BY <2>2, <3>1, PartChunksIs
  <2> QED BY <2>3, <2>4
<1> QED BY <1>1 DEF PartSaysF, PartChunksF, Sayings, Chunks

(* A part's chunks carry what it says.                                     *)
LEMMA CarriesPart ==
  ASSUME StandsApart, NEW m \in BOOLEAN, NEW base \in ReadResult, NEW p \in Part
  PROVE Carries(m, base, PartSays(p), PartChunks(p))
<1>1. Carries(m, base, <<Speaks(p.text)>>, TextChunk(p.text))
  BY PartParts, CarriesText
<1>2. Carries(m, base, <<Calls(Named("tool"))>>, <<ToolChunk(ToolCall)>>)
  BY ToolCallFacts, CarriesCall
<1>3. <<Speaks(p.text)>> \in Sayings /\ <<Calls(Named("tool"))>> \in Sayings
  BY PartParts, ToolCallFacts, UtteranceFacts, SayingsAlgebra
<1>4. TextChunk(p.text) \in Chunks /\ <<ToolChunk(ToolCall)>> \in Chunks
  BY PartParts, ToolCallFacts, TextChunkIs, ChunkFacts
<1>5. Carries(m, base, <<Speaks(p.text)>> \o <<Calls(Named("tool"))>>, TextChunk(p.text) \o <<ToolChunk(ToolCall)>>)
  BY <1>1, <1>2, <1>3, <1>4, CarriesBoth
<1> QED BY <1>1, <1>5, PartSaysIs, PartChunksIs

(* What the parts say and what they yield.                                 *)
SaidIn(parts) == Flat(PartSaysF, parts)
YieldedOf(parts) == Flat(PartChunksF, parts)

(* ... as folds.                                                           *)
LEMMA PartsFold ==
  /\ SaidIn(<<>>) = <<>> /\ YieldedOf(<<>>) = <<>>
  /\ \A s \in Seq(Part) : SaidIn(s) \in Sayings /\ YieldedOf(s) \in Chunks
  /\ \A s \in Seq(Part), p \in Part :
        /\ SaidIn(Append(s, p)) = SaidIn(s) \o PartSays(p)
        /\ YieldedOf(Append(s, p)) = YieldedOf(s) \o PartChunks(p)
<1> HIDE DEF Part, Utterance, Chunk, PartSaysF, PartChunksF
<1>1. /\ Flat(PartSaysF, <<>>) = <<>>
      /\ \A s \in Seq(Part) : Flat(PartSaysF, s) \in Seq(Utterance)
      /\ \A s \in Seq(Part), p \in Part : Flat(PartSaysF, Append(s, p)) = Flat(PartSaysF, s) \o PartSaysF[p]
  BY PartTypes, FlatFacts
<1>2. /\ Flat(PartChunksF, <<>>) = <<>>
      /\ \A s \in Seq(Part) : Flat(PartChunksF, s) \in Seq(Chunk)
      /\ \A s \in Seq(Part), p \in Part : Flat(PartChunksF, Append(s, p)) = Flat(PartChunksF, s) \o PartChunksF[p]
  BY PartTypes, FlatFacts
<1> QED BY <1>1, <1>2, PartTypes DEF SaidIn, YieldedOf, Sayings, Chunks

(* ... and as the model writes them.                                       *)
LEMMA PartsOf ==
  ASSUME NEW parts \in Seq(Part)
  PROVE /\ FlattenSeq([i \in DOMAIN parts |-> PartSays(parts[i])]) = SaidIn(parts)
        /\ FlattenSeq([i \in DOMAIN parts |-> PartChunks(parts[i])]) = YieldedOf(parts)
<1> HIDE DEF Part
<1>1. \A i \in DOMAIN parts : parts[i] \in Part
  OBVIOUS
<1>2. \A i \in DOMAIN parts : PartSaysF[parts[i]] = PartSays(parts[i]) /\ PartChunksF[parts[i]] = PartChunks(parts[i])
  BY <1>1, PartTypes
<1>3. Mapped(PartSaysF, parts) = [i \in DOMAIN parts |-> PartSays(parts[i])]
      /\ Mapped(PartChunksF, parts) = [i \in DOMAIN parts |-> PartChunks(parts[i])]
  BY <1>2 DEF Mapped
<1> QED BY <1>3 DEF SaidIn, YieldedOf, Flat

(* Induction over the parts.                                               *)
LEMMA PartsInduction ==
  ASSUME NEW T, <<>> \in T, \A s \in Seq(Part), p \in Part : s \in T => Append(s, p) \in T
  PROVE Seq(Part) \subseteq T
BY SequenceInduction

(* A response's chunks carry what its parts say.                           *)
LEMMA CarriesParts ==
  ASSUME StandsApart, NEW m \in BOOLEAN, NEW base \in ReadResult, NEW parts \in Seq(Part)
  PROVE Carries(m, base, SaidIn(parts), YieldedOf(parts))
<1> DEFINE T == {s \in Seq(Part) : Carries(m, base, SaidIn(s), YieldedOf(s))}
<1>1. <<>> \in T
  BY PartsFold, CarriesNothing
<1>2. ASSUME NEW s \in Seq(Part), NEW p \in Part, Carries(m, base, SaidIn(s), YieldedOf(s))
      PROVE Carries(m, base, SaidIn(Append(s, p)), YieldedOf(Append(s, p)))
  <2>1. SaidIn(s) \in Sayings /\ YieldedOf(s) \in Chunks
    BY PartsFold
  <2>2. PartSays(p) \in Sayings /\ PartChunks(p) \in Chunks
    BY PartTypes DEF Sayings, Chunks
  <2>3. Carries(m, base, PartSays(p), PartChunks(p))
    BY CarriesPart
  <2>4. Carries(m, base, SaidIn(s) \o PartSays(p), YieldedOf(s) \o PartChunks(p))
    BY <1>2, <2>1, <2>2, <2>3, CarriesBoth
  <2> QED BY <2>4, PartsFold
<1>3. \A s \in Seq(Part), p \in Part : s \in T => Append(s, p) \in T
  <2>1. \A s \in Seq(Part), p \in Part : Append(s, p) \in Seq(Part)
    BY AppendFront
  <2> QED BY <1>2, <2>1
<1> HIDE DEF T
<1>4. parts \in T
  BY <1>1, <1>3, PartsInduction
<1> QED BY <1>4 DEF T

(* There is a call among the chunks.                                       *)
HasTool(chunks) == \E i \in DOMAIN chunks : chunks[i].type = "tool_use"

(* ... in two stretches, if in either.                                     *)
LEMMA HasToolFacts ==
  /\ ~HasTool(<<>>)
  /\ \A t \in Text : ~HasTool(TextChunk(t))
  /\ \A c \in Call : HasTool(<<ToolChunk(c)>>)
  /\ \A a, b \in Chunks : HasTool(a \o b) <=> HasTool(a) \/ HasTool(b)
<1>1. ~HasTool(<<>>)
  BY DEF HasTool
<1>2. \A t \in Text : ~HasTool(TextChunk(t))
  BY <1>1 DEF HasTool, TextChunk
<1>3. \A c \in Call : HasTool(<<ToolChunk(c)>>)
  <2> HIDE DEF Call
  <2> SUFFICES ASSUME NEW c \in Call PROVE HasTool(<<ToolChunk(c)>>)
    OBVIOUS
  <2> DEFINE d == ToolChunk(c)
  <2>1. d.type = "tool_use"
    BY DEF ToolChunk
  <2> HIDE DEF d
  <2>2. 1 \in DOMAIN <<d>> /\ <<d>>[1] = d
    OBVIOUS
  <2>3. HasTool(<<d>>)
    BY <2>1, <2>2 DEF HasTool
  <2> QED BY <2>3 DEF d
<1>4. ASSUME NEW a \in Chunks, NEW b \in Chunks
      PROVE HasTool(a \o b) <=> HasTool(a) \/ HasTool(b)
  <2> HIDE DEF Chunk
  <2>1. Len(a) \in Nat /\ Len(b) \in Nat /\ DOMAIN a = 1..Len(a) /\ DOMAIN b = 1..Len(b)
        /\ DOMAIN (a \o b) = 1..(Len(a) + Len(b))
    BY DEF Chunks
  <2>2. \A i \in 1..Len(a) : (a \o b)[i] = a[i]
    BY <2>1 DEF Chunks
  <2>3. \A i \in 1..Len(b) : (a \o b)[Len(a) + i] = b[i]
    BY <2>1 DEF Chunks
  <2>4. HasTool(a) => HasTool(a \o b)
    <3>1. \A i \in 1..Len(a) : i \in 1..(Len(a) + Len(b))
      BY <2>1
    <3> QED BY <2>1, <2>2, <3>1 DEF HasTool
  <2>5. HasTool(b) => HasTool(a \o b)
    <3>1. \A i \in 1..Len(b) : Len(a) + i \in 1..(Len(a) + Len(b))
      BY <2>1
    <3> QED BY <2>1, <2>3, <3>1 DEF HasTool
  <2>6. ASSUME HasTool(a \o b) PROVE HasTool(a) \/ HasTool(b)
    <3>1. PICK i \in 1..(Len(a) + Len(b)) : (a \o b)[i].type = "tool_use"
      BY <2>1, <2>6 DEF HasTool
    <3>2. CASE i \in 1..Len(a)
      BY <2>1, <2>2, <3>1, <3>2 DEF HasTool
    <3>3. CASE i \notin 1..Len(a)
      <4> DEFINE j == i - Len(a)
      <4>1. j \in 1..Len(b) /\ i = Len(a) + j
        BY <2>1, <3>3
      <4> HIDE DEF j
      <4>2. b[j].type = "tool_use"
        BY <2>3, <3>1, <4>1
      <4> QED BY <2>1, <4>1, <4>2 DEF HasTool
    <3> QED BY <3>2, <3>3
  <2> QED BY <2>4, <2>5, <2>6
<1> QED BY <1>1, <1>2, <1>3, <1>4

(* A response yields a call iff it says one.                               *)
LEMMA CalledParts ==
  ASSUME NEW parts \in Seq(Part)
  PROVE HasTool(YieldedOf(parts)) <=> CallsIn(SaidIn(parts)) # <<>>
<1> DEFINE T == {s \in Seq(Part) : HasTool(YieldedOf(s)) <=> CallsIn(SaidIn(s)) # <<>>}
<1>1. <<>> \in T
  BY PartsFold, HasToolFacts, CallsInFacts
<1>2. ASSUME NEW p \in Part
      PROVE HasTool(PartChunks(p)) <=> CallsIn(PartSays(p)) # <<>>
  <2>1. TextChunk(p.text) \in Chunks /\ <<ToolChunk(ToolCall)>> \in Chunks
    BY PartParts, ToolCallFacts, TextChunkIs, ChunkFacts
  <2>2. <<Speaks(p.text)>> \in Sayings /\ <<Calls(Named("tool"))>> \in Sayings
    BY PartParts, ToolCallFacts, UtteranceFacts, SayingsAlgebra
  <2>3. CallsIn(<<Speaks(p.text)>>) = <<>> /\ CallsIn(<<Calls(Named("tool"))>>) = <<Named("tool")>>
    BY PartParts, ToolCallFacts, CallsInOne
  <2>4. ~HasTool(TextChunk(p.text)) /\ HasTool(<<ToolChunk(ToolCall)>>)
    BY PartParts, ToolCallFacts, HasToolFacts
  <2>5. CASE p.call = TRUE
    <3>1. HasTool(PartChunks(p))
      <4>1. HasTool(TextChunk(p.text) \o <<ToolChunk(ToolCall)>>)
        BY <2>1, <2>4, HasToolFacts
      <4> QED BY <2>5, <4>1, PartChunksIs
    <3>2. CallsIn(<<Speaks(p.text)>> \o <<Calls(Named("tool"))>>) = CallsIn(<<Speaks(p.text)>>) \o CallsIn(<<Calls(Named("tool"))>>)
      BY <2>2, CallsInConcat
    <3>3. <<Named("tool")>> \in Names /\ <<Named("tool")>> # <<>> /\ <<>> \o <<Named("tool")>> = <<Named("tool")>>
      BY ToolCallFacts, NamesAlgebra
    <3> QED BY <2>3, <2>5, <3>1, <3>2, <3>3, PartSaysIs
  <2>6. CASE p.call # TRUE
    BY <2>3, <2>4, <2>6, PartSaysIs, PartChunksIs
  <2> QED BY <2>5, <2>6
<1>3. ASSUME NEW s \in Seq(Part), NEW p \in Part, HasTool(YieldedOf(s)) <=> CallsIn(SaidIn(s)) # <<>>
      PROVE HasTool(YieldedOf(Append(s, p))) <=> CallsIn(SaidIn(Append(s, p))) # <<>>
  <2>1. SaidIn(s) \in Sayings /\ YieldedOf(s) \in Chunks
    BY PartsFold
  <2>2. PartSays(p) \in Sayings /\ PartChunks(p) \in Chunks
    BY PartTypes DEF Sayings, Chunks
  <2>3. HasTool(YieldedOf(s) \o PartChunks(p)) <=> HasTool(YieldedOf(s)) \/ HasTool(PartChunks(p))
    BY <2>1, <2>2, HasToolFacts
  <2>4. CallsIn(SaidIn(s) \o PartSays(p)) = CallsIn(SaidIn(s)) \o CallsIn(PartSays(p))
    BY <2>1, <2>2, CallsInConcat
  <2>5. CallsIn(SaidIn(s)) \in Names /\ CallsIn(PartSays(p)) \in Names
    BY <2>1, <2>2, CallsInFacts
  <2>6. CallsIn(SaidIn(s)) \o CallsIn(PartSays(p)) = <<>> <=> CallsIn(SaidIn(s)) = <<>> /\ CallsIn(PartSays(p)) = <<>>
    BY <2>5, NamesAlgebra
  <2> QED BY <1>2, <1>3, <2>3, <2>4, <2>6, PartsFold
<1>4. \A s \in Seq(Part), p \in Part : s \in T => Append(s, p) \in T
  <2>1. \A s \in Seq(Part), p \in Part : Append(s, p) \in Seq(Part)
    BY AppendFront
  <2> QED BY <1>3, <2>1
<1> HIDE DEF T
<1>5. parts \in T
  BY <1>1, <1>4, PartsInduction
<1> QED BY <1>5 DEF T

(* The functions a script's words and calls are folded with.               *)
SpeaksF == [t \in Text |-> Speaks(t)]
TextChunkF == [t \in Text |-> TextChunk(t)]
CallsF == [c \in Call |-> Calls(c.id)]
ToolChunkF == [c \in Call |-> ToolChunk(c)]

(* What a script says and what it yields.                                  *)
WordsSaid(words) == Mapped(SpeaksF, words)
WordChunks(words) == Flat(TextChunkF, words)
CallsSaid(calls) == Mapped(CallsF, calls)
CallChunks(calls) == Mapped(ToolChunkF, calls)

(* ... have their types.                                                   *)
LEMMA ScriptTypes ==
  /\ SpeaksF \in [Text -> Utterance] /\ TextChunkF \in [Text -> Seq(Chunk)]
  /\ CallsF \in [Call -> Utterance] /\ ToolChunkF \in [Call -> Chunk]
  /\ \A t \in Text : SpeaksF[t] = Speaks(t) /\ TextChunkF[t] = TextChunk(t)
  /\ \A c \in Call : CallsF[c] = Calls(c.id) /\ ToolChunkF[c] = ToolChunk(c)
<1>1. \A t \in Text : Speaks(t) \in Utterance /\ TextChunk(t) \in Seq(Chunk)
  BY UtteranceFacts, TextChunkIs DEF Chunks
<1>2. \A c \in Call : Calls(c.id) \in Utterance /\ ToolChunk(c) \in Chunk
  BY CallParts, UtteranceFacts, ChunkFacts
<1> QED BY <1>1, <1>2 DEF SpeaksF, TextChunkF, CallsF, ToolChunkF

(* ... are folds.                                                          *)
LEMMA WordsFold ==
  /\ WordsSaid(<<>>) = <<>> /\ WordChunks(<<>>) = <<>>
  /\ \A s \in Seq(Text) : WordsSaid(s) \in Sayings /\ WordChunks(s) \in Chunks
  /\ \A s \in Seq(Text), t \in Text :
        /\ WordsSaid(Append(s, t)) = WordsSaid(s) \o <<Speaks(t)>>
        /\ WordChunks(Append(s, t)) = WordChunks(s) \o TextChunk(t)
<1> HIDE DEF Text, Utterance, Chunk, SpeaksF, TextChunkF
<1>1. ASSUME NEW s \in Seq(Text)
      PROVE WordsSaid(s) \in Sayings
  BY ScriptTypes, MappedType DEF WordsSaid, Sayings
<1>2. ASSUME NEW s \in Seq(Text), NEW t \in Text
      PROVE WordsSaid(Append(s, t)) = WordsSaid(s) \o <<Speaks(t)>>
  <2>0. SpeaksF \in [Text -> Utterance]
    BY ScriptTypes
  <2>1. Mapped(SpeaksF, Append(s, t)) = Append(Mapped(SpeaksF, s), SpeaksF[t])
    BY <2>0, MappedAppend
  <2>2. WordsSaid(s) \in Sayings /\ Speaks(t) \in Utterance
    BY <1>1, UtteranceFacts
  <2>3. Append(WordsSaid(s), Speaks(t)) = WordsSaid(s) \o <<Speaks(t)>>
    BY <2>2, SayingsAlgebra
  <2>4. SpeaksF[t] = Speaks(t)
    BY ScriptTypes
  <2> QED BY <2>1, <2>3, <2>4 DEF WordsSaid
<1>3. /\ Flat(TextChunkF, <<>>) = <<>>
      /\ \A s \in Seq(Text) : Flat(TextChunkF, s) \in Seq(Chunk)
      /\ \A s \in Seq(Text), t \in Text : Flat(TextChunkF, Append(s, t)) = Flat(TextChunkF, s) \o TextChunkF[t]
  BY ScriptTypes, FlatFacts
<1>4. \A t \in Text : TextChunkF[t] = TextChunk(t)
  BY ScriptTypes
<1>5. WordsSaid(<<>>) = <<>>
  BY MappedEmpty DEF WordsSaid
<1> QED BY <1>1, <1>2, <1>3, <1>4, <1>5 DEF WordChunks, Chunks

LEMMA CallsFold ==
  /\ CallsSaid(<<>>) = <<>> /\ CallChunks(<<>>) = <<>>
  /\ \A s \in Seq(Call) : CallsSaid(s) \in Sayings /\ CallChunks(s) \in Chunks
  /\ \A s \in Seq(Call), c \in Call :
        /\ CallsSaid(Append(s, c)) = CallsSaid(s) \o <<Calls(c.id)>>
        /\ CallChunks(Append(s, c)) = CallChunks(s) \o <<ToolChunk(c)>>
<1>0. \A c \in Call : CallsF[c] = Calls(c.id) /\ ToolChunkF[c] = ToolChunk(c) /\ Calls(c.id) \in Utterance /\ ToolChunk(c) \in Chunk
  BY ScriptTypes
<1> HIDE DEF Call, Utterance, Chunk, CallsF, ToolChunkF
<1>1. ASSUME NEW s \in Seq(Call)
      PROVE CallsSaid(s) \in Sayings /\ CallChunks(s) \in Chunks
  <2>1. Mapped(CallsF, s) \in Seq(Utterance)
    BY ScriptTypes, MappedType
  <2>2. Mapped(ToolChunkF, s) \in Seq(Chunk)
    BY ScriptTypes, MappedType
  <2> QED BY <2>1, <2>2 DEF CallsSaid, CallChunks, Sayings, Chunks
<1>2. ASSUME NEW s \in Seq(Call), NEW c \in Call
      PROVE CallsSaid(Append(s, c)) = CallsSaid(s) \o <<Calls(c.id)>>
  <2>0. CallsF \in [Call -> Utterance]
    BY ScriptTypes
  <2>1. Mapped(CallsF, Append(s, c)) = Append(Mapped(CallsF, s), CallsF[c])
    BY <2>0, MappedAppend
  <2>2. Append(CallsSaid(s), Calls(c.id)) = CallsSaid(s) \o <<Calls(c.id)>>
    BY <1>0, <1>1, SayingsAlgebra
  <2> QED BY <1>0, <2>1, <2>2 DEF CallsSaid
<1>3. ASSUME NEW s \in Seq(Call), NEW c \in Call
      PROVE CallChunks(Append(s, c)) = CallChunks(s) \o <<ToolChunk(c)>>
  <2>0. ToolChunkF \in [Call -> Chunk]
    BY ScriptTypes
  <2>1. Mapped(ToolChunkF, Append(s, c)) = Append(Mapped(ToolChunkF, s), ToolChunkF[c])
    BY <2>0, MappedAppend
  <2>2. Append(CallChunks(s), ToolChunk(c)) = CallChunks(s) \o <<ToolChunk(c)>>
    BY <1>0, <1>1, ChunkFacts
  <2> QED BY <1>0, <2>1, <2>2 DEF CallChunks
<1>4. CallsSaid(<<>>) = <<>> /\ CallChunks(<<>>) = <<>>
  BY MappedEmpty DEF CallsSaid, CallChunks
<1> QED BY <1>1, <1>2, <1>3, <1>4

(* A script's texts carry what they say, and call nothing; its calls carry *)
(* what they say.                                                          *)
LEMMA CarriesWords ==
  ASSUME StandsApart, NEW m \in BOOLEAN, NEW base \in ReadResult, NEW words \in Seq(Text)
  PROVE Carries(m, base, WordsSaid(words), WordChunks(words)) /\ CallsIn(WordsSaid(words)) = <<>>
<1> DEFINE T == {s \in Seq(Text) : Carries(m, base, WordsSaid(s), WordChunks(s)) /\ CallsIn(WordsSaid(s)) = <<>>}
<1>1. <<>> \in T
  BY WordsFold, CarriesNothing, CallsInFacts
<1>2. ASSUME NEW s \in Seq(Text), NEW t \in Text, Carries(m, base, WordsSaid(s), WordChunks(s)), CallsIn(WordsSaid(s)) = <<>>
      PROVE Carries(m, base, WordsSaid(Append(s, t)), WordChunks(Append(s, t))) /\ CallsIn(WordsSaid(Append(s, t))) = <<>>
  <2>1. WordsSaid(s) \in Sayings /\ WordChunks(s) \in Chunks
    BY WordsFold
  <2>2. <<Speaks(t)>> \in Sayings /\ TextChunk(t) \in Chunks
    BY UtteranceFacts, SayingsAlgebra, TextChunkIs
  <2>3. Carries(m, base, <<Speaks(t)>>, TextChunk(t))
    BY CarriesText
  <2>4. Carries(m, base, WordsSaid(s) \o <<Speaks(t)>>, WordChunks(s) \o TextChunk(t))
    BY <1>2, <2>1, <2>2, <2>3, CarriesBoth
  <2>5. CallsIn(WordsSaid(s) \o <<Speaks(t)>>) = CallsIn(WordsSaid(s)) \o CallsIn(<<Speaks(t)>>)
    BY <2>1, <2>2, CallsInConcat
  <2>6. CallsIn(<<Speaks(t)>>) = <<>> /\ <<>> \o <<>> = <<>>
    BY CallsInOne, NamesAlgebra
  <2> QED BY <1>2, <2>4, <2>5, <2>6, WordsFold
<1>3. \A s \in Seq(Text), t \in Text : s \in T => Append(s, t) \in T
  <2>1. \A s \in Seq(Text), t \in Text : Append(s, t) \in Seq(Text)
    BY AppendFront
  <2> QED BY <1>2, <2>1
<1> HIDE DEF T
<1>4. Seq(Text) \subseteq T
  BY <1>1, <1>3, SequenceInduction
<1> QED BY <1>4 DEF T

LEMMA CarriesCalls ==
  ASSUME NEW m \in BOOLEAN, NEW base \in ReadResult, NEW calls \in Seq(Call)
  PROVE Carries(m, base, CallsSaid(calls), CallChunks(calls)) /\ (CallsIn(CallsSaid(calls)) # <<>> <=> calls # <<>>)
<1> DEFINE T == {s \in Seq(Call) : Carries(m, base, CallsSaid(s), CallChunks(s)) /\ (CallsIn(CallsSaid(s)) # <<>> <=> s # <<>>)}
<1>1. <<>> \in T
  BY CallsFold, CarriesNothing, CallsInFacts
<1>2. ASSUME NEW s \in Seq(Call), NEW c \in Call, Carries(m, base, CallsSaid(s), CallChunks(s))
      PROVE Carries(m, base, CallsSaid(Append(s, c)), CallChunks(Append(s, c)))
            /\ CallsIn(CallsSaid(Append(s, c))) # <<>> /\ Append(s, c) # <<>>
  <2>1. CallsSaid(s) \in Sayings /\ CallChunks(s) \in Chunks
    BY CallsFold
  <2>2. <<Calls(c.id)>> \in Sayings /\ <<ToolChunk(c)>> \in Chunks /\ c.id \in Name
    BY CallParts, UtteranceFacts, SayingsAlgebra, ChunkFacts
  <2>3. Carries(m, base, <<Calls(c.id)>>, <<ToolChunk(c)>>)
    BY CarriesCall
  <2>4. Carries(m, base, CallsSaid(s) \o <<Calls(c.id)>>, CallChunks(s) \o <<ToolChunk(c)>>)
    BY <1>2, <2>1, <2>2, <2>3, CarriesBoth
  <2>5. CallsIn(CallsSaid(s) \o <<Calls(c.id)>>) = CallsIn(CallsSaid(s)) \o CallsIn(<<Calls(c.id)>>)
    BY <2>1, <2>2, CallsInConcat
  <2>6. CallsIn(<<Calls(c.id)>>) = <<c.id>> /\ <<c.id>> \in Names /\ <<c.id>> # <<>> /\ CallsIn(CallsSaid(s)) \in Names
    BY <2>1, <2>2, CallsInOne, NamesAlgebra, CallsInFacts
  <2>7. CallsIn(CallsSaid(s)) \o <<c.id>> # <<>>
    BY <2>6, NamesAlgebra
  <2>8. Append(s, c) # <<>>
    BY AppendFront
  <2> QED BY <2>4, <2>5, <2>6, <2>7, <2>8, CallsFold
<1>3. \A s \in Seq(Call), c \in Call : s \in T => Append(s, c) \in T
  <2>1. \A s \in Seq(Call), c \in Call : Append(s, c) \in Seq(Call)
    BY AppendFront
  <2> QED BY <1>2, <2>1
<1> HIDE DEF T
<1>4. Seq(Call) \subseteq T
  BY <1>1, <1>3, SequenceInduction
<1> QED BY <1>4 DEF T

(* What an adapter keeps while it reads a response.                        *)
Adapters == [call : Name, input : Seq(Pieces), stop : Stopped, usage : Nat, endOfTurn : StopReason, over : BOOLEAN]

(* ... as one record.                                                      *)
Adapter(c, i, s, u, e, o) == [call |-> c, input |-> i, stop |-> s, usage |-> u, endOfTurn |-> e, over |-> o]

(* Its fields have their types.                                            *)
LEMMA AdapterParts ==
  ASSUME NEW a \in Adapters
  PROVE /\ a.call \in Name /\ a.input \in Seq(Pieces) /\ a.stop \in Stopped /\ a.usage \in Nat
        /\ a.endOfTurn \in StopReason /\ a.over \in BOOLEAN
        /\ a = Adapter(a.call, a.input, a.stop, a.usage, a.endOfTurn, a.over)
<1> HIDE DEF Name, Pieces, Stopped, StopReason
<1> QED BY DEF Adapters, Adapter

(* A step of an adapter that does not throw.                               *)
StepIs(step, b, c) == step.adapter = b /\ step.chunks = c /\ step.error = ""

(* Yields is such a step.                                                  *)
LEMMA YieldsIs == \A b, c : StepIs(Yields(b, c), b, c)
BY DEF Yields, StepIs

(* The record's fields, and its type.                                      *)
LEMMA AdapterFields ==
  ASSUME NEW c, NEW i, NEW s, NEW u, NEW e, NEW o
  PROVE /\ Adapter(c, i, s, u, e, o).call = c /\ Adapter(c, i, s, u, e, o).input = i
        /\ Adapter(c, i, s, u, e, o).stop = s /\ Adapter(c, i, s, u, e, o).usage = u
        /\ Adapter(c, i, s, u, e, o).endOfTurn = e /\ Adapter(c, i, s, u, e, o).over = o
BY DEF Adapter

LEMMA AdapterType ==
  ASSUME NEW c \in Name, NEW i \in Seq(Pieces), NEW s \in Stopped, NEW u \in Nat, NEW e \in StopReason, NEW o \in BOOLEAN
  PROVE /\ Adapter(c, i, s, u, e, o) \in Adapters
        /\ Adapter(c, i, s, u, e, o).call = c /\ Adapter(c, i, s, u, e, o).input = i
        /\ Adapter(c, i, s, u, e, o).stop = s /\ Adapter(c, i, s, u, e, o).usage = u
        /\ Adapter(c, i, s, u, e, o).endOfTurn = e /\ Adapter(c, i, s, u, e, o).over = o
<1> HIDE DEF Name, Pieces, Stopped, StopReason
<1> QED BY DEF Adapters, Adapter

(* The model's EXCEPTs on an adapter, written out.                         *)
LEMMA AdapterOneExcept ==
  ASSUME NEW a \in Adapters, NEW v
  PROVE /\ [a EXCEPT !.input = v] = Adapter(a.call, v, a.stop, a.usage, a.endOfTurn, a.over)
        /\ [a EXCEPT !.stop = v] = Adapter(a.call, a.input, v, a.usage, a.endOfTurn, a.over)
        /\ [a EXCEPT !.usage = v] = Adapter(a.call, a.input, a.stop, v, a.endOfTurn, a.over)
        /\ [a EXCEPT !.over = v] = Adapter(a.call, a.input, a.stop, a.usage, a.endOfTurn, v)
<1> HIDE DEF Name, Pieces, Stopped, StopReason
<1> QED BY DEF Adapters, Adapter

LEMMA AdapterTwoExcept ==
  ASSUME NEW a \in Adapters, NEW v, NEW u
  PROVE /\ [a EXCEPT !.call = v, !.input = u] = Adapter(v, u, a.stop, a.usage, a.endOfTurn, a.over)
        /\ [a EXCEPT !.usage = v, !.endOfTurn = u] = Adapter(a.call, a.input, a.stop, v, u, a.over)
<1> HIDE DEF Name, Pieces, Stopped, StopReason
<1>1. [a EXCEPT !.call = v, !.input = u]
          = [x \in DOMAIN a |-> IF x = "input" THEN u ELSE IF x = "call" THEN v ELSE a[x]]
  BY DEF Adapters
<1>2. [a EXCEPT !.usage = v, !.endOfTurn = u]
          = [x \in DOMAIN a |-> IF x = "endOfTurn" THEN u ELSE IF x = "usage" THEN v ELSE a[x]]
  BY DEF Adapters
<1>3. DOMAIN a = {"call", "input", "stop", "usage", "endOfTurn", "over"}
  BY DEF Adapters
<1> QED BY <1>1, <1>2, <1>3 DEF Adapter

(* An adapter that has read nothing.                                       *)
LEMMA NewAdapterIs ==
  /\ NewAdapter = Adapter(NoCall, <<>>, NoStop, 0, "end_turn", FALSE)
  /\ NewAdapter \in Adapters /\ NewAdapter.call = NoCall /\ NewAdapter.stop = NoStop
  /\ NewAdapter.usage = 0 /\ NewAdapter.endOfTurn = "end_turn" /\ NewAdapter.over = FALSE
<1>1. NewAdapter = Adapter(NoCall, <<>>, NoStop, 0, "end_turn", FALSE)
  BY DEF NewAdapter, Adapter
<1>2. NoCall \in Name /\ <<>> \in Seq(Pieces) /\ NoStop \in Stopped /\ "end_turn" \in StopReason
  <2>1. NoCall \in Name
    BY NamedType DEF NoCall
  <2> QED BY <2>1 DEF Stopped, StopReason
<1> DEFINE s == <<>>
           r == "end_turn"
           n == NoStop
           f == FALSE
<1>3. NewAdapter = Adapter(NoCall, s, n, 0, r, f) /\ s \in Seq(Pieces) /\ n \in Stopped /\ r \in StopReason /\ f \in BOOLEAN
  BY <1>1, <1>2
<1> HIDE DEF s, r, n, f
<1>4. /\ NewAdapter \in Adapters /\ NewAdapter.call = NoCall /\ NewAdapter.stop = n
      /\ NewAdapter.usage = 0 /\ NewAdapter.endOfTurn = r /\ NewAdapter.over = f
  BY <1>2, <1>3, AdapterType
<1> QED BY <1>1, <1>4 DEF n, r, f

-----------------------------------------------------------------------------
(* Bedrock, event by event.                                                *)
BedrockKinds == {"text", "toolStart", "toolInput", "blockStop", "messageStop", "metadata"}

(* What the adapter does with each.                                        *)
LEMMA BedrockEventIs ==
  ASSUME NEW a \in Adapters, NEW e \in Event
  PROVE /\ e.kind = "text" => StepIs(BedrockEvent(a, e), a, TextChunk(e.text))
        /\ e.kind = "toolStart" =>
              StepIs(BedrockEvent(a, e), Adapter(e.id, <<>>, a.stop, a.usage, a.endOfTurn, a.over), <<>>)
        /\ e.kind = "toolInput" =>
              StepIs(BedrockEvent(a, e), Adapter(a.call, Append(a.input, e.piece), a.stop, a.usage, a.endOfTurn, a.over), <<>>)
        /\ e.kind = "messageStop" =>
              StepIs(BedrockEvent(a, e), Adapter(a.call, a.input, e.reason, a.usage, a.endOfTurn, a.over), <<>>)
        /\ e.kind = "metadata" =>
              StepIs(BedrockEvent(a, e), Adapter(a.call, a.input, a.stop, Newer(e.usage, a.usage), a.endOfTurn, a.over), <<>>)
        /\ e.kind = "blockStop" => BedrockEvent(a, e) = HandleBlockStop(a)
<1>1. e.kind = "text" => BedrockEvent(a, e) = Yields(a, TextChunk(e.text))
  BY DEF BedrockEvent
<1>2. e.kind = "toolStart" => BedrockEvent(a, e) = Yields([a EXCEPT !.call = e.id, !.input = <<>>], <<>>)
  BY DEF BedrockEvent
<1>3. e.kind = "toolInput" => BedrockEvent(a, e) = Yields([a EXCEPT !.input = Append(a.input, e.piece)], <<>>)
  BY DEF BedrockEvent
<1>4. e.kind = "messageStop" => BedrockEvent(a, e) = Yields([a EXCEPT !.stop = e.reason], <<>>)
  BY DEF BedrockEvent, HandleMessageStop
<1>5. e.kind = "metadata" => BedrockEvent(a, e) = Yields([a EXCEPT !.usage = Newer(e.usage, a.usage)], <<>>)
  BY DEF BedrockEvent
<1>6. e.kind = "blockStop" => BedrockEvent(a, e) = HandleBlockStop(a)
  BY DEF BedrockEvent
<1>7. /\ [a EXCEPT !.call = e.id, !.input = <<>>] = Adapter(e.id, <<>>, a.stop, a.usage, a.endOfTurn, a.over)
      /\ [a EXCEPT !.input = Append(a.input, e.piece)] = Adapter(a.call, Append(a.input, e.piece), a.stop, a.usage, a.endOfTurn, a.over)
      /\ [a EXCEPT !.stop = e.reason] = Adapter(a.call, a.input, e.reason, a.usage, a.endOfTurn, a.over)
      /\ [a EXCEPT !.usage = Newer(e.usage, a.usage)] = Adapter(a.call, a.input, a.stop, Newer(e.usage, a.usage), a.endOfTurn, a.over)
  BY ZenonT(60), AdapterOneExcept, AdapterTwoExcept
<1> QED BY <1>1, <1>2, <1>3, <1>4, <1>5, <1>6, <1>7, YieldsIs

(* The call that is whole with a block's end.                              *)
WholeCall(a) == [id |-> a.call, name |-> Named("tool"), input |-> ParsedInput(a.input)]

(* The end of a block: nothing outside a call; a call that is whole, or an *)
(* input that does not parse.                                              *)
LEMMA BlockStopIs ==
  ASSUME NEW a \in Adapters
  PROVE /\ a.call = NoCall => StepIs(HandleBlockStop(a), a, <<>>)
        /\ a.call # NoCall /\ HandleBlockStop(a).error = "" =>
              /\ StepIs(HandleBlockStop(a), Adapter(NoCall, <<>>, a.stop, a.usage, a.endOfTurn, a.over),
                        <<ToolChunk(WholeCall(a))>>)
              /\ WholeCall(a) \in Call /\ WholeCall(a).id = a.call
        /\ HandleBlockStop(a).error # "" => a.call # NoCall
<1>1. a.call = NoCall => HandleBlockStop(a) = Yields(a, <<>>) /\ HandleBlockStop(a).error = ""
  BY DEF HandleBlockStop, Yields
<1>2. ASSUME a.call # NoCall, HandleBlockStop(a).error = ""
      PROVE HandleBlockStop(a) = Yields([a EXCEPT !.call = NoCall, !.input = <<>>], <<ToolChunk(WholeCall(a))>>)
  <2>1. CASE a.input \notin {<<>>, WholeInput}
    BY <1>2, <2>1 DEF HandleBlockStop, Throws
  <2>2. CASE a.input \in {<<>>, WholeInput}
    BY <1>2, <2>2 DEF HandleBlockStop, WholeCall
  <2> QED BY <2>1, <2>2
<1>3. WholeCall(a) \in Call /\ WholeCall(a).id = a.call
  <2>1. a.call \in Name /\ Named("tool") \in Name
    BY AdapterParts, ToolCallFacts
  <2>2. ParsedInput(a.input) \in Input
    BY DEF ParsedInput, EmptyInput, MaskedInput, Input, Found
  <2> HIDE DEF Name, Named, ParsedInput
  <2> QED BY <2>1, <2>2 DEF WholeCall, Call
<1>4. [a EXCEPT !.call = NoCall, !.input = <<>>] = Adapter(NoCall, <<>>, a.stop, a.usage, a.endOfTurn, a.over)
  BY AdapterTwoExcept
<1>5. a.call = NoCall => StepIs(HandleBlockStop(a), a, <<>>)
  BY <1>1, YieldsIs
<1> DEFINE b == Adapter(NoCall, <<>>, a.stop, a.usage, a.endOfTurn, a.over)
           c == <<ToolChunk(WholeCall(a))>>
<1>6. a.call # NoCall /\ HandleBlockStop(a).error = "" => HandleBlockStop(a) = Yields(b, c)
  BY <1>2, <1>4
<1> HIDE DEF b, c
<1>7. a.call # NoCall /\ HandleBlockStop(a).error = "" => StepIs(HandleBlockStop(a), b, c)
  BY <1>6, YieldsIs
<1> QED BY <1>1, <1>3, <1>5, <1>7 DEF b, c

(* A script's lines as the model writes them.                              *)
LEMMA LinesOf ==
  ASSUME NEW words \in Seq(Text), NEW calls \in Seq(Call)
  PROVE /\ [i \in DOMAIN words |-> Speaks(words[i])] = WordsSaid(words)
        /\ [i \in DOMAIN calls |-> Calls(calls[i].id)] = CallsSaid(calls)
        /\ FlattenSeq([i \in DOMAIN words |-> TextChunk(words[i])]) = WordChunks(words)
        /\ [i \in DOMAIN calls |-> ToolChunk(calls[i])] = CallChunks(calls)
<1>0. \A t \in Text : SpeaksF[t] = Speaks(t) /\ TextChunkF[t] = TextChunk(t)
  BY ScriptTypes
<1>1. \A c \in Call : CallsF[c] = Calls(c.id) /\ ToolChunkF[c] = ToolChunk(c)
  BY ScriptTypes
<1> HIDE DEF Text, Call
<1>2. (\A i \in DOMAIN words : words[i] \in Text) /\ (\A i \in DOMAIN calls : calls[i] \in Call)
  OBVIOUS
<1>3. \A i \in DOMAIN words : SpeaksF[words[i]] = Speaks(words[i]) /\ TextChunkF[words[i]] = TextChunk(words[i])
  BY <1>0, <1>2
<1>4. \A i \in DOMAIN calls : CallsF[calls[i]] = Calls(calls[i].id) /\ ToolChunkF[calls[i]] = ToolChunk(calls[i])
  BY <1>1, <1>2
<1>5. Mapped(SpeaksF, words) = [i \in DOMAIN words |-> Speaks(words[i])]
      /\ Mapped(TextChunkF, words) = [i \in DOMAIN words |-> TextChunk(words[i])]
  BY <1>3 DEF Mapped
<1>6. Mapped(CallsF, calls) = [i \in DOMAIN calls |-> Calls(calls[i].id)]
      /\ Mapped(ToolChunkF, calls) = [i \in DOMAIN calls |-> ToolChunk(calls[i])]
  BY <1>4 DEF Mapped
<1> QED BY <1>5, <1>6 DEF WordsSaid, WordChunks, CallsSaid, CallChunks, Flat

(* What a response says, what a script says, and that any event's sayings  *)
(* have their type.                                                        *)
LEMMA EventSays ==
  ASSUME NEW e \in Event
  PROVE /\ e.kind = "response" => UtterancesOf(e) = SaidIn(e.parts)
        /\ e.kind = "turn" => UtterancesOf(e) = WordsSaid(e.words) \o CallsSaid(e.calls)
        /\ UtterancesOf(e) \in Sayings
<1>1. ASSUME e.kind = "response"
      PROVE UtterancesOf(e) = SaidIn(e.parts) /\ SaidIn(e.parts) \in Sayings
  <2>1. e.parts \in Seq(Part)
    BY <1>1, EventParts
  <2>2. Parts(e) = FlattenSeq([i \in DOMAIN e.parts |-> PartSays(e.parts[i])])
    BY DEF Parts, PartSays
  <2> QED BY <1>1, <2>1, <2>2, PartsOf, PartsFold, UtterancesOfIs
<1>2. ASSUME e.kind = "turn"
      PROVE UtterancesOf(e) = WordsSaid(e.words) \o CallsSaid(e.calls) /\ WordsSaid(e.words) \o CallsSaid(e.calls) \in Sayings
  <2>1. e.words \in Seq(Text) /\ e.calls \in Seq(Call)
    BY <1>2, EventParts
  <2>2. Lines(e) = WordsSaid(e.words) \o CallsSaid(e.calls)
    BY <2>1, LinesOf DEF Lines
  <2>3. WordsSaid(e.words) \in Sayings /\ CallsSaid(e.calls) \in Sayings
    BY <2>1, WordsFold, CallsFold
  <2> QED BY <1>2, <2>2, <2>3, UtterancesOfIs, SayingsAlgebra
<1>3. e.kind = "text" => UtterancesOf(e) \in Sayings
  BY ZenonT(60), EventParts, UtterancesOfIs, UtteranceFacts, SayingsAlgebra
<1>4. e.kind = "toolStart" => UtterancesOf(e) \in Sayings
  BY ZenonT(60), EventParts, UtterancesOfIs, UtteranceFacts, SayingsAlgebra
<1>5. e.kind \in {"toolInput", "blockStop", "messageStop", "metadata", "exhausted"} => UtterancesOf(e) \in Sayings
  BY UtterancesOfIs, SayingsAlgebra
<1> QED BY <1>1, <1>2, <1>3, <1>4, <1>5, EventParts

(* What a vendor sent.                                                     *)
Events == Seq(Event)

(* What was sent says a fold of what the events say.                       *)
LEMMA UtterancesFold ==
  /\ Utterances(<<>>) = <<>>
  /\ \A s \in Events : Utterances(s) \in Sayings
  /\ \A s \in Events, e \in Event : Utterances(Append(s, e)) = Utterances(s) \o UtterancesOf(e)
<1> DEFINE f == [e \in Event |-> UtterancesOf(e)]
<1>1. f \in [Event -> Seq(Utterance)]
  BY EventSays DEF Sayings
<1>2. \A e \in Event : f[e] = UtterancesOf(e)
  OBVIOUS
<1> HIDE DEF f, Event, Utterance
<1>3. ASSUME NEW s \in Seq(Event)
      PROVE Utterances(s) = Flat(f, s)
  <2>1. \A i \in DOMAIN s : s[i] \in Event
    OBVIOUS
  <2>2. \A i \in DOMAIN s : f[s[i]] = UtterancesOf(s[i])
    BY <1>2, <2>1
  <2>3. Mapped(f, s) = [i \in DOMAIN s |-> UtterancesOf(s[i])]
    BY <2>2 DEF Mapped
  <2> QED BY <2>3 DEF Utterances, Flat
<1>4. /\ Flat(f, <<>>) = <<>>
      /\ \A s \in Seq(Event) : Flat(f, s) \in Seq(Utterance)
      /\ \A s \in Seq(Event), e \in Event : Flat(f, Append(s, e)) = Flat(f, s) \o f[e]
  BY <1>1, FlatFacts
<1>5. \A s \in Seq(Event), e \in Event : Append(s, e) \in Seq(Event)
  OBVIOUS
<1>6. <<>> \in Seq(Event)
  OBVIOUS
<1> QED BY <1>2, <1>3, <1>4, <1>5, <1>6 DEF Events, Sayings

(* Sequences of events.                                                    *)
LEMMA EventsFacts ==
  /\ <<>> \in Events
  /\ \A s \in Events, e \in Event :
        Append(s, e) \in Events /\ Append(s, e) # <<>> /\ Last(Append(s, e)) = e /\ Front(Append(s, e)) = s
  /\ \A s \in Events : s # <<>> => /\ Last(s) \in Event /\ Front(s) \in Events /\ s = Append(Front(s), Last(s))
  /\ \A s \in Events : Len(s) \in Nat
<1> HIDE DEF Event
<1> QED BY SMTT(30), AppendFront, FrontAndLast DEF Events

-----------------------------------------------------------------------------
(* A round that is being received: the mask and the parser stand where its *)
(* text has brought them, and a call that has begun has ended the text     *)
(* before it.                                                              *)
Waits(m, x, r) == r.since = <<>> /\ x.w.round.text \o PutBack(m, x.held) = r.before

(* Between Bedrock's events: no stop or count was heard, and the text is   *)
(* rendered; if a call is being put together, that goes after the text.    *)
Attends(m, base, a, x, events) ==
    /\ Ready(m, base, x)
    /\ x.w.round.stopReason = NoStop /\ x.w.round.usage = 0
    /\ a.call = NoCall => Renders(m, x.held, x.w.round.text, Rendering(m, Utterances(events)))
    /\ a.call # NoCall => Waits(m, x, Rendering(m, Utterances(events)))

(* With no call begun, that is listening.                                  *)
LEMMA AttendsListens ==
  ASSUME NEW m, NEW base, NEW a, NEW x, NEW events, Attends(m, base, a, x, events), a.call = NoCall
  PROVE Listens(m, base, x, Rendering(m, Utterances(events)))
BY DEF Attends, Listens, Ready

(* The text heard and the text held are all the text said.                 *)
HeardOf(m, x, events) ==
    TextOf(m, events) = x.w.round.text \o x.held /\ x.held \in Text /\ x.w.round.text \in Text

(* Whatever is held back is all of the text that has not been heard.       *)
LEMMA TextSoFar ==
  ASSUME NEW m \in BOOLEAN, NEW base, NEW a, NEW x, NEW events \in Events, Attends(m, base, a, x, events)
  PROVE HeardOf(m, x, events)
<1> DEFINE r == Rendering(m, Utterances(events))
           h == x.held
           t == x.w.round.text
<1>1. TextOf(m, events) = r.before \o PutBack(m, r.since)
  BY DEF TextOf
<1>2. Keeps(m, h) /\ h \in Text /\ PutBack(m, h) = h /\ x \in Ears
  BY KeptIsText DEF Attends, Ready
<1>3. t \in Text
  BY <1>2, EarRound
<1>4. r.before \in Text /\ r.since \in Text
  BY UtterancesFold, RenderingParts
<1>5. CASE a.call = NoCall
  <2>1. Renders(m, h, t, r)
    BY <1>5 DEF Attends
  <2> HIDE DEF r, h, t
  <2>2. t \o PutBack(m, h) = r.before \o PutBack(m, r.since)
    <3>1. h \o <<>> = h /\ r.since \o <<>> = r.since /\ <<>> \in Text
      BY <1>2, <1>4, TextFacts
    <3>2. \A rest \in Text : t \o PutBack(m, h \o rest) = r.before \o PutBack(m, r.since \o rest)
      BY <2>1 DEF Renders
    <3>3. t \o PutBack(m, h \o <<>>) = r.before \o PutBack(m, r.since \o <<>>)
      BY <3>1, <3>2
    <3> QED BY <3>1, <3>3
  <2> QED BY <1>1, <1>2, <1>3, <2>2 DEF h, t, HeardOf
<1>6. CASE a.call # NoCall
  <2>1. Waits(m, x, r)
    BY <1>6 DEF Attends
  <2>2. r.since = <<>> /\ t \o PutBack(m, h) = r.before
    BY <2>1 DEF Waits
  <2>3. PutBack(m, <<>>) = <<>> /\ r.before \o <<>> = r.before
    BY <1>4, PutBackFacts, TextFacts
  <2> HIDE DEF r, h, t
  <2> QED BY <1>1, <1>2, <1>3, <2>2, <2>3 DEF h, t, HeardOf
<1> QED BY <1>5, <1>6 DEF HeardOf

(* A round whose stream is over: all of its text has been heard.           *)
Unstopped(base, x) ==
    /\ Short(x.w.shown.parser) /\ Parses(base, x.w.round.text, x.w.shown)
    /\ x.w.round.stopReason = NoStop

(* The stream has ended: all of the text is heard, stop or no stop.        *)
Ends(m, base, x, events) ==
    /\ x \in Ears /\ x.held = <<>> /\ x.w.round.text = TextOf(m, events)
    /\ Finished(base, x) \/ Unstopped(base, x)

(* Bedrock's adapter attends to every event it does not fail of.           *)
LEMMA BedrockHears ==
  ASSUME StandsApart, NEW m \in BOOLEAN, NEW base \in ReadResult, NEW a \in Adapters, NEW x, NEW events \in Events,
         Attends(m, base, a, x, events), NEW e \in Event, e.kind \in BedrockKinds,
         BedrockEvent(a, e).error = "",
         e.kind \in {"text", "toolStart"} => a.call = NoCall,
         e.kind = "toolStart" => e.id # NoCall
  PROVE LET b == BedrockEvent(a, e).adapter
            y == Hears(m, x, BedrockEvent(a, e).chunks)
        IN  Attends(m, base, b, y, Append(events, e))
<1> DEFINE step == BedrockEvent(a, e)
           b == step.adapter
           y == Hears(m, x, step.chunks)
           us == Utterances(events)
           r == Rendering(m, us)
<1>1. us \in Sayings /\ Utterances(Append(events, e)) = us \o UtterancesOf(e) /\ us \o <<>> = us
  BY UtterancesFold, SayingsAlgebra
<1>2. x \in Ears /\ Ready(m, base, x) /\ x.w.round.stopReason = NoStop /\ x.w.round.usage = 0
  BY DEF Attends, Ready
<1>3. Hears(m, x, <<>>) = x
  BY <1>2, HearsNothing
<1>4. CASE e.kind = "text"
  <2>1. StepIs(step, a, TextChunk(e.text)) /\ e.text \in Text /\ a.call = NoCall
    BY <1>4, BedrockEventIs, EventParts
  <2>2. b = a /\ y = Hears(m, x, TextChunk(e.text))
    <3>1. b = a /\ step.chunks = TextChunk(e.text)
      BY <2>1 DEF StepIs
    <3> QED BY <3>1
  <2>3. Listens(m, base, x, r)
    BY <2>1, AttendsListens
  <2>4. Carries(m, base, <<Speaks(e.text)>>, TextChunk(e.text))
    BY <2>1, CarriesText
  <2>5. UtterancesOf(e) = <<Speaks(e.text)>>
    BY <1>4, UtterancesOfIs
  <2>6. Listens(m, base, y, Rendering(m, us \o UtterancesOf(e))) /\ Counted(x, y, UtterancesOf(e))
    BY <1>1, <2>2, <2>3, <2>4, <2>5 DEF Carries
  <2> HIDE DEF b, y, us, r
  <2> QED BY <1>1, <1>2, <2>1, <2>2, <2>6 DEF Attends, Listens, Ready, Counted, us, b, y
<1>5. CASE e.kind = "toolStart"
  <2>1. StepIs(step, Adapter(e.id, <<>>, a.stop, a.usage, a.endOfTurn, a.over), <<>>)
        /\ e.id \in Name /\ e.id # NoCall /\ a.call = NoCall
    BY <1>5, BedrockEventIs, EventParts
  <2>2. b.call = e.id /\ y = x
    <3>1. b = Adapter(e.id, <<>>, a.stop, a.usage, a.endOfTurn, a.over) /\ step.chunks = <<>>
      BY <2>1 DEF StepIs
    <3>2. y = x
      BY <1>3, <3>1
    <3> HIDE DEF b, y
    <3>3. b.call = e.id
      BY <3>1 DEF Adapter
    <3> QED BY <3>2, <3>3
  <2>3. UtterancesOf(e) = <<Calls(e.id)>>
    BY <1>5, UtterancesOfIs
  <2>4. Rendering(m, us \o UtterancesOf(e)) = [before |-> r.before \o PutBack(m, r.since), since |-> <<>>]
    BY <1>1, <2>1, <2>3, RenderCalls
  <2>5. TextOf(m, events) = r.before \o PutBack(m, r.since)
    BY DEF TextOf
  <2>6. TextOf(m, events) = x.w.round.text \o x.held /\ PutBack(m, x.held) = x.held
    <3>1. TextOf(m, events) = x.w.round.text \o x.held
      <4>1. HeardOf(m, x, events)
        BY TextSoFar
      <4> QED BY <4>1 DEF HeardOf
    <3>2. PutBack(m, x.held) = x.held
      <4>1. Keeps(m, x.held)
        BY <1>2 DEF Ready
      <4> QED BY <4>1, KeptIsText
    <3> QED BY <3>1, <3>2
  <2> DEFINE q == Rendering(m, us \o UtterancesOf(e))
  <2>9. q = [before |-> r.before \o PutBack(m, r.since), since |-> <<>>]
    BY <2>4
  <2> HIDE DEF q, r
  <2>8. q.since = <<>> /\ q.before = r.before \o PutBack(m, r.since)
    BY <2>9
  <2>7. Waits(m, x, q)
    BY <2>5, <2>6, <2>8 DEF Waits
  <2> HIDE DEF b, y, us
  <2> QED BY <1>1, <1>2, <2>1, <2>2, <2>7 DEF Attends, us, b, y, q
<1>6. CASE e.kind \in {"toolInput", "messageStop", "metadata"}
  <2>1. b.call = a.call /\ y = x
    <3>1. CASE e.kind = "toolInput"
      <4>1. StepIs(step, Adapter(a.call, Append(a.input, e.piece), a.stop, a.usage, a.endOfTurn, a.over), <<>>)
        BY <3>1, BedrockEventIs
      <4>2. b = Adapter(a.call, Append(a.input, e.piece), a.stop, a.usage, a.endOfTurn, a.over) /\ step.chunks = <<>>
        BY <4>1 DEF StepIs
      <4>3. y = x
        BY <1>3, <4>2
      <4> HIDE DEF b, y
      <4>4. b.call = a.call
        BY <4>2 DEF Adapter
      <4> QED BY <4>3, <4>4
    <3>2. CASE e.kind = "messageStop"
      <4>1. StepIs(step, Adapter(a.call, a.input, e.reason, a.usage, a.endOfTurn, a.over), <<>>)
        BY <3>2, BedrockEventIs
      <4>2. b = Adapter(a.call, a.input, e.reason, a.usage, a.endOfTurn, a.over) /\ step.chunks = <<>>
        BY <4>1 DEF StepIs
      <4>3. y = x
        BY <1>3, <4>2
      <4> HIDE DEF b, y
      <4>4. b.call = a.call
        BY <4>2 DEF Adapter
      <4> QED BY <4>3, <4>4
    <3>3. CASE e.kind = "metadata"
      <4>1. StepIs(step, Adapter(a.call, a.input, a.stop, Newer(e.usage, a.usage), a.endOfTurn, a.over), <<>>)
        BY <3>3, BedrockEventIs
      <4>2. b = Adapter(a.call, a.input, a.stop, Newer(e.usage, a.usage), a.endOfTurn, a.over) /\ step.chunks = <<>>
        BY <4>1 DEF StepIs
      <4>3. y = x
        BY <1>3, <4>2
      <4> HIDE DEF b, y
      <4>4. b.call = a.call
        BY <4>2 DEF Adapter
      <4> QED BY <4>3, <4>4
    <3> QED BY <1>6, <3>1, <3>2, <3>3
  <2>2. UtterancesOf(e) = <<>>
    BY <1>6, UtterancesOfIs
  <2> HIDE DEF b, y, us, r
  <2> QED BY <1>1, <1>2, <2>1, <2>2 DEF Attends, us, b, y
<1>7. CASE e.kind = "blockStop"
  <2>1. BedrockEvent(a, e) = HandleBlockStop(a)
    BY <1>7, BedrockEventIs
  <2>2. UtterancesOf(e) = <<>>
    BY <1>7, UtterancesOfIs
  <2>3. CASE a.call = NoCall
    <3>1. StepIs(HandleBlockStop(a), a, <<>>)
      BY <2>3, BlockStopIs
    <3>2. b = a /\ y = x
      <4>1. b = a /\ step.chunks = <<>>
        BY <2>1, <3>1 DEF StepIs
      <4> QED BY <1>3, <4>1
    <3> HIDE DEF b, y, us, r
    <3> QED BY <1>1, <1>2, <2>2, <2>3, <3>2 DEF Attends, us, b, y
  <2>4. CASE a.call # NoCall
    <3>1. StepIs(HandleBlockStop(a), Adapter(NoCall, <<>>, a.stop, a.usage, a.endOfTurn, a.over), <<ToolChunk(WholeCall(a))>>)
          /\ WholeCall(a) \in Call
      BY <2>1, <2>4, BlockStopIs
    <3>2. b.call = NoCall /\ y = Hears(m, x, <<ToolChunk(WholeCall(a))>>)
      <4>1. b = Adapter(NoCall, <<>>, a.stop, a.usage, a.endOfTurn, a.over)
            /\ step.chunks = <<ToolChunk(WholeCall(a))>>
        BY <2>1, <3>1 DEF StepIs
      <4>2. y = Hears(m, x, <<ToolChunk(WholeCall(a))>>)
        BY <4>1
      <4> HIDE DEF b, y
      <4>3. b.call = NoCall
        BY <4>1 DEF Adapter
      <4> QED BY <4>2, <4>3
    <3>3. HeardCall(m, base, x, WholeCall(a), y)
      BY <1>2, <3>1, <3>2, HearsTool
    <3>4. Waits(m, x, r)
      BY <2>4 DEF Attends
    <3>5. PutBack(m, x.held) = x.held
      <4>1. Keeps(m, x.held)
        BY <1>2 DEF Ready
      <4> QED BY <4>1, KeptIsText
    <3>6. r \in RenderingType
      BY <1>1, RenderFold
    <3> HIDE DEF b, y, us, r
    <3>7. r = [before |-> y.w.round.text, since |-> <<>>]
      <4>1. r.since = <<>> /\ r.before = y.w.round.text
        BY <3>3, <3>4, <3>5 DEF Waits, HeardCall
      <4>2. r = [before |-> r.before, since |-> r.since]
        BY <3>6 DEF RenderingType
      <4> QED BY <4>1, <4>2
    <3>8. Renders(m, <<>>, y.w.round.text, r)
      BY <3>7, RendersItself
    <3> QED BY <1>1, <1>2, <2>2, <3>2, <3>3, <3>8 DEF Attends, HeardCall, Ready, us, b, y, r
  <2> QED BY <2>3, <2>4
<1> QED BY <1>4, <1>5, <1>6, <1>7 DEF BedrockKinds

(* The stream has ended with a stop.                                       *)
StoppedWith(m, base, x, events, r, u, y) ==
    /\ Ends(m, base, y, events) /\ Finished(base, y)
    /\ y.w.round.calls = x.w.round.calls
    /\ y.w.round.stopReason = r /\ y.w.round.usage = Newer(u, x.w.round.usage)

(* A stop ends it, what was held heard first.                              *)
LEMMA StopEnds ==
  ASSUME NEW m \in BOOLEAN, NEW base \in ReadResult, NEW x, Ready(m, base, x),
         NEW events, HeardOf(m, x, events), NEW r \in StopReason, NEW u \in Nat
  PROVE StoppedWith(m, base, x, events, r, u, Hears(m, x, <<StopChunk(r, u)>>))
<1> DEFINE y == Hears(m, x, <<StopChunk(r, u)>>)
<1>1. HeardStop(base, x, r, u, y)
  BY HearsStop
<1> HIDE DEF y
<1>2. StoppedWith(m, base, x, events, r, u, y)
  BY <1>1 DEF HeardStop, HeardOf, StoppedWith, Ends
<1> QED BY <1>2 DEF y

(* Listening, nothing said is lost: the text is heard or held.             *)
LEMMA ListensHeard ==
  ASSUME NEW m \in BOOLEAN, NEW base, NEW x, NEW events \in Events, Listens(m, base, x, Rendering(m, Utterances(events)))
  PROVE HeardOf(m, x, events)
<1> DEFINE r == Rendering(m, Utterances(events))
           h == x.held
           t == x.w.round.text
<1>1. TextOf(m, events) = r.before \o PutBack(m, r.since)
  BY DEF TextOf
<1>2. Keeps(m, h) /\ h \in Text /\ PutBack(m, h) = h /\ x \in Ears
  BY KeptIsText DEF Listens
<1>3. t \in Text
  BY <1>2, EarRound
<1>4. r.before \in Text /\ r.since \in Text
  BY UtterancesFold, RenderingParts
<1>5. Renders(m, h, t, r)
  BY DEF Listens
<1> HIDE DEF r, h, t
<1>6. t \o PutBack(m, h) = r.before \o PutBack(m, r.since)
  <2>1. h \o <<>> = h /\ r.since \o <<>> = r.since /\ <<>> \in Text
    BY <1>2, <1>4, TextFacts
  <2>2. \A rest \in Text : t \o PutBack(m, h \o rest) = r.before \o PutBack(m, r.since \o rest)
    BY <1>5 DEF Renders
  <2>3. t \o PutBack(m, h \o <<>>) = r.before \o PutBack(m, r.since \o <<>>)
    BY <2>1, <2>2
  <2> QED BY <2>1, <2>3
<1> QED BY <1>1, <1>2, <1>3, <1>6 DEF h, t, HeardOf

-----------------------------------------------------------------------------
(* Vertex, response by response.                                           *)
EndOfTurn(a, e) == IF HasTool(YieldedOf(e.parts)) THEN "tool_use" ELSE a.endOfTurn

NewerCount(a, e) == Newer(e.usage, a.usage)

(* What the adapter does with a response: with a finish reason, the stop   *)
(* is its last chunk.                                                      *)
LEMMA VertexEventIs ==
  ASSUME NEW a \in Adapters, NEW e \in Event, e.kind = "response"
  PROVE /\ e.finish = "" =>
              StepIs(VertexEvent(a, e), Adapter(a.call, a.input, a.stop, NewerCount(a, e), EndOfTurn(a, e), a.over),
                     YieldedOf(e.parts))
        /\ e.finish # "" =>
              StepIs(VertexEvent(a, e), Adapter(a.call, a.input, a.stop, NewerCount(a, e), EndOfTurn(a, e), TRUE),
                     Append(YieldedOf(e.parts), StopChunk(StopReasonOf(e.finish, EndOfTurn(a, e)), NewerCount(a, e))))
<1>1. e.parts \in Seq(Part) /\ e.usage \in Nat
  BY EventParts
<1> DEFINE chunks == FlattenSeq([i \in DOMAIN e.parts |-> PartChunks(e.parts[i])])
           usage == Newer(e.usage, a.usage)
           called == \E i \in DOMAIN chunks : chunks[i].type = "tool_use"
           ended == IF called THEN "tool_use" ELSE a.endOfTurn
           next == [a EXCEPT !.usage = usage, !.endOfTurn = ended]
<1>2. VertexEvent(a, e) = IF e.finish = "" THEN Yields(next, chunks)
                          ELSE Yields([next EXCEPT !.over = TRUE], Append(chunks, StopChunk(StopReasonOf(e.finish, ended), usage)))
  BY DEF VertexEvent
<1>3. chunks = YieldedOf(e.parts)
  BY <1>1, PartsOf
<1>4. ended = EndOfTurn(a, e)
  BY <1>3 DEF EndOfTurn, HasTool
<1>5. usage = NewerCount(a, e)
  BY DEF NewerCount
<1>6. a.usage \in Nat /\ a.endOfTurn \in StopReason /\ a.call \in Name /\ a.input \in Seq(Pieces) /\ a.stop \in Stopped /\ a.over \in BOOLEAN
  BY AdapterParts
<1> HIDE DEF chunks, ended, usage
<1>7. usage \in Nat /\ ended \in StopReason
  <2>1. usage \in Nat
    BY <1>1, <1>6, NewerType DEF usage
  <2>2. ended \in StopReason
    BY <1>6 DEF ended, StopReason
  <2> QED BY <2>1, <2>2
<1>8. next = Adapter(a.call, a.input, a.stop, usage, ended, a.over)
  BY AdapterTwoExcept
<1>9. next \in Adapters
  BY <1>6, <1>7, <1>8, AdapterType
<1> DEFINE done == Adapter(a.call, a.input, a.stop, usage, ended, TRUE)
           all == Append(chunks, StopChunk(StopReasonOf(e.finish, ended), usage))
<1>10. [next EXCEPT !.over = TRUE] = done
  <2>1. next.call = a.call /\ next.input = a.input /\ next.stop = a.stop /\ next.usage = usage /\ next.endOfTurn = ended
    BY <1>6, <1>7, <1>8, AdapterType
  <2> HIDE DEF next
  <2>2. [next EXCEPT !.over = TRUE] = Adapter(next.call, next.input, next.stop, next.usage, next.endOfTurn, TRUE)
    BY <1>9, AdapterOneExcept
  <2> QED BY <2>1, <2>2
<1> DEFINE kept == Adapter(a.call, a.input, a.stop, usage, ended, a.over)
<1>11. /\ e.finish = "" => VertexEvent(a, e) = Yields(kept, chunks)
       /\ e.finish # "" => VertexEvent(a, e) = Yields(done, all)
  BY <1>2, <1>8, <1>10
<1> HIDE DEF kept, done, all
<1>12. /\ e.finish = "" => StepIs(VertexEvent(a, e), kept, chunks)
       /\ e.finish # "" => StepIs(VertexEvent(a, e), done, all)
  BY <1>11, YieldsIs
<1> QED BY <1>3, <1>4, <1>5, <1>12 DEF kept, done, all

(* Every finish reason gives a reason to stop.                             *)
LEMMA StopReasonType ==
  ASSUME NEW f \in {"STOP", "MAX_TOKENS", "SAFETY"}, NEW r \in StopReason
  PROVE StopReasonOf(f, r) \in StopReason
BY DEF StopReasonOf, StopReason

(* What is heard of a response.                                            *)
VertexHeard(m, base, a, x, events, e, step, y) ==
    /\ e.finish = "" =>
         /\ Listens(m, base, y, Rendering(m, Utterances(Append(events, e))))
         /\ Counted(x, y, UtterancesOf(e))
    /\ e.finish # "" =>
         /\ Ends(m, base, y, Append(events, e)) /\ Finished(base, y)
         /\ Ids(y.w.round.calls) = Ids(x.w.round.calls) \o CallsIn(UtterancesOf(e))
         /\ y.w.round.stopReason = StopReasonOf(e.finish, EndOfTurn(a, e))
         /\ y.w.round.usage = Newer(NewerCount(a, e), x.w.round.usage)

(* So it is with every response.                                           *)
LEMMA VertexHears ==
  ASSUME StandsApart, NEW m \in BOOLEAN, NEW base \in ReadResult, NEW a \in Adapters, NEW x, NEW events \in Events,
         Listens(m, base, x, Rendering(m, Utterances(events))), NEW e \in Event, e.kind = "response"
  PROVE VertexHeard(m, base, a, x, events, e, VertexEvent(a, e), Hears(m, x, VertexEvent(a, e).chunks))
<1> DEFINE step == VertexEvent(a, e)
           chunks == YieldedOf(e.parts)
           us == Utterances(events)
           z == Hears(m, x, chunks)
           y == Hears(m, x, step.chunks)
           next == Append(events, e)
<1>1. e.parts \in Seq(Part) /\ e.usage \in Nat /\ e.finish \in {"", "STOP", "MAX_TOKENS", "SAFETY"}
  BY EventParts
<1>2. chunks \in Chunks /\ x \in Ears
  BY <1>1, PartsFold, ListensReady
<1>3. us \in Sayings /\ Utterances(next) = us \o UtterancesOf(e) /\ UtterancesOf(e) = SaidIn(e.parts) /\ next \in Events
  BY UtterancesFold, EventSays, EventsFacts
<1>4. Carries(m, base, SaidIn(e.parts), chunks)
  BY <1>1, CarriesParts
<1>5. Listens(m, base, z, Rendering(m, Utterances(next))) /\ Counted(x, z, UtterancesOf(e))
  <2> HIDE DEF us, z, chunks
  <2>1. Listens(m, base, x, Rendering(m, us))
    BY DEF us
  <2>2. Listens(m, base, z, Rendering(m, us \o SaidIn(e.parts))) /\ Counted(x, z, SaidIn(e.parts))
    BY <1>3, <1>4, <2>1 DEF Carries, z
  <2> QED BY <1>3, <2>2
<1>6. CASE e.finish = ""
  <2>1. step.chunks = chunks
    <3>1. StepIs(step, Adapter(a.call, a.input, a.stop, NewerCount(a, e), EndOfTurn(a, e), a.over), chunks)
      BY <1>6, VertexEventIs
    <3> QED BY <3>1 DEF StepIs
  <2>2. y = z
    BY <2>1
  <2> HIDE DEF y, z, step, next
  <2>3. VertexHeard(m, base, a, x, events, e, step, y)
    BY <1>5, <1>6, <2>2 DEF VertexHeard, next
  <2> QED BY <2>3 DEF y, step
<1>7. CASE e.finish # ""
  <2> DEFINE r == StopReasonOf(e.finish, EndOfTurn(a, e))
             u == NewerCount(a, e)
             c == StopChunk(r, u)
  <2>1. step.chunks = Append(chunks, c)
    <3>1. StepIs(step, Adapter(a.call, a.input, a.stop, NewerCount(a, e), EndOfTurn(a, e), TRUE), Append(chunks, c))
      BY <1>7, VertexEventIs
    <3> QED BY <3>1 DEF StepIs
  <2>2. r \in StopReason /\ u \in Nat /\ c \in Chunk
    <3>1. a.usage \in Nat /\ a.endOfTurn \in StopReason
      BY AdapterParts
    <3>2. EndOfTurn(a, e) \in StopReason
      BY <3>1 DEF EndOfTurn, StopReason
    <3>3. e.finish \in {"STOP", "MAX_TOKENS", "SAFETY"}
      BY <1>1, <1>7
    <3>4. r \in StopReason
      BY <3>2, <3>3, StopReasonType
    <3>5. u \in Nat
      BY <1>1, <3>1, NewerType DEF NewerCount
    <3> QED BY <3>4, <3>5, ChunkFacts
  <2>3. Append(chunks, c) = chunks \o <<c>> /\ <<c>> \in Chunks
    BY <1>2, <2>2, ChunkFacts
  <2>4. y = Hears(m, z, <<c>>)
    BY <1>2, <2>1, <2>3, HearsConcat
  <2> HIDE DEF z, next
  <2>5. Ready(m, base, z) /\ HeardOf(m, z, next)
    BY <1>3, <1>5, ListensReady, ListensHeard
  <2> HIDE DEF r, u
  <2>6. StoppedWith(m, base, z, next, r, u, y)
    BY <2>2, <2>4, <2>5, StopEnds
  <2> HIDE DEF y, step
  <2>7. VertexHeard(m, base, a, x, events, e, step, y)
    BY <1>5, <1>7, <2>6 DEF VertexHeard, StoppedWith, Counted, next, r, u
  <2> QED BY <2>7 DEF y, step
<1> QED BY <1>6, <1>7


-----------------------------------------------------------------------------
(* The calls a masked round gathers: no string of their inputs holds a     *)
(* token any more.                                                         *)
FullCall == {c \in Call : c.input.strings # "token"}
FullChunk == {c \in Chunk : c.type = "tool_use" => c.call \in FullCall}

(* Chunks of the three kinds.                                              *)
LEMMA FullChunkFacts ==
  /\ <<>> \in Seq(FullChunk)
  /\ \A x \in Text : TextChunk(x) \in Seq(FullChunk)
  /\ \A call \in Call : ToolChunk(RestoredCall(call)) \in FullChunk
  /\ \A call \in Call : ToolChunk(call) \in FullChunk => call \in FullCall
  /\ \A r \in StopReason, u \in Nat : StopChunk(r, u) \in FullChunk
  /\ \A a, b \in Seq(FullChunk) : a \o b \in Seq(FullChunk)
  /\ \A c \in FullChunk : <<c>> \in Seq(FullChunk)
  /\ \A a \in Chunks, c \in Chunk : Append(a, c) \in Seq(FullChunk) => a \in Seq(FullChunk) /\ c \in FullChunk
<1>1. \A x \in Text : TextOnly(x) \in FullChunk
  <2>1. \A x \in Text : TextOnly(x) \in Chunk /\ TextOnly(x).type # "tool_use"
    BY ChunkFacts DEF TextOnly
  <2> QED BY <2>1 DEF FullChunk
<1>2. ASSUME NEW call \in Call PROVE ToolChunk(RestoredCall(call)) \in FullChunk
  <2> DEFINE p == RestoredCall(call)
  <2>1. p \in Call /\ p.input.strings # "token"
    BY RestoredCallIs, CallParts, StringsIs DEF RestoredCall
  <2> HIDE DEF p
  <2>2. ToolChunk(p) \in Chunk /\ ToolChunk(p).call = p
    BY <2>1, ChunkFacts DEF ToolChunk
  <2> QED BY <2>1, <2>2 DEF FullChunk, FullCall, p
<1>3. ASSUME NEW r \in StopReason, NEW u \in Nat PROVE StopChunk(r, u) \in FullChunk
  <2>1. StopChunk(r, u) \in Chunk /\ StopChunk(r, u).type # "tool_use"
    BY ChunkFacts DEF StopChunk
  <2> QED BY <2>1 DEF FullChunk
<1>4. /\ <<>> \in Seq(FullChunk)
      /\ \A a, b \in Seq(FullChunk) : a \o b \in Seq(FullChunk)
      /\ \A c \in FullChunk : <<c>> \in Seq(FullChunk)
  <2> HIDE DEF FullChunk
  <2> QED OBVIOUS
<1>5. \A x \in Text : TextChunk(x) \in Seq(FullChunk)
  BY <1>1, <1>4, TextChunkIs
<1>6. ASSUME NEW call \in Call, ToolChunk(call) \in FullChunk PROVE call \in FullCall
  BY <1>6 DEF FullChunk, ToolChunk
<1>7. ASSUME NEW a \in Chunks, NEW c \in Chunk, Append(a, c) \in Seq(FullChunk)
      PROVE a \in Seq(FullChunk) /\ c \in FullChunk
  <2> DEFINE s == Append(a, c)
  <2> HIDE DEF FullChunk, Chunk
  <2>1. Len(a) \in Nat /\ Len(s) = Len(a) + 1 /\ s[Len(a) + 1] = c /\ \A i \in 1..Len(a) : s[i] = a[i]
    BY DEF Chunks
  <2>2. \A i \in 1..Len(s) : s[i] \in FullChunk
    BY <1>7
  <2>3. c \in FullChunk /\ \A i \in 1..Len(a) : a[i] \in FullChunk
    BY <2>1, <2>2
  <2> QED BY <2>3 DEF Chunks
<1> QED BY <1>2, <1>3, <1>4, <1>5, <1>6, <1>7

(* The mask lets no other chunk through.                                   *)
LEMMA RestoreChunkFull ==
  ASSUME NEW held \in Text, NEW c \in Chunk
  PROVE RestoreChunk(held, c).chunks \in Seq(FullChunk)
<1> DEFINE t == TextChunk(Restored(held))
<1>0. t \in Seq(FullChunk)
  BY RestoredType, FullChunkFacts
<1>1. ASSUME NEW x \in Text, c = TextOnly(x) PROVE RestoreChunk(held, c).chunks \in Seq(FullChunk)
  <2>1. RestoreChunk(held, c) = Push(held, x)
    BY <1>1, RestoreTextIs
  <2>2. PICK out \in Text : Push(held, x).chunks = TextChunk(out)
    BY PushType
  <2> QED BY <2>1, <2>2, FullChunkFacts
<1> HIDE DEF t
<1>2. ASSUME NEW call \in Call, c = ToolChunk(call) PROVE RestoreChunk(held, c).chunks \in Seq(FullChunk)
  <2>1. RestoreChunk(held, c).chunks = t \o <<ToolChunk(RestoredCall(call))>>
    BY <1>2, RestoreToolIs DEF t
  <2>2. <<ToolChunk(RestoredCall(call))>> \in Seq(FullChunk)
    BY FullChunkFacts
  <2> QED BY <1>0, <2>1, <2>2, FullChunkFacts
<1>3. ASSUME NEW r \in StopReason, NEW u \in Nat, c = StopChunk(r, u)
      PROVE RestoreChunk(held, c).chunks \in Seq(FullChunk)
  <2>1. RestoreChunk(held, c).chunks = t \o <<StopChunk(r, u)>>
    BY <1>3, RestoreStopIs DEF t
  <2>2. <<StopChunk(r, u)>> \in Seq(FullChunk)
    BY FullChunkFacts
  <2> QED BY <1>0, <2>1, <2>2, FullChunkFacts
<1> QED BY <1>1, <1>2, <1>3, ChunkKinds

LEMMA RestoreChunksFull ==
  ASSUME NEW held \in Text, NEW s \in Chunks
  PROVE RestoreChunks(held, s).chunks \in Seq(FullChunk)
<1> DEFINE T == {r \in Chunks : RestoreChunks(held, r).chunks \in Seq(FullChunk)}
<1>1. <<>> \in T
  <2>1. RestoreChunks(held, <<>>).chunks = <<>>
    BY RestoreChunksFold
  <2>2. <<>> \in Chunks /\ <<>> \in Seq(FullChunk)
    BY ChunkFacts, FullChunkFacts
  <2> QED BY <2>1, <2>2
<1>2. ASSUME NEW r \in Chunks, NEW c \in Chunk, r \in T PROVE Append(r, c) \in T
  <2> DEFINE m == RestoreChunks(held, r)
  <2>1. m \in Masks /\ RestoreChunks(held, Append(r, c)) = Onward(m, c) /\ Append(r, c) \in Chunks
    BY RestoreChunksFold, ChunkFacts
  <2>2. m.chunks \in Seq(FullChunk)
    BY <1>2
  <2> HIDE DEF m
  <2>3. m.held \in Text
    BY <2>1 DEF Masks
  <2>4. m.chunks \o RestoreChunk(m.held, c).chunks \in Seq(FullChunk)
    BY <2>2, <2>3, RestoreChunkFull, FullChunkFacts
  <2>5. Onward(m, c).chunks = m.chunks \o RestoreChunk(m.held, c).chunks
    BY DEF Onward
  <2> QED BY <2>1, <2>4, <2>5 DEF m
<1> HIDE DEF T
<1>3. Chunks \subseteq T
  BY <1>1, <1>2, ChunksInduction
<1> QED BY <1>3 DEF T

(* ... and of such chunks a round gathers full calls.                      *)
LEMMA HearFull ==
  ASSUME NEW w \in Hearings, w.round.calls \in Seq(FullCall), NEW s \in Seq(FullChunk), s \in Chunks
  PROVE HearRegardless(w, s).round.calls \in Seq(FullCall)
<1> DEFINE T == {r \in Chunks : r \in Seq(FullChunk) => HearRegardless(w, r).round.calls \in Seq(FullCall)}
<1>1. <<>> \in T
  BY HearFold, ChunkFacts
<1>2. ASSUME NEW r \in Chunks, NEW c \in Chunk, r \in T PROVE Append(r, c) \in T
  <2> SUFFICES ASSUME Append(r, c) \in Seq(FullChunk)
               PROVE HearRegardless(w, Append(r, c)).round.calls \in Seq(FullCall)
    BY ChunkFacts
  <2> DEFINE v == HearRegardless(w, r)
  <2>1. r \in Seq(FullChunk) /\ c \in FullChunk
    BY FullChunkFacts
  <2>2. v \in Hearings /\ HearRegardless(w, Append(r, c)) = TakeChunk(v, c) /\ v.round.calls \in Seq(FullCall)
    BY <1>2, <2>1, HearFold
  <2> HIDE DEF v
  <2>3. ASSUME NEW x \in Text, c = TextOnly(x) PROVE TakeChunk(v, c).round.calls \in Seq(FullCall)
    BY <2>2, <2>3, TakeText
  <2>4. ASSUME NEW call \in Call, c = ToolChunk(call) PROVE TakeChunk(v, c).round.calls \in Seq(FullCall)
    <3>1. call \in FullCall
      BY <2>1, <2>4, FullChunkFacts
    <3>2. Append(v.round.calls, call) \in Seq(FullCall)
      <4> DEFINE d == v.round.calls
      <4>1. d \in Seq(FullCall)
        BY <2>2
      <4> HIDE DEF d, FullCall
      <4> QED BY <3>1, <4>1 DEF d
    <3>3. TakeChunk(v, c).round.calls = Append(v.round.calls, call)
      BY <2>2, <2>4, TakeTool
    <3> QED BY <3>2, <3>3
  <2>5. ASSUME NEW u \in StopReason, NEW n \in Nat, c = StopChunk(u, n)
        PROVE TakeChunk(v, c).round.calls \in Seq(FullCall)
    BY <2>2, <2>5, TakeStop
  <2>6. TakeChunk(v, c).round.calls \in Seq(FullCall)
    BY <2>3, <2>4, <2>5, ChunkKinds
  <2> QED BY <2>2, <2>6
<1> HIDE DEF T
<1>3. Chunks \subseteq T
  BY <1>1, <1>2, ChunksInduction
<1> QED BY <1>3 DEF T

(* Where the deployment masks, so does what is heard of any chunks.        *)
LEMMA HearsFull ==
  ASSUME NEW x \in Ears, x.w.round.calls \in Seq(FullCall), NEW a \in Chunks
  PROVE Hears(TRUE, x, a).w.round.calls \in Seq(FullCall)
<1> DEFINE p == RestoreChunks(x.held, a).chunks
<1>1. x.held \in Text /\ x.w \in Hearings
  BY EarParts
<1>2. p \in Seq(FullChunk) /\ p \in Chunks
  <2>1. RestoreChunks(x.held, a) \in Masks
    BY <1>1, RestoreChunksFold
  <2> QED BY <1>1, <2>1, RestoreChunksFull DEF Masks
<1>3. Hears(TRUE, x, a).w = HearRegardless(x.w, p)
  BY DEF Hears, Passes
<1> HIDE DEF p
<1> QED BY <1>1, <1>2, <1>3, HearFull
=============================================================================
