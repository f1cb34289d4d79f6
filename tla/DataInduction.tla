--------------------------- MODULE DataInduction ---------------------------
(***************************************************************************)
(* Induction over numbers and sequences, stated with sets and functions in *)
(* the place of predicates, so that SMT can apply it.  The proofs of the   *)
(* other modules use it for what the models' recursive functions compute,  *)
(* and how streams are split and joined.                                   *)
(***************************************************************************)
EXTENDS SequencesExt, SequenceTheorems, WellFoundedInduction, TLAPS

\* A set of numbers has a least element.
LEMMA LeastElement ==
    ASSUME NEW T \in SUBSET Nat, T # {}
    PROVE  \E m \in T : \A k \in T : m <= k
<1> DEFINE R == {p \in Nat \X Nat : p[1] < p[2]}
<1>1. IsWellFoundedOn(R, Nat)
  BY NatLessThanWellFounded DEF OpToRel
<1>2. ASSUME NEW k \in Nat, NEW m \in Nat, k < m
      PROVE  <<k, m>> \in R
  BY <1>2
<1> HIDE DEF R
<1>3. PICK m \in T : \A k \in T : <<k, m>> \notin R
  BY <1>1, WFMin
<1>4. \A k \in T : ~(k < m)
  BY <1>2, <1>3
<1> QED
  BY <1>4

\* A set with 0 and the successors of its numbers has all numbers.
LEMMA SetInduction ==
    ASSUME NEW T, 0 \in T, \A n \in Nat : n \in T => n + 1 \in T
    PROVE  Nat \subseteq T
<1> SUFFICES ASSUME Nat \ T # {} PROVE FALSE
  OBVIOUS
<1>1. PICK m \in Nat \ T : \A k \in Nat \ T : m <= k
  BY LeastElement
<1>2. m # 0 /\ m - 1 \in Nat /\ m - 1 \in T
  BY <1>1
<1> QED
  BY <1>1, <1>2

\* The same up to a bound.
LEMMA BoundedInduction ==
    ASSUME NEW n \in Nat, NEW T, 0 \in T, \A i \in 1 .. n : i - 1 \in T => i \in T
    PROVE  0 .. n \subseteq T
<1> DEFINE U == {i \in Nat : i <= n => i \in T}
<1>1. 0 \in U /\ \A i \in Nat : i \in U => i + 1 \in U
  OBVIOUS
<1>2. Nat \subseteq U
  <2> HIDE DEF U
  <2> QED
    BY <1>1, SetInduction
<1> QED
  BY <1>2

\* The same for sequences.
LEMMA SequenceInduction ==
    ASSUME NEW S, NEW T, <<>> \in T,
           \A s \in Seq(S) : \A e \in S : s \in T => Append(s, e) \in T
    PROVE  Seq(S) \subseteq T
<1> DEFINE U == {n \in Nat : \A s \in Seq(S) : Len(s) = n => s \in T}
<1>1. 0 \in U
  OBVIOUS
<1>2. ASSUME NEW n \in Nat, n \in U
      PROVE  n + 1 \in U
  <2> SUFFICES ASSUME NEW s \in Seq(S), Len(s) = n + 1 PROVE s \in T
    OBVIOUS
  <2>1. PICK r \in Seq(S), e \in S : s = Append(r, e)
    BY SequenceEmptyOrAppend, EmptySeq
  <2>2. Len(r) = n
    BY <2>1
  <2> QED
    BY <1>2, <2>1, <2>2
<1>3. Nat \subseteq U
  <2> HIDE DEF U
  <2> QED
    BY <1>1, <1>2, SetInduction
<1> QED
  BY <1>3

\* Sequences over a set are sequences over a larger one.
LEMMA SequencesGrow ==
    ASSUME NEW S, NEW D, S \subseteq D
    PROVE  Seq(S) \subseteq Seq(D)
OBVIOUS

\* Iterating a function of the round and the result so far gives a function.
IsIteration(g, A, a, step, n) ==
    /\ g \in [0 .. n -> A]
    /\ g[0] = a
    /\ \A i \in 1 .. n : g[i] = step[i][g[i - 1]]
LEMMA Iteration ==
    \A A, a, step, n :
        a \in A /\ step \in [Nat -> [A -> A]] /\ n \in Nat => \E g : IsIteration(g, A, a, step, n)
<1> SUFFICES ASSUME NEW A, NEW a \in A, NEW step \in [Nat -> [A -> A]], NEW n \in Nat
             PROVE  \E g : IsIteration(g, A, a, step, n)
  OBVIOUS
<1> DEFINE P(k, g) == g[0] = a /\ \A i \in 1 .. k : g[i] = step[i][g[i - 1]]
           T == {k \in Nat : \E g \in [0 .. k -> A] : P(k, g)}
<1>1. 0 \in T
  <2>1. [i \in 0 .. 0 |-> a] \in [0 .. 0 -> A] /\ P(0, [i \in 0 .. 0 |-> a])
    OBVIOUS
  <2> QED
    BY <2>1
<1>2. ASSUME NEW k \in Nat, k \in T
      PROVE  k + 1 \in T
  <2>1. PICK g \in [0 .. k -> A] : P(k, g)
    BY <1>2
  <2> DEFINE h == [i \in 0 .. k + 1 |-> IF i = k + 1 THEN step[k + 1][g[k]] ELSE g[i]]
  <2>2. step[k + 1][g[k]] \in A
    OBVIOUS
  <2>3. h \in [0 .. k + 1 -> A]
    BY <2>2
  <2>4. ASSUME NEW i \in 1 .. k + 1
        PROVE  h[i] = step[i][h[i - 1]]
    <3>1. CASE i = k + 1
      BY <3>1
    <3>2. CASE i \in 1 .. k
      BY <3>2, <2>1
    <3> QED
      BY <3>1, <3>2
  <2>5. P(k + 1, h)
    BY <2>1, <2>4
  <2> QED
    <3> HIDE DEF P, h
    <3> QED
      BY <2>3, <2>5
<1>3. Nat \subseteq T
  <2> HIDE DEF T
  <2> QED
    BY <1>1, <1>2, SetInduction
<1> QED
  BY <1>3 DEF IsIteration

\* Two iterations that begin alike and go on alike are alike.
Alike(g, h, n) == \A i \in 0 .. n : g[i] = h[i]
GoAlike(g, h, n) == g[0] = h[0] /\ \A i \in 1 .. n : g[i - 1] = h[i - 1] => g[i] = h[i]
LEMMA SameIteration ==
    \A n \in Nat : \A g, h : GoAlike(g, h, n) => Alike(g, h, n)
<1> SUFFICES ASSUME NEW n \in Nat, NEW g, NEW h, GoAlike(g, h, n)
             PROVE  Alike(g, h, n)
  OBVIOUS
<1> DEFINE T == {i \in 0 .. n : g[i] = h[i]}
<1>1. 0 \in T /\ \A i \in 1 .. n : i - 1 \in T => i \in T
  BY DEF GoAlike
<1>2. 0 .. n \subseteq T
  <2> HIDE DEF T
  <2> QED
    BY <1>1, BoundedInduction
<1> QED
  BY <1>2 DEF Alike

\* A stream is what is read of it and the rest.
LEMMA SplitStream ==
    ASSUME NEW S, NEW s \in Seq(S), NEW n \in 0 .. Len(s)
    PROVE  /\ SubSeq(s, 1, n) \in Seq(S) /\ SubSeq(s, n + 1, Len(s)) \in Seq(S)
           /\ s = SubSeq(s, 1, n) \o SubSeq(s, n + 1, Len(s))
<1>1. Len(s) \in Nat /\ 1 \in 1 .. Len(s) + 1 /\ n \in 1 - 1 .. Len(s) /\ Len(s) \in n .. Len(s)
  OBVIOUS
<1>2. SubSeq(s, 1, n) \o SubSeq(s, n + 1, Len(s)) = SubSeq(s, 1, Len(s))
  BY <1>1, ConcatAdjacentSubSeq
<1>3. SubSeq(s, 1, n) \in Seq(S) /\ SubSeq(s, n + 1, Len(s)) \in Seq(S)
  OBVIOUS
<1> QED
  BY <1>2, <1>3, SubSeqFull, Zenon

\* What is joined behind the second of two streams is joined behind both.
Grows(S) == \A w, b, data \in Seq(S) : (w \o b) \o data = w \o (b \o data)
\* Whatever the streams are of, joining is associative.
LEMMA StreamGrows == \A S : Grows(S)
BY DEF Grows
-----------------------------------------------------------------------------
(* Joining: FlattenSeq iterates over the positions of the sequence of       *)
(* sequences; Joins is the function it iterates.                            *)

Joins(ss) ==
    CHOOSE flatten : flatten = [i \in 1 .. Len(ss) |->
            IF i = 1 THEN ss[i] ELSE flatten[i - 1] \o ss[i]]

\* flatten is defined: at each place by the one before.
LEMMA JoinsEquation ==
    ASSUME NEW S, NEW ss \in Seq(Seq(S))
    PROVE  /\ ss # <<>> => Joins(ss)[1] = ss[1]
           /\ \A i \in 2 .. Len(ss) : Joins(ss)[i] = Joins(ss)[i - 1] \o ss[i]
           /\ \A i \in 1 .. Len(ss) : Joins(ss)[i] \in Seq(S)
<1> DEFINE n == Len(ss)
           next(i, q) == IF i \in 1 .. n THEN q \o ss[i] ELSE q
           step == [i \in Nat |-> [q \in Seq(S) |-> next(i, q)]]
           f(g) == [i \in 1 .. n |-> IF i = 1 THEN ss[i] ELSE g[i - 1] \o ss[i]]
<1>1. /\ n \in Nat /\ <<>> \in Seq(S) /\ (n = 0 <=> ss = <<>>)
      /\ \A i \in 1 .. n : ss[i] \in Seq(S)
  OBVIOUS
<1>2. ASSUME NEW i \in Nat, NEW q \in Seq(S)
      PROVE  next(i, q) \in Seq(S)
  BY <1>1
<1> HIDE DEF n
<1>3. /\ step \in [Nat -> [Seq(S) -> Seq(S)]]
      /\ \A i \in Nat : \A q \in Seq(S) : step[i][q] = next(i, q)
  <2> HIDE DEF next
  <2> QED
    BY <1>2
<1>4. PICK g : IsIteration(g, Seq(S), <<>>, step, n)
  <2> HIDE DEF step
  <2> QED
    BY <1>1, <1>3, Iteration, Zenon
<1>5. /\ g \in [0 .. n -> Seq(S)] /\ g[0] = <<>>
      /\ \A i \in 1 .. n : g[i - 1] \in Seq(S) /\ g[i] = g[i - 1] \o ss[i]
  <2> HIDE DEF step
  <2>1. g \in [0 .. n -> Seq(S)] /\ g[0] = <<>> /\ \A i \in 1 .. n : g[i] = step[i][g[i - 1]]
    BY <1>4 DEF IsIteration
  <2>2. ASSUME NEW i \in 1 .. n
        PROVE  g[i - 1] \in Seq(S) /\ g[i] = g[i - 1] \o ss[i]
    <3>1. g[i - 1] \in Seq(S)
      BY <1>1, <2>1
    <3>2. g[i] = next(i, g[i - 1])
      <4> HIDE DEF next
      <4> QED
        BY <1>1, <1>3, <2>1, <3>1
    <3> QED
      BY <3>1, <3>2
  <2> QED
    BY <2>1, <2>2
<1> DEFINE h == [i \in 1 .. n |-> g[i]]
<1>6. h = f(h)
  <2>1. ASSUME NEW i \in 1 .. n
        PROVE  h[i] = f(h)[i]
    <3>1. CASE i = 1
      <4>1. ss[1] \in Seq(S) /\ g[1] = <<>> \o ss[1]
        <5>1. g[1] = g[1 - 1] \o ss[1] /\ ss[1] \in Seq(S)
          BY <1>1, <1>5, <3>1
        <5>2. 1 - 1 = 0
          OBVIOUS
        <5> QED
          BY <1>5, <5>1, <5>2, Zenon
      <4>2. <<>> \o ss[1] = ss[1]
        BY <4>1, ConcatEmptySeq
      <4> QED
        BY <3>1, <4>1, <4>2
    <3>2. CASE i # 1
      <4>1. i - 1 \in 1 .. n /\ g[i] = g[i - 1] \o ss[i]
        <5>1. i - 1 \in 1 .. n
          BY <1>1, <3>2
        <5> QED
          BY <1>5, <5>1
      <4>2. h[i - 1] = g[i - 1] /\ h[i] = g[i]
        BY <4>1
      <4>3. f(h)[i] = h[i - 1] \o ss[i]
        <5> HIDE DEF h
        <5> QED
          BY <3>2
      <4> QED
        <5> HIDE DEF f, h
        <5> QED
          BY <4>1, <4>2, <4>3
    <3> QED
      BY <3>1, <3>2
  <2>2. f(h) = [i \in 1 .. n |-> f(h)[i]] /\ h = [i \in 1 .. n |-> h[i]]
    OBVIOUS
  <2> HIDE DEF f, h
  <2> QED
    BY <2>1, <2>2
<1>7. Joins(ss) = f(Joins(ss))
  <2> HIDE DEF h
  <2> QED
    BY <1>6 DEF Joins, n
<1> DEFINE u == Joins(ss)
<1>8. /\ n # 0 => u[1] = ss[1]
      /\ \A i \in 2 .. n : u[i] = u[i - 1] \o ss[i]
  <2>1. u = f(u)
    BY <1>7
  <2> HIDE DEF u
  <2>2. \A i \in 1 .. n : f(u)[i] = IF i = 1 THEN ss[i] ELSE u[i - 1] \o ss[i]
    OBVIOUS
  <2> HIDE DEF f
  <2>3. \A i \in 1 .. n : u[i] = IF i = 1 THEN ss[i] ELSE u[i - 1] \o ss[i]
    BY <2>1, <2>2
  <2>4. ASSUME NEW i \in 2 .. n PROVE u[i] = u[i - 1] \o ss[i]
    <3>1. i \in 1 .. n /\ i # 1
      BY <1>1
    <3> QED
      BY <2>3, <3>1, Zenon
  <2>5. n # 0 => 1 \in 1 .. n
    BY <1>1
  <2> QED
    BY <2>3, <2>4, <2>5, Zenon
<1> HIDE DEF u
<1> DEFINE T == {i \in 0 .. n : i # 0 => u[i] \in Seq(S)}
<1>9. 0 .. n \subseteq T
  <2>1. 0 \in T
    BY <1>1
  <2>2. ASSUME NEW i \in 1 .. n, i - 1 \in T PROVE i \in T
    <3>1. CASE i = 1
      BY <1>1, <1>8, <3>1
    <3>2. CASE i # 1
      <4>1. i \in 2 .. n /\ u[i - 1] \in Seq(S) /\ ss[i] \in Seq(S)
        BY <1>1, <2>2, <3>2
      <4>2. u[i - 1] \o ss[i] \in Seq(S)
        BY <4>1
      <4>3. u[i] = u[i - 1] \o ss[i]
        BY <1>8, <4>1, Zenon
      <4>4. u[i] \in Seq(S)
        BY <4>2, <4>3, Zenon
      <4> QED
        BY <4>4
    <3> QED
      BY <3>1, <3>2
  <2> HIDE DEF T
  <2> QED
    BY <1>1, <2>1, <2>2, BoundedInduction
<1>10. \A i \in 1 .. n : u[i] \in Seq(S)
  BY <1>1, <1>9
<1> QED
  BY <1>1, <1>8, <1>10 DEF u, n

LEMMA FlattenIsJoins ==
    /\ FlattenSeq(<<>>) = <<>>
    /\ \A ss : Len(ss) # 0 => FlattenSeq(ss) = Joins(ss)[Len(ss)]
BY DEF FlattenSeq, Joins

\* What is joined is a sequence.
LEMMA FlattenType ==
    ASSUME NEW S, NEW ss \in Seq(Seq(S))
    PROVE  FlattenSeq(ss) \in Seq(S)
<1>1. CASE ss = <<>>
  <2>1. FlattenSeq(ss) = <<>>
    BY <1>1, FlattenIsJoins, Zenon
  <2> QED
    BY <2>1
<1>2. CASE ss # <<>>
  <2>1. Len(ss) # 0 /\ Len(ss) \in 1 .. Len(ss)
    BY <1>2
  <2> QED
    BY <2>1, FlattenIsJoins, JoinsEquation
<1> QED
  BY <1>1, <1>2

\* One more sequence is joined to the end.
LEMMA FlattenOfAppend ==
    ASSUME NEW S, NEW ss \in Seq(Seq(S)), NEW s \in Seq(S)
    PROVE  FlattenSeq(Append(ss, s)) = FlattenSeq(ss) \o s
<1> DEFINE t == Append(ss, s)
           n == Len(ss)
<1>1. /\ t \in Seq(Seq(S)) /\ Len(t) = n + 1 /\ t[n + 1] = s /\ n \in Nat
      /\ \A i \in 1 .. n : t[i] = ss[i]
  OBVIOUS
<1> HIDE DEF t, n
<1>2. /\ Joins(t)[1] = t[1]
      /\ \A i \in 2 .. n + 1 : Joins(t)[i] = Joins(t)[i - 1] \o t[i]
  <2>1. t # <<>>
    BY <1>1
  <2> QED
    BY <1>1, <2>1, JoinsEquation
<1>3. /\ n # 0 => Joins(ss)[1] = ss[1]
      /\ \A i \in 2 .. n : Joins(ss)[i] = Joins(ss)[i - 1] \o ss[i]
  <2>1. n # 0 => ss # <<>>
    BY DEF n
  <2> QED
    BY <2>1, JoinsEquation, Zenon DEF n
<1>4. FlattenSeq(t) = Joins(t)[n + 1]
  <2>1. Len(t) # 0 /\ Len(t) = n + 1
    BY <1>1
  <2>2. FlattenSeq(t) = Joins(t)[Len(t)]
    BY <2>1, FlattenIsJoins, Zenon
  <2> QED
    BY <2>1, <2>2, Zenon
<1>5. CASE n = 0
  <2>1. FlattenSeq(t) = s
    BY <1>1, <1>2, <1>4, <1>5
  <2>2. FlattenSeq(ss) = <<>>
    <3>1. ss = <<>>
      BY <1>5 DEF n
    <3> QED
      BY <3>1, FlattenIsJoins
  <2>3. <<>> \o s = s
    BY ConcatEmptySeq
  <2> QED
    BY <2>1, <2>2, <2>3, Zenon DEF t
<1>6. CASE n # 0
  <2> HIDE DEF n
  <2> DEFINE T == {i \in 0 .. n : i # 0 => Joins(t)[i] = Joins(ss)[i]}
  <2>1. 0 .. n \subseteq T
    <3>1. 0 \in T
      BY <1>1
    <3>2. ASSUME NEW i \in 1 .. n, i - 1 \in T PROVE i \in T
      <4>1. CASE i = 1
        BY <1>1, <1>2, <1>3, <4>1
      <4>2. CASE i # 1
        <5>1. i \in 2 .. n /\ i \in 2 .. n + 1 /\ t[i] = ss[i] /\ Joins(t)[i - 1] = Joins(ss)[i - 1]
          BY <1>1, <3>2, <4>2
        <5>2. Joins(t)[i] = Joins(ss)[i]
          BY <1>2, <1>3, <5>1
        <5> QED
          BY <5>2
      <4> QED
        BY <4>1, <4>2
    <3> HIDE DEF T
    <3> QED
      BY <1>1, <3>1, <3>2, BoundedInduction
  <2>2. Joins(t)[n] = Joins(ss)[n]
    <3>1. n \in 0 .. n
      BY <1>1
    <3> QED
      BY <1>6, <2>1, <3>1
  <2>3. Joins(t)[n + 1] = Joins(t)[n] \o s
    <3>1. n + 1 \in 2 .. n + 1 /\ (n + 1) - 1 = n
      BY <1>1, <1>6
    <3>2. Joins(t)[n + 1] = Joins(t)[(n + 1) - 1] \o t[n + 1]
      BY <1>2, <3>1
    <3> QED
      BY <1>1, <3>1, <3>2, Zenon
  <2>4. FlattenSeq(ss) = Joins(ss)[n]
    BY <1>6, FlattenIsJoins DEF n
  <2> QED
    BY <1>4, <2>2, <2>3, <2>4 DEF t
<1> QED
  BY <1>5, <1>6
=============================================================================
