-------------------------- MODULE HTTPMessages_proofs --------------------------
(***************************************************************************)
(* Proofs about HTTPMessages and StaticFiles, for any server block, any    *)
(* files, any requests a client may write and any way they may be read.    *)
(***************************************************************************)
EXTENDS HTTPMessages, DataInduction

-----------------------------------------------------------------------------
(* Splitting: Split iterates over the positions of what it splits; Splits   *)
(* is the function it iterates.                                             *)

Splits(s, delimiter) ==
    CHOOSE parts : parts = [i \in 0 .. Len(s) |->
            IF i = 0 THEN << <<>> >> ELSE Extended(parts[i - 1], s[i], delimiter)]
Parts(S) == Seq(Seq(S)) \ {<<>>}

\* One more unit leaves parts that are sequences, one at least.
LEMMA ExtendedType ==
    ASSUME NEW S, NEW parts \in Parts(S), NEW u \in S, NEW delimiter
    PROVE  Extended(parts, u, delimiter) \in Parts(S)
<1>1. parts \in Seq(Seq(S)) /\ parts # <<>> /\ <<>> \in Seq(S)
  BY DEF Parts
<1>2. CASE u = delimiter
  <2>1. Append(parts, <<>>) \in Seq(Seq(S)) /\ Append(parts, <<>>) # <<>>
    BY <1>1
  <2> QED
    BY <1>2, <2>1 DEF Extended, Parts
<1>3. CASE u # delimiter
  <2> DEFINE n == Len(parts)
             longer == [parts EXCEPT ![n] = Append(parts[n], u)]
  <2>1. n \in 1 .. n /\ parts[n] \in Seq(S) /\ n \in Nat
    BY <1>1
  <2>2. Append(parts[n], u) \in Seq(S)
    BY <2>1
  <2>3. longer \in Seq(Seq(S)) /\ Len(longer) = n
    <3> HIDE DEF n
    <3>1. parts \in [1 .. n -> Seq(S)]
      BY <1>1 DEF n
    <3>2. longer \in [1 .. n -> Seq(S)]
      BY <2>2, <3>1
    <3> HIDE DEF longer
    <3> QED
      BY <2>1, <3>2
  <2>4. Extended(parts, u, delimiter) = longer
    BY <1>3 DEF Extended
  <2>5. longer # <<>>
    <3> HIDE DEF longer, n
    <3> QED
      BY <2>1, <2>3
  <2> QED
    BY <2>3, <2>4, <2>5 DEF Parts
<1> QED
  BY <1>2, <1>3

\* parts is defined: at each place by the one before.
LEMMA SplitsEquation ==
    ASSUME NEW S, NEW s \in Seq(S), NEW delimiter
    PROVE  /\ Splits(s, delimiter)[0] = << <<>> >>
           /\ \A i \in 1 .. Len(s) :
                  Splits(s, delimiter)[i] = Extended(Splits(s, delimiter)[i - 1], s[i], delimiter)
           /\ \A i \in 0 .. Len(s) : Splits(s, delimiter)[i] \in Parts(S)
<1> DEFINE n == Len(s)
           A == Parts(S)
           start == << <<>> >>
           next(i, q) == IF i \in 1 .. n THEN Extended(q, s[i], delimiter) ELSE q
           step == [i \in Nat |-> [q \in A |-> next(i, q)]]
           f(g) == [i \in 0 .. n |-> IF i = 0 THEN start ELSE Extended(g[i - 1], s[i], delimiter)]
<1>1. n \in Nat /\ start \in A /\ \A i \in 1 .. n : s[i] \in S
  BY DEF Parts
<1> HIDE DEF n, start
<1>2. ASSUME NEW i \in Nat, NEW q \in A
      PROVE  next(i, q) \in A
  BY <1>1, ExtendedType
<1> HIDE DEF A
<1>3. /\ step \in [Nat -> [A -> A]]
      /\ \A i \in Nat : \A q \in A : step[i][q] = next(i, q)
  <2> HIDE DEF next
  <2> QED
    BY <1>2
<1>4. PICK g : IsIteration(g, A, start, step, n)
  <2> HIDE DEF step
  <2> QED
    BY <1>1, <1>3, Iteration, Zenon
<1>5. /\ g \in [0 .. n -> A] /\ g[0] = start
      /\ \A i \in 1 .. n : g[i - 1] \in A /\ g[i] = Extended(g[i - 1], s[i], delimiter)
  <2> HIDE DEF step
  <2>1. g \in [0 .. n -> A] /\ g[0] = start /\ \A i \in 1 .. n : g[i] = step[i][g[i - 1]]
    BY <1>4 DEF IsIteration
  <2>2. ASSUME NEW i \in 1 .. n
        PROVE  g[i - 1] \in A /\ g[i] = Extended(g[i - 1], s[i], delimiter)
    <3>1. g[i - 1] \in A
      BY <1>1, <2>1
    <3>2. g[i] = next(i, g[i - 1])
      <4> HIDE DEF next
      <4> QED
        BY <1>1, <1>3, <2>1, <3>1
    <3> QED
      BY <3>1, <3>2
  <2> QED
    BY <2>1, <2>2
<1>6. g = f(g)
  <2>1. \A i \in 0 .. n : g[i] = f(g)[i]
    BY <1>1, <1>5
  <2>2. g = [i \in 0 .. n |-> g[i]] /\ f(g) = [i \in 0 .. n |-> f(g)[i]]
    BY <1>5
  <2> HIDE DEF f
  <2> QED
    BY <2>1, <2>2
<1>7. Splits(s, delimiter) = f(Splits(s, delimiter))
  BY <1>6 DEF Splits, n, start
<1> DEFINE u == Splits(s, delimiter)
<1>8. u[0] = start /\ \A i \in 1 .. n : u[i] = Extended(u[i - 1], s[i], delimiter)
  <2>1. u = f(u)
    BY <1>7
  <2> HIDE DEF u
  <2>2. \A i \in 0 .. n : f(u)[i] = IF i = 0 THEN start ELSE Extended(u[i - 1], s[i], delimiter)
    OBVIOUS
  <2> HIDE DEF f
  <2> QED
    BY <1>1, <2>1, <2>2
<1> HIDE DEF u
<1> DEFINE T == {i \in 0 .. n : u[i] \in A}
<1>9. 0 .. n \subseteq T
  <2>1. 0 \in T
    BY <1>1, <1>8
  <2>2. ASSUME NEW i \in 1 .. n, i - 1 \in T PROVE i \in T
    BY <1>1, <1>8, <2>2, ExtendedType DEF A
  <2> HIDE DEF T
  <2> QED
    BY <1>1, <2>1, <2>2, BoundedInduction
<1>10. \A i \in 0 .. n : u[i] \in A
  BY <1>9
<1> QED
  BY <1>8, <1>10, Zenon DEF u, n, start, A

\* Split is Splits at the last position.
LEMMA SplitIsSplits == \A s, delimiter : Split(s, delimiter) = Splits(s, delimiter)[Len(s)]
BY DEF Split, Splits

\* Splitting gives one part at least.
LEMMA SplitType ==
    ASSUME NEW S, NEW s \in Seq(S), NEW delimiter
    PROVE  Split(s, delimiter) \in Parts(S)
<1>1. Len(s) \in 0 .. Len(s)
  OBVIOUS
<1> QED
  BY <1>1, SplitsEquation, SplitIsSplits, Zenon

\* Nothing splits into one empty part.
LEMMA SplitOfEmpty == \A delimiter : Split(<<>>, delimiter) = << <<>> >>
<1>1. <<>> \in Seq({}) /\ Len(<<>>) = 0
  OBVIOUS
<1> QED
  BY <1>1, SplitsEquation, SplitIsSplits, Zenon

\* One more unit.
LEMMA SplitOfAppend ==
    ASSUME NEW S, NEW s \in Seq(S), NEW e \in S, NEW delimiter
    PROVE  Split(Append(s, e), delimiter) = Extended(Split(s, delimiter), e, delimiter)
<1> DEFINE t == Append(s, e)
           n == Len(s)
           g == Splits(t, delimiter)
           h == Splits(s, delimiter)
<1>1. /\ t \in Seq(S) /\ Len(t) = n + 1 /\ t[n + 1] = e /\ n \in Nat
      /\ \A i \in 1 .. n : t[i] = s[i]
  OBVIOUS
<1>2. h[0] = << <<>> >> /\ \A i \in 1 .. n : h[i] = Extended(h[i - 1], s[i], delimiter)
  <2> HIDE DEF h
  <2> QED
    BY SplitsEquation, Zenon DEF h
<1> HIDE DEF t, n
<1>3. g[0] = << <<>> >> /\ \A i \in 1 .. n + 1 : g[i] = Extended(g[i - 1], t[i], delimiter)
  <2> HIDE DEF g
  <2> QED
    BY <1>1, SplitsEquation, Zenon DEF g
<1> HIDE DEF g, h
<1>4. \A i \in 0 .. n : g[i] = h[i]
  <2>1. GoAlike(g, h, n)
    BY <1>1, <1>2, <1>3 DEF GoAlike
  <2>2. Alike(g, h, n)
    BY <1>1, <2>1, SameIteration, Zenon
  <2> QED
    BY <2>2 DEF Alike
<1>5. g[n + 1] = Extended(h[n], e, delimiter)
  BY <1>1, <1>3, <1>4
<1> QED
  BY <1>1, <1>5, SplitIsSplits, Zenon DEF g, h, n, t

\* What stands behind the last delimiter is the last part.
LEMMA SplitBehind ==
    ASSUME NEW S, NEW d \in S, NEW s \in Seq(S), NEW l \in Seq(S \ {d})
    PROVE  Split(Append(s, d) \o l, d) = Append(Split(s, d), l)
<1> DEFINE T == {m \in Seq(S \ {d}) : Split(Append(s, d) \o m, d) = Append(Split(s, d), m)}
           P == Split(s, d)
           sd == Append(s, d)
<1>1. P \in Seq(Seq(S)) /\ sd \in Seq(S)
  BY SplitType DEF Parts
<1>2. <<>> \in T
  <2>1. sd \o <<>> = sd
    BY <1>1, ConcatEmptySeq
  <2>2. Split(sd, d) = Append(P, <<>>)
    BY SplitOfAppend DEF Extended
  <2> QED
    BY <2>1, <2>2
<1> HIDE DEF P, sd
<1>3. ASSUME NEW m \in Seq(S \ {d}), NEW e \in S \ {d}, Split(sd \o m, d) = Append(P, m)
      PROVE  Split(sd \o Append(m, e), d) = Append(P, Append(m, e))
  <2>1. sd \o m \in Seq(S) /\ sd \o Append(m, e) = Append(sd \o m, e)
    BY <1>1
  <2>2. Split(Append(sd \o m, e), d) = Extended(Append(P, m), e, d)
    BY <1>3, <2>1, SplitOfAppend
  <2>3. Extended(Append(P, m), e, d) = [Append(P, m) EXCEPT ![Len(Append(P, m))] = Append(@, e)]
    BY DEF Extended
  <2>4. [Append(P, m) EXCEPT ![Len(Append(P, m))] = Append(@, e)] = Append(P, Append(m, e))
    <3> DEFINE n == Len(P)
               a == Append(P, m)
               b == Append(P, Append(m, e))
               x == [a EXCEPT ![Len(a)] = Append(@, e)]
    <3>1. n \in Nat /\ Len(a) = n + 1 /\ a[n + 1] = m /\ \A i \in 1 .. n : a[i] = P[i]
      BY <1>1
    <3>2. Len(b) = n + 1 /\ b[n + 1] = Append(m, e) /\ \A i \in 1 .. n : b[i] = P[i]
      BY <1>1
    <3>3. DOMAIN a = 1 .. n + 1 /\ DOMAIN b = 1 .. n + 1
      BY <1>1
    <3>4. a = [i \in 1 .. n + 1 |-> a[i]] /\ b = [i \in 1 .. n + 1 |-> b[i]]
      <4>1. m \in Seq(S) /\ Append(m, e) \in Seq(S)
        OBVIOUS
      <4>2. a \in Seq(Seq(S)) /\ b \in Seq(Seq(S))
        BY <1>1, <4>1
      <4>3. a = [i \in 1 .. Len(a) |-> a[i]] /\ b = [i \in 1 .. Len(b) |-> b[i]]
        <5> HIDE DEF a, b
        <5> QED
          BY <4>2
      <4> QED
        BY <3>1, <3>2, <4>3, Zenon
    <3> HIDE DEF a, b, n
    <3>5. x = [i \in 1 .. n + 1 |-> IF i = n + 1 THEN Append(m, e) ELSE a[i]]
      BY <3>1, <3>3, <3>4
    <3>6. \A i \in 1 .. n + 1 : b[i] = IF i = n + 1 THEN Append(m, e) ELSE a[i]
      BY <3>1, <3>2
    <3>7. x = b
      BY <3>4, <3>5, <3>6
    <3> QED
      BY <3>7 DEF a, b
  <2> QED
    BY <2>1, <2>2, <2>3, <2>4
<1>4. Seq(S \ {d}) \subseteq T
  <2>1. \A m \in Seq(S \ {d}) : \A e \in S \ {d} : m \in T => Append(m, e) \in T
    BY <1>3 DEF P, sd
  <2> HIDE DEF T
  <2> QED
    BY <1>2, <2>1, SequenceInduction
<1> QED
  BY <1>4

\* Where there is no delimiter there is one part.
LEMMA SplitOfOne ==
    ASSUME NEW S, NEW d \in S, NEW l \in Seq(S \ {d})
    PROVE  Split(l, d) = <<l>>
<1> DEFINE T == {m \in Seq(S \ {d}) : Split(m, d) = <<m>>}
<1>1. <<>> \in T
  BY SplitOfEmpty
<1>2. ASSUME NEW m \in Seq(S \ {d}), NEW e \in S \ {d}, Split(m, d) = <<m>>
      PROVE  Split(Append(m, e), d) = <<Append(m, e)>>
  <2>1. m \in Seq(S)
    OBVIOUS
  <2>2. Split(Append(m, e), d) = Extended(<<m>>, e, d)
    BY <1>2, <2>1, SplitOfAppend
  <2>3. [<<m>> EXCEPT ![1] = Append(@, e)] = <<Append(m, e)>>
    OBVIOUS
  <2>4. Extended(<<m>>, e, d) = [<<m>> EXCEPT ![1] = Append(@, e)]
    BY DEF Extended
  <2> QED
    BY <2>2, <2>3, <2>4
<1>3. Seq(S \ {d}) \subseteq T
  <2>1. \A m \in Seq(S \ {d}) : \A e \in S \ {d} : m \in T => Append(m, e) \in T
    BY <1>2
  <2> HIDE DEF T
  <2> QED
    BY <1>1, <2>1, SequenceInduction
<1> QED
  BY <1>3

-----------------------------------------------------------------------------
(* The head of a request: lines, each with its end.                         *)

\* A CRLF is a unit.
LEMMA EolIsUnit == Eol \in Units
BY DEF Units

\* No lines have no text.
LEMMA TerminatedOfEmpty == Terminated(<<>>) = <<>>
<1>1. [i \in DOMAIN <<>> |-> Append(<<>>[i], Eol)] = <<>>
  OBVIOUS
<1> QED
  BY <1>1, FlattenIsJoins DEF Terminated

\* One more line is one more line of text.
LEMMA TerminatedOfAppend ==
    ASSUME NEW lines \in Seq(Line), NEW l \in Line
    PROVE  /\ Terminated(lines) \in Seq(Units) /\ Append(l, Eol) \in Seq(Units)
           /\ Terminated(Append(lines, l)) = Terminated(lines) \o Append(l, Eol)
<1> DEFINE more == Append(lines, l)
           ends == [i \in DOMAIN lines |-> Append(lines[i], Eol)]
           moreEnds == [i \in DOMAIN more |-> Append(more[i], Eol)]
           n == Len(lines)
<1>1. /\ n \in Nat /\ DOMAIN lines = 1 .. n /\ DOMAIN more = 1 .. n + 1
      /\ more[n + 1] = l /\ \A i \in 1 .. n : more[i] = lines[i]
  OBVIOUS
<1>2. \A m \in Line : Append(m, Eol) \in Seq(Units)
  <2> SUFFICES ASSUME NEW m \in Line PROVE Append(m, Eol) \in Seq(Units)
    OBVIOUS
  <2>1. m \in Seq(Units)
    BY DEF Line
  <2> HIDE DEF Eol
  <2> QED
    BY <2>1, EolIsUnit
<1>3. \A i \in 1 .. n : lines[i] \in Line
  OBVIOUS
<1> HIDE DEF n, more
<1>4. ends \in Seq(Seq(Units))
  <2>1. ends \in [1 .. n -> Seq(Units)]
    BY <1>1, <1>2, <1>3
  <2> HIDE DEF ends
  <2> QED
    BY <1>1, <2>1
<1>5. moreEnds = Append(ends, Append(l, Eol))
  <2> DEFINE e == Append(l, Eol)
             a == Append(ends, e)
  <2>1. e \in Seq(Units) /\ Len(ends) = n
    <3>1. DOMAIN ends = 1 .. n /\ DOMAIN ends = 1 .. Len(ends)
      <4>1. DOMAIN ends = 1 .. n
        BY <1>1
      <4> HIDE DEF ends
      <4> QED
        BY <1>4, <4>1
    <3>2. Len(ends) \in Nat
      <4> HIDE DEF ends
      <4> QED
        BY <1>4
    <3> HIDE DEF ends
    <3> QED
      BY <1>1, <1>2, <3>1, <3>2
  <2>2. /\ moreEnds = [i \in 1 .. n + 1 |-> Append(more[i], Eol)]
        /\ \A i \in 1 .. n : moreEnds[i] = ends[i]
        /\ moreEnds[n + 1] = e
    BY <1>1
  <2> HIDE DEF ends, e, moreEnds
  <2>3. /\ a \in Seq(Seq(Units)) /\ Len(a) = n + 1 /\ a[n + 1] = e
        /\ \A i \in 1 .. n : a[i] = ends[i]
    BY <1>4, <2>1
  <2>4. a = [i \in 1 .. n + 1 |-> a[i]] /\ moreEnds = [i \in 1 .. n + 1 |-> moreEnds[i]]
    <3>1. a = [i \in 1 .. Len(a) |-> a[i]]
      <4> HIDE DEF a
      <4> QED
        BY <2>3
    <3>2. moreEnds = [i \in 1 .. n + 1 |-> moreEnds[i]]
      BY <2>2
    <3> QED
      BY <2>3, <3>1, <3>2, Zenon
  <2>5. \A i \in 1 .. n + 1 : moreEnds[i] = a[i]
    <3> HIDE DEF a
    <3> SUFFICES ASSUME NEW i \in 1 .. n + 1 PROVE moreEnds[i] = a[i]
      OBVIOUS
    <3>1. i = n + 1 \/ i \in 1 .. n
      BY <1>1
    <3> QED
      BY <2>2, <2>3, <3>1, Zenon
  <2>6. moreEnds = a
    <3> HIDE DEF a
    <3> QED
      BY <2>4, <2>5
  <2> QED
    BY <2>6 DEF e
<1> HIDE DEF ends, moreEnds
<1>6. FlattenSeq(moreEnds) = FlattenSeq(ends) \o Append(l, Eol)
  BY <1>2, <1>4, <1>5, FlattenOfAppend
<1>7. FlattenSeq(ends) \in Seq(Units)
  BY <1>4, FlattenType
<1> QED
  BY <1>2, <1>6, <1>7 DEF Terminated, ends, moreEnds, more

\* What is known of the text of some lines: it splits into them, and no line
\* but the first is empty.
IsTextOf(t, lines) ==
    /\ t \in Seq(Units) /\ t # <<>> /\ t[Len(t)] = Eol
    /\ Split(SubSeq(t, 1, Len(t) - 1), Eol) = lines
    /\ \A i \in 1 .. Len(t) - 1 : t[i] # Eol \/ t[i + 1] # Eol
HeadLines == {lines \in Seq(Line) : lines # <<>> /\ \A i \in 2 .. Len(lines) : lines[i] # <<>>}

\* The text of one line.
LEMMA TextOfOne ==
    ASSUME NEW l \in Line
    PROVE  IsTextOf(Append(l, Eol), <<l>>)
<1> DEFINE t == Append(l, Eol)
           n == Len(l)
<1>1. l \in Seq(Units) /\ l \in Seq(Units \ {Eol})
  BY DEF Line
<1> HIDE DEF Eol
<1>2. /\ t \in Seq(Units) /\ t # <<>> /\ Len(t) = n + 1 /\ t[n + 1] = Eol /\ n \in Nat
      /\ \A i \in 1 .. n : t[i] = l[i]
  <2>1. n \in Nat
    BY <1>1
  <2> QED
    BY <1>1, <2>1, EolIsUnit, AppendProperties
<1>3. \A i \in 1 .. n : l[i] # Eol
  BY <1>1
<1>4. SubSeq(t, 1, n) = l
  <2> HIDE DEF t, n
  <2> DEFINE a == SubSeq(t, 1, n)
  <2>1. a \in Seq(Units) /\ Len(a) = n /\ \A i \in 1 .. n : a[i] = t[i]
    BY <1>2
  <2> HIDE DEF a
  <2>2. \A i \in 1 .. n : a[i] = l[i]
    BY <1>2, <2>1
  <2>3. a = l
    BY <1>1, <2>1, <2>2, SeqEqual DEF n
  <2> QED
    BY <2>3 DEF a
<1>5. Split(l, Eol) = <<l>>
  BY <1>1, EolIsUnit, SplitOfOne
<1> HIDE DEF t, n
<1>6. Len(t) - 1 = n
  BY <1>2
<1>7. \A i \in 1 .. n : t[i] # Eol
  BY <1>2, <1>3
<1> QED
  BY <1>2, <1>4, <1>5, <1>6, <1>7 DEF IsTextOf, t

\* One more line.
LEMMA TextOfMore ==
    ASSUME NEW lines, NEW t, IsTextOf(t, lines), NEW l \in Line, l # <<>>
    PROVE  IsTextOf(t \o Append(l, Eol), Append(lines, l))
<1> DEFINE e == Append(l, Eol)
           t2 == t \o e
           n == Len(t)
           k == Len(l)
           s == SubSeq(t, 1, n - 1)
<1>1. /\ t \in Seq(Units) /\ t # <<>> /\ t[n] = Eol /\ n \in Nat /\ n >= 1
      /\ Split(s, Eol) = lines
      /\ \A i \in 1 .. n - 1 : t[i] # Eol \/ t[i + 1] # Eol
  BY DEF IsTextOf
<1>2. /\ l \in Seq(Units) /\ l \in Seq(Units \ {Eol}) /\ k \in Nat /\ k >= 1
      /\ \A i \in 1 .. k : l[i] # Eol
  BY DEF Line
<1> HIDE DEF Eol
<1>3. /\ e \in Seq(Units) /\ Len(e) = k + 1 /\ e[k + 1] = Eol
      /\ \A i \in 1 .. k : e[i] = l[i]
  BY <1>2, EolIsUnit
<1>4. s \in Seq(Units) /\ t = Append(s, Eol)
  <2> HIDE DEF n
  <2>1. s \in Seq(Units) /\ Len(s) = n - 1 /\ \A i \in 1 .. n - 1 : s[i] = t[i]
    <3>1. Len(t) = n
      BY DEF n
    <3> QED
      BY <1>1, <3>1
  <2> HIDE DEF s
  <2>2. Append(s, Eol) \in Seq(Units) /\ Len(Append(s, Eol)) = n /\ Len(t) = n
    BY <1>1, <2>1, EolIsUnit DEF n
  <2>3. \A i \in 1 .. n : Append(s, Eol)[i] = t[i]
    BY <1>1, <2>1, EolIsUnit, AppendProperties
  <2> QED
    BY <1>1, <2>1, <2>2, <2>3, SeqEqual
<1> HIDE DEF e, n, k, s
<1>5. /\ t2 \in Seq(Units) /\ Len(t2) = n + k + 1
      /\ \A i \in 1 .. n : t2[i] = t[i]
      /\ \A i \in 1 .. k + 1 : t2[n + i] = e[i]
  <2>1. Len(t) = n
    BY DEF n
  <2>2. /\ t2 \in Seq(Units) /\ Len(t2) = n + (k + 1)
        /\ \A i \in 1 .. n + (k + 1) : t2[i] = IF i <= n THEN t[i] ELSE e[i - n]
    <3>1. /\ t \o e \in Seq(Units) /\ Len(t \o e) = Len(t) + Len(e)
          /\ \A i \in 1 .. Len(t) + Len(e) : (t \o e)[i] = IF i <= Len(t) THEN t[i] ELSE e[i - Len(t)]
      BY <1>1, <1>3, ConcatProperties
    <3> QED
      BY <1>3, <2>1, <3>1, Zenon
  <2> HIDE DEF t2
  <2>3. ASSUME NEW i \in 1 .. k + 1 PROVE t2[n + i] = e[i]
    <3>1. n + i \in 1 .. n + (k + 1) /\ ~(n + i <= n) /\ (n + i) - n = i
      BY <1>1, <1>2
    <3> QED
      BY <2>2, <3>1, Zenon
  <2>4. ASSUME NEW i \in 1 .. n PROVE t2[i] = t[i]
    <3>1. i \in 1 .. n + (k + 1) /\ i <= n
      BY <1>1, <1>2
    <3> QED
      BY <2>2, <3>1, Zenon
  <2>5. n + (k + 1) = n + k + 1
    BY <1>1, <1>2
  <2> QED
    BY <2>2, <2>3, <2>4, <2>5, Zenon
<1>6. SubSeq(t2, 1, n + k) = t \o l
  <2>1. /\ SubSeq(t2, 1, n + k) \in Seq(Units) /\ Len(SubSeq(t2, 1, n + k)) = n + k
        /\ \A i \in 1 .. n + k : SubSeq(t2, 1, n + k)[i] = t2[i]
    <3> HIDE DEF t2
    <3> QED
      BY <1>1, <1>2, <1>5
  <2>2. /\ t \o l \in Seq(Units) /\ Len(t \o l) = n + k
        /\ \A i \in 1 .. n : (t \o l)[i] = t[i]
        /\ \A i \in 1 .. k : (t \o l)[n + i] = l[i]
    BY <1>1, <1>2 DEF n, k
  <2> DEFINE a == SubSeq(t2, 1, n + k)
             b == t \o l
  <2>3. ASSUME NEW i \in 1 .. n + k PROVE a[i] = b[i]
    <3>1. a[i] = t2[i]
      BY <2>1
    <3>2. CASE i \in 1 .. n
      BY <1>5, <2>2, <3>1, <3>2
    <3>3. CASE i \notin 1 .. n
      <4> DEFINE j == i - n
      <4>1. j \in 1 .. k /\ j \in 1 .. k + 1 /\ n + j = i
        BY <1>1, <1>2, <3>3
      <4> HIDE DEF j
      <4>2. t2[n + j] = e[j] /\ e[j] = l[j] /\ b[n + j] = l[j]
        BY <1>3, <1>5, <2>2, <4>1
      <4> QED
        BY <3>1, <4>1, <4>2
    <3> QED
      BY <3>2, <3>3
  <2> HIDE DEF a, b
  <2>4. a = b
    BY <2>1, <2>2, <2>3, SeqEqual DEF a, b
  <2> QED
    BY <2>4 DEF a, b
<1>7. Split(t \o l, Eol) = Append(lines, l)
  BY <1>1, <1>2, <1>4, EolIsUnit, SplitBehind
<1>8. ASSUME NEW i \in 1 .. n + k PROVE t2[i] # Eol \/ t2[i + 1] # Eol
  <2> HIDE DEF t2
  <2>1. CASE i \in 1 .. n - 1
    <3>1. i \in 1 .. n /\ i + 1 \in 1 .. n
      BY <1>1, <2>1
    <3> QED
      BY <1>1, <1>5, <2>1, <3>1
  <2>2. CASE i = n
    <3>1. 1 \in 1 .. k + 1 /\ 1 \in 1 .. k
      BY <1>2
    <3>2. t2[n + 1] = e[1] /\ e[1] = l[1] /\ l[1] # Eol
      BY <1>2, <1>3, <1>5, <3>1
    <3> QED
      BY <2>2, <3>2
  <2>3. CASE i \in n + 1 .. n + k
    <3> DEFINE j == i - n
    <3>1. j \in 1 .. k /\ j \in 1 .. k + 1 /\ n + j = i
      BY <1>1, <1>2, <2>3
    <3> HIDE DEF j
    <3>2. t2[n + j] = e[j] /\ e[j] = l[j] /\ l[j] # Eol
      BY <1>2, <1>3, <1>5, <3>1
    <3> QED
      BY <3>1, <3>2
  <2> QED
    BY <1>1, <1>2, <2>1, <2>2, <2>3
<1> HIDE DEF t2
<1>9. t2 # <<>> /\ Len(t2) - 1 = n + k /\ t2[Len(t2)] = Eol
  <2>1. k + 1 \in 1 .. k + 1 /\ n + (k + 1) = n + k + 1
    BY <1>1, <1>2
  <2>2. t2[n + (k + 1)] = e[k + 1]
    BY <1>5, <2>1
  <2> QED
    BY <1>1, <1>2, <1>3, <1>5, <2>1, <2>2
<1>10. IsTextOf(t2, Append(lines, l))
  BY <1>5, <1>6, <1>7, <1>8, <1>9 DEF IsTextOf
<1> QED
  BY <1>10 DEF t2, e

\* The text of a request's lines.
LEMMA TextOfLines == \A lines \in HeadLines : IsTextOf(Terminated(lines), lines)
<1> DEFINE T == {lines \in Seq(Line) : lines \in HeadLines => IsTextOf(Terminated(lines), lines)}
<1>1. <<>> \in T
  BY DEF HeadLines
<1>2. ASSUME NEW lines \in Seq(Line), NEW l \in Line, lines \in T
      PROVE  Append(lines, l) \in T
  <2> DEFINE more == Append(lines, l)
             n == Len(lines)
  <2>1. /\ more \in Seq(Line) /\ Len(more) = n + 1 /\ more[n + 1] = l /\ n \in Nat
        /\ \A i \in 1 .. n : more[i] = lines[i]
    OBVIOUS
  <2> SUFFICES ASSUME more \in HeadLines PROVE IsTextOf(Terminated(more), more)
    BY <2>1
  <2>2. CASE lines = <<>>
    <3>1. Terminated(<<l>>) = <<>> \o Append(l, Eol) /\ Append(l, Eol) \in Seq(Units)
      <4>1. Append(<<>>, l) = <<l>> /\ <<>> \in Seq(Line)
        OBVIOUS
      <4>2. Terminated(Append(<<>>, l)) = Terminated(<<>>) \o Append(l, Eol)
        BY <4>1, TerminatedOfAppend
      <4> QED
        BY <4>1, <4>2, TerminatedOfAppend, TerminatedOfEmpty
    <3>2. <<>> \o Append(l, Eol) = Append(l, Eol)
      BY <3>1, ConcatEmptySeq
    <3>3. more = <<l>>
      BY <2>2
    <3> QED
      BY <3>1, <3>2, <3>3, TextOfOne
  <2>3. CASE lines # <<>>
    <3>1. l # <<>>
      <4>1. n + 1 \in 2 .. Len(more)
        BY <2>1, <2>3
      <4> HIDE DEF more, n
      <4> QED
        BY <2>1, <4>1 DEF HeadLines
    <3>2. lines \in HeadLines
      <4> SUFFICES ASSUME NEW i \in 2 .. n PROVE lines[i] # <<>>
        BY <2>3 DEF HeadLines
      <4>1. i \in 2 .. Len(more) /\ i \in 1 .. n
        BY <2>1
      <4> HIDE DEF more, n
      <4> QED
        BY <2>1, <4>1 DEF HeadLines
    <3>3. Terminated(more) = Terminated(lines) \o Append(l, Eol)
      BY TerminatedOfAppend
    <3> QED
      BY <1>2, <3>1, <3>2, <3>3, TextOfMore
  <2> QED
    BY <2>2, <2>3
<1>3. Seq(Line) \subseteq T
  <2> HIDE DEF T
  <2> QED
    BY <1>1, <1>2, SequenceInduction
<1> QED
  BY <1>3 DEF HeadLines

-----------------------------------------------------------------------------
(* What parse_message makes of a request whose bytes arrive.                *)

\* The fields of a request.
LEMMA RequestType ==
    ASSUME NEW r \in Requests
    PROVE  /\ r.line \in Line /\ r.headers \in Seq(Line \ {<<>>}) /\ r.body \in Seq(Units)
           /\ r.declared \in BOOLEAN
BY DEF Requests

\* The lines of a request, of which only the first may be empty.
LEMMA LinesOfRequest ==
    ASSUME NEW r \in Requests
    PROVE  RequestLines(r) \in HeadLines /\ RequestLines(r)[1] = r.line
<1> DEFINE first == <<r.line>>
           full == Line \ {<<>>}
           last == IF r.declared THEN << <<ContentLength(Len(r.body))>> >> ELSE <<>>
<1>1. r.line \in Line /\ r.headers \in Seq(full) /\ r.body \in Seq(Units)
  BY RequestType
<1>2. <<ContentLength(Len(r.body))>> \in full
  <2> DEFINE u == ContentLength(Len(r.body))
  <2>1. Len(r.body) \in Int
    BY <1>1
  <2>2. u \in Units /\ u # Eol
    <3>1. u \in [kind : {"length"}, n : Int]
      BY <2>1 DEF ContentLength
    <3>2. u.kind = "length" /\ Eol.kind = "eol"
      BY DEF ContentLength, Eol
    <3> QED
      BY <3>1, <3>2 DEF Units
  <2> HIDE DEF u
  <2>3. <<u>> \in Seq(Units \ {Eol}) /\ <<u>> # <<>>
    BY <2>2
  <2> QED
    BY <2>3 DEF u, Line
<1>3. last \in Seq(full)
  <2> DEFINE l == <<ContentLength(Len(r.body))>>
  <2>1. l \in full
    BY <1>2
  <2> HIDE DEF l, full
  <2>2. <<l>> \in Seq(full) /\ <<>> \in Seq(full)
    BY <2>1
  <2> QED
    BY <2>2, Zenon DEF l
<1> HIDE DEF last
<1> DEFINE tail == r.headers \o last
<1>4. tail \in Seq(full)
  <2> HIDE DEF full
  <2> QED
    BY <1>1, <1>3
<1>5. RequestLines(r) = first \o tail
  <2>1. first \in Seq(Line) /\ r.headers \in Seq(Line) /\ last \in Seq(Line)
    <3>1. \A t \in Seq(full) : t \in Seq(Line)
      OBVIOUS
    <3> QED
      BY <1>1, <1>3, <3>1
  <2>2. (first \o r.headers) \o last = first \o tail
    <3> DEFINE headers == r.headers
    <3>1. headers \in Seq(Line)
      BY <2>1
    <3> HIDE DEF first, headers
    <3>2. (first \o headers) \o last = first \o (headers \o last)
      BY <2>1, <3>1, ConcatAssociative
    <3> QED
      BY <3>2 DEF headers
  <2> QED
    BY <2>2 DEF RequestLines, last
<1>6. /\ first \in Seq(Line) /\ Len(first) = 1 /\ first[1] = r.line
      /\ tail \in Seq(Line) /\ \A i \in 1 .. Len(tail) : tail[i] # <<>>
  <2> HIDE DEF tail
  <2>1. \A i \in 1 .. Len(tail) : tail[i] \in full
    <3> HIDE DEF full
    <3> QED
      BY <1>4
  <2>2. tail \in Seq(Line)
    BY <1>4
  <2> QED
    BY <1>1, <2>1, <2>2
<1> HIDE DEF first, tail
<1> DEFINE all == first \o tail
           n == Len(tail)
<1>7. /\ all \in Seq(Line) /\ Len(all) = 1 + n /\ n \in Nat
      /\ \A i \in 1 .. 1 + n : all[i] = IF i <= 1 THEN first[i] ELSE tail[i - 1]
  <2>1. n \in Nat
    BY <1>6
  <2> QED
    BY <1>6, <2>1, ConcatProperties
<1> HIDE DEF all
<1>8. all # <<>> /\ all[1] = r.line
  <2>1. 1 \in 1 .. 1 + n
    BY <1>7
  <2>2. Len(all) # 0
    BY <1>7
  <2> QED
    BY <1>6, <1>7, <2>1, <2>2
<1>9. ASSUME NEW i \in 2 .. Len(all) PROVE all[i] # <<>>
  <2> HIDE DEF n
  <2>1. i \in 1 .. 1 + n /\ ~(i <= 1) /\ i - 1 \in 1 .. n
    BY <1>7
  <2>2. all[i] = tail[i - 1]
    BY <1>7, <2>1, Zenon
  <2> QED
    BY <1>6, <2>1, <2>2 DEF n
<1> QED
  BY <1>5, <1>7, <1>8, <1>9 DEF HeadLines, all

\* A stream that begins with a request, and what of it has arrived.
Arrives(data, later, r, rest) ==
    /\ r \in Requests
    /\ data \in Seq(Units) /\ later \in Seq(Units) /\ rest \in Seq(Units)
    /\ data \o later = Rendered(r) \o rest
HeadLength(r) == Len(Terminated(RequestLines(r)))

\* How far the head reaches in the stream.
LEMMA StreamOfRequest ==
    ASSUME NEW data, NEW later, NEW r, NEW rest, Arrives(data, later, r, rest)
    PROVE  LET h == HeadLength(r)
               t == Terminated(RequestLines(r))
           IN  /\ h \in Nat /\ h >= 1 /\ IsTextOf(t, RequestLines(r))
               /\ Rendered(r) \in Seq(Units) /\ Len(Rendered(r)) = h + 1 + Len(r.body)
               /\ \A i \in 1 .. Len(data) : i <= h => data[i] = t[i]
               /\ h + 1 \in 1 .. Len(data) => data[h + 1] = Eol
<1> DEFINE t == Terminated(RequestLines(r))
           h == Len(t)
           body == r.body
           head == Append(t, Eol)
           whole == (head \o body) \o rest
           n == Len(data)
<1>1. IsTextOf(t, RequestLines(r))
  BY LinesOfRequest, TextOfLines DEF Arrives
<1>2. /\ t \in Seq(Units) /\ body \in Seq(Units) /\ rest \in Seq(Units)
      /\ data \in Seq(Units) /\ later \in Seq(Units)
      /\ t # <<>> /\ Rendered(r) = head \o body /\ data \o later = whole
  BY <1>1, RequestType DEF IsTextOf, Arrives, Rendered
<1> HIDE DEF t, body
<1>3. h \in Nat /\ h >= 1 /\ n \in Nat /\ Len(body) \in Nat /\ Len(rest) \in Nat /\ Len(later) \in Nat
  BY <1>2
<1>4. /\ head \in Seq(Units) /\ Len(head) = h + 1 /\ head[h + 1] = Eol
      /\ \A i \in 1 .. h : head[i] = t[i]
  BY <1>2, EolIsUnit, AppendProperties
<1> HIDE DEF head, h
<1>5. /\ head \o body \in Seq(Units) /\ Len(head \o body) = h + 1 + Len(body)
      /\ \A i \in 1 .. h + 1 : (head \o body)[i] = head[i]
  <2>1. /\ head \o body \in Seq(Units) /\ Len(head \o body) = Len(head) + Len(body)
        /\ \A i \in 1 .. Len(head) + Len(body) : (head \o body)[i] =
               IF i <= Len(head) THEN head[i] ELSE body[i - Len(head)]
    BY <1>2, <1>4, ConcatProperties
  <2>2. ASSUME NEW i \in 1 .. h + 1 PROVE i \in 1 .. Len(head) + Len(body) /\ i <= Len(head)
    BY <1>3, <1>4
  <2> QED
    BY <1>4, <2>1, <2>2, Zenon
<1> DEFINE m == Len(head \o body)
<1>6. /\ whole \in Seq(Units) /\ Len(whole) = m + Len(rest)
      /\ \A i \in 1 .. h + 1 : whole[i] = head[i]
  <2>1. /\ whole \in Seq(Units) /\ Len(whole) = m + Len(rest)
        /\ \A i \in 1 .. m + Len(rest) : whole[i] =
               IF i <= m THEN (head \o body)[i] ELSE rest[i - m]
    BY <1>2, <1>5, ConcatProperties
  <2> HIDE DEF m, whole
  <2>2. ASSUME NEW i \in 1 .. h + 1 PROVE i \in 1 .. m + Len(rest) /\ i <= m
    BY <1>3, <1>5 DEF m
  <2>3. ASSUME NEW i \in 1 .. h + 1 PROVE whole[i] = head[i]
    <3>1. whole[i] = (head \o body)[i]
      BY <2>1, <2>2, Zenon
    <3> QED
      BY <1>5, <3>1, Zenon
  <2> QED
    BY <2>1, <2>3, Zenon
<1>7. \A i \in 1 .. n : whole[i] = data[i]
  <2>1. \A i \in 1 .. n + Len(later) : (data \o later)[i] = IF i <= n THEN data[i] ELSE later[i - n]
    BY <1>2, ConcatProperties
  <2> HIDE DEF n, whole
  <2>2. ASSUME NEW i \in 1 .. n PROVE whole[i] = data[i]
    <3>1. i \in 1 .. n + Len(later) /\ i <= n
      BY <1>3
    <3> QED
      BY <1>2, <2>1, <3>1, Zenon
  <2> QED
    BY <2>2
<1> HIDE DEF whole, n
<1>8. ASSUME NEW i \in 1 .. n, i <= h PROVE data[i] = t[i]
  <2>1. i \in 1 .. h /\ i \in 1 .. h + 1
    BY <1>3, <1>8
  <2> QED
    BY <1>4, <1>6, <1>7, <2>1, Zenon
<1>9. ASSUME h + 1 \in 1 .. n PROVE data[h + 1] = Eol
  <2>1. h + 1 \in 1 .. h + 1
    BY <1>3
  <2> QED
    BY <1>4, <1>6, <1>7, <1>9, <2>1, Zenon
<1>10. /\ h \in Nat /\ h >= 1 /\ IsTextOf(t, RequestLines(r))
       /\ Rendered(r) \in Seq(Units) /\ Len(Rendered(r)) = h + 1 + Len(r.body)
       /\ \A i \in 1 .. Len(data) : i <= h => data[i] = t[i]
       /\ h + 1 \in 1 .. Len(data) => data[h + 1] = Eol
  BY <1>1, <1>2, <1>3, <1>5, <1>8, <1>9, Zenon DEF n, body
<1> QED
  BY <1>10, Zenon DEF HeadLength, h, t

\* data.find finds the end of the head when it has arrived, and what stands
\* before it are the request's lines.
LEMMA HeadArrives ==
    ASSUME NEW data, NEW later, NEW r, NEW rest, Arrives(data, later, r, rest)
    PROVE  LET h == HeadLength(r)
           IN  /\ Len(data) <= h => HeaderEnd(data) = 0
               /\ Len(data) > h => /\ HeaderEnd(data) = h
                                   /\ Lines(SubSeq(data, 1, h - 1)) = RequestLines(r)
<1> DEFINE t == Terminated(RequestLines(r))
           h == Len(t)
           n == Len(data)
<1>1. /\ h \in Nat /\ h >= 1 /\ n \in Nat /\ data \in Seq(Units)
      /\ \A i \in 1 .. n : i <= h => data[i] = t[i]
      /\ h + 1 \in 1 .. n => data[h + 1] = Eol
  <2>1. data \in Seq(Units)
    BY DEF Arrives
  <2>2. n \in Nat
    BY <2>1
  <2> QED
    BY <2>1, <2>2, StreamOfRequest, Zenon DEF HeadLength
<1>2. /\ t \in Seq(Units) /\ t[h] = Eol
      /\ \A i \in 1 .. h - 1 : t[i] # Eol \/ t[i + 1] # Eol
      /\ Split(SubSeq(t, 1, h - 1), Eol) = RequestLines(r)
  <2>1. IsTextOf(t, RequestLines(r))
    BY StreamOfRequest, Zenon DEF HeadLength
  <2> QED
    BY <2>1, Zenon DEF IsTextOf
<1> HIDE DEF t, h, n, Eol
<1>3. Separators(data) = {i \in 1 .. n - 1 : data[i] = Eol /\ data[i + 1] = Eol}
  BY DEF Separators, n
<1>4. ASSUME NEW i \in 1 .. n - 1, i < h PROVE i \notin Separators(data)
  <2>1. i \in 1 .. n /\ i + 1 \in 1 .. n /\ i <= h /\ i + 1 <= h /\ i \in 1 .. h - 1
    BY <1>1, <1>4
  <2>2. data[i] = t[i] /\ data[i + 1] = t[i + 1]
    BY <1>1, <2>1
  <2> QED
    BY <1>2, <1>3, <2>1, <2>2, Zenon
<1>5. ASSUME n <= h PROVE HeaderEnd(data) = 0
  <2>1. \A i \in 1 .. n - 1 : i < h
    BY <1>1, <1>5
  <2>2. Separators(data) = {}
    BY <1>3, <1>4, <2>1, Zenon
  <2> QED
    BY <2>2 DEF HeaderEnd
<1>6. ASSUME n > h PROVE HeaderEnd(data) = h
  <2>1. h \in 1 .. n - 1 /\ h + 1 \in 1 .. n /\ h \in 1 .. n /\ h <= h
    BY <1>1, <1>6
  <2>2. data[h] = Eol /\ data[h + 1] = Eol
    BY <1>1, <1>2, <2>1
  <2>3. h \in Separators(data)
    BY <1>3, <2>1, <2>2
  <2>4. \A i \in Separators(data) : i \in Nat /\ h <= i
    BY <1>1, <1>3, <1>4
  <2> DEFINE first == CHOOSE i \in Separators(data) : \A j \in Separators(data) : i <= j
  <2>5. first \in Separators(data) /\ \A j \in Separators(data) : first <= j
    BY <2>3, <2>4
  <2>6. first = h
    <3> HIDE DEF first
    <3> QED
      BY <1>1, <2>3, <2>4, <2>5
  <2>7. HeaderEnd(data) = first
    BY <2>3 DEF HeaderEnd
  <2> QED
    BY <2>6, <2>7
<1>7. ASSUME n > h PROVE SubSeq(data, 1, h - 1) = SubSeq(t, 1, h - 1)
  <2> DEFINE a == SubSeq(data, 1, h - 1)
             b == SubSeq(t, 1, h - 1)
  <2>1. a \in Seq(Units) /\ Len(a) = h - 1 /\ \A i \in 1 .. h - 1 : a[i] = data[i]
    <3>1. h - 1 \in Int /\ \A i \in 1 .. h - 1 : data[i] \in Units
      BY <1>1, <1>7 DEF n
    <3> QED
      BY <1>1, <3>1, SubSeqProperties
  <2>2. b \in Seq(Units) /\ Len(b) = h - 1 /\ \A i \in 1 .. h - 1 : b[i] = t[i]
    <3>1. h - 1 \in Int /\ \A i \in 1 .. h - 1 : t[i] \in Units
      BY <1>1, <1>2 DEF h
    <3> QED
      BY <1>1, <3>1, SubSeqProperties
  <2> HIDE DEF a, b
  <2>3. \A i \in 1 .. h - 1 : a[i] = b[i]
    BY <1>1, <1>7, <2>1, <2>2
  <2>4. a = b
    BY <2>1, <2>2, <2>3, SeqEqual
  <2> QED
    BY <2>4 DEF a, b
<1>8. n > h => Lines(SubSeq(data, 1, h - 1)) = RequestLines(r)
  BY <1>2, <1>7 DEF Lines
<1> QED
  BY <1>5, <1>6, <1>8, Zenon DEF HeadLength, n, h, t

\* What parse_message does with it, whatever follows the request.
LEMMA RequestArrives ==
    ASSUME NEW data, NEW later, NEW r, NEW rest, Arrives(data, later, r, rest),
           ~IsMalformed(RequestLines(r)) =>
               BodyLength(Tail(RequestLines(r))) = Len(r.body)
    PROVE  LET parsed == ParseMessage(data)
               lines == RequestLines(r)
           IN  /\ parsed.result \in {"none", "incomplete", "invalid", "request"}
               /\ parsed.result \in {"none", "incomplete"} => Len(data) < Len(Rendered(r))
               /\ parsed.result = "invalid" => IsMalformed(lines)
               /\ parsed.result = "request" =>
                      /\ ~IsMalformed(lines)
                      /\ parsed.consumed = Len(Rendered(r)) /\ parsed.consumed <= Len(data)
                      /\ parsed.message = HTTPMessage(lines)
<1> DEFINE h == HeadLength(r)
           n == Len(data)
           k == Len(r.body)
           lines == RequestLines(r)
           parsed == ParseMessage(data)
<1>1. /\ h \in Nat /\ h >= 1 /\ n \in Nat /\ k \in Nat
      /\ Len(Rendered(r)) = h + 1 + k /\ data \in Seq(Units)
  <2>1. data \in Seq(Units) /\ r \in Requests
    BY DEF Arrives
  <2>2. n \in Nat /\ k \in Nat
    BY <2>1, RequestType
  <2> QED
    BY <2>1, <2>2, StreamOfRequest, Zenon
<1> HIDE DEF h, n, k
<1>2. CASE n <= h
  <2>1. HeaderEnd(data) = 0
    BY <1>2, HeadArrives, Zenon DEF h, n
  <2>2. parsed.result \in {"none", "incomplete"}
    BY <2>1 DEF ParseMessage, NoRequest
  <2>3. n < Len(Rendered(r))
    BY <1>1, <1>2
  <2>4. parsed.result # "invalid" /\ parsed.result # "request"
    BY <2>2
  <2> HIDE DEF parsed
  <2> QED
    BY <2>2, <2>3, <2>4 DEF n, parsed
<1>3. CASE n > h
  <2>1. HeaderEnd(data) = h /\ Lines(SubSeq(data, 1, h - 1)) = lines
    BY <1>3, HeadArrives, Zenon DEF h, n
  <2>2. h # 0 /\ data # <<>>
    BY <1>1, <1>3 DEF n
  <2> HIDE DEF lines
  <2>3. CASE IsMalformed(lines)
    <3>1. parsed = NoRequest("invalid")
      BY <2>1, <2>2, <2>3 DEF ParseMessage
    <3>2. parsed.result = "invalid"
      BY <3>1 DEF NoRequest
    <3> HIDE DEF parsed
    <3> QED
      BY <2>3, <3>2 DEF parsed, lines
  <2>4. CASE ~IsMalformed(lines)
    <3> DEFINE more == SubSeq(data, h + 2, n)
    <3>1. BodyLength(Tail(lines)) = k
      BY <2>4 DEF lines, k
    <3>2. Len(more) = n - h - 1
      <4>1. \A i \in h + 2 .. n : data[i] \in Units
        BY <1>1 DEF n
      <4>2. Len(more) = IF h + 2 <= n THEN n - (h + 2) + 1 ELSE 0
        BY <1>1, <4>1, SubSeqProperties
      <4> HIDE DEF more
      <4> QED
        BY <1>1, <1>3, <4>2
    <3>3. HasBody(more, k) <=> Len(Rendered(r)) <= n
      <4> HIDE DEF more
      <4> QED
        BY <1>1, <3>2 DEF HasBody
    <3>4. parsed = IF HasBody(more, k)
                   THEN [result |-> "request", consumed |-> Consumed(h, k), message |-> HTTPMessage(lines)]
                   ELSE NoRequest("incomplete")
      BY <2>1, <2>2, <2>4, <3>1 DEF ParseMessage, n
    <3>5. CASE HasBody(more, k)
      <4>1. /\ parsed.result = "request" /\ parsed.consumed = Consumed(h, k)
            /\ parsed.message = HTTPMessage(lines)
        BY <3>4, <3>5
      <4>2. parsed.consumed = Len(Rendered(r)) /\ parsed.consumed <= n
        BY <1>1, <3>3, <3>5, <4>1 DEF Consumed
      <4> HIDE DEF parsed
      <4> QED
        BY <2>4, <4>1, <4>2 DEF parsed, lines, n
    <3>6. CASE ~HasBody(more, k)
      <4>1. parsed.result = "incomplete"
        BY <3>4, <3>6 DEF NoRequest
      <4>2. n < Len(Rendered(r))
        BY <1>1, <3>3, <3>6
      <4> HIDE DEF parsed
      <4> QED
        BY <4>1, <4>2 DEF parsed, n
    <3> QED
      BY <3>5, <3>6
  <2> QED
    BY <2>3, <2>4
<1> QED
  BY <1>1, <1>2, <1>3

-----------------------------------------------------------------------------
(* What the client writes, request by request.                              *)

\* What is written for a request is a sequence of units,
LEMMA RenderedType ==
    ASSUME NEW r \in Requests
    PROVE  Rendered(r) \in Seq(Units)
<1>1. Terminated(RequestLines(r)) \in Seq(Units)
  BY LinesOfRequest, TextOfLines DEF IsTextOf
<1>2. r.body \in Seq(Units)
  BY RequestType
<1> DEFINE t == Terminated(RequestLines(r))
           b == r.body
<1> HIDE DEF t, b
<1>3. Append(t, Eol) \o b \in Seq(Units)
  <2> HIDE DEF Eol
  <2> QED
    BY <1>1, <1>2, EolIsUnit DEF t, b
<1> QED
  BY <1>3 DEF Rendered, t, b

\* for no requests nothing,
LEMMA RenderedAllOfEmpty == RenderedAll(<<>>) = <<>>
<1>1. [i \in DOMAIN <<>> |-> Rendered(<<>>[i])] = <<>>
  OBVIOUS
<1> QED
  BY <1>1, FlattenIsJoins DEF RenderedAll

\* and for one more request its text behind the others'.
LEMMA RenderedAllOfAppend ==
    ASSUME NEW rs \in Seq(Requests), NEW r \in Requests
    PROVE  /\ RenderedAll(rs) \in Seq(Units)
           /\ RenderedAll(Append(rs, r)) = RenderedAll(rs) \o Rendered(r)
<1> DEFINE more == Append(rs, r)
           texts == [i \in DOMAIN rs |-> Rendered(rs[i])]
           moreTexts == [i \in DOMAIN more |-> Rendered(more[i])]
           n == Len(rs)
<1>1. /\ n \in Nat /\ DOMAIN rs = 1 .. n /\ DOMAIN more = 1 .. n + 1
      /\ more[n + 1] = r /\ \A i \in 1 .. n : more[i] = rs[i] /\ rs[i] \in Requests
  OBVIOUS
<1> HIDE DEF n, more
<1>2. texts \in Seq(Seq(Units)) /\ Len(texts) = n
  <2>1. texts \in [1 .. n -> Seq(Units)] /\ DOMAIN texts = 1 .. n
    BY <1>1, RenderedType
  <2> HIDE DEF texts
  <2>2. texts \in Seq(Seq(Units))
    BY <1>1, <2>1
  <2>3. Len(texts) \in Nat /\ DOMAIN texts = 1 .. Len(texts)
    BY <2>2
  <2> QED
    BY <1>1, <2>1, <2>2, <2>3
<1>3. moreTexts = Append(texts, Rendered(r))
  <2> DEFINE e == Rendered(r)
             a == Append(texts, e)
  <2>1. /\ moreTexts = [i \in 1 .. n + 1 |-> Rendered(more[i])]
        /\ \A i \in 1 .. n : moreTexts[i] = texts[i]
        /\ moreTexts[n + 1] = e
    BY <1>1
  <2>2. e \in Seq(Units)
    BY RenderedType
  <2> HIDE DEF texts, e, moreTexts
  <2>3. /\ a \in Seq(Seq(Units)) /\ Len(a) = n + 1 /\ a[n + 1] = e
        /\ \A i \in 1 .. n : a[i] = texts[i]
    BY <1>2, <2>2
  <2> HIDE DEF a
  <2>4. a = [i \in 1 .. n + 1 |-> a[i]] /\ moreTexts = [i \in 1 .. n + 1 |-> moreTexts[i]]
    <3>1. a = [i \in 1 .. Len(a) |-> a[i]]
      BY <2>3
    <3>2. moreTexts = [i \in 1 .. n + 1 |-> moreTexts[i]]
      BY <2>1
    <3> QED
      BY <2>3, <3>1, <3>2, Zenon
  <2>5. ASSUME NEW i \in 1 .. n + 1 PROVE moreTexts[i] = a[i]
    <3>1. i = n + 1 \/ i \in 1 .. n
      BY <1>1
    <3> QED
      BY <2>1, <2>3, <3>1, Zenon
  <2>6. moreTexts = a
    BY <2>4, <2>5
  <2> QED
    BY <2>6 DEF a, e
<1> HIDE DEF texts, moreTexts
<1>4. FlattenSeq(moreTexts) = FlattenSeq(texts) \o Rendered(r)
  BY <1>2, <1>3, RenderedType, FlattenOfAppend
<1>5. FlattenSeq(texts) \in Seq(Units)
  BY <1>2, FlattenType
<1> QED
  BY <1>4, <1>5 DEF RenderedAll, texts, moreTexts, more

\* The requests up to the k-th and the next one.
LEMMA OneMoreRequest ==
    ASSUME NEW rs \in Seq(Requests), NEW k \in 0 .. Len(rs) - 1
    PROVE  /\ SubSeq(rs, 1, k) \in Seq(Requests) /\ rs[k + 1] \in Requests
           /\ SubSeq(rs, 1, k + 1) = Append(SubSeq(rs, 1, k), rs[k + 1])
<1> DEFINE a == SubSeq(rs, 1, k)
           b == SubSeq(rs, 1, k + 1)
           c == Append(a, rs[k + 1])
<1>1. Len(rs) \in Nat /\ k \in Nat /\ k + 1 \in 1 .. Len(rs) /\ \A i \in 1 .. k + 1 : rs[i] \in Requests
  OBVIOUS
<1>2. a \in Seq(Requests) /\ Len(a) = k /\ \A i \in 1 .. k : a[i] = rs[i]
  BY <1>1, SubSeqProperties
<1>3. b \in Seq(Requests) /\ Len(b) = k + 1 /\ \A i \in 1 .. k + 1 : b[i] = rs[i]
  BY <1>1, SubSeqProperties
<1> HIDE DEF a, b
<1>4. /\ c \in Seq(Requests) /\ Len(c) = k + 1 /\ c[k + 1] = rs[k + 1]
      /\ \A i \in 1 .. k : c[i] = a[i]
  BY <1>1, <1>2, AppendProperties
<1>5. ASSUME NEW i \in 1 .. k + 1 PROVE b[i] = c[i]
  <2>1. i = k + 1 \/ i \in 1 .. k
    BY <1>1
  <2> QED
    BY <1>2, <1>3, <1>4, <2>1, Zenon
<1> HIDE DEF c
<1>6. b = c
  BY <1>3, <1>4, <1>5, SeqEqual
<1> QED
  BY <1>1, <1>2, <1>6 DEF a, b, c

\* What a client writes is a sequence of units.
LEMMA RenderedAllType ==
    ASSUME NEW rs \in Seq(Requests)
    PROVE  RenderedAll(rs) \in Seq(Units)
<1>1. CASE rs = <<>>
  <2>1. <<>> \in Seq(Units)
    OBVIOUS
  <2> QED
    BY <1>1, <2>1, RenderedAllOfEmpty
<1>2. CASE rs # <<>>
  <2>1. PICK s \in Seq(Requests), r \in Requests : rs = Append(s, r)
    BY <1>2, SequenceEmptyOrAppend
  <2> DEFINE a == RenderedAll(s)
             b == Rendered(r)
  <2>2. a \in Seq(Units) /\ b \in Seq(Units) /\ RenderedAll(rs) = a \o b
    BY <2>1, RenderedType, RenderedAllOfAppend
  <2> HIDE DEF a, b
  <2>3. a \o b \in Seq(Units)
    BY <2>2
  <2> QED
    BY <2>2, <2>3
<1> QED
  BY <1>1, <1>2

Regrouping(S, a, x, r, y) ==
    (a \o (x \o r)) \o y = a \o (x \o (r \o y)) /\ r \o y \in Seq(S)
\* Joining is associative, for four.
LEMMA Regrouped == \A S : \A a, x, r, y \in Seq(S) : Regrouping(S, a, x, r, y)
<1> SUFFICES ASSUME NEW S, NEW a \in Seq(S), NEW x \in Seq(S), NEW r \in Seq(S), NEW y \in Seq(S)
             PROVE  (a \o (x \o r)) \o y = a \o (x \o (r \o y)) /\ r \o y \in Seq(S)
  BY DEF Regrouping
<1> DEFINE xr == x \o r
           ry == r \o y
<1>1. xr \in Seq(S) /\ ry \in Seq(S)
  OBVIOUS
<1>2. xr \o y = x \o ry
  OBVIOUS
<1> HIDE DEF xr, ry
<1>3. (a \o xr) \o y = a \o (xr \o y)
  BY <1>1
<1>4. (a \o xr) \o y = a \o (x \o ry)
  BY <1>2, <1>3
<1> QED
  BY <1>1, <1>4 DEF xr, ry

\* A stream begins with the texts of its first requests.
Ahead(rs, k, j) ==
    \E rest \in Seq(Units) :
        RenderedAll(SubSeq(rs, 1, j)) = RenderedAll(SubSeq(rs, 1, k)) \o (Rendered(rs[k + 1]) \o rest)
\* By induction from the request after the k-th to the last one.
LEMMA StreamAhead ==
    ASSUME NEW rs \in Seq(Requests), NEW k \in 0 .. Len(rs) - 1
    PROVE  \E rest \in Seq(Units) :
               RenderedAll(rs) = RenderedAll(SubSeq(rs, 1, k)) \o (Rendered(rs[k + 1]) \o rest)
<1> DEFINE n == Len(rs)
           m == n - (k + 1)
           T == {i \in 0 .. m : Ahead(rs, k, k + 1 + i)}
           a == RenderedAll(SubSeq(rs, 1, k))
           x == Rendered(rs[k + 1])
<1>1. n \in Nat /\ k \in Nat /\ m \in Nat /\ k < n /\ k + 1 + m = n
  OBVIOUS
<1>2. /\ SubSeq(rs, 1, k) \in Seq(Requests) /\ rs[k + 1] \in Requests
      /\ SubSeq(rs, 1, k + 1) = Append(SubSeq(rs, 1, k), rs[k + 1])
  BY OneMoreRequest
<1>3. a \in Seq(Units) /\ x \in Seq(Units) /\ RenderedAll(SubSeq(rs, 1, k + 1)) = a \o x
  BY <1>2, RenderedAllOfAppend, RenderedType
<1> HIDE DEF a, x, n, m
<1>4. 0 \in T
  <2>1. x \o <<>> = x /\ <<>> \in Seq(Units)
    BY <1>3, ConcatEmptySeq
  <2>2. k + 1 + 0 = k + 1 /\ 0 \in 0 .. m
    BY <1>1
  <2>3. RenderedAll(SubSeq(rs, 1, k + 1)) = a \o (x \o <<>>)
    BY <1>3, <2>1, Zenon
  <2>4. Ahead(rs, k, k + 1)
    BY <2>1, <2>3, Zenon DEF Ahead, a, x
  <2> QED
    BY <2>2, <2>4, Zenon
<1>5. ASSUME NEW i \in 1 .. m, i - 1 \in T PROVE i \in T
  <2> DEFINE j == k + 1 + (i - 1)
             y == Rendered(rs[j + 1])
  <2>1. j \in 0 .. Len(rs) - 1 /\ k + 1 + i = j + 1 /\ i \in 0 .. m
    BY <1>1 DEF n
  <2>2. Ahead(rs, k, j)
    BY <1>5
  <2> HIDE DEF j
  <2>3. PICK rest \in Seq(Units) : RenderedAll(SubSeq(rs, 1, j)) = a \o (x \o rest)
    BY <2>2 DEF Ahead, a, x
  <2>4. /\ y \in Seq(Units)
        /\ RenderedAll(SubSeq(rs, 1, j + 1)) = RenderedAll(SubSeq(rs, 1, j)) \o y
    BY <2>1, OneMoreRequest, RenderedAllOfAppend, RenderedType
  <2> HIDE DEF y
  <2>5. (a \o (x \o rest)) \o y = a \o (x \o (rest \o y)) /\ rest \o y \in Seq(Units)
    <3>1. Regrouping(Units, a, x, rest, y)
      BY <1>3, <2>4, Regrouped
    <3> QED
      BY <3>1, Zenon DEF Regrouping
  <2>6. RenderedAll(SubSeq(rs, 1, j + 1)) = a \o (x \o (rest \o y))
    BY <2>3, <2>4, <2>5, Zenon
  <2>7. Ahead(rs, k, j + 1)
    BY <2>5, <2>6, Zenon DEF Ahead, a, x
  <2> QED
    BY <2>1, <2>7, Zenon
<1>6. Ahead(rs, k, n)
  <2>1. 0 .. m \subseteq T
    <3> HIDE DEF T
    <3> QED
      BY <1>1, <1>4, <1>5, BoundedInduction
  <2>2. m \in T
    BY <1>1, <2>1
  <2> QED
    BY <1>1, <2>2, Zenon
<1>7. SubSeq(rs, 1, n) = rs
  BY SubSeqFull DEF n
<1> QED
  BY <1>6, <1>7 DEF Ahead

\* What is taken off the front of a stream leaves the rest of it.
LEMMA Remainder ==
    ASSUME NEW S, NEW x \in Seq(S), NEW y \in Seq(S), NEW front \in Seq(S), NEW rest \in Seq(S),
           x \o y = front \o rest, Len(front) <= Len(x)
    PROVE  SubSeq(x, Len(front) + 1, Len(x)) \o y = rest
<1> DEFINE c == Len(front)
           n == Len(x)
           a == SubSeq(x, 1, c)
           b == SubSeq(x, c + 1, n)
<1>1. c \in Nat /\ n \in Nat /\ c <= n /\ c \in 0 .. n /\ Len(y) \in Nat /\ Len(rest) \in Nat
  OBVIOUS
<1>2. a \in Seq(S) /\ b \in Seq(S) /\ x = a \o b
  BY <1>1, SplitStream
<1>3. Len(a) = c /\ \A i \in 1 .. c : a[i] = x[i]
  <2>1. \A i \in 1 .. c : x[i] \in S
    BY <1>1
  <2> QED
    BY <1>1, <2>1, SubSeqProperties
<1>4. \A i \in 1 .. c : x[i] = front[i]
  <2>1. \A i \in 1 .. n + Len(y) : (x \o y)[i] = IF i <= n THEN x[i] ELSE y[i - n]
    BY ConcatProperties
  <2>2. \A i \in 1 .. c + Len(rest) : (front \o rest)[i] = IF i <= c THEN front[i] ELSE rest[i - c]
    BY ConcatProperties
  <2> HIDE DEF c, n
  <2>3. ASSUME NEW i \in 1 .. c PROVE x[i] = front[i]
    <3>1. i \in 1 .. n + Len(y) /\ i <= n /\ i \in 1 .. c + Len(rest) /\ i <= c
      BY <1>1
    <3>2. (x \o y)[i] = x[i] /\ (front \o rest)[i] = front[i]
      BY <2>1, <2>2, <3>1, Zenon
    <3> QED
      BY <3>2
  <2> QED
    BY <2>3
<1> HIDE DEF a, b
<1>5. a = front
  BY <1>2, <1>3, <1>4, SeqEqual
<1> HIDE DEF c, n
<1>6. front \o (b \o y) = front \o rest
  <2>1. (front \o b) \o y = front \o (b \o y)
    BY <1>2, ConcatAssociative
  <2> QED
    BY <1>2, <1>5, <2>1, Zenon
<1>7. b \o y \in Seq(S)
  BY <1>2
<1>8. b \o y = rest
  BY <1>6, <1>7, ConcatSimplifications
<1> QED
  BY <1>8 DEF b, c, n

-----------------------------------------------------------------------------
(* Indices that searches return.                                            *)

\* The least of some positions is one of them,
LEMMA MinIsIn ==
    ASSUME NEW n \in Nat, NEW I \in SUBSET (1 .. n), I # {}
    PROVE  Min(I) \in I
<1>1. \E x \in I : \A y \in I : x <= y
  BY LeastElement
<1> QED
  BY <1>1 DEF Min

\* and so is the greatest.
LEMMA MaxIsIn ==
    ASSUME NEW n \in Nat, NEW I \in SUBSET (1 .. n), I # {}
    PROVE  Max(I) \in I
<1> DEFINE T == {k \in Nat : n - k \in I}
<1>1. T # {}
  <2>1. PICK x \in I : TRUE
    OBVIOUS
  <2>2. n - x \in Nat /\ n - (n - x) \in I
    BY <2>1
  <2> QED
    BY <2>2
<1>2. PICK m \in T : \A k \in T : m <= k
  BY <1>1, LeastElement
<1>3. n - m \in I /\ \A y \in I : n - m >= y
  <2>1. ASSUME NEW y \in I PROVE n - m >= y
    <3>1. n - y \in T
      OBVIOUS
    <3>2. m <= n - y
      BY <1>2, <3>1, Zenon
    <3> QED
      BY <1>2, <3>2
  <2> QED
    BY <1>2, <2>1
<1> QED
  BY <1>3 DEF Max

\* The unit a start line is recognised by is one of the line's, or none.
LEMMA StartUnitRange ==
    ASSUME NEW line, Len(line) \in Nat
    PROVE  StartUnit(line) \in 0 .. Len(line)
<1> DEFINE I == {i \in 1 .. Len(line) : line[i].kind # "byte"}
<1>1. StartUnit(line) = IF I # {} THEN Min(I) ELSE 0
  BY DEF StartUnit, SelectInSeq
<1>2. I \in SUBSET (1 .. Len(line))
  OBVIOUS
<1> HIDE DEF I
<1>3. I # {} => Min(I) \in 1 .. Len(line)
  BY <1>2, MinIsIn
<1> QED
  BY <1>1, <1>3

-----------------------------------------------------------------------------
(* URLs.                                                                     *)

\* What lies in front of a delimiter,
LEMMA UpToType ==
    ASSUME NEW S, NEW s \in Seq(S), NEW delimiters
    PROVE  UpTo(s, delimiters) \in Seq(S)
<1> DEFINE I == {i \in 1 .. Len(s) : s[i] \in delimiters}
           first == IF I # {} THEN Min(I) ELSE 0
<1>1. UpTo(s, delimiters) = IF first = 0 THEN s ELSE SubSeq(s, 1, first - 1)
  BY DEF UpTo, SelectInSeq
<1>2. I \in SUBSET (1 .. Len(s)) /\ Len(s) \in Nat
  OBVIOUS
<1> HIDE DEF I
<1>3. first \in 0 .. Len(s)
  <2>1. I # {} => Min(I) \in 1 .. Len(s)
    BY <1>2, MinIsIn
  <2> QED
    BY <1>2, <2>1
<1> HIDE DEF first
<1> QED
  BY <1>1, <1>3

\* what is left without the host,
LEMMA WithoutHostType ==
    ASSUME NEW u \in Seq(Chars)
    PROVE  WithoutHost(u) \in Seq(Chars)
<1> DEFINE behind == BehindSlashes(u)
           host == Host(u)
<1>1. behind \in Seq(Chars)
  BY DEF BehindSlashes
<1>2. host \in Seq(Chars)
  BY <1>1, UpToType DEF Host
<1> HIDE DEF behind, host
<1>3. SubSeq(behind, Len(host) + 1, Len(behind)) \in Seq(Chars)
  BY <1>1, <1>2
<1> QED
  BY <1>3 DEF WithoutHost, behind, host

\* the path of a URL,
LEMMA UrlPathType ==
    ASSUME NEW u \in Seq(Chars)
    PROVE  UrlPath(u) \in Seq(Chars)
BY WithoutHostType, UpToType DEF UrlPath

\* and the URI that is looked up, are sequences of characters.
LEMMA UriType ==
    ASSUME NEW u \in Seq(Chars)
    PROVE  Uri(u) \in Seq(Chars)
<1>1. <<"/">> \in Seq(Chars)
  BY StaticFilesAssumption
<1> QED
  BY <1>1, UrlPathType DEF Uri

\* What they are decoded to is a sequence of strings.
LEMMA DecodedPathType ==
    ASSUME NEW uri \in Seq(Chars)
    PROVE  DecodedPath(uri) \in Seq(STRING)
<1> DEFINE path == UrlPath(uri)
           decoded == [i \in DOMAIN path |-> Unescaped[path[i]]]
<1>1. path \in Seq(Chars)
  BY UrlPathType
<1> HIDE DEF path
<1>2. decoded \in Seq(STRING)
  <2>1. DOMAIN path = 1 .. Len(path) /\ Len(path) \in Nat
    BY <1>1
  <2>2. ASSUME NEW i \in DOMAIN path PROVE Unescaped[path[i]] \in STRING
    <3>1. path[i] \in Chars
      BY <1>1
    <3> QED
      BY <3>1, StaticFilesAssumption
  <2>3. decoded \in [1 .. Len(path) -> STRING]
    BY <2>1, <2>2
  <2> HIDE DEF decoded
  <2> QED
    BY <2>1, <2>3
<1>3. Unquote(UrlPath(uri)) = decoded
  BY DEF Unquote, path
<1> HIDE DEF decoded
<1> QED
  BY <1>2, <1>3, StaticFilesAssumption DEF DecodedPath

\* Its segments are sequences of strings.
LEMMA SegmentsType ==
    ASSUME NEW path \in Seq(STRING)
    PROVE  Segments(path) \in Seq(Seq(STRING))
BY SplitType DEF Segments, Parts

\* resolve() of a path is a directory's.
LEMMA DirectoryIs ==
    \A dir : dir \in Directories <=>
        dir \in Seq(Seq(STRING)) /\ \A i \in 1 .. Len(dir) : dir[i] # DotDot
<1>1. ASSUME NEW dir \in Seq(Seq(STRING)) PROVE DOMAIN dir = 1 .. Len(dir)
  OBVIOUS
<1> QED
  BY <1>1, Zenon DEF Directories, ToSet

\* Entering a segment leads from a directory to a directory.
LEMMA EnteredType ==
    ASSUME NEW dir \in Directories, NEW seg \in Seq(STRING)
    PROVE  Entered(dir, seg) \in Directories
<1>1. dir \in Seq(Seq(STRING)) /\ Len(dir) \in Nat /\ \A i \in 1 .. Len(dir) : dir[i] # DotDot
  BY DirectoryIs
<1>2. CASE seg \in {<<>>, Dot}
  <2>1. Len(DotDot) = 2 /\ Len(Dot) = 1 /\ Len(<<>>) = 0
    BY DEF Dot, DotDot
  <2>2. DotDot # Dot /\ DotDot # <<>>
    BY <2>1
  <2>3. seg # DotDot
    BY <1>2, <2>2, Zenon
  <2>4. Entered(dir, seg) = dir
    BY <1>2, <2>3 DEF Entered
  <2> QED
    BY <2>4, Zenon
<1>3. CASE seg \notin {<<>>, Dot} /\ seg = DotDot
  <2>1. Entered(dir, seg) = Parent(dir)
    BY <1>3 DEF Entered
  <2>2. CASE dir = <<>>
    BY <2>1, <2>2 DEF Parent
  <2>3. CASE dir # <<>>
    <3> DEFINE front == SubSeq(dir, 1, Len(dir) - 1)
    <3>1. Len(dir) - 1 \in Nat
      BY <1>1, <2>3
    <3>2. front \in Seq(Seq(STRING)) /\ Len(front) = Len(dir) - 1 /\ \A i \in 1 .. Len(dir) - 1 : front[i] = dir[i]
      <4> DEFINE m == Len(dir) - 1
      <4>1. m \in 0 .. Len(dir) /\ m \in Nat /\ \A i \in 1 .. m : dir[i] \in Seq(STRING)
        BY <1>1, <3>1
      <4> HIDE DEF m
      <4>2. SubSeq(dir, 1, m) \in Seq(Seq(STRING))
        BY <1>1, <4>1
      <4>3. Len(SubSeq(dir, 1, m)) = m /\ \A i \in 1 .. m : SubSeq(dir, 1, m)[i] = dir[i]
        BY <4>1, SubSeqProperties
      <4> QED
        BY <4>2, <4>3 DEF m
    <3>3. Parent(dir) = front
      BY <2>3 DEF Parent, Front
    <3> HIDE DEF front
    <3>4. ASSUME NEW i \in 1 .. Len(front) PROVE front[i] # DotDot
      <4>1. i \in 1 .. Len(dir) - 1 /\ i \in 1 .. Len(dir)
        BY <1>1, <3>2
      <4> QED
        BY <1>1, <3>2, <4>1, Zenon
    <3> QED
      BY <2>1, <3>2, <3>3, <3>4, DirectoryIs
  <2> QED
    BY <2>2, <2>3
<1>4. CASE seg \notin {<<>>, Dot} /\ seg # DotDot
  <2> DEFINE longer == Append(dir, seg)
  <2>1. Entered(dir, seg) = longer
    BY <1>4 DEF Entered
  <2>2. /\ longer \in Seq(Seq(STRING)) /\ Len(longer) = Len(dir) + 1 /\ longer[Len(dir) + 1] = seg
        /\ \A i \in 1 .. Len(dir) : longer[i] = dir[i]
    BY <1>1
  <2> HIDE DEF longer
  <2>3. \A i \in 1 .. Len(longer) : longer[i] # DotDot
    <3>1. ASSUME NEW i \in 1 .. Len(longer) PROVE i = Len(dir) + 1 \/ i \in 1 .. Len(dir)
      BY <1>1, <2>2
    <3> QED
      BY <1>1, <1>4, <2>2, <3>1, Zenon
  <2> QED
    BY <2>1, <2>2, <2>3, DirectoryIs
<1> QED
  BY <1>2, <1>3, <1>4

Resolves(root, segments) ==
    CHOOSE dir : dir = [i \in 0 .. Len(segments) |->
            IF i = 0 THEN root ELSE Entered(dir[i - 1], segments[i])]
\* dir is defined: behind each segment by what it was before.
LEMMA ResolvesEquation ==
    ASSUME NEW root \in Directories, NEW segments \in Seq(Seq(STRING))
    PROVE  /\ Resolves(root, segments)[0] = root
           /\ \A i \in 1 .. Len(segments) :
                  Resolves(root, segments)[i] = Entered(Resolves(root, segments)[i - 1], segments[i])
           /\ \A i \in 0 .. Len(segments) : Resolves(root, segments)[i] \in Directories
<1> DEFINE n == Len(segments)
           next(i, q) == IF i \in 1 .. n THEN Entered(q, segments[i]) ELSE q
           step == [i \in Nat |-> [q \in Directories |-> next(i, q)]]
           f(g) == [i \in 0 .. n |-> IF i = 0 THEN root ELSE Entered(g[i - 1], segments[i])]
<1>1. n \in Nat /\ \A i \in 1 .. n : segments[i] \in Seq(STRING)
  OBVIOUS
<1> HIDE DEF n
<1>2. ASSUME NEW i \in Nat, NEW q \in Directories
      PROVE  next(i, q) \in Directories
  BY <1>1, EnteredType
<1>3. /\ step \in [Nat -> [Directories -> Directories]]
      /\ \A i \in Nat : \A q \in Directories : step[i][q] = next(i, q)
  <2> HIDE DEF next
  <2> QED
    BY <1>2
<1>4. PICK g : IsIteration(g, Directories, root, step, n)
  <2> HIDE DEF step
  <2> QED
    BY <1>1, <1>3, Iteration, Zenon
<1>5. /\ g \in [0 .. n -> Directories] /\ g[0] = root
      /\ \A i \in 1 .. n : g[i - 1] \in Directories /\ g[i] = Entered(g[i - 1], segments[i])
  <2> HIDE DEF step
  <2>1. g \in [0 .. n -> Directories] /\ g[0] = root /\ \A i \in 1 .. n : g[i] = step[i][g[i - 1]]
    BY <1>4 DEF IsIteration
  <2>2. ASSUME NEW i \in 1 .. n
        PROVE  g[i - 1] \in Directories /\ g[i] = Entered(g[i - 1], segments[i])
    <3>1. g[i - 1] \in Directories
      BY <1>1, <2>1
    <3>2. g[i] = next(i, g[i - 1])
      <4> HIDE DEF next
      <4> QED
        BY <1>1, <1>3, <2>1, <3>1
    <3> QED
      BY <3>1, <3>2
  <2> QED
    BY <2>1, <2>2
<1>6. g = f(g)
  <2>1. \A i \in 0 .. n : g[i] = f(g)[i]
    BY <1>1, <1>5
  <2>2. g = [i \in 0 .. n |-> g[i]] /\ f(g) = [i \in 0 .. n |-> f(g)[i]]
    BY <1>5
  <2> HIDE DEF f
  <2> QED
    BY <2>1, <2>2
<1> DEFINE u == Resolves(root, segments)
<1>7. u = f(u)
  BY <1>6 DEF Resolves, n
<1> HIDE DEF u
<1>8. u[0] = root /\ \A i \in 1 .. n : u[i] = Entered(u[i - 1], segments[i])
  <2>1. \A i \in 0 .. n : f(u)[i] = IF i = 0 THEN root ELSE Entered(u[i - 1], segments[i])
    OBVIOUS
  <2> HIDE DEF f
  <2> QED
    BY <1>1, <1>7, <2>1
<1> DEFINE T == {i \in 0 .. n : u[i] \in Directories}
<1>9. 0 .. n \subseteq T
  <2>1. 0 \in T
    BY <1>1, <1>8
  <2>2. ASSUME NEW i \in 1 .. n, i - 1 \in T PROVE i \in T
    BY <1>1, <1>8, <2>2, EnteredType
  <2> HIDE DEF T
  <2> QED
    BY <1>1, <2>1, <2>2, BoundedInduction
<1>10. \A i \in 0 .. n : u[i] \in Directories
  BY <1>9
<1> QED
  BY <1>8, <1>10, Zenon DEF u, n

\* Resolve is Resolves at the last segment.
LEMMA ResolveIsResolves ==
    \A root, segments : Resolve(root, segments) = Resolves(root, segments)[Len(segments)]
BY DEF Resolve, Resolves

\* resolve() of a path under a directory is a directory's path.
LEMMA ResolveType ==
    ASSUME NEW root \in Directories, NEW segments \in Seq(Seq(STRING))
    PROVE  Resolve(root, segments) \in Directories
<1>1. Len(segments) \in 0 .. Len(segments)
  OBVIOUS
<1> QED
  BY <1>1, ResolveIsResolves, ResolvesEquation, Zenon

-----------------------------------------------------------------------------
(* The location and the file that are found.                                *)

LocationsOK == locations \in Seq(Locations)
Matches(uri) ==
    CHOOSE best : best = [i \in 0 .. Len(locations) |->
            IF i = 0 THEN <<"/">> ELSE Better(uri, best[i - 1], locations[i].path)]
Selectable == Paths \union {<<"/">>}
\* best is defined: at each location by the one before.
LEMMA MatchesEquation ==
    ASSUME LocationsOK, NEW uri
    PROVE  /\ Matches(uri)[0] = <<"/">>
           /\ \A i \in 1 .. Len(locations) :
                  Matches(uri)[i] = Better(uri, Matches(uri)[i - 1], locations[i].path)
           /\ \A i \in 0 .. Len(locations) : Matches(uri)[i] \in Selectable
<1> DEFINE n == Len(locations)
           start == <<"/">>
           next(i, q) == IF i \in 1 .. n THEN Better(uri, q, locations[i].path) ELSE q
           step == [i \in Nat |-> [q \in Selectable |-> next(i, q)]]
           f(g) == [i \in 0 .. n |-> IF i = 0 THEN start ELSE Better(uri, g[i - 1], locations[i].path)]
<1>1. n \in Nat /\ start \in Selectable /\ \A i \in 1 .. n : locations[i].path \in Selectable
  BY DEF LocationsOK, Selectable, Paths
<1> HIDE DEF n, start
<1>2. \A i \in Nat : \A q \in Selectable : next(i, q) \in Selectable
  BY <1>1, Zenon DEF Better
<1>3. /\ step \in [Nat -> [Selectable -> Selectable]]
      /\ \A i \in Nat : \A q \in Selectable : step[i][q] = next(i, q)
  <2> HIDE DEF next
  <2> QED
    BY <1>2
<1>4. PICK g : IsIteration(g, Selectable, start, step, n)
  <2> HIDE DEF step
  <2> QED
    BY <1>1, <1>3, Iteration, Zenon
<1>5. /\ g \in [0 .. n -> Selectable] /\ g[0] = start
      /\ \A i \in 1 .. n : g[i] = Better(uri, g[i - 1], locations[i].path)
  <2> HIDE DEF step
  <2>1. g \in [0 .. n -> Selectable] /\ g[0] = start /\ \A i \in 1 .. n : g[i] = step[i][g[i - 1]]
    BY <1>4 DEF IsIteration
  <2>2. ASSUME NEW i \in 1 .. n
        PROVE  g[i] = Better(uri, g[i - 1], locations[i].path)
    <3>1. g[i - 1] \in Selectable
      BY <1>1, <2>1
    <3>2. g[i] = next(i, g[i - 1])
      <4> HIDE DEF next
      <4> QED
        BY <1>1, <1>3, <2>1, <3>1
    <3> QED
      BY <3>2
  <2> QED
    BY <2>1, <2>2
<1>6. g = f(g)
  <2>1. \A i \in 0 .. n : g[i] = f(g)[i]
    BY <1>1, <1>5
  <2>2. g = [i \in 0 .. n |-> g[i]] /\ f(g) = [i \in 0 .. n |-> f(g)[i]]
    BY <1>5
  <2> HIDE DEF f
  <2> QED
    BY <2>1, <2>2
<1> DEFINE u == Matches(uri)
<1>7. u = f(u)
  BY <1>6 DEF Matches, n, start
<1> HIDE DEF u
<1>8. u[0] = start /\ \A i \in 1 .. n : u[i] = Better(uri, u[i - 1], locations[i].path)
  <2>1. \A i \in 0 .. n : f(u)[i] = IF i = 0 THEN start ELSE Better(uri, u[i - 1], locations[i].path)
    OBVIOUS
  <2> HIDE DEF f
  <2> QED
    BY <1>1, <1>7, <2>1
<1> DEFINE T == {i \in 0 .. n : u[i] \in Selectable}
<1>9. 0 .. n \subseteq T
  <2>1. 0 \in T
    BY <1>1, <1>8
  <2>2. ASSUME NEW i \in 1 .. n, i - 1 \in T PROVE i \in T
    <3>1. u[i] = u[i - 1] \/ u[i] = locations[i].path
      BY <1>8, Zenon DEF Better
    <3>2. u[i - 1] \in Selectable /\ locations[i].path \in Selectable /\ i \in 0 .. n
      BY <1>1, <2>2
    <3> QED
      BY <3>1, <3>2
  <2> HIDE DEF T
  <2> QED
    BY <1>1, <2>1, <2>2, BoundedInduction
<1>10. \A i \in 0 .. n : u[i] \in Selectable
  BY <1>9
<1> QED
  BY <1>8, <1>10, Zenon DEF u, n, start

\* MatchLocation is Matches at the last location.
LEMMA MatchIsMatches == \A uri : MatchLocation(uri) = Matches(uri)[Len(locations)]
BY DEF MatchLocation, Matches

\* The location chosen is one of the block's, or "/".
LEMMA MatchLocationType ==
    ASSUME LocationsOK, NEW uri
    PROVE  MatchLocation(uri) \in Selectable
<1>1. Len(locations) \in 0 .. Len(locations)
  BY DEF LocationsOK
<1> QED
  BY <1>1, MatchIsMatches, MatchesEquation, Zenon

\* The root of a location is a directory.
LEMMA RootType ==
    ASSUME LocationsOK, NEW path
    PROVE  Root(path) \in Directories
<1> DEFINE I == {i \in 1 .. Len(locations) : locations[i].path = path}
           first == IF I # {} THEN Min(I) ELSE 0
<1>1. /\ Len(locations) \in Nat /\ DOMAIN locations = 1 .. Len(locations)
      /\ \A i \in 1 .. Len(locations) : locations[i].root \in Directories
  <2>1. locations \in Seq(Locations)
    BY DEF LocationsOK
  <2>2. /\ Len(locations) \in Nat /\ DOMAIN locations = 1 .. Len(locations)
        /\ \A i \in 1 .. Len(locations) : locations[i] \in Locations
    BY <2>1
  <2> QED
    BY <2>2 DEF Locations
<1>2. CASE path \in Paths
  <2>1. I \in SUBSET (1 .. Len(locations)) /\ I # {}
    BY <1>1, <1>2 DEF Paths
  <2>2. Root(path) = locations[first].root
    BY <1>2 DEF Root, SelectInSeq
  <2> HIDE DEF I
  <2>3. Min(I) \in 1 .. Len(locations)
    BY <1>1, <2>1, MinIsIn
  <2>4. first = Min(I)
    BY <2>1
  <2> QED
    BY <1>1, <2>2, <2>3, <2>4, Zenon
<1>3. CASE path \notin Paths
  BY <1>3, StaticFilesAssumption DEF Root
<1> QED
  BY <1>2, <1>3

\* What is found below a root, or that nothing is.
LEMMA FoundType ==
    ASSUME LocationsOK, NEW u
    PROVE  LET found == Found(u)
           IN  /\ found.status \in {200, 403, 404}
               /\ found.location \in Selectable
               /\ found.file \in Files \union {<<>>}
               /\ found.status = 200 =>
                      /\ IsPrefix(Root(found.location), found.file)
                      /\ found.file = FilePath(Root(found.location), Uri(u))
<1> DEFINE location == MatchLocation(Uri(u))
           root == Root(location)
           file == FilePath(root, Uri(u))
           Reply(status, body) == [status |-> status, location |-> location, file |-> body]
<1>1. location \in Selectable
  BY MatchLocationType
<1>2. Found(u) = CASE ~IsBelow(root, file) -> Reply(403, <<>>)
          [] IsBelow(root, file) /\ ~IsFile(file) -> Reply(404, <<>>)
          [] IsBelow(root, file) /\ IsFile(file) -> Reply(200, file)
  BY DEF Found
<1> HIDE DEF location, file, root
<1>3. CASE ~IsBelow(root, file)
  <2>1. Found(u) = Reply(403, <<>>)
    BY <1>2, <1>3
  <2> QED
    BY <1>1, <2>1
<1>4. CASE IsBelow(root, file) /\ ~IsFile(file)
  <2>1. Found(u) = Reply(404, <<>>)
    BY <1>2, <1>4
  <2> QED
    BY <1>1, <2>1
<1>5. CASE IsBelow(root, file) /\ IsFile(file)
  <2>1. Found(u) = Reply(200, file)
    BY <1>2, <1>5
  <2>2. /\ Found(u).status = 200 /\ Found(u).location = location /\ Found(u).file = file
    BY <2>1
  <2>3. IsPrefix(root, file) /\ file \in Files
    BY <1>5 DEF IsBelow, IsFile
  <2>4. root = Root(Found(u).location) /\ file = FilePath(Root(Found(u).location), Uri(u))
    BY <2>2, Zenon DEF root, file
  <2> QED
    BY <1>1, <2>2, <2>3, <2>4, Zenon
<1> QED
  BY <1>3, <1>4, <1>5

\* The file found has no ".." left in its path.
LEMMA FoundIsInside ==
    ASSUME LocationsOK, NEW u \in Seq(Chars), Found(u).status = 200
    PROVE  Found(u).file \in Directories
<1> DEFINE root == Root(Found(u).location)
           segments == Segments(DecodedPath(Uri(u)))
<1>1. Found(u).file = Resolve(root, segments)
  BY FoundType DEF FilePath
<1>2. segments \in Seq(Seq(STRING)) /\ root \in Directories
  BY UriType, DecodedPathType, SegmentsType, RootType
<1> HIDE DEF root, segments
<1> QED
  BY <1>1, <1>2, ResolveType

\* The reply to a request that parses: an error closes.
LEMMA ResponseType ==
    ASSUME LocationsOK, NEW request
    PROVE  /\ BuildHTTPResponse(request) \in Responses
           /\ BuildHTTPResponse(request).status # 400
           /\ BuildHTTPResponse(request).status # 200 =>
                  /\ BuildHTTPResponse(request).close
                  /\ BuildHTTPResponse(request).body = BuildHTTPResponse(request).content_length
           /\ BuildHTTPResponse(request).status = 200 =>
                  /\ BuildHTTPResponse(request).content_length = FileLen
                  /\ BuildHTTPResponse(request).body = IF request.method = "HEAD" THEN 0 ELSE FileLen
<1> DEFINE found == Found(request.target)
           allowed == request.method \in {"GET", "HEAD"}
           response == BuildHTTPResponse(request)
<1>1. /\ found.status \in {200, 403, 404} /\ found.location \in Paths \union {<<"/">>}
      /\ found.file \in Files \union {<<>>}
  BY FoundType DEF Selectable
<1>2. response = CASE ~allowed -> ErrorResponse(NothingFound(405))
          [] allowed /\ found.status # 200 -> ErrorResponse(found)
          [] allowed /\ found.status = 200 ->
             Response(found, ~request.keep_alive,
                      DeclaredLength(request.method), SentLength(request.method))
  BY DEF BuildHTTPResponse, Allowed
<1>3. FileLen \in Nat
  BY HTTPMessagesAssumption
<1> HIDE DEF found, response
<1>4. CASE ~allowed
  <2>1. response = ErrorResponse(NothingFound(405))
    BY <1>2, <1>4
  <2>2. /\ response = [status |-> 405, location |-> <<>>, file |-> <<>>,
                       close |-> TRUE, content_length |-> 1, body |-> 1]
    BY <2>1 DEF ErrorResponse, NothingFound, Response
  <2>3. response \in Responses
    BY <2>2 DEF Responses
  <2> QED
    BY <2>2, <2>3 DEF response
<1>5. CASE allowed /\ found.status # 200
  <2>1. response = ErrorResponse(found)
    BY <1>2, <1>5
  <2>2. response = [status |-> found.status, location |-> found.location, file |-> found.file,
                    close |-> TRUE, content_length |-> 1, body |-> 1]
    BY <2>1 DEF ErrorResponse, Response
  <2>3. response \in Responses
    BY <1>1, <2>2 DEF Responses
  <2>4. /\ response.status = found.status /\ response.location = found.location
        /\ response.file = found.file /\ response.close
        /\ response.body = response.content_length
    BY <2>2
  <2>5. response.status # 200 /\ response.status # 400
    BY <1>1, <1>5, <2>4
  <2> QED
    BY <2>3, <2>4, <2>5, Zenon DEF response, found
<1>6. CASE allowed /\ found.status = 200
  <2> DEFINE sent == IF request.method = "HEAD" THEN 0 ELSE FileLen
  <2>1. response = Response(found, ~request.keep_alive, FileLen, sent)
    BY <1>2, <1>6 DEF DeclaredLength, SentLength
  <2>2. sent \in Nat
    BY <1>3
  <2> HIDE DEF sent
  <2>3. response = [status |-> found.status, location |-> found.location, file |-> found.file,
                    close |-> ~request.keep_alive, content_length |-> FileLen, body |-> sent]
    BY <2>1 DEF Response
  <2>4. (~request.keep_alive) \in BOOLEAN
    OBVIOUS
  <2>5. response \in Responses
    BY <1>1, <1>3, <1>6, <2>2, <2>3, <2>4 DEF Responses
  <2> QED
    BY <1>6, <2>3, <2>5 DEF response, found, sent
<1> QED
  BY <1>4, <1>5, <1>6

\* What a GET or HEAD is answered with was found.
LEMMA AnsweredIsFound ==
    ASSUME NEW request, BuildHTTPResponse(request).status \in {200, 403, 404}
    PROVE  /\ BuildHTTPResponse(request).status = Found(request.target).status
           /\ BuildHTTPResponse(request).location = Found(request.target).location
           /\ BuildHTTPResponse(request).file = Found(request.target).file
<1> DEFINE found == Found(request.target)
           allowed == request.method \in {"GET", "HEAD"}
           response == BuildHTTPResponse(request)
<1>1. response = CASE ~allowed -> ErrorResponse(NothingFound(405))
          [] allowed /\ found.status # 200 -> ErrorResponse(found)
          [] allowed /\ found.status = 200 ->
             Response(found, ~request.keep_alive,
                      DeclaredLength(request.method), SentLength(request.method))
  BY DEF BuildHTTPResponse, Allowed
<1>2. response.status \in {200, 403, 404}
  OBVIOUS
<1> HIDE DEF found, response
<1>3. CASE ~allowed
  <2>1. response = ErrorResponse(NothingFound(405))
    BY <1>1, <1>3
  <2>2. response.status = 405
    BY <2>1 DEF ErrorResponse, NothingFound, Response
  <2> QED
    BY <1>2, <2>2
<1>4. CASE allowed /\ found.status # 200
  <2>1. response = ErrorResponse(found)
    BY <1>1, <1>4
  <2>2. /\ response.status = found.status /\ response.location = found.location
        /\ response.file = found.file
    BY <2>1 DEF ErrorResponse, Response
  <2> QED
    BY <2>2 DEF found, response
<1>5. CASE allowed /\ found.status = 200
  <2>1. response = Response(found, ~request.keep_alive,
                            DeclaredLength(request.method), SentLength(request.method))
    BY <1>1, <1>5
  <2>2. /\ response.status = found.status /\ response.location = found.location
        /\ response.file = found.file
    BY <2>1 DEF Response
  <2> QED
    BY <2>2 DEF found, response
<1> QED
  BY <1>3, <1>4, <1>5

-----------------------------------------------------------------------------
(* What parse_message returns of any bytes.                                  *)

\* What the kind of a unit says of its fields.
LEMMA UnitFacts ==
    \A u \in Units : /\ u.kind = "start" => u.target \in Seq(Chars)
                     /\ u.kind = "length" => u.n \in Int
<1> SUFFICES ASSUME NEW u \in Units
             PROVE  /\ u.kind = "start" => u.target \in Seq(Chars)
                    /\ u.kind = "length" => u.n \in Int
  OBVIOUS
<1> DEFINE T == Seq(Chars)
<1> HIDE DEF T
<1>1. \/ u \in {Eol, Byte}
      \/ u \in [kind : {"start"}, method : STRING, target : T]
      \/ u \in [kind : {"connection"}, value : STRING]
      \/ u \in [kind : {"length"}, n : Int]
  BY Zenon DEF Units, T
<1>2. CASE u \in {Eol, Byte}
  BY <1>2 DEF Eol, Byte
<1>3. CASE u \in [kind : {"start"}, method : STRING, target : T]
  BY <1>3 DEF T
<1>4. CASE u \in [kind : {"connection"}, value : STRING]
  BY <1>4
<1>5. CASE u \in [kind : {"length"}, n : Int]
  BY <1>5
<1> QED
  BY <1>1, <1>2, <1>3, <1>4, <1>5

\* The empty line lies within the bytes there are.
LEMMA HeaderEndRange ==
    ASSUME NEW data \in Seq(Units)
    PROVE  HeaderEnd(data) \in 0 .. Len(data)
<1>1. Separators(data) \in SUBSET (1 .. Len(data) - 1) /\ Len(data) \in Nat
  BY DEF Separators
<1>2. CASE Separators(data) = {}
  BY <1>1, <1>2 DEF HeaderEnd
<1>3. CASE Separators(data) # {}
  <2>1. Separators(data) \in SUBSET Nat
    BY <1>1
  <2>2. \E m \in Separators(data) : \A k \in Separators(data) : m <= k
    BY <1>3, <2>1, LeastElement
  <2>3. HeaderEnd(data) \in Separators(data)
    BY <1>3, <2>2, Zenon DEF HeaderEnd
  <2> QED
    BY <1>1, <2>3
<1> QED
  BY <1>2, <1>3

\* A Content-Length is an integer, negative ones included.
LEMMA BodyLengthType ==
    ASSUME NEW lines \in Seq(Seq(Units))
    PROVE  BodyLength(lines) \in Int
<1> DEFINE I == {i \in 1 .. Len(lines) : lines[i] # <<>> /\ lines[i][1].kind = "length"}
           last == IF I # {} THEN Max(I) ELSE 0
           h == Header(lines, "length")
<1>1. h = CASE last = 0 -> [kind |-> "none"]
            [] last # 0 /\ Len(lines[last]) = 1 -> lines[last][1]
            [] OTHER -> [kind |-> "garbled"]
  BY DEF Header, SelectLastInSeq
<1>2. Len(lines) \in Nat /\ I \in SUBSET (1 .. Len(lines))
  OBVIOUS
<1>3. BodyLength(lines) = IF h.kind = "length" THEN h.n ELSE 0
  BY DEF BodyLength
<1> HIDE DEF I, h
<1>4. CASE last = 0
  <2>1. h.kind # "length"
    BY <1>1, <1>4
  <2> QED
    BY <1>3, <2>1
<1>5. CASE last # 0 /\ Len(lines[last]) = 1
  <2>1. last \in 1 .. Len(lines)
    BY <1>2, <1>5, MaxIsIn
  <2>2. lines[last] \in Seq(Units)
    BY <2>1
  <2>3. lines[last][1] \in Units
    BY <1>5, <2>2
  <2>4. h = lines[last][1]
    BY <1>1, <1>5
  <2> HIDE DEF last
  <2>5. h.kind = "length" => h.n \in Int
    BY <2>3, <2>4, UnitFacts
  <2> QED
    BY <1>3, <2>5
<1>6. CASE last # 0 /\ Len(lines[last]) # 1
  <2>1. h.kind # "length"
    BY <1>1, <1>6
  <2> QED
    BY <1>3, <2>1
<1> QED
  BY <1>4, <1>5, <1>6

\* A request that parses has a target, and takes a number of bytes.
LEMMA ParsedType ==
    ASSUME NEW data \in Seq(Units), ParseMessage(data).result = "request"
    PROVE  /\ ParseMessage(data).consumed \in Int
           /\ ParseMessage(data).message.target \in Seq(Chars)
<1> DEFINE header_end == HeaderEnd(data)
           lines == Lines(SubSeq(data, 1, header_end - 1))
           length == BodyLength(Tail(lines))
           parsed == ParseMessage(data)
           more == SubSeq(data, header_end + 2, Len(data))
<1>1. parsed =
        CASE data = <<>> -> NoRequest("none")
          [] data # <<>> /\ header_end = 0 -> NoRequest("incomplete")
          [] header_end # 0 /\ IsMalformed(lines) -> NoRequest("invalid")
          [] header_end # 0 /\ ~IsMalformed(lines) ->
             IF HasBody(more, length)
             THEN [result |-> "request", consumed |-> Consumed(header_end, length),
                   message |-> HTTPMessage(lines)]
             ELSE NoRequest("incomplete")
  BY DEF ParseMessage
<1>2. header_end \in 0 .. Len(data) /\ header_end \in Nat
  BY HeaderEndRange
<1>3. lines \in Parts(Units)
  <2> DEFINE head == SubSeq(data, 1, header_end - 1)
  <2>1. head \in Seq(Units)
    <3> HIDE DEF header_end
    <3> QED
      BY <1>2
  <2> HIDE DEF head
  <2>2. Lines(head) \in Parts(Units)
    BY <2>1, SplitType DEF Lines
  <2> QED
    BY <2>2 DEF head
<1> HIDE DEF lines
<1>4. length \in Int
  <2>1. Tail(lines) \in Seq(Seq(Units))
    BY <1>3 DEF Parts
  <2> QED
    BY <2>1, BodyLengthType
<1>5. parsed.result = "request"
  OBVIOUS
<1> HIDE DEF length, header_end, more, parsed
<1>6. \A result : NoRequest(result).result = result
  BY DEF NoRequest
<1>7. header_end # 0 /\ ~IsMalformed(lines) /\ parsed.consumed = Consumed(header_end, length)
      /\ parsed.message = HTTPMessage(lines)
  <2>1. data = <<>> => header_end = 0
    <3>1. ASSUME data = <<>> PROVE HeaderEnd(data) \in 0 .. 0
      BY <3>1, HeaderEndRange
    <3> QED
      BY <3>1 DEF header_end
  <2>2. data # <<>>
    BY <1>1, <1>5, <1>6, <2>1
  <2>3. header_end # 0
    BY <1>1, <1>5, <1>6, <2>2
  <2>4. ~IsMalformed(lines)
    BY <1>1, <1>5, <1>6, <2>2, <2>3
  <2>5. parsed = IF HasBody(more, length)
             THEN [result |-> "request", consumed |-> Consumed(header_end, length),
                   message |-> HTTPMessage(lines)]
             ELSE NoRequest("incomplete")
    BY <1>1, <2>2, <2>3, <2>4
  <2> QED
    BY <1>5, <1>6, <2>3, <2>4, <2>5
<1>8. HTTPMessage(lines).target \in Seq(Chars)
  <2> DEFINE line == lines[1]
             s == StartUnit(line)
  <2>1. line \in Seq(Units)
    BY <1>3 DEF Parts
  <2>2. s # 0 /\ line[s].kind = "start"
    BY <1>7, Zenon DEF IsMalformed, IsStartLine
  <2>3. HTTPMessage(lines).target = line[s].target
    BY DEF HTTPMessage
  <2> HIDE DEF line
  <2>4. Len(line) \in Nat
    BY <2>1
  <2>5. s \in 0 .. Len(line)
    BY <2>4, StartUnitRange
  <2> HIDE DEF s
  <2>6. line[s] \in Units
    BY <2>1, <2>2, <2>5
  <2> QED
    BY <2>2, <2>3, <2>6, UnitFacts, Zenon
<1>9. parsed.consumed \in Int
  BY <1>2, <1>4, <1>7 DEF Consumed
<1> QED
  BY <1>7, <1>8, <1>9 DEF parsed

\* What remains of the buffer is a sequence of units.
LEMMA ReducedType ==
    ASSUME NEW data \in Seq(Units), NEW size \in Int
    PROVE  ReduceData(data, size) \in Seq(Units)
<1>1. Len(data) \in Nat
  OBVIOUS
<1>2. CASE size >= 0
  <2> DEFINE first == size + 1
  <2>1. first \in Int /\ first >= 1
    BY <1>2
  <2>2. ReduceData(data, size) = SubSeq(data, first, Len(data))
    BY <1>2 DEF ReduceData
  <2> HIDE DEF first
  <2>3. SubSeq(data, first, Len(data)) \in Seq(Units)
    BY <2>1
  <2> QED
    BY <2>2, <2>3
<1>3. CASE ~(size >= 0)
  <2> DEFINE first == IF Len(data) + size > 0 THEN Len(data) + size + 1 ELSE 1
  <2>1. first \in Int /\ first >= 1
    BY <1>1
  <2>2. ReduceData(data, size) = SubSeq(data, first, Len(data))
    BY <1>3 DEF ReduceData
  <2> HIDE DEF first
  <2>3. SubSeq(data, first, Len(data)) \in Seq(Units)
    BY <2>1
  <2> QED
    BY <2>2, <2>3
<1> QED
  BY <1>2, <1>3

-----------------------------------------------------------------------------
(* Type correctness, and what files are served.                              *)

Parsed == ParseMessage(http_input)
\* The first state is of the declared types,
LEMMA TypesInit == Init => TypeOK
<1> SUFFICES ASSUME Init PROVE TypeOK
  OBVIOUS
<1>1. PICK c \in Conversations : locations = c.locations /\ requests = c.requests
  BY DEF Init
<1>2. locations \in Seq(Locations) /\ requests \in Seq(Requests)
  BY <1>1, HTTPMessagesAssumption
<1>3. Stream \in Seq(Units)
  BY <1>2, RenderedAllType DEF Stream
<1> QED
  BY <1>2, <1>3 DEF Init, TypeOK

\* a 400 reply is a reply, which closes,
LEMMA ErrorReplyType ==
    LET reply == ErrorResponse(NothingFound(400))
    IN  reply \in Responses /\ reply.status = 400 /\ reply.close /\ reply.body = reply.content_length
BY DEF ErrorResponse, NothingFound, Response, Responses

\* and every step keeps the types.
LEMMA TypesNext == TypeOK /\ [Next]_vars => TypeOK'
<1> SUFFICES ASSUME TypeOK, [Next]_vars PROVE TypeOK'
  OBVIOUS
<1>1. /\ locations \in Seq(Locations) /\ requests \in Seq(Requests)
      /\ unread \in Seq(Units) /\ http_input \in Seq(Units)
      /\ pc \in {"read", "http", "over"} /\ replies \in Seq(Responses)
  BY DEF TypeOK
<1>2. CASE UNCHANGED vars
  BY <1>1, <1>2 DEF vars, TypeOK, Responses, Paths
<1>3. locations' = locations => Responses' = Responses
  BY DEF Responses, Paths
<1>4. CASE Read
  <2>1. PICK n \in DOMAIN unread : /\ http_input' = http_input \o SubSeq(unread, 1, n)
                                   /\ unread' = SubSeq(unread, n + 1, Len(unread))
    BY <1>4 DEF Read
  <2>2. n \in 0 .. Len(unread)
    BY <1>1
  <2> DEFINE front == SubSeq(unread, 1, n)
  <2>3. front \in Seq(Units) /\ SubSeq(unread, n + 1, Len(unread)) \in Seq(Units)
    BY <1>1, <2>2, SplitStream
  <2> HIDE DEF front
  <2>4. http_input \o front \in Seq(Units)
    BY <1>1, <2>3
  <2>5. /\ locations' = locations /\ requests' = requests /\ replies' = replies /\ pc' = "http"
        /\ http_input' \in Seq(Units) /\ unread' \in Seq(Units)
    BY <1>4, <2>1, <2>3, <2>4, Zenon DEF Read, front
  <2> QED
    BY <1>1, <1>3, <2>5 DEF TypeOK
<1>5. CASE AwaitMore
  BY <1>1, <1>3, <1>5 DEF AwaitMore, TypeOK
<1>6. CASE Refuse
  <2>1. ErrorResponse(NothingFound(400)) \in Responses
    BY ErrorReplyType
  <2>2. replies' \in Seq(Responses)
    BY <1>1, <1>6, <2>1 DEF Refuse
  <2> QED
    BY <1>1, <1>3, <1>6, <2>2 DEF Refuse, TypeOK
<1>7. CASE Answer
  <2> DEFINE response == BuildHTTPResponse(Parsed.message)
  <2>1. /\ locations' = locations /\ requests' = requests /\ unread' = unread
        /\ Parsed.result = "request" /\ http_input' = ReduceData(http_input, Parsed.consumed)
        /\ replies' = Append(replies, response) /\ pc' \in {"read", "http"}
    BY <1>7 DEF Answer, Parsed
  <2>2. http_input' \in Seq(Units)
    BY <1>1, <2>1, ParsedType, ReducedType DEF Parsed
  <2>3. response \in Responses
    BY <1>1, ResponseType DEF LocationsOK
  <2> HIDE DEF response
  <2>4. replies' \in Seq(Responses)
    BY <1>1, <2>1, <2>3
  <2> QED
    BY <1>1, <1>3, <2>1, <2>2, <2>4 DEF TypeOK
<1>8. CASE Raise
  <2>1. /\ locations' = locations /\ requests' = requests /\ unread' = unread /\ replies' = replies
        /\ Parsed.result = "request" /\ http_input' = ReduceData(http_input, Parsed.consumed)
        /\ pc' = "over"
    BY <1>8 DEF Raise, Parsed
  <2>2. http_input' \in Seq(Units)
    BY <1>1, <2>1, ParsedType, ReducedType DEF Parsed
  <2> QED
    BY <1>1, <1>3, <2>1, <2>2 DEF TypeOK
<1> QED
  BY <1>2, <1>4, <1>5, <1>6, <1>7, <1>8 DEF Next

\* Every state is of the declared types, of whatever bytes a client sends in
\* whatever parts they are read.
THEOREM ConversationsAreTyped == Spec => []TypeOK
BY TypesInit, TypesNext, PTL DEF Spec

\* No step serves a file that lies elsewhere.
LEMMA ServedNext == TypeOK /\ ServedFilesAreInside /\ [Next]_vars => ServedFilesAreInside'
<1> SUFFICES ASSUME TypeOK, ServedFilesAreInside, [Next]_vars PROVE ServedFilesAreInside'
  OBVIOUS
<1> DEFINE Inside(reply) == reply.status = 200 =>
                              /\ IsPrefix(Root(reply.location), reply.file)
                              /\ DotDot \notin ToSet(reply.file)
<1>1. ServedFilesAreInside <=> \A i \in DOMAIN replies : Inside(replies[i])
  BY DEF ServedFilesAreInside, Answered
<1>2. locations' = locations =>
        (ServedFilesAreInside' <=> \A i \in DOMAIN replies' : Inside(replies'[i]))
  <2>1. ASSUME locations' = locations, NEW path PROVE Root(path)' = Root(path)
    BY <2>1, Zenon DEF Root, Paths, SelectInSeq
  <2> QED
    BY <2>1 DEF ServedFilesAreInside, Answered
<1> HIDE DEF Inside
<1>3. CASE UNCHANGED <<locations, replies>>
  BY <1>1, <1>2, <1>3
<1>4. ASSUME locations' = locations, NEW reply, replies' = Append(replies, reply), Inside(reply)
      PROVE  ServedFilesAreInside'
  <2>1. replies \in Seq(Responses) /\ Len(replies) \in Nat
    BY DEF TypeOK
  <2>2. ASSUME NEW i \in DOMAIN replies' PROVE Inside(replies'[i])
    <3>1. DOMAIN replies' = 1 .. Len(replies) + 1 /\ DOMAIN replies = 1 .. Len(replies)
      BY <1>4, <2>1
    <3>2. CASE i = Len(replies) + 1
      <4>1. replies'[i] = reply
        BY <1>4, <2>1, <3>2
      <4> QED
        BY <1>4, <4>1
    <3>3. CASE i \in 1 .. Len(replies)
      <4>1. replies'[i] = replies[i]
        BY <1>4, <2>1, <3>3
      <4> QED
        BY <1>1, <3>1, <3>3, <4>1
    <3> QED
      BY <2>1, <3>1, <3>2, <3>3
  <2> QED
    BY <1>2, <1>4, <2>2
<1>5. CASE Refuse
  <2>1. Inside(ErrorResponse(NothingFound(400)))
    BY ErrorReplyType DEF Inside
  <2> QED
    BY <1>4, <1>5, <2>1 DEF Refuse
<1>6. CASE Answer
  <2> DEFINE target == Parsed.message.target
             response == BuildHTTPResponse(Parsed.message)
  <2>1. http_input \in Seq(Units) /\ LocationsOK
    BY DEF TypeOK, LocationsOK
  <2>2. /\ locations' = locations /\ Parsed.result = "request" /\ replies' = Append(replies, response)
    BY <1>6 DEF Answer, Parsed
  <2>3. target \in Seq(Chars)
    BY <2>1, <2>2, ParsedType DEF Parsed
  <2>4. response.status = 200 => /\ Found(target).status = 200
                                 /\ response.location = Found(target).location
                                 /\ response.file = Found(target).file
    BY AnsweredIsFound
  <2>5. Found(target).status = 200 =>
            /\ IsPrefix(Root(Found(target).location), Found(target).file)
            /\ Found(target).file \in Directories
    <3> HIDE DEF target
    <3> QED
      BY <2>1, <2>3, FoundType, FoundIsInside
  <2>6. Inside(response)
    <3> HIDE DEF target, response
    <3> QED
      BY <2>4, <2>5, Zenon DEF Inside, Directories
  <2> QED
    BY <1>4, <2>2, <2>6
<1> QED
  <2>1. Read \/ AwaitMore \/ Refuse \/ Answer \/ Raise \/ UNCHANGED vars
    BY DEF Next
  <2>2. Read \/ AwaitMore \/ Raise \/ UNCHANGED vars => UNCHANGED <<locations, replies>>
    BY DEF Read, AwaitMore, Raise, vars
  <2> QED
    BY <1>3, <1>5, <1>6, <2>1, <2>2

\* Whatever a client asks for, what is served lies below the root of the
\* location chosen, and its path has no ".." left.
THEOREM ServedFilesStayInside == Spec => []ServedFilesAreInside
<1>1. Init => ServedFilesAreInside
  BY DEF Init, ServedFilesAreInside, Answered
<1> QED
  BY <1>1, ServedNext, ConversationsAreTyped, PTL DEF Spec

-----------------------------------------------------------------------------
(* A conversation: the requests a client wrote, one by one.                  *)

\* Every step keeps this of a client whose headers declare its bodies.
Conversing ==
    /\ LengthsAreTrue /\ TypeOK
    /\ RepliesFollowRequests /\ StreamIsAnswered /\ ReadsForMore

\* The types of the variables.
LEMMA ConversingType ==
    ASSUME TypeOK
    PROVE  /\ LocationsOK /\ requests \in Seq(Requests) /\ replies \in Seq(Responses)
           /\ http_input \in Seq(Units) /\ unread \in Seq(Units)
           /\ Len(requests) \in Nat /\ DOMAIN requests = 1 .. Len(requests)
           /\ \A i \in 1 .. Len(requests) : requests[i] \in Requests
           /\ Len(replies) \in Nat /\ DOMAIN replies = 1 .. Len(replies)
BY DEF TypeOK, LocationsOK

\* What the reply to a request is like, whatever the request.
LEMMA ReplyFacts ==
    ASSUME LocationsOK, NEW r \in Requests
    PROVE  /\ ReplyTo(r).status = 400 <=> IsMalformed(RequestLines(r))
           /\ ReplyTo(r).status # 200 => ReplyTo(r).close
           /\ IF ReplyTo(r).status = 200 /\ Method(r.line) = "HEAD"
              THEN ReplyTo(r).body = 0 /\ ReplyTo(r).content_length = FileLen
              ELSE ReplyTo(r).body = ReplyTo(r).content_length
<1> DEFINE lines == RequestLines(r)
           request == HTTPMessage(lines)
           response == BuildHTTPResponse(request)
<1>1. ReplyTo(r) = IF IsMalformed(lines) THEN ErrorResponse(NothingFound(400)) ELSE response
  BY Zenon DEF ReplyTo
<1>2. /\ response.status # 400
      /\ response.status # 200 => response.close /\ response.body = response.content_length
      /\ response.status = 200 =>
             /\ response.content_length = FileLen
             /\ response.body = IF request.method = "HEAD" THEN 0 ELSE FileLen
  <2> HIDE DEF request
  <2> QED
    BY ResponseType
<1>3. request.method = Method(r.line)
  BY LinesOfRequest DEF HTTPMessage
<1> HIDE DEF lines, request, response
<1>4. CASE IsMalformed(lines)
  <2>1. ReplyTo(r) = ErrorResponse(NothingFound(400))
    BY <1>1, <1>4
  <2> QED
    BY <1>4, <2>1, ErrorReplyType DEF lines
<1>5. CASE ~IsMalformed(lines)
  <2>1. ReplyTo(r) = response
    BY <1>1, <1>5
  <2> QED
    BY <1>2, <1>3, <1>5, <2>1 DEF lines
<1> QED
  BY <1>4, <1>5

\* How many replies there are in front of the first 400.
TakenOf(rs) ==
    LET refusals == {i \in DOMAIN rs : rs[i].status = 400}
    IN  IF refusals = {} THEN Len(rs) ELSE Min(refusals) - 1
IsTaken(t, rs) ==
    /\ t \in 0 .. Len(rs)
    /\ \A i \in 1 .. t : rs[i].status # 400
    /\ t < Len(rs) => rs[t + 1].status = 400

LEMMA TakenIs ==
    ASSUME NEW rs, Len(rs) \in Nat, DOMAIN rs = 1 .. Len(rs)
    PROVE  IsTaken(TakenOf(rs), rs)
<1> DEFINE n == Len(rs)
           I == {i \in 1 .. n : rs[i].status = 400}
<1>1. TakenOf(rs) = IF I = {} THEN n ELSE Min(I) - 1
  BY DEF TakenOf
<1>2. n \in Nat /\ I \in SUBSET (1 .. n) /\ \A i \in 1 .. n : i \in I <=> rs[i].status = 400
  OBVIOUS
<1> HIDE DEF n, I
<1>3. CASE I = {}
  BY <1>1, <1>2, <1>3 DEF IsTaken, n
<1>4. CASE I # {}
  <2>1. \E x \in I : \A y \in I : x <= y
    BY <1>2, <1>4, LeastElement
  <2>2. Min(I) \in I /\ \A y \in I : Min(I) <= y
    BY <2>1 DEF Min
  <2> DEFINE m == Min(I)
  <2>3. TakenOf(rs) = m - 1
    BY <1>1, <1>4
  <2> HIDE DEF m
  <2>4. m \in 1 .. n /\ m \in I /\ \A y \in I : m <= y
    BY <1>2, <2>2 DEF m
  <2>5. \A i \in 1 .. m - 1 : i \in 1 .. n /\ i \notin I
    BY <1>2, <2>4
  <2>6. m - 1 \in 0 .. n /\ (m - 1) + 1 = m
    BY <1>2, <2>4
  <2> QED
    BY <1>2, <2>3, <2>4, <2>5, <2>6 DEF IsTaken, n
<1> QED
  BY <1>3, <1>4

LEMMA OnlyOneTaken ==
    ASSUME NEW rs, Len(rs) \in Nat, NEW s, NEW t, IsTaken(s, rs), IsTaken(t, rs)
    PROVE  s = t
<1> DEFINE n == Len(rs)
<1>1. n \in Nat /\ s \in 0 .. n /\ t \in 0 .. n
  BY DEF IsTaken
<1>2. ~(s < t) /\ ~(t < s)
  <2>1. s < t => s + 1 \in 1 .. t /\ s < n
    BY <1>1
  <2>2. t < s => t + 1 \in 1 .. s /\ t < n
    BY <1>1
  <2>3. ASSUME s < t PROVE FALSE
    <3>1. rs[s + 1].status # 400
      BY <2>1, <2>3, Zenon DEF IsTaken
    <3>2. rs[s + 1].status = 400
      BY <2>1, <2>3 DEF IsTaken, n
    <3> QED
      BY <3>1, <3>2
  <2>4. ASSUME t < s PROVE FALSE
    <3>1. \A i \in 1 .. s : rs[i].status # 400
      BY Zenon DEF IsTaken
    <3>2. t + 1 \in 1 .. s
      BY <2>2, <2>4
    <3>3. rs[t + 1].status # 400
      <4> DEFINE k == t + 1
      <4>1. k \in 1 .. s
        BY <3>2
      <4> HIDE DEF k
      <4>2. rs[k].status # 400
        BY <4>1, <3>1
      <4> QED
        BY <4>2 DEF k
    <3>4. rs[t + 1].status = 400
      BY <2>2, <2>4 DEF IsTaken, n
    <3> QED
      BY <3>3, <3>4
  <2> QED
    BY <2>3, <2>4
<1> QED
  BY <1>1, <1>2

\* The requests taken are requests.
LEMMA TakenFacts ==
    ASSUME TypeOK
    PROVE  IsTaken(Taken, replies) /\ Taken \in Nat
<1>1. Taken = TakenOf(replies)
  BY Zenon DEF Taken, TakenOf, Refusals
<1>2. IsTaken(Taken, replies)
  BY <1>1, TakenIs, ConversingType
<1> QED
  BY <1>2, ConversingType DEF IsTaken
LEMMA TakenAreRequests ==
    ASSUME TypeOK, RepliesFollowRequests
    PROVE  Taken <= Len(requests)
<1>1. /\ Taken \in 0 .. Len(replies) /\ Taken \in Nat /\ Len(replies) \in Nat /\ Len(requests) \in Nat
      /\ DOMAIN replies = 1 .. Len(replies) /\ DOMAIN requests = 1 .. Len(requests)
  BY TakenFacts, ConversingType DEF IsTaken
<1>2. CASE Taken = 0
  BY <1>1, <1>2
<1>3. CASE Taken # 0
  <2>1. Taken \in DOMAIN replies /\ Taken <= Taken
    BY <1>1, <1>3
  <2>2. RequestOf(Taken) = Taken
    BY <2>1, Zenon DEF RequestOf
  <2>3. Taken \in DOMAIN requests
    BY <2>1, <2>2, Zenon DEF RepliesFollowRequests
  <2> QED
    BY <1>1, <2>3
<1> QED
  BY <1>2, <1>3

\* A reply behind the first refusal is the refused request's, and closes, as the
\* first one did.
LEMMA RefusedAgain ==
    ASSUME TypeOK, RepliesFollowRequests, NEW i \in DOMAIN replies, ~(i <= Taken)
    PROVE  /\ Taken + 1 \in DOMAIN requests
           /\ replies[i] = ReplyTo(requests[Taken + 1])
           /\ replies[i].status = 400 /\ replies[i].close
<1>1. IsTaken(Taken, replies) /\ Taken \in Nat
  BY TakenFacts
<1>2. /\ Len(replies) \in Nat /\ DOMAIN replies = 1 .. Len(replies)
      /\ LocationsOK /\ DOMAIN requests = 1 .. Len(requests)
      /\ \A j \in 1 .. Len(requests) : requests[j] \in Requests
  BY ConversingType
<1> DEFINE t == Taken
<1>3. RequestOf(i) = t + 1
  BY DEF RequestOf
<1>4. t < Len(replies) /\ t + 1 \in DOMAIN replies /\ ~(t + 1 <= t)
  <2> HIDE DEF t
  <2> QED
    BY <1>1, <1>2 DEF t
<1>5. RequestOf(t + 1) = t + 1
  BY <1>4, Zenon DEF RequestOf
<1>6. replies[t + 1].status = 400
  BY <1>1, <1>4 DEF IsTaken
<1>7. /\ replies[i] = ReplyTo(requests[t + 1]) /\ replies[t + 1] = ReplyTo(requests[t + 1])
      /\ t + 1 \in DOMAIN requests
  BY <1>3, <1>4, <1>5, Zenon DEF RepliesFollowRequests
<1> DEFINE r == requests[t + 1]
<1>8. r \in Requests
  BY <1>2, <1>7, Zenon
<1> HIDE DEF r
<1>9. ReplyTo(r).status # 200 => ReplyTo(r).close
  BY <1>2, <1>8, ReplyFacts
<1>10. replies[i] = ReplyTo(r) /\ ReplyTo(r).status = 400
  BY <1>6, <1>7, Zenon DEF r
<1>11. ReplyTo(r).close
  BY <1>9, <1>10
<1> QED
  BY <1>7, <1>10, <1>11, Zenon DEF t

\* Where the last reply does not close, every reply has taken its request.
LEMMA NothingRefused ==
    ASSUME TypeOK, RepliesFollowRequests, ~Stopped
    PROVE  Taken = Len(replies)
<1>1. /\ Taken \in 0 .. Len(replies) /\ Taken \in Nat /\ Len(replies) \in Nat
      /\ DOMAIN replies = 1 .. Len(replies)
  BY TakenFacts, ConversingType DEF IsTaken
<1>2. ASSUME Taken # Len(replies) PROVE FALSE
  <2> DEFINE n == Len(replies)
             t == Taken
  <2>1. n \in 1 .. n /\ ~(n <= t)
    <3>1. t \in 0 .. n /\ n \in Nat /\ t # n
      BY <1>1, <1>2
    <3> HIDE DEF n, t
    <3> QED
      BY <3>1
  <2> HIDE DEF n, t
  <2>2. replies[n].close
    <3>1. n \in DOMAIN replies /\ n \in 1 .. Len(replies)
      BY <1>1, <2>1, Zenon DEF n
    <3>2. ~(n <= Taken)
      BY <2>1, Zenon DEF t
    <3> QED
      BY <3>1, <3>2, RefusedAgain, Zenon
  <2>3. replies # <<>> /\ Last(replies) = replies[n]
    BY <1>1, <2>1 DEF Last, n
  <2> QED
    BY <2>2, <2>3, Zenon DEF Stopped
<1> QED
  BY <1>2

\* The next request, as far as it has been read.
LEMMA NextArrives ==
    ASSUME TypeOK, RepliesFollowRequests, StreamIsAnswered, pc # "over"
    PROVE  /\ Taken = Len(requests) => http_input = <<>> /\ unread = <<>>
           /\ Taken < Len(requests) =>
                  \E rest \in Seq(Units) :
                      Arrives(http_input, unread, requests[Taken + 1], rest)
<1> DEFINE k == Taken
           a == RenderedAll(SubSeq(requests, 1, k))
           d == http_input \o unread
<1>1. /\ requests \in Seq(Requests) /\ http_input \in Seq(Units) /\ unread \in Seq(Units)
      /\ Len(requests) \in Nat /\ k \in Nat /\ k <= Len(requests)
  BY ConversingType, TakenFacts, TakenAreRequests
<1>2. RenderedAll(requests) = a \o d
  BY Zenon DEF StreamIsAnswered, Stream, Handled
<1>3. d \in Seq(Units)
  BY <1>1
<1>4. ASSUME k = Len(requests) PROVE http_input = <<>> /\ unread = <<>>
  <2>1. SubSeq(requests, 1, k) = requests
    BY <1>1, <1>4, SubSeqFull
  <2> DEFINE s == RenderedAll(requests)
  <2>2. s \in Seq(Units) /\ s = s \o d
    <3>1. s \in Seq(Units)
      BY <1>1, RenderedAllType
    <3> QED
      BY <1>2, <2>1, <3>1, Zenon
  <2> HIDE DEF s, d
  <2>3. d = <<>>
    BY <1>3, <2>2, ConcatSimplifications
  <2> QED
    BY <1>1, <2>3, ConcatSimplifications DEF d
<1>5. ASSUME k < Len(requests)
      PROVE  \E rest \in Seq(Units) : Arrives(http_input, unread, requests[k + 1], rest)
  <2>1. k \in 0 .. Len(requests) - 1
    BY <1>1, <1>5
  <2> HIDE DEF k
  <2>2. PICK rest \in Seq(Units) :
            RenderedAll(requests) = a \o (Rendered(requests[k + 1]) \o rest)
    BY <1>1, <2>1, StreamAhead
  <2> DEFINE x == Rendered(requests[k + 1])
             e == x \o rest
  <2>3. SubSeq(requests, 1, k) \in Seq(Requests) /\ requests[k + 1] \in Requests
    BY <1>1, <2>1, OneMoreRequest
  <2>4. a \in Seq(Units) /\ x \in Seq(Units)
    BY <2>3, RenderedAllType, RenderedType
  <2>5. a \o d = a \o e
    BY <1>2, <2>2, Zenon
  <2> HIDE DEF a, x, d
  <2>6. e \in Seq(Units)
    BY <2>4
  <2> HIDE DEF e
  <2>7. d = e
    BY <1>3, <2>4, <2>5, <2>6, ConcatSimplifications
  <2>8. Arrives(http_input, unread, requests[k + 1], rest)
    BY <1>1, <2>3, <2>7, Zenon DEF Arrives, d, e, x
  <2> QED
    BY <2>8
<1> QED
  BY <1>4, <1>5

-----------------------------------------------------------------------------
(* Every step of a conversation.                                             *)

\* What is answered depends on the locations, and they stay.
LEMMA ReplyToStays ==
    ASSUME locations' = locations, NEW r
    PROVE  ReplyTo(r)' = ReplyTo(r)
<1>1. ASSUME NEW u PROVE MatchLocation(u)' = MatchLocation(u)
  BY Zenon DEF MatchLocation
<1>2. ASSUME NEW p PROVE Root(p)' = Root(p)
  BY Zenon DEF Root, Paths, SelectInSeq
<1>3. ASSUME NEW u PROVE Found(u)' = Found(u)
  <2>1. MatchLocation(Uri(u))' = MatchLocation(Uri(u))
    BY <1>1
  <2>2. Root(MatchLocation(Uri(u)))' = Root(MatchLocation(Uri(u)))
    BY <2>1, Zenon DEF Root, Paths, SelectInSeq
  <2> QED
    BY <2>1, <2>2, Zenon DEF Found
<1>4. ASSUME NEW m PROVE BuildHTTPResponse(m)' = BuildHTTPResponse(m)
  BY <1>3, Zenon DEF BuildHTTPResponse
<1> QED
  BY <1>4, Zenon DEF ReplyTo

LEMMA FollowedStays ==
    ASSUME locations' = locations, requests' = requests, NEW i
    PROVE  ReplyTo(requests[RequestOf(i)])' = ReplyTo(requests[RequestOf(i)'])
BY ReplyToStays, Zenon

\* No bytes are no request.
LEMMA NothingParsed == ParseMessage(<<>>).result = "none"
<1>1. <<>> \in Seq(Units) /\ Len(<<>>) = 0
  OBVIOUS
<1>2. HeaderEnd(<<>>) \in 0 .. Len(<<>>)
  BY <1>1, HeaderEndRange
<1>3. HeaderEnd(<<>>) = 0
  BY <1>1, <1>2
<1>4. ParseMessage(<<>>) = NoRequest("none")
  BY <1>3 DEF ParseMessage
<1> QED
  BY <1>4 DEF NoRequest

\* A conversation begins like that,
LEMMA ConversingInit == Init /\ LengthsAreTrue => Conversing
<1> SUFFICES ASSUME Init, LengthsAreTrue PROVE Conversing
  OBVIOUS
<1>1. TypeOK
  BY TypesInit
<1>2. requests \in Seq(Requests) /\ Stream \in Seq(Units)
  BY <1>1, ConversingType, RenderedAllType DEF Stream
<1>3. /\ replies = <<>> /\ http_input = <<>> /\ unread = Stream /\ pc = "read"
  BY DEF Init
<1>4. RepliesFollowRequests
  BY <1>2, <1>3 DEF RepliesFollowRequests
<1>5. StreamIsAnswered
  <2>1. Handled = 0
    BY <1>3 DEF Handled, Taken, Refusals
  <2>2. SubSeq(requests, 1, 0) = <<>>
    BY SubSeqEmpty
  <2> DEFINE s == Stream
  <2>3. s \in Seq(Units)
    BY <1>2
  <2> HIDE DEF s
  <2>4. s = <<>> \o (<<>> \o s)
    BY <2>3, ConcatEmptySeq
  <2> QED
    BY <1>3, <2>1, <2>2, <2>4, RenderedAllOfEmpty, Zenon DEF StreamIsAnswered, s
<1>6. ReadsForMore
  BY <1>3, NothingParsed DEF ReadsForMore
<1> QED
  BY <1>1, <1>4, <1>5, <1>6 DEF Conversing

\* One more reply, to the request behind those taken: it takes that one, or refuses
\* it, once more perhaps.
LEMMA OneMoreReply ==
    ASSUME TypeOK, RepliesFollowRequests, Taken < Len(requests),
           requests' = requests, locations' = locations,
           NEW reply, reply = ReplyTo(requests[Taken + 1]), replies' = Append(replies, reply)
    PROVE  /\ RepliesFollowRequests'
           /\ Taken' = IF reply.status = 400 THEN Taken ELSE Taken + 1
           /\ replies' # <<>> /\ Last(replies)' = reply
<1> DEFINE n == Len(replies)
           t == Taken
           next == IF reply.status = 400 THEN t ELSE t + 1
<1>1. /\ replies \in Seq(Responses) /\ n \in Nat /\ DOMAIN replies = 1 .. n
      /\ Len(requests) \in Nat /\ DOMAIN requests = 1 .. Len(requests)
      /\ IsTaken(t, replies) /\ t \in 0 .. n /\ t \in Nat
  BY ConversingType, TakenFacts DEF IsTaken
<1>2. /\ Len(replies') = n + 1 /\ DOMAIN replies' = 1 .. n + 1 /\ replies'[n + 1] = reply
      /\ \A i \in 1 .. n : replies'[i] = replies[i]
  BY <1>1
<1>3. t < n => reply.status = 400
  <2>1. ASSUME t < n PROVE reply.status = 400
    <3>1. t + 1 \in DOMAIN replies /\ ~(t + 1 <= t)
      <4> HIDE DEF t, n
      <4> QED
        BY <1>1, <2>1
    <3>2. replies[t + 1] = ReplyTo(requests[t + 1]) /\ replies[t + 1].status = 400
      BY <3>1, RefusedAgain
    <3> QED
      BY <3>2
  <2> QED
    BY <2>1
<1>4. /\ \A i \in 1 .. t : replies[i].status # 400
      /\ t < n => replies[t + 1].status = 400
  BY <1>1 DEF IsTaken
<1>5. t < Len(requests)
  OBVIOUS
<1>6. \A i \in DOMAIN replies :
          RequestOf(i) \in DOMAIN requests /\ replies[i] = ReplyTo(requests[RequestOf(i)])
  BY DEF RepliesFollowRequests
<1>7. \A i : RequestOf(i) = IF i <= t THEN i ELSE t + 1
  BY DEF RequestOf
<1>8. Taken' = TakenOf(replies')
  BY Zenon DEF Taken, TakenOf, Refusals
<1>9. \A i : RequestOf(i)' = IF i <= Taken' THEN i ELSE Taken' + 1
  BY DEF RequestOf
<1> HIDE DEF t, n
<1>10. IsTaken(next, replies')
  <2>1. CASE reply.status = 400
    <3>1. next = t
      BY <2>1
    <3>2. t \in 0 .. n + 1 /\ \A i \in 1 .. t : i \in 1 .. n
      BY <1>1
    <3>3. replies'[t + 1].status = 400
      <4>1. t < n \/ t + 1 = n + 1
        BY <1>1
      <4>2. t < n => t + 1 \in 1 .. n
        BY <1>1
      <4>3. CASE t < n
        <5>1. replies'[t + 1] = replies[t + 1] /\ replies[t + 1].status = 400
          BY <1>2, <1>4, <4>2, <4>3, Zenon
        <5> QED
          BY <5>1
      <4>4. CASE t + 1 = n + 1
        <5>1. replies'[t + 1] = reply
          BY <1>2, <4>4, Zenon
        <5> QED
          BY <2>1, <5>1
      <4> QED
        BY <4>1, <4>3, <4>4
    <3> QED
      BY <1>2, <1>4, <3>1, <3>2, <3>3 DEF IsTaken
  <2>2. CASE reply.status # 400
    <3>1. next = n + 1 /\ t = n
      BY <1>1, <1>3, <2>2
    <3>2. n + 1 \in 0 .. n + 1 /\ ~(n + 1 < n + 1)
      BY <1>1
    <3>3. ASSUME NEW i \in 1 .. n + 1 PROVE replies'[i].status # 400
      <4>1. i = n + 1 \/ i \in 1 .. n
        BY <1>1
      <4> QED
        BY <1>2, <1>4, <2>2, <3>1, <4>1
    <3> QED
      BY <1>2, <3>1, <3>2, <3>3 DEF IsTaken
  <2> QED
    BY <2>1, <2>2
<1>11. Taken' = next
  <2>1. Len(replies') \in Nat /\ DOMAIN replies' = 1 .. Len(replies')
    BY <1>1, <1>2
  <2>2. IsTaken(TakenOf(replies'), replies')
    BY <2>1, TakenIs
  <2> HIDE DEF next
  <2> QED
    BY <1>8, <1>10, <2>1, <2>2, OnlyOneTaken
<1>12. ASSUME NEW i \in 1 .. n PROVE RequestOf(i)' = RequestOf(i)
  <2>1. i <= t => i <= next
    BY <1>1
  <2>2. ~(i <= t) => next = t
    BY <1>1, <1>3
  <2> HIDE DEF next
  <2> QED
    BY <1>7, <1>9, <1>11, <2>1, <2>2
<1>13. ASSUME NEW i, i = n + 1 PROVE RequestOf(i)' = t + 1
  <2>1. reply.status = 400 => next = t /\ ~(n + 1 <= t)
    BY <1>1
  <2>2. reply.status # 400 => next = t + 1 /\ n + 1 = t + 1 /\ n + 1 <= next
    BY <1>1, <1>3
  <2> HIDE DEF next
  <2>3. RequestOf(i)' = IF n + 1 <= next THEN n + 1 ELSE next + 1
    BY <1>9, <1>11, <1>13, Zenon
  <2> QED
    BY <2>1, <2>2, <2>3
<1>14. RepliesFollowRequests'
  <2>1. ASSUME NEW i \in DOMAIN replies'
        PROVE  RequestOf(i)' \in DOMAIN requests /\ replies'[i] = ReplyTo(requests[RequestOf(i)'])
    <3>1. CASE i = n + 1
      <4>1. t + 1 \in DOMAIN requests
        BY <1>1, <1>5
      <4> QED
        BY <1>2, <1>13, <3>1, <4>1, Zenon DEF t
    <3>2. CASE i # n + 1
      <4>1. i \in 1 .. n
        BY <1>1, <1>2, <3>2
      <4> QED
        BY <1>1, <1>2, <1>6, <1>12, <4>1, Zenon
    <3> QED
      BY <3>1, <3>2
  <2>2. ASSUME NEW r PROVE ReplyTo(r)' = ReplyTo(r)
    BY ReplyToStays
  <2>3. ASSUME NEW i \in DOMAIN replies'
        PROVE  RequestOf(i)' \in DOMAIN requests' /\ replies'[i] = ReplyTo(requests[RequestOf(i)])'
    <3>1. ReplyTo(requests[RequestOf(i)])' = ReplyTo(requests[RequestOf(i)'])
      BY FollowedStays
    <3> QED
      BY <2>1, <3>1, Zenon
  <2> QED
    BY <2>3, Zenon DEF RepliesFollowRequests
<1>15. n + 1 \in DOMAIN replies' /\ replies' # <<>>
  BY <1>1, <1>2
<1> QED
  BY <1>2, <1>11, <1>14, <1>15, Zenon DEF next, t, Last

\* Where there is no new reply, the replies are what they were.
LEMMA RepliesStay ==
    ASSUME RepliesFollowRequests, requests' = requests, locations' = locations, replies' = replies
    PROVE  RepliesFollowRequests' /\ Taken' = Taken /\ (Stopped' <=> Stopped) /\ Stream' = Stream
<1>1. Taken' = Taken
  BY DEF Taken, Refusals
<1>2. ASSUME NEW i PROVE RequestOf(i)' = RequestOf(i)
  BY <1>1 DEF RequestOf
<1>3. ASSUME NEW i PROVE ReplyTo(requests[RequestOf(i)])' = ReplyTo(requests[RequestOf(i)])
  <2>1. ReplyTo(requests[RequestOf(i)])' = ReplyTo(requests[RequestOf(i)'])
    BY FollowedStays
  <2> QED
    BY <1>2, <2>1, Zenon
<1>4. RepliesFollowRequests'
  BY <1>2, <1>3, Zenon DEF RepliesFollowRequests
<1>5. (Stopped' <=> Stopped) /\ Stream' = Stream
  BY Zenon DEF Stopped, Last, Stream
<1> QED
  BY <1>1, <1>4, <1>5

\* What is parsed is the request behind those taken.
LEMMA NextParsed ==
    ASSUME Conversing, pc # "over", Parsed.result \in {"invalid", "request"}
    PROVE  /\ Taken < Len(requests)
           /\ \E rest \in Seq(Units) :
                  Arrives(http_input, unread, requests[Taken + 1], rest)
           /\ LET r == requests[Taken + 1]
              IN  /\ Parsed.result = "invalid" => IsMalformed(RequestLines(r))
                  /\ Parsed.result = "request" =>
                         /\ ~IsMalformed(RequestLines(r))
                         /\ Parsed.consumed = Len(Rendered(r)) /\ Parsed.consumed <= Len(http_input)
                         /\ Parsed.message = HTTPMessage(RequestLines(r))
<1> DEFINE k == Taken
           r == requests[k + 1]
<1>1. /\ LengthsAreTrue /\ TypeOK /\ RepliesFollowRequests /\ StreamIsAnswered
      /\ k \in Nat /\ Len(requests) \in Nat /\ k <= Len(requests)
  BY ConversingType, TakenFacts, TakenAreRequests DEF Conversing
<1>2. k # Len(requests)
  <2>1. ASSUME k = Len(requests) PROVE FALSE
    <3>1. http_input = <<>>
      BY <1>1, <2>1, NextArrives
    <3>2. Parsed.result = "none"
      BY <3>1, NothingParsed DEF Parsed
    <3> QED
      BY <3>2
  <2> QED
    BY <2>1
<1>3. k < Len(requests) /\ k + 1 \in DOMAIN requests
  <2>1. DOMAIN requests = 1 .. Len(requests)
    BY <1>1, ConversingType
  <2>2. k < Len(requests) /\ k + 1 \in 1 .. Len(requests)
    <3> HIDE DEF k
    <3> QED
      BY <1>1, <1>2
  <2> QED
    BY <2>1, <2>2, Zenon
<1>4. PICK rest \in Seq(Units) : Arrives(http_input, unread, r, rest)
  BY <1>1, <1>3, NextArrives
<1>5. ~IsMalformed(RequestLines(r)) => BodyLength(Tail(RequestLines(r))) = Len(r.body)
  BY <1>1, <1>3, Zenon DEF LengthsAreTrue
<1> HIDE DEF r
<1>6. /\ Parsed.result = "invalid" => IsMalformed(RequestLines(r))
      /\ Parsed.result = "request" =>
             /\ ~IsMalformed(RequestLines(r))
             /\ Parsed.consumed = Len(Rendered(r)) /\ Parsed.consumed <= Len(http_input)
             /\ Parsed.message = HTTPMessage(RequestLines(r))
  BY <1>4, <1>5, RequestArrives DEF Parsed
<1> QED
  BY <1>3, <1>4, <1>6, Zenon DEF r, k

\* Once it is reduced, the buffer begins with what the client wrote behind it.
LEMMA RequestLeaves ==
    ASSUME Conversing, pc = "http", Parsed.result = "request",
           http_input' = ReduceData(http_input, Parsed.consumed),
           requests' = requests, unread' = unread
    PROVE  Stream' = RenderedAll(SubSeq(requests', 1, Taken + 1)) \o (http_input' \o unread')
<1> DEFINE k == Taken
           r == requests[k + 1]
           c == Parsed.consumed
           a == RenderedAll(SubSeq(requests, 1, k))
           x == Rendered(r)
           d == http_input
           left == SubSeq(d, c + 1, Len(d))
           u == unread
<1>1. TypeOK /\ RepliesFollowRequests /\ StreamIsAnswered /\ pc # "over"
  BY DEF Conversing
<1>2. k < Len(requests) /\ c = Len(x) /\ c <= Len(d)
  BY <1>1, NextParsed
<1>3. /\ requests \in Seq(Requests) /\ d \in Seq(Units) /\ u \in Seq(Units)
      /\ Len(requests) \in Nat /\ k \in Nat /\ k \in 0 .. Len(requests) - 1
  <2>1. /\ requests \in Seq(Requests) /\ d \in Seq(Units) /\ u \in Seq(Units)
        /\ Len(requests) \in Nat /\ k \in Nat
    BY <1>1, ConversingType, TakenFacts
  <2> HIDE DEF k
  <2> QED
    BY <1>2, <2>1
<1>4. /\ SubSeq(requests, 1, k) \in Seq(Requests) /\ r \in Requests
      /\ SubSeq(requests, 1, k + 1) = Append(SubSeq(requests, 1, k), r)
  BY <1>3, OneMoreRequest
<1>5. a \in Seq(Units) /\ x \in Seq(Units) /\ RenderedAll(SubSeq(requests, 1, k + 1)) = a \o x
  BY <1>4, RenderedAllOfAppend, RenderedType
<1>6. Stream = a \o (d \o u)
  BY <1>1, Zenon DEF StreamIsAnswered, Handled
<1>7. PICK rest \in Seq(Units) : d \o u = x \o rest
  <2>1. \E rest \in Seq(Units) : Arrives(d, u, r, rest)
    BY <1>1, NextParsed
  <2> QED
    BY <2>1, Zenon DEF Arrives
<1>8. c \in Nat /\ c <= Len(d) /\ c = Len(x)
  <2>1. Len(x) \in Nat
    BY <1>5
  <2> QED
    BY <1>2, <2>1
<1>9. http_input' = left
  <2>1. c >= 0
    BY <1>8
  <2> QED
    BY <2>1, Zenon DEF ReduceData
<1> HIDE DEF a, x, d, u, c
<1>10. left \o u = rest
  <2>1. Len(x) <= Len(d)
    BY <1>8
  <2>2. SubSeq(d, Len(x) + 1, Len(d)) \o u = rest
    BY <1>3, <1>5, <1>7, <2>1, Remainder
  <2> QED
    BY <1>8, <2>2, Zenon
<1> HIDE DEF left
<1>11. a \o (x \o rest) = (a \o x) \o rest
  BY <1>5
<1>12. Stream = (a \o x) \o (left \o u)
  BY <1>6, <1>7, <1>10, <1>11, Zenon
<1>13. Stream' = Stream /\ unread' = u
  BY DEF Stream, u
<1>14. RenderedAll(SubSeq(requests, 1, k + 1)) \o (left \o u) = Stream
  BY <1>5, <1>12, Zenon
<1> QED
  BY <1>9, <1>13, <1>14, Zenon DEF k

\* The requests a client writes stay the same.
LEMMA ConversingStays ==
    ASSUME requests' = requests, LengthsAreTrue
    PROVE  LengthsAreTrue'
BY DEF LengthsAreTrue

\* A read moves bytes from one stream to the other.
LEMMA ConversingRead == Conversing /\ Read => Conversing'
<1> SUFFICES ASSUME Conversing, Read PROVE Conversing'
  OBVIOUS
<1>1. TypeOK /\ TypeOK'
  BY TypesNext DEF Conversing, Next
<1>2. PICK n \in DOMAIN unread : /\ http_input' = http_input \o SubSeq(unread, 1, n)
                                 /\ unread' = SubSeq(unread, n + 1, Len(unread))
  BY DEF Read
<1>3. /\ requests' = requests /\ replies' = replies /\ locations' = locations
      /\ pc = "read" /\ pc' = "http"
  BY DEF Read
<1>4. LengthsAreTrue'
  BY <1>3, ConversingStays DEF Conversing
<1>5. RepliesFollowRequests' /\ Taken' = Taken /\ Stream' = Stream
  BY <1>3, RepliesStay DEF Conversing
<1>6. http_input' \o unread' = http_input \o unread
  <2> DEFINE a == SubSeq(unread, 1, n)
             b == SubSeq(unread, n + 1, Len(unread))
             h == http_input
             u == unread
  <2>1. h \in Seq(Units) /\ a \in Seq(Units) /\ b \in Seq(Units) /\ u = a \o b
    <3>1. n \in 0 .. Len(unread) /\ unread \in Seq(Units) /\ http_input \in Seq(Units)
      BY <1>1, ConversingType
    <3> QED
      BY <3>1, SplitStream
  <2> HIDE DEF a, b, h, u
  <2>2. (h \o a) \o b = h \o (a \o b)
    BY <2>1
  <2> QED
    BY <1>2, <2>1, <2>2, Zenon DEF a, b, h, u
<1>7. StreamIsAnswered'
  <2>1. Handled = Taken /\ Handled' = Taken
    BY <1>3, <1>5 DEF Handled
  <2>2. Stream = RenderedAll(SubSeq(requests, 1, Handled)) \o (http_input \o unread)
    BY DEF Conversing, StreamIsAnswered
  <2> QED
    BY <1>3, <1>5, <1>6, <2>1, <2>2, Zenon DEF StreamIsAnswered
<1>8. ReadsForMore'
  BY <1>3 DEF ReadsForMore
<1> QED
  BY <1>1, <1>4, <1>5, <1>7, <1>8 DEF Conversing

\* Waiting for more changes nothing but the reason to read.
LEMMA ConversingAwaits == Conversing /\ AwaitMore => Conversing'
<1> SUFFICES ASSUME Conversing, AwaitMore PROVE Conversing'
  OBVIOUS
<1>1. TypeOK'
  BY TypesNext DEF Conversing, Next
<1>2. /\ requests' = requests /\ replies' = replies /\ locations' = locations /\ pc' = "read"
      /\ http_input' = http_input /\ unread' = unread /\ pc = "http"
      /\ ParseMessage(http_input).result \in {"none", "incomplete"}
  BY DEF AwaitMore
<1>3. LengthsAreTrue'
  BY <1>2, ConversingStays DEF Conversing
<1>4. RepliesFollowRequests' /\ Taken' = Taken /\ Stream' = Stream
  BY <1>2, RepliesStay DEF Conversing
<1>5. StreamIsAnswered'
  <2>1. Handled' = Handled
    BY <1>2, <1>4 DEF Handled
  <2> QED
    BY <1>2, <1>4, <2>1, Zenon DEF Conversing, StreamIsAnswered
<1>6. ReadsForMore'
  BY <1>2, Zenon DEF ReadsForMore
<1> QED
  BY <1>1, <1>3, <1>4, <1>5, <1>6 DEF Conversing

\* A refused request is the one behind those taken, and stays in the buffer.
LEMMA ConversingRefuses == Conversing /\ Refuse => Conversing'
<1> SUFFICES ASSUME Conversing, Refuse PROVE Conversing'
  OBVIOUS
<1> DEFINE r == requests[Taken + 1]
           reply == ErrorResponse(NothingFound(400))
<1>1. TypeOK'
  BY TypesNext DEF Conversing, Next
<1>2. /\ requests' = requests /\ locations' = locations /\ pc' = "read"
      /\ http_input' = http_input /\ unread' = unread /\ pc = "http"
      /\ Parsed.result = "invalid" /\ replies' = Append(replies, reply)
  BY DEF Refuse, Parsed
<1>3. LengthsAreTrue'
  BY <1>2, ConversingStays DEF Conversing
<1>4. TypeOK /\ RepliesFollowRequests /\ StreamIsAnswered /\ pc # "over" /\ pc' # "over"
  BY <1>2 DEF Conversing
<1>5. Taken < Len(requests) /\ IsMalformed(RequestLines(r))
  BY <1>2, <1>4, NextParsed
<1>6. ReplyTo(r) = reply
  BY <1>5, Zenon DEF ReplyTo
<1>7. reply.status = 400 /\ reply.close
  BY ErrorReplyType
<1>8. RepliesFollowRequests' /\ Taken' = Taken /\ Stopped'
  <2> HIDE DEF reply
  <2>1. /\ RepliesFollowRequests' /\ replies' # <<>> /\ Last(replies)' = reply
        /\ Taken' = IF reply.status = 400 THEN Taken ELSE Taken + 1
    BY <1>2, <1>4, <1>5, <1>6, OneMoreReply
  <2> QED
    BY <1>7, <2>1, Zenon DEF Stopped
<1>9. StreamIsAnswered'
  <2>1. Handled = Taken /\ Handled' = Taken /\ Stream' = Stream
    BY <1>2, <1>4, <1>8 DEF Handled, Stream
  <2> QED
    BY <1>2, <1>4, <2>1, Zenon DEF StreamIsAnswered
<1>10. ReadsForMore'
  BY <1>8, Zenon DEF ReadsForMore
<1> QED
  BY <1>1, <1>3, <1>8, <1>9, <1>10 DEF Conversing

\* An answered request is the one behind those taken, and leaves the buffer.
LEMMA ConversingAnswers == Conversing /\ Answer => Conversing'
<1> SUFFICES ASSUME Conversing, Answer PROVE Conversing'
  OBVIOUS
<1> DEFINE r == requests[Taken + 1]
           reply == ReplyTo(r)
<1>1. TypeOK'
  BY TypesNext DEF Conversing, Next
<1>2. /\ requests' = requests /\ locations' = locations /\ unread' = unread /\ pc = "http"
      /\ Parsed.result = "request" /\ http_input' = ReduceData(http_input, Parsed.consumed)
      /\ replies' = Append(replies, BuildHTTPResponse(Parsed.message))
      /\ pc' = IF BuildHTTPResponse(Parsed.message).close THEN "read" ELSE "http"
  BY DEF Answer, Parsed
<1>3. LengthsAreTrue'
  BY <1>2, ConversingStays DEF Conversing
<1>4. TypeOK /\ RepliesFollowRequests /\ pc # "over" /\ pc' # "over"
  BY <1>2 DEF Conversing
<1>5. /\ Taken < Len(requests) /\ ~IsMalformed(RequestLines(r))
      /\ Parsed.message = HTTPMessage(RequestLines(r))
  BY <1>2, <1>4, NextParsed
<1>6. reply = BuildHTTPResponse(Parsed.message)
  BY <1>5, Zenon DEF ReplyTo
<1>7. replies' = Append(replies, reply) /\ pc' = IF reply.close THEN "read" ELSE "http"
  BY <1>2, <1>6, Zenon
<1>8. reply.status # 400
  <2>1. r \in Requests /\ LocationsOK
    <3>1. Taken + 1 \in 1 .. Len(requests)
      BY <1>4, <1>5, ConversingType, TakenFacts
    <3> QED
      BY <1>4, <3>1, ConversingType, Zenon
  <2> HIDE DEF r
  <2> QED
    BY <1>5, <2>1, ReplyFacts DEF r
<1>9. /\ RepliesFollowRequests' /\ Taken' = Taken + 1
      /\ replies' # <<>> /\ Last(replies)' = reply
  <2> HIDE DEF reply
  <2>1. /\ RepliesFollowRequests' /\ replies' # <<>> /\ Last(replies)' = reply
        /\ Taken' = IF reply.status = 400 THEN Taken ELSE Taken + 1
    BY <1>2, <1>4, <1>5, <1>7, OneMoreReply DEF reply
  <2> QED
    BY <1>8, <2>1, Zenon
<1>10. StreamIsAnswered'
  <2>1. Stream' = RenderedAll(SubSeq(requests', 1, Taken + 1)) \o (http_input' \o unread')
    BY <1>2, RequestLeaves
  <2>2. Handled' = Taken + 1
    BY <1>4, <1>9, Zenon DEF Handled
  <2> QED
    BY <2>1, <2>2, Zenon DEF StreamIsAnswered
<1>11. ReadsForMore'
  <2>1. pc' = "read" => reply.close
    <3> HIDE DEF reply
    <3> QED
      BY <1>7
  <2> QED
    BY <1>9, <2>1, Zenon DEF ReadsForMore, Stopped
<1> QED
  BY <1>1, <1>3, <1>9, <1>10, <1>11 DEF Conversing

\* A request that raises leaves the buffer too, without a reply.
LEMMA ConversingRaises == Conversing /\ Raise => Conversing'
<1> SUFFICES ASSUME Conversing, Raise PROVE Conversing'
  OBVIOUS
<1>1. TypeOK'
  BY TypesNext DEF Conversing, Next
<1>2. /\ requests' = requests /\ replies' = replies /\ locations' = locations /\ pc' = "over"
      /\ http_input' = ReduceData(http_input, Parsed.consumed) /\ unread' = unread /\ pc = "http"
      /\ Parsed.result = "request"
  BY DEF Raise, Parsed
<1>3. LengthsAreTrue'
  BY <1>2, ConversingStays DEF Conversing
<1>4. RepliesFollowRequests' /\ Taken' = Taken
  BY <1>2, RepliesStay DEF Conversing
<1>5. StreamIsAnswered'
  <2>1. Stream' = RenderedAll(SubSeq(requests', 1, Taken + 1)) \o (http_input' \o unread')
    BY <1>2, RequestLeaves
  <2>2. Handled' = Taken + 1
    BY <1>2, <1>4, Zenon DEF Handled
  <2> QED
    BY <2>1, <2>2, Zenon DEF StreamIsAnswered
<1>6. ReadsForMore'
  BY <1>2 DEF ReadsForMore
<1> QED
  BY <1>1, <1>3, <1>4, <1>5, <1>6 DEF Conversing

\* Steps of nobody change nothing.
LEMMA ConversingStutters == Conversing /\ UNCHANGED vars => Conversing'
<1> SUFFICES ASSUME Conversing, UNCHANGED vars PROVE Conversing'
  OBVIOUS
<1>1. TypeOK'
  BY TypesNext DEF Conversing
<1>2. /\ requests' = requests /\ replies' = replies /\ locations' = locations /\ pc' = pc
      /\ http_input' = http_input /\ unread' = unread
  BY DEF vars
<1>3. LengthsAreTrue'
  BY <1>2, ConversingStays DEF Conversing
<1>4. RepliesFollowRequests' /\ Taken' = Taken /\ (Stopped' <=> Stopped) /\ Stream' = Stream
  BY <1>2, RepliesStay DEF Conversing
<1>5. StreamIsAnswered'
  <2>1. Handled' = Handled
    BY <1>2, <1>4 DEF Handled
  <2> QED
    BY <1>2, <1>4, <2>1, Zenon DEF Conversing, StreamIsAnswered
<1>6. ReadsForMore'
  BY <1>2, <1>4, Zenon DEF Conversing, ReadsForMore
<1> QED
  BY <1>1, <1>3, <1>4, <1>5, <1>6 DEF Conversing

\* and every step keeps it so.
LEMMA ConversingNext == Conversing /\ [Next]_vars => Conversing'
BY ConversingRead, ConversingAwaits, ConversingRefuses, ConversingAnswers, ConversingRaises,
   ConversingStutters DEF Next

-----------------------------------------------------------------------------
(* What a client can rely on.                                                *)

\* The bytes of a client that declares the lengths of its bodies are never misread:
\* each reply is the reply to the next request it wrote, as if that were alone, up
\* to the first one refused, which every reply from then on is the reply to; and
\* what is buffered is the stream behind the requests taken, also where one raises.
THEOREM RequestsAreSeparated == Spec /\ LengthsAreTrue => []Conversing
BY ConversingInit, ConversingNext, PTL DEF Spec

\* Every reply is the reply to a request.
LEMMA FollowsRequest ==
    ASSUME TypeOK, RepliesFollowRequests, NEW i \in DOMAIN replies
    PROVE  /\ requests[RequestOf(i)] \in Requests /\ LocationsOK
           /\ replies[i] = ReplyTo(requests[RequestOf(i)])
<1>1. RequestOf(i) \in DOMAIN requests /\ replies[i] = ReplyTo(requests[RequestOf(i)])
  BY Zenon DEF RepliesFollowRequests
<1>2. /\ LocationsOK /\ DOMAIN requests = 1 .. Len(requests)
      /\ \A k \in 1 .. Len(requests) : requests[k] \in Requests
  BY ConversingType
<1> QED
  BY <1>1, <1>2, Zenon

\* Such a client finds the end of every reply.
THEOREM RepliesHaveAnEnd == Spec /\ LengthsAreTrue => []RepliesAreFramed
<1>1. Conversing => RepliesAreFramed
  <2> SUFFICES ASSUME Conversing, NEW i \in DOMAIN replies
               PROVE  IF replies[i].status = 200 /\ Method(requests[RequestOf(i)].line) = "HEAD"
                      THEN replies[i].body = 0 /\ replies[i].content_length = FileLen
                      ELSE replies[i].body = replies[i].content_length
    BY DEF RepliesAreFramed
  <2> DEFINE r == requests[RequestOf(i)]
  <2>1. r \in Requests /\ LocationsOK /\ replies[i] = ReplyTo(r)
    BY FollowsRequest DEF Conversing
  <2> HIDE DEF r
  <2>2. IF ReplyTo(r).status = 200 /\ Method(r.line) = "HEAD"
        THEN ReplyTo(r).body = 0 /\ ReplyTo(r).content_length = FileLen
        ELSE ReplyTo(r).body = ReplyTo(r).content_length
    BY <2>1, ReplyFacts
  <2> QED
    BY <2>1, <2>2, Zenon DEF r
<1> QED
  BY <1>1, RequestsAreSeparated, PTL

\* The replies are expected, and none is missing when all has arrived.
IsExpected(r) ==
    /\ ReplyTo(r).status \in r.statuses
    /\ ReplyTo(r).close = ~(ReplyTo(r).status = 200 /\ r.keeps)
\* What a client expects does not depend on the state.
LEMMA AnswersNext == AnswersAreExpected /\ Conversing /\ [Next]_vars => AnswersAreExpected'
<1> SUFFICES ASSUME AnswersAreExpected, [Next]_vars PROVE AnswersAreExpected'
  OBVIOUS
<1>1. requests' = requests /\ locations' = locations
  BY DEF Next, Read, AwaitMore, Refuse, Answer, Raise, vars
<1>2. ASSUME NEW i \in DOMAIN requests PROVE IsExpected(requests[i])'
  <2> DEFINE r == requests[i]
  <2>1. IsExpected(r)
    BY Zenon DEF AnswersAreExpected, IsExpected
  <2>2. ReplyTo(requests[i])' = ReplyTo(r)
    BY <1>1, ReplyToStays, Zenon
  <2> QED
    BY <1>1, <2>1, <2>2, Zenon DEF IsExpected
<1> QED
  BY <1>1, <1>2, Zenon DEF AnswersAreExpected, IsExpected

\* A state of a conversation is one in which replies are expected ones.
LEMMA RepliesAreExpected ==
    ASSUME Conversing, AnswersAreExpected
    PROVE  RepliesAnswerRequests
<1>1. /\ TypeOK /\ RepliesFollowRequests /\ StreamIsAnswered /\ ReadsForMore /\ LengthsAreTrue
  BY DEF Conversing
<1>2. /\ Taken <= Len(requests) /\ Taken \in Nat /\ Len(requests) \in Nat
      /\ DOMAIN requests = 1 .. Len(requests) /\ http_input \in Seq(Units)
  BY <1>1, ConversingType, TakenFacts, TakenAreRequests
<1>3. ASSUME NEW i \in DOMAIN replies
      PROVE  /\ RequestOf(i) \in DOMAIN requests
             /\ replies[i].status \in requests[RequestOf(i)].statuses
             /\ replies[i].close = ~(replies[i].status = 200 /\ requests[RequestOf(i)].keeps)
  <2>1. RequestOf(i) \in DOMAIN requests /\ replies[i] = ReplyTo(requests[RequestOf(i)])
    BY <1>1, Zenon DEF RepliesFollowRequests
  <2>2. IsExpected(requests[RequestOf(i)])
    BY <2>1, Zenon DEF AnswersAreExpected, IsExpected
  <2> QED
    BY <2>1, <2>2, Zenon DEF IsExpected
<1>4. ASSUME unread = <<>>, pc = "read", ~Stopped, Taken < Len(requests)
      PROVE  FALSE
  <2> DEFINE r == requests[Taken + 1]
             x == Rendered(r)
  <2>1. PICK rest \in Seq(Units) : Arrives(http_input, unread, r, rest)
    <3>1. pc # "over"
      BY <1>4
    <3> QED
      BY <1>1, <1>4, <3>1, NextArrives
  <2>2. ~IsMalformed(RequestLines(r)) => BodyLength(Tail(RequestLines(r))) = Len(r.body)
    <3>1. Taken + 1 \in DOMAIN requests
      BY <1>2, <1>4
    <3> QED
      BY <1>1, <3>1, Zenon DEF LengthsAreTrue
  <2> HIDE DEF r
  <2>3. Parsed.result \in {"none", "incomplete"} => Len(http_input) < Len(x)
    BY <2>1, <2>2, RequestArrives DEF Parsed
  <2>4. Parsed.result \in {"none", "incomplete"}
    BY <1>1, <1>4, Zenon DEF ReadsForMore, Parsed
  <2>5. http_input \o <<>> = x \o rest /\ x \in Seq(Units)
    BY <1>4, <2>1, RenderedType DEF Arrives
  <2> HIDE DEF x
  <2>6. http_input = x \o rest
    BY <1>2, <2>5, ConcatEmptySeq
  <2>7. Len(x \o rest) = Len(x) + Len(rest) /\ Len(x) \in Nat /\ Len(rest) \in Nat
    BY <2>5
  <2> QED
    BY <1>2, <2>3, <2>4, <2>6, <2>7
<1>5. ASSUME unread = <<>>, pc = "read", ~Stopped PROVE Len(replies) = Len(requests)
  <2>1. ~(Taken < Len(requests))
    BY <1>4, <1>5, Zenon
  <2>2. Taken = Len(replies)
    BY <1>1, <1>5, NothingRefused
  <2> DEFINE t == Taken
             k == Len(requests)
  <2>3. t <= k /\ t \in Nat /\ k \in Nat /\ ~(t < k)
    BY <1>2, <2>1
  <2> HIDE DEF t, k
  <2>4. t = k
    BY <2>3
  <2> QED
    BY <2>2, <2>4, Zenon DEF t, k
<1> QED
  BY <1>3, <1>5, Zenon DEF RepliesAnswerRequests

\* A client that declares the lengths of its bodies, and expects of each request
\* what it is answered with on its own, gets what it expects: in the order of its
\* requests, one reply each up to the first one refused.
THEOREM RequestsAreAnswered ==
    Spec /\ LengthsAreTrue /\ AnswersAreExpected => []RepliesAnswerRequests
BY RequestsAreSeparated, AnswersNext, RepliesAreExpected, PTL DEF Spec

\* All that a conversation keeps, of such a client: the replies follow its requests
\* up to the one refused and can be framed, no byte is lost or read twice, and the
\* handler waits only for want of bytes or on a closing reply.
THEOREM ConversationsAreSound ==
    Spec /\ LengthsAreTrue /\ AnswersAreExpected => []ConversationInv
<1>1. Conversing /\ AnswersAreExpected /\ RepliesAreFramed => ConversationInv
  BY DEF Conversing, ConversationInv
<1> QED
  BY <1>1, RequestsAreSeparated, RepliesHaveAnEnd, AnswersNext, PTL DEF Spec

\* Every request that such a client wrote and that is answered leaves the buffer:
\* the loop over pipelined requests ends.
THEOREM LoopsOverRequestsEnd == Spec /\ LengthsAreTrue => RequestsConsumeBytes
<1>1. Conversing /\ [Next]_vars => [Answer => Len(http_input') < Len(http_input)]_vars
  <2> SUFFICES ASSUME Conversing, Answer PROVE Len(http_input') < Len(http_input)
    OBVIOUS
  <2> DEFINE r == requests[Taken + 1]
             c == Parsed.consumed
             left == SubSeq(http_input, c + 1, Len(http_input))
  <2>1. pc = "http" /\ Parsed.result = "request" /\ http_input' = ReduceData(http_input, c)
    BY DEF Answer, Parsed
  <2>2. /\ c = Len(Rendered(r)) /\ c <= Len(http_input)
        /\ \E rest \in Seq(Units) : Arrives(http_input, unread, r, rest)
    <3>1. pc # "over"
      BY <2>1
    <3> QED
      BY <2>1, <3>1, NextParsed
  <2>3. http_input \in Seq(Units)
    BY ConversingType DEF Conversing
  <2> HIDE DEF r
  <2>4. c \in Nat /\ c > 0
    <3>1. PICK rest : Arrives(http_input, unread, r, rest)
      BY <2>2
    <3>2. r \in Requests
      BY <3>1 DEF Arrives
    <3>3. HeadLength(r) \in Nat /\ Len(r.body) \in Nat /\ Len(Rendered(r)) = HeadLength(r) + 1 + Len(r.body)
      BY <3>1, <3>2, StreamOfRequest, RequestType
    <3> QED
      BY <2>2, <3>3
  <2>5. http_input' = left
    BY <2>1, <2>4 DEF ReduceData
  <2> HIDE DEF c
  <2>6. Len(left) = Len(http_input) - c
    BY <2>2, <2>3, <2>4
  <2> HIDE DEF left
  <2> QED
    BY <2>3, <2>4, <2>5, <2>6
<1> QED
  BY <1>1, RequestsAreSeparated, PTL DEF Spec, RequestsConsumeBytes

-----------------------------------------------------------------------------
(* Plain paths.                                                              *)

\* What a plain path is made of.
PlainFacts(p) ==
    /\ p \in Seq(Chars) /\ Len(p) \in Nat /\ Len(p) > 1 /\ p[1] = "/" /\ p[Len(p)] # "/"
    /\ \A i \in 1 .. Len(p) : p[i] # "." /\ p[i] # "?" /\ Unescaped[p[i]] = p[i]
    /\ \A i \in 1 .. Len(p) - 1 : p[i] # "/" \/ p[i + 1] # "/"
\* What IsPlain says, position by position.
LEMMA PlainIs == \A p \in Seq(Chars) : IsPlain(p) => PlainFacts(p)
<1> SUFFICES ASSUME NEW p \in Seq(Chars), IsPlain(p) PROVE PlainFacts(p)
  OBVIOUS
<1>1. Len(p) \in Nat /\ DOMAIN p = 1 .. Len(p)
  OBVIOUS
<1> QED
  BY <1>1 DEF IsPlain, PlainFacts, Last

\* No host and no query: the URL is its path.
LEMMA UrlOfPath ==
    ASSUME NEW p, p # <<>>, ~HasHost(p), \A i \in 1 .. Len(p) : p[i] # "?"
    PROVE  UrlPath(p) = p /\ Uri(p) = p
<1>1. WithoutHost(p) = p
  BY Zenon DEF WithoutHost
<1>2. UpTo(p, {"?"}) = p
  <2>1. {i \in 1 .. Len(p) : p[i] \in {"?"}} = {}
    OBVIOUS
  <2> QED
    BY <2>1 DEF UpTo, SelectInSeq
<1> QED
  BY <1>1, <1>2, Zenon DEF UrlPath, Uri

\* One slash does not introduce a host.
BeginsWithOneSlash(p) == Len(p) > 1 /\ p[1] = "/" /\ p[2] # "/"
LEMMA OneSlashIsNoHost ==
    ASSUME NEW S, NEW p \in Seq(S), BeginsWithOneSlash(p)
    PROVE  ~HasHost(p)
<1> SUFFICES ASSUME IsPrefix(<<"/", "/">>, p) PROVE FALSE
  BY DEF HasHost
<1> DEFINE d == <<"/", "/">>
<1>1. Len(d) = 2 /\ d[2] = "/"
  OBVIOUS
<1>2. SubSeq(d, 1, 2) = SubSeq(p, 1, 2)
  BY <1>1 DEF IsPrefix
<1>3. SubSeq(d, 1, 2)[2] = d[2]
  BY <1>1
<1>4. SubSeq(p, 1, 2)[2] = p[2] /\ p[2] # "/"
  BY DEF BeginsWithOneSlash
<1> QED
  BY <1>1, <1>2, <1>3, <1>4, Zenon

\* Nothing in it is a query, a host or an escape.
LEMMA PlainUrl ==
    ASSUME NEW p \in Seq(Chars), IsPlain(p)
    PROVE  UrlPath(p) = p /\ Uri(p) = p /\ DecodedPath(p) = p
<1>1. PlainFacts(p)
  BY PlainIs
<1>2. BeginsWithOneSlash(p)
  <2>1. 1 \in 1 .. Len(p) - 1 /\ 1 + 1 = 2
    BY <1>1 DEF PlainFacts
  <2>2. p[1] # "/" \/ p[1 + 1] # "/"
    BY <1>1, <2>1, Zenon DEF PlainFacts
  <2> QED
    BY <1>1, <2>1, <2>2, Zenon DEF PlainFacts, BeginsWithOneSlash
<1>3. UrlPath(p) = p /\ Uri(p) = p
  <2>1. p # <<>> /\ \A i \in 1 .. Len(p) : p[i] # "?"
    BY <1>1 DEF PlainFacts
  <2> QED
    BY <1>2, <2>1, OneSlashIsNoHost, UrlOfPath
<1>4. Len(p) > 1 /\ p # <<>> /\ p # <<"/">>
  BY <1>1 DEF PlainFacts
<1>5. Unquote(p) = p
  <2>1. DOMAIN p = 1 .. Len(p) /\ p = [i \in 1 .. Len(p) |-> p[i]]
    OBVIOUS
  <2>2. \A i \in 1 .. Len(p) : Unescaped[p[i]] = p[i]
    BY <1>1, Zenon DEF PlainFacts
  <2>3. [i \in 1 .. Len(p) |-> Unescaped[p[i]]] = [i \in 1 .. Len(p) |-> p[i]]
    BY <2>2
  <2> QED
    BY <2>1, <2>3, Zenon DEF Unquote
<1> QED
  BY <1>3, <1>4, <1>5, Zenon DEF DecodedPath

\* The parts of the first i characters: an empty one, then names, of which the
\* last is empty behind a slash.
Names(parts) ==
    /\ parts \in Seq(Seq(STRING)) /\ Len(parts) \in Nat /\ Len(parts) >= 2 /\ parts[1] = <<>>
    /\ \A j \in 2 .. Len(parts) : \A k \in 1 .. Len(parts[j]) : parts[j][k] # "."
NamesUpTo(parts, c) ==
    /\ Names(parts)
    /\ \A j \in 2 .. Len(parts) - 1 : parts[j] # <<>>
    /\ c # "/" => parts[Len(parts)] # <<>>

\* A name begins behind a slash,
LEMMA NameBegins ==
    ASSUME NEW q, NEW c, c # "/", NamesUpTo(q, c)
    PROVE  NamesUpTo(Append(q, <<>>), "/")
<1> DEFINE r == Append(q, <<>>)
           m == Len(q)
<1>1. /\ q \in Seq(Seq(STRING)) /\ m \in Nat /\ m >= 2 /\ q[1] = <<>>
      /\ \A j \in 2 .. m : \A k \in 1 .. Len(q[j]) : q[j][k] # "."
      /\ \A j \in 2 .. m - 1 : q[j] # <<>>
      /\ q[m] # <<>>
  BY DEF NamesUpTo, Names
<1>2. <<>> \in Seq(STRING) /\ Len(<<>>) = 0
  OBVIOUS
<1>3. /\ r \in Seq(Seq(STRING)) /\ Len(r) = m + 1 /\ r[m + 1] = <<>>
      /\ \A j \in 1 .. m : r[j] = q[j]
  BY <1>1, <1>2
<1> HIDE DEF r, m
<1>4. r[1] = <<>>
  BY <1>1, <1>3
<1>5. ASSUME NEW j \in 2 .. m PROVE r[j] # <<>> /\ r[j] = q[j]
  <2>1. j \in 1 .. m /\ (j = m \/ j \in 2 .. m - 1)
    BY <1>1
  <2> QED
    BY <1>1, <1>3, <2>1, Zenon
<1>6. ASSUME NEW j \in 2 .. m + 1, NEW k \in 1 .. Len(r[j]) PROVE r[j][k] # "."
  <2>1. CASE j = m + 1
    <3>1. Len(r[j]) = 0
      BY <1>2, <1>3, <2>1
    <3> QED
      BY <3>1
  <2>2. CASE j # m + 1
    <3>1. j \in 2 .. m
      BY <1>1, <2>2
    <3>2. r[j] = q[j]
      BY <1>5, <3>1
    <3> QED
      BY <1>1, <3>1, <3>2, Zenon
  <2> QED
    BY <2>1, <2>2
<1>7. /\ Len(r) \in Nat /\ Len(r) >= 2 /\ Len(r) = m + 1 /\ Len(r) - 1 = m
  BY <1>1, <1>3
<1>8. \A j \in 2 .. Len(r) : \A k \in 1 .. Len(r[j]) : r[j][k] # "."
  BY <1>6, <1>7, Zenon
<1>9. \A j \in 2 .. Len(r) - 1 : r[j] # <<>>
  BY <1>5, <1>7, Zenon
<1> QED
  BY <1>3, <1>4, <1>7, <1>8, <1>9, Zenon DEF NamesUpTo, Names, r

\* and goes on with every other character.
LEMMA NameGoesOn ==
    ASSUME NEW q, NEW c, NEW u \in STRING, u # "/", u # ".", NamesUpTo(q, c)
    PROVE  NamesUpTo([q EXCEPT ![Len(q)] = Append(@, u)], u)
<1> DEFINE m == Len(q)
           s == Append(q[m], u)
           r == [q EXCEPT ![m] = s]
<1>1. /\ q \in Seq(Seq(STRING)) /\ m \in Nat /\ m >= 2 /\ q[1] = <<>>
      /\ \A j \in 2 .. m : \A k \in 1 .. Len(q[j]) : q[j][k] # "."
      /\ \A j \in 2 .. m - 1 : q[j] # <<>>
  BY DEF NamesUpTo, Names
<1>2. q[m] \in Seq(STRING) /\ m \in 2 .. m /\ m \in 1 .. m
  BY <1>1
<1>3. /\ s \in Seq(STRING) /\ Len(s) = Len(q[m]) + 1 /\ s[Len(q[m]) + 1] = u /\ Len(q[m]) \in Nat
      /\ \A k \in 1 .. Len(q[m]) : s[k] = q[m][k]
  BY <1>2
<1> HIDE DEF s
<1>4. s # <<>>
  BY <1>3
<1>5. \A k \in 1 .. Len(s) : s[k] # "."
  <2>1. ASSUME NEW k \in 1 .. Len(s) PROVE s[k] # "."
    <3>1. k = Len(q[m]) + 1 \/ k \in 1 .. Len(q[m])
      BY <1>3
    <3> QED
      BY <1>1, <1>2, <1>3, <3>1, Zenon
  <2> QED
    BY <2>1
<1> HIDE DEF m
<1>6. /\ r \in Seq(Seq(STRING)) /\ Len(r) = m /\ r[m] = s
      /\ \A j \in 1 .. m : j # m => r[j] = q[j]
  <2>1. m = Len(q)
    BY DEF m
  <2> QED
    BY <1>1, <1>3, <2>1
<1> HIDE DEF r
<1>7. r[1] = <<>> /\ Len(r) \in Nat /\ Len(r) >= 2
  BY <1>1, <1>6
<1>8. ASSUME NEW j \in 2 .. m PROVE \A k \in 1 .. Len(r[j]) : r[j][k] # "."
  <2>1. j \in 1 .. m
    BY <1>1
  <2> QED
    BY <1>1, <1>5, <1>6, <2>1, Zenon
<1>9. ASSUME NEW j \in 2 .. m - 1 PROVE r[j] # <<>>
  <2>1. j \in 1 .. m /\ j # m
    BY <1>1
  <2> QED
    BY <1>1, <1>6, <2>1, Zenon
<1> QED
  BY <1>4, <1>6, <1>7, <1>8, <1>9, Zenon DEF NamesUpTo, Names, r, s, m

\* One more than one is two,
LEMMA OneMore ==
    ASSUME NEW S, NEW s \in Seq(S), Len(s) = 1, NEW e \in S
    PROVE  Append(s, e) \in Seq(S) /\ Len(Append(s, e)) = 2 /\ Append(s, e)[1] = s[1] /\ Append(s, e)[2] = e
<1> DEFINE n == Len(s)
           t == Append(s, e)
<1>1. t \in Seq(S) /\ Len(t) = n + 1 /\ t[n + 1] = e /\ \A i \in 1 .. n : t[i] = s[i]
  OBVIOUS
<1>2. n = 1
  OBVIOUS
<1> HIDE DEF n, t
<1> QED
  BY <1>1, <1>2 DEF t

\* and a plain path splits into names.
LEMMA PlainSegments ==
    ASSUME NEW p \in Seq(Chars), IsPlain(p)
    PROVE  /\ Names(Segments(p))
           /\ \A j \in 2 .. Len(Segments(p)) : Segments(p)[j] # <<>>
<1> DEFINE n == Len(p)
           g == Splits(p, "/")
           T == {i \in 0 .. n : i # 0 => NamesUpTo(g[i], p[i])}
<1>1. PlainFacts(p)
  BY PlainIs
<1>2. p \in Seq(STRING) /\ n \in Nat /\ n > 1 /\ \A i \in 1 .. n : p[i] \in STRING
  <2>1. ASSUME NEW i \in 1 .. n PROVE p[i] \in STRING
    <3>1. p[i] \in Chars
      OBVIOUS
    <3> QED
      BY <3>1, StaticFilesAssumption
  <2> QED
    BY <1>1, <2>1 DEF PlainFacts
<1>3. g[0] = << <<>> >> /\ \A i \in 1 .. n : g[i] = Extended(g[i - 1], p[i], "/")
  BY <1>2, SplitsEquation, Zenon
<1> HIDE DEF n, g
<1>4. 0 \in T
  BY <1>2
<1>5. ASSUME NEW i \in 1 .. n, i - 1 \in T PROVE i \in T
  <2>1. CASE i = 1
    <3>1. p[1] = "/"
      BY <1>1 DEF PlainFacts
    <3>2. 1 \in 1 .. n /\ 1 - 1 = 0
      BY <1>2
    <3>3. g[1] = Extended(g[1 - 1], p[1], "/")
      BY <1>3, <3>2, Zenon
    <3>4. g[1] = Append(g[0], <<>>)
      BY <3>1, <3>2, <3>3 DEF Extended
    <3> DEFINE one == << <<>> >>
               q == Append(one, <<>>)
    <3>5. one \in Seq(Seq(STRING)) /\ Len(one) = 1 /\ one[1] = <<>> /\ <<>> \in Seq(STRING)
      OBVIOUS
    <3>6. g[1] = q
      BY <1>3, <3>4, Zenon
    <3>7. q \in Seq(Seq(STRING)) /\ Len(q) = 2 /\ q[1] = <<>> /\ q[2] = <<>>
      <4> DEFINE e == <<>>
                 S == Seq(STRING)
      <4> HIDE DEF one, e, S
      <4>1. one \in Seq(S) /\ Len(one) = 1 /\ one[1] = e /\ e \in S
        BY <3>5 DEF e, S
      <4>2. Append(one, e) \in Seq(S) /\ Len(Append(one, e)) = 2 /\ Append(one, e)[1] = e /\ Append(one, e)[2] = e
        BY <4>1, OneMore
      <4> QED
        BY <4>2 DEF e, S
    <3> HIDE DEF one
    <3>8. Len(<<>>) = 0
      OBVIOUS
    <3> HIDE DEF q
    <3>9. NamesUpTo(q, "/")
      BY <3>7, <3>8 DEF NamesUpTo, Names
    <3>10. g[i] = q /\ p[i] = "/"
      BY <2>1, <3>1, <3>6, Zenon
    <3>11. i \in 0 .. n
      BY <1>2
    <3>12. NamesUpTo(g[i], p[i])
      BY <3>9, <3>10, Zenon
    <3> QED
      BY <3>11, <3>12
  <2>2. CASE i # 1
    <3>1. i - 1 \in 1 .. n - 1 /\ i - 1 \in 0 .. n /\ i - 1 # 0 /\ (i - 1) + 1 = i /\ i \in 0 .. n
      BY <1>2, <2>2
    <3>2. NamesUpTo(g[i - 1], p[i - 1])
      BY <1>5, <3>1
    <3>3. CASE p[i] = "/"
      <4>1. p[i - 1] # "/" \/ p[(i - 1) + 1] # "/"
        BY <1>1, <3>1, Zenon DEF PlainFacts, n
      <4>2. p[i - 1] # "/"
        BY <3>1, <3>3, <4>1, Zenon
      <4>3. g[i] = Append(g[i - 1], <<>>)
        BY <1>3, <3>3, Zenon DEF Extended
      <4>4. NamesUpTo(Append(g[i - 1], <<>>), "/")
        BY <3>2, <4>2, NameBegins
      <4> QED
        BY <3>1, <3>3, <4>3, <4>4, Zenon
    <3>4. CASE p[i] # "/"
      <4> DEFINE q == g[i - 1]
      <4>1. g[i] = [q EXCEPT ![Len(q)] = Append(@, p[i])]
        BY <1>3, <3>4 DEF Extended
      <4>2. p[i] \in STRING /\ p[i] # "."
        BY <1>1, <1>2, Zenon DEF PlainFacts, n
      <4> HIDE DEF q
      <4>3. NamesUpTo(q, p[i - 1])
        BY <3>2 DEF q
      <4> DEFINE u == p[i]
                 r == [q EXCEPT ![Len(q)] = Append(@, u)]
      <4> HIDE DEF u
      <4>4. u \in STRING /\ u # "/" /\ u # "."
        BY <3>4, <4>2 DEF u
      <4>5. NamesUpTo(r, u)
        BY <4>3, <4>4, NameGoesOn
      <4> HIDE DEF r
      <4>6. NamesUpTo(g[i], p[i])
        BY <4>1, <4>5, Zenon DEF u, r
      <4> QED
        BY <3>1, <4>6
    <3> QED
      BY <3>3, <3>4
  <2> QED
    BY <2>1, <2>2
<1>6. NamesUpTo(g[n], p[n])
  <2>1. 0 .. n \subseteq T
    <3> HIDE DEF T
    <3> QED
      BY <1>2, <1>4, <1>5, BoundedInduction
  <2>2. n \in 0 .. n /\ n # 0
    BY <1>2
  <2> QED
    BY <2>1, <2>2
<1>7. p[n] # "/"
  BY <1>1 DEF PlainFacts, n
<1>8. Segments(p) = g[n]
  BY SplitIsSplits, Zenon DEF Segments, g, n
<1> DEFINE q == g[n]
<1> HIDE DEF q
<1>9. Names(q) /\ (\A j \in 2 .. Len(q) - 1 : q[j] # <<>>) /\ q[Len(q)] # <<>> /\ Len(q) \in Nat
  BY <1>6, <1>7, Zenon DEF NamesUpTo, Names, q
<1>10. ASSUME NEW j \in 2 .. Len(q) PROVE q[j] # <<>>
  <2>1. j = Len(q) \/ j \in 2 .. Len(q) - 1
    BY <1>9
  <2> QED
    BY <1>9, <2>1, Zenon
<1> QED
  BY <1>8, <1>9, <1>10, Zenon DEF q

\* What is appended to joined sequences is appended to the second of them.
AppendedToJoined(a, b, e) == Append(a \o b, e) = a \o Append(b, e)
\* Appending and joining.
LEMMA AppendToJoined == \A S : \A a, b \in Seq(S) : \A e \in S : AppendedToJoined(a, b, e)
BY DEF AppendedToJoined

\* The path below a root that names lead to.
LEMMA ResolveOfNames ==
    ASSUME NEW root \in Directories, NEW q, Names(q), \A j \in 2 .. Len(q) : q[j] # <<>>
    PROVE  Resolve(root, q) = root \o Tail(q)
<1> DEFINE n == Len(q)
           u == Resolves(root, q)
           path(i) == root \o SubSeq(q, 2, i)
           T == {i \in 0 .. n : i # 0 => u[i] = path(i)}
<1>1. /\ q \in Seq(Seq(STRING)) /\ n \in Nat /\ n >= 2 /\ q[1] = <<>>
      /\ root \in Seq(Seq(STRING)) /\ \A j \in 1 .. n : q[j] \in Seq(STRING)
  BY DirectoryIs DEF Names
<1>2. ASSUME NEW j \in 2 .. n PROVE q[j] \notin {<<>>, Dot, DotDot}
  <2>1. q[j] # <<>> /\ \A k \in 1 .. Len(q[j]) : q[j][k] # "."
    BY Zenon DEF Names
  <2>2. Len(Dot) = 1 /\ Dot[1] = "." /\ Len(DotDot) = 2 /\ DotDot[1] = "."
    BY DEF Dot, DotDot
  <2>3. q[j] # Dot /\ q[j] # DotDot
    <3>1. 1 \in 1 .. 1 /\ 1 \in 1 .. 2
      OBVIOUS
    <3> QED
      BY <2>1, <2>2, <3>1, Zenon
  <2> QED
    BY <2>1, <2>3
<1>3. u[0] = root /\ \A i \in 1 .. n : u[i] = Entered(u[i - 1], q[i])
  BY <1>1, ResolvesEquation, Zenon
<1> HIDE DEF u, n
<1>4. 0 \in T
  BY <1>1
<1>5. ASSUME NEW i \in 1 .. n, i - 1 \in T PROVE i \in T
  <2>1. CASE i = 1
    <3>1. 1 \in 1 .. n /\ 1 - 1 = 0
      BY <1>1
    <3>2. u[1] = Entered(root, <<>>)
      <4>1. u[1] = Entered(u[1 - 1], q[1])
        BY <1>3, <3>1, Zenon
      <4> QED
        BY <1>1, <1>3, <3>1, <4>1, Zenon
    <3>3. Entered(root, <<>>) = root
      <4>1. DotDot # <<>>
        BY DEF DotDot
      <4> QED
        BY <4>1 DEF Entered
    <3>4. SubSeq(q, 2, 1) = <<>>
      BY SubSeqEmpty
    <3>5. root \o <<>> = root
      BY <1>1, ConcatEmptySeq
    <3>6. u[1] = path(1)
      BY <3>2, <3>3, <3>4, <3>5, Zenon
    <3>7. i \in 0 .. n
      BY <1>1
    <3> HIDE DEF path
    <3> QED
      BY <2>1, <3>6, <3>7
  <2>2. CASE i # 1
    <3>1. /\ i - 1 # 0 /\ i \in 2 .. n /\ i \in 0 .. n /\ i \in 1 .. n
      BY <1>1, <2>2
    <3>2. u[i - 1] = path(i - 1)
      <4> HIDE DEF path
      <4> QED
        BY <1>5, <3>1
    <3> DEFINE a == SubSeq(q, 2, i - 1)
               b == SubSeq(q, 2, i)
               e == q[i]
    <3>3. /\ a \in Seq(Seq(STRING)) /\ b = Append(a, e) /\ e \in Seq(STRING)
      <4>1. a \in Seq(Seq(STRING)) /\ Len(a) = i - 2 /\ \A j \in 1 .. i - 2 : a[j] = q[j + 1]
        <5>1. \A j \in 2 .. i - 1 : q[j] \in Seq(STRING)
          BY <1>1
        <5> DEFINE m == i - 1
        <5>2. m \in Int /\ m >= 1
          BY <3>1
        <5>3. \A j \in 2 .. m : q[j] \in Seq(STRING)
          BY <5>1
        <5> HIDE DEF m
        <5>4. /\ SubSeq(q, 2, m) \in Seq(Seq(STRING))
              /\ Len(SubSeq(q, 2, m)) = IF 2 <= m THEN m - 2 + 1 ELSE 0
              /\ \A j \in 1 .. m - 2 + 1 : SubSeq(q, 2, m)[j] = q[2 + j - 1]
          BY <5>2, <5>3, SubSeqProperties
        <5>5. m = i - 1
          BY DEF m
        <5> QED
          BY <3>1, <5>2, <5>4, <5>5
      <4>2. b \in Seq(Seq(STRING)) /\ Len(b) = i - 1 /\ \A j \in 1 .. i - 1 : b[j] = q[j + 1]
        <5>1. \A j \in 2 .. i : q[j] \in Seq(STRING)
          BY <1>1
        <5>2. /\ SubSeq(q, 2, i) \in Seq(Seq(STRING))
              /\ Len(SubSeq(q, 2, i)) = IF 2 <= i THEN i - 2 + 1 ELSE 0
              /\ \A j \in 1 .. i - 2 + 1 : SubSeq(q, 2, i)[j] = q[2 + j - 1]
          BY <3>1, <5>1, SubSeqProperties
        <5> QED
          BY <3>1, <5>2
      <4>3. e \in Seq(STRING)
        BY <1>1
      <4> DEFINE c == Append(a, e)
                 S == Seq(STRING)
      <4> HIDE DEF a, b, e, S
      <4>4. c \in Seq(S) /\ Len(c) = i - 1 /\ c[i - 1] = e /\ \A j \in 1 .. i - 2 : c[j] = a[j]
        <5>1. a \in Seq(S) /\ e \in S /\ Len(a) = i - 2
          BY <4>1, <4>3 DEF S
        <5>2. Len(c) = (i - 2) + 1 /\ c[(i - 2) + 1] = e
          BY <5>1, AppendProperties
        <5> QED
          BY <3>1, <5>1, <5>2, AppendProperties
      <4>5. ASSUME NEW j \in 1 .. i - 1 PROVE b[j] = c[j]
        <5>1. CASE j = i - 1
          <6>1. b[j] = q[i]
            BY <3>1, <4>2, <5>1
          <6> QED
            BY <4>4, <5>1, <6>1 DEF e
        <5>2. CASE j # i - 1
          <6>1. j \in 1 .. i - 2
            BY <3>1, <5>2
          <6> QED
            BY <4>1, <4>2, <4>4, <6>1, Zenon
        <5> QED
          BY <5>1, <5>2
      <4> HIDE DEF c
      <4>6. b = c
        <5>1. b \in Seq(S) /\ c \in Seq(S) /\ Len(b) = i - 1 /\ Len(c) = i - 1
          BY <4>2, <4>4 DEF S
        <5> QED
          BY <4>5, <5>1, SeqEqual
      <4> QED
        BY <4>1, <4>3, <4>6 DEF c
    <3>4. u[i] = Entered(root \o a, e)
      BY <1>3, <3>1, <3>2, Zenon
    <3>5. e \notin {<<>>, Dot, DotDot}
      BY <1>2, <3>1
    <3> HIDE DEF a, b, e
    <3>6. Entered(root \o a, e) = Append(root \o a, e)
      <4>1. e \notin {<<>>, Dot} /\ e # DotDot
        BY <3>5
      <4> QED
        BY <4>1 DEF Entered
    <3>7. Append(root \o a, e) = root \o Append(a, e)
      <4> DEFINE S == Seq(STRING)
      <4> HIDE DEF S
      <4>1. root \in Seq(S) /\ a \in Seq(S) /\ e \in S
        BY <1>1, <3>3 DEF S
      <4>2. AppendedToJoined(root, a, e)
        BY <4>1, AppendToJoined
      <4> QED
        BY <4>2, Zenon DEF AppendedToJoined
    <3>8. u[i] = path(i)
      BY <3>3, <3>4, <3>6, <3>7, Zenon DEF b
    <3> HIDE DEF path
    <3> QED
      BY <3>1, <3>8
  <2> QED
    BY <2>1, <2>2
<1>6. u[n] = path(n)
  <2> HIDE DEF path
  <2>1. 0 .. n \subseteq T
    <3> HIDE DEF T
    <3> QED
      BY <1>1, <1>4, <1>5, BoundedInduction
  <2>2. n \in 0 .. n /\ n # 0
    BY <1>1
  <2> QED
    BY <2>1, <2>2
<1>7. Tail(q) = SubSeq(q, 2, n)
  BY <1>1 DEF n
<1> QED
  BY <1>6, <1>7, ResolveIsResolves, Zenon DEF u, n

\* match_location finds the longest prefix there is.
NoneFits(uri, n, best) ==
    /\ best = <<"/">>
    /\ \A j \in 1 .. n : locations[j].path # <<>> => ~IsPrefix(locations[j].path, uri)
FitsBest(uri, n, best) ==
    /\ best \in Paths /\ best # <<>> /\ IsPrefix(best, uri)
    /\ \A j \in 1 .. n : IsPrefix(locations[j].path, uri) => Len(locations[j].path) <= Len(best)
Preferred(uri, n, best) == NoneFits(uri, n, best) \/ FitsBest(uri, n, best)
\* What match_location chooses is the longest prefix of all it has seen.
LEMMA MatchIsPreferred ==
    ASSUME LocationsOK, NEW uri
    PROVE  Preferred(uri, Len(locations), MatchLocation(uri))
<1> DEFINE n == Len(locations)
           u == Matches(uri)
           T == {i \in 0 .. n : Preferred(uri, i, u[i])}
<1>1. /\ n \in Nat /\ DOMAIN locations = 1 .. n
      /\ \A i \in 1 .. n : locations[i].path \in Paths
      /\ \A i \in 1 .. n : Len(locations[i].path) \in Nat /\ locations[i].path \in Seq(Chars)
  <2>1. n \in Nat /\ DOMAIN locations = 1 .. n /\ \A i \in 1 .. n : locations[i] \in Locations
    BY DEF LocationsOK
  <2>2. \A i \in 1 .. n : locations[i].path \in Seq(Chars)
    BY <2>1 DEF Locations
  <2>3. \A i \in 1 .. n : Len(locations[i].path) \in Nat
    BY <2>2
  <2> QED
    BY <2>1, <2>2, <2>3, Zenon DEF Paths
<1>2. u[0] = <<"/">> /\ \A i \in 1 .. n : u[i] = Better(uri, u[i - 1], locations[i].path)
  BY MatchesEquation, Zenon
<1> HIDE DEF n, u
<1>3. 0 \in T
  <2>1. 0 \in 0 .. n /\ \A j \in 1 .. 0 : FALSE
    BY <1>1
  <2>2. Preferred(uri, 0, u[0])
    BY <1>2, <2>1, Zenon DEF NoneFits, Preferred
  <2> QED
    BY <2>1, <2>2
<1>4. ASSUME NEW i \in 1 .. n, i - 1 \in T PROVE i \in T
  <2> DEFINE old == u[i - 1]
             new == u[i]
             path == locations[i].path
  <2>1. /\ Preferred(uri, i - 1, old) /\ new = Better(uri, old, path)
        /\ path \in Paths /\ path \in Seq(Chars) /\ Len(path) \in Nat
        /\ i \in 0 .. n /\ i \in Nat
    BY <1>1, <1>2, <1>4
  <2>2. ASSUME NEW j \in 1 .. i PROVE j = i \/ j \in 1 .. i - 1
    BY <2>1
  <2>3. \A j \in 1 .. i - 1 : Len(locations[j].path) \in Nat /\ locations[j].path \in Seq(Chars)
    <3>1. \A j \in 1 .. i - 1 : j \in 1 .. n
      BY <1>1
    <3> QED
      BY <1>1, <3>1, Zenon
  <2>4. locations[i].path = path
    OBVIOUS
  <2> HIDE DEF old, new, path
  <2>5. Len(<<"/">>) = 1 /\ (path # <<>> => Len(path) >= 1) /\ (path = <<>> => Len(path) = 0)
    BY <2>1
  <2>6. ASSUME old = <<"/">>,
               \A j \in 1 .. i - 1 : locations[j].path # <<>> => ~IsPrefix(locations[j].path, uri)
        PROVE  Preferred(uri, i, new)
    <3>1. CASE IsPrefix(path, uri) /\ path # <<>>
      <4>1. new = path
        BY <2>1, <2>5, <2>6, <3>1 DEF Better, Prefers
      <4>2. ASSUME NEW j \in 1 .. i, IsPrefix(locations[j].path, uri)
            PROVE  Len(locations[j].path) <= Len(new)
        <5>1. CASE j = i
          BY <2>1, <2>4, <4>1, <5>1
        <5>2. CASE j \in 1 .. i - 1
          <6>1. locations[j].path = <<>>
            BY <2>6, <4>2, <5>2, Zenon
          <6>2. Len(<<>>) = 0 /\ 0 <= Len(path)
            BY <2>1
          <6> QED
            BY <4>1, <6>1, <6>2, Zenon
        <5> QED
          BY <2>2, <5>1, <5>2
      <4> QED
        BY <2>1, <3>1, <4>1, <4>2, Zenon DEF FitsBest, Preferred
    <3>2. CASE ~(IsPrefix(path, uri) /\ path # <<>>)
      <4>1. new = old
        <5>1. ~(IsPrefix(path, uri) /\ Len(path) >= Len(old))
          BY <2>5, <2>6, <3>2
        <5> QED
          BY <2>1, <5>1 DEF Better, Prefers
      <4>2. \A j \in 1 .. i : locations[j].path # <<>> => ~IsPrefix(locations[j].path, uri)
        BY <2>2, <2>4, <2>6, <3>2, Zenon
      <4> QED
        BY <2>6, <4>1, <4>2, Zenon DEF NoneFits, Preferred
    <3> QED
      BY <3>1, <3>2
  <2>7. ASSUME old \in Paths, old # <<>>, IsPrefix(old, uri),
               \A j \in 1 .. i - 1 : IsPrefix(locations[j].path, uri) => Len(locations[j].path) <= Len(old)
        PROVE  Preferred(uri, i, new)
    <3>0. old \in Seq(Chars) /\ Len(old) \in Nat /\ Len(old) >= 1
      <4>1. PICK k \in 1 .. n : old = locations[k].path
        BY <1>1, <2>7 DEF Paths
      <4>2. old \in Seq(Chars)
        BY <1>1, <4>1, Zenon
      <4> QED
        BY <2>7, <4>2
    <3>1. CASE IsPrefix(path, uri) /\ Len(path) >= Len(old)
      <4>1. new = path
        BY <2>1, <3>1 DEF Better, Prefers
      <4>2. path # <<>>
        BY <2>5, <3>0, <3>1
      <4>3. ASSUME NEW j \in 1 .. i, IsPrefix(locations[j].path, uri)
            PROVE  Len(locations[j].path) <= Len(new)
        <5>1. CASE j = i
          BY <2>1, <2>4, <4>1, <5>1
        <5>2. CASE j \in 1 .. i - 1
          <6>1. Len(locations[j].path) <= Len(old) /\ Len(locations[j].path) \in Nat
            BY <2>3, <2>7, <4>3, <5>2, Zenon
          <6> QED
            BY <2>1, <3>0, <3>1, <4>1, <6>1
        <5> QED
          BY <2>2, <5>1, <5>2
      <4> QED
        BY <2>1, <3>1, <4>1, <4>2, <4>3, Zenon DEF FitsBest, Preferred
    <3>2. CASE ~(IsPrefix(path, uri) /\ Len(path) >= Len(old))
      <4>1. new = old
        BY <2>1, <3>2 DEF Better, Prefers
      <4>2. ASSUME NEW j \in 1 .. i, IsPrefix(locations[j].path, uri)
            PROVE  Len(locations[j].path) <= Len(new)
        <5>1. CASE j = i
          <6>1. ~(Len(path) >= Len(old))
            BY <2>4, <3>2, <4>2, <5>1, Zenon
          <6> QED
            BY <2>1, <2>4, <3>0, <4>1, <5>1, <6>1
        <5>2. CASE j \in 1 .. i - 1
          BY <2>7, <4>1, <4>2, <5>2, Zenon
        <5> QED
          BY <2>2, <5>1, <5>2
      <4> QED
        BY <2>7, <4>1, <4>2, Zenon DEF FitsBest, Preferred
    <3> QED
      BY <3>1, <3>2
  <2>8. Preferred(uri, i, new)
    BY <2>1, <2>6, <2>7, Zenon DEF NoneFits, FitsBest, Preferred
  <2> QED
    BY <2>1, <2>8 DEF new
<1>5. Preferred(uri, n, u[n])
  <2>1. 0 .. n \subseteq T
    <3> HIDE DEF T
    <3> QED
      BY <1>1, <1>3, <1>4, BoundedInduction
  <2>2. n \in 0 .. n
    BY <1>1
  <2> QED
    BY <2>1, <2>2
<1> QED
  BY <1>5, MatchIsMatches, Zenon DEF u, n

\* Prefixes of the same length are the same.
LEMMA SamePrefix ==
    ASSUME NEW S, NEW p \in Seq(S), NEW q \in Seq(S), NEW s, IsPrefix(p, s), IsPrefix(q, s), Len(p) = Len(q)
    PROVE  p = q
<1>1. SubSeq(p, 1, Len(p)) = p /\ SubSeq(q, 1, Len(q)) = q
  BY SubSeqFull
<1>2. SubSeq(p, 1, Len(p)) = SubSeq(s, 1, Len(p)) /\ SubSeq(q, 1, Len(q)) = SubSeq(s, 1, Len(q))
  BY Zenon DEF IsPrefix
<1> QED
  BY <1>1, <1>2, Zenon

\* The location chosen is the longest prefix there is.
LEMMA MatchIsLongest ==
    ASSUME LocationsOK, NEW uri
    PROVE  MatchLocation(uri) = LongestPrefix(uri)
<1> DEFINE n == Len(locations)
           best == MatchLocation(uri)
           prefixes == {p \in Paths \ {<<>>} : IsPrefix(p, uri)}
           longest == CHOOSE p \in prefixes : \A q \in prefixes : Len(q) <= Len(p)
<1>1. Preferred(uri, n, best)
  BY MatchIsPreferred
<1>2. DOMAIN locations = 1 .. n /\ \A p \in Paths : p \in Seq(Chars)
  <2>1. DOMAIN locations = 1 .. n /\ \A i \in 1 .. n : locations[i] \in Locations
    BY DEF LocationsOK
  <2> QED
    BY <2>1 DEF Locations, Paths
<1>3. \A p \in Paths : \E j \in 1 .. n : p = locations[j].path
  BY <1>2, Zenon DEF Paths
<1>4. LongestPrefix(uri) = IF prefixes = {} THEN <<"/">> ELSE longest
  BY Zenon DEF LongestPrefix
<1> HIDE DEF n, best
<1>5. CASE /\ best = <<"/">>
           /\ \A j \in 1 .. n : locations[j].path # <<>> => ~IsPrefix(locations[j].path, uri)
  <2>1. prefixes = {}
    <3>1. ASSUME NEW p \in prefixes PROVE FALSE
      <4>1. PICK j \in 1 .. n : p = locations[j].path
        BY <1>3
      <4> QED
        BY <1>5, <4>1
    <3> QED
      BY <3>1
  <2> QED
    BY <1>4, <1>5, <2>1 DEF best
<1>6. CASE /\ best \in Paths /\ best # <<>> /\ IsPrefix(best, uri)
           /\ \A j \in 1 .. n : IsPrefix(locations[j].path, uri) => Len(locations[j].path) <= Len(best)
  <2>1. best \in prefixes /\ \A q \in prefixes : Len(q) <= Len(best)
    <3>1. ASSUME NEW q \in prefixes PROVE Len(q) <= Len(best)
      <4>1. PICK j \in 1 .. n : q = locations[j].path
        BY <1>3
      <4> QED
        BY <1>6, <4>1
    <3> QED
      BY <1>6, <3>1
  <2>2. longest \in prefixes /\ \A q \in prefixes : Len(q) <= Len(longest)
    <3> HIDE DEF prefixes
    <3> QED
      BY <2>1
  <2> HIDE DEF longest
  <2>3. best \in Seq(Chars) /\ longest \in Seq(Chars) /\ IsPrefix(best, uri) /\ IsPrefix(longest, uri)
    BY <1>2, <2>1, <2>2
  <2>4. Len(best) = Len(longest)
    <3>1. Len(longest) <= Len(best) /\ Len(best) <= Len(longest)
      BY <2>1, <2>2, Zenon
    <3>2. Len(best) \in Nat /\ Len(longest) \in Nat
      BY <2>3
    <3> QED
      BY <3>1, <3>2
  <2>5. best = longest
    BY <2>3, <2>4, SamePrefix
  <2>6. prefixes # {}
    BY <2>1
  <2> QED
    BY <1>4, <2>5, <2>6, Zenon DEF best
<1> QED
  BY <1>1, <1>5, <1>6, Zenon DEF NoneFits, FitsBest, Preferred

\* Joined sequences start with the first of them.
LEMMA StartsWithItself ==
    ASSUME NEW S, NEW s \in Seq(S), NEW t \in Seq(S)
    PROVE  IsPrefix(s, s \o t)
<1> DEFINE n == Len(s)
           whole == s \o t
<1>1. /\ n \in Nat /\ whole \in Seq(S) /\ Len(whole) = n + Len(t) /\ Len(t) \in Nat
      /\ \A i \in 1 .. n : whole[i] = s[i]
  OBVIOUS
<1> HIDE DEF n, whole
<1>2. /\ SubSeq(s, 1, n) = [i \in 1 .. n |-> s[i]]
      /\ SubSeq(whole, 1, n) = [i \in 1 .. n |-> whole[i]]
  BY <1>1 DEF n
<1>3. SubSeq(s, 1, n) = SubSeq(whole, 1, n)
  BY <1>1, <1>2
<1>4. n <= Len(whole)
  BY <1>1
<1> QED
  BY <1>3, <1>4, Zenon DEF IsPrefix, n, whole

\* The file that a plain path names is what is found, if there is one.
NamedFile(p) == Root(LongestPrefix(p)) \o Tail(Segments(p))
LEMMA PlainIsFound ==
    ASSUME LocationsOK, NEW p \in Seq(Chars), IsPlain(p)
    PROVE  /\ NamedFile(p) \in Files => Found(p).status = 200 /\ Found(p).file = NamedFile(p)
           /\ NamedFile(p) \notin Files => Found(p).status = 404
<1> DEFINE location == MatchLocation(Uri(p))
           root == Root(location)
           file == FilePath(root, Uri(p))
           names == Segments(p)
           Reply(status, body) == [status |-> status, location |-> location, file |-> body]
<1>1. Found(p) = CASE ~IsBelow(root, file) -> Reply(403, <<>>)
          [] IsBelow(root, file) /\ ~IsFile(file) -> Reply(404, <<>>)
          [] IsBelow(root, file) /\ IsFile(file) -> Reply(200, file)
  BY DEF Found
<1>2. Uri(p) = p /\ DecodedPath(p) = p
  BY PlainUrl
<1>3. location = LongestPrefix(p)
  BY <1>2, MatchIsLongest, Zenon
<1>4. root \in Directories
  BY RootType, Zenon
<1>5. Names(names) /\ \A j \in 2 .. Len(names) : names[j] # <<>>
  BY PlainSegments
<1> HIDE DEF names, root
<1>6. Resolve(root, names) = root \o Tail(names)
  BY <1>4, <1>5, ResolveOfNames
<1>7. file = NamedFile(p)
  BY <1>2, <1>3, <1>6, Zenon DEF FilePath, NamedFile, names, root
<1>8. IsPrefix(root, root \o Tail(names))
  <2>1. root \in Seq(Seq(STRING)) /\ Tail(names) \in Seq(Seq(STRING))
    BY <1>4, <1>5, DirectoryIs DEF Names
  <2> QED
    BY <2>1, StartsWithItself
<1>9. IsBelow(root, file)
  BY <1>3, <1>7, <1>8, Zenon DEF IsBelow, NamedFile, names, root
<1> HIDE DEF location, file
<1> QED
  BY <1>1, <1>7, <1>9 DEF IsFile

\* What a GET or HEAD of a path is answered with is what is found there.
LEMMA AnsweredTarget ==
    ASSUME Conversing, NEW i \in Answered
    PROVE  /\ LocationsOK /\ Target(i) \in Seq(Chars)
           /\ replies[i].status = Found(Target(i)).status
           /\ replies[i].location = Found(Target(i)).location
           /\ replies[i].file = Found(Target(i)).file
<1> DEFINE r == requests[RequestOf(i)]
           lines == RequestLines(r)
           target == Target(i)
<1>1. /\ i \in DOMAIN replies /\ replies[i].status \in {200, 403, 404}
      /\ TypeOK /\ RepliesFollowRequests
  BY DEF Conversing, Answered
<1>2. r \in Requests /\ LocationsOK /\ replies[i] = ReplyTo(r)
  BY <1>1, FollowsRequest
<1>3. target = r.line[StartUnit(r.line)].target
  BY Zenon DEF Target, LineOf
<1> HIDE DEF r, target
<1>4. ~IsMalformed(lines)
  <2>1. ReplyTo(r).status # 400
    BY <1>1, <1>2
  <2> QED
    BY <1>2, <2>1, ReplyFacts
<1>5. ReplyTo(r) = BuildHTTPResponse(HTTPMessage(lines))
  BY <1>4, Zenon DEF ReplyTo
<1>6. lines[1] = r.line /\ r.line \in Line
  BY <1>2, LinesOfRequest, RequestType
<1> HIDE DEF lines
<1>7. HTTPMessage(lines).target = target
  BY <1>3, <1>6 DEF HTTPMessage
<1>8. target \in Seq(Chars)
  <2> DEFINE line == r.line
             s == StartUnit(line)
  <2>1. line \in Seq(Units)
    <3>1. line \in Line
      BY <1>6
    <3> HIDE DEF line
    <3> QED
      BY <3>1 DEF Line
  <2>2. s # 0 /\ line[s].kind = "start"
    BY <1>4, <1>6, Zenon DEF IsMalformed, IsStartLine
  <2> HIDE DEF line
  <2>3. Len(line) \in Nat
    BY <2>1
  <2>4. s \in 0 .. Len(line)
    BY <2>3, StartUnitRange
  <2> HIDE DEF s
  <2>5. line[s] \in Units
    BY <2>1, <2>2, <2>3, <2>4
  <2>6. line[s].target \in Seq(Chars)
    BY <2>2, <2>5, UnitFacts, Zenon
  <2> QED
    BY <1>3, <2>6, Zenon DEF line, s
<1> DEFINE request == HTTPMessage(lines)
<1> HIDE DEF request
<1>9. ReplyTo(r) = BuildHTTPResponse(request) /\ request.target = target
  BY <1>5, <1>7, Zenon DEF request
<1>10. /\ replies[i].status = Found(target).status /\ replies[i].location = Found(target).location
       /\ replies[i].file = Found(target).file
  <2>1. BuildHTTPResponse(request).status \in {200, 403, 404}
    BY <1>1, <1>2, <1>9
  <2>2. /\ BuildHTTPResponse(request).status = Found(request.target).status
        /\ BuildHTTPResponse(request).location = Found(request.target).location
        /\ BuildHTTPResponse(request).file = Found(request.target).file
    BY <2>1, AnsweredIsFound
  <2> QED
    BY <1>2, <1>9, <2>2, Zenon
<1> QED
  BY <1>2, <1>8, <1>10, Zenon DEF target

\* A path without escapes, dots and empty segments is the name of its file.
THEOREM PlainPathsLeadToFiles == Spec /\ LengthsAreTrue => []PlainPathsNameFiles
<1>1. ASSUME Conversing, NEW i \in Answered, IsPlain(Target(i))
      PROVE  /\ NamedFile(Target(i)) \in Files =>
                    replies[i].status = 200 /\ replies[i].file = NamedFile(Target(i))
             /\ NamedFile(Target(i)) \notin Files => replies[i].status = 404
  <2> DEFINE target == Target(i)
  <2>1. /\ LocationsOK /\ target \in Seq(Chars)
        /\ replies[i].status = Found(target).status /\ replies[i].file = Found(target).file
    BY <1>1, AnsweredTarget
  <2>2. IsPlain(target)
    BY <1>1
  <2> HIDE DEF target
  <2>3. /\ NamedFile(target) \in Files => Found(target).status = 200 /\ Found(target).file = NamedFile(target)
        /\ NamedFile(target) \notin Files => Found(target).status = 404
    BY <2>1, <2>2, PlainIsFound
  <2>4. /\ NamedFile(target) \in Files => replies[i].status = 200 /\ replies[i].file = NamedFile(target)
        /\ NamedFile(target) \notin Files => replies[i].status = 404
    BY <2>1, <2>3
  <2> QED
    BY <2>4, Zenon DEF target
<1>2. Conversing => PlainPathsNameFiles
  BY <1>1, Zenon DEF PlainPathsNameFiles, NamedFile
<1> QED
  BY <1>2, RequestsAreSeparated, PTL

-----------------------------------------------------------------------------
(* However a path is spelled.                                                *)

\* Splitting leaves no delimiter in the parts.
LEMMA PartsHaveNoDelimiter ==
    ASSUME NEW S, NEW d \in S, NEW s \in Seq(S)
    PROVE  Split(s, d) \in Parts(S \ {d})
<1> DEFINE T == {q \in Seq(S) : Split(q, d) \in Parts(S \ {d})}
<1>1. <<>> \in T
  <2> DEFINE U == Seq(S \ {d})
  <2>1. Split(<<>>, d) = << <<>> >>
    BY SplitOfEmpty
  <2>2. <<>> \in U
    OBVIOUS
  <2> HIDE DEF U
  <2>3. << <<>> >> \in Seq(U) /\ << <<>> >> # <<>>
    BY <2>2
  <2>4. Split(<<>>, d) \in Parts(S \ {d})
    BY <2>1, <2>3, Zenon DEF Parts, U
  <2>5. <<>> \in Seq(S)
    OBVIOUS
  <2> QED
    BY <2>4, <2>5, Zenon
<1>2. ASSUME NEW q \in Seq(S), NEW e \in S, Split(q, d) \in Parts(S \ {d})
      PROVE  Split(Append(q, e), d) \in Parts(S \ {d})
  <2> DEFINE parts == Split(q, d)
  <2>1. Split(Append(q, e), d) = Extended(parts, e, d)
    BY SplitOfAppend
  <2> HIDE DEF parts
  <2>2. CASE e = d
    <3>1. Extended(parts, e, d) = Append(parts, <<>>)
      BY <2>2 DEF Extended
    <3> DEFINE U == Seq(S \ {d})
    <3>2. parts \in Seq(U) /\ <<>> \in U
      BY <1>2 DEF Parts, parts
    <3> HIDE DEF U
    <3>3. Append(parts, <<>>) \in Seq(U) /\ Append(parts, <<>>) # <<>>
      BY <3>2
    <3> QED
      BY <2>1, <3>1, <3>3 DEF Parts, U
  <2>3. CASE e # d
    <3>1. e \in S \ {d} /\ parts \in Parts(S \ {d})
      BY <1>2, <2>3 DEF parts
    <3>2. Extended(parts, e, d) \in Parts(S \ {d})
      BY <3>1, ExtendedType
    <3> QED
      BY <2>1, <3>2
  <2> QED
    BY <2>2, <2>3
<1>3. Seq(S) \subseteq T
  <2>1. ASSUME NEW q \in Seq(S), NEW e \in S, q \in T PROVE Append(q, e) \in T
    <3>1. Append(q, e) \in Seq(S)
      OBVIOUS
    <3> QED
      BY <1>2, <2>1, <3>1, Zenon
  <2> HIDE DEF T
  <2> QED
    BY <1>1, <2>1, SequenceInduction
<1> QED
  BY <1>3, Zenon

\* One more segment.
LEMMA ResolveOfAppend ==
    ASSUME NEW root \in Directories, NEW s \in Seq(Seq(STRING)), NEW e \in Seq(STRING)
    PROVE  Resolve(root, Append(s, e)) = Entered(Resolve(root, s), e)
<1> DEFINE t == Append(s, e)
           n == Len(s)
           g == Resolves(root, t)
           h == Resolves(root, s)
<1>1. /\ t \in Seq(Seq(STRING)) /\ Len(t) = n + 1 /\ t[n + 1] = e /\ n \in Nat
      /\ \A i \in 1 .. n : t[i] = s[i]
  OBVIOUS
<1>2. h[0] = root /\ \A i \in 1 .. n : h[i] = Entered(h[i - 1], s[i])
  <2> HIDE DEF h
  <2> QED
    BY ResolvesEquation, Zenon DEF h
<1> HIDE DEF t, n
<1>3. g[0] = root /\ \A i \in 1 .. n + 1 : g[i] = Entered(g[i - 1], t[i])
  <2>1. /\ Resolves(root, t)[0] = root
        /\ \A i \in 1 .. Len(t) : Resolves(root, t)[i] = Entered(Resolves(root, t)[i - 1], t[i])
    BY <1>1, ResolvesEquation
  <2> QED
    BY <1>1, <2>1, Zenon
<1> HIDE DEF g, h
<1>4. \A i \in 0 .. n : g[i] = h[i]
  <2>1. GoAlike(g, h, n)
    BY <1>1, <1>2, <1>3 DEF GoAlike
  <2>2. Alike(g, h, n)
    BY <1>1, <2>1, SameIteration, Zenon
  <2> QED
    BY <2>2 DEF Alike
<1>5. g[n + 1] = Entered(h[n], e)
  BY <1>1, <1>3, <1>4
<1> QED
  BY <1>1, <1>5, ResolveIsResolves, Zenon DEF g, h, n, t

\* No segment leads to the root,
LEMMA ResolveOfEmpty == \A root \in Directories : Resolve(root, <<>>) = root
<1> SUFFICES ASSUME NEW root \in Directories PROVE Resolve(root, <<>>) = root
  OBVIOUS
<1>1. <<>> \in Seq(Seq(STRING)) /\ Len(<<>>) = 0
  OBVIOUS
<1> QED
  BY <1>1, ResolvesEquation, ResolveIsResolves, Zenon

\* neither of its two special names is empty or the other,
LEMMA DotsDiffer == DotDot # Dot /\ DotDot # <<>> /\ Dot # <<>>
<1>1. Len(DotDot) = 2 /\ Len(Dot) = 1 /\ Len(<<>>) = 0
  BY DEF Dot, DotDot
<1> QED
  BY <1>1

\* and names are what resolve() goes down to.
NamesOf(S) == Seq(S) \ {<<>>, Dot, DotDot}
LEMMA EnteredNames ==
    ASSUME NEW S, NEW dir \in Seq(NamesOf(S)), NEW seg \in Seq(S)
    PROVE  Entered(dir, seg) \in Seq(NamesOf(S))
<1>1. CASE seg \in {<<>>, Dot}
  <2>1. Entered(dir, seg) = dir
    BY <1>1, DotsDiffer, Zenon DEF Entered
  <2> QED
    BY <2>1
<1>2. CASE seg \notin {<<>>, Dot} /\ seg = DotDot
  <2>1. Entered(dir, seg) = Parent(dir)
    BY <1>2 DEF Entered
  <2> DEFINE N == NamesOf(S)
  <2> HIDE DEF N
  <2>2. dir \in Seq(N)
    BY DEF N
  <2>3. dir # <<>> => SubSeq(dir, 1, Len(dir) - 1) \in Seq(N)
    BY <2>2
  <2>4. Parent(dir) \in Seq(N)
    BY <2>2, <2>3 DEF Parent, Front
  <2> QED
    BY <2>1, <2>4 DEF N
<1>3. CASE seg \notin {<<>>, Dot} /\ seg # DotDot
  <2>1. seg \in NamesOf(S)
    BY <1>3 DEF NamesOf
  <2>2. Entered(dir, seg) = Append(dir, seg)
    BY <1>3 DEF Entered
  <2> HIDE DEF NamesOf
  <2> QED
    BY <2>1, <2>2
<1> QED
  BY <1>1, <1>2, <1>3

\* The root of the file system is a directory.
LEMMA TopIsDirectory == <<>> \in Directories
<1> DEFINE empty == <<>>
<1>1. empty \in Seq(Seq(STRING)) /\ \A i \in 1 .. Len(empty) : empty[i] # DotDot
  OBVIOUS
<1> HIDE DEF empty
<1>2. empty \in Directories
  BY <1>1, DirectoryIs, Zenon
<1> QED
  BY <1>2 DEF empty

\* A resolved path is made of names.
LEMMA ResolvedNames ==
    ASSUME NEW S \in SUBSET STRING, NEW segments \in Seq(Seq(S))
    PROVE  Resolve(<<>>, segments) \in Seq(NamesOf(S))
<1> DEFINE T == {q \in Seq(Seq(S)) : Resolve(<<>>, q) \in Seq(NamesOf(S))}
<1>1. <<>> \in T
  <2>1. Resolve(<<>>, <<>>) = <<>>
    BY TopIsDirectory, ResolveOfEmpty, Zenon
  <2>2. <<>> \in Seq(NamesOf(S)) /\ <<>> \in Seq(Seq(S))
    OBVIOUS
  <2> QED
    BY <2>1, <2>2, Zenon
<1>2. ASSUME NEW q \in Seq(Seq(S)), NEW e \in Seq(S), Resolve(<<>>, q) \in Seq(NamesOf(S))
      PROVE  Resolve(<<>>, Append(q, e)) \in Seq(NamesOf(S))
  <2>1. S \subseteq STRING
    OBVIOUS
  <2>2. Seq(S) \subseteq Seq(STRING)
    BY <2>1, SequencesGrow
  <2>3. q \in Seq(Seq(STRING)) /\ e \in Seq(STRING)
    BY <2>2, SequencesGrow
  <2>4. Resolve(<<>>, Append(q, e)) = Entered(Resolve(<<>>, q), e)
    BY <2>3, TopIsDirectory, ResolveOfAppend
  <2>5. Entered(Resolve(<<>>, q), e) \in Seq(NamesOf(S))
    BY <1>2, EnteredNames
  <2> QED
    BY <2>4, <2>5
<1>3. Seq(Seq(S)) \subseteq T
  <2>1. \A q \in Seq(Seq(S)) : \A e \in Seq(S) : q \in T => Append(q, e) \in T
    BY <1>2
  <2> DEFINE U == Seq(S)
  <2> HIDE DEF T, U
  <2>2. \A q \in Seq(U) : \A e \in U : q \in T => Append(q, e) \in T
    BY <2>1 DEF U
  <2>3. Seq(U) \subseteq T
    BY <1>1, <2>2, SequenceInduction
  <2> QED
    BY <2>3 DEF U
<1> QED
  BY <1>3

\* The path that names are spelled as.
PathOf(names) == FlattenSeq([i \in DOMAIN names |-> <<"/">> \o names[i]])
LEMMA PathOfEmpty == PathOf(<<>>) = <<>>
<1>1. [i \in DOMAIN <<>> |-> <<"/">> \o <<>>[i]] = <<>>
  OBVIOUS
<1> QED
  BY <1>1, FlattenIsJoins, Zenon DEF PathOf

\* One more name.
LEMMA PathOfAppend ==
    ASSUME NEW S, "/" \in S, NEW names \in Seq(Seq(S)), NEW name \in Seq(S)
    PROVE  PathOf(Append(names, name)) = PathOf(names) \o (<<"/">> \o name)
<1> DEFINE slash == <<"/">>
           parts == [i \in DOMAIN names |-> slash \o names[i]]
           longer == [i \in DOMAIN Append(names, name) |-> slash \o Append(names, name)[i]]
           n == Len(names)
           U == Seq(S)
<1>1. slash \in U
  OBVIOUS
<1>2. \A s \in U : slash \o s \in U
  BY <1>1
<1>3. names \in Seq(U) /\ name \in U /\ n \in Nat
  OBVIOUS
<1> HIDE DEF slash, U, n
<1>4. /\ Len(names) = n /\ DOMAIN names = 1 .. n /\ \A i \in 1 .. n : names[i] \in U
      /\ DOMAIN Append(names, name) = 1 .. n + 1 /\ Append(names, name)[n + 1] = name
      /\ \A i \in 1 .. n : Append(names, name)[i] = names[i]
  BY <1>3 DEF n
<1>5. parts \in Seq(U) /\ Len(parts) = n /\ \A i \in 1 .. n : parts[i] = slash \o names[i]
  <2>1. parts \in [1 .. n -> U]
    BY <1>2, <1>4
  <2> QED
    BY <1>3, <1>4, <2>1
<1>6. longer = Append(parts, slash \o name)
  <2>1. longer \in Seq(U) /\ Len(longer) = n + 1 /\ \A i \in 1 .. n + 1 : longer[i] = slash \o Append(names, name)[i]
    <3>1. \A i \in 1 .. n + 1 : slash \o Append(names, name)[i] \in U
      <4>1. ASSUME NEW i \in 1 .. n + 1 PROVE i = n + 1 \/ i \in 1 .. n
        BY <1>3
      <4> QED
        BY <1>2, <1>3, <1>4, <4>1, Zenon
    <3>2. longer \in [1 .. n + 1 -> U]
      BY <1>4, <3>1
    <3> QED
      BY <1>3, <1>4, <3>2
  <2> DEFINE more == Append(parts, slash \o name)
  <2>2. slash \o name \in U
    BY <1>2, <1>3
  <2> HIDE DEF parts, longer
  <2>3. /\ more \in Seq(U) /\ Len(more) = n + 1 /\ more[n + 1] = slash \o name
        /\ \A i \in 1 .. n : more[i] = parts[i]
    BY <1>5, <2>2
  <2>4. \A i \in 1 .. n + 1 : longer[i] = more[i]
    <3>1. ASSUME NEW i \in 1 .. n + 1 PROVE longer[i] = more[i]
      <4> HIDE DEF more
      <4>1. i = n + 1 \/ i \in 1 .. n
        BY <1>3
      <4>2. CASE i = n + 1
        BY <1>4, <2>1, <2>3, <4>2
      <4>3. CASE i \in 1 .. n
        BY <1>4, <1>5, <2>1, <2>3, <4>3
      <4> QED
        BY <4>1, <4>2, <4>3
    <3> QED
      BY <3>1
  <2> HIDE DEF more
  <2>5. longer = more
    BY <2>1, <2>3, <2>4, SeqEqual
  <2> QED
    BY <2>5 DEF more
<1>7. PathOf(names) = FlattenSeq(parts) /\ PathOf(Append(names, name)) = FlattenSeq(longer)
  BY Zenon DEF PathOf, slash
<1> HIDE DEF parts, longer
<1>8. slash \o name \in Seq(S) /\ parts \in Seq(Seq(S))
  BY <1>2, <1>3, <1>5 DEF U
<1>9. FlattenSeq(Append(parts, slash \o name)) = FlattenSeq(parts) \o (slash \o name)
  BY <1>8, FlattenOfAppend
<1> QED
  BY <1>6, <1>7, <1>9, Zenon DEF slash

\* It begins with one slash, and splits into the names behind it.
IsPathOf(names, S) ==
    /\ PathOf(names) \in Seq(S)
    /\ Segments(PathOf(names)) = << <<>> >> \o names
    /\ names # <<>> => BeginsWithOneSlash(PathOf(names))
LEMMA PathIs ==
    ASSUME NEW S, "/" \in S, NEW names \in Seq(NamesOf(S \ {"/"}))
    PROVE  IsPathOf(names, S)
<1> DEFINE N == NamesOf(S \ {"/"})
           T == {q \in Seq(N) : IsPathOf(q, S)}
           top == << <<>> >>
<1>1. /\ \A e \in N : e \in Seq(S) /\ e \in Seq(S \ {"/"}) /\ e # <<>>
      /\ <<>> \in Seq(S)
  BY DEF NamesOf
<1> HIDE DEF N
<1>2. top \in Seq(Seq(S))
  BY <1>1
<1>3. <<>> \in T
  <2>1. Segments(<<>>) = top
    BY SplitOfEmpty, Zenon DEF Segments
  <2>2. top \o <<>> = top
    BY <1>2, ConcatEmptySeq
  <2>3. IsPathOf(<<>>, S)
    BY <1>1, <2>1, <2>2, PathOfEmpty, Zenon DEF IsPathOf
  <2>4. <<>> \in Seq(N)
    OBVIOUS
  <2> QED
    BY <2>3, <2>4, Zenon
<1>4. ASSUME NEW q \in Seq(N), NEW e \in N, IsPathOf(q, S)
      PROVE  IsPathOf(Append(q, e), S)
  <2> DEFINE p == PathOf(q)
             slash == <<"/">>
             more == Append(q, e)
             name == slash \o e
  <2>1. /\ p \in Seq(S) /\ Split(p, "/") = top \o q
        /\ q # <<>> => Len(p) > 1 /\ p[1] = "/" /\ p[2] # "/"
    BY <1>4, Zenon DEF IsPathOf, Segments, BeginsWithOneSlash
  <2>2. q \in Seq(Seq(S)) /\ e \in Seq(S) /\ e \in Seq(S \ {"/"}) /\ e # <<>>
    <3>1. N \subseteq Seq(S)
      BY <1>1
    <3> QED
      BY <1>1, <3>1, SequencesGrow
  <2>3. PathOf(more) = p \o name
    BY <2>2, PathOfAppend, Zenon
  <2> HIDE DEF p
  <2>4. /\ name \in Seq(S) /\ Len(name) = 1 + Len(e) /\ Len(e) \in Nat /\ Len(e) > 0
        /\ name[1] = "/" /\ name[2] = e[1]
    BY <2>2
  <2>5. p \o name = Append(p, "/") \o e
    BY <2>1, <2>2
  <2>6. Split(p \o name, "/") = top \o more
    <3>1. Split(Append(p, "/") \o e, "/") = Append(Split(p, "/"), e)
      BY <2>1, <2>2, SplitBehind
    <3>2. Append(top \o q, e) = top \o Append(q, e)
      <4> DEFINE U == Seq(S)
      <4>1. top \in Seq(U) /\ q \in Seq(U) /\ e \in U
        BY <1>2, <2>2
      <4> HIDE DEF U
      <4>2. AppendedToJoined(top, q, e)
        BY <4>1, AppendToJoined
      <4> QED
        BY <4>2, Zenon DEF AppendedToJoined
    <3> QED
      BY <2>1, <2>5, <3>1, <3>2, Zenon
  <2> HIDE DEF name
  <2>7. p \o name \in Seq(S)
    BY <2>1, <2>4
  <2>8. BeginsWithOneSlash(p \o name)
    <3>1. CASE q = <<>>
      <4>1. p = <<>>
        BY <3>1, PathOfEmpty, Zenon DEF p
      <4>2. p \o name = name
        BY <2>4, <4>1, ConcatEmptySeq
      <4>3. e[1] # "/"
        <5>1. 1 \in 1 .. Len(e)
          BY <2>4
        <5>2. e[1] \in S \ {"/"}
          BY <2>2, <5>1
        <5> QED
          BY <5>2
      <4>4. Len(name) > 1 /\ name[1] = "/" /\ name[2] # "/"
        BY <2>4, <4>3
      <4> QED
        BY <4>2, <4>4, Zenon DEF BeginsWithOneSlash
    <3>2. CASE q # <<>>
      <4>1. Len(p) > 1 /\ p[1] = "/" /\ p[2] # "/" /\ Len(p) \in Nat
        BY <2>1, <3>2
      <4>2. Len(p \o name) > 1 /\ (p \o name)[1] = p[1] /\ (p \o name)[2] = p[2]
        BY <2>1, <2>4, <4>1
      <4> QED
        BY <4>1, <4>2, Zenon DEF BeginsWithOneSlash
    <3> QED
      BY <3>1, <3>2
  <2> QED
    BY <2>3, <2>6, <2>7, <2>8, Zenon DEF IsPathOf, Segments
<1>5. Seq(N) \subseteq T
  <2>1. ASSUME NEW q \in Seq(N), NEW e \in N, q \in T PROVE Append(q, e) \in T
    <3>1. Append(q, e) \in Seq(N)
      OBVIOUS
    <3> QED
      BY <1>4, <2>1, <3>1, Zenon
  <2> HIDE DEF T
  <2> QED
    BY <1>3, <2>1, SequenceInduction
<1> QED
  BY <1>5, Zenon DEF N

\* Names lead down from a root.
LEMMA NamesLeadDown ==
    ASSUME NEW S \in SUBSET STRING, NEW root \in Directories, NEW names \in Seq(NamesOf(S))
    PROVE  Resolve(root, << <<>> >> \o names) = root \o names
<1> DEFINE N == NamesOf(S)
           top == << <<>> >>
           T == {q \in Seq(N) : Resolve(root, top \o q) = root \o q}
           U == Seq(STRING)
<1>1. /\ \A e \in N : e \notin {<<>>, Dot, DotDot}
      /\ N \subseteq Seq(S) /\ S \subseteq STRING
  BY DEF NamesOf
<1>2. N \subseteq U
  BY <1>1, SequencesGrow, Zenon
<1>3. <<>> \in U
  OBVIOUS
<1>4. root \in Seq(U)
  BY DirectoryIs, Zenon
<1> HIDE DEF N, U
<1>5. top \in Seq(U) /\ Seq(N) \subseteq Seq(U) /\ <<>> \in Seq(U)
  BY <1>2, <1>3, SequencesGrow
<1>6. <<>> \in T
  <2>1. Append(<<>>, <<>>) = top
    OBVIOUS
  <2>2. Resolve(root, Append(<<>>, <<>>)) = Entered(Resolve(root, <<>>), <<>>)
    BY <1>3, <1>5, ResolveOfAppend DEF U
  <2>3. Entered(root, <<>>) = root
    BY DotsDiffer, Zenon DEF Entered
  <2>4. top \o <<>> = top /\ root \o <<>> = root
    BY <1>4, <1>5, ConcatEmptySeq
  <2>5. Resolve(root, top \o <<>>) = root \o <<>>
    BY <2>1, <2>2, <2>3, <2>4, ResolveOfEmpty, Zenon
  <2>6. <<>> \in Seq(N)
    OBVIOUS
  <2> QED
    BY <2>5, <2>6, Zenon
<1>7. ASSUME NEW q \in Seq(N), NEW e \in N, Resolve(root, top \o q) = root \o q
      PROVE  Resolve(root, top \o Append(q, e)) = root \o Append(q, e)
  <2>1. q \in Seq(U) /\ e \in U
    BY <1>2, <1>5
  <2>2. AppendedToJoined(top, q, e) /\ AppendedToJoined(root, q, e)
    BY <1>4, <1>5, <2>1, AppendToJoined
  <2>3. top \o q \in Seq(U)
    BY <1>5, <2>1
  <2>4. Resolve(root, Append(top \o q, e)) = Entered(Resolve(root, top \o q), e)
    BY <2>1, <2>3, ResolveOfAppend DEF U
  <2>5. Entered(root \o q, e) = Append(root \o q, e)
    <3>1. e \notin {<<>>, Dot} /\ e # DotDot
      BY <1>1
    <3> QED
      BY <3>1 DEF Entered
  <2> QED
    BY <1>7, <2>2, <2>4, <2>5, Zenon DEF AppendedToJoined
<1>8. Seq(N) \subseteq T
  <2>1. ASSUME NEW q \in Seq(N), NEW e \in N, q \in T PROVE Append(q, e) \in T
    <3>1. Append(q, e) \in Seq(N)
      OBVIOUS
    <3> QED
      BY <1>7, <2>1, <3>1, Zenon
  <2> HIDE DEF T
  <2> QED
    BY <1>6, <2>1, SequenceInduction
<1> QED
  BY <1>8, Zenon DEF N

\* In front of a delimiter there is none.
LEMMA UpToHasNone ==
    ASSUME NEW S, NEW s \in Seq(S), NEW delimiters
    PROVE  \A i \in 1 .. Len(UpTo(s, delimiters)) : UpTo(s, delimiters)[i] \notin delimiters
<1> DEFINE I == {i \in 1 .. Len(s) : s[i] \in delimiters}
           first == IF I # {} THEN Min(I) ELSE 0
           front == UpTo(s, delimiters)
<1>1. front = IF first = 0 THEN s ELSE SubSeq(s, 1, first - 1)
  BY DEF UpTo, SelectInSeq
<1>2. /\ Len(s) \in Nat /\ I \in SUBSET (1 .. Len(s))
      /\ \A i \in 1 .. Len(s) : i \notin I => s[i] \notin delimiters
  OBVIOUS
<1> HIDE DEF I, front
<1>3. CASE I = {}
  <2>1. front = s
    BY <1>1, <1>3
  <2> QED
    BY <1>2, <1>3, <2>1, Zenon DEF front
<1>4. CASE I # {}
  <2>1. \E x \in I : \A y \in I : x <= y
    BY <1>2, <1>4, LeastElement
  <2>2. Min(I) \in I /\ \A y \in I : Min(I) <= y
    BY <2>1 DEF Min
  <2>3. first \in 1 .. Len(s) /\ first # 0 /\ first = Min(I)
    <3>1. first = Min(I)
      BY <1>4, Zenon
    <3>2. Min(I) \in 1 .. Len(s)
      BY <1>2, <2>2
    <3> HIDE DEF first
    <3> QED
      BY <1>2, <3>1, <3>2
  <2>4. front = SubSeq(s, 1, first - 1)
    BY <1>1, <2>3
  <2> HIDE DEF first
  <2>5. Len(front) = first - 1 /\ \A i \in 1 .. first - 1 : front[i] = s[i]
    BY <1>2, <2>3, <2>4
  <2>6. ASSUME NEW i \in 1 .. Len(front) PROVE front[i] \notin delimiters
    <3>1. i \in 1 .. Len(s) /\ i < first /\ front[i] = s[i]
      BY <1>2, <2>3, <2>5
    <3>2. i \notin I
      BY <2>2, <2>3, <3>1
    <3> QED
      BY <1>2, <3>1, <3>2, Zenon
  <2> QED
    BY <2>6 DEF front
<1> QED
  BY <1>3, <1>4

\* Nothing in the URI that is looked up begins a query.
LEMMA UriHasNoQuery ==
    ASSUME NEW u \in Seq(Chars)
    PROVE  /\ Uri(u) \in Seq(Chars) /\ Uri(u) # <<>>
           /\ \A i \in 1 .. Len(Uri(u)) : Uri(u)[i] # "?"
<1>1. WithoutHost(u) \in Seq(Chars)
  BY WithoutHostType
<1>2. \A i \in 1 .. Len(UrlPath(u)) : UrlPath(u)[i] \notin {"?"}
  BY <1>1, UpToHasNone, Zenon DEF UrlPath
<1>3. CASE UrlPath(u) = <<>>
  <2> DEFINE slash == <<"/">>
  <2>1. Uri(u) = slash
    BY <1>3, Zenon DEF Uri
  <2>2. slash # <<>> /\ \A i \in 1 .. Len(slash) : slash[i] # "?"
    OBVIOUS
  <2> HIDE DEF slash
  <2> QED
    BY <2>1, <2>2, UriType, Zenon
<1>4. CASE UrlPath(u) # <<>>
  <2>1. Uri(u) = UrlPath(u)
    BY <1>4, Zenon DEF Uri
  <2>2. \A i \in 1 .. Len(UrlPath(u)) : UrlPath(u)[i] # "?"
    <3> DEFINE p == UrlPath(u)
    <3> HIDE DEF p
    <3>1. \A i \in 1 .. Len(p) : p[i] \notin {"?"}
      BY <1>2 DEF p
    <3>2. \A i \in 1 .. Len(p) : p[i] # "?"
      BY <3>1
    <3> QED
      BY <3>2 DEF p
  <2> QED
    BY <1>4, <2>1, <2>2, UriType, Zenon
<1> QED
  BY <1>3, <1>4

\* What lies below the root is found if it is a file.
LEMMA BelowIsFound ==
    ASSUME NEW u, IsPrefix(Root(MatchLocation(Uri(u))), FilePath(Root(MatchLocation(Uri(u))), Uri(u)))
    PROVE  LET file == FilePath(Root(MatchLocation(Uri(u))), Uri(u))
           IN  Found(u).file = IF file \in Files THEN file ELSE <<>>
<1> DEFINE location == MatchLocation(Uri(u))
           root == Root(location)
           file == FilePath(root, Uri(u))
           Reply(status, body) == [status |-> status, location |-> location, file |-> body]
<1>1. Found(u) = CASE ~IsBelow(root, file) -> Reply(403, <<>>)
          [] IsBelow(root, file) /\ ~IsFile(file) -> Reply(404, <<>>)
          [] IsBelow(root, file) /\ IsFile(file) -> Reply(200, file)
  BY DEF Found
<1>2. IsBelow(root, file)
  BY DEF IsBelow
<1> HIDE DEF location, file, root
<1>3. Found(u).file = IF file \in Files THEN file ELSE <<>>
  BY <1>1, <1>2 DEF IsFile
<1> QED
  BY <1>3 DEF file, root, location

\* What stands for itself is decoded to itself.
Selves == {c \in Chars : StandsForItself(c)}
LEMMA SelvesAre ==
    /\ Selves \subseteq Chars /\ Selves \subseteq STRING /\ "/" \in Selves
    /\ \A c \in Selves : c # "?" /\ Unescaped[c] = c
<1>1. "/" # "?"
  OBVIOUS
<1> QED
  BY <1>1, StaticFilesAssumption DEF Selves, StandsForItself
LEMMA UnquoteOfSelves ==
    ASSUME NEW p \in Seq(Selves)
    PROVE  Unquote(p) = p
<1>1. DOMAIN p = 1 .. Len(p) /\ p = [i \in 1 .. Len(p) |-> p[i]]
  OBVIOUS
<1>2. \A i \in 1 .. Len(p) : Unescaped[p[i]] = p[i]
  <2>1. \A i \in 1 .. Len(p) : p[i] \in Selves
    OBVIOUS
  <2> QED
    BY <2>1, SelvesAre, Zenon
<1>3. [i \in 1 .. Len(p) |-> Unescaped[p[i]]] = [i \in 1 .. Len(p) |-> p[i]]
  BY <1>2
<1> QED
  BY <1>1, <1>3, Zenon DEF Unquote

\* A single slash resolves to the root.
LEMMA SlashIsTheTop == Resolve(<<>>, Segments(<<"/">>)) = <<>>
<1> DEFINE slash == <<"/">>
           top == << <<>> >>
           U == Seq(STRING)
<1>1. <<>> \in Seq({"/"}) /\ Append(<<>>, "/") = slash
  OBVIOUS
<1>2. Split(slash, "/") = Extended(Split(<<>>, "/"), "/", "/")
  BY <1>1, SplitOfAppend
<1>3. Segments(slash) = Append(top, <<>>)
  BY <1>2, SplitOfEmpty DEF Segments, Extended
<1>4. <<>> \in U
  OBVIOUS
<1> HIDE DEF U
<1>5. <<>> \in Seq(U) /\ Append(<<>>, <<>>) = top /\ top \in Seq(U)
  BY <1>4
<1>6. Resolve(<<>>, top) = Entered(Resolve(<<>>, <<>>), <<>>)
  BY <1>4, <1>5, TopIsDirectory, ResolveOfAppend DEF U
<1>7. Resolve(<<>>, Append(top, <<>>)) = Entered(Resolve(<<>>, top), <<>>)
  BY <1>4, <1>5, TopIsDirectory, ResolveOfAppend DEF U
<1>8. Entered(<<>>, <<>>) = <<>>
  BY DotsDiffer, Zenon DEF Entered
<1> QED
  BY <1>3, <1>6, <1>7, <1>8, ResolveOfEmpty, TopIsDirectory, Zenon

\* However it is spelled, what a path resolves to is found, if it is a file.
IsSpelled(u) ==
    /\ Uri(u)[1] = "/" /\ ~HasHost(Uri(u))
    /\ \A j \in DOMAIN Uri(u) : StandsForItself(Decoded(u)[j])
    /\ Resolved(u) # <<>>
LEMMA SpelledIsFound ==
    ASSUME LocationsOK, NEW u \in Seq(Chars), IsSpelled(u),
           LongestPrefix(Uri(u)) = LongestPrefix(Canonical(u)),
           StaysBelow(Root(LongestPrefix(Uri(u))), u)
    PROVE  Found(u).file = Found(Canonical(u)).file
<1> DEFINE uri == Uri(u)
           decoded == Decoded(u)
           names == Resolved(u)
           path == Canonical(u)
           location == LongestPrefix(Uri(u))
           root == Root(location)
           top == << <<>> >>
<1>1. uri \in Seq(Chars) /\ UrlPath(uri) = uri /\ Uri(uri) = uri
  BY UriHasNoQuery, UrlOfPath, Zenon DEF IsSpelled
<1>2. decoded = [i \in DOMAIN uri |-> Unescaped[uri[i]]] /\ \A j \in DOMAIN uri : StandsForItself(decoded[j])
  BY Zenon DEF Decoded, IsSpelled
<1>3. names = Resolve(<<>>, Segments(decoded)) /\ path = PathOf(names)
  BY Zenon DEF Resolved, Canonical, PathOf
<1>4. Resolve(root, Segments(decoded)) = root \o names
  BY Zenon DEF StaysBelow
<1>5. names # <<>>
  BY Zenon DEF IsSpelled
<1>6. root \in Directories
  BY RootType
<1>7. MatchLocation(uri) = location /\ MatchLocation(path) = location
  BY MatchIsLongest, Zenon
<1> HIDE DEF uri, decoded, names, path, root, location
<1>8. decoded \in Seq(Selves)
  <2>1. DOMAIN uri = 1 .. Len(uri) /\ Len(uri) \in Nat
    BY <1>1
  <2>2. \A j \in 1 .. Len(uri) : decoded[j] \in Selves
    BY <1>2, <2>1 DEF Selves, StandsForItself
  <2>3. decoded \in [1 .. Len(uri) -> Selves]
    BY <1>2, <2>1, <2>2
  <2> QED
    BY <2>1, <2>3
<1>9. DecodedPath(uri) = decoded
  <2>1. Unquote(UrlPath(uri)) = decoded
    BY <1>1, <1>2, Zenon DEF Unquote
  <2>2. decoded # <<"/">>
    BY <1>3, <1>5, SlashIsTheTop, Zenon
  <2> QED
    BY <2>1, <2>2, Zenon DEF DecodedPath
<1>10. names \in Seq(NamesOf(Selves \ {"/"}))
  <2>1. Segments(decoded) \in Seq(Seq(Selves \ {"/"}))
    BY <1>8, SelvesAre, PartsHaveNoDelimiter DEF Segments, Parts
  <2>2. Selves \ {"/"} \in SUBSET STRING
    BY SelvesAre
  <2> QED
    BY <1>3, <2>1, <2>2, ResolvedNames, Zenon
<1>11. /\ path \in Seq(Selves) /\ Segments(path) = top \o names /\ BeginsWithOneSlash(path)
  <2>1. IsPathOf(names, Selves)
    BY <1>10, SelvesAre, PathIs
  <2> QED
    BY <1>3, <1>5, <2>1, Zenon DEF IsPathOf
<1>12. UrlPath(path) = path /\ Uri(path) = path
  <2>1. \A i \in 1 .. Len(path) : path[i] # "?"
    <3>1. \A i \in 1 .. Len(path) : path[i] \in Selves
      BY <1>11
    <3> QED
      BY <3>1, SelvesAre, Zenon
  <2>2. path # <<>>
    BY <1>11 DEF BeginsWithOneSlash
  <2> QED
    BY <1>11, <2>1, <2>2, OneSlashIsNoHost, UrlOfPath, Zenon
<1>13. DecodedPath(path) = path
  <2>1. path # <<"/">>
    BY <1>11 DEF BeginsWithOneSlash
  <2> QED
    BY <1>11, <1>12, <2>1, UnquoteOfSelves, Zenon DEF DecodedPath
<1>14. Resolve(root, top \o names) = root \o names
  <2>1. Selves \ {"/"} \in SUBSET STRING
    BY SelvesAre
  <2> QED
    BY <1>6, <1>10, <2>1, NamesLeadDown
<1>15. FilePath(root, uri) = root \o names /\ FilePath(root, path) = root \o names
  BY <1>4, <1>9, <1>11, <1>13, <1>14, Zenon DEF FilePath
<1>16. IsPrefix(root, root \o names)
  <2>1. root \in Seq(Seq(STRING))
    BY <1>6, DirectoryIs, Zenon
  <2>2. NamesOf(Selves \ {"/"}) \subseteq Seq(STRING)
    <3>1. Seq(Selves \ {"/"}) \subseteq Seq(STRING)
      BY SelvesAre, SequencesGrow
    <3> QED
      BY <3>1 DEF NamesOf
  <2>3. names \in Seq(Seq(STRING))
    BY <1>10, <2>2, SequencesGrow
  <2> QED
    BY <2>1, <2>3, StartsWithItself
<1> DEFINE found == IF root \o names \in Files THEN root \o names ELSE <<>>
<1>17. Found(u).file = found
  <2>1. FilePath(Root(MatchLocation(Uri(u))), Uri(u)) = root \o names /\ Root(MatchLocation(Uri(u))) = root
    BY <1>7, <1>15, Zenon DEF uri, root
  <2> QED
    BY <1>16, <2>1, BelowIsFound, Zenon
<1>18. Found(path).file = found
  <2>1. FilePath(Root(MatchLocation(Uri(path))), Uri(path)) = root \o names /\ Root(MatchLocation(Uri(path))) = root
    BY <1>7, <1>12, <1>15, Zenon DEF root
  <2> QED
    BY <1>16, <2>1, BelowIsFound, Zenon
<1> HIDE DEF found
<1>19. Found(u).file = Found(path).file
  BY <1>17, <1>18, Zenon
<1> QED
  BY <1>19, Zenon DEF path

\* Where a path chooses the location that its canonical form chooses, the file that
\* is answered with is the one that form leads to, however the path was spelled:
\* with escapes, dots or repeated slashes (match_location, _safe_file_path).
THEOREM SpellingIsResolved == Spec /\ LengthsAreTrue => []SpellingDoesNotMatterToFiles
<1>1. ASSUME Conversing, NEW i \in Answered, IsSpelled(Target(i)),
             LongestPrefix(Uri(Target(i))) = LongestPrefix(Canonical(Target(i))),
             StaysBelow(Root(LongestPrefix(Uri(Target(i)))), Target(i))
      PROVE  replies[i].file = Found(Canonical(Target(i))).file
  <2> DEFINE target == Target(i)
  <2>1. /\ LocationsOK /\ target \in Seq(Chars)
        /\ replies[i].location = Found(target).location /\ replies[i].file = Found(target).file
    BY <1>1, AnsweredTarget
  <2>2. /\ IsSpelled(target) /\ LongestPrefix(Uri(target)) = LongestPrefix(Canonical(target))
        /\ StaysBelow(Root(LongestPrefix(Uri(target))), target)
    BY <1>1
  <2> HIDE DEF target
  <2>3. Found(target).file = Found(Canonical(target)).file
    BY <2>1, <2>2, SpelledIsFound, Zenon
  <2> QED
    BY <2>1, <2>3, Zenon DEF target
<1>2. Conversing => SpellingDoesNotMatterToFiles
  BY <1>1, Zenon DEF SpellingDoesNotMatterToFiles, IsSpelled
<1> QED
  BY <1>2, RequestsAreSeparated, PTL

================================================================================
