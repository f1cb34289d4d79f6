------------------------- MODULE RecordBuffer_proofs -------------------------
(***************************************************************************)
(* Proofs about RecordBuffer, for any base and length of header, any limit *)
(* and any payloads a header can announce.                                 *)
(***************************************************************************)
EXTENDS RecordBuffer, DataInduction

-----------------------------------------------------------------------------
(* The length prefix                                                        *)

\* A quotient is determined by its product and remainder.
LEMMA QuotientIsUnique ==
    ASSUME NEW b \in Nat \ {0}, NEW q \in Nat, NEW r \in 0 .. b - 1
    PROVE  (b * q + r) \div b = q
<1> DEFINE n == b * q + r
           d == n \div b
           m == n % b
<1>1. n \in Nat
  OBVIOUS
<1>2. d \in Nat /\ m \in Nat /\ m < b /\ n = b * d + m
  <2> HIDE DEF n
  <2> QED
    BY <1>1
<1>3. b * d + m = b * q + r
  BY <1>2
<1> HIDE DEF n, d, m
<1>4. ~(d < q)
  <2> SUFFICES ASSUME d < q PROVE FALSE
    OBVIOUS
  <2>1. PICK e \in Nat : q = d + 1 + e
    <3>1. q - d - 1 \in Nat /\ q = d + 1 + (q - d - 1)
      BY <1>2
    <3> QED
      BY <3>1
  <2>2. b * q = b * d + b + b * e /\ b * e \in Nat
    BY <1>2, <2>1
  <2> QED
    BY <1>2, <1>3, <2>2
<1>5. ~(q < d)
  <2> SUFFICES ASSUME q < d PROVE FALSE
    OBVIOUS
  <2>1. PICK e \in Nat : d = q + 1 + e
    <3>1. d - q - 1 \in Nat /\ d = q + 1 + (d - q - 1)
      BY <1>2
    <3> QED
      BY <3>1
  <2>2. b * d = b * q + b + b * e /\ b * e \in Nat
    BY <1>2, <2>1
  <2> QED
    BY <1>2, <1>3, <2>2
<1>6. d = q
  BY <1>2, <1>4, <1>5
<1> QED
  BY <1>6 DEF d, n

\* The digits in front of one, and the digit, are the digits up to it.
LEMMA OneDigitMore ==
    ASSUME NEW n \in Nat, NEW p \in Nat \ {0}
    PROVE  (n \div (Base * p)) * Base + ((n \div p) % Base) = n \div p
<1> DEFINE q == n \div p
           r == n % p
           u == q \div Base
           d == q % Base
<1>1. Base \in Nat /\ Base > 1
  BY ConstantsAssumption
<1>2. q \in Nat /\ r \in Nat /\ r < p /\ n = p * q + r
  OBVIOUS
<1>3. u \in Nat /\ d \in Nat /\ d < Base /\ q = Base * u + d
  <2> HIDE DEF q
  <2> QED
    BY <1>1, <1>2
<1> HIDE DEF q, r, u, d
<1>4. /\ Base * p \in Nat \ {0}
      /\ p * d + r \in 0 .. Base * p - 1
      /\ n = (Base * p) * u + (p * d + r)
  <2>1. Base * p \in Nat /\ Base * p > 0
    BY <1>1
  <2>2. p * d + r \in Nat /\ p * d + r < p * (d + 1)
    BY <1>2, <1>3
  <2>3. PICK e \in Nat : Base = d + 1 + e
    <3>1. Base - d - 1 \in Nat /\ Base = d + 1 + (Base - d - 1)
      BY <1>1, <1>3
    <3> QED
      BY <3>1
  <2>4. Base * p = p * (d + 1) + p * e /\ p * e \in Nat
    BY <2>3, <1>3
  <2>5. n = p * (Base * u + d) + r
    BY <1>2, <1>3
  <2>6. p * (Base * u + d) = (Base * p) * u + p * d
    BY <1>1, <1>3
  <2> QED
    BY <1>1, <1>2, <1>3, <2>1, <2>2, <2>4, <2>5, <2>6
<1>5. n \div (Base * p) = u
  <2> DEFINE b == Base * p
             s == p * d + r
  <2>1. b \in Nat \ {0} /\ s \in 0 .. b - 1 /\ n = b * u + s
    BY <1>4
  <2> HIDE DEF b, s
  <2>2. n \div b = u
    BY <1>3, <2>1, QuotientIsUnique
  <2> QED
    BY <2>2 DEF b
<1> QED
  BY <1>1, <1>3, <1>5 DEF q, d

\* The powers of the base up to the header's length.
LEMMA PowerEquation ==
    /\ \A k \in 0 .. HeaderLen : Power[k] \in Nat \ {0}
    /\ Power[0] = 1
    /\ \A k \in 1 .. HeaderLen : Power[k] = Base * Power[k - 1]
<1> DEFINE n == HeaderLen
           A == Nat \ {0}
           step == [k \in Nat |-> [x \in A |-> Base * x]]
           f(g) == [k \in 0 .. n |-> IF k = 0 THEN 1 ELSE Base * g[k - 1]]
<1>1. n \in Nat /\ 1 \in A
  BY ConstantsAssumption
<1>2. \A x \in A : Base * x \in A
  BY ConstantsAssumption
<1> HIDE DEF n, A
<1>3. step \in [Nat -> [A -> A]] /\ \A k \in Nat : \A x \in A : step[k][x] = Base * x
  BY <1>2
<1>4. PICK g : IsIteration(g, A, 1, step, n)
  <2> HIDE DEF step
  <2> QED
    BY <1>1, <1>3, Iteration, Zenon
<1>5. /\ g \in [0 .. n -> A] /\ g[0] = 1
      /\ \A k \in 1 .. n : g[k] = Base * g[k - 1]
  <2> HIDE DEF step
  <2>1. g \in [0 .. n -> A] /\ g[0] = 1 /\ \A k \in 1 .. n : g[k] = step[k][g[k - 1]]
    BY <1>4 DEF IsIteration
  <2>2. ASSUME NEW k \in 1 .. n
        PROVE  g[k] = Base * g[k - 1]
    <3>1. g[k - 1] \in A /\ k \in Nat
      BY <1>1, <2>1
    <3> QED
      BY <1>3, <2>1, <3>1
  <2> QED
    BY <2>1, <2>2
<1>6. g = f(g)
  <2>1. \A k \in 0 .. n : g[k] = f(g)[k]
    BY <1>1, <1>5
  <2>2. g = [k \in 0 .. n |-> g[k]] /\ f(g) = [k \in 0 .. n |-> f(g)[k]]
    BY <1>5
  <2> HIDE DEF f
  <2> QED
    BY <2>1, <2>2
<1>7. Power = f(Power)
  BY <1>6 DEF Power, n
<1>8. Power[0] = 1 /\ \A k \in 1 .. n : Power[k] = Base * Power[k - 1]
  <2> DEFINE u == Power
  <2>1. u = f(u)
    BY <1>7
  <2> HIDE DEF u
  <2>2. \A k \in 0 .. n : f(u)[k] = IF k = 0 THEN 1 ELSE Base * u[k - 1]
    OBVIOUS
  <2>3. u[0] = 1 /\ \A k \in 1 .. n : u[k] = Base * u[k - 1]
    <3> HIDE DEF f
    <3> QED
      BY <1>1, <2>1, <2>2
  <2> QED
    BY <2>3 DEF u
<1>9. \A k \in 0 .. n : Power[k] = g[k]
  <2> HIDE DEF f
  <2>1. GoAlike(Power, g, n)
    BY <1>5, <1>8 DEF GoAlike
  <2>2. Alike(Power, g, n)
    BY <1>1, <2>1, SameIteration, Zenon
  <2> QED
    BY <2>2 DEF Alike
<1>10. \A k \in 0 .. n : Power[k] \in A
  <2> HIDE DEF f
  <2> QED
    BY <1>5, <1>9
<1> QED
  BY <1>8, <1>10 DEF n, A

\* What a header's digits come to, as far as they are read.
Value(h) ==
    CHOOSE value : value = [i \in 0 .. Len(h) |->
            IF i = 0 THEN 0 ELSE value[i - 1] * Base + h[i]]

\* value is defined: at each digit by the ones before.
LEMMA ValueEquation ==
    ASSUME NEW h \in Seq(Nat)
    PROVE  /\ Value(h)[0] = 0
           /\ \A i \in 1 .. Len(h) : Value(h)[i] = Value(h)[i - 1] * Base + h[i]
<1> DEFINE n == Len(h)
           next(i, x) == IF i \in 1 .. n THEN x * Base + h[i] ELSE x
           step == [i \in Nat |-> [x \in Nat |-> next(i, x)]]
           f(g) == [i \in 0 .. n |-> IF i = 0 THEN 0 ELSE g[i - 1] * Base + h[i]]
<1>1. n \in Nat /\ DOMAIN h = 1 .. n /\ \A i \in 1 .. n : h[i] \in Nat
  OBVIOUS
<1> HIDE DEF n
<1>2. ASSUME NEW i \in Nat, NEW x \in Nat
      PROVE  next(i, x) \in Nat
  BY <1>1, ConstantsAssumption
<1>3. /\ step \in [Nat -> [Nat -> Nat]]
      /\ \A i \in Nat : \A x \in Nat : step[i][x] = next(i, x)
  <2> HIDE DEF next
  <2> QED
    BY <1>2
<1>4. PICK g : IsIteration(g, Nat, 0, step, n)
  <2> HIDE DEF step
  <2> QED
    BY <1>1, <1>3, Iteration, Zenon
<1>5. /\ g \in [0 .. n -> Nat] /\ g[0] = 0
      /\ \A i \in 1 .. n : g[i] = g[i - 1] * Base + h[i]
  <2> HIDE DEF step
  <2>1. g \in [0 .. n -> Nat] /\ g[0] = 0 /\ \A i \in 1 .. n : g[i] = step[i][g[i - 1]]
    BY <1>4 DEF IsIteration
  <2>2. ASSUME NEW i \in 1 .. n
        PROVE  g[i] = g[i - 1] * Base + h[i]
    <3>1. g[i - 1] \in Nat /\ i \in Nat
      BY <1>1, <2>1
    <3>2. g[i] = next(i, g[i - 1])
      <4> HIDE DEF next
      <4> QED
        BY <1>3, <2>1, <3>1
    <3> QED
      BY <3>2
  <2> QED
    BY <2>1, <2>2
<1>6. g = f(g)
  <2>1. \A i \in 0 .. n : g[i] = f(g)[i]
    BY <1>1, <1>5
  <2>2. g = [i \in 0 .. n |-> g[i]] /\ f(g) = [i \in 0 .. n |-> f(g)[i]]
    BY <1>5
  <2> HIDE DEF f
  <2> QED
    BY <2>1, <2>2
<1>7. Value(h) = f(Value(h))
  BY <1>6 DEF Value, n
<1>8. Value(h)[0] = 0 /\ \A i \in 1 .. n : Value(h)[i] = Value(h)[i - 1] * Base + h[i]
  <2> DEFINE u == Value(h)
  <2>1. u = f(u)
    BY <1>7
  <2> HIDE DEF u
  <2>2. \A i \in 0 .. n : f(u)[i] = IF i = 0 THEN 0 ELSE u[i - 1] * Base + h[i]
    OBVIOUS
  <2>3. u[0] = 0 /\ \A i \in 1 .. n : u[i] = u[i - 1] * Base + h[i]
    <3> HIDE DEF f
    <3> QED
      BY <1>1, <2>1, <2>2
  <2> QED
    BY <2>3 DEF u
<1> QED
  BY <1>8 DEF n

\* Unpack is the value of the whole header.
LEMMA UnpackIsValue == \A h : Unpack(h) = Value(h)[Len(h)]
BY DEF Unpack, Value

\* A header is as many bytes as the format says.
LEMMA PackedHeader ==
    ASSUME NEW n \in Nat
    PROVE  Pack(n) \in Seq(Byte) /\ Len(Pack(n)) = HeaderLen
<1>1. ASSUME NEW i \in 1 .. HeaderLen
      PROVE  (n \div Power[HeaderLen - i]) % Base \in Byte
  <2>1. HeaderLen - i \in 0 .. HeaderLen
    BY <1>1, ConstantsAssumption
  <2>2. n \div Power[HeaderLen - i] \in Nat
    BY <2>1, PowerEquation
  <2> QED
    BY <2>2, ConstantsAssumption DEF Byte
<1>2. HeaderLen \in Nat
  BY ConstantsAssumption
<1> QED
  BY <1>1, <1>2 DEF Pack

\* A length is read as it was written, if the header can represent it.
LEMMA UnpackedPack ==
    ASSUME NEW n \in Nat, n < Power[HeaderLen]
    PROVE  Unpack(Pack(n)) = n
<1> DEFINE h == Pack(n)
           H == HeaderLen
           V == Value(h)
           T == {i \in 0 .. H : V[i] = n \div Power[H - i]}
<1>1. H \in Nat /\ Base \in Nat
  BY ConstantsAssumption
<1>2. Len(h) = H /\ h \in Seq(Nat)
  <2>1. h \in Seq(Byte) /\ Len(h) = H
    BY PackedHeader
  <2>2. \A s \in Seq(Byte) : s \in Seq(Nat)
    BY ConstantsAssumption DEF Byte
  <2> QED
    BY <2>1, <2>2
<1>3. V[0] = 0 /\ \A i \in 1 .. H : V[i] = V[i - 1] * Base + h[i]
  <2> HIDE DEF h
  <2> QED
    BY <1>2, ValueEquation
<1>4. \A i \in 1 .. H : h[i] = (n \div Power[H - i]) % Base
  BY DEF Pack
<1> HIDE DEF h, V, H
<1>5. 0 \in T
  <2>1. Power[H] \in Nat \ {0} /\ n < Power[H]
    BY PowerEquation, <1>1 DEF H
  <2>2. n \div Power[H] = 0
    <3> DEFINE p == Power[H]
    <3>1. p \in Nat \ {0} /\ n < p
      BY <2>1
    <3> HIDE DEF p
    <3>2. n \in 0 .. p - 1 /\ p * 0 + n = n
      BY <3>1
    <3>3. n \div p = 0
      BY <3>1, <3>2, QuotientIsUnique
    <3> QED
      BY <3>3 DEF p
  <2> QED
    BY <1>1, <1>3, <2>2
<1>6. ASSUME NEW i \in 1 .. H, i - 1 \in T
      PROVE  i \in T
  <2>1. /\ H - i \in 0 .. H /\ H - (i - 1) \in 1 .. H
        /\ (H - (i - 1)) - 1 = H - i /\ i \in 0 .. H
    BY <1>1
  <2> DEFINE p == Power[H - i]
  <2>2. p \in Nat \ {0} /\ Power[H - (i - 1)] = Base * p
    BY <2>1, PowerEquation DEF H
  <2>3. V[i - 1] = n \div (Base * p)
    BY <1>6, <2>2
  <2>4. V[i] = (n \div (Base * p)) * Base + ((n \div p) % Base)
    BY <1>3, <1>4, <2>3
  <2> HIDE DEF p
  <2>5. V[i] = n \div p
    BY <2>2, <2>4, OneDigitMore
  <2> QED
    BY <2>1, <2>5 DEF p
<1>7. H \in T
  <2>1. 0 .. H \subseteq T
    <3> HIDE DEF T
    <3> QED
      BY <1>1, <1>5, <1>6, BoundedInduction
  <2> QED
    BY <1>1, <2>1
<1>8. V[H] = n
  <2>1. H - H = 0 /\ Power[0] = 1
    BY <1>1, PowerEquation
  <2> QED
    BY <1>7, <2>1
<1> QED
  BY <1>2, <1>8, UnpackIsValue DEF h, V

-----------------------------------------------------------------------------
(* The stream                                                               *)

\* A frame announces its payload.
LEMMA FrameShape ==
    ASSUME NEW p \in Payloads
    PROVE  /\ p \in Seq(Byte) /\ Pack(Len(p)) \in Seq(Byte) /\ FramePayload(p) \in Seq(Byte)
           /\ Len(Pack(Len(p))) = HeaderLen /\ Len(FramePayload(p)) = HeaderLen + Len(p)
           /\ Unpack(Pack(Len(p))) = Len(p)
<1>1. p \in Seq(Byte) /\ Len(p) < Power[HeaderLen]
  BY ConstantsAssumption
<1>2. Len(p) \in Nat /\ HeaderLen \in Nat
  BY <1>1, ConstantsAssumption
<1> DEFINE h == Pack(Len(p))
<1>3. h \in Seq(Byte) /\ Len(h) = HeaderLen /\ Unpack(h) = Len(p)
  BY <1>1, <1>2, PackedHeader, UnpackedPack
<1> HIDE DEF h
<1>4. h \o p \in Seq(Byte) /\ Len(h \o p) = HeaderLen + Len(p)
  BY <1>1, <1>3
<1> QED
  BY <1>1, <1>3, <1>4 DEF h, FramePayload

\* Of a stream that begins with c, what has arrived begins with it too, once it
\* is as long.
BeginsWith(a, b, c, d, S) ==
    /\ SubSeq(a, 1, Len(c)) = c
    /\ SubSeq(a, Len(c) + 1, Len(a)) \in Seq(S)
    /\ SubSeq(a, Len(c) + 1, Len(a)) \o b = d
LEMMA WhatArrivesFirst ==
    \A S : \A a, b, c, d \in Seq(S) :
        a \o b = c \o d /\ Len(a) >= Len(c) => BeginsWith(a, b, c, d, S)
<1> SUFFICES ASSUME NEW S, NEW a \in Seq(S), NEW b \in Seq(S), NEW c \in Seq(S),
                    NEW d \in Seq(S), a \o b = c \o d, Len(a) >= Len(c)
             PROVE  BeginsWith(a, b, c, d, S)
  OBVIOUS
<1> DEFINE m == Len(a)
           k == Len(c)
           w == a \o b
           r == SubSeq(a, k + 1, m)
<1>1. m \in Nat /\ k \in Nat /\ k <= m /\ Len(b) \in Nat /\ Len(d) \in Nat
  OBVIOUS
<1>2. /\ Len(w) = m + Len(b) /\ Len(w) = k + Len(d)
      /\ \A i \in 1 .. m : w[i] = a[i]
      /\ \A i \in 1 .. Len(b) : w[m + i] = b[i]
      /\ \A i \in 1 .. k : w[i] = c[i]
      /\ \A i \in 1 .. Len(d) : w[k + i] = d[i]
  <2>1. /\ Len(a \o b) = Len(a) + Len(b)
        /\ \A i \in 1 .. Len(a) : (a \o b)[i] = a[i]
        /\ \A i \in 1 .. Len(b) : (a \o b)[Len(a) + i] = b[i]
    OBVIOUS
  <2>2. /\ Len(c \o d) = Len(c) + Len(d)
        /\ \A i \in 1 .. Len(c) : (c \o d)[i] = c[i]
        /\ \A i \in 1 .. Len(d) : (c \o d)[Len(c) + i] = d[i]
    OBVIOUS
  <2> QED
    BY <2>1, <2>2
<1>3. SubSeq(a, 1, k) = c
  <2>1. SubSeq(a, 1, k) \in Seq(S) /\ Len(SubSeq(a, 1, k)) = k
    BY <1>1
  <2>2. \A i \in 1 .. k : SubSeq(a, 1, k)[i] = a[i]
    BY <1>1
  <2>3. \A i \in 1 .. k : SubSeq(a, 1, k)[i] = c[i]
    <3> HIDE DEF w, m, k
    <3> QED
      BY <1>1, <1>2, <2>2
  <2> DEFINE s == SubSeq(a, 1, k)
  <2> HIDE DEF s
  <2>4. s \in Seq(S) /\ Len(s) = Len(c) /\ \A i \in 1 .. Len(s) : s[i] = c[i]
    BY <2>1, <2>3 DEF s
  <2>5. s = c
    BY <2>4, SeqEqual
  <2> QED
    BY <2>5 DEF s
<1>4. r \in Seq(S) /\ Len(r) = m - k /\ \A i \in 1 .. m - k : r[i] = a[k + i]
  BY <1>1
<1> HIDE DEF r
<1>5. r \o b = d
  <2>0. Grows(S)
    BY StreamGrows
  <2>1. a = c \o r
    <3>1. k \in 0 .. Len(a)
      BY <1>1
    <3>2. a = SubSeq(a, 1, k) \o SubSeq(a, k + 1, Len(a))
      BY <3>1, SplitStream
    <3> QED
      BY <1>3, <3>2 DEF r, m
  <2>2. (c \o r) \o b = c \o (r \o b) /\ r \o b \in Seq(S)
    <3>1. r \in Seq(S)
      BY <1>4
    <3> QED
      BY <2>0, <3>1, ConcatProperties, Zenon DEF Grows
  <2>3. c \o (r \o b) = c \o d
    BY <2>1, <2>2
  <2> HIDE DEF w, m, k
  <2> QED
    BY <2>2, <2>3, ConcatSimplifications, Zenon
<1> QED
  BY <1>3, <1>4, <1>5 DEF r, m, k, BeginsWith

\* The frames of the first payloads.
WireUpTo(payloads) ==
    CHOOSE upTo : upTo = [i \in 0 .. Len(payloads) |->
            IF i = 0 THEN <<>> ELSE upTo[i - 1] \o FramePayload(payloads[i])]

\* A frame behind a stream.
Behind(q, p) == q \o FramePayload(p)
LEMMA BehindType ==
    \A q \in Seq(Byte) : \A p \in Payloads : Behind(q, p) \in Seq(Byte)
<1> SUFFICES ASSUME NEW q \in Seq(Byte), NEW p \in Payloads PROVE Behind(q, p) \in Seq(Byte)
  OBVIOUS
<1> DEFINE d == FramePayload(p)
<1>1. d \in Seq(Byte)
  BY FrameShape
<1> HIDE DEF d
<1>2. q \o d \in Seq(Byte)
  BY <1>1
<1> QED
  BY <1>2 DEF Behind, d

\* upTo is defined: at each payload by the ones before.
LEMMA WireEquation ==
    ASSUME NEW s \in Seq(Payloads)
    PROVE  /\ WireUpTo(s)[0] = <<>>
           /\ \A i \in 1 .. Len(s) : WireUpTo(s)[i] = Behind(WireUpTo(s)[i - 1], s[i])
           /\ WireUpTo(s)[Len(s)] \in Seq(Byte)
<1> DEFINE n == Len(s)
           A == Seq(Byte)
           next(i, q) == IF i \in 1 .. n THEN Behind(q, s[i]) ELSE q
           step == [i \in Nat |-> [q \in A |-> next(i, q)]]
           f(g) == [i \in 0 .. n |-> IF i = 0 THEN <<>> ELSE Behind(g[i - 1], s[i])]
<1>1. n \in Nat /\ DOMAIN s = 1 .. n /\ <<>> \in A /\ \A i \in 1 .. n : s[i] \in Payloads
  OBVIOUS
<1> HIDE DEF n
<1>2. ASSUME NEW i \in Nat, NEW q \in A
      PROVE  next(i, q) \in A
  BY <1>1, BehindType
<1> HIDE DEF A
<1>3. /\ step \in [Nat -> [A -> A]]
      /\ \A i \in Nat : \A q \in A : step[i][q] = next(i, q)
  <2> HIDE DEF next
  <2> QED
    BY <1>2
<1>4. PICK g : IsIteration(g, A, <<>>, step, n)
  <2> HIDE DEF step
  <2> QED
    BY <1>1, <1>3, Iteration, Zenon
<1>5. /\ g \in [0 .. n -> A] /\ g[0] = <<>>
      /\ \A i \in 1 .. n : g[i] = Behind(g[i - 1], s[i])
  <2> HIDE DEF step
  <2>1. g \in [0 .. n -> A] /\ g[0] = <<>> /\ \A i \in 1 .. n : g[i] = step[i][g[i - 1]]
    BY <1>4 DEF IsIteration
  <2>2. ASSUME NEW i \in 1 .. n
        PROVE  g[i] = Behind(g[i - 1], s[i])
    <3>1. g[i - 1] \in A /\ i \in Nat
      BY <1>1, <2>1
    <3>2. g[i] = next(i, g[i - 1])
      <4> HIDE DEF next
      <4> QED
        BY <1>3, <2>1, <3>1
    <3> QED
      BY <3>2
  <2> QED
    BY <2>1, <2>2
<1>6. g = f(g)
  <2>1. \A i \in 0 .. n : g[i] = f(g)[i]
    BY <1>1, <1>5
  <2>2. g = [i \in 0 .. n |-> g[i]] /\ f(g) = [i \in 0 .. n |-> f(g)[i]]
    BY <1>5
  <2> HIDE DEF f
  <2> QED
    BY <2>1, <2>2
<1>7. WireUpTo(s) = f(WireUpTo(s))
  BY <1>6 DEF WireUpTo, Behind, n
<1>8. /\ WireUpTo(s)[0] = <<>>
      /\ \A i \in 1 .. n : WireUpTo(s)[i] = Behind(WireUpTo(s)[i - 1], s[i])
  <2> DEFINE u == WireUpTo(s)
  <2>1. u = f(u)
    BY <1>7
  <2> HIDE DEF u
  <2>2. \A i \in 0 .. n : f(u)[i] = IF i = 0 THEN <<>> ELSE Behind(u[i - 1], s[i])
    OBVIOUS
  <2>3. u[0] = <<>> /\ \A i \in 1 .. n : u[i] = Behind(u[i - 1], s[i])
    <3> HIDE DEF f
    <3> QED
      BY <1>1, <2>1, <2>2
  <2> QED
    BY <2>3 DEF u
<1>9. Alike(WireUpTo(s), g, n)
  <2> HIDE DEF f
  <2>1. GoAlike(WireUpTo(s), g, n)
    BY <1>5, <1>8 DEF GoAlike
  <2> QED
    BY <1>1, <2>1, SameIteration, Zenon
<1>10. WireUpTo(s)[n] \in A
  <2> HIDE DEF f
  <2>1. n \in 0 .. n
    BY <1>1
  <2> QED
    BY <1>5, <1>9, <2>1 DEF Alike
<1> QED
  BY <1>8, <1>10 DEF n, A

\* Wire is the last of it.
LEMMA WireIsUpTo == \A s : Wire(s) = WireUpTo(s)[Len(s)]
BY DEF Wire, WireUpTo

\* The wire form is of bytes; of no payloads it is empty.
LEMMA WireType ==
    /\ Wire(<<>>) = <<>>
    /\ \A s \in Seq(Payloads) : Wire(s) \in Seq(Byte)
<1>1. <<>> \in Seq(Payloads) /\ Len(<<>>) = 0
  OBVIOUS
<1> QED
  BY <1>1, WireEquation, WireIsUpTo

\* One more payload is framed behind the others.
LEMMA WireOfAppend ==
    ASSUME NEW s \in Seq(Payloads), NEW p \in Payloads
    PROVE  Wire(Append(s, p)) = Wire(s) \o FramePayload(p)
<1> DEFINE t == Append(s, p)
           n == Len(s)
<1>1. /\ t \in Seq(Payloads) /\ Len(t) = n + 1 /\ t[n + 1] = p /\ n \in Nat
      /\ \A i \in 1 .. n : t[i] = s[i]
  OBVIOUS
<1> HIDE DEF t, n
<1>2. /\ WireUpTo(t)[0] = <<>>
      /\ \A i \in 1 .. n + 1 : WireUpTo(t)[i] = Behind(WireUpTo(t)[i - 1], t[i])
  BY <1>1, WireEquation
<1>3. /\ WireUpTo(s)[0] = <<>>
      /\ \A i \in 1 .. n : WireUpTo(s)[i] = Behind(WireUpTo(s)[i - 1], s[i])
  BY <1>1, WireEquation DEF n
<1>4. \A i \in 0 .. n : WireUpTo(t)[i] = WireUpTo(s)[i]
  <2>1. GoAlike(WireUpTo(t), WireUpTo(s), n)
    BY <1>1, <1>2, <1>3 DEF GoAlike
  <2>2. Alike(WireUpTo(t), WireUpTo(s), n)
    BY <1>1, <2>1, SameIteration, Zenon
  <2> QED
    BY <2>2 DEF Alike
<1>5. WireUpTo(t)[n + 1] = Behind(WireUpTo(s)[n], p)
  BY <1>1, <1>2, <1>4
<1> QED
  BY <1>1, <1>5, WireIsUpTo DEF t, n, Behind

\* Payloads that are joined have their wire forms joined.
LEMMA WireOfConcat ==
    ASSUME NEW s \in Seq(Payloads), NEW t \in Seq(Payloads)
    PROVE  Wire(s \o t) = Wire(s) \o Wire(t)
<1> DEFINE T == {r \in Seq(Payloads) : Wire(s \o r) = Wire(s) \o Wire(r)}
<1>1. <<>> \in T
  BY WireType, ConcatEmptySeq
<1>2. ASSUME NEW r \in Seq(Payloads), NEW p \in Payloads, r \in T
      PROVE  Append(r, p) \in T
  <2>1. s \o Append(r, p) = Append(s \o r, p) /\ s \o r \in Seq(Payloads)
    OBVIOUS
  <2>2. Wire(s \o Append(r, p)) = (Wire(s) \o Wire(r)) \o FramePayload(p)
    BY <2>1, <1>2, WireOfAppend
  <2>3. (Wire(s) \o Wire(r)) \o FramePayload(p) = Wire(s) \o (Wire(r) \o FramePayload(p))
    <3>1. Wire(s) \in Seq(Byte) /\ Wire(r) \in Seq(Byte) /\ FramePayload(p) \in Seq(Byte)
      BY WireType, FrameShape
    <3>2. Grows(Byte)
      BY StreamGrows
    <3> QED
      BY <3>1, <3>2, Zenon DEF Grows
  <2>4. Wire(Append(r, p)) = Wire(r) \o FramePayload(p) /\ Append(r, p) \in Seq(Payloads)
    BY WireOfAppend
  <2> QED
    BY <2>2, <2>3, <2>4
<1>3. Seq(Payloads) \subseteq T
  <2> HIDE DEF T
  <2> QED
    BY <1>1, <1>2, SequenceInduction
<1> QED
  BY <1>3

\* The first frame, and the wire form of the others.
LEMMA WireOfHead ==
    ASSUME NEW s \in Seq(Payloads), s # <<>>
    PROVE  /\ Head(s) \in Payloads /\ Tail(s) \in Seq(Payloads)
           /\ Wire(s) = FramePayload(Head(s)) \o Wire(Tail(s))
<1>1. /\ Head(s) \in Payloads /\ Tail(s) \in Seq(Payloads)
      /\ <<Head(s)>> \in Seq(Payloads) /\ s = <<Head(s)>> \o Tail(s)
      /\ <<Head(s)>> = Append(<<>>, Head(s)) /\ <<>> \in Seq(Payloads)
  OBVIOUS
<1>2. Wire(s) = Wire(<<Head(s)>>) \o Wire(Tail(s))
  BY <1>1, WireOfConcat
<1> DEFINE p == Head(s)
<1>3. Wire(<<p>>) = FramePayload(p)
  <2>1. Wire(Append(<<>>, p)) = Wire(<<>>) \o FramePayload(p)
    BY <1>1, WireOfAppend
  <2>2. FramePayload(p) \in Seq(Byte)
    BY <1>1, FrameShape
  <2>3. <<>> \o FramePayload(p) = FramePayload(p)
    BY <2>2, ConcatEmptySeq
  <2> QED
    BY <1>1, <2>1, <2>3, WireType
<1> QED
  BY <1>1, <1>2, <1>3

-----------------------------------------------------------------------------
(* The states of the buffer                                                 *)

\* The payloads that are still to be popped, and what they are in a state.
Awaited == SubSeq(framed, Len(popped) + 1, Len(framed))
Awaits(p) ==
    /\ Len(popped) < Len(framed)
    /\ p = framed[Len(popped) + 1] /\ p \in Payloads

\* Prefixes by their elements.
LEMMA PrefixElements ==
    ASSUME NEW S, NEW s \in Seq(S), NEW t \in Seq(S)
    PROVE  IsPrefix(s, t) <=> Len(s) <= Len(t) /\ \A i \in 1 .. Len(s) : s[i] = t[i]
<1>1. ASSUME Len(s) <= Len(t)
      PROVE  SubSeq(t, 1, Len(s)) \in Seq(S) /\ Len(SubSeq(t, 1, Len(s))) = Len(s)
             /\ \A i \in 1 .. Len(s) : SubSeq(t, 1, Len(s))[i] = t[i]
  BY <1>1
<1>2. SubSeq(s, 1, Len(s)) = s
  BY SubSeqFull
<1>3. ASSUME Len(s) <= Len(t)
      PROVE  s = SubSeq(t, 1, Len(s)) <=> \A i \in 1 .. Len(s) : s[i] = t[i]
  <2> DEFINE q == SubSeq(t, 1, Len(s))
  <2>1. q \in Seq(S) /\ Len(q) = Len(s) /\ \A i \in 1 .. Len(s) : q[i] = t[i]
    BY <1>1, <1>3
  <2> HIDE DEF q
  <2>2. s = q <=> \A i \in 1 .. Len(s) : s[i] = q[i]
    BY <2>1, SeqEqual
  <2> QED
    BY <2>1, <2>2 DEF q
<1> QED
  BY <1>2, <1>3, Zenon DEF IsPrefix

\* Payloads are of bytes.
LEMMA ManyTypes == \A s \in Seq(Payloads) : s \in Seq(Seq(Byte))
<1> DEFINE A == Seq(Byte)
<1>1. Payloads \subseteq A
  BY ConstantsAssumption
<1> HIDE DEF A
<1>2. \A s \in Seq(Payloads) : s \in Seq(A)
  BY <1>1
<1> QED
  BY <1>2 DEF A

\* What is popped is framed.
LEMMA PoppedSoFar ==
    ASSUME TypeOK
    PROVE  /\ framed \in Seq(Seq(Byte)) /\ Len(framed) \in Nat /\ Len(popped) \in Nat
           /\ DOMAIN framed = 1 .. Len(framed)
           /\ IsPrefix(popped, framed) <=>
                  Len(popped) <= Len(framed) /\ \A i \in 1 .. Len(popped) : popped[i] = framed[i]
<1> DEFINE A == Seq(Byte)
<1>1. framed \in Seq(A) /\ popped \in Seq(A)
  BY ManyTypes DEF TypeOK
<1> HIDE DEF A
<1>2. /\ Len(framed) \in Nat /\ Len(popped) \in Nat /\ DOMAIN framed = 1 .. Len(framed)
  BY <1>1
<1>3. IsPrefix(popped, framed) <=>
          Len(popped) <= Len(framed) /\ \A i \in 1 .. Len(popped) : popped[i] = framed[i]
  BY <1>1, PrefixElements
<1> QED
  BY <1>1, <1>2, <1>3 DEF A

\* The buffer and what is in flight, by the payload they begin with.
LEMMA StreamShape ==
    ASSUME BufferInv
    PROVE  /\ Len(popped) <= Len(framed) /\ Awaited \in Seq(Payloads)
           /\ Len(popped) = Len(framed) => buffer = <<>>
           /\ Len(popped) < Len(framed) =>
                  \E p : /\ Awaits(p)
                         /\ SubSeq(framed, Len(popped) + 2, Len(framed)) \in Seq(Payloads)
                         /\ buffer \o stream =
                               FramePayload(p) \o Wire(SubSeq(framed, Len(popped) + 2, Len(framed)))
<1> DEFINE k == Len(popped)
           n == Len(framed)
           A == SubSeq(framed, k + 1, n)
           T == SubSeq(framed, k + 2, n)
<1>1. TypeOK /\ k \in Nat /\ n \in Nat /\ k <= n /\ framed \in Seq(Payloads)
  BY PoppedSoFar DEF BufferInv, BoundariesAreKept, TypeOK
<1>2. buffer \in Seq(Byte) /\ stream \in Seq(Byte) /\ buffer \o stream = Wire(A)
  BY DEF BufferInv, BoundariesAreKept, TypeOK
<1> HIDE DEF k
<1>3. /\ A \in Seq(Payloads) /\ Len(A) = n - k
      /\ \A i \in 1 .. n - k : A[i] = framed[k + i]
  BY <1>1
<1>4. ASSUME k = n
      PROVE  buffer = <<>>
  <2>1. A = <<>>
    BY <1>3, <1>4, <1>1
  <2>2. buffer \o stream = <<>>
    BY <1>2, <2>1, WireType
  <2> QED
    BY <1>2, <2>2, ConcatSimplifications, Zenon
<1>5. ASSUME k < n
      PROVE  \E p : /\ p = framed[k + 1] /\ p \in Payloads /\ T \in Seq(Payloads)
                    /\ buffer \o stream = FramePayload(p) \o Wire(T)
  <2>1. T \in Seq(Payloads) /\ Len(T) = n - k - 1 /\ \A i \in 1 .. n - k - 1 : T[i] = framed[k + 1 + i]
    BY <1>1, <1>5
  <2> HIDE DEF A, T, n
  <2>2. A # <<>> /\ Head(A) = framed[k + 1]
    BY <1>1, <1>3, <1>5
  <2>3. /\ Head(A) \in Payloads /\ Tail(A) \in Seq(Payloads)
        /\ Wire(A) = FramePayload(Head(A)) \o Wire(Tail(A))
    BY <1>3, <2>2, WireOfHead
  <2>4. Tail(A) = T
    <3>1. /\ Len(Tail(A)) = n - k - 1
          /\ \A i \in 1 .. n - k - 1 : Tail(A)[i] = framed[k + 1 + i]
      BY <1>1, <1>3, <1>5, <2>2
    <3>2. Len(Tail(A)) = Len(T) /\ \A i \in 1 .. Len(Tail(A)) : Tail(A)[i] = T[i]
      BY <2>1, <3>1
    <3> QED
      BY <2>1, <2>3, <3>2, SeqEqual
  <2> QED
    BY <1>2, <2>1, <2>2, <2>3, <2>4
<1> QED
  BY <1>1, <1>3, <1>4, <1>5 DEF k, Awaited, Awaits

\* What the buffer begins with: once the header is there it announces the payload
\* that comes next, and a record is that payload and leaves the others.
LEMMA BufferIsRead ==
    ASSUME BufferInv, HasHeader(buffer)
    PROVE  \E p : /\ Awaits(p) /\ Length(buffer) = Len(p)
                  /\ HasRecord(buffer) =>
                         /\ Payload(buffer) = p /\ Rest(buffer) \in Seq(Byte)
                         /\ Rest(buffer) \o stream =
                               Wire(SubSeq(framed, Len(popped) + 2, Len(framed)))
<1> DEFINE W == Wire(SubSeq(framed, Len(popped) + 2, Len(framed)))
<1>1. buffer \in Seq(Byte) /\ stream \in Seq(Byte)
  BY DEF BufferInv, TypeOK
<1>2. Len(buffer) >= HeaderLen /\ HeaderLen \in Nat \ {0}
  BY ConstantsAssumption DEF HasHeader
<1>3. Len(popped) < Len(framed)
  <2>1. Len(popped) <= Len(framed) /\ Len(popped) \in Nat /\ Len(framed) \in Nat
    BY StreamShape, PoppedSoFar DEF BufferInv
  <2>2. buffer # <<>>
    BY <1>2
  <2> QED
    BY <2>1, <2>2, StreamShape
<1>4. PICK p : Awaits(p) /\ W \in Seq(Byte) /\ buffer \o stream = FramePayload(p) \o W
  BY <1>3, StreamShape, WireType
<1> HIDE DEF W
<1> DEFINE h == Pack(Len(p))
           F == FramePayload(p)
           l == Len(p)
<1>5. /\ p \in Seq(Byte) /\ h \in Seq(Byte) /\ F \in Seq(Byte)
      /\ Len(h) = HeaderLen /\ Len(F) = HeaderLen + l /\ Unpack(h) = l /\ l \in Nat
      /\ F = h \o p
  <2>1. p \in Payloads
    BY <1>4 DEF Awaits
  <2>2. Len(p) \in Nat
    BY <2>1, ConstantsAssumption
  <2> QED
    BY <2>1, <2>2, FrameShape DEF FramePayload
<1> HIDE DEF h, F, l
<1>6. Length(buffer) = l
  <2>1. Grows(Byte)
    BY StreamGrows
  <2>2. F \o W = h \o (p \o W)
    BY <1>4, <1>5, <2>1, Zenon DEF Grows
  <2>3. p \o W \in Seq(Byte)
    BY <1>4, <1>5, ConcatProperties
  <2>4. buffer \o stream = h \o (p \o W)
    BY <1>4, <2>2 DEF F
  <2>5. SubSeq(buffer, 1, Len(h)) = h
    <3> DEFINE d == p \o W
    <3>1. /\ h \in Seq(Byte) /\ d \in Seq(Byte)
          /\ buffer \o stream = h \o d /\ Len(buffer) >= Len(h)
      BY <1>2, <1>5, <2>3, <2>4
    <3> HIDE DEF d
    <3>2. BeginsWith(buffer, stream, h, d, Byte)
      BY <1>1, <3>1, WhatArrivesFirst, Zenon
    <3> QED
      BY <3>2, Zenon DEF BeginsWith
  <2> QED
    BY <1>5, <2>5 DEF Length
<1>7. ASSUME HasRecord(buffer)
      PROVE  /\ Payload(buffer) = p /\ Rest(buffer) \in Seq(Byte)
             /\ Rest(buffer) \o stream = W
  <2>1. Len(buffer) >= Len(F)
    BY <1>5, <1>6, <1>7 DEF HasRecord
  <2>2. buffer \o stream = F \o W
    BY <1>4 DEF F
  <2>3. /\ SubSeq(buffer, 1, Len(F)) = F
        /\ SubSeq(buffer, Len(F) + 1, Len(buffer)) \in Seq(Byte)
        /\ SubSeq(buffer, Len(F) + 1, Len(buffer)) \o stream = W
    <3>1. F \in Seq(Byte) /\ W \in Seq(Byte)
      BY <1>4, <1>5
    <3>2. BeginsWith(buffer, stream, F, W, Byte)
      BY <1>1, <2>1, <2>2, <3>1, WhatArrivesFirst, Zenon
    <3> QED
      BY <3>2, Zenon DEF BeginsWith
  <2>4. Rest(buffer) = SubSeq(buffer, Len(F) + 1, Len(buffer))
    BY <1>5, <1>6 DEF Rest
  <2>5. Payload(buffer) = p
    <3> DEFINE q == SubSeq(buffer, HeaderLen + 1, HeaderLen + l)
    <3>1. q \in Seq(Byte) /\ Len(q) = l /\ \A i \in 1 .. l : q[i] = buffer[HeaderLen + i]
      <4>1. HeaderLen + l <= Len(buffer)
        BY <1>5, <2>1
      <4> HIDE DEF F, h, l
      <4> QED
        BY <1>1, <1>2, <1>5, <4>1
    <3>2. \A i \in 1 .. HeaderLen + l : buffer[i] = F[i]
      <4> DEFINE s == SubSeq(buffer, 1, HeaderLen + l)
      <4>1. s = F
        BY <1>5, <2>3
      <4>2. \A i \in 1 .. HeaderLen + l : s[i] = buffer[i]
        <5>1. HeaderLen + l <= Len(buffer) /\ HeaderLen + l \in Nat
          BY <1>2, <1>5, <2>1
        <5> QED
          BY <1>1, <5>1
      <4> QED
        BY <4>1, <4>2
    <3>3. \A i \in 1 .. l : F[HeaderLen + i] = p[i]
      <4>1. \A i \in 1 .. l : (h \o p)[HeaderLen + i] = p[i]
        BY <1>5 DEF l
      <4> QED
        BY <1>5, <4>1
    <3> HIDE DEF q
    <3>4. Len(q) = Len(p) /\ \A i \in 1 .. Len(q) : q[i] = p[i]
      <4>1. \A i \in 1 .. l : HeaderLen + i \in 1 .. HeaderLen + l
        BY <1>2, <1>5
      <4> QED
        BY <3>1, <3>2, <3>3, <4>1 DEF l
    <3>5. q = p
      BY <1>5, <3>1, <3>4, SeqEqual
    <3> QED
      BY <1>6, <3>5 DEF Payload, q
  <2> QED
    BY <2>3, <2>4, <2>5
<1> QED
  BY <1>4, <1>6, <1>7 DEF W, l

-----------------------------------------------------------------------------
(* The steps                                                                *)

Inv == BufferInv /\ OnlyOversizeIsRefused /\ NothingIsLeftBehind

\* What is written goes behind what is awaited.
LEMMA WriteKeepsInv ==
    ASSUME Inv, NEW p \in Payloads, Write(p)
    PROVE  Inv'
<1> DEFINE k == Len(popped)
           n == Len(framed)
           F == FramePayload(p)
<1>1. /\ BufferInv /\ TypeOK /\ framed \in Seq(Payloads)
      /\ framed' = Append(framed, p) /\ stream' = stream \o F
      /\ UNCHANGED <<buffer, draining, popped, refused>>
      /\ k \in Nat /\ n \in Nat /\ k <= n
  BY PoppedSoFar, StreamShape DEF Inv, BufferInv, TypeOK, Write
<1>2. /\ framed' \in Seq(Payloads) /\ Len(framed') = n + 1 /\ framed'[n + 1] = p
      /\ \A i \in 1 .. n : framed'[i] = framed[i]
  BY <1>1
<1>3. buffer \in Seq(Byte) /\ stream \in Seq(Byte) /\ F \in Seq(Byte) /\ stream' \in Seq(Byte)
  <2>1. buffer \in Seq(Byte) /\ stream \in Seq(Byte) /\ F \in Seq(Byte)
    BY <1>1, FrameShape DEF TypeOK
  <2> HIDE DEF F
  <2> QED
    BY <1>1, <2>1
<1> HIDE DEF F
<1>4. TypeOK'
  BY <1>1, <1>2, <1>3 DEF TypeOK
<1>5. Awaited' = Append(Awaited, p) /\ Awaited \in Seq(Payloads)
  <2> DEFINE A == SubSeq(framed, k + 1, n)
             B == SubSeq(framed', k + 1, n + 1)
  <2>1. A \in Seq(Payloads) /\ Len(A) = n - k /\ \A i \in 1 .. n - k : A[i] = framed[k + i]
    BY <1>1
  <2> HIDE DEF k, n
  <2>2. B \in Seq(Payloads) /\ Len(B) = n + 1 - k /\ \A i \in 1 .. n + 1 - k : B[i] = framed'[k + i]
    BY <1>1, <1>2
  <2> HIDE DEF A, B
  <2> DEFINE C == Append(A, p)
  <2>3. /\ C \in Seq(Payloads) /\ Len(C) = n - k + 1
        /\ C[n - k + 1] = p /\ \A i \in 1 .. n - k : C[i] = A[i]
    BY <2>1, <1>1
  <2> HIDE DEF C
  <2>4. ASSUME NEW i \in 1 .. n + 1 - k
        PROVE  B[i] = C[i]
    <3>1. CASE i = n - k + 1
      <4>1. k + i = n + 1
        BY <1>1, <3>1
      <4> QED
        BY <1>2, <2>2, <2>3, <3>1, <4>1
    <3>2. CASE i # n - k + 1
      <4>1. i \in 1 .. n - k /\ k + i \in 1 .. n
        BY <1>1, <3>2
      <4> QED
        BY <1>2, <2>1, <2>2, <2>3, <4>1
    <3> QED
      BY <3>1, <3>2
  <2>5. Len(B) = Len(C) /\ \A i \in 1 .. Len(B) : B[i] = C[i]
    BY <1>1, <2>2, <2>3, <2>4
  <2>6. B = C
    BY <2>2, <2>3, <2>5, SeqEqual
  <2> QED
    BY <1>1, <1>2, <2>1, <2>6 DEF Awaited, A, B, C, k, n
<1>6. (buffer \o stream = Wire(SubSeq(framed, Len(popped) + 1, Len(framed))))'
  <2>1. buffer \o stream = Wire(Awaited)
    BY <1>1 DEF BufferInv, BoundariesAreKept, Awaited
  <2>2. Wire(Append(Awaited, p)) = Wire(Awaited) \o F
    BY <1>5, WireOfAppend DEF F
  <2>3. Grows(Byte)
    BY StreamGrows
  <2>4. buffer \o (stream \o F) = (buffer \o stream) \o F
    BY <1>3, <2>3, Zenon DEF Grows
  <2>5. (buffer \o stream)' = Wire(Awaited')
    BY <1>1, <1>5, <2>1, <2>2, <2>4
  <2> QED
    BY <2>5 DEF Awaited, Wire, FramePayload, Pack
<1>7. IsPrefix(popped, framed)'
  <2>1. k <= n /\ \A i \in 1 .. k : popped[i] = framed[i]
    BY <1>1, PoppedSoFar DEF BufferInv, BoundariesAreKept
  <2>2. Len(popped') <= Len(framed') /\ \A i \in 1 .. Len(popped') : popped'[i] = framed'[i]
    BY <1>1, <1>2, <2>1
  <2>3. framed' \in Seq(Seq(Byte)) /\ popped' \in Seq(Seq(Byte))
    BY <1>4, ManyTypes DEF TypeOK
  <2> QED
    BY <2>2, <2>3, PrefixElements
<1>8. BufferInv'
  BY <1>1, <1>4, <1>6, <1>7 DEF BufferInv, BoundariesAreKept
<1>9. OnlyOversizeIsRefused'
  <2>1. k < n => framed'[k + 1] = framed[k + 1]
    BY <1>1, <1>2
  <2> QED
    BY <1>1, <1>2, <2>1 DEF Inv, OnlyOversizeIsRefused
<1>10. NothingIsLeftBehind'
  <2>1. SUFFICES ASSUME ~draining, ~refused
                 PROVE  Len(buffer) < Len(FramePayload(framed'[k + 1]))
    BY <1>1 DEF NothingIsLeftBehind
  <2>2. CASE k < n
    <3>1. framed'[k + 1] = framed[k + 1]
      BY <1>1, <1>2, <2>2
    <3>2. Len(buffer) < Len(FramePayload(framed[k + 1]))
      BY <2>1, <2>2 DEF Inv, NothingIsLeftBehind
    <3> QED
      BY <3>1, <3>2
  <2>3. CASE k = n
    <3>1. buffer = <<>> /\ framed'[k + 1] = p
      BY <1>1, <1>2, <2>3, StreamShape
    <3>2. Len(F) > 0
      BY FrameShape, ConstantsAssumption DEF F
    <3> QED
      BY <3>1, <3>2 DEF F
  <2> QED
    BY <1>1, <2>2, <2>3
<1> QED
  BY <1>8, <1>9, <1>10 DEF Inv

\* A chunk moves from the stream to the buffer.
LEMMA FeedKeepsInv ==
    ASSUME Inv, NEW n \in 1 .. Len(stream), Feed(n)
    PROVE  Inv'
<1> DEFINE c == SubSeq(stream, 1, n)
           d == SubSeq(stream, n + 1, Len(stream))
<1>1. /\ BufferInv /\ buffer \in Seq(Byte) /\ stream \in Seq(Byte)
      /\ buffer' = buffer \o c /\ stream' = d /\ draining' = TRUE /\ ~refused
      /\ UNCHANGED <<framed, popped, refused>>
  BY DEF Inv, BufferInv, TypeOK, Feed
<1>2. c \in Seq(Byte) /\ d \in Seq(Byte) /\ stream = c \o d
  <2>1. n \in 0 .. Len(stream) /\ stream \in Seq(Byte)
    BY <1>1
  <2> QED
    BY <2>1, SplitStream
<1> HIDE DEF c, d
<1>3. buffer' \in Seq(Byte) /\ (buffer \o stream)' = buffer \o stream
  <2>1. Grows(Byte)
    BY StreamGrows
  <2>2. (buffer \o c) \o d = buffer \o (c \o d)
    BY <1>1, <1>2, <2>1, Zenon DEF Grows
  <2>3. buffer \o c \in Seq(Byte)
    BY <1>1, <1>2, ConcatProperties
  <2> QED
    BY <1>1, <1>2, <2>2, <2>3
<1>4. TypeOK'
  BY <1>1, <1>2, <1>3 DEF BufferInv, TypeOK
<1>5. BoundariesAreKept'
  BY <1>1, <1>3 DEF BufferInv, BoundariesAreKept
<1> QED
  BY <1>1, <1>4, <1>5 DEF Inv, BufferInv, OnlyOversizeIsRefused, NothingIsLeftBehind

\* A record that is popped is the next payload.
LEMMA PopReturnsRecordKeepsInv ==
    ASSUME Inv, PopReturnsRecord
    PROVE  Inv'
<1> DEFINE k == Len(popped)
           n == Len(framed)
<1>1. /\ BufferInv /\ TypeOK /\ draining /\ ~refused /\ HasHeader(buffer) /\ HasRecord(buffer)
      /\ popped' = Append(popped, Payload(buffer)) /\ buffer' = Rest(buffer)
      /\ UNCHANGED <<framed, stream, draining, refused>>
  BY DEF Inv, BufferInv, PopReturnsRecord, HasRecord
<1>2. PICK p : /\ Awaits(p)
               /\ Payload(buffer) = p /\ Rest(buffer) \in Seq(Byte)
               /\ Rest(buffer) \o stream = Wire(SubSeq(framed, k + 2, n))
  BY <1>1, BufferIsRead
<1>3. /\ k \in Nat /\ n \in Nat /\ k < n /\ p = framed[k + 1] /\ p \in Seq(Byte)
      /\ popped \in Seq(Seq(Byte))
  <2>1. k \in Nat /\ n \in Nat /\ popped \in Seq(Seq(Byte))
    BY <1>1, PoppedSoFar DEF TypeOK
  <2>2. k < n /\ p = framed[k + 1] /\ p \in Seq(Byte)
    BY <1>2, ConstantsAssumption DEF Awaits
  <2> QED
    BY <2>1, <2>2
<1>4. /\ popped' \in Seq(Seq(Byte)) /\ Len(popped') = k + 1 /\ popped'[k + 1] = p
      /\ \A i \in 1 .. k : popped'[i] = popped[i]
  <2> DEFINE A == Seq(Byte)
  <2>1. popped \in Seq(A) /\ p \in A /\ popped' = Append(popped, p)
    BY <1>1, <1>2, <1>3
  <2> HIDE DEF A
  <2>2. /\ popped' \in Seq(A) /\ Len(popped') = Len(popped) + 1 /\ popped'[Len(popped) + 1] = p
        /\ \A i \in 1 .. Len(popped) : popped'[i] = popped[i]
    BY <2>1
  <2> QED
    BY <2>2 DEF A
<1>5. TypeOK'
  BY <1>1, <1>2, <1>4 DEF TypeOK
<1>6. IsPrefix(popped, framed)'
  <2>1. k <= n /\ \A i \in 1 .. k : popped[i] = framed[i]
    BY <1>1, PoppedSoFar DEF BufferInv, BoundariesAreKept
  <2>2. k + 1 <= n /\ \A i \in 1 .. k + 1 : popped'[i] = framed[i]
    <3>1. \A i \in 1 .. k + 1 : i \in 1 .. k \/ i = k + 1
      BY <1>3
    <3>2. k + 1 <= n
      BY <1>3
    <3>3. popped'[k + 1] = framed[k + 1]
      BY <1>3, <1>4
    <3>4. \A i \in 1 .. k : popped'[i] = framed[i]
      BY <1>4, <2>1
    <3> HIDE DEF k
    <3> QED
      BY <3>1, <3>2, <3>3, <3>4, Zenon
  <2>3. framed \in Seq(Seq(Byte))
    BY <1>1, PoppedSoFar
  <2>4. IsPrefix(popped', framed)
    BY <1>4, <2>2, <2>3, PrefixElements
  <2> QED
    BY <1>1, <2>4
<1>7. (buffer \o stream = Wire(SubSeq(framed, Len(popped) + 1, Len(framed))))'
  <2>1. Len(popped') + 1 = k + 2
    BY <1>3, <1>4
  <2> QED
    BY <1>1, <1>2, <2>1
<1> QED
  BY <1>1, <1>5, <1>6, <1>7
     DEF Inv, BufferInv, BoundariesAreKept, OnlyOversizeIsRefused, NothingIsLeftBehind

\* pop_record returns None when the next record is not all there.
LEMMA PopReturnsNoneKeepsInv ==
    ASSUME Inv, PopReturnsNone
    PROVE  Inv'
<1>1. /\ BufferInv /\ TypeOK /\ ~Oversize(buffer) /\ ~HasRecord(buffer) /\ draining'= FALSE
      /\ UNCHANGED <<framed, stream, buffer, popped, refused>>
  BY DEF Inv, BufferInv, PopReturnsNone
<1>2. TypeOK' /\ BoundariesAreKept' /\ OnlyOversizeIsRefused'
  BY <1>1 DEF Inv, BufferInv, TypeOK, BoundariesAreKept, OnlyOversizeIsRefused
<1>3. ASSUME Len(popped) < Len(framed)
      PROVE  Len(buffer) < Len(FramePayload(framed[Len(popped) + 1]))
  <2> DEFINE q == framed[Len(popped) + 1]
  <2>1. q \in Payloads
    BY <1>1, <1>3, StreamShape DEF Awaits
  <2>2. Len(FramePayload(q)) = HeaderLen + Len(q) /\ q \in Seq(Byte)
    BY <2>1, FrameShape
  <2> HIDE DEF q
  <2>3. Len(q) \in Nat /\ HeaderLen \in Nat /\ Len(buffer) \in Nat
    BY <1>1, <2>2, ConstantsAssumption DEF TypeOK
  <2>4. CASE ~HasHeader(buffer)
    BY <2>2, <2>3, <2>4 DEF HasHeader, q
  <2>5. CASE HasHeader(buffer)
    <3>1. Length(buffer) = Len(q)
      BY <1>1, <2>5, BufferIsRead DEF Awaits, q
    <3> QED
      BY <1>1, <2>2, <2>3, <2>5, <3>1 DEF HasRecord, q
  <2> QED
    BY <2>4, <2>5
<1> QED
  BY <1>1, <1>2, <1>3 DEF Inv, BufferInv, NothingIsLeftBehind

\* pop_record raises on the length of the next payload.
LEMMA PopRaisesKeepsInv ==
    ASSUME Inv, PopRaises
    PROVE  Inv'
<1>1. /\ BufferInv /\ Oversize(buffer) /\ refused' = TRUE /\ draining' = FALSE
      /\ UNCHANGED <<framed, stream, buffer, popped>>
  BY DEF Inv, PopRaises
<1>2. TypeOK' /\ BoundariesAreKept'
  BY <1>1 DEF BufferInv, TypeOK, BoundariesAreKept
<1>3. /\ Len(popped) < Len(framed)
      /\ Len(framed[Len(popped) + 1]) > MAX_RECORD_SIZE
  BY <1>1, BufferIsRead DEF Oversize, Awaits
<1> QED
  BY <1>1, <1>2, <1>3 DEF Inv, BufferInv, OnlyOversizeIsRefused, NothingIsLeftBehind

\* In the beginning nothing is framed.
LEMMA InitIsInv == Init => Inv
<1> SUFFICES ASSUME Init PROVE Inv
  OBVIOUS
<1>1. TypeOK
  <2>1. \A S : <<>> \in Seq(S)
    OBVIOUS
  <2> QED
    BY <2>1, Zenon DEF Init, TypeOK
<1>2. BoundariesAreKept
  <2> DEFINE e == SubSeq(<<>>, 0 + 1, 0)
  <2>1. /\ e = <<>> /\ Len(<<>>) = 0
    OBVIOUS
  <2>2. IsPrefix(<<>>, <<>>)
    BY DEF IsPrefix
  <2>3. <<>> \o <<>> = <<>>
    OBVIOUS
  <2> HIDE DEF e
  <2>4. <<>> \o <<>> = Wire(e)
    BY <2>1, <2>3, WireType, Zenon
  <2> QED
    BY <2>1, <2>2, <2>4, Zenon DEF Init, BoundariesAreKept, e
<1> QED
  BY <1>1, <1>2 DEF Init, Inv, BufferInv, OnlyOversizeIsRefused, NothingIsLeftBehind

\* Every step keeps what holds of the buffer.
LEMMA StepKeepsInv ==
    ASSUME Inv, [Next]_vars
    PROVE  Inv'
<1>1. CASE \E p \in Payloads : Write(p)
  BY <1>1, WriteKeepsInv
<1>2. CASE \E n \in 1 .. Len(stream) : Feed(n)
  BY <1>2, FeedKeepsInv
<1>3. CASE PopRecord
  BY <1>3, PopReturnsRecordKeepsInv, PopReturnsNoneKeepsInv, PopRaisesKeepsInv DEF PopRecord
<1>4. CASE UNCHANGED vars
  BY <1>4 DEF vars, Inv, BufferInv, TypeOK, BoundariesAreKept, OnlyOversizeIsRefused,
              NothingIsLeftBehind
<1> QED
  BY <1>1, <1>2, <1>3, <1>4 DEF Next

\* The invariants of RecordBuffer are inductive together.
LEMMA AlwaysInv == Spec => []Inv
<1>1. Init => Inv
  BY InitIsInv
<1>2. Inv /\ [Next]_vars => Inv'
  BY StepKeepsInv
<1> QED
  BY <1>1, <1>2, PTL DEF Spec

\* Whatever the chunks, the payloads popped are the first ones framed, and what
\* is buffered and in flight is the wire form of the others (RecordBuffer.feed,
\* pop_record, frame_payload).
THEOREM ChunksDoNotMatter == Spec => []BufferInv
<1>1. Inv => BufferInv
  BY DEF Inv
<1> QED
  BY <1>1, AlwaysInv, PTL

\* pop_record raises on a payload that is too long and on nothing else.
THEOREM RefusalsAreOversize == Spec => []OnlyOversizeIsRefused
<1>1. Inv => OnlyOversizeIsRefused
  BY DEF Inv
<1> QED
  BY <1>1, AlwaysInv, PTL

\* When the loop over pop_record is over, no complete record is left behind.
THEOREM DrainingIsComplete == Spec => []NothingIsLeftBehind
<1>1. Inv => NothingIsLeftBehind
  BY DEF Inv
<1> QED
  BY <1>1, AlwaysInv, PTL
=============================================================================
