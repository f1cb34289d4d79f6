-------------------------- MODULE EventLoop_proofs --------------------------
(***************************************************************************)
(* Proofs about EventLoop, for any number of connections, of plain and of  *)
(* TLS clients, any streams they may send and any capacity of the kernel's *)
(* buffers.                                                                *)
(***************************************************************************)
EXTENDS EventLoop, DataInduction

-----------------------------------------------------------------------------
(* What a stream of units holds of the exchange.  Exchange iterates over    *)
(* the positions of the stream; UpTo is the function it iterates.           *)

UpTo(stream) ==
    CHOOSE upTo : upTo = [i \in 0 .. Len(stream) |->
            IF i = 0 THEN <<>> ELSE Extended(upTo[i - 1], stream[i])]

\* upTo is defined: at each place by the one before.
LEMMA UpToEquation ==
    ASSUME NEW S, NEW s \in Seq(S)
    PROVE  /\ UpTo(s)[0] = <<>>
           /\ \A i \in 1 .. Len(s) : /\ UpTo(s)[i - 1] \in Seq(S)
                                     /\ UpTo(s)[i] = Extended(UpTo(s)[i - 1], s[i])
           /\ UpTo(s)[Len(s)] \in Seq(S)
<1> DEFINE n == Len(s)
           next(i, q) == IF i \in 1 .. n THEN Extended(q, s[i]) ELSE q
           step == [i \in Nat |-> [q \in Seq(S) |-> next(i, q)]]
           f(g) == [i \in 0 .. n |-> IF i = 0 THEN <<>> ELSE Extended(g[i - 1], s[i])]
<1>1. n \in Nat /\ DOMAIN s = 1 .. n /\ <<>> \in Seq(S)
  OBVIOUS
<1>2. ASSUME NEW i \in Nat, NEW q \in Seq(S)
      PROVE  next(i, q) \in Seq(S)
  BY <1>1 DEF Extended
<1> HIDE DEF n
<1>3. /\ step \in [Nat -> [Seq(S) -> Seq(S)]]
      /\ \A i \in Nat : \A q \in Seq(S) : step[i][q] = next(i, q)
  <2> HIDE DEF next
  <2> QED
    BY <1>2
<1>4. PICK g : IsIteration(g, Seq(S), <<>>, step, n)
  <2> HIDE DEF step
  <2> QED
    BY <1>1, <1>3, Iteration, Zenon
<1>5. /\ g \in [0 .. n -> Seq(S)] /\ g[0] = <<>>
      /\ \A i \in 1 .. n : g[i - 1] \in Seq(S) /\ g[i] = Extended(g[i - 1], s[i])
  <2> HIDE DEF step
  <2>1. g \in [0 .. n -> Seq(S)] /\ g[0] = <<>> /\ \A i \in 1 .. n : g[i] = step[i][g[i - 1]]
    BY <1>4 DEF IsIteration
  <2>2. ASSUME NEW i \in 1 .. n
        PROVE  g[i - 1] \in Seq(S) /\ g[i] = Extended(g[i - 1], s[i])
    <3>1. g[i - 1] \in Seq(S)
      BY <1>1, <2>1
    <3>2. g[i] = next(i, g[i - 1])
      <4> HIDE DEF next
      <4> QED
        BY <1>1, <1>3, <2>1, <3>1
    <3> QED
      BY <3>1, <3>2
  <2> QED
    BY <2>1, <2>2
<1>6. g = f(g)
  <2>1. \A i \in 0 .. n : g[i] = f(g)[i]
    BY <1>1, <1>5
  <2>2. g = [i \in 0 .. n |-> g[i]] /\ f(g) = [i \in 0 .. n |-> f(g)[i]]
    BY <1>5
  <2> HIDE DEF f
  <2> QED
    BY <2>1, <2>2
<1>7. UpTo(s) = f(UpTo(s))
  BY <1>6 DEF UpTo, n
<1>8. /\ UpTo(s)[0] = <<>>
      /\ \A i \in 1 .. n : UpTo(s)[i] = Extended(UpTo(s)[i - 1], s[i])
  <2> DEFINE u == UpTo(s)
  <2>1. u = f(u)
    BY <1>7
  <2> HIDE DEF u
  <2>2. \A i \in 0 .. n : f(u)[i] = IF i = 0 THEN <<>> ELSE Extended(u[i - 1], s[i])
    OBVIOUS
  <2>3. u[0] = <<>> /\ \A i \in 1 .. n : u[i] = Extended(u[i - 1], s[i])
    <3> HIDE DEF f
    <3> QED
      BY <1>1, <2>1, <2>2
  <2> QED
    BY <2>3 DEF u
<1>9. \A i \in 0 .. n : UpTo(s)[i] = g[i]
  <2> HIDE DEF f
  <2>1. GoAlike(UpTo(s), g, n)
    BY <1>5, <1>8 DEF GoAlike
  <2>2. Alike(UpTo(s), g, n)
    BY <1>1, <2>1, SameIteration, Zenon
  <2> QED
    BY <2>2 DEF Alike
<1>10. /\ \A i \in 1 .. n : UpTo(s)[i - 1] \in Seq(S)
       /\ UpTo(s)[n] \in Seq(S)
  <2> HIDE DEF f
  <2>1. \A i \in 0 .. n : g[i] \in Seq(S)
    BY <1>5
  <2>2. \A i \in 0 .. n : UpTo(s)[i] \in Seq(S)
    BY <1>9, <2>1
  <2> QED
    BY <1>1, <2>2
<1> QED
  BY <1>8, <1>10 DEF n

\* Exchange is the last of it.
LEMMA ExchangeIsUpTo == \A s : Exchange(s) = UpTo(s)[Len(s)]
BY DEF Exchange, UpTo

\* Nothing was exchanged in an empty stream.
LEMMA ExchangeOfEmpty == Exchange(<<>>) = <<>>
<1>1. <<>> \in Seq({})
  OBVIOUS
<1> QED
  BY <1>1, UpToEquation, ExchangeIsUpTo

\* What is exchanged is of the stream's type.
LEMMA ExchangeType ==
   ASSUME NEW S, NEW s \in Seq(S)
   PROVE Exchange(s) \in Seq(S)
BY UpToEquation, ExchangeIsUpTo

\* One more unit extends the exchange.
LEMMA ExchangeOfAppend ==
   ASSUME NEW S, NEW s \in Seq(S), NEW u \in S
   PROVE Exchange(Append(s, u)) = Extended(Exchange(s), u)
<1> DEFINE t == Append(s, u)
           n == Len(s)
<1>1. t \in Seq(S) /\ Len(t) = n + 1 /\ t[n + 1] = u /\ n \in Nat /\ \A i \in 1 .. n : t[i] = s[i]
  OBVIOUS
<1> HIDE DEF t, n
<1>2. /\ UpTo(t)[0] = <<>>
      /\ \A i \in 1 .. n + 1 : UpTo(t)[i] = Extended(UpTo(t)[i - 1], t[i])
  BY <1>1, UpToEquation, SMTT(30)
<1>3. /\ UpTo(s)[0] = <<>>
      /\ \A i \in 1 .. n : UpTo(s)[i] = Extended(UpTo(s)[i - 1], s[i])
  BY <1>1, UpToEquation DEF n
<1>4. \A i \in 0 .. n : UpTo(t)[i] = UpTo(s)[i]
  <2>1. GoAlike(UpTo(t), UpTo(s), n)
    BY <1>1, <1>2, <1>3 DEF GoAlike
  <2>2. Alike(UpTo(t), UpTo(s), n)
    BY <1>1, <2>1, SameIteration, Zenon
  <2> QED
    BY <2>2 DEF Alike
<1>5. UpTo(t)[n + 1] = Extended(UpTo(s)[n], u)
  BY <1>1, <1>2, <1>4
<1> QED
  BY <1>1, <1>5, ExchangeIsUpTo DEF t, n

\* Extending the second of two exchanges extends them both.
ExtendsBehind(S) ==
    \A s, t \in Seq(S) : \A u \in S : Extended(s \o t, u) = s \o Extended(t, u)
\* Whatever the streams are of, extending behind extends the whole.
LEMMA ExtendedConcat == \A S : ExtendsBehind(S)
<1> SUFFICES ASSUME NEW S, NEW s \in Seq(S), NEW t \in Seq(S), NEW u \in S
             PROVE  Extended(s \o t, u) = s \o Extended(t, u)
  BY DEF ExtendsBehind
<1>1. Append(s \o t, u) = s \o Append(t, u)
  OBVIOUS
<1> QED
  BY <1>1 DEF Extended

\* Streams that are joined join their exchanges: how reads split them does not
\* matter.
LEMMA ExchangeOfConcat ==
   ASSUME NEW S, NEW s \in Seq(S), NEW t \in Seq(S)
   PROVE Exchange(s \o t) = Exchange(s) \o Exchange(t)
<1> DEFINE T == {r \in Seq(S) : Exchange(s \o r) = Exchange(s) \o Exchange(r)}
<1>1. <<>> \in T
  BY ExchangeOfEmpty, ExchangeType
<1>2. ASSUME NEW r \in Seq(S), NEW u \in S, r \in T
      PROVE  Append(r, u) \in T
  <2>1. s \o Append(r, u) = Append(s \o r, u) /\ s \o r \in Seq(S)
    OBVIOUS
  <2>2. Exchange(s \o Append(r, u)) = Extended(Exchange(s) \o Exchange(r), u)
    BY <2>1, <1>2, ExchangeOfAppend
  <2>3. Extended(Exchange(s) \o Exchange(r), u) = Exchange(s) \o Extended(Exchange(r), u)
    <3>1. Exchange(s) \in Seq(S) /\ Exchange(r) \in Seq(S)
      BY ExchangeType
    <3>2. ExtendsBehind(S)
      BY ExtendedConcat
    <3> QED
      BY <3>1, <3>2, Zenon DEF ExtendsBehind
  <2>4. Exchange(Append(r, u)) = Extended(Exchange(r), u) /\ Append(r, u) \in Seq(S)
    BY ExchangeOfAppend
  <2> QED
    BY <2>2, <2>3, <2>4
<1>3. Seq(S) \subseteq T
  <2> HIDE DEF T
  <2> QED
    BY <1>1, <1>2, SequenceInduction
<1> QED
  BY <1>3

\* A unit that is not of the exchange leaves no trace in it.
LEMMA ExchangeOfOthers ==
    ASSUME NEW S, \A u \in S : ~IsExchanged(u), NEW s \in Seq(S)
    PROVE  Exchange(s) = <<>>
<1> DEFINE T == {r \in Seq(S) : Exchange(r) = <<>>}
<1>1. <<>> \in T
  BY ExchangeOfEmpty
<1>2. ASSUME NEW r \in Seq(S), NEW u \in S, r \in T
      PROVE  Append(r, u) \in T
  BY <1>2, ExchangeOfAppend DEF Extended
<1>3. Seq(S) \subseteq T
  <2> HIDE DEF T
  <2> QED
    BY <1>1, <1>2, SequenceInduction
<1> QED
  BY <1>3

\* A stream of one unit.
LEMMA ExchangeOfOne ==
    ASSUME NEW S, NEW u \in S
    PROVE  Exchange(<<u>>) = IF IsExchanged(u) THEN <<u>> ELSE <<>>
<1>1. <<>> \in Seq(S) /\ Append(<<>>, u) = <<u>>
  OBVIOUS
<1>2. Exchange(Append(<<>>, u)) = Extended(Exchange(<<>>), u)
  BY <1>1, ExchangeOfAppend
<1> QED
  BY <1>1, <1>2, ExchangeOfEmpty DEF Extended

\* The first unit, and the rest.
LEMMA ExchangeOfHead ==
    ASSUME NEW S, NEW s \in Seq(S), s # <<>>
    PROVE  /\ Head(s) \in S /\ Tail(s) \in Seq(S) /\ s = <<Head(s)>> \o Tail(s)
           /\ Exchange(s) = Exchange(<<Head(s)>>) \o Exchange(Tail(s))
<1>1. Head(s) \in S /\ Tail(s) \in Seq(S) /\ s = <<Head(s)>> \o Tail(s) /\ <<Head(s)>> \in Seq(S)
  OBVIOUS
<1> QED
  BY <1>1, ExchangeOfConcat

-----------------------------------------------------------------------------
(* One connection.  What LoopInv says of its context alone, and what the    *)
(* methods of WebServer do to it.                                           *)

SoundContext(c, ctx) ==
    /\ ctx \in Context
    /\ ctx.phase = "open" =>
           /\ ctx.interest = IF ctx.output_buffer = <<>> THEN {"READ"} ELSE {"READ", "WRITE"}
           /\ ctx.closing_after_write => ctx.output_buffer # <<>>
    /\ ctx.phase # "open" => ctx.interest = {}
    /\ ctx.phase \in {"none", "backlog"} =>
           /\ ctx.queued = <<>> /\ ctx.http_input = <<>>
           /\ ~ctx.closing_after_write
    /\ c \in TLSConns <=> ctx.tls # "plain"
    /\ ctx.written \o ctx.output_buffer = ctx.queued

SameOutput(ctx, q) ==
    /\ q.output_buffer = ctx.output_buffer
    /\ q.queued = ctx.queued
    /\ q.written = ctx.written

\* A read changes http_input and nothing else.
LEMMA ReadContext ==
    ASSUME NEW c, NEW ctx, SoundContext(c, ctx), ctx.phase = "open", NEW input \in Seq(Unit)
    PROVE  LET q == [ctx EXCEPT !.http_input = input] IN
           /\ SoundContext(c, q) /\ SameOutput(ctx, q)
           /\ q.phase = "open" /\ q.http_input = input
BY DEF SoundContext, SameOutput, Context

\* The session comes up: the connection was one of TLS before.
LEMMA EstablishedContext ==
    ASSUME NEW c, NEW ctx, SoundContext(c, ctx), ctx.phase = "open", ctx.tls # "plain"
    PROVE  LET q == [ctx EXCEPT !.tls = "ESTABLISHED"] IN
           /\ SoundContext(c, q) /\ SameOutput(ctx, q)
           /\ q.phase = "open" /\ q.http_input = ctx.http_input
BY DEF SoundContext, SameOutput, Context

\* _close_connection keeps what the connection has exchanged.
LEMMA ClosedContext ==
    ASSUME NEW c, NEW ctx, SoundContext(c, ctx), ctx.phase # "none"
    PROVE  LET q == CloseConnection(ctx) IN
           /\ SoundContext(c, q) /\ SameOutput(ctx, q)
           /\ q.phase = "closed" /\ q.http_input = ctx.http_input
BY DEF SoundContext, SameOutput, CloseConnection, Context, Mask

\* At the end of the stream the connection is closed, or marked to be closed
\* when the output that is still buffered has left.
LEMMA EndedContext ==
    ASSUME NEW c, NEW ctx, SoundContext(c, ctx), ctx.phase = "open"
    PROVE  LET q == EndOfStream(ctx) IN
           /\ SoundContext(c, q) /\ SameOutput(ctx, q) /\ q.http_input = ctx.http_input
           /\ q.phase # "open" => q.phase = "closed" /\ q.output_buffer = <<>>
<1>1. CASE ctx.output_buffer = <<>>
  BY <1>1, ClosedContext DEF EndOfStream, SameOutput
<1>2. CASE ctx.output_buffer # <<>>
  <2> DEFINE q == [ctx EXCEPT !.closing_after_write = TRUE]
  <2>1. /\ q \in Context /\ q.phase = "open" /\ q.tls = ctx.tls /\ q.interest = ctx.interest
        /\ SameOutput(ctx, q) /\ q.http_input = ctx.http_input
    BY DEF SoundContext, SameOutput, Context
  <2>2. EndOfStream(ctx) = q
    BY <1>2 DEF EndOfStream
  <2> HIDE DEF q
  <2>3. SoundContext(c, q)
    BY <1>2, <2>1 DEF SoundContext, SameOutput
  <2> QED
    BY <2>1, <2>2, <2>3, Zenon
<1> QED
  BY <1>1, <1>2

\* Queued output is behind what was queued before, and is watched for.
LEMMA QueuedContext ==
    ASSUME NEW c, NEW ctx, SoundContext(c, ctx), ctx.phase = "open", NEW data \in Seq(Output)
    PROVE  LET q == QueueOutput(ctx, data) IN
           /\ SoundContext(c, q)
           /\ q.phase = "open" /\ q.http_input = ctx.http_input
           /\ q.queued = ctx.queued \o data /\ q.written = ctx.written
           /\ q.output_buffer = ctx.output_buffer \o data
<1> DEFINE q == QueueOutput(ctx, data)
<1>1. /\ ctx.output_buffer \in Seq(Output) /\ ctx.queued \in Seq(Output)
      /\ ctx.written \in Seq(Output)
  BY DEF SoundContext, Context
<1>2. CASE data = <<>>
  <2>1. QueueOutput(ctx, data) = ctx
    BY <1>2 DEF QueueOutput
  <2>2. ctx.queued = ctx.queued \o data /\ ctx.output_buffer = ctx.output_buffer \o data
    BY <1>1, <1>2
  <2> QED
    BY <2>1, <2>2
<1>3. CASE data # <<>>
  <2>1. /\ ctx.output_buffer \o data \in Seq(Output) /\ ctx.output_buffer \o data # <<>>
        /\ ctx.queued \o data \in Seq(Output)
    BY <1>1, <1>3
  <2>2. ctx.written \o (ctx.output_buffer \o data) = ctx.queued \o data
    <3>1. ctx.written \o ctx.output_buffer = ctx.queued
      BY DEF SoundContext
    <3>2. Grows(Output)
      BY StreamGrows
    <3>3. (ctx.written \o ctx.output_buffer) \o data = ctx.written \o (ctx.output_buffer \o data)
      BY <1>1, <3>2, Zenon DEF Grows
    <3> QED
      BY <3>1, <3>3
  <2> QED
    BY <1>3, <2>1, <2>2 DEF QueueOutput, SoundContext, Context, Mask
<1> QED
  BY <1>2, <1>3

\* _flush_output after send().
LEMMA FlushedContext ==
    ASSUME NEW c, NEW s \in Context, s.phase = "open", s.interest = {"READ", "WRITE"},
           c \in TLSConns <=> s.tls # "plain", s.written \o s.output_buffer = s.queued
    PROVE  LET q == Flushed(s) IN
           /\ SoundContext(c, q) /\ q.http_input = s.http_input /\ q.queued = s.queued
           /\ q.written = s.written
           /\ q.phase # "open" => q.phase = "closed" /\ q.output_buffer = <<>>
<1>1. CASE s.output_buffer # <<>>
  <2>1. SoundContext(c, s)
    BY <1>1 DEF SoundContext
  <2>2. Flushed(s) = s
    BY <1>1 DEF Flushed
  <2> QED
    BY <2>1, <2>2, Zenon
<1>2. CASE s.output_buffer = <<>> /\ s.closing_after_write
  BY <1>2 DEF Flushed, CloseConnection, SoundContext, Context, Mask
<1>3. CASE s.output_buffer = <<>> /\ ~s.closing_after_write
  BY <1>3 DEF Flushed, SoundContext, Context, Mask
<1> QED
  BY <1>1, <1>2, <1>3

\* A send() moves the head of the buffer to what was written; a connection
\* that is to be closed is closed when nothing is left.
LEMMA SentContext ==
    ASSUME NEW c, NEW ctx, SoundContext(c, ctx), ctx.phase = "open",
           NEW n \in 1 .. Len(ctx.output_buffer)
    PROVE  LET sent == SubSeq(ctx.output_buffer, 1, n)
               q == Flushed([ctx EXCEPT !.output_buffer = Remaining(@, n),
                                        !.written = @ \o sent])
           IN  /\ SoundContext(c, q)
               /\ q.http_input = ctx.http_input /\ q.queued = ctx.queued
               /\ sent \in Seq(Output) /\ q.written = ctx.written \o sent
               /\ q.phase # "open" => q.phase = "closed" /\ q.output_buffer = <<>>
<1> DEFINE buffer == ctx.output_buffer
           sent == SubSeq(buffer, 1, n)
           rest == Remaining(buffer, n)
           s == [ctx EXCEPT !.output_buffer = rest, !.written = ctx.written \o sent]
           q == Flushed(s)
<1>1. ctx \in Context /\ buffer \in Seq(Output) /\ ctx.written \in Seq(Output)
  BY DEF SoundContext, Context
<1>2. sent \in Seq(Output) /\ rest \in Seq(Output) /\ buffer = sent \o rest /\ buffer # <<>>
  BY <1>1, SplitStream DEF Remaining
<1>3. (ctx.written \o sent) \o rest = ctx.queued /\ ctx.written \o sent \in Seq(Output)
  <2>1. ctx.written \o buffer = ctx.queued
    BY DEF SoundContext
  <2> DEFINE w == ctx.written
  <2>2. w \in Seq(Output) /\ w \o (sent \o rest) = ctx.queued
    BY <1>1, <1>2, <2>1
  <2> HIDE DEF w, sent, rest
  <2>5. Grows(Output)
    BY StreamGrows
  <2>3. (w \o sent) \o rest = w \o (sent \o rest)
    BY <1>2, <2>2, <2>5, Zenon DEF Grows
  <2>4. w \o sent \in Seq(Output)
    BY <1>2, <2>2
  <2> QED
    BY <2>2, <2>3, <2>4 DEF w
<1>4. /\ s \in Context /\ s.phase = "open" /\ s.http_input = ctx.http_input
      /\ s.tls = ctx.tls /\ s.closing_after_write = ctx.closing_after_write
      /\ s.queued = ctx.queued /\ s.written = ctx.written \o sent /\ s.output_buffer = rest
      /\ s.interest = {"READ", "WRITE"}
  <2> HIDE DEF sent, rest
  <2> QED
    BY <1>1, <1>2, <1>3 DEF Context, SoundContext
<1>5. q = Flushed([ctx EXCEPT !.output_buffer = Remaining(@, n), !.written = @ \o sent])
  OBVIOUS
<1>6. (c \in TLSConns <=> ctx.tls # "plain") /\ s.written \o s.output_buffer = s.queued
  BY <1>3, <1>4 DEF SoundContext
<1> HIDE DEF s, sent, rest
<1>7. /\ SoundContext(c, q) /\ q.http_input = s.http_input /\ q.queued = s.queued
      /\ q.written = s.written
      /\ q.phase # "open" => q.phase = "closed" /\ q.output_buffer = <<>>
  BY <1>4, <1>6, FlushedContext
<1> QED
  BY <1>2, <1>4, <1>5, <1>7 DEF sent

\* The first request that is complete or refused, and what is behind it.  No
\* part in front of it is exchanged.
LEMMA FirstRequest ==
    ASSUME NEW input \in Seq(Unit), HasRequest(input)
    PROVE  /\ Request(input) \in Unit /\ Request(input).kind # "part"
           /\ Reduced(input) \in Seq(Unit)
           /\ Exchange(input) = Exchange(<<Request(input)>>) \o Exchange(Reduced(input))
<1> DEFINE T == {i \in 1 .. Len(input) : input[i].kind # "part"}
           n == RequestEnd(input)
           Parts == {u \in Unit : u.kind = "part"}
<1>1. T \in SUBSET Nat /\ T # {}
  BY DEF HasRequest
<1>2. PICK m \in T : \A k \in T : m <= k
  BY <1>1, LeastElement
<1>3. m \in DOMAIN input /\ input[m].kind # "part" /\ \A j \in 1 .. m - 1 : input[j].kind = "part"
  BY <1>2
<1>4. /\ n \in DOMAIN input /\ input[n].kind # "part"
      /\ \A j \in 1 .. n - 1 : input[j].kind = "part"
  BY <1>3 DEF RequestEnd
<1> DEFINE parts == SubSeq(input, 1, n - 1)
           behind == SubSeq(input, n, Len(input))
<1> HIDE DEF n
<1>5. n \in 1 .. Len(input) /\ input[n] \in Unit
  BY <1>4
<1>6. parts \in Seq(Parts) /\ behind \in Seq(Unit)
  <2>1. Len(parts) = n - 1 /\ \A i \in 1 .. n - 1 : parts[i] = input[i]
    BY <1>5
  <2>2. parts \in Seq(Unit) /\ behind \in Seq(Unit)
    BY <1>5
  <2>3. \A i \in 1 .. n - 1 : input[i] \in Parts
    BY <1>4, <1>5
  <2> HIDE DEF parts, Parts
  <2>4. parts \in Seq(Parts)
    BY <1>5, <2>1, <2>2, <2>3
  <2> QED
    BY <2>2, <2>4
<1>7. Head(behind) = input[n] /\ Tail(behind) = SubSeq(input, n + 1, Len(input))
  <2>1. Len(input) \in n .. Len(input)
    BY <1>5
  <2> QED
    BY <1>5, <2>1, HeadTailOfSubSeq, Zenon
<1>8. parts \o behind = input /\ parts \in Seq(Unit)
  <2> DEFINE k == n - 1
  <2>1. k \in 0 .. Len(input) /\ k + 1 = n
    BY <1>5
  <2> HIDE DEF k
  <2>2. /\ SubSeq(input, 1, k) \in Seq(Unit)
        /\ input = SubSeq(input, 1, k) \o SubSeq(input, k + 1, Len(input))
    BY <2>1, SplitStream, Zenon
  <2> QED
    BY <2>1, <2>2, Zenon DEF k
<1>9. Exchange(parts) = <<>>
  <2>1. \A u \in Parts : ~IsExchanged(u)
    BY DEF IsExchanged
  <2> HIDE DEF parts, Parts
  <2> QED
    BY <1>6, <2>1, ExchangeOfOthers
<1>10. Exchange(input) = Exchange(behind)
  <2> HIDE DEF parts, behind
  <2>1. Exchange(input) = Exchange(parts) \o Exchange(behind) /\ Exchange(behind) \in Seq(Unit)
    BY <1>6, <1>8, ExchangeOfConcat, ExchangeType
  <2> QED
    BY <1>9, <2>1
<1>12. Len(behind) = Len(input) - n + 1 /\ Len(behind) > 0 /\ behind # <<>>
  BY <1>5
<1>11. /\ Tail(behind) \in Seq(Unit)
       /\ Exchange(behind) = Exchange(<<input[n]>>) \o Exchange(Tail(behind))
  <2> HIDE DEF behind
  <2> QED
    BY <1>6, <1>7, <1>12, ExchangeOfHead
<1> QED
  BY <1>4, <1>5, <1>7, <1>10, <1>11 DEF Request, Reduced, n

-----------------------------------------------------------------------------
(* What the requests that wait are, when they move from the kernel to the   *)
(* session, to http_input and to their answers.  Join and Nothing keep the  *)
(* provers from looking into sequences where their laws are enough.         *)

Nothing == <<>>
Join(s, t) == s \o t
JoinLaws(S) ==
    /\ Nothing \in Seq(S)
    /\ \A a \in Seq(S) : Join(a, Nothing) = a /\ Join(Nothing, a) = a
    /\ \A a, b \in Seq(S) : Join(a, b) \in Seq(S)
    /\ \A a, b, d \in Seq(S) : Join(Join(a, b), d) = Join(a, Join(b, d))
ExchangeLaws(S) ==
    /\ JoinLaws(S)
    /\ Exchange(Nothing) = Nothing
    /\ \A a \in Seq(S) : Exchange(a) \in Seq(S)
    /\ \A a, b \in Seq(S) : Exchange(Join(a, b)) = Join(Exchange(a), Exchange(b))

\* Streams are joined like any sequences, and so is what is exchanged in them.
LEMMA StreamLaws == \A S : ExchangeLaws(S)
<1> SUFFICES ASSUME NEW S PROVE ExchangeLaws(S)
  OBVIOUS
<1>1. /\ <<>> \in Seq(S)
      /\ \A a \in Seq(S) : a \o <<>> = a /\ <<>> \o a = a
      /\ \A a, b \in Seq(S) : a \o b \in Seq(S)
      /\ \A a, b, d \in Seq(S) : (a \o b) \o d = a \o (b \o d)
  OBVIOUS
<1>2. JoinLaws(S)
  BY <1>1, Zenon DEF JoinLaws, Join, Nothing
<1>3. \A a, b \in Seq(S) : Exchange(a \o b) = Exchange(a) \o Exchange(b)
  BY ExchangeOfConcat
<1> QED
  BY <1>2, <1>3, ExchangeOfEmpty, ExchangeType, Zenon DEF ExchangeLaws, Join, Nothing

Waiting(input, plain, records, inbound) ==
    Exchange(Join(Join(input, Join(plain, records)), inbound))

\* A stream that moves one place on, seen through these laws.
LEMMA MovesOn ==
    /\ \A h, x, i \in Seq(Unit) :
           /\ Waiting(Join(h, x), Nothing, Nothing, i) = Waiting(h, Nothing, Nothing, Join(x, i))
           /\ Waiting(h, Nothing, x, i) = Waiting(h, Nothing, Nothing, Join(x, i))
           /\ Waiting(Join(h, x), Nothing, Nothing, i) = Waiting(h, x, Nothing, i)
    /\ \A h, p, x, k, i \in Seq(Unit) :
           /\ Waiting(h, Join(p, x), k, i) = Waiting(h, p, Join(x, k), i)
           /\ Exchange(x) = Nothing => Waiting(h, p, k, i) = Waiting(h, p, Join(x, k), i)
<1> SUFFICES ASSUME NEW h \in Seq(Unit), NEW p \in Seq(Unit), NEW x \in Seq(Unit),
                    NEW k \in Seq(Unit), NEW i \in Seq(Unit)
             PROVE  /\ Waiting(Join(h, x), Nothing, Nothing, i) = Waiting(h, Nothing, Nothing, Join(x, i))
                    /\ Waiting(h, Nothing, x, i) = Waiting(h, Nothing, Nothing, Join(x, i))
                    /\ Waiting(Join(h, x), Nothing, Nothing, i) = Waiting(h, x, Nothing, i)
                    /\ Waiting(h, Join(p, x), k, i) = Waiting(h, p, Join(x, k), i)
                    /\ Exchange(x) = Nothing => Waiting(h, p, k, i) = Waiting(h, p, Join(x, k), i)
  BY SMTT(30)
<1> USE DEF Waiting
<1>1. ExchangeLaws(Unit)
  BY StreamLaws
<1>2. JoinLaws(Unit)
  BY <1>1 DEF ExchangeLaws
<1>3. Join(Join(h, x), i) = Join(h, Join(x, i)) /\ Join(x, i) \in Seq(Unit)
  BY <1>2 DEF JoinLaws
<1>4. \A a \in Seq(Unit) : Join(a, Nothing) = a /\ Join(Nothing, a) = a
  BY <1>2 DEF JoinLaws
<1>5. Nothing \in Seq(Unit) /\ Join(Nothing, Nothing) = Nothing
  BY <1>2 DEF JoinLaws
<1>6. Join(h, Nothing) = h /\ Join(Join(h, x), Nothing) = Join(h, x)
  BY <1>2 DEF JoinLaws
<1>7. Join(Join(p, x), k) = Join(p, Join(x, k)) /\ Join(x, k) \in Seq(Unit)
  BY <1>2 DEF JoinLaws
<1>8. ASSUME Exchange(x) = Nothing
      PROVE  Waiting(h, p, k, i) = Waiting(h, p, Join(x, k), i)
  <2>1. Exchange(Join(x, k)) = Join(Nothing, Exchange(k)) /\ Exchange(k) \in Seq(Unit)
    BY <1>1, <1>8 DEF ExchangeLaws
  <2>2. Exchange(Join(x, k)) = Exchange(k)
    BY <1>4, <2>1
  <2>3. \A y \in Seq(Unit) :
           Exchange(Join(Join(h, Join(p, y)), i)) =
               Join(Join(Exchange(h), Join(Exchange(p), Exchange(y))), Exchange(i))
    BY <1>1 DEF ExchangeLaws, JoinLaws
  <2> QED
    BY <1>7, <2>2, <2>3
<1> QED
  BY <1>3, <1>4, <1>5, <1>6, <1>7, <1>8

\* recv() takes a prefix of what has arrived to http_input or to the session.
LEMMA ReadKeepsWaiting ==
    \A h, data, rest \in Seq(Unit) : \A h2, k2 :
        \/ h2 = Join(h, data) /\ k2 = Nothing
        \/ h2 = h /\ k2 = data
        => Waiting(h2, Nothing, k2, rest) = Waiting(h, Nothing, Nothing, Join(data, rest))
BY MovesOn

\* feed_wire_data takes the first of the records.
LEMMA FirstRecord ==
    ASSUME NEW k \in Seq(Unit), k # <<>>
    PROVE  LET first == <<Head(k)>> IN
           /\ Head(k) \in Unit /\ first \in Seq(Unit) /\ Tail(k) \in Seq(Unit)
           /\ k = Join(first, Tail(k))
           /\ \A p \in Seq(Unit) : Append(p, Head(k)) = Join(p, first)
           /\ ~IsExchanged(Head(k)) => Exchange(first) = Nothing
<1>1. Head(k) \in Unit /\ Tail(k) \in Seq(Unit) /\ k = Join(<<Head(k)>>, Tail(k))
  BY ExchangeOfHead DEF Join
<1>2. <<Head(k)>> \in Seq(Unit) /\ \A p \in Seq(Unit) : Append(p, Head(k)) = p \o <<Head(k)>>
  BY <1>1
<1> QED
  BY <1>1, <1>2, ExchangeOfOne DEF Join, Nothing

\* The first request leaves http_input: it was the first of those that wait.
LEMMA ReduceTakesFirst ==
    ASSUME NEW h \in Seq(Unit), HasRequest(h), NEW i \in Seq(Unit)
    PROVE  LET u == Request(h) IN
           /\ Waiting(Reduced(h), Nothing, Nothing, i) \in Seq(Unit)
           /\ Waiting(h, Nothing, Nothing, i) =
                  IF IsExchanged(u) THEN <<u>> \o Waiting(Reduced(h), Nothing, Nothing, i)
                                    ELSE Waiting(Reduced(h), Nothing, Nothing, i)
<1> DEFINE u == Request(h)
           first == <<u>>
           rest == Reduced(h)
<1>1. /\ u \in Unit /\ first \in Seq(Unit) /\ rest \in Seq(Unit)
      /\ Exchange(h) = Join(Exchange(first), Exchange(rest))
  BY FirstRequest DEF Join
<1>2. Exchange(first) = IF IsExchanged(u) THEN first ELSE Nothing
  BY <1>1, ExchangeOfOne DEF Nothing
<1> HIDE DEF u, first, rest
<1>5. ExchangeLaws(Unit)
  BY StreamLaws
<1>3. /\ Waiting(h, Nothing, Nothing, i) = Join(Exchange(first), Waiting(rest, Nothing, Nothing, i))
      /\ Waiting(rest, Nothing, Nothing, i) \in Seq(Unit)
  BY <1>1, <1>5 DEF ExchangeLaws, JoinLaws, Waiting
<1>4. JoinLaws(Unit)
  BY StreamLaws DEF ExchangeLaws
<1> QED
  BY <1>2, <1>3, <1>4, Zenon DEF JoinLaws, Join, u, first, rest

-----------------------------------------------------------------------------
(* The invariant by connection, and what a step does that serves one.       *)

\* Idle stands for no connection's event.
LEMMA IdleType == Idle \in Event /\ Idle.key = "plain" /\ Idle.key \notin Conns /\ Idle.mask = {}
BY ConstantsAssumption DEF Idle, Event, Mask, Listeners

AllSound == \A c \in Conns : SoundContext(c, context[c])

\* The parts of LoopInv that are about one context each.
LEMMA SoundConnections ==
    LoopInv <=> TypeOK /\ DispatchIsCurrent /\ AllSound /\ RequestsWaitTheirTurn
<1>1. TypeOK => \A c \in Conns : context[c] \in Context
  BY DEF TypeOK
<1> QED
  BY <1>1 DEF LoopInv, AllSound, SoundContext, OnlyOpenIsRegistered, WriteInterestMatchesOutput,
     ClosingHasOutput, OutputIsStream, Open

\* The connection in service, and what the session's buffers hold.
LEMMA InService ==
    ASSUME LoopInv, NEW c \in Conns, c = cur.key
    PROVE  /\ Open(c) /\ SoundContext(c, context[c]) /\ context[c] \in Context
           /\ context[c].http_input \in Seq(Unit) /\ context[c].phase = "open"
           /\ peer[c] \in PeerState /\ peer[c].inbound \in Seq(Unit)
           /\ cur \in Event
           /\ chunk \in Seq(Unit) /\ pending \in Seq(Handshake) /\ plaintext \in Seq(Unit)
           /\ pc # "feed" => chunk = <<>> /\ pending = <<>> /\ plaintext = <<>>
           /\ pc = "feed" => c \in TLSConns
<1>1. TypeOK /\ DispatchIsCurrent /\ SoundContext(c, context[c])
  BY SoundConnections DEF AllSound
<1>2. context[c] \in Context /\ peer[c] \in PeerState
  BY <1>1 DEF TypeOK
<1> QED
  BY <1>1, <1>2 DEF DispatchIsCurrent, TypeOK, Open, Context, PeerState

Waits(c) == Waiting(context[c].http_input, plaintext, chunk, peer[c].inbound)

\* A step that serves connection c: whatever it does to c, it leaves the others
\* and their clients alone, and it goes on with c only while c is open.
Serves(c) ==
    /\ c = cur.key /\ Open(c)
    /\ context' = [context EXCEPT ![c] = context'[c]]
    /\ SoundContext(c, context'[c])
    /\ peer' = [peer EXCEPT ![c] = peer'[c]]
    /\ peer'[c] \in PeerState
    /\ peer'[c].script = peer[c].script
    /\ peer'[c].sent = peer[c].sent
    /\ peer'[c].reset = peer[c].reset
    /\ stopping' = stopping
    /\ events' = events
    /\ pc' \in {"loop", "feed", "http", "flush", "cleanup"}
    /\ cur' = IF pc' \in {"loop", "cleanup"} THEN Idle ELSE cur
    /\ pc' \notin {"loop", "cleanup"} => context'[c].phase = "open"
    /\ chunk' \in Seq(Unit) /\ pending' \in Seq(Handshake) /\ plaintext' \in Seq(Unit)
    /\ pc' # "feed" => chunk' = <<>> /\ pending' = <<>> /\ plaintext' = <<>>
    /\ pc' = "feed" => c \in TLSConns

\* What it may come to: requests have moved; the connection is over; the first
\* request that waits is answered; output has left.
Moves(c) ==
    /\ context'[c].phase = "open"
    /\ Exchange(context'[c].queued) = Exchange(context[c].queued)
    /\ context'[c].written = context[c].written
    /\ Waits(c)' = Waits(c)
Closes(c) ==
    /\ context'[c].phase = "closed"
    /\ context'[c].queued = context[c].queued
    /\ context'[c].written = context[c].written
    /\ context'[c].output_buffer = <<>> \/ peer[c].reset \/ FeedRaises(c)
Answers(c) ==
    /\ context'[c].phase = "open"
    /\ context'[c].written = context[c].written
    /\ Waits(c)' \in Seq(Unit)
    /\ \E u \in Unit :
           /\ IsExchanged(u)
           /\ Exchange(context'[c].queued) = Append(Exchange(context[c].queued), u)
           /\ Waits(c) = <<u>> \o Waits(c)'
Sends(c) ==
    /\ context'[c].phase # "open" =>
           context'[c].phase = "closed" /\ context'[c].output_buffer = <<>>
    /\ context'[c].queued = context[c].queued
    /\ \E sent \in Seq(Output) : context'[c].written = context[c].written \o sent
    /\ Waits(c)' = Waits(c)

\* recv() moves what it read to http_input or to the session's records: every
\* request that waited still waits, in its place.
LEMMA ReadStep ==
    ASSUME LoopInv, NEW c \in Conns, RecvData(c)
    PROVE  Serves(c) /\ Moves(c)
<1> DEFINE ctx == context[c]
           inbound == peer[c].inbound
<1>1. pc = "read" /\ c = cur.key
  BY DEF RecvData, At
<1>2. PICK n \in 1 .. Len(inbound) :
          LET data == SubSeq(inbound, 1, n) IN
          /\ peer' = [peer EXCEPT ![c].inbound = SubSeq(@, n + 1, Len(@))]
          /\ IF ctx.tls = "plain"
             THEN /\ context' = [context EXCEPT ![c].http_input = @ \o data]
                  /\ Goto("http")
                  /\ UNCHANGED chunk
             ELSE /\ chunk' = data
                  /\ Goto("feed")
                  /\ UNCHANGED context
  BY DEF RecvData
<1> DEFINE data == SubSeq(inbound, 1, n)
           rest == SubSeq(inbound, n + 1, Len(inbound))
<1>3. data \in Seq(Unit) /\ rest \in Seq(Unit)
  BY <1>1, InService, SplitStream
<1>4. /\ peer'[c] \in PeerState /\ peer'[c].inbound = rest
      /\ peer'[c].script = peer[c].script /\ peer'[c].sent = peer[c].sent
      /\ peer'[c].reset = peer[c].reset /\ peer' = [peer EXCEPT ![c] = peer'[c]]
  <2>1. peer' = [peer EXCEPT ![c] = [peer[c] EXCEPT !.inbound = rest]] /\ peer \in [Conns -> PeerState]
    BY <1>2 DEF LoopInv, TypeOK
  <2> HIDE DEF rest
  <2> QED
    BY <1>3, <2>1 DEF PeerState
<1>5. /\ context' = [context EXCEPT ![c] = context'[c]]
      /\ SoundContext(c, context'[c]) /\ context'[c].phase = "open"
      /\ SameOutput(ctx, context'[c])
      /\ \/ ctx.tls = "plain" /\ context'[c].http_input = ctx.http_input \o data /\ chunk' = <<>>
         \/ ctx.tls # "plain" /\ context'[c].http_input = ctx.http_input /\ chunk' = data
  <2>1. CASE ctx.tls = "plain"
    <3>1. ctx.http_input \o data \in Seq(Unit)
      BY <1>1, <1>3, InService
    <3>2. context' = [context EXCEPT ![c] = [ctx EXCEPT !.http_input = ctx.http_input \o data]]
      BY <1>2, <2>1
    <3>3. context \in [Conns -> Context]
      BY DEF LoopInv, TypeOK
    <3>4. context'[c] = [ctx EXCEPT !.http_input = ctx.http_input \o data]
      BY <3>2, <3>3
    <3> DEFINE input == ctx.http_input \o data
    <3>6. input \in Seq(Unit) /\ SoundContext(c, ctx) /\ ctx.phase = "open"
      BY <1>1, <3>1, InService
    <3> HIDE DEF input, ctx
    <3>5. LET q == [ctx EXCEPT !.http_input = input] IN
          /\ SoundContext(c, q) /\ SameOutput(ctx, q)
          /\ q.phase = "open" /\ q.http_input = input
      BY <3>6, ReadContext
    <3> QED
      BY <1>1, <1>2, <2>1, <3>2, <3>4, <3>5, InService, Zenon DEF input, ctx
  <2>2. CASE ctx.tls # "plain"
    <3>1. context' = context /\ context \in [Conns -> Context] /\ chunk' = data
      BY <1>2, <2>2 DEF LoopInv, TypeOK
    <3> QED
      BY <1>1, <2>2, <3>1, InService DEF SameOutput
  <2> QED
    BY <2>1, <2>2, Zenon
<1>6. /\ pc' = IF ctx.tls = "plain" THEN "http" ELSE "feed"
      /\ cur' = cur /\ events' = events
  BY <1>2 DEF Goto
<1>7. pending' = <<>> /\ plaintext' = <<>> /\ stopping' = stopping
  BY <1>1, InService DEF RecvData
<1>8. ctx.tls # "plain" => c \in TLSConns
  BY <1>1, InService, Zenon DEF SoundContext
<1>9. Serves(c)
  BY <1>1, <1>3, <1>4, <1>5, <1>6, <1>7, <1>8, InService, Zenon DEF Serves
<1>10. Waits(c)' = Waits(c)
  <2>1. chunk = <<>> /\ plaintext = <<>> /\ ctx.http_input \in Seq(Unit) /\ inbound \in Seq(Unit)
    BY <1>1, InService
  <2> DEFINE h2 == context'[c].http_input
             i2 == peer'[c].inbound
             h == ctx.http_input
  <2>2. \/ h2 = Join(h, data) /\ chunk' = Nothing
        \/ h2 = h /\ chunk' = data
    BY <1>5 DEF Nothing, Join
  <2>3. i2 = rest /\ inbound = Join(data, rest) /\ h \in Seq(Unit)
    BY <1>4, <2>1, SplitStream DEF Join
  <2>4. Waiting(h2, Nothing, chunk', rest) = Waiting(h, Nothing, Nothing, Join(data, rest))
    <3> HIDE DEF h2, h, data, rest
    <3> QED
      BY <1>3, <2>2, <2>3, ReadKeepsWaiting
  <2> QED
    BY <1>7, <2>1, <2>3, <2>4, Zenon DEF Waits, Nothing
<1> QED
  BY <1>5, <1>9, <1>10 DEF Moves, SameOutput

\* The step changes the context to q, leaves the client alone and goes to place.
LEMMA ServesBy ==
    ASSUME LoopInv, NEW c \in Conns, c = cur.key, NEW q, SoundContext(c, q),
           context' = [context EXCEPT ![c] = q],
           peer' = peer, stopping' = stopping,
           NEW place \in {"loop", "http", "flush", "cleanup"}, Goto(place),
           place \in {"http", "flush"} => q.phase = "open",
           chunk' = <<>>, pending' = <<>>, plaintext' = <<>>
    PROVE  Serves(c) /\ context'[c] = q /\ peer'[c] = peer[c]
<1>1. context \in [Conns -> Context] /\ peer \in [Conns -> PeerState]
  BY DEF LoopInv, TypeOK
<1>2. context'[c] = q /\ context' = [context EXCEPT ![c] = context'[c]]
  BY <1>1
<1>3. peer'[c] = peer[c] /\ peer' = [peer EXCEPT ![c] = peer'[c]] /\ peer'[c] \in PeerState
  BY <1>1
<1>4. /\ pc' = place /\ events' = events
      /\ cur' = IF place \in {"loop", "cleanup"} THEN Idle ELSE cur
  BY DEF Goto
<1>5. Open(c)
  BY InService
<1> QED
  BY <1>2, <1>3, <1>4, <1>5 DEF Serves

\* WRITE follows a read only on a connection that is open.
LEMMA AfterReadPlace ==
    ASSUME NEW ctx
    PROVE  AfterRead(ctx) \in {"loop", "flush"} /\ (AfterRead(ctx) = "flush" => ctx.phase = "open")
BY DEF AfterRead

\* The end of the stream closes the connection when nothing is buffered, and moves
\* no request.
LEMMA EndOfStreamStep ==
    ASSUME LoopInv, NEW c \in Conns, RecvEnd(c)
    PROVE  Serves(c) /\ (Moves(c) \/ Closes(c))
<1> DEFINE ctx == context[c]
           q == EndOfStream(ctx)
           place == AfterRead(q)
<1>1. pc = "read" /\ c = cur.key /\ context' = [context EXCEPT ![c] = q]
  BY DEF RecvEnd, At
<1>2. /\ SoundContext(c, q) /\ SameOutput(ctx, q) /\ q.http_input = ctx.http_input
      /\ q.phase # "open" => q.phase = "closed" /\ q.output_buffer = <<>>
  BY <1>1, InService, EndedContext
<1>3. context'[c] = q
  BY <1>1 DEF LoopInv, TypeOK
<1>4. Goto(place) /\ peer' = peer /\ stopping' = stopping
      /\ chunk' = chunk /\ pending' = pending /\ plaintext' = plaintext
  BY <1>3 DEF RecvEnd, sessionVars
<1>5. chunk = <<>> /\ pending = <<>> /\ plaintext = <<>>
  BY <1>1, InService
<1>6. place \in {"loop", "http", "flush", "cleanup"} /\ (place \in {"http", "flush"} => q.phase = "open")
  BY AfterReadPlace
<1> HIDE DEF place, q
<1>7. Serves(c) /\ peer'[c] = peer[c]
  BY <1>1, <1>2, <1>4, <1>5, <1>6, ServesBy
<1>8. Waits(c)' = Waits(c)
  BY <1>2, <1>3, <1>4, <1>7 DEF Waits
<1> QED
  BY <1>2, <1>3, <1>7, <1>8 DEF Moves, Closes, SameOutput

\* An error of the socket, after the client's reset, closes the connection.
LEMMA SocketErrorStep ==
    ASSUME LoopInv, NEW c \in Conns, SocketError(c)
    PROVE  Serves(c) /\ Closes(c)
<1> DEFINE q == CloseConnection(context[c])
<1>1. pc # "feed" /\ c = cur.key /\ context' = [context EXCEPT ![c] = q] /\ peer[c].reset
  BY DEF SocketError, At
<1>2. SoundContext(c, q) /\ SameOutput(context[c], q) /\ q.phase = "closed"
  BY <1>1, InService, ClosedContext
<1>3. Goto("loop") /\ peer' = peer /\ stopping' = stopping
      /\ chunk' = chunk /\ pending' = pending /\ plaintext' = plaintext
  BY DEF SocketError, sessionVars
<1>4. chunk = <<>> /\ pending = <<>> /\ plaintext = <<>>
  BY <1>1, InService
<1> HIDE DEF q
<1>5. Serves(c) /\ context'[c] = q
  BY <1>1, <1>2, <1>3, <1>4, ServesBy
<1> QED
  BY <1>1, <1>2, <1>5 DEF Closes, SameOutput

\* A ClientHello is a record of the session alone: no request moves.
LEMMA FeedHelloStep ==
    ASSUME LoopInv, NEW c \in Conns, FeedHello(c)
    PROVE  Serves(c) /\ Moves(c)
<1> DEFINE ctx == context[c]
           q == [ctx EXCEPT !.tls = "ESTABLISHED"]
           hello == [kind |-> "handshake", id |-> Head(chunk).id]
<1>1. /\ pc = "feed" /\ c = cur.key /\ context' = [context EXCEPT ![c] = q]
      /\ chunk # <<>> /\ Head(chunk).kind = "hello" /\ chunk' = Tail(chunk)
      /\ ctx.tls # "plain" /\ pending' = Append(pending, hello) /\ plaintext' = plaintext
      /\ pc' = pc /\ events' = events /\ cur' = cur /\ peer' = peer /\ stopping' = stopping
  BY DEF FeedHello, At, loopVars
<1>2. /\ chunk \in Seq(Unit) /\ pending \in Seq(Handshake) /\ plaintext \in Seq(Unit)
      /\ ctx.http_input \in Seq(Unit) /\ peer[c].inbound \in Seq(Unit) /\ c \in TLSConns
  BY <1>1, InService
<1>3. Head(chunk) \in Unit /\ Tail(chunk) \in Seq(Unit)
  BY <1>1, <1>2, ExchangeOfHead
<1>4. Append(pending, hello) \in Seq(Handshake)
  <2>1. hello \in Handshake
    BY <1>3 DEF Handshake, Unit
  <2> QED
    BY <1>2, <2>1
<1>5. SoundContext(c, q) /\ SameOutput(ctx, q) /\ q.phase = "open" /\ q.http_input = ctx.http_input
  BY <1>1, InService, EstablishedContext
<1>6. context'[c] = q /\ context' = [context EXCEPT ![c] = context'[c]]
  BY <1>1 DEF LoopInv, TypeOK
<1>7. peer'[c] = peer[c] /\ peer' = [peer EXCEPT ![c] = peer'[c]] /\ peer[c] \in PeerState
  BY <1>1 DEF LoopInv, TypeOK
<1> HIDE DEF q, hello
<1>8. Serves(c)
  BY <1>1, <1>2, <1>3, <1>4, <1>5, <1>6, <1>7, InService DEF Serves
<1>9. ~IsExchanged(Head(chunk))
  BY <1>1 DEF IsExchanged
<1>10. Waits(c)' = Waits(c)
  <2> DEFINE first == <<Head(chunk)>>
             rest == Tail(chunk)
  <2>2. first \in Seq(Unit) /\ rest \in Seq(Unit) /\ chunk = Join(first, rest) /\ Exchange(first) = Nothing
    BY <1>1, <1>2, <1>9, FirstRecord
  <2> HIDE DEF first, rest
  <2>3. Waiting(ctx.http_input, plaintext, rest, peer[c].inbound)
            = Waiting(ctx.http_input, plaintext, Join(first, rest), peer[c].inbound)
    BY <1>2, <2>2, MovesOn
  <2>1. Waiting(ctx.http_input, plaintext, Tail(chunk), peer[c].inbound)
            = Waiting(ctx.http_input, plaintext, chunk, peer[c].inbound)
    BY <2>2, <2>3 DEF rest
  <2> QED
    BY <1>1, <1>5, <1>6, <1>7, <2>1, Zenon DEF Waits
<1> QED
  BY <1>5, <1>6, <1>8, <1>10 DEF Moves, SameOutput

\* An application record is opened: what it holds waits in the plaintext.
LEMMA FeedApplicationDataStep ==
    ASSUME LoopInv, NEW c \in Conns, FeedApplicationData(c)
    PROVE  Serves(c) /\ Moves(c)
<1> DEFINE ctx == context[c]
           more == Append(plaintext, Head(chunk))
<1>1. /\ pc = "feed" /\ c = cur.key /\ context' = context
      /\ chunk # <<>> /\ chunk' = Tail(chunk)
      /\ pending' = pending /\ plaintext' = more
      /\ pc' = pc /\ events' = events /\ cur' = cur /\ peer' = peer /\ stopping' = stopping
  BY DEF FeedApplicationData, At, loopVars
<1>2. /\ chunk \in Seq(Unit) /\ pending \in Seq(Handshake) /\ plaintext \in Seq(Unit)
      /\ ctx.http_input \in Seq(Unit) /\ peer[c].inbound \in Seq(Unit) /\ c \in TLSConns
  BY <1>1, InService
<1>3. Head(chunk) \in Unit /\ Tail(chunk) \in Seq(Unit)
  BY <1>1, <1>2, ExchangeOfHead
<1>4. more \in Seq(Unit)
  BY <1>2, <1>3
<1>5. /\ context'[c] = ctx /\ context' = [context EXCEPT ![c] = context'[c]]
      /\ peer'[c] = peer[c] /\ peer' = [peer EXCEPT ![c] = peer'[c]] /\ peer[c] \in PeerState
  BY <1>1 DEF LoopInv, TypeOK
<1>6. Waits(c)' = Waits(c)
  <2> DEFINE first == <<Head(chunk)>>
             rest == Tail(chunk)
  <2>1. first \in Seq(Unit) /\ rest \in Seq(Unit) /\ chunk = Join(first, rest) /\ more = Join(plaintext, first)
    BY <1>1, <1>2, FirstRecord
  <2> HIDE DEF first, rest, more
  <2>2. Waiting(ctx.http_input, Join(plaintext, first), rest, peer[c].inbound)
            = Waiting(ctx.http_input, plaintext, Join(first, rest), peer[c].inbound)
    <3>1. /\ ctx.http_input \in Seq(Unit) /\ plaintext \in Seq(Unit) /\ peer[c].inbound \in Seq(Unit)
          /\ first \in Seq(Unit) /\ rest \in Seq(Unit)
      BY <1>2, <2>1
    <3> QED
      BY <3>1, MovesOn
  <2>3. Waiting(ctx.http_input, more, Tail(chunk), peer[c].inbound)
            = Waiting(ctx.http_input, plaintext, chunk, peer[c].inbound)
    BY <2>1, <2>2 DEF rest
  <2> QED
    BY <1>1, <1>5, <2>3, Zenon DEF Waits, more
<1> HIDE DEF more
<1>7. Serves(c)
  BY <1>1, <1>2, <1>3, <1>4, <1>5, InService DEF Serves
<1> QED
  BY <1>1, <1>5, <1>6, <1>7, InService DEF Moves

\* A record the session refuses ends the connection.
LEMMA FeedRaisesStep ==
    ASSUME LoopInv, NEW c \in Conns, FeedRaises(c)
    PROVE  Serves(c) /\ Closes(c)
<1> DEFINE q == CloseConnection(context[c])
<1>1. c = cur.key /\ context' = [context EXCEPT ![c] = q]
  BY DEF FeedRaises, At
<1>2. SoundContext(c, q) /\ SameOutput(context[c], q) /\ q.phase = "closed"
  BY <1>1, InService, ClosedContext
<1>3. Goto("loop") /\ peer' = peer /\ stopping' = stopping
      /\ chunk' = <<>> /\ pending' = <<>> /\ plaintext' = <<>>
  BY DEF FeedRaises
<1> HIDE DEF q
<1>4. Serves(c) /\ context'[c] = q
  BY <1>1, <1>2, <1>3, ServesBy
<1> QED
  BY <1>2, <1>4 DEF Closes, SameOutput

\* While output is buffered the connection may be marked to be closed after it.
LEMMA ClosingContext ==
    ASSUME NEW c, NEW ctx, SoundContext(c, ctx), ctx.phase = "open", ctx.output_buffer # <<>>,
           NEW closing \in BOOLEAN
    PROVE  LET q == [ctx EXCEPT !.closing_after_write = closing] IN
           /\ SoundContext(c, q) /\ SameOutput(ctx, q)
           /\ q.phase = "open" /\ q.http_input = ctx.http_input
<1> DEFINE q == [ctx EXCEPT !.closing_after_write = closing]
<1>1. /\ q \in Context /\ q.phase = "open" /\ q.tls = ctx.tls /\ q.interest = ctx.interest
      /\ SameOutput(ctx, q) /\ q.http_input = ctx.http_input
  BY DEF SoundContext, SameOutput, Context
<1> HIDE DEF q
<1>2. SoundContext(c, q)
  BY <1>1 DEF SoundContext, SameOutput
<1> QED
  BY <1>1, <1>2 DEF q

\* feed_wire_data returns: its handshake is queued and its plaintext waits in
\* http_input.
LEMMA FeedReturnsStep ==
    ASSUME LoopInv, NEW c \in Conns, FeedReturns(c)
    PROVE  Serves(c) /\ Moves(c)
<1> DEFINE ctx == context[c]
           q == QueueOutput(ctx, pending)
           input == ctx.http_input \o plaintext
           new == [q EXCEPT !.http_input = input]
           place == IF plaintext # <<>> THEN "http" ELSE AfterRead(ctx)
<1>1. /\ pc = "feed" /\ c = cur.key /\ chunk = <<>>
      /\ chunk' = chunk /\ pending' = <<>> /\ plaintext' = <<>>
      /\ peer' = peer /\ stopping' = stopping /\ Goto(place)
  BY DEF FeedReturns, At
<1>2. /\ SoundContext(c, ctx) /\ ctx \in Context /\ ctx.phase = "open"
      /\ ctx.http_input \in Seq(Unit) /\ peer[c].inbound \in Seq(Unit)
      /\ pending \in Seq(Handshake) /\ plaintext \in Seq(Unit)
  BY <1>1, InService
<1>3. pending \in Seq(Output) /\ ctx.queued \in Seq(Output)
  <2>1. Handshake \subseteq Output
    BY DEF Handshake, Output
  <2> QED
    BY <1>2, <2>1 DEF Context
<1>4. /\ SoundContext(c, q) /\ q.phase = "open" /\ q.http_input = ctx.http_input
      /\ q.queued = ctx.queued \o pending /\ q.written = ctx.written
  <2> HIDE DEF ctx
  <2> QED
    BY <1>2, <1>3, QueuedContext
<1>5. input \in Seq(Unit)
  BY <1>2
<1>6. context' = [context EXCEPT ![c] = new]
  <2>1. new = [QueueOutput(ctx, pending) EXCEPT !.http_input = @ \o plaintext]
    <3> HIDE DEF ctx, q
    <3>1. [q EXCEPT !.http_input = q.http_input \o plaintext] = [q EXCEPT !.http_input = input]
      BY <1>4
    <3> QED
      BY <3>1 DEF q
  <2> QED
    BY <2>1 DEF FeedReturns
<1> HIDE DEF q, input
<1>7. SoundContext(c, new) /\ SameOutput(q, new) /\ new.phase = "open" /\ new.http_input = input
  BY <1>4, <1>5, ReadContext
<1>8. place \in {"loop", "http", "flush", "cleanup"}
  BY AfterReadPlace
<1> HIDE DEF new, place
<1>9. Serves(c) /\ context'[c] = new /\ peer'[c] = peer[c]
  BY <1>1, <1>6, <1>7, <1>8, ServesBy
<1>10. Exchange(new.queued) = Exchange(ctx.queued)
  <2>1. Exchange(pending) = <<>>
    <3>1. \A u \in Handshake : ~IsExchanged(u)
      BY DEF Handshake, IsExchanged
    <3> QED
      BY <1>2, <3>1, ExchangeOfOthers
  <2>2. Exchange(ctx.queued \o pending) = Exchange(ctx.queued) \o Exchange(pending)
        /\ Exchange(ctx.queued) \in Seq(Output)
    BY <1>3, ExchangeOfConcat, ExchangeType
  <2>3. Exchange(ctx.queued) \o <<>> = Exchange(ctx.queued)
    BY <2>2
  <2> QED
    BY <1>4, <1>7, <2>1, <2>2, <2>3 DEF SameOutput
<1>11. Waits(c)' = Waits(c)
  <2>1. input = Join(ctx.http_input, plaintext)
    BY DEF input, Join
  <2>2. Waiting(Join(ctx.http_input, plaintext), Nothing, Nothing, peer[c].inbound)
            = Waiting(ctx.http_input, plaintext, Nothing, peer[c].inbound)
    BY <1>2, MovesOn
  <2> QED
    BY <1>1, <1>7, <1>9, <2>1, <2>2, Zenon DEF Waits, Nothing
<1> QED
  BY <1>4, <1>7, <1>9, <1>10, <1>11 DEF Moves, SameOutput

\* No complete request: nothing changes but where the thread is.
LEMMA AwaitMoreStep ==
    ASSUME LoopInv, NEW c \in Conns, AwaitMore(c)
    PROVE  Serves(c) /\ Moves(c)
<1> DEFINE ctx == context[c]
           place == AfterRead(ctx)
<1>1. /\ pc = "http" /\ c = cur.key /\ Goto(place) /\ context' = context
      /\ chunk' = chunk /\ pending' = pending /\ plaintext' = plaintext
      /\ peer' = peer /\ stopping' = stopping
  BY DEF AwaitMore, At, sessionVars
<1>2. /\ chunk = <<>> /\ pending = <<>> /\ plaintext = <<>>
      /\ SoundContext(c, ctx) /\ ctx.phase = "open"
  BY <1>1, InService
<1>3. context' = [context EXCEPT ![c] = ctx]
  BY <1>1 DEF LoopInv, TypeOK
<1>4. place \in {"loop", "http", "flush", "cleanup"}
  BY AfterReadPlace
<1> HIDE DEF place, ctx
<1>5. Serves(c) /\ context'[c] = ctx /\ peer'[c] = peer[c]
  BY <1>1, <1>2, <1>3, <1>4, ServesBy, Zenon
<1> QED
  BY <1>1, <1>2, <1>5 DEF Moves, Waits, ctx

\* The 400 answers no request of the exchange, and the connection is marked to be
\* closed after it.
LEMMA RejectStep ==
    ASSUME LoopInv, NEW c \in Conns, RejectRequest(c)
    PROVE  Serves(c) /\ Moves(c)
<1> DEFINE ctx == context[c]
           reply == [kind |-> "reject", id |-> Request(ctx.http_input).id]
           q == QueueOutput(ctx, <<reply>>)
           new == [q EXCEPT !.closing_after_write = TRUE]
           place == AfterRead(ctx)
<1>1. /\ pc = "http" /\ c = cur.key /\ Goto(place) /\ HasRequest(ctx.http_input)
      /\ context' = [context EXCEPT ![c] = new]
      /\ chunk' = chunk /\ pending' = pending /\ plaintext' = plaintext
      /\ peer' = peer /\ stopping' = stopping
  BY DEF RejectRequest, At, sessionVars
<1>2. /\ chunk = <<>> /\ pending = <<>> /\ plaintext = <<>>
      /\ SoundContext(c, ctx) /\ ctx \in Context /\ ctx.phase = "open"
      /\ ctx.http_input \in Seq(Unit)
  BY <1>1, InService
<1>3. reply \in Output /\ ~IsExchanged(reply)
  <2>1. Request(ctx.http_input) \in Unit
    BY <1>1, <1>2, FirstRequest
  <2> QED
    BY <2>1 DEF Unit, Output, IsExchanged
<1>4. /\ ctx.queued \in Seq(Output) /\ ctx.output_buffer \in Seq(Output)
      /\ <<reply>> \in Seq(Output)
  BY <1>2, <1>3 DEF Context
<1> HIDE DEF ctx, reply
<1>5. /\ SoundContext(c, q) /\ q.phase = "open" /\ q.http_input = ctx.http_input
      /\ q.queued = ctx.queued \o <<reply>> /\ q.written = ctx.written
      /\ q.output_buffer = ctx.output_buffer \o <<reply>>
  BY <1>2, <1>4, QueuedContext, ZenonT(40)
<1>6. q.output_buffer # <<>>
  BY <1>4, <1>5
<1> HIDE DEF q
<1>7. SoundContext(c, new) /\ SameOutput(q, new) /\ new.phase = "open" /\ new.http_input = q.http_input
  BY <1>5, <1>6, ClosingContext
<1>8. place \in {"loop", "http", "flush", "cleanup"}
  BY AfterReadPlace
<1> HIDE DEF new, place
<1>9. Serves(c) /\ context'[c] = new /\ peer'[c] = peer[c]
  BY <1>1, <1>2, <1>7, <1>8, ServesBy
<1>10. Exchange(new.queued) = Exchange(ctx.queued)
  <2>1. ctx.queued \o <<reply>> = Append(ctx.queued, reply)
    BY <1>3, <1>4
  <2>2. Exchange(Append(ctx.queued, reply)) = Extended(Exchange(ctx.queued), reply)
    BY <1>3, <1>4, ExchangeOfAppend, Zenon
  <2> QED
    BY <1>3, <1>5, <1>7, <2>1, <2>2 DEF SameOutput, Extended
<1> QED
  BY <1>1, <1>2, <1>5, <1>7, <1>9, <1>10 DEF Moves, Waits, SameOutput, ctx

\* build_http_response answers the first request that waits, and takes it from
\* http_input.
LEMMA AnswerStep ==
    ASSUME LoopInv, NEW c \in Conns, AnswerRequest(c)
    PROVE  Serves(c) /\ Answers(c)
<1> DEFINE ctx == context[c]
           request == Request(ctx.http_input)
           reply == [kind |-> request.kind, id |-> request.id]
           close == request.kind = "close"
           closing == ctx.closing_after_write \/ close
           input == Reduced(ctx.http_input)
           q == QueueOutput(ctx, <<reply>>)
           read == [q EXCEPT !.http_input = input]
           new == [read EXCEPT !.closing_after_write = closing]
           place == IF close THEN AfterRead(ctx) ELSE "http"
<1>1. /\ pc = "http" /\ c = cur.key /\ Goto(place) /\ HasRequest(ctx.http_input)
      /\ request.kind \in {"keep", "close"}
      /\ context' = [context EXCEPT ![c] =
             [q EXCEPT !.http_input = Reduced(@), !.closing_after_write = @ \/ close]]
      /\ chunk' = chunk /\ pending' = pending /\ plaintext' = plaintext
      /\ peer' = peer /\ stopping' = stopping
  BY DEF AnswerRequest, At, sessionVars
<1>2. /\ chunk = <<>> /\ pending = <<>> /\ plaintext = <<>>
      /\ SoundContext(c, ctx) /\ ctx \in Context /\ ctx.phase = "open"
      /\ ctx.http_input \in Seq(Unit) /\ peer[c].inbound \in Seq(Unit)
  BY <1>1, InService
<1>3. request \in Unit /\ input \in Seq(Unit)
  BY <1>1, <1>2, FirstRequest
<1>4. reply \in Output /\ IsExchanged(request) /\ reply = request
  BY <1>1, <1>3 DEF Unit, Output, IsExchanged
<1>5. /\ ctx.queued \in Seq(Output) /\ ctx.output_buffer \in Seq(Output)
      /\ <<reply>> \in Seq(Output) /\ closing \in BOOLEAN
  BY <1>2, <1>4 DEF Context
<1>6. place \in {"loop", "http", "flush", "cleanup"}
  BY AfterReadPlace
<1>7. close \in BOOLEAN /\ ctx.closing_after_write \in BOOLEAN
  BY <1>2 DEF Context
<1> HIDE DEF ctx, reply, input, place, close
<1>8. /\ SoundContext(c, q) /\ q.phase = "open" /\ q.http_input = ctx.http_input
      /\ q.queued = ctx.queued \o <<reply>> /\ q.written = ctx.written
      /\ q.output_buffer = ctx.output_buffer \o <<reply>>
      /\ q.closing_after_write = ctx.closing_after_write
  <2>1. q.closing_after_write = ctx.closing_after_write
    BY <1>2, <1>4 DEF QueueOutput, Context
  <2> QED
    BY <1>2, <1>5, <2>1, QueuedContext, ZenonT(40)
<1>9. q.output_buffer # <<>>
  BY <1>5, <1>8
<1>10. context' = [context EXCEPT ![c] = new]
  <2>1. Reduced(q.http_input) = input /\ (q.closing_after_write \/ close) = closing
    BY <1>8 DEF input
  <2> HIDE DEF q, closing
  <2> QED
    BY <1>1, <2>1
<1> HIDE DEF q, closing
<1>11. SoundContext(c, read) /\ SameOutput(q, read) /\ read.phase = "open" /\ read.http_input = input
  BY <1>3, <1>8, ReadContext DEF input
<1> HIDE DEF read
<1>12. SoundContext(c, new) /\ SameOutput(read, new) /\ new.phase = "open" /\ new.http_input = input
  BY <1>5, <1>9, <1>11, ClosingContext DEF SameOutput
<1> HIDE DEF new
<1>13. Serves(c) /\ context'[c] = new /\ peer'[c] = peer[c]
  <2>1. /\ c = cur.key /\ Goto(place) /\ peer' = peer /\ stopping' = stopping
        /\ chunk' = <<>> /\ pending' = <<>> /\ plaintext' = <<>>
    BY <1>1, <1>2
  <2> QED
    BY <1>6, <1>10, <1>12, <2>1, ServesBy
<1>14. Exchange(new.queued) = Append(Exchange(ctx.queued), request)
  <2>1. ctx.queued \o <<reply>> = Append(ctx.queued, reply)
    BY <1>4, <1>5
  <2>2. Exchange(Append(ctx.queued, reply)) = Extended(Exchange(ctx.queued), reply)
    BY <1>4, <1>5, ExchangeOfAppend
  <2> QED
    BY <1>4, <1>8, <1>11, <1>12, <2>1, <2>2 DEF SameOutput, Extended
<1>15. Waits(c)' \in Seq(Unit) /\ Waits(c) = <<request>> \o Waits(c)'
  <2>1. /\ Waiting(input, Nothing, Nothing, peer[c].inbound) \in Seq(Unit)
        /\ Waiting(ctx.http_input, Nothing, Nothing, peer[c].inbound) =
               <<request>> \o Waiting(input, Nothing, Nothing, peer[c].inbound)
    BY <1>1, <1>2, <1>4, ReduceTakesFirst DEF input
  <2>2. /\ Waits(c)' = Waiting(input, Nothing, Nothing, peer[c].inbound)
        /\ Waits(c) = Waiting(ctx.http_input, Nothing, Nothing, peer[c].inbound)
    BY <1>1, <1>2, <1>12, <1>13, Zenon DEF Waits, Nothing, ctx
  <2> QED
    BY <2>1, <2>2
<1> QED
  BY <1>3, <1>4, <1>8, <1>11, <1>12, <1>13, <1>14, <1>15 DEF Answers, SameOutput, ctx

\* The request whose file cannot be read is taken from http_input; it is none of
\* the exchange.
LEMMA HandlerRaisesStep ==
    ASSUME LoopInv, NEW c \in Conns, HandlerRaises(c)
    PROVE  Serves(c) /\ Moves(c)
<1> DEFINE ctx == context[c]
           request == Request(ctx.http_input)
           input == Reduced(ctx.http_input)
           new == [ctx EXCEPT !.http_input = input]
<1>1. /\ pc = "http" /\ c = cur.key /\ Goto("cleanup") /\ HasRequest(ctx.http_input)
      /\ request.kind = "boom" /\ context' = [context EXCEPT ![c] = new]
      /\ chunk' = chunk /\ pending' = pending /\ plaintext' = plaintext
      /\ peer' = peer /\ stopping' = stopping
  BY DEF HandlerRaises, At, sessionVars
<1>2. /\ chunk = <<>> /\ pending = <<>> /\ plaintext = <<>>
      /\ SoundContext(c, ctx) /\ ctx.phase = "open"
      /\ ctx.http_input \in Seq(Unit) /\ peer[c].inbound \in Seq(Unit)
  BY <1>1, InService
<1>3. input \in Seq(Unit) /\ ~IsExchanged(request)
  BY <1>1, <1>2, FirstRequest DEF IsExchanged
<1> HIDE DEF input, ctx
<1>4. SoundContext(c, new) /\ SameOutput(ctx, new) /\ new.phase = "open" /\ new.http_input = input
  BY <1>2, <1>3, ReadContext
<1> HIDE DEF new
<1>5. Serves(c) /\ context'[c] = new /\ peer'[c] = peer[c]
  BY <1>1, <1>2, <1>4, ServesBy
<1>6. Waits(c)' = Waits(c)
  <2>1. Waiting(ctx.http_input, Nothing, Nothing, peer[c].inbound) =
            Waiting(input, Nothing, Nothing, peer[c].inbound)
    BY <1>1, <1>2, <1>3, ReduceTakesFirst DEF input
  <2> QED
    BY <1>1, <1>2, <1>4, <1>5, <2>1, Zenon DEF Waits, Nothing, ctx
<1> QED
  BY <1>4, <1>5, <1>6 DEF Moves, SameOutput, ctx

\* send() moves the head of output_buffer to the kernel.
LEMMA FlushStep ==
    ASSUME LoopInv, NEW c \in Conns, Flush(c)
    PROVE  Serves(c) /\ Sends(c)
<1> DEFINE ctx == context[c]
<1>1. PICK n \in Sendable(c) :
          /\ context' = [context EXCEPT ![c] =
                 Flushed([context[c] EXCEPT
                     !.output_buffer = Remaining(@, n),
                     !.written = @ \o SubSeq(context[c].output_buffer, 1, n)])]
          /\ peer' = [peer EXCEPT ![c].unread = @ + n]
  BY Zenon DEF Flush
<1> DEFINE sent == SubSeq(ctx.output_buffer, 1, n)
           new == Flushed([ctx EXCEPT !.output_buffer = Remaining(@, n), !.written = @ \o sent])
<1>2. /\ pc = "flush" /\ c = cur.key /\ Goto("loop")
      /\ context' = [context EXCEPT ![c] = new]
      /\ chunk' = chunk /\ pending' = pending /\ plaintext' = plaintext
      /\ stopping' = stopping
  BY <1>1 DEF Flush, At, sessionVars
<1>3. /\ chunk = <<>> /\ pending = <<>> /\ plaintext = <<>>
      /\ SoundContext(c, ctx) /\ ctx.phase = "open" /\ peer[c] \in PeerState
  BY <1>2, InService
<1>4. n \in 1 .. Len(ctx.output_buffer) /\ n \in Nat /\ n <= SendCapacity - peer[c].unread
  BY <1>1 DEF Sendable
<1>5. /\ peer'[c] = [peer[c] EXCEPT !.unread = @ + n]
      /\ peer' = [peer EXCEPT ![c] = peer'[c]] /\ context'[c] = new
      /\ context' = [context EXCEPT ![c] = context'[c]]
  BY <1>1, <1>2 DEF LoopInv, TypeOK
<1>6. /\ peer'[c] \in PeerState
      /\ peer'[c].script = peer[c].script /\ peer'[c].sent = peer[c].sent
      /\ peer'[c].reset = peer[c].reset /\ peer'[c].inbound = peer[c].inbound
  <2>1. peer[c].unread + n \in 0 .. SendCapacity
    BY <1>3, <1>4, ConstantsAssumption, SMTT(30) DEF PeerState
  <2>2. peer'[c] = [peer[c] EXCEPT !.unread = peer[c].unread + n]
    BY <1>5
  <2> QED
    BY <1>3, <2>1, <2>2 DEF PeerState
<1>7. /\ SoundContext(c, new) /\ new.http_input = ctx.http_input
      /\ new.queued = ctx.queued /\ sent \in Seq(Output) /\ new.written = ctx.written \o sent
      /\ new.phase # "open" => new.phase = "closed" /\ new.output_buffer = <<>>
  <2> HIDE DEF ctx
  <2> QED
    BY <1>3, <1>4, SentContext, ZenonT(60)
<1>8. /\ pc' = "loop" /\ cur' = Idle /\ events' = events
  BY <1>2 DEF Goto
<1> HIDE DEF new, sent
<1>9. Serves(c)
  BY <1>2, <1>3, <1>5, <1>6, <1>7, <1>8, InService DEF Serves
<1>10. Waits(c)' = Waits(c)
  BY <1>2, <1>5, <1>6, <1>7 DEF Waits
<1> QED
  BY <1>5, <1>7, <1>9, <1>10 DEF Sends

\* A step of a method of WebServer serves the connection it is about.
LEMMA ServiceOutcome ==
    ASSUME LoopInv, NEW c \in Conns, ServiceStep(c)
    PROVE  Serves(c) /\ (Moves(c) \/ Closes(c) \/ Answers(c) \/ Sends(c))
BY ReadStep, EndOfStreamStep, SocketErrorStep, FeedHelloStep, FeedApplicationDataStep,
   FeedRaisesStep, FeedReturnsStep, AwaitMoreStep, RejectStep, AnswerStep,
   HandlerRaisesStep, FlushStep DEF ServiceStep

-----------------------------------------------------------------------------
(* Requests wait their turn                                                 *)

\* What a prefix is.
LEMMA PrefixOfConcat ==
    ASSUME NEW S, NEW s \in Seq(S), NEW t \in Seq(S)
    PROVE  IsPrefix(s, t) <=> \E r \in Seq(S) : s \o r = t
<1>1. ASSUME NEW r \in Seq(S), s \o r = t
      PROVE  IsPrefix(s, t)
  BY <1>1 DEF IsPrefix
<1>2. ASSUME IsPrefix(s, t)
      PROVE  \E r \in Seq(S) : s \o r = t
  <2>1. Len(s) \in 0 .. Len(t) /\ SubSeq(s, 1, Len(s)) = SubSeq(t, 1, Len(s))
    BY <1>2 DEF IsPrefix
  <2>2. SubSeq(s, 1, Len(s)) = s
    BY SubSeqFull
  <2> DEFINE r == SubSeq(t, Len(s) + 1, Len(t))
  <2>3. r \in Seq(S) /\ t = SubSeq(t, 1, Len(s)) \o r
    BY <2>1, SplitStream
  <2> QED
    BY <2>1, <2>2, <2>3
<1> QED
  BY <1>1, <1>2

\* A prefix is met by going on from it or by stopping short of it.
LEMMA PrefixGrows ==
    ASSUME NEW S, NEW a \in Seq(S), NEW w \in Seq(S), NEW k \in Seq(S)
    PROVE  /\ IsPrefix(a \o w, k) => IsPrefix(a, k)
           /\ a \o w = k => IsPrefix(a, k)
           /\ IsPrefix(a, k) => IsPrefix(a, k \o w)
           /\ IsPrefix(a, a)
<1>1. a \o w \in Seq(S) /\ k \o w \in Seq(S) /\ <<>> \in Seq(S) /\ a \o <<>> = a
  OBVIOUS
<1>2. ASSUME IsPrefix(a \o w, k)
      PROVE  IsPrefix(a, k)
  <2>1. PICK r \in Seq(S) : (a \o w) \o r = k
    <3> DEFINE b == a \o w
    <3>1. b \in Seq(S) /\ IsPrefix(b, k)
      BY <1>1, <1>2
    <3> HIDE DEF b
    <3>2. \E r \in Seq(S) : b \o r = k
      BY <3>1, PrefixOfConcat
    <3> QED
      BY <3>2 DEF b
  <2>2. w \o r \in Seq(S) /\ a \o (w \o r) = (a \o w) \o r
    OBVIOUS
  <2> QED
    BY <2>1, <2>2, PrefixOfConcat
<1>3. ASSUME a \o w = k
      PROVE  IsPrefix(a, k)
  BY <1>3, PrefixOfConcat
<1>4. ASSUME IsPrefix(a, k)
      PROVE  IsPrefix(a, k \o w)
  <2>1. PICK r \in Seq(S) : a \o r = k
    BY <1>4, PrefixOfConcat
  <2>2. r \o w \in Seq(S) /\ a \o (r \o w) = (a \o r) \o w
    OBVIOUS
  <2> QED
    BY <1>1, <2>1, <2>2, PrefixOfConcat
<1>5. IsPrefix(a, a)
  BY <1>1, PrefixOfConcat
<1> QED
  BY <1>2, <1>3, <1>4, <1>5

\* The answers given, the requests that wait and those asked.
InTurn(answered, waiting, asked, phase, reset) ==
    IF phase = "closed" THEN IsPrefix(answered, asked)
    ELSE IF reset THEN IsPrefix(answered \o waiting, asked)
    ELSE answered \o waiting = asked
Entry == Output \cup Unit

\* Giving the answer to the first that waits, or ending, keeps what is known of
\* the requests asked.
LEMMA TurnKept ==
    ASSUME NEW a \in Seq(Entry), NEW w \in Seq(Entry), NEW asked \in Seq(Entry),
           NEW phase, phase # "closed", NEW reset \in BOOLEAN, InTurn(a, w, asked, phase, reset)
    PROVE  /\ IsPrefix(a, asked)
           /\ \A p2 : p2 # "closed" => InTurn(a, w, asked, p2, reset)
           /\ \A w2, r2 : InTurn(a, w2, asked, "closed", r2)
           /\ \A u \in Entry : \A w2 \in Seq(Entry) :
                  w = <<u>> \o w2 => InTurn(Append(a, u), w2, asked, phase, reset)
<1>1. IsPrefix(a, asked)
  BY PrefixGrows DEF InTurn
<1>2. ASSUME NEW u \in Entry, NEW w2 \in Seq(Entry), w = <<u>> \o w2
      PROVE  InTurn(Append(a, u), w2, asked, phase, reset)
  <2>1. Append(a, u) \o w2 = a \o (<<u>> \o w2)
    OBVIOUS
  <2> QED
    BY <1>2, <2>1 DEF InTurn
<1> QED
  BY <1>1, <1>2 DEF InTurn

TurnOf(c) ==
    /\ peer[c].sent <= Len(peer[c].script)
    /\ InTurn(Exchange(context[c].queued), Exchange(Unanswered(c)), Asked(c),
              context[c].phase, peer[c].reset)
\* RequestsWaitTheirTurn, one connection at a time.
LEMMA TurnsAre == RequestsWaitTheirTurn <=> \A c \in Conns : TurnOf(c)
BY DEF RequestsWaitTheirTurn, TurnOf, InTurn

\* What waits of the connection in service, before and after the step.
LEMMA WaitsInService ==
    ASSUME NEW c, c = cur.key
    PROVE  Exchange(Unanswered(c)) = Waits(c)
BY DEF Unanswered, Waits, Waiting, Join

\* What waits of a connection the session's buffers hold nothing of.
LEMMA WaitsElsewhere ==
    ASSUME NEW c, c = cur.key => plaintext = <<>> /\ chunk = <<>>
    PROVE  Unanswered(c) = (context[c].http_input \o <<>>) \o peer[c].inbound
<1>1. <<>> \o <<>> = <<>>
  OBVIOUS
<1> QED
  BY <1>1 DEF Unanswered

\* The types of what is exchanged.
LEMMA TurnTypes ==
    ASSUME TypeOK, NEW c \in Conns, peer[c].sent <= Len(peer[c].script)
    PROVE  /\ Exchange(context[c].queued) \in Seq(Entry)
           /\ Exchange(Unanswered(c)) \in Seq(Entry)
           /\ Asked(c) \in Seq(Entry)
           /\ peer[c].reset \in BOOLEAN
<1>1. context[c] \in Context /\ peer[c] \in PeerState
  BY DEF TypeOK
<1>2. context[c].queued \in Seq(Entry)
  BY <1>1 DEF Context, Entry
<1>3. Unanswered(c) \in Seq(Entry)
  <2>1. /\ context[c].http_input \in Seq(Entry) /\ plaintext \in Seq(Entry)
        /\ chunk \in Seq(Entry) /\ peer[c].inbound \in Seq(Entry)
    BY <1>1 DEF Context, PeerState, Entry, TypeOK
  <2> QED
    BY <2>1 DEF Unanswered
<1>4. SubSeq(peer[c].script, 1, peer[c].sent) \in Seq(Entry)
  <2>1. peer[c].script \in Seq(Entry) /\ peer[c].sent \in 0 .. Len(peer[c].script)
    BY <1>1 DEF PeerState, Entry
  <2> QED
    BY <2>1, SplitStream, Zenon
<1> QED
  BY <1>1, <1>2, <1>3, <1>4, ExchangeType DEF Asked, PeerState

\* A step that moves no request of a connection, or ends the connection, leaves
\* the others in their turn.
LEMMA TurnStays ==
    ASSUME TypeOK, NEW c \in Conns, TurnOf(c),
           peer'[c].script = peer[c].script, peer'[c].sent = peer[c].sent,
           Exchange(context'[c].queued) = Exchange(context[c].queued),
           \/ context'[c].phase = "closed"
           \/ /\ context[c].phase # "closed"
              /\ Exchange(Unanswered(c))' = Exchange(Unanswered(c))
              /\ peer'[c].reset = peer[c].reset
    PROVE  TurnOf(c)'
<1>1. /\ Exchange(context[c].queued) \in Seq(Entry)
      /\ Exchange(Unanswered(c)) \in Seq(Entry)
      /\ Asked(c) \in Seq(Entry) /\ peer[c].reset \in BOOLEAN
  BY TurnTypes DEF TurnOf
<1>2. Asked(c)' = Asked(c)
  BY DEF Asked
<1>3. InTurn(Exchange(context[c].queued), Exchange(Unanswered(c)), Asked(c),
             context[c].phase, peer[c].reset)
  BY DEF TurnOf
<1>4. IsPrefix(Exchange(context[c].queued), Asked(c))
  <2>1. CASE context[c].phase = "closed"
    BY <1>3, <2>1 DEF InTurn
  <2>2. CASE context[c].phase # "closed"
    BY <1>1, <1>3, <2>2, TurnKept
  <2> QED
    BY <2>1, <2>2
<1>5. CASE context'[c].phase = "closed"
  BY <1>2, <1>4, <1>5 DEF TurnOf, InTurn
<1>6. CASE context'[c].phase # "closed"
  BY <1>2, <1>3, <1>6 DEF TurnOf, InTurn
<1> QED
  BY <1>5, <1>6

-----------------------------------------------------------------------------
(* The steps keep the invariant                                             *)

\* A step that changes one context keeps the others sound.
LEMMA OneContext ==
    ASSUME LoopInv, NEW c \in Conns, NEW q, SoundContext(c, q),
           context' = [context EXCEPT ![c] = q]
    PROVE  /\ context' \in [Conns -> Context] /\ AllSound'
           /\ context'[c] = q /\ \A d \in Conns : d # c => context'[d] = context[d]
<1>1. AllSound /\ context \in [Conns -> Context] /\ q \in Context
  BY SoundConnections DEF TypeOK, SoundContext
<1> QED
  BY <1>1 DEF AllSound

\* What has not changed of a connection stays in its turn, also when another
\* takes the session's buffers.
LEMMA OthersStay ==
    ASSUME LoopInv, NEW d \in Conns,
           d = cur.key => plaintext = <<>> /\ chunk = <<>>,
           d = cur'.key => plaintext' = <<>> /\ chunk' = <<>>,
           context'[d] = context[d], peer'[d] = peer[d]
    PROVE  Unanswered(d)' = Unanswered(d) /\ TurnOf(d)'
<1>1. Unanswered(d) = (context[d].http_input \o <<>>) \o peer[d].inbound
  BY WaitsElsewhere
<1>2. Unanswered(d)' = (context'[d].http_input \o <<>>) \o peer'[d].inbound
  <2>1. <<>> \o <<>> = <<>>
    OBVIOUS
  <2> QED
    BY <2>1 DEF Unanswered
<1>3. TypeOK /\ TurnOf(d)
  BY TurnsAre DEF LoopInv
<1>4. Unanswered(d)' = Unanswered(d)
  BY <1>1, <1>2
<1>5. CASE context[d].phase = "closed"
  BY <1>3, <1>4, <1>5, TurnStays
<1>6. CASE context[d].phase # "closed"
  BY <1>3, <1>4, <1>6, TurnStays
<1> QED
  BY <1>4, <1>5, <1>6

\* The connection in service has all of its session's buffers.
LEMMA ServesKeepsState ==
    ASSUME LoopInv, NEW c \in Conns, Serves(c)
    PROVE  TypeOK' /\ DispatchIsCurrent' /\ AllSound'
<1>1. TypeOK /\ DispatchIsCurrent
  BY DEF LoopInv
<1>2. /\ context' \in [Conns -> Context] /\ AllSound'
      /\ \A d \in Conns : d # c => context'[d] = context[d]
  BY OneContext DEF Serves
<1>3. peer' \in [Conns -> PeerState]
  BY <1>1 DEF Serves, TypeOK
<1>4. cur \in Event /\ cur' \in Event
  BY <1>1, IdleType DEF Serves, TypeOK
<1>5. TypeOK'
  BY <1>1, <1>2, <1>3, <1>4 DEF Serves, TypeOK
<1>6. \A ev \in events : ev.key \in Conns => ev.key # c /\ Open(ev.key)
  BY <1>1 DEF Serves, DispatchIsCurrent
<1>7. \A ev \in events' : ev.key \in Conns => Open(ev.key)' /\ ev.key # cur'.key
  BY <1>2, <1>6, IdleType DEF Serves, Open
<1>8. pc' \in {"loop", "cleanup", "done"} <=> cur' = Idle
  <2>1. CASE pc' \in {"loop", "cleanup"}
    BY <2>1 DEF Serves
  <2>2. CASE pc' \notin {"loop", "cleanup"}
    <3>1. cur' = cur /\ cur.key \in Conns /\ pc' \in {"feed", "http", "flush"}
      BY <2>2 DEF Serves
    <3>2. cur # Idle
      BY <3>1, IdleType
    <3> QED
      BY <3>1, <3>2
  <2> QED
    BY <2>1, <2>2
<1>9. cur'.key \in Conns => Open(cur.key)'
  <2> SUFFICES ASSUME cur'.key \in Conns PROVE Open(cur.key)'
    OBVIOUS
  <2>1. pc' \notin {"loop", "cleanup"} /\ cur' = cur /\ c = cur.key
    BY IdleType DEF Serves
  <2>2. context'[c].phase = "open"
    BY <2>1 DEF Serves
  <2> QED
    BY <2>1, <2>2 DEF Open
<1>10. DispatchIsCurrent'
  <2>1. \A e, f \in events' : e.key = f.key => e = f
    BY <1>1 DEF Serves, DispatchIsCurrent
  <2>2. pc' = "feed" => cur'.key \in TLSConns
    BY DEF Serves
  <2>3. pc' # "feed" => chunk' = <<>> /\ pending' = <<>> /\ plaintext' = <<>>
    BY DEF Serves
  <2> QED
    BY <1>7, <1>8, <1>9, <2>1, <2>2, <2>3, Zenon DEF DispatchIsCurrent
<1> QED
  BY <1>2, <1>5, <1>10

\* After the step what waits of the connection served is where it was, or the
\* connection is out of service and nothing is left in the session's hands.
LEMMA WaitsAfterService ==
    ASSUME LoopInv, NEW c \in Conns, Serves(c)
    PROVE  Exchange(Unanswered(c))' = Waits(c)'
<1>1. CASE cur' = cur
  BY <1>1 DEF Serves, Unanswered, Waits, Waiting, Join
<1>2. CASE cur' # cur
  <2>1. cur' = Idle /\ c # cur'.key /\ chunk' = <<>> /\ plaintext' = <<>>
    BY <1>2, IdleType DEF Serves
  <2>2. <<>> \o <<>> = <<>>
    OBVIOUS
  <2>3. Unanswered(c)' = (context'[c].http_input \o <<>>) \o peer'[c].inbound
    BY <2>1 DEF Unanswered
  <2>4. Waits(c)' = Exchange((context'[c].http_input \o (<<>> \o <<>>)) \o peer'[c].inbound)
    BY <2>1 DEF Waits, Waiting, Join
  <2> QED
    BY <2>2, <2>3, <2>4
<1> QED
  BY <1>1, <1>2

\* An outcome of a service step leaves every request answered or in its turn.
LEMMA ServiceKeepsTurns ==
    ASSUME LoopInv, NEW c \in Conns, Serves(c), Moves(c) \/ Closes(c) \/ Answers(c) \/ Sends(c)
    PROVE  RequestsWaitTheirTurn'
<1>1. TypeOK /\ TurnOf(c) /\ c = cur.key /\ context[c].phase = "open"
  BY TurnsAre DEF LoopInv, Serves, Open
<1>2. /\ peer'[c].script = peer[c].script /\ peer'[c].sent = peer[c].sent
      /\ peer'[c].reset = peer[c].reset
  BY DEF Serves
<1>3. Exchange(Unanswered(c)) = Waits(c) /\ Exchange(Unanswered(c))' = Waits(c)'
  BY <1>1, WaitsInService, WaitsAfterService, Zenon
<1>4. ASSUME Moves(c) \/ Closes(c) \/ Sends(c)
      PROVE  TurnOf(c)'
  BY <1>1, <1>2, <1>3, <1>4, TurnStays, Zenon DEF Moves, Closes, Sends
<1>5. ASSUME Answers(c)
      PROVE  TurnOf(c)'
  <2>1. PICK u \in Unit :
            /\ Exchange(context'[c].queued) = Append(Exchange(context[c].queued), u)
            /\ Waits(c) = <<u>> \o Waits(c)'
    BY <1>5 DEF Answers
  <2> DEFINE a == Exchange(context[c].queued)
             w == Exchange(Unanswered(c))
             w2 == Waits(c)'
             asked == Asked(c)
             phase == context[c].phase
             reset == peer[c].reset
  <2>2. a \in Seq(Entry) /\ w \in Seq(Entry) /\ asked \in Seq(Entry) /\ reset \in BOOLEAN
    BY <1>1, TurnTypes DEF TurnOf
  <2>3. w2 \in Seq(Entry) /\ u \in Entry
    <3>1. w2 \in Seq(Unit)
      BY <1>5 DEF Answers
    <3> QED
      BY <3>1 DEF Entry
  <2>4. phase # "closed" /\ InTurn(a, w, asked, phase, reset)
    BY <1>1 DEF TurnOf
  <2>5. w = <<u>> \o w2
    BY <1>3, <2>1
  <2>6. InTurn(Append(a, u), w2, asked, phase, reset)
    <3> HIDE DEF a, w, w2, asked, phase, reset
    <3> QED
      BY <2>2, <2>3, <2>4, <2>5, TurnKept, Zenon
  <2>7. Asked(c)' = asked /\ context'[c].phase = phase
    BY <1>1, <1>2, <1>5 DEF Asked, Answers
  <2>8. TurnOf(c)' <=> /\ peer[c].sent <= Len(peer[c].script)
                       /\ InTurn(Append(a, u), w2, asked, phase, reset)
    BY <1>2, <1>3, <2>1, <2>7, Zenon DEF TurnOf
  <2> QED
    BY <1>1, <2>6, <2>8 DEF TurnOf
<1>6. ASSUME NEW d \in Conns, d # c
      PROVE  TurnOf(d)'
  <2>1. context'[d] = context[d] /\ peer'[d] = peer[d]
    BY <1>6 DEF Serves, LoopInv, TypeOK
  <2>2. d # cur.key /\ d # cur'.key
    BY <1>6, IdleType DEF Serves
  <2> QED
    BY <2>1, <2>2, OthersStay
<1>7. \A d \in Conns : TurnOf(d)'
  BY <1>4, <1>5, <1>6
<1> QED
  BY <1>7 DEF RequestsWaitTheirTurn, TurnOf, InTurn

\* The parts of the invariant, after a step.
LEMMA InvariantAfter ==
    TypeOK' /\ DispatchIsCurrent' /\ AllSound' /\ RequestsWaitTheirTurn' => LoopInv'
BY SoundConnections, PTL

\* Serving a connection keeps the invariant.
LEMMA ServiceKeepsInvariant ==
    ASSUME LoopInv, NEW c \in Conns, ServiceStep(c)
    PROVE  LoopInv'
BY ServiceOutcome, ServesKeepsState, ServiceKeepsTurns, InvariantAfter

\* A connection that a step leaves alone.
LEMMA TurnUntouched ==
    ASSUME LoopInv, NEW d \in Conns,
           chunk' = chunk, plaintext' = plaintext,
           cur' = cur \/ pc # "feed",
           context'[d] = context[d], peer'[d] = peer[d]
    PROVE  TurnOf(d)'
<1>1. CASE cur' = cur
  <2>1. Unanswered(d)' = Unanswered(d) /\ TypeOK /\ TurnOf(d)
    BY <1>1, TurnsAre DEF Unanswered, LoopInv
  <2>2. CASE context[d].phase = "closed"
    BY <2>1, <2>2, TurnStays
  <2>3. CASE context[d].phase # "closed"
    BY <2>1, <2>3, TurnStays
  <2> QED
    BY <2>2, <2>3
<1>2. CASE pc # "feed"
  <2>1. chunk = <<>> /\ plaintext = <<>>
    BY <1>2 DEF LoopInv, DispatchIsCurrent
  <2> QED
    BY <2>1, OthersStay
<1> QED
  BY <1>1, <1>2

\* A step that leaves all connections alone.
LEMMA TurnsUntouched ==
    ASSUME LoopInv, chunk' = chunk, plaintext' = plaintext,
           cur' = cur \/ pc # "feed", context' = context, peer' = peer
    PROVE  RequestsWaitTheirTurn' /\ AllSound'
<1>1. \A d \in Conns : TurnOf(d)'
  BY TurnUntouched
<1>2. AllSound'
  BY SoundConnections DEF AllSound
<1> QED
  BY <1>1, <1>2 DEF RequestsWaitTheirTurn, TurnOf, InTurn

\* The loop's thread is between two events.
LEMMA BetweenEvents ==
    ASSUME LoopInv, pc \in {"loop", "cleanup", "done"}
    PROVE  /\ cur = Idle /\ cur.key \notin Conns /\ pc # "feed"
           /\ chunk = <<>> /\ pending = <<>> /\ plaintext = <<>>
BY IdleType DEF LoopInv, DispatchIsCurrent

\* select() reports open connections only, each once.
LEMMA SelectKeepsInvariant == LoopInv /\ Select => LoopInv'
<1> SUFFICES ASSUME LoopInv, Select PROVE LoopInv'
  OBVIOUS
<1>1. /\ pc = "loop" /\ pc' = pc /\ cur' = cur /\ events' = Ready
      /\ chunk' = chunk /\ pending' = pending /\ plaintext' = plaintext
      /\ stopping' = stopping /\ context' = context /\ peer' = peer
  BY DEF Select, sessionVars
<1>2. TypeOK /\ AllSound /\ cur.key \notin Conns /\ cur = Idle
      /\ chunk = <<>> /\ pending = <<>> /\ plaintext = <<>>
  BY <1>1, SoundConnections, BetweenEvents
<1>3. \A ev \in Ready :
          \/ ev.key \in Listeners /\ ev = [key |-> ev.key, mask |-> {"READ"}]
          \/ ev.key \in Conns /\ ev = [key |-> ev.key, mask |-> ReadyMask(ev.key)]
                              /\ ReadyMask(ev.key) # {}
  BY DEF Ready
<1>4. \A c \in Conns : ReadyMask(c) \in Mask /\ (ReadyMask(c) # {} => Open(c))
  <2> SUFFICES ASSUME NEW c \in Conns
               PROVE  ReadyMask(c) \in Mask /\ (ReadyMask(c) # {} => Open(c))
    OBVIOUS
  <2>1. context[c].interest \in Mask /\ (context[c].phase # "open" => context[c].interest = {})
    BY <1>2 DEF AllSound, SoundContext, Context
  <2>2. ReadyMask(c) \subseteq context[c].interest
    BY DEF ReadyMask
  <2> QED
    BY <2>1, <2>2 DEF Mask, Open
<1>5. Ready \subseteq Event
  <2> SUFFICES ASSUME NEW ev \in Ready PROVE ev \in Event
    OBVIOUS
  <2>1. CASE ev.key \in Listeners /\ ev = [key |-> ev.key, mask |-> {"READ"}]
    BY <2>1 DEF Event, Mask
  <2>2. CASE ev.key \in Conns /\ ev = [key |-> ev.key, mask |-> ReadyMask(ev.key)]
    BY <1>4, <2>2 DEF Event
  <2> QED
    BY <1>3, <2>1, <2>2
<1>6. TypeOK'
  BY <1>1, <1>2, <1>5 DEF TypeOK
<1>7. \A ev \in Ready : ev.key \in Conns => Open(ev.key) /\ ev.key # cur.key
  <2> SUFFICES ASSUME NEW ev \in Ready, ev.key \in Conns
               PROVE  Open(ev.key) /\ ev.key # cur.key
    OBVIOUS
  <2>1. ev.key \notin Listeners
    BY ConstantsAssumption
  <2>2. ReadyMask(ev.key) # {}
    BY <1>3, <2>1
  <2> QED
    BY <1>2, <1>4, <2>2
<1>8. \A e, f \in Ready : e.key = f.key => e = f
  BY <1>3, ConstantsAssumption
<1>9. DispatchIsCurrent'
  BY <1>1, <1>2, <1>7, <1>8 DEF DispatchIsCurrent, Open
<1> QED
  BY <1>1, <1>2, <1>6, <1>9, TurnsUntouched, InvariantAfter

\* Leaving the loop changes no connection.
LEMMA LeaveLoopKeepsInvariant == LoopInv /\ LeaveLoop => LoopInv'
<1> SUFFICES ASSUME LoopInv, LeaveLoop PROVE LoopInv'
  OBVIOUS
<1>1. /\ pc = "loop" /\ pc' = "cleanup" /\ cur' = cur /\ events' = events /\ events = {}
      /\ chunk' = chunk /\ pending' = pending /\ plaintext' = plaintext
      /\ stopping' = stopping /\ context' = context /\ peer' = peer
  BY DEF LeaveLoop, sessionVars
<1>2. TypeOK /\ DispatchIsCurrent
  BY DEF LoopInv
<1>3. TypeOK'
  BY <1>1, <1>2 DEF TypeOK
<1>4. DispatchIsCurrent'
  BY <1>1, BetweenEvents DEF DispatchIsCurrent
<1> QED
  BY <1>1, <1>3, <1>4, TurnsUntouched, InvariantAfter

\* The session's buffers are empty when a connection is taken into service.
LEMMA ServiceStartKeepsInvariant ==
    ASSUME LoopInv, NEW ev \in events, Service(ev)
    PROVE  LoopInv'
<1>1. /\ pc = "loop" /\ cur' = ev /\ events' = events \ {ev} /\ ev.key \in Conns
      /\ pc' \in {"read", "flush"}
      /\ chunk' = chunk /\ pending' = pending /\ plaintext' = plaintext
      /\ stopping' = stopping /\ context' = context /\ peer' = peer
  BY DEF Service, IsClient, sessionVars
<1>2. TypeOK /\ DispatchIsCurrent
  BY DEF LoopInv
<1>3. chunk = <<>> /\ pending = <<>> /\ plaintext = <<>> /\ ev # Idle
  BY <1>1, BetweenEvents, IdleType
<1>4. TypeOK'
  BY <1>1, <1>2 DEF TypeOK
<1>5. /\ \A f \in events' : f.key \in Conns => Open(f.key)' /\ f.key # ev.key
      /\ \A e, f \in events' : e.key = f.key => e = f
      /\ Open(ev.key)'
  BY <1>1, <1>2 DEF DispatchIsCurrent, Open
<1>6. DispatchIsCurrent'
  BY <1>1, <1>3, <1>5 DEF DispatchIsCurrent, Open
<1> QED
  BY <1>1, <1>4, <1>6, TurnsUntouched, InvariantAfter

\* A step outside of service that changes the context and the peer of one
\* connection only.
LEMMA AsideStep ==
    ASSUME LoopInv, NEW c \in Conns, NEW q, SoundContext(c, q), NEW p \in PeerState,
           context' = [context EXCEPT ![c] = q], peer' = [peer EXCEPT ![c] = p],
           pc' = pc, cur' = cur, chunk' = chunk, pending' = pending, plaintext' = plaintext,
           stopping' = stopping, events' \subseteq events,
           context[c].phase = "open" => q.phase = "open",
           TurnOf(c)'
    PROVE  LoopInv'
<1>1. TypeOK /\ DispatchIsCurrent
  BY DEF LoopInv
<1>2. /\ context' \in [Conns -> Context] /\ AllSound'
      /\ context'[c] = q /\ \A d \in Conns : d # c => context'[d] = context[d]
  BY OneContext
<1>3. /\ peer' \in [Conns -> PeerState] /\ \A d \in Conns : d # c => peer'[d] = peer[d]
  BY <1>1 DEF TypeOK
<1>4. TypeOK'
  BY <1>1, <1>2, <1>3 DEF TypeOK
<1>5. \A d \in Conns : Open(d) => Open(d)'
  BY <1>2 DEF Open
<1>6. /\ \A ev \in events' : ev.key \in Conns => Open(ev.key)' /\ ev.key # cur.key
      /\ \A e, f \in events' : e.key = f.key => e = f
      /\ cur.key \in Conns => Open(cur.key)
  BY <1>1, <1>5 DEF DispatchIsCurrent
<1>7. (cur.key \in Conns => Open(cur.key))'
  BY <1>2, <1>6 DEF Open
<1>8. DispatchIsCurrent'
  BY <1>1, <1>6, <1>7 DEF DispatchIsCurrent
<1>9. \A d \in Conns : TurnOf(d)'
  <2> SUFFICES ASSUME NEW d \in Conns, d # c PROVE TurnOf(d)'
    OBVIOUS
  <2> QED
    BY <1>2, <1>3, TurnUntouched
<1>10. RequestsWaitTheirTurn'
  BY <1>9 DEF RequestsWaitTheirTurn, TurnOf, InTurn
<1> QED
  BY <1>2, <1>4, <1>8, <1>10, InvariantAfter

\* A connection that has not been accepted has no output.
LEMMA NoOutputBefore ==
    ASSUME NEW w \in Seq(Output), NEW b \in Seq(Output), w \o b = <<>>
    PROVE  b = <<>>
<1>1. Len(w \o b) = Len(w) + Len(b) /\ Len(w \o b) = 0
  OBVIOUS
<1> QED
  BY <1>1

\* The turn of a connection on which nothing moves, whatever its phase becomes.
LEMMA AsideTurn ==
    ASSUME LoopInv, NEW c \in Conns, context[c].phase # "closed",
           Exchange(context'[c].queued) = Exchange(context[c].queued),
           context'[c].http_input = context[c].http_input,
           peer'[c].script = peer[c].script, peer'[c].sent = peer[c].sent,
           peer'[c].reset = peer[c].reset, peer'[c].inbound = peer[c].inbound,
           cur' = cur, chunk' = chunk, plaintext' = plaintext
    PROVE  TurnOf(c)'
<1>1. Unanswered(c)' = Unanswered(c) /\ TypeOK /\ TurnOf(c)
  BY TurnsAre DEF Unanswered, LoopInv
<1> QED
  BY <1>1, TurnStays

\* accept() takes a connection from the backlog, that nothing is known of yet.
LEMMA AcceptKeepsInvariant ==
    ASSUME LoopInv, NEW l \in Listeners, Accept(l)
    PROVE  LoopInv'
<1>1. /\ pc = "loop" /\ pc' = pc /\ cur' = cur /\ events' \subseteq events
      /\ chunk' = chunk /\ pending' = pending /\ plaintext' = plaintext
      /\ stopping' = stopping /\ peer' = peer
  BY DEF Accept, sessionVars
<1>2. CASE context' = context
  <2>1. TypeOK /\ DispatchIsCurrent
    BY DEF LoopInv
  <2>2. TypeOK'
    BY <1>1, <1>2, <2>1 DEF TypeOK
  <2>3. DispatchIsCurrent'
    BY <1>1, <1>2, <2>1 DEF DispatchIsCurrent, Open
  <2> QED
    BY <1>1, <1>2, <2>2, <2>3, TurnsUntouched, InvariantAfter
<1>3. ASSUME NEW c \in Pending(l),
             context' = [context EXCEPT ![c].phase = "open", ![c].interest = {"READ"}]
      PROVE  LoopInv'
  <2> DEFINE ctx == context[c]
             q == [ctx EXCEPT !.phase = "open", !.interest = {"READ"}]
  <2>1. c \in Conns /\ ctx.phase = "backlog"
    BY <1>3 DEF Pending
  <2>2. SoundContext(c, ctx) /\ peer[c] \in PeerState /\ peer \in [Conns -> PeerState]
    BY <2>1, SoundConnections DEF AllSound, TypeOK
  <2>3. ctx.output_buffer = <<>>
    BY <2>1, <2>2, NoOutputBefore DEF SoundContext, Context
  <2>4. SoundContext(c, q) /\ q.queued = ctx.queued /\ q.http_input = ctx.http_input
    <3> HIDE DEF ctx
    <3> QED
      BY <2>1, <2>2, <2>3 DEF SoundContext, Context, Mask
  <2>5. context' = [context EXCEPT ![c] = q] /\ peer' = [peer EXCEPT ![c] = peer[c]]
    BY <1>1, <1>3, <2>2
  <2>6. context'[c] = q
    BY <2>1, <2>5 DEF LoopInv, TypeOK
  <2>7. TurnOf(c)'
    <3> HIDE DEF q
    <3> QED
      BY <1>1, <2>1, <2>4, <2>6, AsideTurn
  <2> HIDE DEF q
  <2> QED
    BY <1>1, <2>1, <2>2, <2>4, <2>5, <2>7, AsideStep
<1> QED
  BY <1>2, <1>3 DEF Accept

\* A client that connects is in the backlog.
LEMMA ConnectKeepsInvariant ==
    ASSUME LoopInv, NEW c \in Conns, Connect(c)
    PROVE  LoopInv'
<1> DEFINE ctx == context[c]
           q == [ctx EXCEPT !.phase = "backlog"]
<1>1. /\ ctx.phase = "none" /\ pc' = pc /\ cur' = cur /\ events' = events
      /\ chunk' = chunk /\ pending' = pending /\ plaintext' = plaintext
      /\ stopping' = stopping /\ peer' = peer
      /\ context' = [context EXCEPT ![c] = q]
  BY DEF Connect, serverVars, loopVars, sessionVars
<1>2. SoundContext(c, ctx) /\ peer[c] \in PeerState /\ peer' = [peer EXCEPT ![c] = peer[c]]
  BY <1>1, SoundConnections DEF AllSound, TypeOK
<1>3. context'[c] = q
  BY <1>1 DEF LoopInv, TypeOK
<1> HIDE DEF ctx
<1>4. SoundContext(c, q) /\ q.queued = ctx.queued /\ q.http_input = ctx.http_input
  BY <1>1, <1>2 DEF SoundContext, Context
<1> HIDE DEF q
<1>5. TurnOf(c)'
  BY <1>1, <1>3, <1>4, AsideTurn DEF ctx
<1> QED
  BY <1>1, <1>2, <1>4, <1>5, AsideStep DEF ctx

\* What Connected says of a connection.
LEMMA ConnectedPhase ==
    ASSUME LoopInv, NEW c \in Conns, Connected(c)
    PROVE  /\ context[c].phase \in {"backlog", "open"} /\ ~peer[c].reset
           /\ SoundContext(c, context[c]) /\ peer[c] \in PeerState
           /\ context = [context EXCEPT ![c] = context[c]]
BY SoundConnections DEF Connected, AllSound, TypeOK

\* One more unit is on its way: it waits behind all that were sent before it.
LEMMA SentTurn ==
    ASSUME NEW a \in Seq(Entry), NEW w \in Seq(Entry), NEW asked \in Seq(Entry),
           NEW phase, phase # "closed", NEW u \in Entry, InTurn(a, w, asked, phase, FALSE)
    PROVE  InTurn(a, Extended(w, u), Extended(asked, u), phase, FALSE)
<1>1. a \o w = asked
  BY DEF InTurn
<1>2. ExtendsBehind(Entry)
  BY ExtendedConcat
<1>3. Extended(a \o w, u) = a \o Extended(w, u)
  BY <1>2, Zenon DEF ExtendsBehind
<1> QED
  BY <1>1, <1>3 DEF InTurn

\* A unit appended behind.
AppendsBehind(S) ==
    \A s, t \in Seq(S) : \A u \in S :
        s \o Append(t, u) = Append(s \o t, u) /\ s \o t \in Seq(S)
\* Whatever the streams are of, appending behind appends to the whole.
LEMMA AppendedBehind == \A S : AppendsBehind(S)
BY DEF AppendsBehind

\* What a client sends is on its way to http_input behind all that it sent
\* before, and is the next of its script.
LEMMA SendExtends ==
    ASSUME LoopInv, NEW c \in Conns, ClientSends(c)
    PROVE  LET u == peer[c].script[peer[c].sent + 1] IN
           /\ u \in Unit
           /\ peer' = [peer EXCEPT ![c] = peer'[c]] /\ peer'[c] \in PeerState
           /\ peer'[c].script = peer[c].script /\ peer'[c].sent = peer[c].sent + 1
           /\ peer'[c].sent <= Len(peer[c].script)
           /\ peer'[c].reset = FALSE /\ peer[c].reset = FALSE
           /\ Asked(c)' = Extended(Asked(c), u)
           /\ Exchange(Unanswered(c))' = Extended(Exchange(Unanswered(c)), u)
<1> DEFINE p == peer[c]
           u == p.script[p.sent + 1]
           m == p.sent
           script == p.script
<1>1. /\ p.sent < Len(p.script)
      /\ peer' = [peer EXCEPT ![c] = [p EXCEPT !.sent = p.sent + 1, !.inbound = Append(p.inbound, u)]]
      /\ cur' = cur /\ chunk' = chunk /\ plaintext' = plaintext /\ context' = context
  BY DEF ClientSends, serverVars, loopVars, sessionVars
<1>2. /\ p \in PeerState /\ ~p.reset /\ peer \in [Conns -> PeerState] /\ context[c] \in Context
      /\ chunk \in Seq(Unit) /\ plaintext \in Seq(Unit)
  BY ConnectedPhase DEF ClientSends, LoopInv, TypeOK
<1>3. script \in Seq(Unit) /\ m \in Nat /\ m + 1 \in 1 .. Len(script) /\ p.inbound \in Seq(Unit)
  BY <1>1, <1>2 DEF PeerState
<1>4. u \in Unit /\ Append(p.inbound, u) \in Seq(Unit)
  BY <1>3
<1>5. peer'[c] = [p EXCEPT !.sent = p.sent + 1, !.inbound = Append(p.inbound, u)]
  BY <1>1, <1>2
<1>6. /\ peer' = [peer EXCEPT ![c] = peer'[c]] /\ peer'[c] \in PeerState
      /\ peer'[c].script = script /\ peer'[c].sent = m + 1
      /\ peer'[c].inbound = Append(p.inbound, u)
      /\ peer'[c].reset = p.reset /\ p.reset \in BOOLEAN
  <2> DEFINE more == Append(p.inbound, u)
  <2>1. more \in Seq(Unit) /\ m + 1 \in Nat
    BY <1>3, <1>4
  <2> HIDE DEF more
  <2>2. peer'[c] = [p EXCEPT !.sent = m + 1, !.inbound = more]
    BY <1>5 DEF more
  <2>3. peer'[c] \in PeerState /\ peer'[c].script = script /\ peer'[c].sent = m + 1
        /\ peer'[c].inbound = more /\ peer'[c].reset = p.reset /\ p.reset \in BOOLEAN
    BY <1>2, <2>1, <2>2 DEF PeerState
  <2>4. peer' = [peer EXCEPT ![c] = peer'[c]]
    BY <1>1, <1>5
  <2> QED
    BY <2>3, <2>4 DEF more
<1>7. Asked(c)' = Extended(Asked(c), u)
  <2>1. /\ SubSeq(script, 1, m) \in Seq(Unit)
        /\ SubSeq(script, 1, m + 1) = Append(SubSeq(script, 1, m), u)
    <3> HIDE DEF script, m
    <3>1. u = script[m + 1]
      BY DEF script, m
    <3> HIDE DEF u
    <3>2. SubSeq(script, 1, m) \in Seq(Unit) /\ Len(SubSeq(script, 1, m)) = m
      BY <1>3
    <3>3. \A i \in 1 .. m : SubSeq(script, 1, m)[i] = script[i]
      BY <1>3
    <3>4. /\ SubSeq(script, 1, m + 1) \in Seq(Unit) /\ Len(SubSeq(script, 1, m + 1)) = m + 1
          /\ \A i \in 1 .. m + 1 : SubSeq(script, 1, m + 1)[i] = script[i]
      BY <1>3
    <3>5. /\ Append(SubSeq(script, 1, m), u) \in Seq(Unit)
          /\ Len(Append(SubSeq(script, 1, m), u)) = m + 1
          /\ \A i \in 1 .. m + 1 : Append(SubSeq(script, 1, m), u)[i] = script[i]
      BY <1>4, <3>1, <3>2, <3>3
    <3> QED
      BY <3>2, <3>4, <3>5, SeqEqual
  <2>2. Exchange(Append(SubSeq(script, 1, m), u)) = Extended(Exchange(SubSeq(script, 1, m)), u)
    BY <1>4, <2>1, ExchangeOfAppend
  <2>3. Asked(c)' = Exchange(SubSeq(script, 1, m + 1))
    BY <1>6, Zenon DEF Asked
  <2> QED
    BY <2>1, <2>2, <2>3 DEF Asked
<1>8. Exchange(Unanswered(c))' = Extended(Exchange(Unanswered(c)), u)
  <2> DEFINE held == IF c = cur.key THEN plaintext \o chunk ELSE <<>>
             front == context[c].http_input \o held
             inbound == p.inbound
  <2>1. front \in Seq(Unit)
    BY <1>2 DEF Context
  <2>2. Unanswered(c) = front \o inbound
    BY DEF Unanswered
  <2>3. Unanswered(c)' = front \o Append(inbound, u)
    BY <1>1, <1>6, Zenon DEF Unanswered
  <2> HIDE DEF front, u, inbound
  <2>4. front \o Append(inbound, u) = Append(front \o inbound, u) /\ front \o inbound \in Seq(Unit)
    <3>1. inbound \in Seq(Unit)
      BY <1>3 DEF inbound
    <3> QED
      BY <1>4, <2>1, <3>1, Zenon, AppendedBehind DEF AppendsBehind
  <2>5. Exchange(Append(front \o inbound, u)) = Extended(Exchange(front \o inbound), u)
    BY <1>4, <2>4, ExchangeOfAppend
  <2> QED
    BY <2>2, <2>3, <2>4, <2>5
<1> QED
  BY <1>2, <1>3, <1>4, <1>6, <1>7, <1>8

\* A client that sends one more unit has one more that waits.
LEMMA ClientSendsKeepsInvariant ==
    ASSUME LoopInv, NEW c \in Conns, ClientSends(c)
    PROVE  LoopInv'
<1> DEFINE u == peer[c].script[peer[c].sent + 1]
<1>1. /\ u \in Unit
      /\ peer' = [peer EXCEPT ![c] = peer'[c]] /\ peer'[c] \in PeerState
      /\ peer'[c].script = peer[c].script
      /\ peer'[c].sent <= Len(peer[c].script)
      /\ peer'[c].reset = FALSE /\ peer[c].reset = FALSE
      /\ Asked(c)' = Extended(Asked(c), u)
      /\ Exchange(Unanswered(c))' = Extended(Exchange(Unanswered(c)), u)
  BY SendExtends
<1> HIDE DEF u
<1>2. /\ pc' = pc /\ cur' = cur /\ events' = events /\ chunk' = chunk
      /\ pending' = pending /\ plaintext' = plaintext /\ stopping' = stopping
      /\ context' = context
  BY DEF ClientSends, serverVars, loopVars, sessionVars
<1>3. /\ context[c].phase \in {"backlog", "open"} /\ SoundContext(c, context[c])
      /\ context' = [context EXCEPT ![c] = context[c]]
  BY <1>2, ConnectedPhase DEF ClientSends
<1>4. TurnOf(c) /\ TypeOK
  BY TurnsAre DEF LoopInv
<1>5. InTurn(Exchange(context[c].queued), Exchange(Unanswered(c)), Asked(c), context[c].phase, FALSE)
  BY <1>1, <1>4 DEF TurnOf
<1>6. InTurn(Exchange(context[c].queued), Extended(Exchange(Unanswered(c)), u),
             Extended(Asked(c), u), context[c].phase, FALSE)
  <2>1. /\ Exchange(context[c].queued) \in Seq(Entry) /\ Exchange(Unanswered(c)) \in Seq(Entry)
        /\ Asked(c) \in Seq(Entry)
    BY <1>4, TurnTypes DEF TurnOf
  <2>2. u \in Entry
    BY <1>1 DEF Entry
  <2> QED
    BY <1>3, <1>5, <2>1, <2>2, SentTurn
<1>7. TurnOf(c)'
  <2>1. peer'[c].sent <= Len(peer'[c].script)
    BY <1>1
  <2> QED
    BY <1>1, <1>2, <1>6, <2>1 DEF TurnOf
<1> QED
  BY <1>1, <1>2, <1>3, <1>7, AsideStep

\* A client that shuts its sending side down moves no request.
LEMMA ClientFinishesKeepsInvariant ==
    ASSUME LoopInv, NEW c \in Conns, ClientFinishes(c)
    PROVE  LoopInv'
<1> DEFINE p == [peer[c] EXCEPT !.fin = TRUE]
<1>1. /\ pc' = pc /\ cur' = cur /\ events' = events /\ chunk' = chunk
      /\ pending' = pending /\ plaintext' = plaintext /\ stopping' = stopping
      /\ context' = context /\ peer' = [peer EXCEPT ![c] = p]
  BY DEF ClientFinishes, serverVars, loopVars, sessionVars
<1>2. /\ context[c].phase \in {"backlog", "open"} /\ SoundContext(c, context[c])
      /\ context' = [context EXCEPT ![c] = context[c]] /\ peer[c] \in PeerState
      /\ peer'[c] = p
  BY <1>1, ConnectedPhase DEF ClientFinishes, LoopInv, TypeOK
<1>3. /\ p \in PeerState /\ p.script = peer[c].script /\ p.sent = peer[c].sent
      /\ p.reset = peer[c].reset /\ p.inbound = peer[c].inbound
  BY <1>2 DEF PeerState
<1> HIDE DEF p
<1>4. TurnOf(c)'
  BY <1>1, <1>2, <1>3, AsideTurn
<1> QED
  BY <1>1, <1>2, <1>3, <1>4, AsideStep

\* A client that reads makes room in the kernel and moves no request.
LEMMA ClientReadsKeepsInvariant ==
    ASSUME LoopInv, NEW c \in Conns, ClientReads(c)
    PROVE  LoopInv'
<1> DEFINE p == [peer[c] EXCEPT !.unread = peer[c].unread - 1]
<1>1. /\ pc' = pc /\ cur' = cur /\ events' = events /\ chunk' = chunk
      /\ pending' = pending /\ plaintext' = plaintext /\ stopping' = stopping
      /\ context' = context /\ peer' = [peer EXCEPT ![c] = p]
      /\ context[c].phase = "open" /\ peer[c].unread > 0
  BY DEF ClientReads, serverVars, loopVars, sessionVars, Open
<1>2. /\ SoundContext(c, context[c])
      /\ context' = [context EXCEPT ![c] = context[c]] /\ peer[c] \in PeerState
      /\ peer'[c] = p
  BY <1>1, SoundConnections DEF AllSound, TypeOK
<1>3. /\ p \in PeerState /\ p.script = peer[c].script /\ p.sent = peer[c].sent
      /\ p.reset = peer[c].reset /\ p.inbound = peer[c].inbound
  <2>1. peer[c].unread - 1 \in 0 .. SendCapacity
    BY <1>1, <1>2, ConstantsAssumption DEF PeerState
  <2> QED
    BY <1>2, <2>1 DEF PeerState
<1> HIDE DEF p
<1>4. TurnOf(c)'
  BY <1>1, <1>2, <1>3, AsideTurn
<1> QED
  BY <1>1, <1>2, <1>3, <1>4, AsideStep

\* Two of three streams that make up a whole are a prefix of it.
LEMMA PrefixOfThree ==
    ASSUME NEW S, NEW a \in Seq(S), NEW f \in Seq(S), NEW k \in Seq(S)
    PROVE  IsPrefix(a \o f, a \o (f \o k))
<1>1. (a \o f) \o k = a \o (f \o k)
  OBVIOUS
<1>2. a \o f \in Seq(S) /\ a \o (f \o k) \in Seq(S)
  OBVIOUS
<1> QED
  BY <1>1, <1>2, PrefixOfConcat, Zenon

\* A reset that discards what has arrived discards the last requests.
LEMMA ResetTurn ==
    ASSUME NEW a \in Seq(Entry), NEW front \in Seq(Entry), NEW lost \in Seq(Entry),
           NEW asked \in Seq(Entry), NEW phase, phase # "closed",
           InTurn(a, Exchange(front \o lost), asked, phase, FALSE)
    PROVE  /\ InTurn(a, Exchange(front \o <<>>), asked, phase, TRUE)
           /\ InTurn(a, Exchange(front \o lost), asked, phase, TRUE)
<1>1. a \o Exchange(front \o lost) = asked
  BY DEF InTurn
<1>2. /\ Exchange(front \o lost) = Exchange(front) \o Exchange(lost)
      /\ front \o <<>> = front
      /\ Exchange(front) \in Seq(Entry) /\ Exchange(lost) \in Seq(Entry)
      /\ Exchange(front \o lost) \in Seq(Entry)
  <2>1. front \o lost \in Seq(Entry) /\ front \o <<>> = front
    OBVIOUS
  <2>2. Exchange(front \o lost) = Exchange(front) \o Exchange(lost)
    BY ExchangeOfConcat
  <2> QED
    BY <2>1, <2>2, ExchangeType
<1> DEFINE f == Exchange(front)
           k == Exchange(lost)
<1>3. a \o (f \o k) = asked /\ f \in Seq(Entry) /\ k \in Seq(Entry)
  BY <1>1, <1>2
<1>4. IsPrefix(a \o f, asked)
  <2> HIDE DEF f, k
  <2> QED
    BY <1>3, PrefixOfThree
<1>5. IsPrefix(asked, asked)
  BY PrefixGrows
<1> QED
  BY <1>1, <1>2, <1>4, <1>5 DEF InTurn

\* A reset may lose what the kernel holds, and in the backlog the connection.
LEMMA ClientResetsKeepsInvariant ==
    ASSUME LoopInv, NEW c \in Conns, ClientResets(c)
    PROVE  LoopInv'
<1> DEFINE ctx == context[c]
<1>1. PICK inbound \in {<<>>, peer[c].inbound} :
          peer' = [peer EXCEPT ![c].reset = TRUE, ![c].inbound = inbound]
  BY DEF ClientResets
<1> DEFINE p == [peer[c] EXCEPT !.reset = TRUE, !.inbound = inbound]
<1>2. /\ pc' = pc /\ cur' = cur /\ events' = events /\ chunk' = chunk
      /\ pending' = pending /\ plaintext' = plaintext /\ stopping' = stopping
      /\ \/ context' = context
         \/ ctx.phase = "backlog" /\ context' = [context EXCEPT ![c] = CloseConnection(ctx)]
  BY DEF ClientResets, serverVars, loopVars, sessionVars
<1>3. /\ ctx.phase \in {"backlog", "open"} /\ SoundContext(c, ctx) /\ peer[c] \in PeerState
      /\ context = [context EXCEPT ![c] = ctx] /\ ~peer[c].reset
  BY ConnectedPhase DEF ClientResets
<1>4. peer' = [peer EXCEPT ![c] = p] /\ peer'[c] = p
  BY <1>1 DEF LoopInv, TypeOK
<1>5. inbound \in Seq(Unit) /\ peer[c].reset = FALSE
  <2>1. peer[c].inbound \in Seq(Unit) /\ peer[c].reset = FALSE
    BY <1>3 DEF PeerState
  <2>2. <<>> \in Seq(Unit)
    OBVIOUS
  <2> QED
    BY <2>1, <2>2, Zenon
<1>6. /\ p \in PeerState /\ p.script = peer[c].script /\ p.sent = peer[c].sent
      /\ p.reset = TRUE /\ p.inbound = inbound
  BY <1>3, <1>5 DEF PeerState
<1> HIDE DEF p
<1>7. TurnOf(c) /\ TypeOK
  BY TurnsAre DEF LoopInv
<1>8. CASE ctx.phase = "backlog" /\ context' = [context EXCEPT ![c] = CloseConnection(ctx)]
  <2> DEFINE q == CloseConnection(ctx)
  <2>1. SoundContext(c, q) /\ SameOutput(ctx, q) /\ q.phase = "closed"
    BY <1>3, <1>8, ClosedContext
  <2>2. context'[c] = q
    BY <1>8 DEF LoopInv, TypeOK
  <2> HIDE DEF q
  <2>3. TurnOf(c)'
    BY <1>4, <1>6, <1>7, <2>1, <2>2, TurnStays DEF SameOutput
  <2>4. context' = [context EXCEPT ![c] = q] /\ (context[c].phase = "open" => q.phase = "open")
    BY <1>8 DEF q
  <2> QED
    BY <1>2, <1>4, <1>6, <2>1, <2>3, <2>4, AsideStep
<1>9. CASE context' = context
  <2> DEFINE held == IF c = cur.key THEN plaintext \o chunk ELSE <<>>
             front == ctx.http_input \o held
             lost == peer[c].inbound
  <2>1. front \in Seq(Entry) /\ lost \in Seq(Entry)
    <3>1. /\ ctx.http_input \in Seq(Entry) /\ plaintext \in Seq(Entry)
          /\ chunk \in Seq(Entry) /\ peer[c].inbound \in Seq(Entry)
      <4>1. ctx \in Context /\ chunk \in Seq(Unit) /\ plaintext \in Seq(Unit)
        BY <1>3, <1>7 DEF SoundContext, TypeOK
      <4> QED
        BY <1>3, <4>1, SMTT(30) DEF Context, PeerState, Entry
    <3> QED
      BY <3>1
  <2>2. Unanswered(c) = front \o lost
    BY DEF Unanswered
  <2>3. Unanswered(c)' = front \o inbound
    BY <1>2, <1>4, <1>6, <1>9, Zenon DEF Unanswered
  <2>4. /\ Exchange(ctx.queued) \in Seq(Entry) /\ Asked(c) \in Seq(Entry)
        /\ InTurn(Exchange(ctx.queued), Exchange(front \o lost), Asked(c), ctx.phase, FALSE)
    BY <1>5, <1>7, <2>2, TurnTypes DEF TurnOf
  <2> HIDE DEF front, lost
  <2>5. /\ InTurn(Exchange(ctx.queued), Exchange(front \o <<>>), Asked(c), ctx.phase, TRUE)
        /\ InTurn(Exchange(ctx.queued), Exchange(front \o lost), Asked(c), ctx.phase, TRUE)
    BY <1>3, <2>1, <2>4, ResetTurn
  <2>6. InTurn(Exchange(ctx.queued), Exchange(Unanswered(c)'), Asked(c), ctx.phase, TRUE)
    <3>1. CASE inbound = <<>>
      BY <2>3, <2>5, <3>1
    <3>2. CASE inbound = lost
      BY <2>3, <2>5, <3>2
    <3> QED
      BY <3>1, <3>2 DEF lost
  <2>7. Asked(c)' = Asked(c)
    BY <1>4, <1>6 DEF Asked
  <2>8. peer'[c].reset = TRUE /\ context'[c] = ctx
        /\ peer'[c].sent <= Len(peer'[c].script)
    BY <1>4, <1>6, <1>7, <1>9 DEF TurnOf
  <2>9. TurnOf(c)'
    <3> HIDE DEF ctx
    <3> QED
      BY <2>6, <2>7, <2>8 DEF TurnOf
  <2> QED
    BY <1>2, <1>3, <1>4, <1>6, <1>9, <2>9, AsideStep
<1> QED
  BY <1>2, <1>8, <1>9

\* Init is of the right types, and nothing has happened.
LEMMA InitState ==
    ASSUME Init, NEW c \in Conns
    PROVE  /\ pc = "loop" /\ stopping = FALSE /\ events = {} /\ cur = Idle
           /\ chunk = <<>> /\ pending = <<>> /\ plaintext = <<>>
           /\ context \in [Conns -> Context] /\ peer \in [Conns -> PeerState]
           /\ SoundContext(c, context[c]) /\ context[c].phase = "none"
           /\ context[c].queued = <<>> /\ context[c].written = <<>>
           /\ context[c].http_input = <<>>
           /\ peer[c].sent = 0 /\ peer[c].inbound = <<>> /\ peer[c].reset = FALSE
<1> DEFINE empty(d) ==
           [phase |-> "none", interest |-> {},
            tls |-> IF d \in TLSConns THEN "WAIT_CLIENT_HELLO" ELSE "plain",
            http_input |-> <<>>, output_buffer |-> <<>>,
            closing_after_write |-> FALSE, queued |-> <<>>, written |-> <<>>]
           fresh(clients, d) ==
           [script |-> clients[d].script, prompt |-> clients[d].prompt,
            sent |-> 0, inbound |-> <<>>, fin |-> FALSE, reset |-> FALSE, unread |-> 0]
<1>1. /\ pc = "loop" /\ stopping = FALSE /\ events = {} /\ cur = Idle
      /\ chunk = <<>> /\ pending = <<>> /\ plaintext = <<>>
      /\ context = [d \in Conns |-> empty(d)]
      /\ \E clients \in Populations : peer = [d \in Conns |-> fresh(clients, d)]
  BY DEF Init
<1>2. <<>> \in Seq(Unit) /\ <<>> \in Seq(Output) /\ <<>> \o <<>> = <<>>
  OBVIOUS
<1>3. ASSUME NEW d \in Conns
      PROVE  empty(d) \in Context /\ SoundContext(d, empty(d))
  <2>1. empty(d) \in Context
    BY <1>2 DEF Context, Mask
  <2>2. /\ empty(d).phase = "none" /\ empty(d).interest = {}
        /\ empty(d).queued = <<>> /\ empty(d).http_input = <<>>
        /\ empty(d).written = <<>> /\ empty(d).output_buffer = <<>>
        /\ ~empty(d).closing_after_write
        /\ d \in TLSConns <=> empty(d).tls # "plain"
    OBVIOUS
  <2> HIDE DEF empty
  <2> QED
    BY <1>2, <2>1, <2>2 DEF SoundContext
<1>4. ASSUME NEW clients \in Populations, NEW d \in Conns
      PROVE  fresh(clients, d) \in PeerState
  <2>1. clients[d].script \in Seq(Unit) /\ clients[d].prompt \in BOOLEAN
    BY ConstantsAssumption
  <2> QED
    BY <1>2, <2>1, ConstantsAssumption DEF PeerState
<1>5. context \in [Conns -> Context] /\ context[c] = empty(c)
  <2> HIDE DEF empty
  <2> QED
    BY <1>1, <1>3
<1>6. PICK clients \in Populations : peer = [d \in Conns |-> fresh(clients, d)]
  BY <1>1
<1>7. peer \in [Conns -> PeerState] /\ peer[c] = fresh(clients, c)
  <2> HIDE DEF fresh
  <2> QED
    BY <1>4, <1>6
<1> QED
  BY <1>1, <1>3, <1>5, <1>7

\* The invariant holds when the loop begins.
LEMMA InitInvariant == Init => LoopInv
<1> SUFFICES ASSUME Init PROVE LoopInv
  OBVIOUS
<1>1. /\ pc = "loop" /\ stopping = FALSE /\ events = {} /\ cur = Idle
      /\ chunk = <<>> /\ pending = <<>> /\ plaintext = <<>>
  BY DEF Init
<1>2. context \in [Conns -> Context] /\ peer \in [Conns -> PeerState]
  <2>1. CASE Conns = {}
    <3>1. DOMAIN context = {} /\ context = [c \in {} |-> context[c]]
      BY <2>1 DEF Init
    <3>2. DOMAIN peer = {} /\ peer = [c \in {} |-> peer[c]]
      BY <2>1 DEF Init
    <3> QED
      BY <2>1, <3>1, <3>2
  <2>2. CASE Conns # {}
    BY <2>2, InitState
  <2> QED
    BY <2>1, <2>2
<1>3. TypeOK
  <2>1. <<>> \in Seq(Unit) /\ <<>> \in Seq(Handshake)
    OBVIOUS
  <2> QED
    BY <1>1, <1>2, <2>1, IdleType DEF TypeOK
<1>4. DispatchIsCurrent
  BY <1>1, IdleType DEF DispatchIsCurrent
<1>5. AllSound
  BY InitState DEF AllSound
<1>6. ASSUME NEW c \in Conns
      PROVE  TurnOf(c)
  <2>1. /\ context[c].phase = "none" /\ context[c].queued = <<>> /\ context[c].http_input = <<>>
        /\ peer[c].sent = 0 /\ peer[c].inbound = <<>> /\ peer[c].reset = FALSE
        /\ peer[c] \in PeerState
    BY <1>2, <1>6, InitState
  <2>2. <<>> \o <<>> = <<>>
    OBVIOUS
  <2>3. Unanswered(c) = <<>>
    BY <1>1, <2>1, <2>2 DEF Unanswered
  <2>4. 0 <= Len(peer[c].script) /\ SubSeq(peer[c].script, 1, 0) = <<>>
    <3>1. peer[c].script \in Seq(Unit)
      BY <2>1 DEF PeerState
    <3> QED
      BY <3>1
  <2>5. Asked(c) = <<>>
    BY <2>1, <2>4, ExchangeOfEmpty DEF Asked
  <2> QED
    BY <2>1, <2>2, <2>3, <2>4, <2>5, ExchangeOfEmpty DEF TurnOf, InTurn
<1>7. RequestsWaitTheirTurn
  BY <1>6, TurnsAre
<1> QED
  BY <1>3, <1>4, <1>5, <1>7, SoundConnections

\* _cleanup closes whatever there is, in the backlog or open.
LEMMA CleanupKeepsInvariant == LoopInv /\ Cleanup => LoopInv'
<1> SUFFICES ASSUME LoopInv, Cleanup PROVE LoopInv'
  OBVIOUS
<1>1. /\ pc = "cleanup" /\ pc' = "done" /\ cur' = cur /\ events' = {}
      /\ chunk' = chunk /\ pending' = pending /\ plaintext' = plaintext
      /\ stopping' = stopping /\ peer' = peer
      /\ context' = [c \in Conns |-> IF context[c].phase = "none" THEN context[c]
                                     ELSE CloseConnection(context[c])]
  BY DEF Cleanup, sessionVars
<1>2. TypeOK /\ AllSound /\ cur = Idle /\ cur.key \notin Conns
      /\ chunk = <<>> /\ pending = <<>> /\ plaintext = <<>>
  BY <1>1, SoundConnections, BetweenEvents
<1>3. ASSUME NEW c \in Conns
      PROVE  /\ SoundContext(c, context'[c]) /\ SameOutput(context[c], context'[c])
             /\ \/ context'[c].phase = "closed"
                \/ context[c].phase = "none" /\ context'[c] = context[c]
  <2>1. CASE context[c].phase = "none"
    BY <1>1, <1>2, <2>1 DEF AllSound, SameOutput
  <2>2. CASE context[c].phase # "none"
    <3>1. context'[c] = CloseConnection(context[c])
      BY <1>1, <2>2
    <3>2. SoundContext(c, context[c])
      BY <1>2 DEF AllSound
    <3> QED
      BY <2>2, <3>1, <3>2, ClosedContext
  <2> QED
    BY <2>1, <2>2
<1>4. AllSound' /\ context' \in [Conns -> Context]
  <2>1. DOMAIN context' = Conns /\ context' = [c \in Conns |-> context'[c]]
    BY <1>1
  <2>2. \A c \in Conns : context'[c] \in Context
    BY <1>3 DEF SoundContext
  <2> QED
    BY <1>3, <2>1, <2>2 DEF AllSound
<1>5. TypeOK'
  BY <1>1, <1>2, <1>4 DEF TypeOK
<1>6. DispatchIsCurrent'
  BY <1>1, <1>2 DEF DispatchIsCurrent
<1>7. ASSUME NEW c \in Conns
      PROVE  TurnOf(c)'
  <2>1. CASE context[c].phase = "none" /\ context'[c] = context[c]
    BY <1>1, <2>1, TurnUntouched
  <2>2. CASE context'[c].phase = "closed"
    <3>1. TurnOf(c)
      BY TurnsAre DEF LoopInv
    <3> QED
      BY <1>1, <1>2, <1>3, <2>2, <3>1, TurnStays DEF SameOutput
  <2> QED
    BY <1>3, <2>1, <2>2
<1>8. RequestsWaitTheirTurn'
  BY <1>7 DEF RequestsWaitTheirTurn, TurnOf, InTurn
<1> QED
  BY <1>4, <1>5, <1>6, <1>8, InvariantAfter

\* stop() changes nothing but _stopping; a stuttering step nothing at all.
LEMMA OtherStepsKeepInvariant == LoopInv /\ (Stop \/ UNCHANGED vars) => LoopInv'
<1> SUFFICES ASSUME LoopInv, Stop \/ UNCHANGED vars PROVE LoopInv'
  OBVIOUS
<1>1. /\ pc' = pc /\ cur' = cur /\ events' = events /\ stopping' \in BOOLEAN
      /\ chunk' = chunk /\ pending' = pending /\ plaintext' = plaintext
      /\ context' = context /\ peer' = peer
  BY DEF Stop, serverVars, vars, loopVars, sessionVars, LoopInv, TypeOK
<1>2. TypeOK' /\ DispatchIsCurrent'
  BY <1>1 DEF LoopInv, TypeOK, DispatchIsCurrent, Open
<1> QED
  BY <1>1, <1>2, TurnsUntouched, InvariantAfter

\* The invariant is inductive: every step of the loop, of the clients, of the kernel
\* and of the thread that stops the server keeps it.
LEMMA InvariantStep == LoopInv /\ [Next]_vars => LoopInv'
<1> SUFFICES ASSUME LoopInv, [Next]_vars PROVE LoopInv'
  OBVIOUS
<1>1. ASSUME ServerStep PROVE LoopInv'
  BY <1>1, SelectKeepsInvariant, LeaveLoopKeepsInvariant, AcceptKeepsInvariant,
     ServiceStartKeepsInvariant, ServiceKeepsInvariant, CleanupKeepsInvariant DEF ServerStep
<1>2. ASSUME NEW c \in Conns, ClientStep(c) PROVE LoopInv'
  BY <1>2, ConnectKeepsInvariant, ClientSendsKeepsInvariant, ClientFinishesKeepsInvariant,
     ClientResetsKeepsInvariant, ClientReadsKeepsInvariant DEF ClientStep
<1> QED
  BY <1>1, <1>2, OtherStepsKeepInvariant DEF Next

-----------------------------------------------------------------------------
(* The theorems                                                             *)

\* LoopInv always holds: the selector watches what it should, the output is a
\* stream, the events of a batch are about connections that are still there, and
\* every request is answered or waits in its turn.
THEOREM LoopIsSound == Spec => []LoopInv
BY InitInvariant, InvariantStep, PTL DEF Spec

\* The selector watches for WRITE exactly while output is buffered.
THEOREM WriteInterest == Spec => []WriteInterestMatchesOutput
<1>1. LoopInv => WriteInterestMatchesOutput
  BY DEF LoopInv
<1> QED
  BY <1>1, LoopIsSound, PTL

\* A connection marked to be closed after its output always has output left.
THEOREM ClosingConnections == Spec => []ClosingHasOutput
<1>1. LoopInv => ClosingHasOutput
  BY DEF LoopInv
<1> QED
  BY <1>1, LoopIsSound, PTL

\* The replies queued answer the requests of the client's script one by one and
\* in order, however they were read.
THEOREM AnswersInOrder == Spec => []AnsweredInOrder
<1>1. ASSUME LoopInv, NEW c \in Conns
      PROVE  IsPrefix(Exchange(context[c].queued), Exchange(peer[c].script))
  <2>1. TypeOK /\ TurnOf(c) /\ peer[c] \in PeerState
    BY <1>1, TurnsAre DEF LoopInv, TypeOK
  <2> DEFINE a == Exchange(context[c].queued)
             script == peer[c].script
             m == peer[c].sent
             asked == SubSeq(script, 1, m)
             rest == SubSeq(script, m + 1, Len(script))
  <2>2. /\ a \in Seq(Entry) /\ Exchange(Unanswered(c)) \in Seq(Entry)
        /\ Asked(c) \in Seq(Entry) /\ peer[c].reset \in BOOLEAN
        /\ InTurn(a, Exchange(Unanswered(c)), Asked(c), context[c].phase, peer[c].reset)
    BY <2>1, TurnTypes DEF TurnOf
  <2>3. IsPrefix(a, Asked(c))
    <3>1. CASE context[c].phase = "closed"
      BY <2>2, <3>1 DEF InTurn
    <3>2. CASE context[c].phase # "closed"
      BY <2>2, <3>2, TurnKept
    <3> QED
      BY <3>1, <3>2
  <2>4. script \in Seq(Entry) /\ m \in 0 .. Len(script)
    BY <2>1 DEF TurnOf, PeerState, Entry
  <2>5. asked \in Seq(Entry) /\ rest \in Seq(Entry) /\ script = asked \o rest
    <3> HIDE DEF script, m
    <3> QED
      BY <2>4, SplitStream, Zenon
  <2>6. Exchange(script) = Exchange(asked) \o Exchange(rest)
        /\ Exchange(asked) \in Seq(Entry) /\ Exchange(rest) \in Seq(Entry)
    <3> HIDE DEF script, asked, rest
    <3> QED
      BY <2>5, ExchangeOfConcat, ExchangeType
  <2>7. Asked(c) = Exchange(asked)
    BY DEF Asked
  <2> HIDE DEF a, asked, rest, script
  <2>8. IsPrefix(a, Exchange(asked) \o Exchange(rest))
    BY <2>2, <2>3, <2>6, <2>7, PrefixGrows
  <2> QED
    BY <2>6, <2>8 DEF a, script
<1>2. LoopInv => AnsweredInOrder
  BY <1>1 DEF AnsweredInOrder
<1> QED
  BY <1>2, LoopIsSound, PTL

-----------------------------------------------------------------------------
(* What a step does to one connection, as its clients see it.               *)

\* Nothing that was asked, answered or delivered on the connection changes; its
\* phase may.
QuietOn(c) ==
    /\ Asked(c)' = Asked(c)
    /\ Exchange(context'[c].queued) = Exchange(context[c].queued)
    /\ Exchange(context'[c].written) = Exchange(context[c].written)
Untouched(c) == QuietOn(c) /\ PhaseOf(c)' = PhaseOf(c)

\* A step that changes neither the context of a connection nor its client's
\* requests.
LEMMA SameIsUntouched ==
    ASSUME NEW c, context'[c] = context[c], peer'[c].script = peer[c].script,
           peer'[c].sent = peer[c].sent
    PROVE  Untouched(c)
BY DEF Untouched, QuietOn, Asked, PhaseOf

\* A step of the server's that serves no connection, and one of the clients'.
LEMMA ElsewhereUntouched ==
    ASSUME LoopInv, NEW c \in Conns, NEW d \in Conns, d # c,
           \/ ServiceStep(c)
           \/ ClientStep(c)
    PROVE  context'[d] = context[d] /\ peer'[d] = peer[d]
<1>1. context \in [Conns -> Context] /\ peer \in [Conns -> PeerState]
  BY DEF LoopInv, TypeOK
<1>2. CASE ServiceStep(c)
  BY <1>1, <1>2, ServiceOutcome DEF Serves
<1>3. CASE ClientStep(c)
  BY <1>1, <1>3 DEF ClientStep, Connect, ClientSends, ClientFinishes, ClientResets, ClientReads
<1> QED
  BY <1>2, <1>3

\* An open connection that ends does so for the reasons the property names, or
\* with nothing left to send.
LEMMA EndsWithOutput ==
    ASSUME LoopInv, Next, NEW c \in Conns, Open(c),
           context'[c].phase = "closed", context'[c].output_buffer # <<>>
    PROVE  peer[c].reset \/ pc = "cleanup" \/ FeedRaises(c)
<1>1. context[c].phase = "open"
  BY DEF Open
<1>2. context'[c] # context[c]
  BY <1>1
<1>3. CASE Select \/ LeaveLoop \/ Stop \/ \E ev \in events : Service(ev)
  BY <1>2, <1>3 DEF Select, LeaveLoop, Service, Stop
<1>4. CASE \E l \in Listeners : Accept(l)
  <2>1. PICK l \in Listeners : \E d \in Pending(l) :
            context' = [context EXCEPT ![d].phase = "open", ![d].interest = {"READ"}]
    BY <1>2, <1>4 DEF Accept
  <2>3. PICK d \in Pending(l) :
            context' = [context EXCEPT ![d].phase = "open", ![d].interest = {"READ"}]
    BY <2>1
  <2>2. d # c /\ context \in [Conns -> Context] /\ d \in Conns
    BY <1>1, <2>3 DEF Pending, LoopInv, TypeOK
  <2> QED
    BY <1>2, <2>2, <2>3
<1>5. CASE \E d \in Conns : ServiceStep(d)
  <2>1. PICK d \in Conns : ServiceStep(d)
    BY <1>5
  <2>2. d = c
    BY <1>2, <2>1, ElsewhereUntouched
  <2>3. Moves(c) \/ Closes(c) \/ Answers(c) \/ Sends(c)
    BY <2>1, <2>2, ServiceOutcome
  <2> QED
    BY <2>3 DEF Moves, Closes, Answers, Sends
<1>6. CASE Cleanup
  BY <1>6 DEF Cleanup
<1>7. CASE \E d \in Conns : ClientStep(d)
  <2>1. PICK d \in Conns : ClientStep(d)
    BY <1>7
  <2>2. d = c
    BY <1>2, <2>1, ElsewhereUntouched
  <2>3. Connect(c) \/ context' = context \/ (ClientResets(c) /\ context[c].phase = "backlog")
    BY <2>1, <2>2 DEF ClientStep, ClientSends, ClientFinishes, ClientResets, ClientReads
  <2> QED
    BY <1>1, <1>2, <2>3 DEF Connect
<1> QED
  BY <1>3, <1>4, <1>5, <1>6, <1>7 DEF Next, ServerStep

\* A connection is given up with replies still buffered only if the client broke
\* it, its session failed, or the server stops.
THEOREM OutputIsNotDropped == Spec => BufferedOutputIsNotDropped
<1>1. ASSUME LoopInv, [Next]_vars
      PROVE  [\A c \in Conns :
                 Open(c) /\ context'[c].phase = "closed" /\ context'[c].output_buffer # <<>>
                     => peer[c].reset \/ pc = "cleanup" \/ FeedRaises(c)]_vars
  BY <1>1, EndsWithOutput
<1> QED
  BY <1>1, LoopIsSound, PTL DEF Spec, BufferedOutputIsNotDropped

-----------------------------------------------------------------------------
(* The refinement.  Every step of the loop, of its clients and of the kernel *)
(* is a step of RequestService or changes nothing that it sees.              *)

AskedBy == [c \in Conns |-> Exchange(SubSeq(peer[c].script, 1, peer[c].sent))]
AnswersTo == [c \in Conns |-> Exchange(context[c].queued)]
DeliveredTo == [c \in Conns |-> Exchange(context[c].written)]
Phases == [c \in Conns |-> PhaseOf(c)]
View == <<AskedBy, AnswersTo, DeliveredTo, Phases>>

\* What RequestService's variables are of one connection.
LEMMA ViewOf ==
    /\ DOMAIN AskedBy = Conns /\ DOMAIN AnswersTo = Conns
    /\ DOMAIN DeliveredTo = Conns /\ DOMAIN Phases = Conns
    /\ \A c \in Conns :
           /\ AskedBy[c] = Asked(c) /\ AnswersTo[c] = Exchange(context[c].queued)
           /\ DeliveredTo[c] = Exchange(context[c].written) /\ Phases[c] = PhaseOf(c)
BY DEF AskedBy, AnswersTo, DeliveredTo, Phases, Asked

\* The same after a step.
LEMMA ViewAfter ==
    /\ AskedBy' = [c \in Conns |-> Asked(c)']
    /\ AnswersTo' = [c \in Conns |-> Exchange(context'[c].queued)]
    /\ DeliveredTo' = [c \in Conns |-> Exchange(context'[c].written)]
    /\ Phases' = [c \in Conns |-> PhaseOf(c)']
BY DEF AskedBy, AnswersTo, DeliveredTo, Phases, Asked

\* A step that leaves every connection as its client sees it is a stutter.
LEMMA Stutters ==
    ASSUME \A c \in Conns : Untouched(c)
    PROVE  UNCHANGED RS!vars
<1>1. /\ AskedBy' = AskedBy /\ AnswersTo' = AnswersTo
      /\ DeliveredTo' = DeliveredTo /\ Phases' = Phases
  BY ViewAfter DEF Untouched, QuietOn, AskedBy, AnswersTo, DeliveredTo, Phases, Asked
<1> QED
  BY <1>1 DEF RS!vars, AskedBy, AnswersTo, DeliveredTo, Phases

\* Connections that end, while nothing else moves.
LEMMA EndingStep ==
    ASSUME NEW ending \in SUBSET Conns, ending # {},
           \A c \in Conns : QuietOn(c),
           \A c \in ending : PhaseOf(c) # "over" /\ PhaseOf(c)' = "over",
           \A c \in Conns \ ending : PhaseOf(c)' = PhaseOf(c)
    PROVE  RS!Next
<1>1. /\ AskedBy' = AskedBy /\ AnswersTo' = AnswersTo /\ DeliveredTo' = DeliveredTo
  BY ViewAfter DEF QuietOn, AskedBy, AnswersTo, DeliveredTo, Asked
<1>2. Phases' = [c \in Conns |-> IF c \in ending THEN "over" ELSE Phases[c]]
  BY ViewAfter DEF Phases
<1>3. \A c \in ending : Phases[c] # "over"
  BY DEF Phases
<1>4. RS!End(ending)
  BY <1>1, <1>2, <1>3 DEF RS!End, AskedBy, AnswersTo, DeliveredTo, Phases
<1> QED
  BY <1>4 DEF RS!Next

\* What is exchanged of a client's stream is a request of RequestService's.
Asks == [kind : {"keep", "close"}, id : 0 .. MaxId]
\* A unit of the exchange is one of them.
LEMMA ExchangedIsRequest == \A u \in Unit : IsExchanged(u) => u \in Asks
BY DEF Unit, IsExchanged, Asks

\* A request that is sent is asked; the other units are not seen.
LEMMA AskStep ==
    ASSUME LoopInv, NEW c \in Conns, ClientSends(c)
    PROVE  RS!Next \/ UNCHANGED RS!vars
<1> DEFINE u == peer[c].script[peer[c].sent + 1]
<1>1. u \in Unit /\ Asked(c)' = Extended(Asked(c), u)
  BY SendExtends
<1>2. /\ context' = context /\ context[c].phase \in {"backlog", "open"}
  BY DEF ClientSends, serverVars, Connected
<1>3. \A d \in Conns : d # c => Untouched(d)
  <2> SUFFICES ASSUME NEW d \in Conns, d # c PROVE Untouched(d)
    OBVIOUS
  <2> QED
    BY ElsewhereUntouched, SameIsUntouched DEF ClientStep
<1>4. \A d \in Conns : PhaseOf(d)' = PhaseOf(d)
  BY <1>2 DEF PhaseOf
<1> HIDE DEF u
<1>5. CASE ~IsExchanged(u)
  <2>1. Asked(c)' = Asked(c)
    BY <1>1, <1>5 DEF Extended
  <2>2. Untouched(c)
    BY <1>2, <1>4, <2>1 DEF Untouched, QuietOn
  <2> QED
    BY <1>3, <2>2, Stutters
<1>6. CASE IsExchanged(u)
  <2>1. Asked(c)' = Append(Asked(c), u) /\ u \in Asks
    BY <1>1, <1>6, ExchangedIsRequest DEF Extended
  <2>2. AskedBy' = [AskedBy EXCEPT ![c] = Append(AskedBy[c], u)]
    <3>1. AskedBy' = [d \in Conns |-> IF d = c THEN Append(Asked(c), u) ELSE Asked(d)]
      BY <1>3, <2>1, ViewAfter DEF Untouched, QuietOn
    <3>2. [AskedBy EXCEPT ![c] = Append(AskedBy[c], u)]
            = [d \in Conns |-> IF d = c THEN Append(AskedBy[c], u) ELSE AskedBy[d]]
      BY ViewOf
    <3> QED
      BY <3>1, <3>2, ViewOf
  <2>3. AnswersTo' = AnswersTo /\ DeliveredTo' = DeliveredTo /\ Phases' = Phases
    BY <1>2, <1>4, ViewAfter DEF AnswersTo, DeliveredTo, Phases
  <2>4. Phases[c] # "over"
    BY <1>2, ViewOf DEF PhaseOf
  <2>5. RS!Ask(c)
    BY <2>1, <2>2, <2>3, <2>4 DEF RS!Ask, AskedBy, AnswersTo, DeliveredTo, Phases, Asks
  <2> QED
    BY <2>5 DEF RS!Next
<1> QED
  BY <1>5, <1>6

\* accept() opens a connection, if there still is one.
LEMMA OpenStep ==
    ASSUME LoopInv, NEW l \in Listeners, Accept(l)
    PROVE  RS!Next \/ UNCHANGED RS!vars
<1>1. peer' = peer /\ context \in [Conns -> Context]
  BY DEF Accept, LoopInv, TypeOK
<1>2. CASE context' = context
  <2>1. \A d \in Conns : Untouched(d)
    BY <1>1, <1>2, SameIsUntouched
  <2> QED
    BY <2>1, Stutters
<1>3. ASSUME NEW c \in Pending(l),
             context' = [context EXCEPT ![c].phase = "open", ![c].interest = {"READ"}]
      PROVE  RS!Next
  <2>1. c \in Conns /\ context[c].phase = "backlog"
    BY DEF Pending
  <2>2. /\ context'[c].phase = "open" /\ context'[c].queued = context[c].queued
        /\ context'[c].written = context[c].written
        /\ \A d \in Conns : d # c => context'[d] = context[d]
    BY <1>1, <1>3, <2>1 DEF Context
  <2>3. \A d \in Conns : QuietOn(d)
    BY <1>1, <2>2 DEF QuietOn, Asked
  <2>4. /\ AskedBy' = AskedBy /\ AnswersTo' = AnswersTo /\ DeliveredTo' = DeliveredTo
    BY <2>3, ViewAfter DEF QuietOn, AskedBy, AnswersTo, DeliveredTo, Asked
  <2>5. Phases' = [Phases EXCEPT ![c] = "open"]
    <3>1. Phases' = [d \in Conns |-> IF d = c THEN "open" ELSE PhaseOf(d)]
      <4>1. PhaseOf(c)' = "open" /\ \A d \in Conns : d # c => PhaseOf(d)' = PhaseOf(d)
        BY <2>2 DEF PhaseOf
      <4> QED
        BY <4>1, ViewAfter
    <3> QED
      BY <3>1 DEF Phases
  <2>6. Phases[c] = "ahead"
    BY <2>1, ViewOf DEF PhaseOf
  <2>7. RS!Open(c)
    BY <2>4, <2>5, <2>6 DEF RS!Open, AskedBy, AnswersTo, DeliveredTo, Phases
  <2> QED
    BY <2>1, <2>7 DEF RS!Next
<1> QED
  BY <1>2, <1>3 DEF Accept

\* One connection that ends.
LEMMA OneEnds ==
    ASSUME NEW c \in Conns, QuietOn(c), PhaseOf(c) # "over", PhaseOf(c)' = "over",
           \A d \in Conns : d # c => Untouched(d)
    PROVE  RS!Next
<1> DEFINE ending == {c}
<1>1. /\ ending \in SUBSET Conns /\ ending # {} /\ \A d \in Conns : QuietOn(d)
      /\ \A d \in ending : PhaseOf(d) # "over" /\ PhaseOf(d)' = "over"
      /\ \A d \in Conns \ ending : PhaseOf(d)' = PhaseOf(d)
  BY DEF Untouched
<1> HIDE DEF ending
<1> QED
  BY <1>1, EndingStep

\* The client's other steps are not seen, but for a reset that takes the
\* connection from the backlog.
LEMMA ClientOutcome ==
    ASSUME LoopInv, NEW c \in Conns, ClientStep(c)
    PROVE  RS!Next \/ UNCHANGED RS!vars
<1>1. context \in [Conns -> Context] /\ peer \in [Conns -> PeerState]
  BY DEF LoopInv, TypeOK
<1>2. \A d \in Conns : d # c => Untouched(d)
  <2> SUFFICES ASSUME NEW d \in Conns, d # c PROVE Untouched(d)
    OBVIOUS
  <2> QED
    BY ElsewhereUntouched, SameIsUntouched
<1>3. CASE ClientSends(c)
  BY <1>3, AskStep
<1>4. CASE ~ClientSends(c)
  <2>1. /\ peer'[c].script = peer[c].script /\ peer'[c].sent = peer[c].sent
    BY <1>1, <1>4 DEF ClientStep, Connect, ClientFinishes, ClientResets, ClientReads, PeerState
  <2>2. \/ context' = context
        \/ context[c].phase = "none" /\ context' = [context EXCEPT ![c].phase = "backlog"]
        \/ /\ context[c].phase = "backlog"
           /\ context' = [context EXCEPT ![c] = CloseConnection(context[c])]
    BY <1>4 DEF ClientStep, Connect, ClientFinishes, ClientResets, ClientReads
  <2>3. /\ context'[c].queued = context[c].queued /\ context'[c].written = context[c].written
        /\ \/ context'[c].phase = context[c].phase
           \/ context[c].phase = "none" /\ context'[c].phase = "backlog"
           \/ context[c].phase = "backlog" /\ context'[c].phase = "closed"
    BY <1>1, <2>2 DEF CloseConnection, Context
  <2>4. QuietOn(c)
    BY <2>1, <2>3 DEF QuietOn, Asked
  <2>5. CASE PhaseOf(c)' = PhaseOf(c)
    BY <1>2, <2>4, <2>5, Stutters DEF Untouched
  <2>6. CASE context[c].phase = "backlog" /\ context'[c].phase = "closed"
    <3>1. PhaseOf(c) # "over" /\ PhaseOf(c)' = "over"
      BY <2>6 DEF PhaseOf
    <3> QED
      BY <1>2, <2>4, <3>1, OneEnds
  <2>7. PhaseOf(c)' = PhaseOf(c) \/ (context[c].phase = "backlog" /\ context'[c].phase = "closed")
    BY <2>3 DEF PhaseOf
  <2> QED
    BY <2>5, <2>6, <2>7
<1> QED
  BY <1>3, <1>4

\* _cleanup ends all the connections that there are.
LEMMA CleanupOutcome ==
    ASSUME LoopInv, Cleanup
    PROVE  RS!Next \/ UNCHANGED RS!vars
<1> DEFINE ending == {c \in Conns : context[c].phase \in {"backlog", "open"}}
<1>1. /\ context \in [Conns -> Context] /\ peer' = peer
      /\ context' = [c \in Conns |-> IF context[c].phase = "none" THEN context[c]
                                     ELSE CloseConnection(context[c])]
  BY DEF Cleanup, LoopInv, TypeOK
<1>2. ASSUME NEW c \in Conns
      PROVE  /\ context'[c].queued = context[c].queued /\ context'[c].written = context[c].written
             /\ context'[c].phase = IF context[c].phase = "none" THEN "none" ELSE "closed"
             /\ context[c].phase \in {"none", "backlog", "open", "closed"}
  BY <1>1, <1>2, Zenon DEF CloseConnection, Context
<1>3. \A c \in Conns : QuietOn(c)
  BY <1>1, <1>2 DEF QuietOn, Asked
<1>4. \A c \in ending : PhaseOf(c) # "over" /\ PhaseOf(c)' = "over"
  BY <1>2 DEF PhaseOf
<1>5. \A c \in Conns \ ending : PhaseOf(c)' = PhaseOf(c)
  BY <1>2 DEF PhaseOf
<1>6. ending \in SUBSET Conns
  OBVIOUS
<1>7. CASE ending = {}
  <2>1. \A c \in Conns : Untouched(c)
    BY <1>3, <1>5, <1>7 DEF Untouched
  <2> QED
    BY <2>1, Stutters
<1>8. CASE ending # {}
  <2> HIDE DEF ending
  <2> QED
    BY <1>3, <1>4, <1>5, <1>6, <1>8, EndingStep
<1> QED
  BY <1>7, <1>8

\* The first that waits is the next of those asked.
LEMMA NextAsked ==
    ASSUME NEW S, NEW a \in Seq(S), NEW asked \in Seq(S), NEW u \in S,
           IsPrefix(Append(a, u), asked)
    PROVE  Len(a) < Len(asked) /\ asked[Len(a) + 1] = u
<1>1. Append(a, u) \in Seq(S) /\ Len(Append(a, u)) = Len(a) + 1 /\ Append(a, u)[Len(a) + 1] = u
  OBVIOUS
<1>2. PICK r \in Seq(S) : Append(a, u) \o r = asked
  <2> DEFINE b == Append(a, u)
  <2> HIDE DEF b
  <2>1. b \in Seq(S) /\ IsPrefix(b, asked)
    BY <1>1 DEF b
  <2>2. \E r \in Seq(S) : b \o r = asked
    BY <2>1, PrefixOfConcat
  <2> QED
    BY <2>2 DEF b
<1> DEFINE b == Append(a, u)
           n == Len(a)
<1>3. b \in Seq(S) /\ Len(b) = n + 1 /\ b[n + 1] = u /\ b \o r = asked /\ n \in Nat
  BY <1>1, <1>2
<1> HIDE DEF b, n
<1>4. n + 1 \in 1 .. Len(b) /\ Len(b \o r) = Len(b) + Len(r) /\ Len(r) \in Nat
  <2>1. b \in Seq(S) /\ Len(b) = n + 1 /\ n \in Nat
    BY <1>3
  <2>2. n + 1 \in 1 .. Len(b)
    BY <2>1
  <2>3. Len(b \o r) = Len(b) + Len(r) /\ Len(r) \in Nat
    BY <2>1, ConcatProperties, LenProperties
  <2> QED
    BY <2>2, <2>3
<1>5. (b \o r)[n + 1] = b[n + 1]
  BY <1>3, <1>4
<1>6. Len(asked) = n + 1 + Len(r) /\ asked[n + 1] = u
  BY <1>3, <1>4, <1>5
<1> QED
  BY <1>3, <1>4, <1>6 DEF n

\* An answer is the next of the answers due.
LEMMA AnswerOutcome ==
    ASSUME LoopInv, NEW c \in Conns, Serves(c), Answers(c),
           \A d \in Conns : d # c => Untouched(d)
    PROVE  RS!Next
<1>1. PICK u \in Unit :
          /\ Exchange(context'[c].queued) = Append(Exchange(context[c].queued), u)
          /\ Waits(c) = <<u>> \o Waits(c)'
  BY DEF Answers
<1> DEFINE a == Exchange(context[c].queued)
           w == Exchange(Unanswered(c))
           w2 == Waits(c)'
           asked == Asked(c)
           phase == context[c].phase
           reset == peer[c].reset
<1>2. TypeOK /\ TurnOf(c) /\ c = cur.key /\ phase = "open"
  BY TurnsAre DEF LoopInv, Serves, Open
<1>3. a \in Seq(Entry) /\ w \in Seq(Entry) /\ asked \in Seq(Entry) /\ reset \in BOOLEAN
  BY <1>2, TurnTypes DEF TurnOf
<1>4. w2 \in Seq(Entry) /\ u \in Entry
  <2>1. w2 \in Seq(Unit)
    BY DEF Answers
  <2> QED
    BY <2>1 DEF Entry
<1>5. phase # "closed" /\ InTurn(a, w, asked, phase, reset) /\ w = <<u>> \o w2
  BY <1>1, <1>2, WaitsInService DEF TurnOf
<1>6. Len(a) < Len(asked) /\ asked[Len(a) + 1] = u
  <2> HIDE DEF a, w, w2, asked, phase, reset
  <2>1. InTurn(Append(a, u), w2, asked, phase, reset)
    BY <1>3, <1>4, <1>5, TurnKept
  <2> DEFINE b == Append(a, u)
  <2>2. b \in Seq(Entry) /\ InTurn(b, w2, asked, phase, reset)
    BY <1>3, <1>4, <2>1
  <2> HIDE DEF b
  <2>3. IsPrefix(b, asked)
    BY <1>3, <1>4, <1>5, <2>2, TurnKept, ZenonT(40)
  <2>4. IsPrefix(Append(a, u), asked)
    BY <2>3 DEF b
  <2> QED
    BY <1>3, <1>4, <2>4, NextAsked
<1>7. AnswersTo' = [AnswersTo EXCEPT ![c] = Append(AnswersTo[c], AskedBy[c][Len(AnswersTo[c]) + 1])]
  <2>1. AnswersTo' = [d \in Conns |-> IF d = c THEN Append(AnswersTo[c], u) ELSE AnswersTo[d]]
    BY <1>1, ViewOf, ViewAfter DEF Untouched, QuietOn
  <2>2. AskedBy[c][Len(AnswersTo[c]) + 1] = u
    BY <1>6, ViewOf
  <2> HIDE DEF a, w, w2, asked
  <2> QED
    BY <2>1, <2>2, ViewOf
<1>8. AskedBy' = AskedBy /\ DeliveredTo' = DeliveredTo /\ Phases' = Phases
  <2>1. /\ Asked(c)' = Asked(c) /\ PhaseOf(c)' = PhaseOf(c)
        /\ Exchange(context'[c].written) = Exchange(context[c].written)
    BY <1>2 DEF Serves, Answers, Asked, PhaseOf
  <2>2. AskedBy' = [d \in Conns |-> AskedBy[d]]
    BY <2>1, ViewOf, ViewAfter DEF Untouched, QuietOn
  <2>3. DeliveredTo' = [d \in Conns |-> DeliveredTo[d]]
    BY <2>1, ViewOf, ViewAfter DEF Untouched, QuietOn
  <2>4. Phases' = [d \in Conns |-> Phases[d]]
    BY <2>1, ViewOf, ViewAfter DEF Untouched, QuietOn
  <2> QED
    BY <2>2, <2>3, <2>4 DEF AskedBy, DeliveredTo, Phases
<1>9. /\ Phases[c] = "open" /\ Len(AnswersTo[c]) < Len(AskedBy[c])
  BY <1>2, <1>6, ViewOf DEF PhaseOf
<1> HIDE DEF a, w, w2, asked, phase, reset
<1>10. RS!Answer(c)
  BY <1>7, <1>8, <1>9 DEF RS!Answer, AskedBy, AnswersTo, DeliveredTo, Phases
<1> QED
  BY <1>10 DEF RS!Next

\* More of a stream of which some was delivered before.
LEMMA DeliveredMore ==
    ASSUME NEW S, NEW d \in Seq(S), NEW e \in Seq(S), NEW rest \in Seq(S), NEW a \in Seq(S),
           (d \o e) \o rest = a
    PROVE  /\ e = <<>> => d \o e = d
           /\ e # <<>> => /\ Len(d \o e) \in Len(d) + 1 .. Len(a)
                          /\ d \o e = SubSeq(a, 1, Len(d \o e))
<1>1. e = <<>> => d \o e = d
  OBVIOUS
<1> DEFINE b == d \o e
<1>2. b \in Seq(S) /\ Len(b) = Len(d) + Len(e) /\ b \o rest = a
  OBVIOUS
<1>3. e # <<>> => Len(e) > 0
  OBVIOUS
<1> HIDE DEF b
<1>4. Len(a) = Len(b) + Len(rest) /\ Len(b) \in Nat /\ Len(rest) \in Nat
  BY <1>2
<1>5. b = SubSeq(a, 1, Len(b))
  <2>1. IsPrefix(b, a)
    BY <1>2, PrefixGrows
  <2>2. SubSeq(b, 1, Len(b)) = SubSeq(a, 1, Len(b))
    BY <2>1 DEF IsPrefix
  <2> QED
    BY <1>2, <2>2, SubSeqFull, Zenon
<1>6. e # <<>> => Len(b) \in Len(d) + 1 .. Len(a)
  BY <1>2, <1>3, <1>4
<1> QED
  BY <1>1, <1>5, <1>6 DEF b

\* What was written of the exchange, and what is still buffered, is what was
\* queued.
LEMMA WrittenOf ==
    ASSUME NEW c, NEW ctx, SoundContext(c, ctx)
    PROVE  /\ Exchange(ctx.written) \in Seq(Output) /\ Exchange(ctx.output_buffer) \in Seq(Output)
           /\ Exchange(ctx.queued) \in Seq(Output)
           /\ Exchange(ctx.written) \o Exchange(ctx.output_buffer) = Exchange(ctx.queued)
           /\ ctx.output_buffer = <<>> => Exchange(ctx.written) = Exchange(ctx.queued)
<1>1. /\ ctx.written \in Seq(Output) /\ ctx.output_buffer \in Seq(Output)
      /\ ctx.queued \in Seq(Output) /\ ctx.written \o ctx.output_buffer = ctx.queued
  BY DEF SoundContext, Context
<1> DEFINE w == ctx.written
           b == ctx.output_buffer
<1>2. Exchange(w \o b) = Exchange(w) \o Exchange(b)
  <2> HIDE DEF w, b
  <2>1. w \in Seq(Output) /\ b \in Seq(Output)
    BY <1>1 DEF w, b
  <2> QED
    BY <2>1, ExchangeOfConcat
<1>3. Exchange(w) \in Seq(Output) /\ Exchange(b) \in Seq(Output) /\ Exchange(ctx.queued) \in Seq(Output)
  BY <1>1, ExchangeType
<1>4. ASSUME b = <<>>
      PROVE  Exchange(w) = Exchange(ctx.queued)
  BY <1>1, <1>4
<1> QED
  BY <1>1, <1>2, <1>3, <1>4

\* A send() delivers some of the answers that are due, none, or the last of them
\* and ends the connection.
LEMMA SendOutcome ==
    ASSUME LoopInv, NEW c \in Conns, Serves(c), Sends(c),
           \A d \in Conns : d # c => Untouched(d)
    PROVE  RS!Next \/ UNCHANGED RS!vars
<1>1. PICK sent \in Seq(Output) : context'[c].written = context[c].written \o sent
  BY DEF Sends
<1> DEFINE d0 == Exchange(context[c].written)
           e == Exchange(sent)
           d1 == Exchange(context'[c].written)
           rest == Exchange(context'[c].output_buffer)
           a == Exchange(context[c].queued)
<1>2. SoundContext(c, context[c]) /\ SoundContext(c, context'[c]) /\ context[c].phase = "open"
  BY SoundConnections DEF Serves, AllSound, Open
<1>3. /\ context'[c].phase # "open" => context'[c].phase = "closed" /\ context'[c].output_buffer = <<>>
      /\ context'[c].queued = context[c].queued
  BY DEF Sends
<1>4. d1 = d0 \o e /\ e \in Seq(Output)
  <2> DEFINE w == context[c].written
  <2>1. w \in Seq(Output)
    BY <1>2 DEF SoundContext, Context
  <2>2. Exchange(w \o sent) = Exchange(w) \o Exchange(sent)
    <3> HIDE DEF w
    <3> QED
      BY <2>1, ExchangeOfConcat
  <2>3. Exchange(sent) \in Seq(Output)
    BY ExchangeType
  <2> QED
    BY <1>1, <2>2, <2>3
<1>5. d0 \in Seq(Output) /\ rest \in Seq(Output) /\ a \in Seq(Output) /\ d1 \o rest = a
  BY <1>2, <1>3, WrittenOf
<1>6. context'[c].phase = "closed" => d1 = a
  BY <1>2, <1>3, WrittenOf
<1>7. /\ Asked(c)' = Asked(c) /\ Exchange(context'[c].queued) = a
      /\ PhaseOf(c) = "open"
      /\ PhaseOf(c)' = IF context'[c].phase = "closed" THEN "over" ELSE "open"
  BY <1>2, <1>3 DEF Serves, Asked, PhaseOf
<1>8. /\ AskedBy' = AskedBy /\ AnswersTo' = AnswersTo
  <2>1. AskedBy' = [d \in Conns |-> AskedBy[d]]
    BY <1>7, ViewOf, ViewAfter DEF Untouched, QuietOn
  <2>2. AnswersTo' = [d \in Conns |-> AnswersTo[d]]
    BY <1>7, ViewOf, ViewAfter DEF Untouched, QuietOn
  <2> QED
    BY <2>1, <2>2 DEF AskedBy, AnswersTo
<1> HIDE DEF d0, e, d1, rest, a
<1>9. (e = <<>> => d1 = d0)
      /\ (e # <<>> => Len(d1) \in Len(d0) + 1 .. Len(a) /\ d1 = SubSeq(a, 1, Len(d1)))
  <2>1. (d0 \o e) \o rest = a
    BY <1>4, <1>5
  <2> QED
    BY <1>4, <1>5, <2>1, DeliveredMore
<1>10. CASE e = <<>>
  <2>1. QuietOn(c)
    BY <1>7, <1>9, <1>10 DEF QuietOn, d0, d1, a
  <2>2. CASE context'[c].phase = "closed"
    <3>1. PhaseOf(c) # "over" /\ PhaseOf(c)' = "over"
      BY <1>7, <2>2
    <3> QED
      BY <2>1, <3>1, OneEnds
  <2>3. CASE context'[c].phase # "closed"
    <3>1. Untouched(c)
      BY <1>7, <2>1, <2>3 DEF Untouched
    <3> QED
      BY <3>1, Stutters
  <2> QED
    BY <2>2, <2>3
<1>11. CASE e # <<>>
  <2> DEFINE n == Len(d1)
  <2>1. n \in Len(DeliveredTo[c]) + 1 .. Len(AnswersTo[c])
    BY <1>9, <1>11, ViewOf DEF d0, a
  <2>2. DeliveredTo' = [DeliveredTo EXCEPT ![c] = SubSeq(AnswersTo[c], 1, n)]
    <3>1. d1 = SubSeq(AnswersTo[c], 1, n)
      BY <1>9, <1>11, ViewOf DEF a
    <3>2. DeliveredTo' = [d \in Conns |-> IF d = c THEN d1 ELSE DeliveredTo[d]]
      BY ViewOf, ViewAfter DEF Untouched, QuietOn, d1
    <3> HIDE DEF n
    <3> QED
      BY <3>1, <3>2, ViewOf
  <2>3. \/ Phases' = Phases
        \/ DeliveredTo'[c] = AnswersTo[c] /\ Phases' = [Phases EXCEPT ![c] = "over"]
    <3>1. CASE context'[c].phase = "closed"
      <4>1. DeliveredTo'[c] = d1 /\ d1 = AnswersTo[c]
        BY <1>6, <3>1, ViewOf, ViewAfter DEF d1, a
      <4>2. Phases' = [d \in Conns |-> IF d = c THEN "over" ELSE Phases[d]]
        BY <1>7, <3>1, ViewOf, ViewAfter DEF Untouched
      <4> QED
        BY <4>1, <4>2, ViewOf
    <3>2. CASE context'[c].phase # "closed"
      <4>1. Phases' = [d \in Conns |-> Phases[d]]
        BY <1>7, <3>2, ViewOf, ViewAfter DEF Untouched
      <4> QED
        BY <4>1 DEF Phases
    <3> QED
      BY <3>1, <3>2
  <2>4. Phases[c] = "open"
    BY <1>7, ViewOf
  <2> HIDE DEF n
  <2>5. RS!Deliver(c)
    BY <1>8, <2>1, <2>2, <2>3, <2>4 DEF RS!Deliver, AskedBy, AnswersTo, DeliveredTo, Phases
  <2> QED
    BY <2>5 DEF RS!Next
<1> QED
  BY <1>10, <1>11

\* A step that serves a connection opens nothing and answers, delivers or ends only
\* there.
LEMMA ServiceRefines ==
    ASSUME LoopInv, NEW c \in Conns, ServiceStep(c)
    PROVE  RS!Next \/ UNCHANGED RS!vars
<1>1. Serves(c) /\ (Moves(c) \/ Closes(c) \/ Answers(c) \/ Sends(c))
  BY ServiceOutcome
<1>2. \A d \in Conns : d # c => Untouched(d)
  <2> SUFFICES ASSUME NEW d \in Conns, d # c PROVE Untouched(d)
    OBVIOUS
  <2> QED
    BY ElsewhereUntouched, SameIsUntouched
<1>3. context[c].phase = "open" /\ Asked(c)' = Asked(c)
  BY <1>1 DEF Serves, Open, Asked
<1>4. CASE Moves(c)
  <2>1. Untouched(c)
    BY <1>3, <1>4 DEF Moves, Untouched, QuietOn, PhaseOf
  <2> QED
    BY <1>2, <2>1, Stutters
<1>5. CASE Closes(c)
  <2>1. QuietOn(c) /\ PhaseOf(c) # "over" /\ PhaseOf(c)' = "over"
    BY <1>3, <1>5 DEF Closes, QuietOn, PhaseOf
  <2> QED
    BY <1>2, <2>1, OneEnds
<1> QED
  BY <1>1, <1>2, <1>4, <1>5, AnswerOutcome, SendOutcome

\* Every step is one of RequestService or a stutter.
LEMMA StepRefines == LoopInv /\ [Next]_vars => [RS!Next]_(RS!vars)
<1> SUFFICES ASSUME LoopInv, [Next]_vars PROVE RS!Next \/ UNCHANGED RS!vars
  OBVIOUS
<1>1. CASE Select \/ LeaveLoop \/ (\E ev \in events : Service(ev)) \/ Stop \/ UNCHANGED vars
  <2>1. context' = context /\ peer' = peer
    BY <1>1 DEF Select, LeaveLoop, Service, Stop, serverVars, vars
  <2>2. \A c \in Conns : Untouched(c)
    BY <2>1, SameIsUntouched
  <2> QED
    BY <2>2, Stutters
<1>2. CASE (\E l \in Listeners : Accept(l)) \/ (\E c \in Conns : ServiceStep(c) \/ ClientStep(c)) \/ Cleanup
  BY <1>2, OpenStep, ServiceRefines, ClientOutcome, CleanupOutcome
<1> QED
  BY <1>1, <1>2 DEF Next, ServerStep

\* The loop begins where RequestService does.
LEMMA InitRefines == Init => RS!Init
<1> SUFFICES ASSUME Init PROVE RS!Init
  OBVIOUS
<1>1. ASSUME NEW c \in Conns
      PROVE  /\ Asked(c) = <<>> /\ Exchange(context[c].queued) = <<>>
             /\ Exchange(context[c].written) = <<>> /\ PhaseOf(c) = "ahead"
  <2>1. /\ context[c].phase = "none" /\ context[c].queued = <<>> /\ context[c].written = <<>>
        /\ peer[c].sent = 0 /\ peer \in [Conns -> PeerState]
    BY <1>1, InitState
  <2>2. SubSeq(peer[c].script, 1, 0) = <<>>
    <3>1. peer[c].script \in Seq(Unit)
      BY <2>1 DEF PeerState
    <3> QED
      BY <3>1
  <2> QED
    BY <2>1, <2>2, ExchangeOfEmpty DEF Asked, PhaseOf
<1>2. /\ AskedBy = [c \in Conns |-> <<>>] /\ AnswersTo = [c \in Conns |-> <<>>]
      /\ DeliveredTo = [c \in Conns |-> <<>>] /\ Phases = [c \in Conns |-> "ahead"]
  BY <1>1 DEF AskedBy, AnswersTo, DeliveredTo, Phases, Asked
<1> QED
  BY <1>2 DEF RS!Init, AskedBy, AnswersTo, DeliveredTo, Phases

\* The loop implements the service: a reply answers the next of the requests
\* made, leaves in its turn, and nothing happens on a connection that has ended.
THEOREM LoopImplementsService == Spec => ImplementsRequestService
BY InitRefines, StepRefines, LoopIsSound, PTL DEF Spec, ImplementsRequestService, RS!Spec
=============================================================================
