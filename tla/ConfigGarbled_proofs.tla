------------------------- MODULE ConfigGarbled_proofs -------------------------
(***************************************************************************)
(* Proofs about ConfigParser, for a file with one lexeme too many.  What   *)
(* is closed before the extra lexeme has been read as in the whole file;   *)
(* what is read after it is stored beside that, over it only where the     *)
(* values of the file allow it, and converted as it stands.                *)
(***************************************************************************)
EXTENDS ConfigParser_proofs

-----------------------------------------------------------------------------
(* How much is left where the parser is in a file: the servers that were     *)
(* closed before a place have been read there.                               *)

\* More is left than what comes after the mark.
LEMMA LeftIsLonger ==
    ASSUME NEW v \in Seq(Words), NEW left \in Seq(Tokens), NEW w \in Seq(Words), NEW x \in Marks,
           NEW rest \in Seq(Tokens), Join(WordTokens(v), left) = Ahead(w, x, rest)
    PROVE  Len(left) > Len(rest)
<1> DEFINE all == Ahead(w, x, rest)
           a == WordTokens(v)
           m == Len(v)
           n == Len(w)
<1>1. x \in Tokens /\ x.kind # "WORD"
  BY MarksAre
<1>2. all \in Seq(Tokens) /\ Len(all) = n + 1 + Len(rest) /\ n \in Nat /\ Len(rest) \in Nat /\ all[n + 1] = x
  <2>1. Spells(all, n, w, x, rest)
    BY <1>1, AheadIs, Zenon
  <2> HIDE DEF all, n
  <2> QED
    BY <2>1, Zenon DEF Spells
<1>3. a \in Seq(Tokens) /\ Len(a) = m /\ m \in Nat /\ \A i \in 1 .. m : a[i] = Word(v[i])
  BY WordTokensAre
<1> HIDE DEF a, m, n
<1>4. Len(Join(a, left)) = m + Len(left) /\ \A i \in 1 .. m : Join(a, left)[i] = a[i]
  <2>1. Len(Join(a, left)) = Len(a) + Len(left)
    BY <1>3, JoinIs
  <2>2. \A i \in 1 .. Len(a) + Len(left) : Join(a, left)[i] = IF i <= Len(a) THEN a[i] ELSE left[i - Len(a)]
    BY <1>3, JoinIs
  <2>3. Len(left) \in Nat
    OBVIOUS
  <2> DEFINE c == Join(a, left)
  <2> HIDE DEF c
  <2> QED
    BY <1>3, <2>1, <2>2, <2>3
<1>5. Join(a, left) = all
  BY DEF a
<1> HIDE DEF all
<1>6. ~(n + 1 \in 1 .. m)
  <2> SUFFICES ASSUME n + 1 \in 1 .. m PROVE FALSE
    OBVIOUS
  <2>1. x = Word(v[n + 1])
    BY <1>2, <1>3, <1>4, <1>5
  <2>2. Word(v[n + 1]).kind = "WORD"
    BY MarksAre, Zenon
  <2> QED
    BY <1>1, <2>1, <2>2
<1>7. m + Len(left) = n + 1 + Len(rest) /\ Len(left) \in Nat
  <2>1. Len(left) \in Nat
    OBVIOUS
  <2>2. Len(Join(a, left)) = n + 1 + Len(rest)
    BY <1>2, <1>5, Zenon
  <2> QED
    BY <1>4, <2>1, <2>2, Zenon
<1> QED
  BY <1>2, <1>3, <1>6, <1>7

\* What is joined before a mark and a rest makes it longer.
LEMMA JoinIsLonger ==
    ASSUME NEW a \in Seq(Tokens), NEW x \in Tokens, NEW rest \in Seq(Tokens)
    PROVE  Len(Join(a, Join(<<x>>, rest))) = Len(a) + 1 + Len(rest)
BY DEF Join

\* A server's directives and a location's roots end before what follows them.
LEMMA PartsAreLonger ==
    ASSUME NEW f \in Seq(Seq(Directives))
    PROVE  /\ \A i \in 0 .. Len(f) : IsServer(f, i) =>
                  \A j \in 0 .. Len(f[i + 1]) : Len(DirectivesOf(f, i, j)) > Len(ServersLeft(f, i + 1))
           /\ \A i \in 0 .. Len(f) : \A j \in 0 .. Len(f[i + 1]) :
                  IsDirective(f, i, j) /\ IsLocation(f[i + 1][j + 1]) =>
                      \A m \in 0 .. Len(f[i + 1][j + 1].roots) : Len(RootsOf(f, i, j, m)) > Len(ServersLeft(f, i + 1))
<1>0. RBrace \in Tokens
  BY MarksAre DEF Marks
<1>1. ASSUME NEW pieces \in Seq(Seq(Tokens)), NEW k \in 0 .. Len(pieces), NEW rest \in Seq(Tokens)
      PROVE  Len(Join(From(pieces, k + 1), Join(<<RBrace>>, rest))) > Len(rest)
  <2> DEFINE a == From(pieces, k + 1)
             b == Join(a, Join(<<RBrace>>, rest))
  <2>1. a \in Seq(Tokens)
    <3>1. k + 1 \in 1 .. Len(pieces) + 1
      <4> DEFINE Q == Seq(Tokens)
      <4> HIDE DEF Q
      <4>1. pieces \in Seq(Q)
        BY DEF Q
      <4> QED
        BY <4>1
    <3> QED
      BY <3>1, FromIs, Zenon
  <2> HIDE DEF a
  <2>2. Len(b) = Len(a) + 1 + Len(rest)
    BY <1>0, <2>1, JoinIsLonger, Zenon
  <2> HIDE DEF b
  <2>3. Len(b) > Len(rest)
    BY <2>1, <2>2
  <2> QED
    BY <2>3, Zenon DEF a, b
<1>2. ASSUME NEW i \in 0 .. Len(f), IsServer(f, i), NEW j \in 0 .. Len(f[i + 1])
      PROVE  Len(DirectivesOf(f, i, j)) > Len(ServersLeft(f, i + 1))
  <2> DEFINE ds == f[i + 1]
             pieces == DirectivePieces(ds)
             rest == ServersLeft(f, i + 1)
  <2>1. ds \in Seq(Directives) /\ rest \in Seq(Tokens)
    BY <1>2, FileParts, PartsLeft, Zenon
  <2>2. pieces \in Seq(Seq(Tokens)) /\ Len(pieces) = Len(ds)
    BY <2>1, PiecesAre, Zenon
  <2>3. Len(Join(From(pieces, j + 1), Join(<<RBrace>>, rest))) > Len(rest)
    BY <1>1, <2>1, <2>2, Zenon
  <2> QED
    BY <2>3, Zenon DEF DirectivesOf, DirectivesLeft
<1>3. ASSUME NEW i \in 0 .. Len(f), NEW j \in 0 .. Len(f[i + 1]), IsDirective(f, i, j), IsLocation(f[i + 1][j + 1]),
             NEW m \in 0 .. Len(f[i + 1][j + 1].roots)
      PROVE  Len(RootsOf(f, i, j, m)) > Len(ServersLeft(f, i + 1))
  <2> DEFINE roots == f[i + 1][j + 1].roots
             pieces == RootPieces(roots)
             rest == DirectivesOf(f, i, j + 1)
             a == Len(RootsOf(f, i, j, m))
             b == Len(rest)
             c == Len(ServersLeft(f, i + 1))
  <2>1. IsServer(f, i) /\ roots \in Seq(Words) /\ j + 1 \in 0 .. Len(f[i + 1]) /\ i + 1 \in 0 .. Len(f)
    BY <1>3, FileParts, Zenon
  <2>2. rest \in Seq(Tokens) /\ ServersLeft(f, i + 1) \in Seq(Tokens) /\ RootsOf(f, i, j, m) \in Seq(Tokens)
    BY <1>3, <2>1, PartsLeft, Zenon
  <2>3. pieces \in Seq(Seq(Tokens)) /\ Len(pieces) = Len(roots)
    BY <2>1, PiecesAre, Zenon
  <2>4. a > b
    <3>1. Len(Join(From(pieces, m + 1), Join(<<RBrace>>, rest))) > Len(rest)
      BY <1>1, <2>2, <2>3, Zenon
    <3> QED
      BY <3>1, Zenon DEF RootsOf, RootsLeft
  <2>5. b > c
    BY <1>2, <2>1, Zenon
  <2>6. a \in Nat /\ b \in Nat /\ c \in Nat
    <3>1. \A s \in Seq(Tokens) : Len(s) \in Nat
      OBVIOUS
    <3> QED
      BY <2>2, <3>1, Zenon
  <2> HIDE DEF a, b, c
  <2>7. a > c
    BY <2>4, <2>5, <2>6
  <2> QED
    BY <2>7, Zenon DEF a, c
<1> QED
  BY <1>2, <1>3, Zenon

\* Of the servers less is left, the more of them were read,
LEMMA ServersGetFewer ==
    ASSUME NEW f \in Seq(Seq(Directives)), NEW i \in 0 .. Len(f)
    PROVE  \A k \in 0 .. Len(f) : k >= i => Len(ServersLeft(f, k)) <= Len(ServersLeft(f, i))
<1> DEFINE n == Len(f)
           len(k) == Len(ServersLeft(f, k))
           T == {k \in 0 .. n : k >= i => len(k) <= len(i)}
<1>1. n \in Nat /\ i \in Nat /\ i <= n
  <2>1. n \in Nat
    BY FileParts, Zenon
  <2> QED
    BY <2>1
<1>2. \A k \in 0 .. n : len(k) \in Nat
  <2>1. \A s \in Seq(Tokens) : Len(s) \in Nat
    OBVIOUS
  <2> QED
    BY <2>1, PartsLeft, Zenon
<1>3. ASSUME NEW k \in 0 .. n, k < n PROVE len(k + 1) <= len(k)
  <2> DEFINE w == <<"server">>
             rest == DirectivesOf(f, k, 0)
  <2>1. IsServer(f, k) /\ 0 \in 0 .. Len(f[k + 1])
    <3>1. IsServer(f, k)
      BY <1>3, Zenon DEF IsServer
    <3>2. Len(f[k + 1]) \in Nat
      BY <3>1, FileParts, Zenon
    <3> QED
      BY <3>1, <3>2
  <2>2. w \in Seq(Words) /\ LBrace \in Tokens
    BY FewWordsAre, Assumed, MarksAre, Zenon DEF Marks
  <2>3. rest \in Seq(Tokens) /\ ServersLeft(f, k) = Ahead(w, LBrace, rest)
    BY <1>3, <2>1, ServersAhead, PartsLeft, Zenon DEF DirectivesOf
  <2>4. Spells(Ahead(w, LBrace, rest), Len(w), w, LBrace, rest)
    BY <2>2, <2>3, AheadIs, Zenon
  <2>5. Len(rest) > len(k + 1) /\ k + 1 \in 0 .. n
    BY <2>1, PartsAreLonger, FileParts, Zenon
  <2> DEFINE a == Len(rest)
             c == Len(w)
  <2>6. len(k) = c + 1 + a /\ c \in Nat /\ a \in Nat
    BY <2>3, <2>4, Zenon DEF Spells
  <2>7. len(k + 1) \in Nat /\ a > len(k + 1)
    BY <1>2, <2>5, Zenon
  <2> HIDE DEF len, a, c
  <2> QED
    BY <2>6, <2>7
<1> HIDE DEF len
<1>4. 0 \in T
  <2>1. 0 >= i => i = 0
    BY <1>1
  <2>2. len(0) <= len(0)
    BY <1>1, <1>2
  <2> QED
    BY <1>1, <2>1, <2>2
<1>5. ASSUME NEW k \in 1 .. n, k - 1 \in T PROVE k \in T
  <2>1. k \in 0 .. n /\ k - 1 \in 0 .. n /\ k - 1 < n /\ (k - 1) + 1 = k
    BY <1>1
  <2>2. len(k) <= len(k - 1)
    BY <1>3, <2>1
  <2>3. k - 1 >= i => len(k - 1) <= len(i)
    BY <1>5
  <2>4. k >= i => k = i \/ k - 1 >= i
    BY <1>1
  <2>5. len(k) \in Nat /\ len(k - 1) \in Nat /\ len(i) \in Nat
    BY <1>2, <2>1
  <2> QED
    BY <2>1, <2>2, <2>3, <2>4, <2>5
<1>6. 0 .. n \subseteq T
  <2> HIDE DEF T
  <2> QED
    BY <1>1, <1>4, <1>5, BoundedInduction
<1>7. \A k \in 0 .. n : k >= i => len(k) <= len(i)
  BY <1>6
<1> QED
  BY <1>7 DEF len

\* and what was written of those before is what is missing.
LEMMA ServersWritten ==
    ASSUME NEW f \in Seq(Seq(Directives)), NEW i \in 0 .. Len(f)
    PROVE  /\ Len(Written(f)) = 2 + Len(Each(SubSeq(f, 1, i), WriteServer)) + Len(ServersLeft(f, i))
           /\ Len(Each(SubSeq(f, 1, i), WriteServer)) \in Nat /\ Len(ServersLeft(f, i)) \in Nat
<1> DEFINE pieces == ServerPieces(f)
           some == SubSeq(f, 1, i)
           tail == Join(<<RBrace>>, <<>>)
           before == FlattenSeq(SubSeq(pieces, 1, i))
           after == From(pieces, i + 1)
<1>0. RBrace \in Tokens /\ LBrace \in Tokens
  BY MarksAre DEF Marks
<1>1. pieces \in Seq(Seq(Tokens)) /\ Len(pieces) = Len(f) /\ \A k \in 1 .. Len(f) : pieces[k] = WriteServer(f[k])
  BY PiecesAre, Zenon
<1>2. some \in Seq(Seq(Directives)) /\ Len(some) = i /\ \A k \in 1 .. i : some[k] = f[k]
  <2> DEFINE Q == Seq(Directives)
  <2> HIDE DEF Q
  <2>1. f \in Seq(Q)
    BY DEF Q
  <2>2. some \in Seq(Q) /\ Len(some) = i /\ \A k \in 1 .. i : some[k] = f[k]
    BY <2>1, FirstsAre
  <2> QED
    BY <2>2 DEF Q
<1>3. Each(some, WriteServer) = before
  <2> DEFINE Q == Seq(Tokens)
             a == ServerPieces(some)
             b == SubSeq(pieces, 1, i)
  <2>1. a \in Seq(Q) /\ Len(a) = i /\ \A k \in 1 .. i : a[k] = WriteServer(f[k])
    <3> HIDE DEF some
    <3>1. a \in Seq(Q) /\ Len(a) = Len(some) /\ \A k \in 1 .. Len(some) : a[k] = WriteServer(some[k])
      BY <1>2, PiecesAre, Zenon
    <3> QED
      BY <1>2, <3>1, Zenon
  <2>2. b \in Seq(Q) /\ Len(b) = i /\ \A k \in 1 .. i : b[k] = WriteServer(f[k])
    <3> HIDE DEF pieces, Q
    <3>1. pieces \in Seq(Q) /\ i \in 0 .. Len(pieces) /\ i \in Nat /\ i <= Len(f)
      <4>1. Len(f) \in Nat
        BY FileParts, Zenon
      <4> QED
        BY <1>1, <4>1 DEF Q
    <3>2. b \in Seq(Q) /\ Len(b) = i /\ \A k \in 1 .. i : b[k] = pieces[k]
      BY <3>1, FirstsAre
    <3>3. \A k \in 1 .. i : k \in 1 .. Len(f)
      <4>1. Len(f) \in Nat
        BY FileParts, Zenon
      <4> QED
        BY <3>1, <4>1
    <3> QED
      BY <1>1, <3>2, <3>3, Zenon
  <2> HIDE DEF a, b, Q, some, pieces
  <2>3. \A k \in 1 .. i : a[k] = b[k]
    BY <2>1, <2>2, Zenon
  <2>4. a = b
    BY <2>1, <2>2, <2>3, SeqEqual
  <2> QED
    BY <2>4, Zenon DEF Each, ServerPieces, a, b
<1>4. before \in Seq(Tokens) /\ before \o after = FlattenSeq(pieces)
  <2>1. i \in 0 .. Len(pieces)
    BY <1>1
  <2> HIDE DEF pieces
  <2> QED
    BY <1>1, <2>1, FromAfter, Zenon
<1>5. /\ after \in Seq(Tokens) /\ From(pieces, 1) \in Seq(Tokens) /\ From(pieces, 1) = FlattenSeq(pieces)
  <2>1. i + 1 \in 1 .. Len(pieces) + 1 /\ 1 \in 1 .. Len(pieces) + 1
    <3>1. Len(f) \in Nat
      BY FileParts, Zenon
    <3> QED
      BY <1>1, <3>1
  <2> HIDE DEF pieces
  <2> QED
    BY <1>1, <2>1, FromIs, Zenon
<1> DEFINE all == From(pieces, 1)
<1>6. ServersLeft(f, i) = Join(after, tail) /\ ServersLeft(f, 0) = Join(all, tail)
  <2>1. 0 + 1 = 1
    OBVIOUS
  <2> QED
    BY <2>1, Zenon DEF ServersLeft
<1>7. Written(f) = Ahead(<<"http">>, LBrace, Join(all, tail))
  BY <1>6, WrittenAhead, Zenon
<1> HIDE DEF pieces, some, before, after, all
<1>8. Len(all) = Len(before) + Len(after) /\ Len(before) \in Nat /\ Len(after) \in Nat
  <2>1. Len(before \o after) = Len(before) + Len(after)
    BY <1>4, <1>5
  <2>2. all = before \o after
    BY <1>4, <1>5 DEF all
  <2> QED
    BY <1>4, <1>5, <2>1, <2>2
<1>9. /\ Len(Join(after, tail)) = Len(after) + 1 /\ Len(Join(all, tail)) = Len(all) + 1
      /\ Join(all, tail) \in Seq(Tokens)
  <2>1. <<>> \in Seq(Tokens) /\ Len(<<>>) = 0
    OBVIOUS
  <2>2. /\ Len(Join(after, tail)) = Len(after) + 1 + Len(<<>>)
        /\ Len(Join(all, tail)) = Len(all) + 1 + Len(<<>>)
    BY <1>0, <1>5, <2>1, JoinIsLonger, Zenon DEF all
  <2>3. Join(all, tail) \in Seq(Tokens)
    <3> DEFINE b == <<RBrace>>
               e == <<>>
    <3>1. b \in Seq(Tokens) /\ e \in Seq(Tokens) /\ all \in Seq(Tokens)
      BY <1>0, <1>5 DEF all
    <3> HIDE DEF b, e
    <3>2. Join(b, e) \in Seq(Tokens)
      BY <3>1, JoinIs
    <3>3. Join(all, Join(b, e)) \in Seq(Tokens)
      BY <3>1, <3>2, JoinIs
    <3> QED
      BY <3>3 DEF b, e
  <2> HIDE DEF tail
  <2>4. Len(after) \in Nat /\ Len(all) \in Nat
    BY <1>8
  <2> QED
    BY <2>1, <2>2, <2>3, <2>4
<1> HIDE DEF tail
<1>10. Len(Written(f)) = 2 + Len(Join(all, tail))
  <2> DEFINE w == <<"http">>
             rest == Join(all, tail)
             a == Len(Written(f))
             b == Len(rest)
  <2>1. w \in Seq(Words) /\ Len(w) = 1
    BY FewWordsAre, Assumed
  <2>2. Written(f) = Ahead(w, LBrace, rest) /\ rest \in Seq(Tokens)
    BY <1>7, <1>9
  <2> HIDE DEF w, rest
  <2>3. Spells(Ahead(w, LBrace, rest), Len(w), w, LBrace, rest)
    BY <1>0, <2>1, <2>2, AheadIs, Zenon
  <2>4. a = 1 + 1 + b /\ b \in Nat
    BY <2>1, <2>2, <2>3, Zenon DEF Spells
  <2> HIDE DEF a, b
  <2>5. a = 2 + b
    BY <2>4
  <2> QED
    BY <2>5, Zenon DEF a, b, rest
<1> DEFINE x == Len(before)
           y == Len(after)
           z == Len(ServersLeft(f, i))
           u == Len(Written(f))
<1>11. z = y + 1 /\ u = 2 + (x + y + 1) /\ x \in Nat /\ y \in Nat
  BY <1>6, <1>8, <1>9, <1>10, Zenon
<1> HIDE DEF x, y, z, u
<1>12. u = 2 + x + z /\ x \in Nat /\ z \in Nat
  BY <1>11
<1> QED
  BY <1>3, <1>12, Zenon DEF x, z, u, some

-----------------------------------------------------------------------------
(* What is kept of the servers of a file that were closed before a lexeme    *)
(* too many.                                                                 *)

\* A server block says what the server's directives say, but for what a second block
\* stored in the first one has replaced there: a dictionary, and the locations only if
\* the lexeme's value is their name.
KeptBlock(block, ds, i, value) ==
    \E whole : /\ Describes(whole, ds)
               /\ \A name : \/ SameAt(whole, block, name)
                            \/ /\ i = 1 /\ name \in DOMAIN block /\ IsBlock(block[name])
                               /\ name = "location" => value = "location"
KeptServers(http, f, n, value) ==
    /\ "server" \in DOMAIN http /\ http["server"].kind \in {"dict", "many"}
    /\ \E S : Values(http, "server") \in Seq(S)
    /\ Len(Values(http, "server")) >= n
    /\ \A i \in 1 .. n : /\ IsBlock(Values(http, "server")[i])
                         /\ KeptBlock(Values(http, "server")[i].v, f[i], i, value)

\* In the http block, and when it has been closed.
StoresLocations(call, value) ==
    call.key = "server" /\ call.args # <<>> /\ call.args[1] = "location" => value = "location"
InKept(stack, f, n, value) ==
    /\ Len(stack) >= 2 /\ InHttp(stack) /\ KeptServers(stack[2].config, f, n, value)
    /\ Len(stack) >= 3 => StoresLocations(stack[2], value)
HttpKept(config, f, n, value) ==
    "http" \in DOMAIN config /\ IsBlock(config["http"]) /\ KeptServers(config["http"].v, f, n, value)
HasKept(stack, f, n, value) ==
    /\ Len(stack) >= 1 /\ HttpKept(stack[1].config, f, n, value)
    /\ Len(stack) >= 2 => stack[1].key # "http"
Keeping(stack, f, n, value) == InKept(stack, f, n, value) \/ HasKept(stack, f, n, value)

\* The servers before a place that are in a file: they have been closed there.
LeftAfter(f, left, n) == \A i \in 0 .. Len(f) : Len(ServersLeft(f, i)) >= Len(left) => i <= n

\* Nothing is left of them where less is left than of the next server.
LEMMA LessIsLeft ==
    ASSUME NEW f \in Seq(Seq(Directives)), NEW left \in Seq(Tokens), NEW n \in 0 .. Len(f),
           n < Len(f) => Len(left) > Len(ServersLeft(f, n + 1))
    PROVE  LeftAfter(f, left, n)
<1>1. Len(f) \in Nat /\ n \in Nat /\ n <= Len(f) /\ Len(left) \in Nat
  <2>1. Len(f) \in Nat
    BY FileParts, Zenon
  <2> QED
    BY <2>1
<1> SUFFICES ASSUME NEW i \in 0 .. Len(f), Len(ServersLeft(f, i)) >= Len(left) PROVE i <= n
  BY Zenon DEF LeftAfter
<1>2. CASE n < Len(f) /\ i >= n + 1
  <2> DEFINE a == Len(ServersLeft(f, i))
             b == Len(ServersLeft(f, n + 1))
             c == Len(left)
  <2>1. n + 1 \in 0 .. Len(f)
    BY <1>1, <1>2
  <2>2. a <= b /\ c > b /\ a >= c
    BY <1>2, <2>1, ServersGetFewer, Zenon
  <2>3. a \in Nat /\ b \in Nat /\ c \in Nat
    <3>1. \A s \in Seq(Tokens) : Len(s) \in Nat
      OBVIOUS
    <3> QED
      BY <2>1, <3>1, PartsLeft, Zenon
  <2> HIDE DEF a, b, c
  <2> QED
    BY <2>2, <2>3
<1>3. CASE ~(n < Len(f) /\ i >= n + 1)
  BY <1>1, <1>3
<1> QED
  BY <1>2, <1>3

\* Servers that are said are kept.
LEMMA SaidIsKept ==
    ASSUME NEW f \in Seq(Seq(Directives)), NEW n \in 0 .. Len(f), n # 0, NEW http, Said(http, SubSeq(f, 1, n)),
           NEW value
    PROVE  KeptServers(http, f, n, value)
<1> DEFINE a == SubSeq(f, 1, n)
           values == Values(http, "server")
<1>1. Len(a) = n /\ \A k \in 1 .. n : a[k] = f[k]
  BY FirstsAre
<1> HIDE DEF a
<1>2. HasBlocks(http, n) /\ \A k \in 1 .. n : Describes(values[k].v, f[k])
  BY <1>1, Zenon DEF Said, a
<1>3. /\ "server" \in DOMAIN http /\ http["server"].kind \in {"dict", "many"}
      /\ \E S : values \in Seq(S)
      /\ Len(values) = n
      /\ \A k \in 1 .. n : IsBlock(values[k])
  BY <1>2, Zenon DEF HasBlocks
<1>4. \A k \in 1 .. n : KeptBlock(values[k].v, f[k], k, value)
  <2>1. \A block : \A name : SameAt(block, block, name)
    BY Zenon DEF SameAt
  <2> QED
    BY <1>2, <2>1, Zenon DEF KeptBlock
<1>5. n >= n
  <2>1. Len(f) \in Nat
    BY FileParts, Zenon
  <2> QED
    BY <2>1
<1> QED
  BY <1>3, <1>4, <1>5, Zenon DEF KeptServers

\* Where the parser is in a file, the servers before it are kept.
LEMMA PlaceKeeps ==
    ASSUME NEW f \in Seq(Seq(Directives)), NEW stack, NEW words \in Seq(Words), NEW left \in Seq(Tokens), left # <<>>,
           Place(stack, f, Join(WordTokens(words), left)), NEW value
    PROVE  \E n \in 0 .. Len(f) : /\ LeftAfter(f, left, n)
                                  /\ n = 0 \/ InKept(stack, f, n, value)
<1> DEFINE all == Join(WordTokens(words), left)
           Goal == \E n \in 0 .. Len(f) : LeftAfter(f, left, n) /\ (n = 0 \/ InKept(stack, f, n, value))
<1>0. /\ \A s \in Seq(Tokens) : Len(s) \in Nat
      /\ Len(f) \in Nat
  <2>1. Len(f) \in Nat
    BY FileParts, Zenon
  <2> QED
    BY <2>1
<1>1. Comes(stack, f, all)
  <2>1. all # <<>>
    <3> DEFINE a == WordTokens(words)
    <3>1. a \in Seq(Tokens)
      BY WordTokensAre
    <3> HIDE DEF a
    <3>2. Join(a, left) # <<>>
      BY <3>1 DEF Join
    <3> QED
      BY <3>2 DEF a
  <2> QED
    BY <2>1, PlaceIs, Zenon
<1>2. PICK w \in Seq(Words), x \in Marks, rest \in Seq(Tokens) :
          all = Ahead(w, x, rest) /\ NextIs(stack, f, w, x, rest)
  BY <1>1, Zenon DEF Comes
<1>3. Len(left) > Len(rest)
  BY <1>2, LeftIsLonger, Zenon
<1> HIDE DEF all
<1>4. ASSUME NEW n \in 0 .. Len(f), n < Len(f) => Len(rest) >= Len(ServersLeft(f, n + 1)),
             n = 0 \/ InKept(stack, f, n, value)
      PROVE  Goal
  <2>1. n < Len(f) => Len(left) > Len(ServersLeft(f, n + 1))
    <3> SUFFICES ASSUME n < Len(f) PROVE Len(left) > Len(ServersLeft(f, n + 1))
      OBVIOUS
    <3> DEFINE a == Len(left)
               b == Len(rest)
               c == Len(ServersLeft(f, n + 1))
    <3>1. a > b /\ b >= c
      BY <1>3, <1>4
    <3>2. n + 1 \in 0 .. Len(f)
      BY <1>0
    <3>3. a \in Nat /\ b \in Nat /\ c \in Nat
      BY <1>0, <3>2, PartsLeft, Zenon
    <3> HIDE DEF a, b, c
    <3>4. a > c
      BY <3>1, <3>3
    <3> QED
      BY <3>4 DEF a, c
  <2>2. LeftAfter(f, left, n)
    BY <2>1, LessIsLeft, Zenon
  <2> QED
    BY <1>4, <2>2, Zenon
<1> HIDE DEF Goal
<1>5. ASSUME NEW i \in 0 .. Len(f), AtServer(stack, f, i) PROVE i = 0 \/ InKept(stack, f, i, value)
  <2> SUFFICES ASSUME i # 0 PROVE InKept(stack, f, i, value)
    OBVIOUS
  <2>1. KeptServers(stack[2].config, f, i, value)
    BY <1>5, SaidIsKept, Zenon DEF AtServer
  <2>2. Len(stack) >= 2 /\ ~(Len(stack) >= 3)
    BY <1>5 DEF AtServer
  <2> QED
    BY <1>5, <2>1, <2>2, Zenon DEF AtServer, InKept
<1>6. ASSUME NEW i \in 0 .. Len(f), InServer(stack, f, i), Len(stack) = 3 \/ Len(stack) = 4
      PROVE  i = 0 \/ InKept(stack, f, i, value)
  <2> SUFFICES ASSUME i # 0 PROVE InKept(stack, f, i, value)
    OBVIOUS
  <2>1. KeptServers(stack[2].config, f, i, value)
    BY <1>6, SaidIsKept, Zenon DEF InServer
  <2>2. Len(stack) >= 2
    <3> DEFINE k == Len(stack)
    <3>1. k = 3 \/ k = 4
      BY <1>6
    <3> HIDE DEF k
    <3>2. k >= 2
      BY <3>1
    <3> QED
      BY <3>2 DEF k
  <2> QED
    BY <1>6, <2>1, <2>2, Zenon DEF InServer, InKept, StoresLocations
<1>7. ASSUME NEW i \in 0 .. Len(f), IsServer(f, i), NEW j \in 0 .. Len(f[i + 1]), AtDirective(stack, f, i, j),
             Len(rest) >= Len(ServersLeft(f, i + 1))
      PROVE  Goal
  <2>1. InServer(stack, f, i) /\ Len(stack) = 3
    BY <1>7, Zenon DEF AtDirective
  <2> QED
    BY <1>4, <1>6, <1>7, <2>1, Zenon
<1>8. ASSUME NEW i \in 0 .. Len(f), NEW j, NEW m, AtRoot(stack, f, i, j, m), Len(rest) >= Len(ServersLeft(f, i + 1))
      PROVE  Goal
  <2>1. InServer(stack, f, i) /\ Len(stack) = 4
    BY <1>8, Zenon DEF AtRoot, InLocation
  <2> QED
    BY <1>4, <1>6, <1>8, <2>1, Zenon
<1>9. ASSUME NEW i \in 0 .. Len(f), IsServer(f, i), NEW j \in 0 .. Len(f[i + 1]), rest = DirectivesOf(f, i, j)
      PROVE  Len(rest) >= Len(ServersLeft(f, i + 1))
  <2>1. Len(DirectivesOf(f, i, j)) > Len(ServersLeft(f, i + 1))
    BY <1>9, PartsAreLonger, Zenon
  <2>2. Len(DirectivesOf(f, i, j)) \in Nat /\ Len(ServersLeft(f, i + 1)) \in Nat
    BY <1>0, <1>9, FileParts, PartsLeft, Zenon
  <2> QED
    BY <1>9, <2>1, <2>2
<1>10. ASSUME NEW i \in 0 .. Len(f), NEW j \in 0 .. Len(f[i + 1]), IsDirective(f, i, j), IsLocation(f[i + 1][j + 1]),
              NEW m \in 0 .. Len(f[i + 1][j + 1].roots), rest = RootsOf(f, i, j, m)
       PROVE  Len(rest) >= Len(ServersLeft(f, i + 1))
  <2>1. Len(RootsOf(f, i, j, m)) > Len(ServersLeft(f, i + 1))
    BY <1>10, PartsAreLonger, Zenon
  <2>2. Len(RootsOf(f, i, j, m)) \in Nat /\ Len(ServersLeft(f, i + 1)) \in Nat
    BY <1>0, <1>10, FileParts, PartsLeft, Zenon
  <2> QED
    BY <1>10, <2>1, <2>2
<1>11. CASE Opens(stack, f, w, rest)
  <2>1. ASSUME AtFile(stack), rest = ServersLeft(f, 0) PROVE Goal
    <3>1. 0 \in 0 .. Len(f)
      BY <1>0
    <3>2. 0 < Len(f) => Len(rest) >= Len(ServersLeft(f, 0 + 1))
      <4> SUFFICES ASSUME 0 < Len(f) PROVE Len(rest) >= Len(ServersLeft(f, 0 + 1))
        OBVIOUS
      <4>1. 0 + 1 \in 0 .. Len(f) /\ 0 + 1 >= 0
        BY <1>0
      <4>2. Len(ServersLeft(f, 0 + 1)) <= Len(ServersLeft(f, 0))
        BY <3>1, <4>1, ServersGetFewer, Zenon
      <4>3. Len(ServersLeft(f, 0 + 1)) \in Nat /\ Len(ServersLeft(f, 0)) \in Nat
        BY <1>0, <3>1, <4>1, PartsLeft, Zenon
      <4> QED
        BY <2>1, <4>2, <4>3
    <3> QED
      BY <1>4, <3>1, <3>2, Zenon
  <2>2. ASSUME NEW i \in 0 .. Len(f), IsServer(f, i), AtServer(stack, f, i), rest = DirectivesOf(f, i, 0) PROVE Goal
    <3>1. 0 \in 0 .. Len(f[i + 1])
      <4>1. Len(f[i + 1]) \in Nat
        BY <2>2, FileParts, Zenon
      <4> QED
        BY <4>1
    <3> QED
      BY <1>4, <1>5, <1>9, <2>2, <3>1, Zenon
  <2>3. ASSUME NEW i \in 0 .. Len(f), NEW j \in 0 .. Len(f[i + 1]), IsDirective(f, i, j), IsLocation(f[i + 1][j + 1]),
               AtDirective(stack, f, i, j), rest = RootsOf(f, i, j, 0)
        PROVE  Goal
    <3>1. 0 \in 0 .. Len(f[i + 1][j + 1].roots) /\ IsServer(f, i)
      <4>1. Len(f[i + 1][j + 1].roots) \in Nat /\ IsServer(f, i)
        BY <2>3, FileParts, Zenon
      <4> QED
        BY <4>1
    <3> QED
      BY <1>7, <1>10, <2>3, <3>1, Zenon
  <2>4. \/ AtFile(stack) /\ rest = ServersLeft(f, 0)
        \/ \E i \in 0 .. Len(f) : IsServer(f, i) /\ AtServer(stack, f, i) /\ rest = DirectivesOf(f, i, 0)
        \/ \E i \in 0 .. Len(f) : \E j \in 0 .. Len(f[i + 1]) :
               /\ IsDirective(f, i, j) /\ IsLocation(f[i + 1][j + 1]) /\ AtDirective(stack, f, i, j)
               /\ rest = RootsOf(f, i, j, 0)
    BY <1>11, Zenon DEF Opens
  <2>5. Goal
    BY <2>1, <2>2, <2>3, <2>4
  <2> QED
    BY <2>5 DEF Goal
<1>12. CASE Ends(stack, f, w, rest)
  <2>1. ASSUME NEW i \in 0 .. Len(f), NEW j \in 0 .. Len(f[i + 1]), IsDirective(f, i, j),
               AtDirective(stack, f, i, j), rest = DirectivesOf(f, i, j + 1)
        PROVE  Goal
    <3>1. IsServer(f, i) /\ j + 1 \in 0 .. Len(f[i + 1])
      BY <2>1, FileParts, Zenon
    <3> QED
      BY <1>7, <1>9, <2>1, <3>1, Zenon
  <2>2. ASSUME NEW i \in 0 .. Len(f), NEW j \in 0 .. Len(f[i + 1]), NEW m \in 0 .. Len(f[i + 1][j + 1].roots),
               IsRoot(f, i, j, m), AtRoot(stack, f, i, j, m), rest = RootsOf(f, i, j, m + 1)
        PROVE  Goal
    <3>1. IsDirective(f, i, j) /\ IsLocation(f[i + 1][j + 1]) /\ m < Len(f[i + 1][j + 1].roots)
      BY <2>2, Zenon DEF IsRoot
    <3>2. m + 1 \in 0 .. Len(f[i + 1][j + 1].roots)
      <4> DEFINE k == Len(f[i + 1][j + 1].roots)
      <4>1. k \in Nat /\ m \in 0 .. k /\ m < k
        BY <3>1, FileParts, Zenon
      <4> HIDE DEF k
      <4>2. m + 1 \in 0 .. k
        BY <4>1
      <4> QED
        BY <4>2 DEF k
    <3> QED
      BY <1>8, <1>10, <2>2, <3>1, <3>2, Zenon
  <2>3. \/ \E i \in 0 .. Len(f) : \E j \in 0 .. Len(f[i + 1]) :
               IsDirective(f, i, j) /\ AtDirective(stack, f, i, j) /\ rest = DirectivesOf(f, i, j + 1)
        \/ \E i \in 0 .. Len(f) : \E j \in 0 .. Len(f[i + 1]) : \E m \in 0 .. Len(f[i + 1][j + 1].roots) :
               IsRoot(f, i, j, m) /\ AtRoot(stack, f, i, j, m) /\ rest = RootsOf(f, i, j, m + 1)
    BY <1>12, Zenon DEF Ends
  <2>4. Goal
    BY <2>1, <2>2, <2>3
  <2> QED
    BY <2>4 DEF Goal
<1>13. CASE ClosesNext(stack, f, rest)
  <2>1. ASSUME AtServer(stack, f, Len(f)) PROVE Goal
    <3> DEFINE n == Len(f)
    <3>1. n \in 0 .. Len(f) /\ ~(n < Len(f))
      BY <1>0
    <3>2. n = 0 \/ InKept(stack, f, n, value)
      BY <1>5, <2>1, <3>1, Zenon
    <3> HIDE DEF n
    <3> QED
      BY <1>4, <3>1, <3>2, Zenon
  <2>2. ASSUME NEW i \in 0 .. Len(f), IsServer(f, i), AtDirective(stack, f, i, Len(f[i + 1])), rest = ServersLeft(f, i + 1)
        PROVE  Goal
    <3>1. Len(f[i + 1]) \in 0 .. Len(f[i + 1]) /\ Len(rest) >= Len(ServersLeft(f, i + 1))
      <4>1. Len(f[i + 1]) \in Nat /\ Len(rest) \in Nat
        BY <1>0, <2>2, FileParts, Zenon
      <4> QED
        BY <2>2, <4>1
    <3> QED
      BY <1>7, <2>2, <3>1, Zenon
  <2>3. ASSUME NEW i \in 0 .. Len(f), NEW j \in 0 .. Len(f[i + 1]), IsDirective(f, i, j), IsLocation(f[i + 1][j + 1]),
               NEW m, AtRoot(stack, f, i, j, m), rest = DirectivesOf(f, i, j + 1)
        PROVE  Goal
    <3>1. IsServer(f, i) /\ j + 1 \in 0 .. Len(f[i + 1])
      BY <2>3, FileParts, Zenon
    <3> QED
      BY <1>8, <1>9, <2>3, <3>1, Zenon
  <2>4. \/ AtServer(stack, f, Len(f))
        \/ \E i \in 0 .. Len(f) : /\ IsServer(f, i) /\ AtDirective(stack, f, i, Len(f[i + 1]))
                                  /\ rest = ServersLeft(f, i + 1)
        \/ \E i \in 0 .. Len(f) : \E j \in 0 .. Len(f[i + 1]) :
               /\ IsDirective(f, i, j) /\ IsLocation(f[i + 1][j + 1])
               /\ AtRoot(stack, f, i, j, Len(f[i + 1][j + 1].roots))
               /\ rest = DirectivesOf(f, i, j + 1)
    BY <1>13, Zenon DEF ClosesNext
  <2>5. Goal
    BY <2>1, <2>2, <2>3, <2>4
  <2> QED
    BY <2>5 DEF Goal
<1> QED
  BY <1>2, <1>11, <1>12, <1>13, Zenon DEF NextIs, Goal

\* Servers are kept by a dictionary that has the same under their name,
LEMMA KeptSame ==
    ASSUME NEW f, NEW n, NEW value, NEW http, KeptServers(http, f, n, value),
           NEW new, SameAt(http, new, "server")
    PROVE  KeptServers(new, f, n, value)
<1>1. "server" \in DOMAIN http /\ "server" \in DOMAIN new /\ new["server"] = http["server"]
  BY Zenon DEF SameAt, KeptServers
<1>2. Values(new, "server") = Values(http, "server")
  BY <1>1, Zenon DEF Values
<1> QED
  BY <1>1, <1>2, Zenon DEF KeptServers

\* by one that has one value more of any name,
LEMMA KeptAppended ==
    ASSUME NEW f, NEW n \in Nat, NEW value, NEW http, KeptServers(http, f, n, value), NEW key, NEW item
    PROVE  KeptServers(AppendRepeated(http, key, item), f, n, value)
<1> DEFINE new == AppendRepeated(http, key, item)
<1>1. CASE key # "server"
  <2>1. SameAt(http, new, "server")
    <3> HIDE DEF new
    <3>1. \A name : name # key => SameAt(http, new, name)
      BY AppendRepeatedIs, Zenon DEF new
    <3> QED
      BY <1>1, <3>1, Zenon
  <2> HIDE DEF new
  <2>2. KeptServers(new, f, n, value)
    BY <2>1, KeptSame, Zenon
  <2> QED
    BY <2>2, Zenon DEF new
<1>2. CASE key = "server"
  <2> DEFINE existing == http["server"]
             old == Values(http, "server")
             items == CASE existing.kind = "many" -> Append(existing.v, item)
                        [] ~IsTrue(existing) /\ existing.kind = "args" -> <<item>>
                        [] OTHER -> <<existing, item>>
  <2>1. /\ "server" \in DOMAIN http /\ existing.kind \in {"dict", "many"} /\ Len(old) >= n
        /\ \A i \in 1 .. n : IsBlock(old[i]) /\ KeptBlock(old[i].v, f[i], i, value)
    BY Zenon DEF KeptServers
  <2>2. PICK S : old \in Seq(S)
    BY Zenon DEF KeptServers
  <2>3. new = With(http, "server", Many(items))
    BY <1>2, <2>1, Zenon DEF AppendRepeated
  <2>4. items = Append(old, item)
    <3>1. CASE existing.kind = "many"
      <4>1. old = existing.v
        BY <2>1, <3>1 DEF Values
      <4>2. ~(existing.kind = "args")
        BY <3>1
      <4> HIDE DEF existing, old
      <4> QED
        BY <3>1, <4>1, <4>2
    <3>2. CASE existing.kind = "dict"
      <4>1. old = <<existing>>
        BY <2>1, <3>2 DEF Values
      <4>2. ~(existing.kind = "args") /\ ~(existing.kind = "many")
        BY <3>2
      <4> HIDE DEF existing, old
      <4>3. items = <<existing, item>>
        BY <4>2
      <4> HIDE DEF items
      <4> QED
        BY <4>1, <4>3
    <3> QED
      BY <2>1, <3>1, <3>2
  <2> HIDE DEF items, existing, old
  <2>5. "server" \in DOMAIN new /\ new["server"] = Many(items)
    <3>1. /\ DOMAIN With(http, "server", Many(items)) = DOMAIN http \union {"server"}
          /\ With(http, "server", Many(items))["server"] = Many(items)
      BY DEF With
    <3> HIDE DEF new
    <3> QED
      BY <2>3, <3>1
  <2> HIDE DEF new
  <2>6. Values(new, "server") = items /\ new["server"].kind = "many"
    BY <2>5 DEF Values, Many
  <2>7. LET T == S \union {item} IN
        /\ items \in Seq(T) /\ Len(items) >= n
        /\ \A i \in 1 .. n : items[i] = old[i]
    <3> DEFINE T == S \union {item}
    <3>1. old \in Seq(T) /\ item \in T
      BY <2>2, SequencesGrow
    <3> HIDE DEF T
    <3>2. /\ Append(old, item) \in Seq(T) /\ Len(Append(old, item)) >= n
          /\ \A i \in 1 .. n : Append(old, item)[i] = old[i]
      BY <2>1, <3>1, AppendProperties
    <3> QED
      BY <2>4, <3>2, Zenon DEF T
  <2>8. \E T : Values(new, "server") \in Seq(T)
    BY <2>6, <2>7, Zenon
  <2>9. \A i \in 1 .. n : IsBlock(items[i]) /\ KeptBlock(items[i].v, f[i], i, value)
    <3>1. \A i \in 1 .. n : items[i] = old[i]
      BY <2>7
    <3> QED
      BY <2>1, <3>1, Zenon
  <2>10. new["server"].kind \in {"dict", "many"}
    BY <2>6
  <2>11. Len(items) >= n
    BY <2>7
  <2>12. KeptServers(new, f, n, value)
    BY <2>5, <2>6, <2>8, <2>9, <2>10, <2>11, Zenon DEF KeptServers
  <2> QED
    BY <2>12, Zenon DEF new
<1> QED
  BY <1>1, <1>2

\* and by one whose first server got a block of any name but that of the locations.
LEMMA KeptNamed ==
    ASSUME NEW f, NEW n \in Nat, NEW value, NEW http, KeptServers(http, f, n, value), http["server"].kind = "dict",
           NEW path, path = "location" => value = "location", NEW inner, NEW new,
           new = With(http, "server", Dict(With(http["server"].v, path, Dict(inner))))
    PROVE  KeptServers(new, f, n, value)
<1> DEFINE block == http["server"].v
           other == With(block, path, Dict(inner))
           item == Dict(other)
           old == Values(http, "server")
<1>1. /\ "server" \in DOMAIN http /\ Len(old) >= n
      /\ \A i \in 1 .. n : IsBlock(old[i]) /\ KeptBlock(old[i].v, f[i], i, value)
  BY Zenon DEF KeptServers
<1>2. old = <<http["server"]>>
  BY <1>1 DEF Values
<1>3. ASSUME NEW i \in 1 .. n PROVE i = 1 /\ KeptBlock(block, f[i], i, value)
  <2>1. Len(old) = 1
    BY <1>2
  <2>2. i = 1
    BY <1>1, <2>1
  <2>3. old[i] = http["server"]
    BY <1>2, <2>2
  <2> QED
    BY <1>1, <2>2, <2>3, Zenon
<1>4. "server" \in DOMAIN new /\ new["server"] = item
  <2>1. /\ DOMAIN With(http, "server", item) = DOMAIN http \union {"server"}
        /\ With(http, "server", item)["server"] = item
    BY DEF With
  <2> HIDE DEF item
  <2>2. new = With(http, "server", item)
    BY DEF item
  <2> QED
    BY <2>1, <2>2
<1>5. item.kind = "dict" /\ item.v = other /\ IsBlock(Dict(inner))
  BY DEF Dict, IsBlock
<1>6. Values(new, "server") = <<item>>
  BY <1>4, <1>5 DEF Values
<1>7. path \in DOMAIN other /\ IsBlock(other[path]) /\ \A name : name # path => SameAt(block, other, name)
  <2> HIDE DEF block
  <2>1. path \in DOMAIN other /\ other[path] = Dict(inner)
    <3>1. DOMAIN other = DOMAIN block \union {path} /\ other[path] = Dict(inner)
      BY DEF With
    <3> HIDE DEF other
    <3> QED
      BY <3>1
  <2>2. \A name : name # path => SameAt(block, other, name)
    BY WithIs, Zenon
  <2> HIDE DEF other
  <2> QED
    BY <1>5, <2>1, <2>2, Zenon
<1> HIDE DEF block, other, item, old
<1>8. ASSUME NEW i \in 1 .. n PROVE KeptBlock(other, f[i], i, value)
  <2>1. PICK whole : /\ Describes(whole, f[i])
                     /\ \A name : \/ SameAt(whole, block, name)
                                  \/ /\ i = 1 /\ name \in DOMAIN block /\ IsBlock(block[name])
                                     /\ name = "location" => value = "location"
    BY <1>3, Zenon DEF KeptBlock
  <2>2. ASSUME NEW name
        PROVE  \/ SameAt(whole, other, name)
               \/ /\ i = 1 /\ name \in DOMAIN other /\ IsBlock(other[name])
                  /\ name = "location" => value = "location"
    <3>1. CASE name = path
      BY <1>3, <1>7, <3>1, Zenon
    <3>2. CASE name # path
      <4>1. SameAt(block, other, name)
        BY <1>7, <3>2, Zenon
      <4>2. CASE SameAt(whole, block, name)
        <5>1. SameAt(whole, other, name)
          BY <4>1, <4>2, Zenon DEF SameAt
        <5> QED
          BY <5>1
      <4>3. CASE /\ i = 1 /\ name \in DOMAIN block /\ IsBlock(block[name])
                 /\ name = "location" => value = "location"
        <5>1. name \in DOMAIN other /\ other[name] = block[name]
          BY <4>1, <4>3, Zenon DEF SameAt
        <5> QED
          BY <4>3, <5>1, Zenon
      <4> QED
        BY <2>1, <4>2, <4>3
    <3> QED
      BY <3>1, <3>2
  <2> QED
    BY <2>1, <2>2, Zenon DEF KeptBlock
<1>9. /\ new["server"].kind \in {"dict", "many"}
      /\ \E S : Values(new, "server") \in Seq(S)
      /\ Len(Values(new, "server")) >= n
  <2>1. <<item>> \in Seq({item}) /\ Len(<<item>>) = 1 /\ Len(<<http["server"]>>) = 1
    OBVIOUS
  <2>2. Len(old) = 1 /\ Len(Values(new, "server")) = 1
    BY <1>2, <1>6, <2>1
  <2>3. \E S : Values(new, "server") \in Seq(S)
    BY <1>6, <2>1, Zenon
  <2>4. new["server"].kind \in {"dict", "many"}
    BY <1>4, <1>5
  <2>5. Len(Values(new, "server")) >= n
    BY <1>1, <2>2
  <2> QED
    BY <2>3, <2>4, <2>5
<1>10. ASSUME NEW i \in 1 .. n
       PROVE  IsBlock(Values(new, "server")[i]) /\ KeptBlock(Values(new, "server")[i].v, f[i], i, value)
  <2>1. Values(new, "server")[i] = item
    BY <1>3, <1>6
  <2> QED
    BY <1>5, <1>8, <2>1, Zenon DEF IsBlock
<1> QED
  BY <1>4, <1>9, <1>10, Zenon DEF KeptServers

\* A block that is stored in the http block leaves the servers kept.
LEMMA StoredKept ==
    ASSUME NEW f, NEW n \in Nat, n # 0, NEW value, NEW U, NEW call \in Calls(U), KeptServers(call.config, f, n, value),
           CanStore(call), StoresLocations(call, value), NEW inner
    PROVE  KeptServers(Stored(call, Dict(inner)).config, f, n, value)
<1> DEFINE item == Dict(inner)
           new == Stored(call, item).config
<1>1. CASE call.args = <<>>
  <2> HIDE DEF item, new
  <2>1. new = AppendRepeated(call.config, call.key, item)
    BY <1>1, StoredUnnamed DEF new
  <2>2. KeptServers(new, f, n, value)
    BY <2>1, KeptAppended, Zenon
  <2> QED
    BY <2>2, Zenon DEF new, item
<1>2. CASE call.key # "server"
  <2> HIDE DEF item
  <2>1. SameAt(call.config, new, "server")
    BY <1>2, StoredIs, Zenon
  <2> HIDE DEF new
  <2>2. KeptServers(new, f, n, value)
    BY <2>1, KeptSame, Zenon
  <2> QED
    BY <2>2, Zenon DEF new, item
<1>3. CASE call.args # <<>> /\ call.key = "server"
  <2> DEFINE path == call.args[1]
             http == call.config
             existing == IF call.key \in DOMAIN call.config THEN call.config[call.key] ELSE Dict(Empty)
             config == IF call.args = <<>> THEN AppendRepeated(call.config, call.key, item)
                       ELSE With(call.config, call.key, Dict(With(existing.v, call.args[1], item)))
  <2>1. "server" \in DOMAIN http /\ http["server"].kind = "dict"
    BY <1>3, Zenon DEF KeptServers, CanStore
  <2>2. path = "location" => value = "location"
    BY <1>3, Zenon DEF StoresLocations
  <2>3. Stored(call, item) = [call EXCEPT !.config = config, !.key = ""]
    BY Zenon DEF Stored
  <2>4. config = With(http, "server", Dict(With(http["server"].v, path, item)))
    BY <1>3, <2>1, Zenon
  <2> HIDE DEF config
  <2>5. [call EXCEPT !.config = config, !.key = ""].config = config
    <3> DEFINE D == Dicts(U)
               A == Seq(Arguments)
    <3> HIDE DEF D, A
    <3>1. call \in [config : D, key : Arguments, args : A]
      BY Zenon DEF Calls, D, A
    <3> QED
      BY <3>1
  <2>6. new = config
    BY <2>3, <2>5, Zenon
  <2> HIDE DEF http, path, new
  <2>7. new = With(http, "server", Dict(With(http["server"].v, path, Dict(inner))))
    BY <2>4, <2>6, Zenon
  <2>8. KeptServers(http, f, n, value)
    BY Zenon DEF http
  <2>9. KeptServers(new, f, n, value)
    BY <2>1, <2>2, <2>7, <2>8, KeptNamed, Zenon
  <2> QED
    BY <2>9, Zenon DEF new, item
<1> QED
  BY <1>1, <1>2, <1>3

\* A call that reads on keeps the servers, if what it holds does,
LEMMA KeepTop ==
    ASSUME NEW f, NEW n, NEW value, NEW old, NEW new, NEW k \in Nat, k = Len(old), k > 0, Keeping(old, f, n, value),
           Len(new) = k, SameCalls(new, old, k - 1),
           k = 1 /\ HttpKept(old[1].config, f, n, value) => HttpKept(new[1].config, f, n, value),
           k = 2 /\ KeptServers(old[2].config, f, n, value) => KeptServers(new[2].config, f, n, value)
    PROVE  Keeping(new, f, n, value)
<1>1. /\ k >= 2 => 1 \in 1 .. k - 1
      /\ k >= 3 => 2 \in 1 .. k - 1
      /\ k >= 1
  OBVIOUS
<1>2. (k >= 2 => new[1] = old[1]) /\ (k >= 3 => new[2] = old[2])
  BY <1>1, Zenon DEF SameCalls
<1>3. CASE InKept(old, f, n, value)
  <2>1. k >= 2 /\ InHttp(new) /\ (k >= 3 => StoresLocations(new[2], value))
    BY <1>2, <1>3, Zenon DEF InKept, InHttp
  <2>2. KeptServers(old[2].config, f, n, value)
    BY <1>3, Zenon DEF InKept
  <2>3. k = 2 \/ k >= 3
    BY <2>1
  <2>4. KeptServers(new[2].config, f, n, value)
    BY <1>2, <2>2, <2>3, Zenon
  <2> QED
    BY <2>1, <2>4, Zenon DEF InKept, Keeping
<1>4. CASE HasKept(old, f, n, value)
  <2>1. HttpKept(old[1].config, f, n, value) /\ (k >= 2 => old[1].key # "http")
    BY <1>4, Zenon DEF HasKept
  <2>2. k = 1 \/ k >= 2
    OBVIOUS
  <2>3. HttpKept(new[1].config, f, n, value) /\ (k >= 2 => new[1].key # "http")
    BY <1>2, <2>1, <2>2, Zenon
  <2> QED
    BY <1>1, <2>3, Zenon DEF HasKept, Keeping
<1> QED
  BY <1>3, <1>4, Zenon DEF Keeping

\* one more keeps them, if it is not for their http block nor their locations,
LEMMA KeepOpened ==
    ASSUME NEW f, NEW n, NEW value, NEW old, NEW new, NEW k \in Nat, k = Len(old), k > 0, Keeping(old, f, n, value),
           Len(new) = k + 1, SameCalls(new, old, k),
           k = 1 => old[1].key # "http",
           k = 2 => StoresLocations(old[2], value)
    PROVE  Keeping(new, f, n, value)
<1>1. /\ k >= 2 => 2 \in 1 .. k
      /\ 1 \in 1 .. k /\ k + 1 >= 1
      /\ k >= 2 => k + 1 >= 2
  OBVIOUS
<1>2. new[1] = old[1] /\ (k >= 2 => new[2] = old[2])
  BY <1>1, Zenon DEF SameCalls
<1>3. CASE InKept(old, f, n, value)
  <2>1. k >= 2 /\ InHttp(new) /\ KeptServers(new[2].config, f, n, value) /\ (k >= 3 => StoresLocations(new[2], value))
    BY <1>2, <1>3, Zenon DEF InKept, InHttp
  <2>2. k = 2 \/ k >= 3
    BY <2>1
  <2>3. StoresLocations(new[2], value)
    BY <1>2, <2>1, <2>2, Zenon
  <2> QED
    BY <1>1, <2>1, <2>3, Zenon DEF InKept, Keeping
<1>4. CASE HasKept(old, f, n, value)
  <2>1. HttpKept(new[1].config, f, n, value) /\ (k >= 2 => new[1].key # "http")
    BY <1>2, <1>4, Zenon DEF HasKept
  <2>2. k = 1 \/ k >= 2
    OBVIOUS
  <2>3. new[1].key # "http"
    BY <1>2, <2>1, <2>2, Zenon
  <2> QED
    BY <1>1, <2>1, <2>3, Zenon DEF HasKept, Keeping
<1> QED
  BY <1>3, <1>4, Zenon DEF Keeping

\* and so does the one that stores a block.
LEMMA KeepClosed ==
    ASSUME NEW f, NEW n \in Nat, n # 0, NEW value, NEW U, NEW old \in Seq(Calls(U)), NEW k \in Nat, k = Len(old), k > 1,
           Keeping(old, f, n, value), CanStore(old[k - 1]),
           NEW new, Len(new) = k - 1, SameCalls(new, old, k - 2),
           new[k - 1] = Stored(old[k - 1], Dict(old[k].config))
    PROVE  Keeping(new, f, n, value)
<1>1. /\ k >= 3 => 1 \in 1 .. k - 2
      /\ k >= 4 => 2 \in 1 .. k - 2
      /\ k >= 3 => k - 1 >= 2
      /\ k >= 4 => k - 1 >= 3
      /\ k - 1 >= 1
      /\ k = 2 \/ k = 3 \/ k >= 4
      /\ k = 2 => k - 1 = 1
      /\ k = 3 => k - 1 = 2
      /\ k >= 4 => k >= 3
      /\ k - 1 \in 1 .. k
  OBVIOUS
<1>2. (k >= 3 => new[1] = old[1]) /\ (k >= 4 => new[2] = old[2])
  BY <1>1, Zenon DEF SameCalls
<1> DEFINE inner == old[k].config
<1>3. old[k - 1] \in Calls(U)
  <2> DEFINE C == Calls(U)
  <2> HIDE DEF C
  <2>1. old \in Seq(C)
    BY DEF C
  <2>2. old[k - 1] \in C
    BY <1>1, <2>1
  <2> QED
    BY <2>2 DEF C
<1> HIDE DEF inner
<1>4. new[k - 1] = Stored(old[k - 1], Dict(inner))
  BY Zenon DEF inner
<1>5. CASE InKept(old, f, n, value)
  <2>1. /\ InHttp(old) /\ KeptServers(old[2].config, f, n, value)
        /\ k >= 3 => StoresLocations(old[2], value)
    BY <1>5, Zenon DEF InKept
  <2>2. CASE k = 2
    <3>1. new[1] = Stored(old[1], Dict(inner)) /\ old[1] \in Calls(U) /\ inner = old[2].config
      BY <1>1, <1>3, <1>4, <2>2, Zenon DEF inner
    <3>2. old[1].key = "http" /\ old[1].args = <<>> /\ old[1].config = Empty
      BY <2>1, Zenon DEF InHttp
    <3> DEFINE call == old[1]
               config == Stored(call, Dict(inner)).config
    <3>3. "http" \in DOMAIN config /\ IsBlock(config["http"]) /\ config["http"].v = inner
      <4> HIDE DEF call
      <4>1. call \in Calls(U) /\ call.key = "http" /\ call.args = <<>> /\ call.config = Empty
        BY <3>1, <3>2 DEF call
      <4>2. "http" \in DOMAIN config
        BY <4>1, HttpStored
      <4>3. IsBlock(config["http"])
        BY <4>1, HttpStored
      <4>4. config["http"].v = inner
        BY <4>1, HttpStored
      <4> QED
        BY <4>2, <4>3, <4>4
    <3>6. new[1].config = config
      BY <3>1, Zenon
    <3> HIDE DEF config
    <3>4. HttpKept(new[1].config, f, n, value)
      BY <2>1, <3>1, <3>3, <3>6, Zenon DEF HttpKept
    <3>5. Len(new) >= 1 /\ ~(Len(new) >= 2)
      BY <2>2
    <3> QED
      BY <3>4, <3>5, Zenon DEF HasKept, Keeping
  <2>3. CASE k = 3
    <3>1. new[2] = Stored(old[2], Dict(inner)) /\ old[2] \in Calls(U) /\ CanStore(old[2])
      BY <1>1, <1>3, <1>4, <2>3, Zenon
    <3>2. StoresLocations(old[2], value)
      BY <2>1, <2>3
    <3>3. KeptServers(new[2].config, f, n, value)
      BY <2>1, <3>1, <3>2, StoredKept, Zenon
    <3>4. Len(new) >= 2 /\ ~(Len(new) >= 3) /\ new[1] = old[1]
      BY <1>2, <2>3
    <3>5. InHttp(new)
      BY <2>1, <3>4, Zenon DEF InHttp
    <3> QED
      BY <3>3, <3>4, <3>5, Zenon DEF InKept, Keeping
  <2>4. CASE k >= 4
    <3>1. new[1] = old[1] /\ new[2] = old[2] /\ Len(new) >= 2 /\ Len(new) >= 3 /\ k >= 3
      BY <1>1, <1>2, <2>4
    <3>2. InHttp(new) /\ KeptServers(new[2].config, f, n, value) /\ StoresLocations(new[2], value)
      BY <2>1, <3>1, Zenon DEF InHttp
    <3> QED
      BY <3>1, <3>2, Zenon DEF InKept, Keeping
  <2> QED
    BY <1>1, <2>2, <2>3, <2>4
<1>6. CASE HasKept(old, f, n, value)
  <2>1. HttpKept(old[1].config, f, n, value) /\ old[1].key # "http"
    <3>1. k >= 2
      OBVIOUS
    <3> QED
      BY <1>6, <3>1, Zenon DEF HasKept
  <2>2. CASE k = 2
    <3>1. new[1] = Stored(old[1], Dict(inner)) /\ old[1] \in Calls(U)
      BY <1>1, <1>3, <1>4, <2>2, Zenon
    <3> DEFINE item == Dict(inner)
    <3> HIDE DEF item
    <3>2. SameAt(old[1].config, Stored(old[1], item).config, "http")
      BY <2>1, <3>1, StoredIs, Zenon
    <3>3. SameAt(old[1].config, new[1].config, "http")
      BY <3>1, <3>2, Zenon DEF item
    <3>4. HttpKept(new[1].config, f, n, value)
      BY <2>1, <3>3, Zenon DEF HttpKept, SameAt
    <3>5. Len(new) >= 1 /\ ~(Len(new) >= 2)
      BY <2>2
    <3> QED
      BY <3>4, <3>5, Zenon DEF HasKept, Keeping
  <2>3. CASE k >= 3
    <3>1. new[1] = old[1] /\ Len(new) >= 1
      BY <1>1, <1>2, <2>3
    <3> QED
      BY <2>1, <3>1, Zenon DEF HasKept, Keeping
  <2>4. k = 2 \/ k >= 3
    OBVIOUS
  <2> QED
    BY <2>2, <2>3, <2>4
<1> QED
  BY <1>5, <1>6, Zenon DEF Keeping

-----------------------------------------------------------------------------
(* What is left of a file, behind a lexeme too many: the parser may be in    *)
(* other blocks than the file is.                                            *)

\* What is left where so many blocks of the file are open, and what comes next there.
Inside(f, all, d) ==
    \/ d = 0 /\ all = <<>>
    \/ d = 1 /\ \E i \in 0 .. Len(f) : all = ServersLeft(f, i)
    \/ d = 2 /\ \E i \in 0 .. Len(f) : IsServer(f, i) /\ \E j \in 0 .. Len(f[i + 1]) : all = DirectivesOf(f, i, j)
    \/ d = 3 /\ \E i \in 0 .. Len(f) : \E j \in 0 .. Len(f[i + 1]) :
           /\ IsDirective(f, i, j) /\ IsLocation(f[i + 1][j + 1])
           /\ \E m \in 0 .. Len(f[i + 1][j + 1].roots) : all = RootsOf(f, i, j, m)
Follows(f, d, words, x, rest) ==
    \/ x = LBrace /\ d = 1 /\ words = <<"server">> /\ Inside(f, rest, 2)
    \/ x = LBrace /\ d = 2 /\ (\E p \in Words : words = <<"location", p>>) /\ Inside(f, rest, 3)
    \/ x = Semicolon /\ d \in {2, 3} /\ Inside(f, rest, d)
    \/ x = RBrace /\ d \in {1, 2, 3} /\ words = <<>> /\ Inside(f, rest, d - 1)
IsFollowed(f, all, d) ==
    \E words \in Seq(Words) : \E x \in Marks : \E rest \in Seq(Tokens) :
        all = Ahead(words, x, rest) /\ Follows(f, d, words, x, rest)

\* Where the parser is in a file, all but one of its calls are for blocks of it.
LEMMA PlaceInside ==
    ASSUME NEW f, NEW stack, NEW all, Place(stack, f, all), NEW k \in Nat, Len(stack) = k, k >= 2
    PROVE  Inside(f, all, k - 1)
<1>1. ~AtFile(stack) /\ ~AtEnd(stack, f)
  BY DEF AtFile, AtEnd
<1>2. CASE \E i \in 0 .. Len(f) : AtServer(stack, f, i) /\ all = ServersLeft(f, i)
  <2>1. k - 1 = 1
    BY <1>2 DEF AtServer
  <2> QED
    BY <1>2, <2>1, Zenon DEF Inside
<1>3. CASE \E i \in 0 .. Len(f) : IsServer(f, i) /\ \E j \in 0 .. Len(f[i + 1]) :
               AtDirective(stack, f, i, j) /\ all = DirectivesOf(f, i, j)
  <2>1. k = 3
    BY <1>3, Zenon DEF AtDirective
  <2>2. k - 1 = 2
    BY <2>1
  <2> QED
    BY <1>3, <2>2, Zenon DEF Inside
<1>4. CASE \E i \in 0 .. Len(f) : \E j \in 0 .. Len(f[i + 1]) :
               /\ IsDirective(f, i, j) /\ IsLocation(f[i + 1][j + 1])
               /\ \E m \in 0 .. Len(f[i + 1][j + 1].roots) :
                      AtRoot(stack, f, i, j, m) /\ all = RootsOf(f, i, j, m)
  <2>1. k = 4
    BY <1>4, Zenon DEF AtRoot
  <2>2. k - 1 = 3
    BY <2>1
  <2> QED
    BY <1>4, <2>2, Zenon DEF Inside
<1> QED
  BY <1>1, <1>2, <1>3, <1>4, Zenon DEF Place

\* Inside a block of the file something comes next.
LEMMA InsideIs ==
    ASSUME NEW f \in Seq(Seq(Directives)), NEW all, NEW d, Inside(f, all, d)
    PROVE  \/ d = 0 /\ all = <<>>
           \/ IsFollowed(f, all, d)
<1>0. /\ LBrace \in Marks /\ RBrace \in Marks /\ Semicolon \in Marks /\ <<>> \in Seq(Words) /\ <<>> \in Seq(Tokens)
      /\ 1 - 1 = 0 /\ 2 - 1 = 1 /\ 3 - 1 = 2
      /\ 1 \in {1, 2, 3} /\ 2 \in {1, 2, 3} /\ 3 \in {1, 2, 3} /\ 2 \in {2, 3} /\ 3 \in {2, 3}
  BY DEF Marks
<1>1. ASSUME NEW i \in 0 .. Len(f), d = 1, all = ServersLeft(f, i)
      PROVE  IsFollowed(f, all, d)
  <2>1. CASE i = Len(f)
    <3>1. all = Ahead(<<>>, RBrace, <<>>)
      BY <1>1, <2>1, ServersAhead, Zenon
    <3>2. Follows(f, d, <<>>, RBrace, <<>>)
      BY <1>0, <1>1, Zenon DEF Follows, Inside
    <3> QED
      BY <1>0, <3>1, <3>2, Zenon DEF IsFollowed
  <2>2. CASE i < Len(f)
    <3> DEFINE w == <<"server">>
               rest == DirectivesOf(f, i, 0)
    <3>1. w \in Seq(Words)
      BY FewWordsAre, Assumed, Zenon
    <3>2. IsServer(f, i)
      BY <2>2, Zenon DEF IsServer
    <3>3. all = Ahead(w, LBrace, rest)
      BY <1>1, <2>2, ServersAhead, Zenon DEF DirectivesOf
    <3>4. 0 \in 0 .. Len(f[i + 1])
      <4>1. Len(f[i + 1]) \in Nat
        BY <3>2, FileParts, Zenon
      <4> QED
        BY <4>1
    <3>5. rest \in Seq(Tokens)
      BY <3>2, <3>4, PartsLeft, Zenon
    <3>6. Inside(f, rest, 2)
      BY <3>2, <3>4, Zenon DEF Inside
    <3>7. Follows(f, d, w, LBrace, rest)
      BY <1>1, <3>6, Zenon DEF Follows
    <3> QED
      BY <1>0, <3>1, <3>3, <3>5, <3>7, Zenon DEF IsFollowed
  <2>3. i = Len(f) \/ i < Len(f)
    <3>1. Len(f) \in Nat
      BY FileParts, Zenon
    <3> QED
      BY <3>1
  <2> QED
    BY <2>1, <2>2, <2>3
<1>2. ASSUME NEW i \in 0 .. Len(f), IsServer(f, i), NEW j \in 0 .. Len(f[i + 1]), d = 2, all = DirectivesOf(f, i, j)
      PROVE  IsFollowed(f, all, d)
  <2> DEFINE ds == f[i + 1]
             after == ServersLeft(f, i + 1)
  <2>1. ds \in Seq(Directives) /\ after \in Seq(Tokens) /\ i + 1 \in 0 .. Len(f)
    BY <1>2, FileParts, PartsLeft, Zenon
  <2>2. CASE j = Len(ds)
    <3>1. all = Ahead(<<>>, RBrace, after)
      BY <1>2, <2>1, <2>2, DirectivesAhead, Zenon DEF DirectivesOf
    <3>2. Inside(f, after, 1)
      BY <2>1, Zenon DEF Inside
    <3>3. Follows(f, d, <<>>, RBrace, after)
      BY <1>0, <1>2, <3>2, Zenon DEF Follows
    <3> QED
      BY <1>0, <2>1, <3>1, <3>3, Zenon DEF IsFollowed
  <2>3. CASE j < Len(ds)
    <3> DEFINE x == ds[j + 1]
               more == DirectivesOf(f, i, j + 1)
    <3>1. IsDirective(f, i, j)
      BY <1>2, <2>3, Zenon DEF IsDirective
    <3>2. more \in Seq(Tokens) /\ Inside(f, more, 2)
      <4>1. j + 1 \in 0 .. Len(f[i + 1])
        BY <3>1, FileParts, Zenon
      <4> QED
        BY <1>2, <4>1, PartsLeft, Zenon DEF Inside
    <3>3. /\ IsLocation(x) => all = Ahead(<<"location", x.path>>, LBrace, RootsOf(f, i, j, 0))
          /\ ~IsLocation(x) => all = Ahead(Worded(x.name, x.args), Semicolon, more)
      BY <1>2, <2>1, <2>3, DirectivesAhead, Zenon DEF DirectivesOf, RootsOf, Worded
    <3>4. CASE IsLocation(x)
      <4> DEFINE w == <<"location", x.path>>
                 rest == RootsOf(f, i, j, 0)
      <4>1. x.path \in Words /\ Len(x.roots) \in Nat
        BY <3>1, <3>4, FileParts, Zenon
      <4>2. w \in Seq(Words)
        BY <4>1, FewWordsAre, Assumed, Zenon
      <4>3. 0 \in 0 .. Len(x.roots)
        BY <4>1
      <4>4. rest \in Seq(Tokens) /\ Inside(f, rest, 3)
        BY <3>1, <3>4, <4>3, PartsLeft, Zenon DEF Inside
      <4>5. Follows(f, d, w, LBrace, rest)
        BY <1>2, <4>1, <4>4, Zenon DEF Follows
      <4> QED
        BY <1>0, <3>3, <3>4, <4>2, <4>4, <4>5, Zenon DEF IsFollowed
    <3>5. CASE ~IsLocation(x)
      <4> DEFINE w == Worded(x.name, x.args)
      <4>1. x.name \in Words /\ x.args \in Seq(Words)
        <5>1. \A list : list \in Lists => list \in Seq(Words)
          BY DEF Lists
        <5> QED
          BY <3>1, <3>5, <5>1, FileParts, Zenon
      <4>2. w \in Seq(Words)
        BY <4>1, FewWordsAre, Zenon
      <4>3. Follows(f, d, w, Semicolon, more)
        BY <1>0, <1>2, <3>2, Zenon DEF Follows
      <4> QED
        BY <1>0, <3>2, <3>3, <3>5, <4>2, <4>3, Zenon DEF IsFollowed
    <3> QED
      BY <3>4, <3>5
  <2>4. j = Len(ds) \/ j < Len(ds)
    <3>1. Len(ds) \in Nat
      BY <1>2, FileParts, Zenon
    <3> QED
      BY <3>1
  <2> QED
    BY <2>2, <2>3, <2>4
<1>3. ASSUME NEW i \in 0 .. Len(f), NEW j \in 0 .. Len(f[i + 1]), IsDirective(f, i, j),
             IsLocation(f[i + 1][j + 1]), NEW m \in 0 .. Len(f[i + 1][j + 1].roots),
             d = 3, all = RootsOf(f, i, j, m)
      PROVE  IsFollowed(f, all, d)
  <2> DEFINE roots == f[i + 1][j + 1].roots
             more == DirectivesOf(f, i, j + 1)
  <2>1. roots \in Seq(Words) /\ Len(roots) \in Nat /\ more \in Seq(Tokens) /\ Inside(f, more, 2)
    <3>1. IsServer(f, i) /\ j + 1 \in 0 .. Len(f[i + 1])
      BY <1>3, FileParts, Zenon
    <3>2. Inside(f, more, 2)
      BY <3>1, Zenon DEF Inside
    <3> QED
      BY <1>3, <3>1, <3>2, FileParts, PartsLeft, Zenon
  <2>2. CASE m = Len(roots)
    <3>1. all = Ahead(<<>>, RBrace, more)
      BY <1>3, <2>1, <2>2, RootsAhead, Zenon DEF RootsOf
    <3>2. Follows(f, d, <<>>, RBrace, more)
      BY <1>0, <1>3, <2>1, Zenon DEF Follows
    <3> QED
      BY <1>0, <2>1, <3>1, <3>2, Zenon DEF IsFollowed
  <2>3. CASE m < Len(roots)
    <3> DEFINE w == <<"root", roots[m + 1]>>
               rest == RootsOf(f, i, j, m + 1)
    <3>1. roots[m + 1] \in Words /\ all = Ahead(w, Semicolon, rest)
      BY <1>3, <2>1, <2>3, RootsAhead, Zenon DEF RootsOf
    <3>2. w \in Seq(Words)
      BY <3>1, FewWordsAre, Assumed, Zenon
    <3>3. m + 1 \in 0 .. Len(roots)
      BY <2>1, <2>3, SMTT(30)
    <3>4. rest \in Seq(Tokens) /\ Inside(f, rest, 3)
      BY <1>3, <3>3, PartsLeft, Zenon DEF Inside
    <3>5. Follows(f, d, w, Semicolon, rest)
      BY <1>0, <1>3, <3>4, Zenon DEF Follows
    <3> QED
      BY <1>0, <3>1, <3>2, <3>4, <3>5, Zenon DEF IsFollowed
  <2>4. m = Len(roots) \/ m < Len(roots)
    BY <2>1
  <2> QED
    BY <2>2, <2>3, <2>4
<1>4. CASE d = 1 /\ \E i \in 0 .. Len(f) : all = ServersLeft(f, i)
  BY <1>1, <1>4
<1>5. CASE d = 2 /\ \E i \in 0 .. Len(f) : IsServer(f, i) /\ \E j \in 0 .. Len(f[i + 1]) : all = DirectivesOf(f, i, j)
  BY <1>2, <1>5
<1>6. CASE d = 3 /\ \E i \in 0 .. Len(f) : \E j \in 0 .. Len(f[i + 1]) :
           /\ IsDirective(f, i, j) /\ IsLocation(f[i + 1][j + 1])
           /\ \E m \in 0 .. Len(f[i + 1][j + 1].roots) : all = RootsOf(f, i, j, m)
  BY <1>3, <1>6
<1>7. CASE d = 0 /\ all = <<>>
  BY <1>7
<1> QED
  BY <1>4, <1>5, <1>6, <1>7, Zenon DEF Inside

\* The next token is a word, or the mark that the words lead to.
LEMMA InsideRead ==
    ASSUME NEW f \in Seq(Seq(Directives)), NEW d, NEW words \in Seq(Words), NEW t \in Tokens, NEW more \in Seq(Tokens),
           Inside(f, Join(WordTokens(words), Join(<<t>>, more)), d)
    PROVE  /\ t.kind = "WORD" => /\ t.value \in Words /\ Append(words, t.value) \in Seq(Words)
                                 /\ Inside(f, Join(WordTokens(Append(words, t.value)), more), d)
           /\ t.kind # "WORD" => Follows(f, d, words, t, more) /\ t \in Marks
<1> DEFINE all == Join(WordTokens(words), Join(<<t>>, more))
<1>1. CASE t.kind # "WORD"
  <2>1. all = Ahead(words, t, more)
    BY Zenon DEF Ahead
  <2>2. all # <<>>
    <3>1. Spells(Ahead(words, t, more), Len(words), words, t, more)
      BY AheadIs, Zenon
    <3> DEFINE s == Ahead(words, t, more)
               n == Len(words)
    <3> HIDE DEF s, n
    <3>2. Len(s) = n + 1 + Len(more) /\ n \in Nat /\ Len(more) \in Nat
      BY <3>1, Zenon DEF Spells, s, n
    <3>3. s # <<>>
      BY <3>2
    <3> QED
      BY <2>1, <3>3, Zenon DEF s
  <2>3. IsFollowed(f, all, d)
    BY <2>2, InsideIs, Zenon
  <2>4. PICK w \in Seq(Words), x \in Marks, rest \in Seq(Tokens) :
            all = Ahead(w, x, rest) /\ Follows(f, d, w, x, rest)
    BY <2>3, Zenon DEF IsFollowed
  <2>5. x \in Tokens /\ x.kind # "WORD"
    BY MarksAre
  <2> HIDE DEF all
  <2>6. Ahead(words, t, more) = Ahead(w, x, rest)
    BY <2>1, <2>4
  <2>7. words = w /\ t = x /\ more = rest
    BY <1>1, <2>5, <2>6, AheadIsUnique
  <2> QED
    BY <1>1, <2>4, <2>7
<1>2. CASE t.kind = "WORD"
  <2>1. t.value \in Words /\ t = Word(t.value)
    <3>1. t \in Lexemes
      BY LexemeIs, Zenon
    <3>2. t \in [kind : {"WORD"}, value : Words]
      <4>1. CASE t \in {LBrace, RBrace, Semicolon}
        BY <1>2, <4>1, MarksAre
      <4>2. CASE t \in [kind : {"STRING"}, value : Arguments]
        BY <1>2, <4>2
      <4>3. CASE t \in [kind : {"COMMENT", "WHITESPACE", "OTHER"}, value : STRING]
        BY <1>2, <4>3
      <4> QED
        BY <3>1, <4>1, <4>2, <4>3, Zenon DEF Lexemes
    <3>3. t = [kind |-> "WORD", value |-> t.value] /\ t.value \in Words
      BY <3>2
    <3> QED
      BY <3>3, Zenon DEF Word, Lexeme
  <2>2. Append(words, t.value) \in Seq(Words)
    <3> DEFINE v == t.value
    <3> HIDE DEF v
    <3>1. v \in Words
      BY <2>1 DEF v
    <3>2. Append(words, v) \in Seq(Words)
      BY <3>1
    <3> QED
      BY <3>2 DEF v
  <2>3. all = Join(WordTokens(Append(words, t.value)), more)
    <3> DEFINE v == t.value
    <3> HIDE DEF v
    <3>1. v \in Words /\ t = Word(v)
      BY <2>1 DEF v
    <3>2. Join(WordTokens(words), Join(<<Word(v)>>, more)) = Join(WordTokens(Append(words, v)), more)
      BY <3>1, ReadOn
    <3> QED
      BY <3>1, <3>2, Zenon DEF v
  <2> HIDE DEF all
  <2>4. Inside(f, all, d)
    BY DEF all
  <2>5. Inside(f, Join(WordTokens(Append(words, t.value)), more), d)
    BY <2>3, <2>4, Zenon
  <2> QED
    BY <1>2, <2>1, <2>2, <2>5
<1> QED
  BY <1>1, <1>2

-----------------------------------------------------------------------------
(* What each step of the parser does to its calls, wherever it is.           *)

Advances == pos' = After /\ tokens' = tokens /\ result' = Pending /\ calls' # <<>>

\* A name is taken,
LEMMA NameTaken ==
    ASSUME Nested, ReadName, NEW k, k = Len(calls)
    PROVE  /\ Advances /\ Top.key = "" /\ Kind = "WORD"
           /\ Len(calls') = k /\ SameCalls(calls', calls, k - 1)
           /\ calls'[k].config = Top.config /\ calls'[k].key = Value /\ calls'[k].args = <<>>
<1> DEFINE call == [Top EXCEPT !.key = Value, !.args = <<>>]
<1>1. /\ Top.key = "" /\ Kind = "WORD" /\ calls' = Replace(call) /\ pos' = After
      /\ tokens' = tokens /\ result' = result /\ calls # <<>> /\ result = Pending
  BY DEF ReadName, ReadingName, Parsing
<1>2. call.config = Top.config /\ call.key = Value /\ call.args = <<>>
  <2>1. PICK U : Top \in Calls(U)
    BY <1>1, TopIs, Zenon
  <2> DEFINE D == Dicts(U)
             A == Seq(Arguments)
  <2> HIDE DEF D, A
  <2>2. Top \in [config : D, key : Arguments, args : A]
    BY <2>1, Zenon DEF Calls, D, A
  <2> QED
    BY <2>2
<1> HIDE DEF call
<1>3. Len(Replace(call)) = k /\ SameCalls(Replace(call), calls, k - 1) /\ Replace(call)[k] = call
  BY <1>1, ReplacedIs, Zenon
<1>4. calls' # <<>>
  BY <1>1, ReadNameNested, CallsGoOn
<1> QED
  BY <1>1, <1>2, <1>3, <1>4, Zenon DEF Advances

\* an argument is taken,
LEMMA ArgumentTaken ==
    ASSUME Nested, ReadArgument, NEW k, k = Len(calls)
    PROVE  /\ Advances /\ Top.key # "" /\ Kind \in {"WORD", "STRING"}
           /\ Len(calls') = k /\ SameCalls(calls', calls, k - 1)
           /\ calls'[k].config = Top.config /\ calls'[k].key = Top.key /\ calls'[k].args = Append(Top.args, Value)
<1> DEFINE call == [Top EXCEPT !.args = Append(@, Value)]
<1>1. /\ Top.key # "" /\ Kind \in {"WORD", "STRING"} /\ calls' = Replace(call) /\ pos' = After
      /\ tokens' = tokens /\ result' = result /\ calls # <<>> /\ result = Pending
  BY DEF ReadArgument, ReadingArgs, Parsing
<1>2. call.config = Top.config /\ call.key = Top.key /\ call.args = Append(Top.args, Value)
  <2>1. PICK U : Top \in Calls(U)
    BY <1>1, TopIs, Zenon
  <2> DEFINE D == Dicts(U)
             A == Seq(Arguments)
  <2> HIDE DEF D, A
  <2>2. Top \in [config : D, key : Arguments, args : A]
    BY <2>1, Zenon DEF Calls, D, A
  <2> QED
    BY <2>2
<1> HIDE DEF call
<1>3. Len(Replace(call)) = k /\ SameCalls(Replace(call), calls, k - 1) /\ Replace(call)[k] = call
  BY <1>1, ReplacedIs, Zenon
<1>4. calls' # <<>>
  BY <1>1, ReadArgumentNested, CallsGoOn
<1> QED
  BY <1>1, <1>2, <1>3, <1>4, Zenon DEF Advances

\* a directive is stored,
LEMMA DirectiveTaken ==
    ASSUME Nested, EndDirective, NEW k, k = Len(calls)
    PROVE  /\ Advances /\ Top.key # "" /\ Kind = "SEMICOLON"
           /\ Len(calls') = k /\ SameCalls(calls', calls, k - 1)
           /\ calls'[k].config = AppendRepeated(Top.config, Top.key, Args(Top.args)) /\ calls'[k].key = ""
<1> DEFINE config == AppendRepeated(Top.config, Top.key, Args(Top.args))
           call == [Top EXCEPT !.config = config, !.key = ""]
<1>1. /\ Top.key # "" /\ Kind = "SEMICOLON" /\ calls' = Replace(call) /\ pos' = After
      /\ tokens' = tokens /\ result' = result /\ calls # <<>> /\ result = Pending
  BY DEF EndDirective, EndsDirective, ReadingArgs, Parsing
<1>2. call.config = config /\ call.key = ""
  <2>1. PICK U : Top \in Calls(U)
    BY <1>1, TopIs, Zenon
  <2> DEFINE D == Dicts(U)
             A == Seq(Arguments)
  <2> HIDE DEF D, A, config
  <2>2. Top \in [config : D, key : Arguments, args : A]
    BY <2>1, Zenon DEF Calls, D, A
  <2> QED
    BY <2>2
<1> HIDE DEF call
<1>3. Len(Replace(call)) = k /\ SameCalls(Replace(call), calls, k - 1) /\ Replace(call)[k] = call
  BY <1>1, ReplacedIs, Zenon
<1>4. calls' # <<>>
  BY <1>1, EndDirectiveNested, CallsGoOn
<1> QED
  BY <1>1, <1>2, <1>3, <1>4, Zenon DEF Advances

\* a block is entered,
LEMMA BlockEntered ==
    ASSUME Nested, OpenBlock, NEW k, k = Len(calls)
    PROVE  /\ Advances /\ Top.key # "" /\ Kind = "LBRACE"
           /\ Len(calls') = k + 1 /\ SameCalls(calls', calls, k) /\ calls'[k + 1].key = ""
<1>1. /\ Top.key # "" /\ Kind = "LBRACE" /\ calls' = Append(calls, Call) /\ pos' = After
      /\ tokens' = tokens /\ result' = result /\ calls # <<>> /\ result = Pending
  BY DEF OpenBlock, ReadingArgs, Parsing
<1>2. Call.key = ""
  BY DEF Call
<1>3. Len(Append(calls, Call)) = k + 1 /\ SameCalls(Append(calls, Call), calls, k) /\ Append(calls, Call)[k + 1] = Call
  BY <1>1, OpenedIs, Zenon
<1>4. calls' # <<>>
  <2>1. Nested' /\ Len(calls') = Len(calls) + 1
    BY OpenBlockNested
  <2> QED
    BY <1>1, <2>1, CallsGoOn
<1> QED
  BY <1>1, <1>2, <1>3, <1>4, Zenon DEF Advances

\* or left, if it can be stored.
LEMMA BlockLeft ==
    ASSUME Nested, CloseBlock, result' # Refused, NEW k \in Nat, k = Len(calls)
    PROVE  /\ Advances /\ Top.key = "" /\ Kind \in {"RBRACE", "END"} /\ k > 1
           /\ CanStore(calls[k - 1]) /\ Len(calls') = k - 1 /\ SameCalls(calls', calls, k - 2)
           /\ calls'[k - 1] = Stored(calls[k - 1], Dict(calls[k].config)) /\ calls'[k - 1].key = ""
<1> DEFINE outer == calls[k - 1]
           call == Stored(outer, Dict(Top.config))
           new == SubSeq(calls, 1, k - 2) \o <<call>>
<1>1. /\ k > 1 /\ CanStore(outer) /\ Top.key = "" /\ Kind \in {"RBRACE", "END"} /\ calls' = new /\ pos' = After
      /\ tokens' = tokens /\ result' = result /\ calls # <<>> /\ result = Pending
  BY DEF CloseBlock, Closes, ReadingName, Parsing, Refuse
<1>2. Top = calls[k]
  BY <1>1, TopIs, Zenon
<1>3. Len(new) = k - 1 /\ SameCalls(new, calls, k - 2) /\ new[k - 1] = call
  <2> HIDE DEF call
  <2> QED
    BY <1>1, ClosedIs, Zenon
<1>4. call.key = ""
  <2> DEFINE nested == Dict(Top.config)
  <2>1. PICK U : calls \in Seq(Calls(U))
    BY DEF Nested, ValuesAreRaw
  <2>2. outer \in Calls(U)
    <3> DEFINE C == Calls(U)
    <3> HIDE DEF C
    <3>1. calls \in Seq(C) /\ Len(calls) > 1
      BY <1>1, <2>1 DEF C
    <3>2. outer \in C
      BY <3>1
    <3> QED
      BY <3>2 DEF C
  <2> HIDE DEF nested, outer
  <2>3. Stored(outer, nested).key = ""
    BY <2>2, StoredIs, Zenon
  <2> QED
    BY <2>3 DEF nested
<1>5. calls' # <<>>
  <2>1. Len(calls') = k - 1 /\ k > 1
    BY <1>1, <1>3, Zenon
  <2>2. Len(calls') # 0
    BY <2>1
  <2>3. Len(<<>>) = 0
    OBVIOUS
  <2> QED
    BY <2>2, <2>3, Zenon
<1> HIDE DEF new, call
<1>6. calls'[k - 1] = Stored(calls[k - 1], Dict(calls[k].config))
  BY <1>1, <1>2, <1>3, Zenon DEF call
<1> QED
  BY <1>1, <1>3, <1>4, <1>5, <1>6, Zenon DEF Advances

\* What keeps the servers: another block of the same name is not stored over them.
Spares(value) ==
    /\ OpenBlock /\ Len(calls) = 1 => Top.key # "http"
    /\ OpenBlock /\ Len(calls) = 2 => StoresLocations(Top, value)
    /\ EndDirective /\ Len(calls) = 1 => Top.key # "http"

\* The parser returns from the outermost call.
Returns == result' = Pending /\ tokens' = tokens /\ calls' = <<>>

\* A step that keeps the place of all that was stored keeps the servers.
LEMMA KeepStep ==
    ASSUME Nested, result = Pending, calls # <<>>, Next, NEW f, NEW n \in Nat, n # 0, NEW value,
           Keeping(calls, f, n, value), Spares(value)
    PROVE  \/ result' = Refused
           \/ Advances /\ Keeping(calls', f, n, value)
           \/ Returns /\ HttpKept(raw', f, n, value)
<1> DEFINE k == Len(calls)
           aim == \/ result' = Refused
                  \/ Advances /\ Keeping(calls', f, n, value)
                  \/ Returns /\ HttpKept(raw', f, n, value)
<1> SUFFICES aim
  OBVIOUS
<1>1. k \in Nat /\ k > 0 /\ Top = calls[k]
  BY TopIs
<1> HIDE DEF k
<1>2. Len(calls) = k
  BY DEF k
<1>3. ASSUME Len(calls') = k, SameCalls(calls', calls, k - 1), calls'[k].config = Top.config, Advances
      PROVE  aim
  <2>1. k = 1 /\ HttpKept(calls[1].config, f, n, value) => HttpKept(calls'[1].config, f, n, value)
    BY <1>1, <1>3, Zenon
  <2>2. k = 2 /\ KeptServers(calls[2].config, f, n, value) => KeptServers(calls'[2].config, f, n, value)
    BY <1>1, <1>3, Zenon
  <2>3. Keeping(calls', f, n, value)
    BY <1>1, <1>2, <1>3, <2>1, <2>2, KeepTop, Zenon
  <2> QED
    BY <1>3, <2>3, Zenon
<1>4. CASE ReadName
  BY <1>2, <1>3, <1>4, NameTaken, Zenon
<1>5. CASE ReadArgument
  BY <1>2, <1>3, <1>5, ArgumentTaken, Zenon
<1>6. CASE EndDirective
  <2> DEFINE item == Args(Top.args)
  <2>1. /\ Advances /\ Len(calls') = k /\ SameCalls(calls', calls, k - 1)
        /\ calls'[k].config = AppendRepeated(Top.config, Top.key, item)
    BY <1>2, <1>6, DirectiveTaken, Zenon
  <2> HIDE DEF item
  <2>2. k = 1 /\ HttpKept(calls[1].config, f, n, value) => HttpKept(calls'[1].config, f, n, value)
    <3> DEFINE config == Top.config
               new == AppendRepeated(Top.config, Top.key, item)
    <3> SUFFICES ASSUME k = 1, HttpKept(config, f, n, value) PROVE HttpKept(new, f, n, value)
      BY <1>1, <2>1, Zenon
    <3>1. Top.key # "http"
      BY <1>2, <1>6, Zenon DEF Spares
    <3>2. SameAt(config, new, "http")
      <4>1. "http" # Top.key
        BY <3>1
      <4>2. \A name : name # Top.key => SameAt(config, new, name)
        BY AppendRepeatedIs, Zenon
      <4> QED
        BY <4>1, <4>2, Zenon
    <3> HIDE DEF config, new
    <3> QED
      BY <3>2, Zenon DEF HttpKept, SameAt
  <2>3. k = 2 /\ KeptServers(calls[2].config, f, n, value) => KeptServers(calls'[2].config, f, n, value)
    BY <1>1, <2>1, KeptAppended, Zenon
  <2>4. Keeping(calls', f, n, value)
    BY <1>1, <1>2, <2>1, <2>2, <2>3, KeepTop, Zenon
  <2> QED
    BY <2>1, <2>4, Zenon
<1>7. CASE OpenBlock
  <2>1. Advances /\ Len(calls') = k + 1 /\ SameCalls(calls', calls, k)
    BY <1>2, <1>7, BlockEntered, Zenon
  <2>2. k = 1 => calls[1].key # "http"
    BY <1>1, <1>2, <1>7, Zenon DEF Spares
  <2>3. k = 2 => StoresLocations(calls[2], value)
    BY <1>1, <1>2, <1>7, Zenon DEF Spares
  <2>4. Keeping(calls', f, n, value)
    BY <1>1, <1>2, <2>1, <2>2, <2>3, KeepOpened, Zenon
  <2> QED
    BY <2>1, <2>4, Zenon
<1>8. CASE CloseBlock /\ result' # Refused
  <2>1. /\ Advances /\ k > 1 /\ CanStore(calls[k - 1]) /\ Len(calls') = k - 1 /\ SameCalls(calls', calls, k - 2)
        /\ calls'[k - 1] = Stored(calls[k - 1], Dict(calls[k].config))
    BY <1>1, <1>2, <1>8, BlockLeft, Zenon
  <2>2. PICK U : calls \in Seq(Calls(U))
    BY Zenon DEF Nested, ValuesAreRaw
  <2>3. Keeping(calls', f, n, value)
    BY <1>1, <1>2, <2>1, <2>2, KeepClosed, Zenon
  <2> QED
    BY <2>1, <2>3, Zenon
<1>9. CASE FinishParse
  <2>1. /\ k = 1 /\ raw' = Top.config /\ Returns
    BY <1>2, <1>9 DEF FinishParse, Returns
  <2>2. ~InKept(calls, f, n, value)
    BY <1>2, <2>1 DEF InKept
  <2>3. HttpKept(raw', f, n, value)
    BY <1>1, <2>1, <2>2, Zenon DEF Keeping, HasKept
  <2> QED
    BY <2>1, <2>3, Zenon
<1>10. SyntaxError => result' = Refused
  BY DEF SyntaxError, Refuse
<1>11. ~Convert
  BY DEF Convert
<1> QED
  BY <1>4, <1>5, <1>6, <1>7, <1>8, <1>9, <1>10, <1>11, Zenon DEF Next

\* How many calls there are for so many open blocks of the file, behind the lexeme x.
Depth(x, d) == IF x = LBrace THEN d + 2 ELSE IF x = RBrace THEN d ELSE d + 1

\* The arguments of the innermost call are words of the file, or the lexeme's.
Known(call, words, x) ==
    /\ call.key # "" =>
           \A i \in DOMAIN call.args : call.args[i] = x.value \/ \E j \in DOMAIN words : call.args[i] = words[j]
    /\ x = RBrace => Read(call) = words

\* Where the parser is behind the lexeme: it reads what the file has left.
Reads(stack, f, left, x) ==
    \E d \in 0 .. 3 : \E words \in Seq(Words) :
        /\ Inside(f, Join(WordTokens(words), left), d)
        /\ Len(stack) = Depth(x, d) /\ Known(stack[Len(stack)], words, x)

\* No words are words.
LEMMA NoneAre == <<>> \in Seq(Words) /\ DOMAIN <<>> = {}
OBVIOUS

\* It reads behind a mark of the file.
LEMMA ReadsBehindMark ==
    ASSUME NEW f, NEW stack, NEW more \in Seq(Tokens), NEW x, NEW d \in 0 .. 3, Inside(f, more, d),
           Len(stack) = Depth(x, d), stack[Len(stack)].key = ""
    PROVE  Reads(stack, f, more, x)
<1> DEFINE none == <<>>
<1>1. none \in Seq(Words) /\ Join(WordTokens(none), more) = more
  <2>1. Join(<<>>, more) = more
    BY JoinEmpty
  <2>2. WordTokens(<<>>) = <<>>
    BY ReadIs, Zenon
  <2> QED
    BY <2>1, <2>2, NoneAre, Zenon
<1>2. Known(stack[Len(stack)], none, x)
  BY ReadIs, Zenon DEF Known
<1> HIDE DEF none
<1>3. Inside(f, Join(WordTokens(none), more), d)
  BY <1>1, Zenon
<1> QED
  BY <1>1, <1>2, <1>3, Zenon DEF Reads

\* One more block of the file is open, or one less.
LEMMA DepthIs ==
    ASSUME NEW x, NEW d \in 0 .. 3
    PROVE  /\ Depth(x, d) \in Nat
           /\ Depth(x, d + 1) = Depth(x, d) + 1 /\ Depth(x, d - 1) = Depth(x, d) - 1
           /\ d > 0 => d - 1 \in 0 .. 3
           /\ d < 3 => d + 1 \in 0 .. 3
BY DEF Depth

\* A sequence with one element more.
Longer(more, s, v) ==
    /\ \A i \in DOMAIN s : i \in DOMAIN more /\ more[i] = s[i]
    /\ \E i \in DOMAIN more : more[i] = v
    /\ \A i \in DOMAIN more : i \in DOMAIN s \/ more[i] = v

\* One that is appended makes it that.
LEMMA AppendedIs ==
    ASSUME NEW S, NEW s \in Seq(S), NEW v \in S
    PROVE  Longer(Append(s, v), s, v)
<1> DEFINE more == Append(s, v)
           n == Len(s)
<1>1. n \in Nat /\ DOMAIN s = 1 .. n
  OBVIOUS
<1>2. more \in Seq(S) /\ Len(more) = n + 1 /\ (\A i \in 1 .. n : more[i] = s[i]) /\ more[n + 1] = v
  BY OneMoreIs, OneMoreIsLast
<1> HIDE DEF n, more
<1>3. DOMAIN more = 1 .. n + 1
  BY <1>2
<1>4. Longer(more, s, v)
  <2>1. n + 1 \in DOMAIN more
    BY <1>1, <1>3
  <2>2. \A i \in DOMAIN s : i \in DOMAIN more
    BY <1>1, <1>3
  <2>3. \A i \in DOMAIN more : i \in DOMAIN s \/ i = n + 1
    BY <1>1, <1>3
  <2> QED
    BY <1>1, <1>2, <2>1, <2>2, <2>3, Zenon DEF Longer
<1> QED
  BY <1>4, Zenon DEF more

\* Words that are read on, and the arguments among them.
LEMMA WordsGoOn ==
    /\ \A s \in Seq(Words) : \A v \in Words : Longer(Append(s, v), s, v)
    /\ \A s \in Seq(Arguments) : \A v \in Arguments :
           /\ Longer(Append(s, v), s, v)
           /\ \A w \in Arguments : Worded(w, Append(s, v)) = Append(Worded(w, s), v)
<1>1. ASSUME NEW s \in Seq(Words), NEW v \in Words PROVE Longer(Append(s, v), s, v)
  BY AppendedIs
<1>2. ASSUME NEW s \in Seq(Arguments), NEW v \in Arguments PROVE Longer(Append(s, v), s, v)
  BY AppendedIs
<1>3. ASSUME NEW s \in Seq(Arguments), NEW v \in Arguments, NEW w \in Arguments
      PROVE  Worded(w, Append(s, v)) = Append(Worded(w, s), v)
  BY WordedOn
<1> QED
  BY <1>1, <1>2, <1>3

\* What is known of the words when one more is read.
LEMMA KnownOn ==
    ASSUME NEW call, NEW new, NEW words \in Seq(Words), NEW x, NEW v \in Words, Known(call, words, x),
           call.key \in Arguments, call.args \in Seq(Arguments),
           \/ call.key = "" /\ new.key = v /\ new.args = <<>>
           \/ call.key # "" /\ new.key = call.key /\ new.args = Append(call.args, v)
    PROVE  Known(new, Append(words, v), x)
<1> DEFINE more == Append(words, v)
<1>1. /\ \A i \in DOMAIN words : i \in DOMAIN more /\ more[i] = words[i]
      /\ \E j \in DOMAIN more : more[j] = v
  BY WordsGoOn, Zenon DEF Longer
<1> HIDE DEF more
<1>2. v # "" /\ v \in Arguments
  BY Assumed DEF Arguments
<1>3. CASE call.key = ""
  <2>1. new.key = v /\ new.args = <<>>
    BY <1>3
  <2>2. ASSUME x = RBrace PROVE Read(new) = more
    <3>1. words = <<>>
      BY <1>3, <2>2, ReadIs, Zenon DEF Known
    <3>2. Read(new) = Worded(v, <<>>)
      BY <1>2, <2>1, ReadIs, Zenon
    <3>3. Worded(v, <<>>) = Append(<<>>, v)
      BY ReadIs, Zenon
    <3> QED
      BY <3>1, <3>2, <3>3, Zenon DEF more
  <2>3. DOMAIN new.args = {}
    BY <2>1, NoneAre, Zenon
  <2> QED
    BY <2>2, <2>3, Zenon DEF Known, more
<1>4. CASE call.key # ""
  <2> DEFINE args == call.args
             longer == Append(args, v)
  <2>1. new.key = call.key /\ new.args = longer
    BY <1>4
  <2>2. \A i \in DOMAIN longer : \/ i \in DOMAIN args /\ longer[i] = args[i]
                                 \/ longer[i] = v
    <3>1. Longer(longer, args, v)
      BY <1>2, WordsGoOn, Zenon
    <3> HIDE DEF longer
    <3> QED
      BY <3>1, Zenon DEF Longer
  <2>3. ASSUME x = RBrace PROVE Read(new) = more
    <3>1. words = Worded(call.key, args)
      BY <1>4, <2>3, ReadIs, Zenon DEF Known
    <3>2. Read(new) = Worded(call.key, longer)
      BY <1>4, <2>1, ReadIs, Zenon
    <3>3. Worded(call.key, longer) = Append(Worded(call.key, args), v)
      <4> DEFINE key == call.key
      <4> HIDE DEF key, args
      <4>1. key \in Arguments /\ args \in Seq(Arguments)
        BY DEF key, args
      <4>2. Worded(key, Append(args, v)) = Append(Worded(key, args), v)
        BY <1>2, <4>1, WordsGoOn, Zenon
      <4> QED
        BY <4>2, Zenon DEF key
    <3> QED
      BY <3>1, <3>2, <3>3, Zenon DEF more
  <2> HIDE DEF longer
  <2>4. ASSUME NEW i \in DOMAIN longer
        PROVE  longer[i] = x.value \/ \E j \in DOMAIN more : longer[i] = more[j]
    <3>1. CASE longer[i] = v
      BY <1>1, <3>1, Zenon
    <3>2. CASE i \in DOMAIN args /\ longer[i] = args[i]
      <4>1. args[i] = x.value \/ \E j \in DOMAIN words : args[i] = words[j]
        BY <1>4, <3>2, Zenon DEF Known
      <4> QED
        BY <1>1, <3>2, <4>1, Zenon
    <3> QED
      BY <2>2, <3>1, <3>2
  <2> QED
    BY <2>1, <2>3, <2>4, Zenon DEF Known, more
<1> QED
  BY <1>3, <1>4

\* The mark that follows, by its kind.
LEMMA FollowsIs ==
    ASSUME NEW f, NEW d \in 0 .. 3, NEW words \in Seq(Words), NEW t, NEW more, Follows(f, d, words, t, more)
    PROVE  /\ t.kind \in {"LBRACE", "RBRACE", "SEMICOLON"}
           /\ t.kind = "LBRACE" => /\ Inside(f, more, d + 1) /\ d > 0 /\ d < 3
                                   /\ \/ d = 1 /\ words = <<"server">>
                                      \/ d = 2 /\ \E p \in Words : words = <<"location", p>>
           /\ t.kind = "RBRACE" => Inside(f, more, d - 1) /\ d > 0 /\ words = <<>>
           /\ t.kind = "SEMICOLON" => Inside(f, more, d) /\ d > 1
<1>1. /\ LBrace.kind = "LBRACE" /\ RBrace.kind = "RBRACE" /\ Semicolon.kind = "SEMICOLON"
  BY MarksAre
<1>2. CASE t = LBrace /\ d = 1 /\ words = <<"server">> /\ Inside(f, more, 2)
  BY <1>1, <1>2
<1>3. CASE t = LBrace /\ d = 2 /\ (\E p \in Words : words = <<"location", p>>) /\ Inside(f, more, 3)
  BY <1>1, <1>3
<1>4. CASE t = Semicolon /\ d \in {2, 3} /\ Inside(f, more, d)
  BY <1>1, <1>4
<1>5. CASE t = RBrace /\ d \in {1, 2, 3} /\ words = <<>> /\ Inside(f, more, d - 1)
  BY <1>1, <1>5
<1> QED
  BY <1>2, <1>3, <1>4, <1>5, Zenon DEF Follows

\* The name of a call is the first of the words it has read.
LEMMA NameIsFirst ==
    ASSUME NEW key \in Arguments, NEW args \in Seq(Arguments)
    PROVE  /\ Worded(key, args) = <<"server">> => key = "server"
           /\ \A p : Worded(key, args) = <<"location", p>> => key = "location"
<1> DEFINE words == <<key>> \o args
<1>1. words[1] = key
  OBVIOUS
<1> HIDE DEF words
<1>2. words = <<"server">> => key = "server"
  BY <1>1
<1>3. \A p : words = <<"location", p>> => key = "location"
  BY <1>1
<1> QED
  BY <1>2, <1>3, Zenon DEF Worded, words

\* Behind the lexeme too, no block of the name of another that was stored is stored over it.
LEMMA ReadsSpares ==
    ASSUME NEW f \in Seq(Seq(Directives)), Nested, calls # <<>>, pos <= Len(tokens),
           NEW t \in Tokens, t = tokens[pos], NEW more \in Seq(Tokens), NEW x, Reads(calls, f, Join(<<t>>, more), x)
    PROVE  Spares(x.value)
<1> DEFINE k == Len(calls)
<1>1. k \in Nat /\ Top = calls[k] /\ Top.key \in Arguments /\ Top.args \in Seq(Arguments)
  BY TopIs
<1> HIDE DEF k
<1>2. Kind = t.kind
  BY DEF Kind
<1>3. PICK d \in 0 .. 3, words \in Seq(Words) :
          /\ Inside(f, Join(WordTokens(words), Join(<<t>>, more)), d)
          /\ k = Depth(x, d) /\ Known(Top, words, x)
  BY <1>1, Zenon DEF Reads, k
<1>4. t.kind # "WORD" => Follows(f, d, words, t, more)
  BY <1>3, InsideRead, Zenon
<1> DEFINE one == words = <<"server">>
           two == \E p \in Words : words = <<"location", p>>
           named == Top.key # ""
<1>5. ASSUME OpenBlock
      PROVE  named /\ ((d = 1 /\ one) \/ (d = 2 /\ two)) /\ (x = RBrace => Worded(Top.key, Top.args) = words)
  <2>1. Kind = "LBRACE" /\ named
    BY <1>5 DEF OpenBlock, ReadingArgs
  <2>2. t.kind # "WORD"
    BY <1>2, <2>1
  <2>3. (d = 1 /\ one) \/ (d = 2 /\ two)
    <3>1. Follows(f, d, words, t, more)
      BY <1>4, <2>2, Zenon
    <3>2. t.kind = "LBRACE"
      BY <1>2, <2>1
    <3>3. t.kind = "LBRACE" => (d = 1 /\ words = <<"server">>) \/ (d = 2 /\ \E p \in Words : words = <<"location", p>>)
      BY <3>1, FollowsIs
    <3> QED
      BY <3>2, <3>3, Zenon
  <2>4. x = RBrace => Worded(Top.key, Top.args) = words
    BY <1>3, <2>1, ReadIs, Zenon DEF Known
  <2> QED
    BY <2>1, <2>3, <2>4, Zenon
<1> HIDE DEF one, two, named
<1>6. x = RBrace \/ x = LBrace \/ k = d + 1
  BY <1>3 DEF Depth
<1>7. x = RBrace => k = d
  BY <1>3, MarksAre DEF Depth
<1>8. x = LBrace => k = d + 2
  BY <1>3 DEF Depth
<1>9. OpenBlock /\ k = 1 => Top.key # "http"
  <2> SUFFICES ASSUME OpenBlock, k = 1 PROVE Top.key # "http"
    OBVIOUS
  <2>1. (d = 1 /\ one) \/ (d = 2 /\ two)
    BY <1>5, Zenon
  <2>2. x = RBrace /\ one
    BY <1>6, <1>7, <1>8, <2>1
  <2>3. Worded(Top.key, Top.args) = <<"server">>
    BY <1>5, <2>2, Zenon DEF one
  <2>4. Top.key = "server"
    BY <1>1, <2>3, NameIsFirst, Zenon
  <2> QED
    BY <2>4
<1>10. OpenBlock /\ k = 2 => StoresLocations(Top, x.value)
  <2> SUFFICES ASSUME OpenBlock, k = 2 PROVE StoresLocations(Top, x.value)
    OBVIOUS
  <2>0. named /\ ((d = 1 /\ one) \/ (d = 2 /\ two))
    BY <1>5, Zenon
  <2>1. CASE x = RBrace
    <3>1. two
      BY <1>7, <2>0, <2>1
    <3>2. PICK p \in Words : words = <<"location", p>>
      BY <3>1, Zenon DEF two
    <3>3. Worded(Top.key, Top.args) = <<"location", p>>
      BY <1>5, <2>1, <3>2, Zenon
    <3>4. Top.key = "location"
      BY <1>1, <3>3, NameIsFirst, Zenon
    <3> QED
      BY <3>4 DEF StoresLocations
  <2>2. CASE x # RBrace
    <3>1. one
      BY <1>6, <1>8, <2>0, <2>2
    <3>2. \A j \in DOMAIN words : words[j] # "location"
      <4>1. words = <<"server">>
        BY <3>1, Zenon DEF one
      <4> QED
        BY <4>1
    <3> SUFFICES ASSUME Top.args # <<>>, Top.args[1] = "location" PROVE x.value = "location"
      BY Zenon DEF StoresLocations
    <3>3. 1 \in DOMAIN Top.args
      BY <1>1
    <3>4. Top.key # ""
      BY <2>0, Zenon DEF named
    <3>5. Top.args[1] = x.value \/ \E j \in DOMAIN words : Top.args[1] = words[j]
      BY <1>3, <3>3, <3>4, Zenon DEF Known
    <3> QED
      BY <3>2, <3>5, Zenon
  <2> QED
    BY <2>1, <2>2
<1>11. ~(EndDirective /\ k = 1)
  <2> SUFFICES ASSUME EndDirective, k = 1 PROVE FALSE
    OBVIOUS
  <2>1. Kind = "SEMICOLON"
    BY DEF EndDirective, EndsDirective
  <2>2. t.kind # "WORD"
    BY <1>2, <2>1
  <2>3. d > 1
    <3>1. Follows(f, d, words, t, more)
      BY <1>4, <2>2, Zenon
    <3> QED
      BY <1>2, <2>1, <3>1, FollowsIs, Zenon
  <2> QED
    BY <1>6, <1>7, <1>8, <2>3
<1> QED
  BY <1>9, <1>10, <1>11, Zenon DEF Spares, k

\* Behind the lexeme the parser goes on in what the file has left, token by token.
LEMMA ReadsGoOn ==
    ASSUME NEW f \in Seq(Seq(Directives)), Nested, result = Pending, calls # <<>>, Next, pos <= Len(tokens),
           NEW t \in Tokens, t = tokens[pos], NEW more \in Seq(Tokens), NEW x, Reads(calls, f, Join(<<t>>, more), x)
    PROVE  \/ result' = Refused
           \/ Advances /\ Reads(calls', f, more, x)
           \/ Returns
<1> DEFINE k == Len(calls)
           aim == \/ result' = Refused
                  \/ Advances /\ Reads(calls', f, more, x)
                  \/ Returns
<1> SUFFICES aim
  OBVIOUS
<1>1. k \in Nat /\ Top = calls[k] /\ Top.key \in Arguments /\ Top.args \in Seq(Arguments)
  BY TopIs
<1> HIDE DEF k
<1>2. Kind = t.kind /\ Value = t.value /\ k = Len(calls)
  BY DEF Kind, Value, k
<1>3. PICK d \in 0 .. 3, words \in Seq(Words) :
          /\ Inside(f, Join(WordTokens(words), Join(<<t>>, more)), d)
          /\ k = Depth(x, d) /\ Known(Top, words, x)
  BY <1>1, Zenon DEF Reads, k
<1>4. t.kind # "WORD" => Follows(f, d, words, t, more)
  BY <1>3, InsideRead, Zenon
<1>5. t.kind = "WORD" => /\ t.value \in Words /\ Append(words, t.value) \in Seq(Words)
                         /\ Inside(f, Join(WordTokens(Append(words, t.value)), more), d)
  BY <1>3, InsideRead, Zenon
<1>6. t.kind # "WORD" => t.kind \in {"LBRACE", "RBRACE", "SEMICOLON"}
  BY <1>4, FollowsIs, Zenon
<1>7. ASSUME Advances, Len(calls') = k, t.kind = "WORD", Known(calls'[k], Append(words, t.value), x)
      PROVE  aim
  BY <1>3, <1>5, <1>7, Zenon DEF Reads
<1>8. ASSUME Advances, NEW e \in 0 .. 3, Inside(f, more, e), Len(calls') = Depth(x, e), calls'[Depth(x, e)].key = ""
      PROVE  aim
  BY <1>8, ReadsBehindMark, Zenon
<1>9. CASE ReadName
  <2>1. /\ Advances /\ Top.key = "" /\ Kind = "WORD" /\ Len(calls') = k
        /\ calls'[k].key = Value /\ calls'[k].args = <<>>
    BY <1>2, <1>9, NameTaken, Zenon
  <2>2. Known(calls'[k], Append(words, t.value), x)
    BY <1>1, <1>2, <1>3, <1>5, <2>1, KnownOn, Zenon
  <2> QED
    BY <1>2, <1>7, <2>1, <2>2, Zenon
<1>10. CASE ReadArgument
  <2>1. /\ Advances /\ Top.key # "" /\ Kind \in {"WORD", "STRING"} /\ Len(calls') = k
        /\ calls'[k].key = Top.key /\ calls'[k].args = Append(Top.args, Value)
    BY <1>2, <1>10, ArgumentTaken, Zenon
  <2>2. t.kind = "WORD"
    BY <1>2, <1>6, <2>1
  <2>3. Known(calls'[k], Append(words, t.value), x)
    BY <1>1, <1>2, <1>3, <1>5, <2>1, <2>2, KnownOn, Zenon
  <2> QED
    BY <1>2, <1>7, <2>1, <2>2, <2>3, Zenon
<1>11. CASE EndDirective
  <2>1. Advances /\ Kind = "SEMICOLON" /\ Len(calls') = k /\ calls'[k].key = ""
    BY <1>2, <1>11, DirectiveTaken, Zenon
  <2>2. t.kind = "SEMICOLON" /\ t.kind # "WORD"
    BY <1>2, <2>1
  <2>3. Inside(f, more, d)
    BY <1>4, <2>2, FollowsIs, Zenon
  <2> QED
    BY <1>3, <1>8, <2>1, <2>3, Zenon
<1>12. CASE OpenBlock
  <2>1. Advances /\ Kind = "LBRACE" /\ Len(calls') = k + 1 /\ calls'[k + 1].key = ""
    BY <1>2, <1>12, BlockEntered, Zenon
  <2>2. t.kind = "LBRACE" /\ t.kind # "WORD"
    BY <1>2, <2>1
  <2>3. Inside(f, more, d + 1) /\ d < 3
    BY <1>4, <2>2, FollowsIs, Zenon
  <2>4. Depth(x, d + 1) = k + 1 /\ d + 1 \in 0 .. 3
    <3>1. Depth(x, d + 1) = Depth(x, d) + 1 /\ d + 1 \in 0 .. 3
      BY <2>3, DepthIs
    <3> QED
      BY <1>3, <3>1, Zenon
  <2> QED
    BY <1>8, <2>1, <2>3, <2>4, Zenon
<1>13. CASE CloseBlock /\ result' # Refused
  <2>1. Advances /\ Kind \in {"RBRACE", "END"} /\ Len(calls') = k - 1 /\ calls'[k - 1].key = ""
    BY <1>1, <1>2, <1>13, BlockLeft, Zenon
  <2>2. t.kind = "RBRACE" /\ t.kind # "WORD"
    BY <1>2, <1>6, <2>1, MarksAre
  <2>3. Inside(f, more, d - 1) /\ d > 0
    BY <1>4, <2>2, FollowsIs, Zenon
  <2>4. Depth(x, d - 1) = k - 1 /\ d - 1 \in 0 .. 3
    <3>1. Depth(x, d - 1) = Depth(x, d) - 1 /\ d - 1 \in 0 .. 3
      BY <2>3, DepthIs
    <3> QED
      BY <1>3, <3>1, Zenon
  <2> QED
    BY <1>8, <2>1, <2>3, <2>4, Zenon
<1>14. FinishParse => Returns
  BY DEF FinishParse, Returns
<1>15. SyntaxError => result' = Refused
  BY DEF SyntaxError, Refuse
<1>16. ~Convert
  BY DEF Convert
<1> QED
  BY <1>9, <1>10, <1>11, <1>12, <1>13, <1>14, <1>15, <1>16, Zenon DEF Next

\* A token of the kind of a brace is that brace.
LEMMA BracesByKind ==
    /\ \A x \in Tokens : x.kind = "LBRACE" => x = LBrace
    /\ \A x \in Tokens : x.kind = "RBRACE" => x = RBrace
    /\ LBrace.kind = "LBRACE" /\ RBrace.kind = "RBRACE" /\ LBrace # RBrace
<1>1. ASSUME NEW x \in Lexemes
      PROVE  /\ x.kind = "LBRACE" => x = LBrace
             /\ x.kind = "RBRACE" => x = RBrace
  <2>1. CASE x \in {LBrace, RBrace, Semicolon}
    BY <2>1, MarksAre
  <2>2. CASE x \in [kind : {"WORD"}, value : Words]
    BY <2>2
  <2>3. CASE x \in [kind : {"STRING"}, value : Arguments]
    BY <2>3
  <2>4. CASE x \in [kind : {"COMMENT", "WHITESPACE", "OTHER"}, value : STRING]
    BY <2>4
  <2> QED
    BY <2>1, <2>2, <2>3, <2>4, Zenon DEF Lexemes
<1>2. LBrace.kind = "LBRACE" /\ RBrace.kind = "RBRACE" /\ LBrace # RBrace
  BY DEF LBrace, RBrace, Lexeme
<1>3. \A x \in Tokens : x \in Lexemes
  BY LexemeIs, Zenon
<1>4. \A x \in Tokens : x.kind = "LBRACE" => x = LBrace
  BY <1>1, <1>3, Zenon
<1>5. \A x \in Tokens : x.kind = "RBRACE" => x = RBrace
  BY <1>1, <1>3, Zenon
<1> QED
  BY <1>2, <1>4, <1>5, Zenon

\* The words that lead to a mark are not fewer than those read before it.
LEMMA WordsLeadOn ==
    ASSUME NEW v \in Seq(Words), NEW left \in Seq(Tokens), NEW w \in Seq(Words), NEW m \in Marks,
           NEW rest \in Seq(Tokens), Join(WordTokens(v), left) = Ahead(w, m, rest)
    PROVE  Len(v) <= Len(w)
<1> DEFINE all == Ahead(w, m, rest)
           a == WordTokens(v)
           n == Len(w)
           k == Len(v)
<1>1. m \in Tokens /\ m.kind # "WORD"
  BY MarksAre
<1>2. Spells(all, n, w, m, rest)
  BY <1>1, AheadIs, Zenon
<1>3. a \in Seq(Tokens) /\ Len(a) = k /\ k \in Nat /\ \A i \in 1 .. k : a[i] = Word(v[i])
  BY WordTokensAre
<1> HIDE DEF a
<1>4. \A i \in 1 .. Len(a) + Len(left) : Join(a, left)[i] = IF i <= Len(a) THEN a[i] ELSE left[i - Len(a)]
  BY <1>3, JoinIs
<1>5. all = Join(a, left)
  BY Zenon DEF a
<1> HIDE DEF all, n, k
<1>6. n \in Nat /\ all[n + 1] = m
  BY <1>2, Zenon DEF Spells
<1> SUFFICES ASSUME n < k PROVE FALSE
  BY <1>3, <1>6 DEF n, k
<1>7. n + 1 \in 1 .. k /\ n + 1 \in 1 .. Len(a) + Len(left) /\ n + 1 <= Len(a)
  <2>1. Len(left) \in Nat
    OBVIOUS
  <2> QED
    BY <1>3, <1>6, <2>1
<1>8. all[n + 1] = a[n + 1] /\ a[n + 1] = Word(v[n + 1])
  BY <1>3, <1>4, <1>5, <1>7
<1>9. \A w1 : Word(w1).kind = "WORD"
  BY MarksAre, Zenon
<1>10. m.kind = "WORD"
  BY <1>6, <1>8, <1>9, Zenon
<1> QED
  BY <1>1, <1>10, Zenon

\* Between two servers of a file no more than the name of the next has been read.
LEMMA NamedBetween ==
    ASSUME NEW f \in Seq(Seq(Directives)), NEW words \in Seq(Words), NEW left \in Seq(Tokens), left # <<>>,
           Inside(f, Join(WordTokens(words), left), 1)
    PROVE  Len(words) <= 1
<1> DEFINE all == Join(WordTokens(words), left)
<1>1. IsFollowed(f, all, 1)
  BY InsideIs
<1>2. PICK w \in Seq(Words), m \in Marks, rest \in Seq(Tokens) :
          all = Ahead(w, m, rest) /\ Follows(f, 1, w, m, rest)
  BY <1>1, Zenon DEF IsFollowed
<1>3. w = <<>> \/ w = <<"server">>
  BY <1>2 DEF Follows
<1>4. Len(w) <= 1
  <2>1. Len(<<>>) <= 1 /\ \A name : Len(<<name>>) <= 1
    OBVIOUS
  <2> QED
    BY <1>3, <2>1, Zenon
<1>5. Len(words) <= Len(w)
  BY <1>2, WordsLeadOn, Zenon
<1>6. Len(words) \in Nat /\ Len(w) \in Nat
  OBVIOUS
<1> QED
  BY <1>4, <1>5, <1>6

\* What the innermost call has read of a file is in it.
LEMMA ReadsFile ==
    ASSUME NEW f \in Seq(Seq(Directives)), Nested, calls # <<>>, NEW left \in Seq(Tokens), Exact(calls, f, left),
           NEW k \in Nat, k = Len(calls), k >= 2
    PROVE  /\ k - 1 \in 1 .. 3 /\ Read(Top) \in Seq(Words)
           /\ Inside(f, Join(WordTokens(Read(Top)), left), k - 1)
<1>1. Top = calls[k]
  BY TopIs
<1>2. WordsOnly(Top) /\ Place(calls, f, Join(WordTokens(Read(Top)), left))
  BY <1>1, Zenon DEF Exact
<1>3. Read(Top) \in Seq(Words)
  BY <1>2, ReadIs, Zenon
<1>4. Inside(f, Join(WordTokens(Read(Top)), left), k - 1)
  BY <1>2, PlaceInside, Zenon
<1>5. k - 1 \in {0, 1, 2, 3}
  BY <1>4, Zenon DEF Inside
<1> QED
  BY <1>3, <1>4, <1>5

\* The arguments of a call are among the words it has read.
LEMMA ArgumentsRead ==
    ASSUME NEW key \in Arguments, NEW args \in Seq(Arguments)
    PROVE  /\ Len(Worded(key, args)) = Len(args) + 1 /\ Len(args) \in Nat
           /\ \A i \in DOMAIN args : \E j \in DOMAIN Worded(key, args) : args[i] = Worded(key, args)[j]
<1> DEFINE words == <<key>> \o args
           n == Len(args)
<1>1. n \in Nat /\ DOMAIN args = 1 .. n
  OBVIOUS
<1>2. Len(words) = n + 1 /\ DOMAIN words = 1 .. n + 1 /\ \A i \in 1 .. n : words[i + 1] = args[i]
  OBVIOUS
<1> HIDE DEF words, n
<1>3. \A i \in DOMAIN args : i + 1 \in DOMAIN words
  BY <1>1, <1>2
<1>4. \A i \in DOMAIN args : \E j \in DOMAIN words : args[i] = words[j]
  BY <1>1, <1>2, <1>3, Zenon
<1> QED
  BY <1>1, <1>2, <1>4, Zenon DEF Worded, words, n

\* The lexeme itself does not store a block over another that was stored,
LEMMA ExtraSpares ==
    ASSUME NEW f \in Seq(Seq(Directives)), Nested, calls # <<>>, NEW left \in Seq(Tokens), left # <<>>,
           Exact(calls, f, left), NEW k \in Nat, k = Len(calls), k >= 2, NEW value
    PROVE  Spares(value)
<1> DEFINE words == Read(Top)
<1>1. k - 1 \in 1 .. 3 /\ words \in Seq(Words) /\ Inside(f, Join(WordTokens(words), left), k - 1)
  BY ReadsFile
<1>2. Top.key \in Arguments /\ Top.args \in Seq(Arguments)
  BY TopIs, Zenon
<1> SUFFICES ASSUME OpenBlock, k = 2 PROVE StoresLocations(Top, value)
  <2>1. k # 1
    OBVIOUS
  <2> QED
    BY <2>1, Zenon DEF Spares
<1>3. words = Worded(Top.key, Top.args)
  <2>1. Top.key # ""
    BY DEF OpenBlock, ReadingArgs
  <2> QED
    BY <2>1, ReadIs, Zenon
<1>4. Len(words) <= 1
  <2> HIDE DEF words
  <2>1. k - 1 = 1
    OBVIOUS
  <2> QED
    BY <1>1, <2>1, NamedBetween, Zenon
<1>5. Len(words) = Len(Top.args) + 1 /\ Len(Top.args) \in Nat
  BY <1>2, <1>3, ArgumentsRead, Zenon
<1>6. Top.args = <<>>
  <2> DEFINE args == Top.args
             n == Len(words)
  <2>1. args \in Seq(Arguments) /\ n <= 1 /\ n = Len(args) + 1 /\ Len(args) \in Nat
    BY <1>2, <1>4, <1>5
  <2> HIDE DEF args, n
  <2>2. args = <<>>
    BY <2>1
  <2> QED
    BY <2>2 DEF args
<1> QED
  BY <1>6, Zenon DEF StoresLocations

\* and behind it the parser reads what the file has left.
LEMMA ExtraReads ==
    ASSUME NEW f \in Seq(Seq(Directives)), Nested, result = Pending, calls # <<>>, Next, pos <= Len(tokens),
           NEW x \in Tokens, x = tokens[pos], NEW left \in Seq(Tokens), Exact(calls, f, left),
           NEW k \in Nat, k = Len(calls), k >= 2
    PROVE  \/ result' = Refused
           \/ Advances /\ Reads(calls', f, left, x)
           \/ Returns
<1> DEFINE words == Read(Top)
           aim == \/ result' = Refused
                  \/ Advances /\ Reads(calls', f, left, x)
                  \/ Returns
<1> SUFFICES aim
  OBVIOUS
<1>1. k - 1 \in 1 .. 3 /\ words \in Seq(Words) /\ Inside(f, Join(WordTokens(words), left), k - 1)
  BY ReadsFile
<1>2. Top.key \in Arguments /\ Top.args \in Seq(Arguments) /\ Top = calls[k]
  BY TopIs, Zenon
<1>3. Kind = x.kind /\ Value = x.value
  BY DEF Kind, Value
<1>4. Top.key # "" => words = Worded(Top.key, Top.args)
  BY ReadIs, Zenon
<1>5. Top.key = "" => words = <<>>
  BY ReadIs, Zenon
<1> HIDE DEF words
<1>6. ASSUME Advances, NEW n, Len(calls') = n, n = Depth(x, k - 1), Known(calls'[n], words, x)
      PROVE  aim
  <2>1. k - 1 \in 0 .. 3
    BY <1>1
  <2> QED
    BY <1>1, <1>6, <2>1, Zenon DEF Reads
<1>7. x.kind \notin {"LBRACE", "RBRACE"} => k = Depth(x, k - 1) /\ x # RBrace
  <2>1. LBrace.kind = "LBRACE" /\ RBrace.kind = "RBRACE"
    BY BracesByKind
  <2>2. x.kind \notin {"LBRACE", "RBRACE"} => x # LBrace /\ x # RBrace
    BY <2>1
  <2>3. x # LBrace /\ x # RBrace => k = Depth(x, k - 1)
    BY DEF Depth
  <2> QED
    BY <2>2, <2>3
<1>8. CASE ReadName
  <2>1. Advances /\ Kind = "WORD" /\ Len(calls') = k /\ calls'[k].args = <<>>
    BY <1>8, NameTaken, Zenon
  <2>2. k = Depth(x, k - 1) /\ x # RBrace
    BY <1>3, <1>7, <2>1
  <2>3. Known(calls'[k], words, x)
    BY <2>1, <2>2, NoneAre, Zenon DEF Known
  <2> QED
    BY <1>6, <2>1, <2>2, <2>3, Zenon
<1>9. CASE ReadArgument
  <2>1. /\ Advances /\ Top.key # "" /\ Kind \in {"WORD", "STRING"} /\ Len(calls') = k
        /\ calls'[k].args = Append(Top.args, x.value)
    BY <1>3, <1>9, ArgumentTaken, Zenon
  <2>2. k = Depth(x, k - 1) /\ x # RBrace
    BY <1>3, <1>7, <2>1
  <2>3. Known(calls'[k], words, x)
    <3> DEFINE args == Top.args
               longer == Append(args, x.value)
    <3>1. x.value \in Arguments
      <4>1. Typed
        BY DEF Nested
      <4> QED
        BY <1>3, <2>1, <4>1, TokenIs DEF Arguments
    <3>2. Longer(longer, args, x.value)
      BY <1>2, <3>1, WordsGoOn, Zenon
    <3>3. \A i \in DOMAIN args : \E j \in DOMAIN words : args[i] = words[j]
      <4>1. \A i \in DOMAIN args : \E j \in DOMAIN Worded(Top.key, args) : args[i] = Worded(Top.key, args)[j]
        BY <1>2, ArgumentsRead, ZenonT(40)
      <4>2. words = Worded(Top.key, args)
        BY <1>4, <2>1, Zenon
      <4> QED
        BY <4>1, <4>2
    <3> HIDE DEF longer, args
    <3>4. ASSUME NEW i \in DOMAIN longer
          PROVE  longer[i] = x.value \/ \E j \in DOMAIN words : longer[i] = words[j]
      <4>1. (i \in DOMAIN args /\ longer[i] = args[i]) \/ longer[i] = x.value
        BY <3>2, Zenon DEF Longer
      <4> QED
        BY <3>3, <4>1, Zenon
    <3>5. calls'[k].args = longer
      BY <2>1, Zenon DEF longer, args
    <3> QED
      BY <2>2, <3>4, <3>5, Zenon DEF Known
  <2> QED
    BY <1>6, <2>1, <2>2, <2>3, Zenon
<1>10. CASE EndDirective
  <2>1. Advances /\ Kind = "SEMICOLON" /\ Len(calls') = k /\ calls'[k].key = ""
    BY <1>10, DirectiveTaken, Zenon
  <2>2. k = Depth(x, k - 1) /\ x # RBrace
    BY <1>3, <1>7, <2>1
  <2>3. Known(calls'[k], words, x)
    BY <2>1, <2>2, Zenon DEF Known
  <2> QED
    BY <1>6, <2>1, <2>2, <2>3, Zenon
<1>11. CASE OpenBlock
  <2>1. Advances /\ Kind = "LBRACE" /\ Len(calls') = k + 1 /\ calls'[k + 1].key = ""
    BY <1>11, BlockEntered, Zenon
  <2>2. x = LBrace /\ x # RBrace
    BY <1>3, <2>1, BracesByKind
  <2>3. k + 1 = Depth(x, k - 1)
    BY <2>2 DEF Depth
  <2>4. Known(calls'[k + 1], words, x)
    BY <2>1, <2>2, Zenon DEF Known
  <2> QED
    BY <1>6, <2>1, <2>3, <2>4, Zenon
<1>12. CASE CloseBlock /\ result' # Refused
  <2>1. Advances /\ Top.key = "" /\ Kind \in {"RBRACE", "END"} /\ Len(calls') = k - 1 /\ calls'[k - 1].key = ""
    BY <1>12, BlockLeft, Zenon
  <2>2. x = RBrace /\ x # LBrace
    <3>1. Typed
      BY DEF Nested
    <3>2. Kind # "END"
      BY <3>1, TokenIs
    <3>3. x.kind = "RBRACE"
      BY <1>3, <2>1, <3>2
    <3> QED
      BY <3>3, BracesByKind
  <2>3. k - 1 = Depth(x, k - 1)
    BY <2>2 DEF Depth
  <2>4. Known(calls'[k - 1], words, x)
    <3>1. Read(calls'[k - 1]) = words
      BY <1>5, <2>1, ReadIs, Zenon
    <3> QED
      BY <2>1, <3>1, Zenon DEF Known
  <2> QED
    BY <1>6, <2>1, <2>3, <2>4, Zenon
<1>13. FinishParse => Returns
  BY DEF FinishParse, Returns
<1>14. SyntaxError => result' = Refused
  BY DEF SyntaxError, Refuse
<1>15. ~Convert
  BY DEF Convert
<1> QED
  BY <1>8, <1>9, <1>10, <1>11, <1>12, <1>13, <1>14, <1>15, Zenon DEF Next

-----------------------------------------------------------------------------
(* What is loaded of the servers that are kept.                              *)

\* A server is loaded as what it means, but for the locations of the first one.
LoadedKept(server, ds, i, value) ==
    \/ server = Meaning(ds)
    \/ i = 1 /\ value = "location" /\ SameButLocations(server, Meaning(ds))

\* Two dictionaries that have the same under it hold the same locations.
LEMMA SameLocations ==
    ASSUME NEW config, NEW other, SameAt(config, other, "location"), NEW ds, HoldsLocations(config, ds)
    PROVE  HoldsLocations(other, ds)
BY Zenon DEF SameAt, HoldsLocations

\* A server that is kept gives the same directives of a name that is no block.
LEMMA KeptGives ==
    ASSUME NEW block, NEW whole, NEW ds, Describes(whole, ds), NEW name, name # "location",
           SameAt(whole, block, name) \/ (name \in DOMAIN block /\ IsBlock(block[name])),
           NEW used, HasValues(block, name, used)
    PROVE  Gives(block, name, NamedArgs(ds, name)) /\ Gives(whole, name, NamedArgs(ds, name))
<1>1. Gives(whole, name, NamedArgs(ds, name))
  BY Zenon DEF Describes
<1>2. name \in DOMAIN block => ~IsBlock(block[name])
  BY Zenon DEF HasValues, IsBlock
<1>3. SameAt(whole, block, name)
  BY <1>2, Zenon
<1> QED
  BY <1>1, <1>3, SameGives, Zenon

\* A server that is kept is loaded as what it means, if it can be converted.
LEMMA KeptMeans ==
    ASSUME NEW block, NEW ds \in Seq(Directives), NEW i, NEW value, KeptBlock(block, ds, i, value), CanConvert(block)
    PROVE  LoadedKept(ConvertServer(block), ds, i, value)
<1>1. PICK whole : /\ Describes(whole, ds)
                   /\ \A name : \/ SameAt(whole, block, name)
                                \/ /\ i = 1 /\ name \in DOMAIN block /\ IsBlock(block[name])
                                   /\ name = "location" => value = "location"
  BY Zenon DEF KeptBlock
<1> DEFINE lists(name) == NamedArgs(ds, name)
<1>2. \A name : lists(name) \in Seq(Lists)
  BY NamedArgsType, Zenon
<1>3. ASSUME NEW name, NEW used, name # "location", HasValues(block, name, used)
      PROVE  Gives(block, name, lists(name)) /\ Gives(whole, name, lists(name))
  BY <1>1, <1>3, KeptGives, Zenon
<1>4. /\ HasValues(block, "listen", Nat)
      /\ \A name \in {"server_name", "ssl_certificate", "ssl_certificate_key"} : HasValues(block, name, {1})
      /\ FirstArg(block, "ssl_certificate", "") # "" => HasValues(block, "ssl_certificate_chain", Nat)
  BY Zenon DEF CanConvert
<1>5. ParseListen(block) = ParseListen(whole)
  <2> DEFINE listen == "listen"
  <2>1. listen # "location"
    OBVIOUS
  <2>2. Gives(block, listen, lists(listen)) /\ Gives(whole, listen, lists(listen))
    BY <1>3, <1>4, <2>1, Zenon
  <2> QED
    BY <1>2, <2>2, ListensGiven, Zenon
<1>6. \A name \in {"server_name", "ssl_certificate", "ssl_certificate_key"} :
          /\ Gives(block, name, lists(name)) /\ Gives(whole, name, lists(name))
          /\ \A default : FirstArg(block, name, default) = FirstArg(whole, name, default)
  <2> SUFFICES ASSUME NEW name \in {"server_name", "ssl_certificate", "ssl_certificate_key"}
               PROVE  /\ Gives(block, name, lists(name)) /\ Gives(whole, name, lists(name))
                      /\ \A default : FirstArg(block, name, default) = FirstArg(whole, name, default)
    OBVIOUS
  <2>1. name # "location"
    OBVIOUS
  <2>2. Gives(block, name, lists(name)) /\ Gives(whole, name, lists(name))
    BY <1>3, <1>4, <2>1, Zenon
  <2>3. \A default : /\ FirstArg(block, name, default) = FirstOf(lists(name), default)
                     /\ FirstArg(whole, name, default) = FirstOf(lists(name), default)
    <3> DEFINE l == lists(name)
    <3>1. l \in Seq(Lists) /\ Gives(block, name, l) /\ Gives(whole, name, l)
      BY <1>2, <2>2, Zenon
    <3> HIDE DEF l
    <3>2. \A default : FirstArg(block, name, default) = FirstOf(l, default)
      BY <3>1, ValuesGiven
    <3>3. \A default : FirstArg(whole, name, default) = FirstOf(l, default)
      BY <3>1, ValuesGiven
    <3> QED
      BY <3>2, <3>3, Zenon DEF l
  <2> QED
    BY <2>2, <2>3, Zenon
<1>7. ParseTLS(block) = ParseTLS(whole)
  <2>1. FirstArg(block, "ssl_certificate", "") = FirstArg(whole, "ssl_certificate", "")
    BY <1>6
  <2>2. CASE FirstArg(block, "ssl_certificate", "") = ""
    BY <2>1, <2>2, Zenon DEF ParseTLS
  <2>3. CASE FirstArg(block, "ssl_certificate", "") # ""
    <3> DEFINE c == "ssl_certificate"
               k == "ssl_certificate_key"
               h == "ssl_certificate_chain"
    <3>1. h # "location"
      OBVIOUS
    <3>2. Gives(block, h, lists(h)) /\ Gives(whole, h, lists(h))
      BY <1>3, <1>4, <2>3, <3>1, Zenon
    <3>3. Gives(block, c, lists(c)) /\ Gives(whole, c, lists(c)) /\ Gives(block, k, lists(k)) /\ Gives(whole, k, lists(k))
      BY <1>6
    <3> QED
      <4>1. ParseTLS(block) = TLSOf(lists(c), lists(k), lists(h))
        BY <1>2, <3>2, <3>3, TLSGiven
      <4>2. ParseTLS(whole) = TLSOf(lists(c), lists(k), lists(h))
        BY <1>2, <3>2, <3>3, TLSGiven
      <4> QED
        BY <4>1, <4>2, Zenon
  <2> QED
    BY <2>2, <2>3
<1>8. FirstArg(block, "server_name", "localhost") = FirstArg(whole, "server_name", "localhost")
  BY <1>6
<1>9. ConvertServer(whole) = Meaning(ds)
  BY <1>1, MeaningGiven, Zenon
<1>10. CASE SameAt(whole, block, "location")
  <2>1. HoldsLocations(whole, ds) /\ HoldsLocations(block, ds)
    BY <1>1, <1>10, SameLocations, Zenon DEF Describes
  <2>2. ParseLocations(block) = ParseLocations(whole)
    BY <2>1, LocationsGiven, Zenon
  <2>3. ConvertServer(block) = ConvertServer(whole)
    BY <1>5, <1>7, <1>8, <2>2, Zenon DEF ConvertServer
  <2> QED
    BY <1>9, <2>3, Zenon DEF LoadedKept
<1>11. CASE ~SameAt(whole, block, "location")
  <2>1. i = 1 /\ value = "location"
    BY <1>1, <1>11, Zenon
  <2>2. SameButLocations(ConvertServer(block), ConvertServer(whole))
    <3> DEFINE a == ParseListen(whole)
               b == FirstArg(whole, "server_name", "localhost")
               c == ParseTLS(whole)
               d == ParseLocations(block)
               e == ParseLocations(whole)
    <3>1. /\ ConvertServer(block) = [listens |-> a, name |-> b, locations |-> d, tls |-> c]
          /\ ConvertServer(whole) = [listens |-> a, name |-> b, locations |-> e, tls |-> c]
      BY <1>5, <1>7, <1>8, Zenon DEF ConvertServer
    <3> HIDE DEF a, b, c, d, e
    <3> QED
      BY <3>1 DEF SameButLocations
  <2> QED
    BY <1>9, <2>1, <2>2, Zenon DEF LoadedKept
<1> QED
  BY <1>10, <1>11

\* The first blocks that are converted are those of the servers that are kept.
LEMMA KeptBlocks ==
    ASSUME NEW config, NEW f, NEW n \in Nat, NEW value, HttpKept(config, f, n, value), n # 0
    PROVE  \E S : /\ RawServers(config) \in Seq(S) /\ Len(RawServers(config)) >= n
                  /\ \A i \in 1 .. n : KeptBlock(RawServers(config)[i].v, f[i], i, value)
<1> DEFINE http == config["http"]
           entries == http.v
           server == entries["server"]
           blocks == Values(entries, "server")
           raws == RawServers(config)
           P == {i \in DOMAIN server.v : IsBlock(server.v[i])}
<1>1. /\ "http" \in DOMAIN config /\ http.kind = "dict"
      /\ "server" \in DOMAIN entries /\ server.kind \in {"dict", "many"}
      /\ Len(blocks) >= n /\ \A i \in 1 .. n : IsBlock(blocks[i]) /\ KeptBlock(blocks[i].v, f[i], i, value)
  BY Zenon DEF HttpKept, KeptServers, IsBlock
<1>2. PICK S : blocks \in Seq(S)
  BY Zenon DEF HttpKept, KeptServers
<1>3. raws = IF http.kind # "dict" \/ "server" \notin DOMAIN entries THEN <<>>
             ELSE CASE IsBlock(server) -> <<server>>
                    [] server.kind = "many" -> Elements(server.v, P)
                    [] OTHER -> <<>>
  BY <1>1, RawServersAre, Zenon
<1>4. raws \in Seq(S) /\ Len(raws) >= n /\ \A i \in 1 .. n : raws[i] = blocks[i]
  <2>1. CASE server.kind = "dict"
    <3>1. IsBlock(server) /\ ~(server.kind = "many")
      BY <2>1 DEF IsBlock
    <3>2. blocks = <<server>>
      BY <1>1, <3>1, Zenon DEF Values
    <3> HIDE DEF raws, http, P, blocks, server
    <3>3. raws = <<server>>
      BY <1>1, <1>3, <3>1
    <3>4. raws = blocks
      BY <3>2, <3>3
    <3> QED
      BY <1>1, <1>2, <3>4, Zenon
  <2>2. CASE server.kind = "many"
    <3>1. ~IsBlock(server)
      BY <2>2 DEF IsBlock
    <3>2. blocks = server.v
      BY <1>1, <2>2, Zenon DEF Values
    <3>3. \A i \in DOMAIN blocks : IsBlock(blocks[i]) => i \in P
      BY <3>2
    <3> HIDE DEF raws, http, P, blocks, server
    <3>4. raws = Elements(server.v, P)
      BY <1>1, <1>3, <2>2, <3>1
    <3>5. raws = Elements(blocks, P)
      BY <3>2, <3>4, Zenon
    <3>6. n \in 0 .. Len(blocks) /\ \A i \in 1 .. n : i \in DOMAIN blocks
      BY <1>1, <1>2
    <3>7. \A i \in 1 .. n : i \in P
      BY <1>1, <3>3, <3>6, Zenon
    <3>8. Elements(blocks, P) \in Seq(S) /\ Len(Elements(blocks, P)) >= n /\ \A i \in 1 .. n : Elements(blocks, P)[i] = blocks[i]
      BY <1>2, <3>6, <3>7, ElementsBegin
    <3> QED
      BY <3>5, <3>8, Zenon
  <2> QED
    BY <1>1, <2>1, <2>2
<1>5. \A i \in 1 .. n : KeptBlock(raws[i].v, f[i], i, value)
  BY <1>1, <1>4, Zenon
<1> QED
  BY <1>4, <1>5, Zenon

\* A configuration keeps the first servers of a file.
LoadsKept(loaded, f, n, value) ==
    loaded.status = "loaded" =>
        \A i \in 1 .. n : i \in DOMAIN loaded.servers /\ LoadedKept(loaded.servers[i], f[i], i, value)

\* So it does when they are kept in what was parsed.
LEMMA KeptConverted ==
    ASSUME NEW f \in Seq(Seq(Directives)), NEW n \in 0 .. Len(f), n # 0, NEW value, NEW config,
           HttpKept(config, f, n, value)
    PROVE  LoadsKept(ParseConfigDict(config), f, n, value)
<1> DEFINE raws == RawServers(config)
           servers == [i \in DOMAIN raws |-> ConvertServer(raws[i].v)]
           loaded == ParseConfigDict(config)
<1>1. n \in Nat /\ Len(f) \in Nat /\ n <= Len(f)
  <2>1. Len(f) \in Nat
    BY FileParts, Zenon
  <2> QED
    BY <2>1
<1>2. PICK S : /\ raws \in Seq(S) /\ Len(raws) >= n
               /\ \A i \in 1 .. n : KeptBlock(raws[i].v, f[i], i, value)
  BY <1>1, KeptBlocks, Zenon
<1>3. loaded = IF raws = <<>> \/ \E i \in DOMAIN raws : ~CanConvert(raws[i].v) THEN Refused ELSE AppConfig(servers)
  BY Zenon DEF ParseConfigDict
<1>4. CASE loaded = Refused
  <2>1. Refused.status # "loaded"
    BY DEF Refused
  <2> QED
    BY <1>4, <2>1, Zenon DEF LoadsKept
<1>5. CASE loaded # Refused
  <2>1. loaded = AppConfig(servers) /\ \A i \in DOMAIN raws : CanConvert(raws[i].v)
    BY <1>3, <1>5, Zenon
  <2>2. AppConfig(servers).servers = servers
    BY DEF AppConfig
  <2> SUFFICES ASSUME NEW i \in 1 .. n PROVE i \in DOMAIN servers /\ LoadedKept(servers[i], f[i], i, value)
    BY <2>1, <2>2, Zenon DEF LoadsKept
  <2>3. i \in DOMAIN raws
    <3> HIDE DEF raws
    <3> QED
      BY <1>1, <1>2
  <2>4. i \in DOMAIN servers /\ servers[i] = ConvertServer(raws[i].v)
    BY <2>3, Zenon
  <2>5. CanConvert(raws[i].v) /\ KeptBlock(raws[i].v, f[i], i, value)
    BY <1>2, <2>1, <2>3, Zenon
  <2>6. f[i] \in Seq(Directives)
    <3> DEFINE Q == Seq(Directives)
    <3> HIDE DEF Q
    <3>1. f \in Seq(Q) /\ i \in 1 .. Len(f)
      <4>1. f \in Seq(Q)
        BY DEF Q
      <4> QED
        BY <1>1, <4>1
    <3>2. f[i] \in Q
      BY <3>1
    <3> QED
      BY <3>2 DEF Q
  <2>7. LoadedKept(ConvertServer(raws[i].v), f[i], i, value)
    BY <2>5, <2>6, KeptMeans, Zenon
  <2> QED
    BY <2>4, <2>7, Zenon
<1> QED
  BY <1>4, <1>5

-----------------------------------------------------------------------------
(* A file with a token too many is read in part too.                         *)

\* The tokens of a file with one more among them.
WithExtra(whole, at, x) ==
    /\ tokens \in Seq(Tokens) /\ Len(tokens) = Len(whole) + 1
    /\ \A i \in 1 .. at : tokens[i] = whole[i]
    /\ tokens[at + 1] = x
    /\ \A i \in at + 1 .. Len(whole) : tokens[i + 1] = whole[i]

\* Behind it the servers that were closed before stay what they are.
Behind(f, n, x) ==
    /\ result = Pending /\ calls # <<>> =>
           n = 0 \/ (/\ Keeping(calls, f, n, x.value)
                     /\ pos <= Len(tokens) => Reads(calls, f, Left(Written(f), pos - 1), x))
    /\ result = Pending /\ calls = <<>> => n = 0 \/ HttpKept(raw, f, n, x.value)
    /\ result # Pending => LoadsKept(result, f, n, x.value)

\* No servers stay, and of what is refused none is shown.
LEMMA NoneStay ==
    /\ \A loaded, f, value : LoadsKept(loaded, f, 0, value)
    /\ \A f, n, value : LoadsKept(Refused, f, n, value)
    /\ Refused # Pending
<1>1. 1 .. 0 = {}
  OBVIOUS
<1>2. Refused.status # "loaded" /\ Refused # Pending
  BY DEF Refused, Pending
<1> QED
  BY <1>1, <1>2, Zenon DEF LoadsKept

\* A step of the parser goes on, refuses or returns.
LEMMA StepIs ==
    ASSUME Nested, result = Pending, calls # <<>>, Next
    PROVE  result' = Refused \/ Advances \/ Returns
<1>1. ReadName => Advances
  BY NameTaken, Zenon
<1>2. ReadArgument => Advances
  BY ArgumentTaken, Zenon
<1>3. EndDirective => Advances
  BY DirectiveTaken, Zenon
<1>4. OpenBlock => Advances
  BY BlockEntered, Zenon
<1>5. CloseBlock => result' = Refused \/ Advances
  <2>1. Len(calls) \in Nat
    BY TopIs, Zenon
  <2> QED
    BY <2>1, BlockLeft, Zenon
<1>6. FinishParse => Returns
  BY DEF FinishParse, Returns
<1>7. SyntaxError => result' = Refused
  BY DEF SyntaxError, Refuse
<1>8. ~Convert
  BY DEF Convert
<1> QED
  BY <1>1, <1>2, <1>3, <1>4, <1>5, <1>6, <1>7, <1>8, Zenon DEF Next

\* What comes of the parser's step, if it keeps the servers and where it is.
LEMMA BehindAfter ==
    ASSUME NEW f, NEW n, NEW x, result' = Refused \/ Advances \/ Returns,
           n # 0 => \/ result' = Refused
                    \/ Advances /\ Keeping(calls', f, n, x.value)
                    \/ Returns /\ HttpKept(raw', f, n, x.value),
           n # 0 => \/ result' = Refused
                    \/ Advances /\ (pos' <= Len(tokens') => Reads(calls', f, Left(Written(f), pos' - 1), x))
                    \/ Returns
    PROVE  Behind(f, n, x)'
<1>1. Advances => result' = Pending /\ calls' # <<>>
  BY DEF Advances
<1>2. Returns => result' = Pending /\ calls' = <<>>
  BY DEF Returns
<1>3. CASE result' = Refused
  <2>1. LoadsKept(result', f, n, x.value) /\ result' # Pending
    BY <1>3, NoneStay, Zenon
  <2> QED
    BY <2>1, Zenon DEF Behind
<1>4. CASE Advances /\ ~(result' = Refused)
  BY <1>1, <1>2, <1>4, Zenon DEF Behind
<1>5. CASE Returns /\ ~(result' = Refused)
  BY <1>1, <1>2, <1>5, Zenon DEF Behind
<1> QED
  BY <1>3, <1>4, <1>5

\* Behind the token too many, every step keeps it so.
LEMMA BehindGoes ==
    ASSUME NEW f \in Seq(Seq(Directives)), Nested, NEW n \in 0 .. Len(f), NEW x, Behind(f, n, x), Next,
           NEW at \in 0 .. Len(Written(f)) - 1, WithExtra(Written(f), at, x),
           result = Pending /\ calls # <<>> => pos > at + 1
    PROVE  /\ Behind(f, n, x)' /\ tokens' = tokens
           /\ result' = Pending /\ calls' # <<>> => pos' > at + 1
<1> DEFINE whole == Written(f)
           aim == /\ Behind(f, n, x)' /\ tokens' = tokens
                  /\ result' = Pending /\ calls' # <<>> => pos' > at + 1
<1> SUFFICES aim
  OBVIOUS
<1>1. whole \in Seq(Tokens) /\ Len(whole) \in Nat /\ WithExtra(whole, at, x)
  <2>1. whole \in Seq(Tokens)
    BY WrittenType
  <2> HIDE DEF whole
  <2>2. Len(whole) \in Nat
    BY <2>1
  <2>3. WithExtra(whole, at, x)
    BY DEF whole
  <2> QED
    BY <2>1, <2>2, <2>3
<1>2. n \in Nat /\ at \in Nat /\ at \in 0 .. Len(whole) - 1
  <2>1. Len(f) \in Nat
    BY FileParts, Zenon
  <2> QED
    BY <1>1, <2>1
<1> HIDE DEF whole
<1>3. /\ pos \in Nat /\ Len(tokens) \in Nat
      /\ pos <= Len(tokens) => After = pos + 1
      /\ ~(pos <= Len(tokens)) => Kind = "END" /\ After = pos
  <2>1. Typed
    BY DEF Nested
  <2> QED
    BY <2>1, TokenIs, Zenon
<1>5. CASE result = Pending /\ calls # <<>> /\ n = 0
  <2>1. result' = Refused \/ Advances \/ Returns
    BY <1>5, StepIs, Zenon
  <2>2. Behind(f, n, x)'
    BY <1>5, <2>1, BehindAfter, Zenon
  <2>3. tokens' = tokens
    BY DEF Next, ReadName, ReadArgument, EndDirective, OpenBlock, CloseBlock, FinishParse, SyntaxError, Convert, Refuse
  <2>4. result' = Pending /\ calls' # <<>> => pos' = After
    BY <2>1, NoneStay, Zenon DEF Advances, Returns
  <2>5. result' = Pending /\ calls' # <<>> => pos' > at + 1
    BY <1>2, <1>3, <1>5, <2>4
  <2> QED
    BY <2>2, <2>3, <2>5, Zenon
<1>6. CASE result = Pending /\ calls # <<>> /\ n # 0
  <2>1. Keeping(calls, f, n, x.value) /\ (pos <= Len(tokens) => Reads(calls, f, Left(whole, pos - 1), x))
    BY <1>6, Zenon DEF Behind, whole
  <2>2. tokens' = tokens
    BY DEF Next, ReadName, ReadArgument, EndDirective, OpenBlock, CloseBlock, FinishParse, SyntaxError, Convert, Refuse
  <2>3. result' = Refused \/ Advances \/ Returns
    BY <1>6, StepIs, Zenon
  <2>4. CASE pos <= Len(tokens)
    <3> DEFINE t == whole[pos - 1]
               more == Left(whole, pos)
    <3>1. pos - 1 \in 1 .. Len(whole) + 1 /\ pos - 1 <= Len(whole) /\ (pos - 1) + 1 = pos /\ pos - 1 \in at + 1 .. Len(whole)
      BY <1>1, <1>2, <1>3, <1>6, <2>4 DEF WithExtra
    <3>2. tokens[pos] = t
      BY <1>1, <3>1 DEF WithExtra
    <3>3. t \in Tokens /\ more \in Seq(Tokens) /\ Left(whole, pos - 1) = Join(<<t>>, more)
      <4>1. /\ whole[pos - 1] \in Tokens /\ (pos - 1) + 1 \in 1 .. Len(whole) + 1
            /\ Left(whole, pos - 1) = Join(<<whole[pos - 1]>>, Left(whole, (pos - 1) + 1))
        BY <1>1, <3>1, LeftGoes
      <4>2. Left(whole, (pos - 1) + 1) \in Seq(Tokens)
        BY <1>1, <4>1, LeftGoes
      <4> QED
        BY <3>1, <4>1, <4>2
    <3>4. Reads(calls, f, Join(<<t>>, more), x)
      BY <2>1, <2>4, <3>3, Zenon
    <3> HIDE DEF t, more
    <3>5. Spares(x.value)
      BY <1>6, <2>4, <3>2, <3>3, <3>4, ReadsSpares
    <3>6. \/ result' = Refused
          \/ Advances /\ Keeping(calls', f, n, x.value)
          \/ Returns /\ HttpKept(raw', f, n, x.value)
      BY <1>2, <1>6, <2>1, <3>5, KeepStep, Zenon
    <3>7. \/ result' = Refused
          \/ Advances /\ Reads(calls', f, more, x)
          \/ Returns
      BY <1>6, <2>4, <3>2, <3>3, <3>4, ReadsGoOn
    <3>8. Advances => pos' = pos + 1
      BY <1>3, <2>4 DEF Advances
    <3>9. (pos + 1) - 1 = pos
      BY <1>3
    <3>10. Advances => Left(whole, pos' - 1) = more
      BY <3>8, <3>9 DEF more
    <3>11. Behind(f, n, x)'
      BY <2>3, <3>6, <3>7, <3>10, BehindAfter, Zenon DEF whole
    <3>12. result' = Pending /\ calls' # <<>> => Advances
      BY <2>3, NoneStay, Zenon DEF Returns
    <3>13. result' = Pending /\ calls' # <<>> => pos' > at + 1
      BY <1>2, <1>3, <1>6, <3>8, <3>12
    <3> QED
      BY <2>2, <3>11, <3>13, Zenon
  <2>5. CASE ~(pos <= Len(tokens))
    <3>1. Kind = "END" /\ After = pos
      BY <1>3, <2>5
    <3>2. Spares(x.value)
      <4>1. ~OpenBlock /\ ~EndDirective
        BY <3>1 DEF OpenBlock, EndDirective, EndsDirective
      <4> QED
        BY <4>1, Zenon DEF Spares
    <3>3. \/ result' = Refused
          \/ Advances /\ Keeping(calls', f, n, x.value)
          \/ Returns /\ HttpKept(raw', f, n, x.value)
      BY <1>2, <1>6, <2>1, <3>2, KeepStep, Zenon
    <3>4. Advances => pos' = pos
      BY <3>1 DEF Advances
    <3>5. Advances => ~(pos' <= Len(tokens'))
      BY <2>2, <2>5, <3>4
    <3>6. Behind(f, n, x)'
      BY <2>3, <3>3, <3>5, BehindAfter, Zenon
    <3>7. result' = Pending /\ calls' # <<>> => Advances
      BY <2>3, NoneStay, Zenon DEF Returns
    <3>8. result' = Pending /\ calls' # <<>> => pos' > at + 1
      BY <1>6, <3>4, <3>7
    <3> QED
      BY <2>2, <3>6, <3>8, Zenon
  <2> QED
    BY <2>4, <2>5
<1>7. CASE result = Pending /\ calls = <<>>
  <2>1. Convert
    BY <1>7, Zenon DEF Next, ReadName, ReadArgument, EndDirective, OpenBlock, CloseBlock, FinishParse,
         SyntaxError, Closes, ReadingName, ReadingArgs, Parsing
  <2>2. result' = ParseConfigDict(raw) /\ tokens' = tokens /\ calls' = calls /\ raw' = raw
    BY <2>1 DEF Convert
  <2>3. n = 0 \/ HttpKept(raw, f, n, x.value)
    BY <1>7, Zenon DEF Behind
  <2>4. LoadsKept(result', f, n, x.value)
    <3>1. CASE n = 0
      BY <3>1, NoneStay, Zenon
    <3>2. CASE n # 0
      BY <2>2, <2>3, <3>2, KeptConverted, Zenon
    <3> QED
      BY <3>1, <3>2
  <2> QED
    BY <1>7, <2>2, <2>3, <2>4, Zenon DEF Behind
<1>8. CASE result # Pending
  BY <1>8, Zenon DEF Next, ReadName, ReadArgument, EndDirective, OpenBlock, CloseBlock, FinishParse,
       SyntaxError, Closes, ReadingName, ReadingArgs, Parsing, Convert
<1> QED
  BY <1>5, <1>6, <1>7, <1>8

\* Before the token too many every step goes on as the file says,
LEMMA BeforeGoes ==
    ASSUME NEW f \in Seq(Seq(Directives)), Nested, result = Pending, calls # <<>>, NEW x, Next,
           NEW at \in 0 .. Len(Written(f)) - 1, WithExtra(Written(f), at, x),
           pos <= at, Exact(calls, f, Left(Written(f), pos))
    PROVE  /\ tokens' = tokens /\ result' = Pending /\ calls' # <<>> /\ pos' <= at + 1
           /\ Exact(calls', f, Left(Written(f), pos'))
<1> DEFINE whole == Written(f)
           t == whole[pos]
           more == Left(whole, pos + 1)
<1>1. whole \in Seq(Tokens)
  BY WrittenType
<1> HIDE DEF whole
<1>2. at \in 0 .. Len(whole) - 1 /\ WithExtra(whole, at, x) /\ Exact(calls, f, Left(whole, pos)) /\ Len(whole) \in Nat
  BY <1>1 DEF whole
<1>3. pos \in 1 .. at /\ pos \in 1 .. Len(whole) + 1 /\ pos <= Len(whole) /\ pos <= Len(tokens)
  <2>1. pos \in 1 .. Len(tokens) + 1
    BY DEF Nested, Typed
  <2> QED
    BY <1>2, <2>1 DEF WithExtra
<1>4. t \in Tokens /\ pos + 1 \in 1 .. Len(whole) + 1 /\ Left(whole, pos) = Join(<<t>>, more)
  BY <1>1, <1>3, LeftGoes, Zenon
<1>5. more \in Seq(Tokens)
  BY <1>1, <1>4, LeftGoes, Zenon
<1>6. ReadsToken(f, t, more)
  <2>1. tokens[pos] = t
    BY <1>2, <1>3, Zenon DEF WithExtra
  <2> QED
    BY <1>2, <1>3, <1>4, <1>5, <2>1, Zenon DEF ReadsToken
<1>7. Goes(f, more)
  BY <1>6, StepGoes, Zenon
<1>8. pos' = pos + 1
  BY <1>7, Zenon DEF Goes
<1>9. pos' <= at + 1
  BY <1>2, <1>3, <1>8
<1> QED
  BY <1>7, <1>8, <1>9, Zenon DEF Goes, whole

\* and at it the servers that have been closed are kept.
LEMMA ExtraGoes ==
    ASSUME NEW f \in Seq(Seq(Directives)), Nested, result = Pending, calls # <<>>, NEW x \in Tokens, Next,
           NEW at \in 0 .. Len(Written(f)) - 1, WithExtra(Written(f), at, x),
           pos = at + 1, Exact(calls, f, Left(Written(f), pos))
    PROVE  /\ tokens' = tokens
           /\ result' = Pending /\ calls' # <<>> => pos' > at + 1
           /\ \E n \in 0 .. Len(f) : LeftAfter(f, Left(Written(f), at + 1), n) /\ Behind(f, n, x)'
<1> DEFINE whole == Written(f)
           left == Left(whole, pos)
           k == Len(calls)
<1>1. whole \in Seq(Tokens)
  BY WrittenType
<1> HIDE DEF whole
<1>2. at \in 0 .. Len(whole) - 1 /\ WithExtra(whole, at, x) /\ Exact(calls, f, left) /\ Len(whole) \in Nat
  BY <1>1 DEF whole
<1>3. pos \in Nat /\ pos \in 1 .. Len(whole) + 1 /\ pos <= Len(whole) /\ pos <= Len(tokens) /\ tokens[pos] = x
  BY <1>2 DEF WithExtra
<1>4. left \in Seq(Tokens) /\ left # <<>>
  <2>1. left \in Seq(Tokens) /\ Left(whole, pos + 1) \in Seq(Tokens) /\ left = Join(<<whole[pos]>>, Left(whole, pos + 1))
        /\ whole[pos] \in Tokens
    <3>1. left \in Seq(Tokens) /\ whole[pos] \in Tokens /\ pos + 1 \in 1 .. Len(whole) + 1
          /\ left = Join(<<whole[pos]>>, Left(whole, pos + 1))
      BY <1>1, <1>3, LeftGoes, Zenon
    <3>2. Left(whole, pos + 1) \in Seq(Tokens)
      BY <1>1, <3>1, LeftGoes, Zenon
    <3> QED
      BY <3>1, <3>2
  <2> DEFINE rest == Left(whole, pos + 1)
             t == whole[pos]
  <2> HIDE DEF rest, t
  <2>2. rest \in Seq(Tokens) /\ t \in Tokens
    BY <2>1 DEF rest, t
  <2>3. Join(<<t>>, rest) # <<>>
    BY <2>2 DEF Join
  <2> QED
    BY <2>1, <2>3, Zenon DEF rest, t
<1> HIDE DEF left
<1>5. k \in Nat /\ k > 0 /\ Top = calls[k]
  BY TopIs
<1>6. Read(Top) \in Seq(Words) /\ Place(calls, f, Join(WordTokens(Read(Top)), left))
  BY <1>2, <1>5, ReadIs, Zenon DEF Exact
<1>7. PICK n \in 0 .. Len(f) : LeftAfter(f, left, n) /\ (n = 0 \/ InKept(calls, f, n, x.value))
  BY <1>4, <1>6, PlaceKeeps, Zenon
<1>8. n \in Nat
  <2>1. Len(f) \in Nat
    BY FileParts, Zenon
  <2> QED
    BY <2>1
<1>9. result' = Refused \/ Advances \/ Returns
  BY StepIs, Zenon
<1>10. Advances => pos' = pos + 1
  <2>1. Typed
    BY DEF Nested
  <2>2. After = pos + 1
    BY <1>3, <2>1, TokenIs, Zenon
  <2> QED
    BY <2>2, Zenon DEF Advances
<1>11. Advances => Left(whole, pos' - 1) = left
  <2>1. (pos + 1) - 1 = pos
    BY <1>3
  <2> QED
    BY <1>10, <2>1 DEF left
<1>12. ASSUME n # 0
       PROVE  /\ \/ result' = Refused
                 \/ Advances /\ Keeping(calls', f, n, x.value)
                 \/ Returns /\ HttpKept(raw', f, n, x.value)
              /\ \/ result' = Refused
                 \/ Advances /\ Reads(calls', f, left, x)
                 \/ Returns
  <2>1. Keeping(calls, f, n, x.value) /\ k >= 2
    BY <1>7, <1>12, Zenon DEF Keeping, InKept
  <2>2. Spares(x.value)
    BY <1>2, <1>4, <1>5, <2>1, ExtraSpares, Zenon
  <2>3. \/ result' = Refused
        \/ Advances /\ Keeping(calls', f, n, x.value)
        \/ Returns /\ HttpKept(raw', f, n, x.value)
    BY <1>8, <1>12, <2>1, <2>2, KeepStep, Zenon
  <2>4. \/ result' = Refused
        \/ Advances /\ Reads(calls', f, left, x)
        \/ Returns
    BY <1>2, <1>3, <1>4, <1>5, <2>1, ExtraReads, Zenon
  <2> QED
    BY <2>3, <2>4, Zenon
<1>13. Behind(f, n, x)'
  BY <1>9, <1>11, <1>12, BehindAfter, Zenon DEF whole
<1>14. tokens' = tokens
  BY DEF Next, ReadName, ReadArgument, EndDirective, OpenBlock, CloseBlock, FinishParse, SyntaxError, Convert, Refuse
<1>15. result' = Pending /\ calls' # <<>> => pos' > at + 1
  <2>1. result' = Pending /\ calls' # <<>> => Advances
    BY <1>9, NoneStay, Zenon DEF Returns
  <2> QED
    BY <1>3, <1>10, <2>1
<1>16. LeftAfter(f, Left(whole, at + 1), n)
  BY <1>7 DEF left
<1> QED
  BY <1>13, <1>14, <1>15, <1>16, Zenon DEF whole

\* A file with a token too many: the parser is before it, or has gone on behind it.
ReadsBefore(f, at) == result = Pending /\ calls # <<>> /\ pos <= at + 1 /\ Exact(calls, f, Left(Written(f), pos))
ReadsBehind(f, at, x) ==
    /\ result = Pending /\ calls # <<>> => pos > at + 1
    /\ \E n \in 0 .. Len(f) : LeftAfter(f, Left(Written(f), at + 1), n) /\ Behind(f, n, x)
GarbledIsRead ==
    /\ file \in Seq(Seq(Directives))
    /\ edit.kind = "extra" =>
           /\ edit.at \in 0 .. Len(Written(file)) - 1 /\ edit.lexeme \in Lexemes
           /\ edit.lexeme.kind = "OTHER" => result = Refused
           /\ edit.lexeme \in Tokens =>
                  /\ WithExtra(Written(file), edit.at, edit.lexeme)
                  /\ ReadsBefore(file, edit.at) \/ ReadsBehind(file, edit.at, edit.lexeme)

\* A sequence with one more element in it.
HasExtra(new, S, s, n, x) ==
    /\ new \in Seq(S) /\ Len(new) = Len(s) + 1
    /\ \A i \in 1 .. n : new[i] = s[i]
    /\ new[n + 1] = x
    /\ \A i \in n + 1 .. Len(s) : new[i + 1] = s[i]

\* Two parts of a sequence with one more element between them.
LEMMA PartsAround ==
    ASSUME NEW S, NEW s \in Seq(S), NEW x \in S, NEW n \in 0 .. Len(s) - 1
    PROVE  HasExtra(SubSeq(s, 1, n) \o <<x>> \o Left(s, n + 1), S, s, n, x)
<1> DEFINE a == SubSeq(s, 1, n)
           b == Left(s, n + 1)
           c == a \o <<x>>
           new == c \o b
           k == Len(s)
<1>1. k \in Nat /\ n \in Nat /\ n <= k - 1
  OBVIOUS
<1>2. a \in Seq(S) /\ Len(a) = n /\ \A i \in 1 .. n : a[i] = s[i]
  BY <1>1, FirstsAre
<1>3. b \in Seq(S) /\ Len(b) = k - n /\ \A i \in 1 .. k - n : b[i] = s[n + i]
  BY <1>1 DEF Left
<1> HIDE DEF a, b, k
<1>4. c \in Seq(S) /\ Len(c) = n + 1 /\ c[n + 1] = x /\ \A i \in 1 .. n : c[i] = s[i]
  BY <1>1, <1>2
<1> HIDE DEF c
<1>5. /\ new \in Seq(S) /\ Len(new) = k + 1
      /\ \A i \in 1 .. n + 1 : new[i] = c[i]
      /\ \A i \in 1 .. k - n : new[n + 1 + i] = b[i]
  <2> DEFINE m == n + 1
             l == k - n
  <2>1. m \in Nat /\ l \in Nat /\ m + l = k + 1
    BY <1>1
  <2>2. c \in Seq(S) /\ Len(c) = m /\ b \in Seq(S) /\ Len(b) = l
    BY <1>3, <1>4
  <2> HIDE DEF m, l
  <2>3. /\ c \o b \in Seq(S) /\ Len(c \o b) = m + l
        /\ \A i \in 1 .. m : (c \o b)[i] = c[i]
        /\ \A i \in 1 .. l : (c \o b)[m + i] = b[i]
    <3> DEFINE d == Join(c, b)
    <3>1. d \in Seq(S) /\ Len(d) = m + l /\ \A i \in 1 .. m + l : d[i] = IF i <= m THEN c[i] ELSE b[i - m]
      BY <2>2, JoinIs
    <3> HIDE DEF d
    <3>2. \A i \in 1 .. m : i \in 1 .. m + l /\ i <= m
      BY <2>1
    <3>3. \A i \in 1 .. l : m + i \in 1 .. m + l /\ ~(m + i <= m) /\ (m + i) - m = i
      BY <2>1
    <3>4. \A i \in 1 .. m : d[i] = c[i]
      BY <3>1, <3>2
    <3>5. \A i \in 1 .. l : d[m + i] = b[i]
      BY <3>1, <3>3
    <3>6. d = c \o b
      BY Zenon DEF d, Join
    <3> QED
      BY <3>1, <3>4, <3>5, <3>6
  <2> QED
    BY <2>1, <2>3 DEF m, l
<1> HIDE DEF new
<1>6. \A i \in 1 .. n : new[i] = s[i]
  BY <1>1, <1>4, <1>5
<1>7. new[n + 1] = x
  BY <1>1, <1>4, <1>5
<1>8. ASSUME NEW i \in n + 1 .. k PROVE new[i + 1] = s[i]
  <2>1. i - n \in 1 .. k - n /\ n + 1 + (i - n) = i + 1 /\ n + (i - n) = i
    BY <1>1
  <2> QED
    BY <1>3, <1>5, <2>1
<1> QED
  BY <1>5, <1>6, <1>7, <1>8, Zenon DEF HasExtra, new, c, a, b, k

\* A garbled file is at its beginning when the parser is.
LEMMA StartIsGarbled == Init => GarbledIsRead
<1> SUFFICES ASSUME Init PROVE GarbledIsRead
  OBVIOUS
<1> DEFINE whole == Written(file)
           at == edit.at
           x == edit.lexeme
<1>1. file \in Seq(Seq(Directives)) /\ whole \in Seq(Tokens)
  BY EditIs
<1> SUFFICES ASSUME edit.kind = "extra"
             PROVE  /\ at \in 0 .. Len(whole) - 1 /\ x \in Lexemes
                    /\ x.kind = "OTHER" => result = Refused
                    /\ x \in Tokens => WithExtra(whole, at, x) /\ ReadsBefore(file, at)
  BY <1>1, Zenon DEF GarbledIsRead
<1>2. at \in 0 .. Len(whole) - 1 /\ x \in Lexemes
  BY EditIs, Zenon
<1>3. x.kind = "OTHER" => result = Refused
  BY ExtraTokens, Zenon
<1> SUFFICES ASSUME x \in Tokens PROVE WithExtra(whole, at, x) /\ ReadsBefore(file, at)
  BY <1>2, <1>3, Zenon
<1>4. x.kind # "OTHER" /\ IsToken(x)
  BY DEF Tokens
<1>5. result = Pending /\ tokens = (SubSeq(whole, 1, at) \o <<x>>) \o Left(whole, at + 1)
  BY <1>4, ExtraTokens, Zenon
<1>6. WithExtra(whole, at, x)
  <2> DEFINE new == (SubSeq(whole, 1, at) \o <<x>>) \o Left(whole, at + 1)
  <2> HIDE DEF whole, at, x
  <2>1. HasExtra(new, Tokens, whole, at, x)
    BY <1>1, <1>2, PartsAround, Zenon
  <2>2. tokens = new
    BY <1>5
  <2> HIDE DEF new
  <2> QED
    BY <2>1, <2>2, Zenon DEF HasExtra, WithExtra
<1>7. pos = 1 /\ calls = <<Call>> /\ calls # <<>>
  BY StartIs
<1>8. Left(whole, 1) = whole
  <2> HIDE DEF whole
  <2>1. 1 \in 1 .. Len(whole) + 1
    BY <1>1
  <2> QED
    BY <1>1, <2>1, LeftLength, Zenon
<1>9. Exact(calls, file, Left(whole, pos))
  BY <1>1, <1>7, <1>8, StartIsExact, Zenon
<1>10. pos <= at + 1
  BY <1>2, <1>7
<1> QED
  BY <1>5, <1>6, <1>7, <1>9, <1>10, Zenon DEF ReadsBefore

\* Every step goes on before it or behind it.
LEMMA GarbledGoes ==
    ASSUME NEW f \in Seq(Seq(Directives)), Nested, NEW x \in Tokens, Next,
           NEW at \in 0 .. Len(Written(f)) - 1, WithExtra(Written(f), at, x),
           ReadsBefore(f, at) \/ ReadsBehind(f, at, x)
    PROVE  tokens' = tokens /\ (ReadsBefore(f, at)' \/ ReadsBehind(f, at, x)')
<1> DEFINE whole == Written(f)
<1>1. pos \in Nat /\ at \in Nat
  <2>1. whole \in Seq(Tokens)
    BY WrittenType
  <2> HIDE DEF whole
  <2>2. Len(whole) \in Nat /\ at \in 0 .. Len(whole) - 1
    BY <2>1 DEF whole
  <2>3. Typed
    BY DEF Nested
  <2>4. pos \in Nat
    BY <2>3, TokenIs, Zenon
  <2> QED
    BY <2>2, <2>4
<1>2. CASE ReadsBefore(f, at) /\ pos <= at
  <2>1. result = Pending /\ calls # <<>> /\ Exact(calls, f, Left(Written(f), pos))
    BY <1>2, Zenon DEF ReadsBefore
  <2>2. /\ tokens' = tokens /\ result' = Pending /\ calls' # <<>> /\ pos' <= at + 1
        /\ Exact(calls', f, Left(Written(f), pos'))
    BY <1>2, <2>1, BeforeGoes, Zenon
  <2> QED
    BY <2>2, Zenon DEF ReadsBefore
<1>3. CASE ReadsBefore(f, at) /\ ~(pos <= at)
  <2>1. result = Pending /\ calls # <<>> /\ Exact(calls, f, Left(Written(f), pos)) /\ pos <= at + 1
    BY <1>3, Zenon DEF ReadsBefore
  <2>2. pos = at + 1
    BY <1>1, <1>3, <2>1
  <2>3. /\ tokens' = tokens
        /\ result' = Pending /\ calls' # <<>> => pos' > at + 1
        /\ \E n \in 0 .. Len(f) : LeftAfter(f, Left(Written(f), at + 1), n) /\ Behind(f, n, x)'
    BY <2>1, <2>2, ExtraGoes, Zenon
  <2> QED
    BY <2>3, Zenon DEF ReadsBehind
<1>4. CASE ReadsBehind(f, at, x)
  <2>1. PICK n \in 0 .. Len(f) : LeftAfter(f, Left(Written(f), at + 1), n) /\ Behind(f, n, x)
    BY <1>4, Zenon DEF ReadsBehind
  <2>2. result = Pending /\ calls # <<>> => pos > at + 1
    BY <1>4, Zenon DEF ReadsBehind
  <2>3. /\ Behind(f, n, x)' /\ tokens' = tokens
        /\ result' = Pending /\ calls' # <<>> => pos' > at + 1
    BY <2>1, <2>2, BehindGoes, Zenon
  <2> QED
    BY <2>1, <2>3, Zenon DEF ReadsBehind
<1> QED
  BY <1>2, <1>3, <1>4

\* Every step keeps it.
LEMMA StepKeepsGarbled == Nested /\ GarbledIsRead /\ [Next]_vars => GarbledIsRead'
<1> SUFFICES ASSUME Nested, GarbledIsRead, [Next]_vars PROVE GarbledIsRead'
  OBVIOUS
<1>1. CASE UNCHANGED vars
  BY <1>1 DEF vars, input, GarbledIsRead, WithExtra, ReadsBefore, ReadsBehind, Behind
<1>2. CASE Next
  <2>1. file' = file /\ edit' = edit
    BY <1>2 DEF Next, ReadName, ReadArgument, EndDirective, OpenBlock, CloseBlock, FinishParse, SyntaxError, Convert,
                Refuse, input
  <2>2. file \in Seq(Seq(Directives))
    BY DEF GarbledIsRead
  <2>3. ASSUME NEW f, f = file, NEW at, at = edit.at, NEW x, x = edit.lexeme, edit.kind = "extra"
        PROVE  /\ at \in 0 .. Len(Written(f)) - 1 /\ x \in Lexemes
               /\ x.kind = "OTHER" => result' = Refused
               /\ x \in Tokens => /\ WithExtra(Written(f), at, x)'
                                  /\ ReadsBefore(f, at)' \/ ReadsBehind(f, at, x)'
    <3>1. /\ at \in 0 .. Len(Written(f)) - 1 /\ x \in Lexemes
          /\ x.kind = "OTHER" => result = Refused
          /\ x \in Tokens => /\ WithExtra(Written(f), at, x)
                             /\ ReadsBefore(f, at) \/ ReadsBehind(f, at, x)
      BY <2>3, Zenon DEF GarbledIsRead, WithExtra, ReadsBefore, ReadsBehind, Behind
    <3>2. result = Refused => FALSE
      BY <1>2, NoneStay, Zenon DEF Next, ReadName, ReadArgument, EndDirective, OpenBlock, CloseBlock, FinishParse,
           SyntaxError, Closes, ReadingName, ReadingArgs, Parsing, Convert
    <3>3. ASSUME x \in Tokens PROVE WithExtra(Written(f), at, x)' /\ (ReadsBefore(f, at)' \/ ReadsBehind(f, at, x)')
      <4>1. tokens' = tokens /\ (ReadsBefore(f, at)' \/ ReadsBehind(f, at, x)')
        BY <1>2, <2>2, <2>3, <3>1, <3>3, GarbledGoes, Zenon
      <4>2. WithExtra(Written(f), at, x)'
        BY <3>1, <3>3, <4>1, Zenon DEF WithExtra
      <4> QED
        BY <4>1, <4>2
    <3> QED
      BY <3>1, <3>2, <3>3, Zenon
  <2>4. PICK f : f = file
    OBVIOUS
  <2>5. PICK e : e = edit
    OBVIOUS
  <2>6. f = file' /\ e = edit'
    BY <2>1, <2>4, <2>5
  <2>7. e.kind = "extra" =>
            /\ e.at \in 0 .. Len(Written(f)) - 1 /\ e.lexeme \in Lexemes
            /\ e.lexeme.kind = "OTHER" => result' = Refused
            /\ e.lexeme \in Tokens =>
                  /\ WithExtra(Written(f), e.at, e.lexeme)'
                  /\ ReadsBefore(f, e.at)' \/ ReadsBehind(f, e.at, e.lexeme)'
    <3> SUFFICES ASSUME e.kind = "extra"
                 PROVE  /\ e.at \in 0 .. Len(Written(f)) - 1 /\ e.lexeme \in Lexemes
                        /\ e.lexeme.kind = "OTHER" => result' = Refused
                        /\ e.lexeme \in Tokens =>
                              /\ WithExtra(Written(f), e.at, e.lexeme)'
                              /\ ReadsBefore(f, e.at)' \/ ReadsBehind(f, e.at, e.lexeme)'
      OBVIOUS
    <3>1. edit.kind = "extra" /\ e.at = edit.at /\ e.lexeme = edit.lexeme
      BY <2>5
    <3> QED
      BY <2>3, <2>4, <3>1, Zenon
  <2> QED
    BY <2>2, <2>6, <2>7, <2>1, Zenon DEF GarbledIsRead, WithExtra, ReadsBefore, ReadsBehind, Behind
<1> QED
  BY <1>1, <1>2

-----------------------------------------------------------------------------
(* What a garbled file is loaded as.                                         *)

\* A server that was closed before the lexeme is among the first ones.
LEMMA ClosedAreAmong ==
    ASSUME NEW f \in Seq(Seq(Directives)), NEW at \in 0 .. Len(Written(f)) - 1,
           NEW n, LeftAfter(f, Left(Written(f), at + 1), n),
           NEW i \in DOMAIN f, 2 + Len(Each(SubSeq(f, 1, i), WriteServer)) <= at
    PROVE  i \in Nat /\ i >= 1 /\ i <= n
<1> DEFINE whole == Written(f)
           before == Len(Each(SubSeq(f, 1, i), WriteServer))
           after == Len(ServersLeft(f, i))
<1>1. i \in 1 .. Len(f) /\ Len(f) \in Nat
  OBVIOUS
<1>2. i \in 0 .. Len(f) /\ i \in Nat /\ i >= 1
  BY <1>1
<1>3. Len(whole) = 2 + before + after /\ before \in Nat /\ after \in Nat
  BY <1>2, ServersWritten
<1>4. whole \in Seq(Tokens)
  BY WrittenType
<1>5. before + 2 <= at /\ at \in 0 .. Len(whole) - 1
  BY <1>3
<1> HIDE DEF whole, before, after
<1>6. Len(Left(whole, at + 1)) = Len(whole) - at
  <2>1. at + 1 \in 1 .. Len(whole) + 1
    BY <1>3, <1>5
  <2>2. Len(Left(whole, at + 1)) = Len(whole) + 1 - (at + 1)
    BY <1>4, <2>1, LeftLength
  <2>3. Len(whole) \in Nat /\ at \in Nat
    BY <1>3, <1>5
  <2>4. Len(whole) + 1 - (at + 1) = Len(whole) - at
    BY <2>3
  <2> QED
    BY <2>2, <2>4, Zenon
<1>7. after >= Len(Left(whole, at + 1))
  BY <1>3, <1>5, <1>6
<1>8. i <= n
  BY <1>2, <1>7, Zenon DEF LeftAfter, whole, after
<1> QED
  BY <1>2, <1>8

\* What the servers that were closed before it are loaded as.
LEMMA GarbledMeans ==
    ASSUME WholeIsReadExactly, GarbledIsRead, edit.kind = "extra", Loaded, NEW i \in ClosedBefore(edit.at)
    PROVE  /\ i \in DOMAIN result.servers
           /\ LoadedKept(result.servers[i], file[i], i, edit.lexeme.value)
<1>1. /\ file \in Seq(Seq(Directives)) /\ edit.at \in 0 .. Len(Written(file)) - 1
      /\ edit.lexeme \in Lexemes /\ edit.lexeme.kind # "OTHER"
  <2>1. result # Refused
    BY DEF Loaded, Refused
  <2> QED
    BY <2>1, Zenon DEF GarbledIsRead
<1>2. result # Pending
  BY DEF Loaded, Pending
<1>3. i \in DOMAIN file /\ 2 + Len(Each(SubSeq(file, 1, i), WriteServer)) <= edit.at
  BY DEF ClosedBefore
<1>4. CASE edit.lexeme \in Tokens
  <2>1. ReadsBehind(file, edit.at, edit.lexeme)
    BY <1>2, <1>4, Zenon DEF GarbledIsRead, ReadsBefore
  <2>2. PICK n \in 0 .. Len(file) : /\ LeftAfter(file, Left(Written(file), edit.at + 1), n)
                                    /\ Behind(file, n, edit.lexeme)
    BY <2>1, Zenon DEF ReadsBehind
  <2>3. LoadsKept(result, file, n, edit.lexeme.value)
    BY <1>2, <2>2, Zenon DEF Behind
  <2>4. i \in Nat /\ i >= 1 /\ i <= n
    BY <1>1, <1>3, <2>2, ClosedAreAmong, Zenon
  <2>5. i \in 1 .. n
    BY <2>4
  <2> QED
    BY <2>3, <2>5, Zenon DEF LoadsKept, Loaded
<1>5. CASE edit.lexeme \notin Tokens
  <2>1. edit.lexeme.kind \in {"COMMENT", "WHITESPACE"}
    BY <1>1, <1>5 DEF Tokens, IsToken, IsLayout
  <2>2. IsWhole
    BY <2>1 DEF IsWhole
  <2>3. result = LoadedAs(file)
    BY <1>2, <2>2, Zenon DEF WholeIsReadExactly
  <2> DEFINE servers == [j \in DOMAIN file |-> Meaning(file[j])]
  <2>4. result = AppConfig(servers)
    BY <2>3 DEF LoadedAs, Loaded, Refused
  <2>5. result.servers = servers
    BY <2>4 DEF AppConfig
  <2> QED
    BY <1>3, <2>5, Zenon DEF LoadedKept
<1> QED
  BY <1>4, <1>5

\* One lexeme too many, wherever it stands and whatever it is, leaves the servers that
\* were closed before it as the file describes them, if the file is loaded at all: only the
\* locations of the first one may change, and only when the lexeme is the word "location"
\* (_parse_block, _directive_values, parse_config_dict).
THEOREM EarlierServersStay == Spec => []EarlierServersAreKept
<1>1. WholeIsReadExactly /\ GarbledIsRead => EarlierServersAreKept
  BY GarbledMeans, Zenon DEF EarlierServersAreKept, LoadedKept
<1>2. ReadingIsSound => Nested
  BY DEF ReadingIsSound
<1> QED
  BY <1>1, <1>2, StartIsWhole, StepKeepsWhole, StartIsGarbled, StepKeepsGarbled, ReadingStaysSound, PTL DEF Spec

=============================================================================
