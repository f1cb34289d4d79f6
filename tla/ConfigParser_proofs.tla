-------------------------- MODULE ConfigParser_proofs --------------------------
(***************************************************************************)
(* Proofs about ConfigParser.  What the recursive descent builds is a      *)
(* raw value to any depth: the dictionary that parse() returns holds       *)
(* lists of words, dictionaries and lists of those, each of them made of   *)
(* values that were there before (a closed set).  The calls of             *)
(* _parse_block that are active are one more than the braces open, so the  *)
(* outermost call returns at a brace of its own or at the end of the       *)
(* input, and what is converted gives servers that can be bound.           *)
(***************************************************************************)
EXTENDS ConfigParser, DataInduction, FiniteSetTheorems, TLAPS

-----------------------------------------------------------------------------
(* Elements at some positions: Elements iterates over the positions of the   *)
(* sequence; Keeps is the function it iterates.                              *)

Keeps(s, positions) ==
    CHOOSE kept : kept = [i \in 0 .. Len(s) |->
            IF i = 0 THEN <<>> ELSE Picked(kept[i - 1], s, i, positions)]

\* kept is defined: at each place by the one before.
LEMMA KeepsEquation ==
    ASSUME NEW S, NEW s \in Seq(S), NEW positions
    PROVE  /\ Keeps(s, positions)[0] = <<>>
           /\ \A i \in 1 .. Len(s) :
                  Keeps(s, positions)[i] = Picked(Keeps(s, positions)[i - 1], s, i, positions)
           /\ \A i \in 0 .. Len(s) : Keeps(s, positions)[i] \in Seq(S)
<1> DEFINE n == Len(s)
           A == Seq(S)
           start == <<>>
           next(i, q) == IF i \in 1 .. n THEN Picked(q, s, i, positions) ELSE q
           step == [i \in Nat |-> [q \in A |-> next(i, q)]]
           f(g) == [i \in 0 .. n |-> IF i = 0 THEN start ELSE Picked(g[i - 1], s, i, positions)]
<1>1. n \in Nat /\ start \in A /\ \A i \in 1 .. n : s[i] \in S
  OBVIOUS
<1>0. \A i \in 1 .. n : \A q \in A : Picked(q, s, i, positions) \in A
  BY <1>1 DEF Picked
<1> HIDE DEF n, start, A
<1>2. ASSUME NEW i \in Nat, NEW q \in A
      PROVE  next(i, q) \in A
  BY <1>0
<1>3. /\ step \in [Nat -> [A -> A]]
      /\ \A i \in Nat : \A q \in A : step[i][q] = next(i, q)
  <2> HIDE DEF next
  <2> QED
    BY <1>2
<1>4. PICK g : IsIteration(g, A, start, step, n)
  <2> HIDE DEF step
  <2> QED
    BY <1>1, <1>3, Iteration, Zenon
<1>5. /\ g \in [0 .. n -> A] /\ g[0] = start
      /\ \A i \in 1 .. n : g[i - 1] \in A /\ g[i] = Picked(g[i - 1], s, i, positions)
  <2> HIDE DEF step
  <2>1. g \in [0 .. n -> A] /\ g[0] = start /\ \A i \in 1 .. n : g[i] = step[i][g[i - 1]]
    BY <1>4 DEF IsIteration
  <2>2. ASSUME NEW i \in 1 .. n
        PROVE  g[i - 1] \in A /\ g[i] = Picked(g[i - 1], s, i, positions)
    <3>1. g[i - 1] \in A
      BY <1>1, <2>1
    <3>2. g[i] = next(i, g[i - 1])
      <4> HIDE DEF next
      <4> QED
        BY <1>1, <1>3, <2>1, <3>1
    <3> QED
      BY <3>1, <3>2
  <2> QED
    BY <2>1, <2>2
<1>6. g = f(g)
  <2>1. \A i \in 0 .. n : g[i] = f(g)[i]
    BY <1>1, <1>5
  <2>2. g = [i \in 0 .. n |-> g[i]] /\ f(g) = [i \in 0 .. n |-> f(g)[i]]
    BY <1>5
  <2> HIDE DEF f
  <2> QED
    BY <2>1, <2>2
<1>7. Keeps(s, positions) = f(Keeps(s, positions))
  BY <1>6 DEF Keeps, n, start
<1> DEFINE u == Keeps(s, positions)
<1>8. u[0] = start /\ \A i \in 1 .. n : u[i] = Picked(u[i - 1], s, i, positions)
  <2>1. u = f(u)
    BY <1>7
  <2> HIDE DEF u
  <2>2. \A i \in 0 .. n : f(u)[i] = IF i = 0 THEN start ELSE Picked(u[i - 1], s, i, positions)
    OBVIOUS
  <2> HIDE DEF f
  <2> QED
    BY <1>1, <2>1, <2>2
<1> HIDE DEF u
<1> DEFINE T == {i \in 0 .. n : u[i] \in A}
<1>9. 0 .. n \subseteq T
  <2>1. 0 \in T
    BY <1>1, <1>8
  <2>2. ASSUME NEW i \in 1 .. n, i - 1 \in T PROVE i \in T
    BY <1>0, <1>1, <1>8, <2>2
  <2> HIDE DEF T
  <2> QED
    BY <1>1, <2>1, <2>2, BoundedInduction
<1>10. \A i \in 0 .. n : u[i] \in A
  BY <1>9
<1> QED
  BY <1>8, <1>10, Zenon DEF u, n, start, A

\* What Elements gives is the last value of that function.
LEMMA ElementsIsKeeps == \A s, positions : Elements(s, positions) = Keeps(s, positions)[Len(s)]
BY DEF Elements, Keeps

\* The elements of a sequence are a sequence.
LEMMA ElementsType ==
    ASSUME NEW S, NEW s \in Seq(S), NEW positions
    PROVE  Elements(s, positions) \in Seq(S)
<1>1. Len(s) \in 0 .. Len(s)
  OBVIOUS
<1> QED
  BY <1>1, KeepsEquation, ElementsIsKeeps, Zenon

-----------------------------------------------------------------------------
(* What is written is a sequence of lexemes.                                 *)

\* The words of the assumption, one by one.
LEMMA Assumed ==
    /\ Words \subseteq STRING /\ "" \notin Words /\ Numerals \subseteq Words
    /\ "http" \in Words /\ "server" \in Words /\ "location" \in Words /\ "root" \in Words
<1>1. \A w \in {"http", "server", "location", "root"} : w \in Words
  BY ConfigParserAssumption, Zenon
<1>2. /\ "http" \in {"http", "server", "location", "root"}
      /\ "server" \in {"http", "server", "location", "root"}
      /\ "location" \in {"http", "server", "location", "root"}
      /\ "root" \in {"http", "server", "location", "root"}
  OBVIOUS
<1> QED
  BY <1>1, <1>2, ConfigParserAssumption, Zenon

\* What the assumption says of files and of the lexemes put in.
LEMMA AssumedOfFiles ==
    /\ Files \subseteq Seq(Seq(Directives)) /\ EditedFiles \subseteq Files /\ Extras \subseteq Lexemes
BY ConfigParserAssumption, Zenon

\* One word, or two, are a sequence of words.
LEMMA FewWords ==
    /\ \A w \in Words : <<w>> \in Seq(Words)
    /\ \A v \in Words : \A w \in Words : <<v, w>> \in Seq(Words)
OBVIOUS

Tokens == {lexeme \in Lexemes : IsToken(lexeme) /\ lexeme.kind # "OTHER"}

\* Braces, semicolons and words are tokens, which are lexemes.
LEMMA LexemeIs ==
    /\ LBrace \in Tokens /\ RBrace \in Tokens /\ Semicolon \in Tokens
    /\ \A w \in Words : Word(w) \in Tokens
    /\ Tokens \subseteq Lexemes
<1>1. /\ LBrace \in Lexemes /\ RBrace \in Lexemes /\ Semicolon \in Lexemes
      /\ \A w \in Words : Word(w) \in Lexemes
  BY DEF Lexemes, LBrace, RBrace, Semicolon, Word, Lexeme
<1>2. /\ IsToken(LBrace) /\ IsToken(RBrace) /\ IsToken(Semicolon)
      /\ \A w \in Words : IsToken(Word(w)) /\ Word(w).kind # "OTHER"
      /\ LBrace.kind # "OTHER" /\ RBrace.kind # "OTHER" /\ Semicolon.kind # "OTHER"
  BY DEF IsToken, IsLayout, LBrace, RBrace, Semicolon, Word, Lexeme
<1> QED
  BY <1>1, <1>2 DEF Tokens

\* A sequence of words is written as one of tokens,
LEMMA WordsType ==
    ASSUME NEW words \in Seq(Words)
    PROVE  [i \in DOMAIN words |-> Word(words[i])] \in Seq(Tokens)
<1> DEFINE n == Len(words)
<1>1. n \in Nat /\ DOMAIN words = 1 .. n /\ \A i \in 1 .. n : words[i] \in Words
  OBVIOUS
<1> HIDE DEF n
<1>2. [i \in DOMAIN words |-> Word(words[i])] \in [1 .. n -> Tokens]
  BY <1>1, LexemeIs
<1>3. [1 .. n -> Tokens] \subseteq Seq(Tokens)
  BY <1>1
<1> QED
  BY <1>2, <1>3, Zenon

\* so is a directive,
LEMMA SimpleType ==
    ASSUME NEW name \in Words, NEW args \in Seq(Words)
    PROVE  Simple(name, args) \in Seq(Tokens)
<1> DEFINE a == <<Word(name)>>
           b == [i \in DOMAIN args |-> Word(args[i])]
           c == <<Semicolon>>
<1>1. a \in Seq(Tokens) /\ b \in Seq(Tokens) /\ c \in Seq(Tokens)
  BY LexemeIs, WordsType
<1>2. Simple(name, args) = a \o b \o c
  BY Zenon DEF Simple
<1> HIDE DEF a, b, c
<1> QED
  BY <1>1, <1>2

\* a block,
LEMMA BlockType ==
    ASSUME NEW words \in Seq(Words), NEW inside \in Seq(Tokens)
    PROVE  Block(words, inside) \in Seq(Tokens)
<1> DEFINE a == [i \in DOMAIN words |-> Word(words[i])]
           b == <<LBrace>>
           c == <<RBrace>>
<1>1. a \in Seq(Tokens) /\ b \in Seq(Tokens) /\ c \in Seq(Tokens)
  BY LexemeIs, WordsType
<1>2. Block(words, inside) = a \o b \o inside \o c
  BY Zenon DEF Block
<1> HIDE DEF a, b, c
<1> QED
  BY <1>1, <1>2

\* and what is made of several such sequences.
LEMMA WrittenOneByOne ==
    ASSUME NEW S, NEW s \in Seq(S), NEW write, DOMAIN write = DOMAIN s,
           \A i \in DOMAIN s : write[i] \in Seq(Tokens),
           write = [i \in DOMAIN s |-> write[i]]
    PROVE  write \in Seq(Seq(Tokens)) /\ FlattenSeq(write) \in Seq(Tokens)
<1> DEFINE n == Len(s)
           L == Seq(Tokens)
<1>1. n \in Nat /\ DOMAIN s = 1 .. n
  OBVIOUS
<1> HIDE DEF n, L
<1>2. write \in [1 .. n -> L]
  <2>1. \A i \in 1 .. n : write[i] \in L
    BY <1>1 DEF L
  <2> QED
    BY <1>1, <2>1
<1>3. [1 .. n -> L] \subseteq Seq(L)
  BY <1>1
<1>4. write \in Seq(Seq(Tokens))
  BY <1>2, <1>3, Zenon DEF L
<1> QED
  BY <1>4, FlattenType

\* A root directive is written as tokens,
LEMMA WriteRootType == \A w \in Words : WriteRoot(w) \in Seq(Tokens)
<1> SUFFICES ASSUME NEW w \in Words PROVE WriteRoot(w) \in Seq(Tokens)
  OBVIOUS
<1>1. <<w>> \in Seq(Words) /\ "root" \in Words
  BY FewWords, Assumed, Zenon
<1> QED
  BY <1>1, SimpleType, Zenon DEF WriteRoot

\* so are those of a location,
LEMMA RootsType ==
    ASSUME NEW roots \in Seq(Words)
    PROVE  Each(roots, WriteRoot) \in Seq(Tokens)
<1> DEFINE write == [i \in DOMAIN roots |-> WriteRoot(roots[i])]
<1>1. \A i \in DOMAIN roots : write[i] \in Seq(Tokens)
  <2>1. \A i \in DOMAIN roots : roots[i] \in Words
    OBVIOUS
  <2> QED
    BY <2>1, WriteRootType
<1>2. DOMAIN write = DOMAIN roots /\ write = [i \in DOMAIN roots |-> write[i]]
  OBVIOUS
<1>3. Each(roots, WriteRoot) = FlattenSeq(write)
  BY Zenon DEF Each
<1> HIDE DEF write
<1> QED
  BY <1>1, <1>2, <1>3, WrittenOneByOne, Zenon

\* What the fields of a directive are.
LEMMA DirectiveIs ==
    ASSUME NEW d \in Directives
    PROVE  /\ IsLocation(d) => d.path \in Words /\ d.roots \in Seq(Words)
           /\ ~IsLocation(d) => d.name \in Words /\ d.name # "location"
                                /\ d.args \in Seq(Words) /\ d.args # <<>>
<1> DEFINE S == Seq(Words)
<1> HIDE DEF S
<1>1. CASE d \in [name : Words \ {"location"}, args : S \ {<<>>}]
  BY <1>1 DEF S, IsLocation
<1>2. CASE d \in [path : Words, roots : S]
  BY <1>2 DEF S, IsLocation
<1> QED
  BY <1>1, <1>2, Zenon DEF Directives, S

\* so is any directive,
LEMMA WriteType ==
    ASSUME NEW d \in Directives
    PROVE  Write(d) \in Seq(Tokens)
<1>1. CASE IsLocation(d)
  <2>1. /\ d.path \in Words /\ "location" \in Words
        /\ Each(d.roots, WriteRoot) \in Seq(Tokens)
    BY <1>1, DirectiveIs, RootsType, Assumed
  <2>2. <<"location", d.path>> \in Seq(Words)
    BY <2>1
  <2> QED
    BY <1>1, <2>1, <2>2, BlockType, Zenon DEF Write
<1>2. CASE ~IsLocation(d)
  BY <1>2, DirectiveIs, SimpleType, Zenon DEF Write
<1> QED
  BY <1>1, <1>2

\* a server,
LEMMA ServerType ==
    ASSUME NEW server \in Seq(Directives)
    PROVE  /\ Each(server, Write) \in Seq(Tokens)
           /\ WriteServer(server) \in Seq(Tokens)
<1> DEFINE write == [i \in DOMAIN server |-> Write(server[i])]
<1>1. \A i \in DOMAIN server : write[i] \in Seq(Tokens)
  <2> SUFFICES ASSUME NEW i \in DOMAIN server PROVE Write(server[i]) \in Seq(Tokens)
    OBVIOUS
  <2>1. server[i] \in Directives
    OBVIOUS
  <2> QED
    BY <2>1, WriteType
<1>2. DOMAIN write = DOMAIN server /\ write = [i \in DOMAIN server |-> write[i]]
  OBVIOUS
<1>3. Each(server, Write) = FlattenSeq(write)
  BY Zenon DEF Each
<1> HIDE DEF write
<1>4. Each(server, Write) \in Seq(Tokens)
  BY <1>1, <1>2, <1>3, WrittenOneByOne, Zenon
<1>5. <<"server">> \in Seq(Words)
  BY Assumed, FewWords, Zenon
<1> QED
  BY <1>4, <1>5, BlockType, Zenon DEF WriteServer

\* and a file.
LEMMA WrittenType ==
    ASSUME NEW servers \in Seq(Seq(Directives))
    PROVE  Written(servers) \in Seq(Tokens) /\ Written(servers) \in Seq(Lexemes)
<1> DEFINE write == [i \in DOMAIN servers |-> WriteServer(servers[i])]
<1>1. \A i \in DOMAIN servers : write[i] \in Seq(Tokens)
  <2> SUFFICES ASSUME NEW i \in DOMAIN servers PROVE WriteServer(servers[i]) \in Seq(Tokens)
    OBVIOUS
  <2>1. servers[i] \in Seq(Directives)
    OBVIOUS
  <2> QED
    BY <2>1, ServerType
<1>2. DOMAIN write = DOMAIN servers /\ write = [i \in DOMAIN servers |-> write[i]]
  OBVIOUS
<1>3. Each(servers, WriteServer) = FlattenSeq(write)
  BY Zenon DEF Each
<1> HIDE DEF write
<1>4. Each(servers, WriteServer) \in Seq(Tokens)
  BY <1>1, <1>2, <1>3, WrittenOneByOne, Zenon
<1>5. <<"http">> \in Seq(Words)
  BY Assumed, FewWords, Zenon
<1>6. Written(servers) \in Seq(Tokens)
  BY <1>4, <1>5, BlockType, Zenon DEF Written
<1> QED
  BY <1>6, LexemeIs, SequencesGrow

\* Whatever is done to a file, its text is a sequence of lexemes.
LEMMA TextType ==
    ASSUME Init
    PROVE  Text \in Seq(Lexemes)
<1> DEFINE whole == Written(file)
<1>1. /\ file \in Seq(Seq(Directives))
      /\ edit = NoEdit \/ edit \in Edits(file)
  BY AssumedOfFiles DEF Init
<1>2. whole \in Seq(Lexemes) /\ Len(whole) \in Nat
  BY <1>1, WrittenType
<1>3. Text = CASE edit.kind = "none" -> whole
              [] edit.kind = "cut" -> SubSeq(whole, 1, edit.at)
              [] edit.kind = "extra" -> InsertAt(whole, edit.at + 1, edit.lexeme)
  BY Zenon DEF Text
<1> DEFINE places == 0 .. Len(whole) - 1
<1>4. edit \in Edits(file) => \/ edit \in [kind : {"cut"}, at : places, lexeme : {Semicolon}]
                              \/ edit \in [kind : {"extra"}, at : places, lexeme : Extras]
  BY Zenon DEF Edits
<1> HIDE DEF whole
<1>5. CASE edit = NoEdit
  BY <1>2, <1>3, <1>5 DEF NoEdit
<1>6. CASE edit \in [kind : {"cut"}, at : places, lexeme : {Semicolon}]
  <2>1. Text = SubSeq(whole, 1, edit.at) /\ edit.at \in 0 .. Len(whole)
    BY <1>2, <1>3, <1>6
  <2> QED
    BY <1>2, <2>1
<1>7. CASE edit \in [kind : {"extra"}, at : places, lexeme : Extras]
  <2> DEFINE p == edit.at + 1
             a == SubSeq(whole, 1, p - 1)
             b == SubSeq(whole, p, Len(whole))
             x == edit.lexeme
  <2>1. p \in 1 .. Len(whole) /\ edit.kind = "extra" /\ x \in Lexemes
    BY <1>2, <1>7, AssumedOfFiles
  <2>2. Text = InsertAt(whole, p, x)
    BY <1>3, <2>1
  <2>3. InsertAt(whole, p, x) = a \o <<x>> \o b
    BY Zenon DEF InsertAt
  <2> HIDE DEF p, x
  <2>4. a \in Seq(Lexemes) /\ b \in Seq(Lexemes) /\ <<x>> \in Seq(Lexemes)
    BY <1>2, <2>1
  <2> HIDE DEF a, b
  <2> QED
    BY <2>2, <2>3, <2>4
<1> QED
  BY <1>1, <1>4, <1>5, <1>6, <1>7

-----------------------------------------------------------------------------
(* Raw values: lists of strings, dictionaries of raw values, and lists of    *)
(* those.  A set of values is closed if it holds the parts of its values.    *)

Dicts(U) == UNION {[K -> U] : K \in SUBSET Arguments}
RawOver(U) == [kind : {"args"}, v : Seq(Arguments)] \union [kind : {"dict"}, v : Dicts(U)]
    \union [kind : {"many"}, v : Seq(U)]
Closed(U) == U \subseteq RawOver(U)

\* What a raw value is, by its kind,
LEMMA RawIs ==
    ASSUME NEW U, NEW value \in RawOver(U)
    PROVE  /\ value.kind \in {"args", "dict", "many"}
           /\ value.kind = "args" => value.v \in Seq(Arguments)
           /\ value.kind = "dict" => value.v \in Dicts(U)
           /\ value.kind = "many" => value.v \in Seq(U)
<1> DEFINE D == Dicts(U)
           A == Seq(Arguments)
           M == Seq(U)
<1> HIDE DEF D, A, M
<1>1. \/ value \in [kind : {"args"}, v : A] \/ value \in [kind : {"dict"}, v : D]
      \/ value \in [kind : {"many"}, v : M]
  BY Zenon DEF RawOver, D, A, M
<1>2. /\ value.kind \in {"args", "dict", "many"}
      /\ value.kind = "args" => value.v \in A
      /\ value.kind = "dict" => value.v \in D
      /\ value.kind = "many" => value.v \in M
  BY <1>1
<1> QED
  BY <1>2, Zenon DEF D, A, M

\* and what makes one.
LEMMA RawsAre ==
    ASSUME NEW U
    PROVE  /\ \A words \in Seq(Arguments) : Args(words) \in RawOver(U)
           /\ \A entries \in Dicts(U) : Dict(entries) \in RawOver(U)
           /\ \A items \in Seq(U) : Many(items) \in RawOver(U)
<1> DEFINE D == Dicts(U)
           A == Seq(Arguments)
           M == Seq(U)
<1> HIDE DEF D, A, M
<1>1. /\ \A words \in A : Args(words) \in [kind : {"args"}, v : A]
      /\ \A entries \in D : Dict(entries) \in [kind : {"dict"}, v : D]
      /\ \A items \in M : Many(items) \in [kind : {"many"}, v : M]
  BY DEF Args, Dict, Many
<1> QED
  BY <1>1, Zenon DEF RawOver, D, A, M

\* Dictionaries, one by one.
LEMMA DictIs ==
    ASSUME NEW U, NEW config
    PROVE  config \in Dicts(U) <=>
               /\ DOMAIN config \subseteq Arguments
               /\ config = [k \in DOMAIN config |-> config[k]]
               /\ \A k \in DOMAIN config : config[k] \in U
<1>1. ASSUME config \in Dicts(U)
      PROVE  /\ DOMAIN config \subseteq Arguments
             /\ config = [k \in DOMAIN config |-> config[k]]
             /\ \A k \in DOMAIN config : config[k] \in U
  <2>1. PICK K \in SUBSET Arguments : config \in [K -> U]
    BY <1>1, Zenon DEF Dicts
  <2> QED
    BY <2>1
<1>2. ASSUME DOMAIN config \subseteq Arguments,
             config = [k \in DOMAIN config |-> config[k]],
             \A k \in DOMAIN config : config[k] \in U
      PROVE  config \in Dicts(U)
  <2> DEFINE K == DOMAIN config
  <2>1. K \in SUBSET Arguments /\ config \in [K -> U]
    BY <1>2
  <2> HIDE DEF K
  <2> QED
    BY <2>1, Zenon DEF Dicts
<1> QED
  BY <1>1, <1>2

\* The empty dictionary is one over any set.
LEMMA EmptyIsDict == \A U : Empty \in Dicts(U)
<1> SUFFICES ASSUME NEW U PROVE Empty \in Dicts(U)
  OBVIOUS
<1>1. Empty \in [{} -> U] /\ {} \in SUBSET Arguments
  BY DEF Empty
<1> QED
  BY <1>1, Zenon DEF Dicts

\* More values make more dictionaries and more raw values.
LEMMA DictsGrow ==
    ASSUME NEW U, NEW W, U \subseteq W
    PROVE  Dicts(U) \subseteq Dicts(W)
<1> SUFFICES ASSUME NEW config \in Dicts(U) PROVE config \in Dicts(W)
  OBVIOUS
<1>1. PICK K \in SUBSET Arguments : config \in [K -> U]
  BY Zenon DEF Dicts
<1>2. config \in [K -> W]
  BY <1>1
<1> QED
  BY <1>2, Zenon DEF Dicts

\* Over more values there are more raw values.
LEMMA RawGrows ==
    ASSUME NEW U, NEW W, U \subseteq W
    PROVE  RawOver(U) \subseteq RawOver(W)
<1> SUFFICES ASSUME NEW value \in RawOver(U) PROVE value \in RawOver(W)
  OBVIOUS
<1> DEFINE D == Dicts(U)
           A == Seq(Arguments)
           M == Seq(U)
           D2 == Dicts(W)
           M2 == Seq(W)
<1>1. D \subseteq D2 /\ M \subseteq M2
  <2>1. M \subseteq M2
    OBVIOUS
  <2> QED
    BY <2>1, DictsGrow
<1> HIDE DEF D, A, M, D2, M2
<1>2. \/ value \in [kind : {"args"}, v : A] \/ value \in [kind : {"dict"}, v : D]
      \/ value \in [kind : {"many"}, v : M]
  BY Zenon DEF RawOver, D, A, M
<1>3. \/ value \in [kind : {"args"}, v : A] \/ value \in [kind : {"dict"}, v : D2]
      \/ value \in [kind : {"many"}, v : M2]
  BY <1>1, <1>2
<1> QED
  BY <1>3, Zenon DEF RawOver, D2, A, M2

\* One more raw value over a closed set.
LEMMA OneMoreRaw ==
    ASSUME NEW U, Closed(U), NEW value \in RawOver(U)
    PROVE  Closed(U \union {value})
<1> DEFINE W == U \union {value}
<1>1. U \subseteq RawOver(U) /\ U \subseteq W /\ value \in RawOver(U)
  BY DEF Closed
<1> HIDE DEF W
<1>2. RawOver(U) \subseteq RawOver(W)
  BY <1>1, RawGrows
<1>3. W \subseteq RawOver(W)
  BY <1>1, <1>2 DEF W
<1> QED
  BY <1>3, Zenon DEF Closed, W

\* A key gets a value.
LEMMA WithType ==
    ASSUME NEW U, NEW config \in Dicts(U), NEW key \in Arguments, NEW value \in U
    PROVE  With(config, key, value) \in Dicts(U)
<1>1. PICK K \in SUBSET Arguments : config \in [K -> U]
  BY Zenon DEF Dicts
<1> DEFINE L == K \union {key}
<1>2. L \in SUBSET Arguments
  BY <1>1
<1>3. With(config, key, value) \in [L -> U]
  BY <1>1 DEF With
<1> HIDE DEF L
<1> QED
  BY <1>2, <1>3, Zenon DEF Dicts

\* A repeated directive makes a list of what was there: one more raw value at most.
LEMMA AppendRepeatedType ==
    ASSUME NEW U, Closed(U), NEW config \in Dicts(U), NEW key \in Arguments, NEW value \in U
    PROVE  \E W : U \subseteq W /\ Closed(W) /\ AppendRepeated(config, key, value) \in Dicts(W)
<1>1. CASE key \notin DOMAIN config
  BY <1>1, WithType DEF AppendRepeated
<1>2. CASE key \in DOMAIN config
  <2> DEFINE existing == config[key]
             items == CASE existing.kind = "many" -> Append(existing.v, value)
                        [] ~IsTrue(existing) /\ existing.kind = "args" -> <<value>>
                        [] OTHER -> <<existing, value>>
             many == Many(items)
             W == U \union {many}
  <2>1. existing \in U
    BY <1>2, DictIs
  <2> HIDE DEF existing
  <2>2. existing \in RawOver(U)
    BY <2>1 DEF Closed
  <2>3. existing.kind = "many" => existing.v \in Seq(U)
    BY <2>2, RawIs
  <2>4. items \in Seq(U)
    <3>1. CASE existing.kind = "many"
      <4>1. items = Append(existing.v, value)
        BY <3>1
      <4> HIDE DEF items
      <4> QED
        BY <2>3, <3>1, <4>1
    <3>2. CASE ~IsTrue(existing) /\ existing.kind = "args"
      <4>1. items = <<value>>
        BY <3>2
      <4> HIDE DEF items
      <4> QED
        BY <4>1
    <3>3. CASE ~(existing.kind = "many") /\ ~(~IsTrue(existing) /\ existing.kind = "args")
      <4>1. items = <<existing, value>>
        BY <3>3
      <4> HIDE DEF items
      <4> QED
        BY <2>1, <4>1
    <3> QED
      BY <3>1, <3>2, <3>3
  <2>5. AppendRepeated(config, key, value) = With(config, key, many)
    BY <1>2, Zenon DEF AppendRepeated, existing
  <2> HIDE DEF items
  <2>6. many \in RawOver(U)
    BY <2>4, RawsAre
  <2> HIDE DEF many
  <2>7. Closed(W) /\ U \subseteq W /\ many \in W
    BY <2>6, OneMoreRaw
  <2>8. config \in Dicts(W)
    BY <2>7, DictsGrow
  <2> HIDE DEF W
  <2>9. With(config, key, many) \in Dicts(W)
    BY <2>7, <2>8, WithType
  <2> QED
    BY <2>5, <2>7, <2>9
<1> QED
  BY <1>1, <1>2

\* A block is stored.
Calls(U) == [config : Dicts(U), key : Arguments, args : Seq(Arguments)]
\* The fields of a call,
LEMMA CallIs ==
    ASSUME NEW U, NEW call \in Calls(U)
    PROVE  call.config \in Dicts(U) /\ call.key \in Arguments /\ call.args \in Seq(Arguments)
<1> DEFINE D == Dicts(U)
           A == Seq(Arguments)
<1> HIDE DEF D, A
<1>1. call \in [config : D, key : Arguments, args : A]
  BY Zenon DEF Calls, D, A
<1>2. call.config \in D /\ call.key \in Arguments /\ call.args \in A
  BY <1>1
<1> QED
  BY <1>2, Zenon DEF D, A

\* what they may become,
LEMMA CallChanges ==
    ASSUME NEW U, NEW call \in Calls(U), NEW W
    PROVE  /\ \A config \in Dicts(W), key \in Arguments :
                  U \subseteq W => [call EXCEPT !.config = config, !.key = key] \in Calls(W)
           /\ \A key \in Arguments, args \in Seq(Arguments) :
                  [call EXCEPT !.key = key, !.args = args] \in Calls(U)
           /\ \A args \in Seq(Arguments) : [call EXCEPT !.args = args] \in Calls(U)
<1> DEFINE D == Dicts(U)
           E == Dicts(W)
           A == Seq(Arguments)
<1> HIDE DEF D, E, A
<1>1. call \in [config : D, key : Arguments, args : A]
  BY Zenon DEF Calls, D, A
<1>2. /\ \A config \in E, key \in Arguments :
             [call EXCEPT !.config = config, !.key = key] \in [config : E, key : Arguments, args : A]
      /\ \A key \in Arguments, args \in A :
             [call EXCEPT !.key = key, !.args = args] \in [config : D, key : Arguments, args : A]
      /\ \A args \in A : [call EXCEPT !.args = args] \in [config : D, key : Arguments, args : A]
  BY <1>1
<1> QED
  BY <1>2, Zenon DEF Calls, D, E, A

\* and more values make more calls.
LEMMA CallsGrow ==
    ASSUME NEW U, NEW W, U \subseteq W
    PROVE  Calls(U) \subseteq Calls(W)
<1> DEFINE D == Dicts(U)
           E == Dicts(W)
           A == Seq(Arguments)
<1>1. D \subseteq E
  BY DictsGrow
<1> HIDE DEF D, E, A
<1>2. [config : D, key : Arguments, args : A] \subseteq [config : E, key : Arguments, args : A]
  BY <1>1
<1> QED
  BY <1>2, Zenon DEF Calls, D, E, A

\* Storing a block makes a dictionary or a list of what was there: one more raw value at most.
LEMMA StoredType ==
    ASSUME NEW U, Closed(U), NEW call \in Calls(U), NEW nested \in U, CanStore(call)
    PROVE  \E W : U \subseteq W /\ Closed(W) /\ Stored(call, nested) \in Calls(W)
<1> DEFINE existing == IF call.key \in DOMAIN call.config THEN call.config[call.key] ELSE Dict(Empty)
           config == IF call.args = <<>> THEN AppendRepeated(call.config, call.key, nested)
                     ELSE With(call.config, call.key, Dict(With(existing.v, call.args[1], nested)))
<1>1. call.config \in Dicts(U) /\ call.key \in Arguments /\ call.args \in Seq(Arguments)
  BY CallIs
<1>2. Stored(call, nested) = [call EXCEPT !.config = config, !.key = ""]
  BY Zenon DEF Stored
<1>3. "" \in Arguments
  BY DEF Arguments
<1>4. ASSUME NEW W, U \subseteq W, Closed(W), config \in Dicts(W)
      PROVE  Stored(call, nested) \in Calls(W)
  <2> HIDE DEF config
  <2>1. [call EXCEPT !.config = config, !.key = ""] \in Calls(W)
    BY <1>3, <1>4, CallChanges
  <2> QED
    BY <1>2, <2>1, Zenon
<1>5. CASE call.args = <<>>
  <2>1. config = AppendRepeated(call.config, call.key, nested)
    BY <1>5
  <2> HIDE DEF config
  <2> QED
    BY <1>1, <1>4, <2>1, AppendRepeatedType
<1>6. CASE call.args # <<>>
  <2> DEFINE entries == With(existing.v, call.args[1], nested)
             dict == Dict(entries)
             W == U \union {dict}
  <2>1. config = With(call.config, call.key, dict)
    BY <1>6
  <2>2. existing.v \in Dicts(U)
    <3>1. CASE call.key \in DOMAIN call.config
      <4>1. existing = call.config[call.key] /\ existing.kind = "dict"
        BY <1>6, <3>1 DEF CanStore
      <4>2. existing \in U
        BY <1>1, <3>1, <4>1, DictIs
      <4>3. existing \in RawOver(U)
        BY <4>2 DEF Closed
      <4> HIDE DEF existing
      <4> QED
        BY <4>1, <4>3, RawIs
    <3>2. CASE call.key \notin DOMAIN call.config
      <4>1. existing.v = Empty
        BY <3>2 DEF Dict
      <4> QED
        BY <4>1, EmptyIsDict
    <3> QED
      BY <3>1, <3>2
  <2>3. call.args[1] \in Arguments
    BY <1>1, <1>6
  <2> HIDE DEF existing, config
  <2>4. entries \in Dicts(U)
    BY <2>2, <2>3, WithType
  <2> HIDE DEF entries
  <2>5. dict \in RawOver(U)
    BY <2>4, RawsAre
  <2> HIDE DEF dict
  <2>6. Closed(W) /\ U \subseteq W /\ dict \in W
    BY <2>5, OneMoreRaw
  <2>7. call.config \in Dicts(W)
    BY <1>1, <2>6, DictsGrow
  <2> HIDE DEF W
  <2>8. config \in Dicts(W)
    BY <1>1, <2>1, <2>6, <2>7, WithType
  <2> QED
    BY <1>4, <2>6, <2>8
<1> QED
  BY <1>5, <1>6

-----------------------------------------------------------------------------
(* Sequences: all but the last, one more, the first few.                     *)

\* The first few elements,
LEMMA FirstsAre ==
    ASSUME NEW S, NEW s \in Seq(S), NEW n \in 0 .. Len(s)
    PROVE  /\ SubSeq(s, 1, n) \in Seq(S) /\ Len(SubSeq(s, 1, n)) = n
           /\ \A i \in 1 .. n : SubSeq(s, 1, n)[i] = s[i]
<1>1. Len(s) \in Nat /\ n \in Nat /\ n <= Len(s) /\ \A i \in 1 .. Len(s) : s[i] \in S
  OBVIOUS
<1>2. Len(SubSeq(s, 1, n)) = n
  BY <1>1
<1>3. SubSeq(s, 1, n) \in Seq(S)
  BY <1>1
<1>4. \A i \in 1 .. n : SubSeq(s, 1, n)[i] = s[i]
  BY <1>1
<1> QED
  BY <1>2, <1>3, <1>4

\* all but the last, and the last,
LEMMA FrontIs ==
    ASSUME NEW S, NEW s \in Seq(S), s # <<>>
    PROVE  /\ Front(s) \in Seq(S) /\ Len(Front(s)) = Len(s) - 1
           /\ \A i \in 1 .. Len(s) - 1 : Front(s)[i] = s[i]
           /\ Last(s) = s[Len(s)] /\ Last(s) \in S
           /\ Len(s) \in Nat /\ Len(s) > 0
<1> DEFINE n == Len(s) - 1
<1>1. Len(s) \in Nat /\ Len(s) > 0 /\ n \in 0 .. Len(s) /\ Len(s) \in 1 .. Len(s)
  OBVIOUS
<1>2. Front(s) = SubSeq(s, 1, n) /\ Last(s) = s[Len(s)]
  BY Zenon DEF Front, Last
<1>3. s[Len(s)] \in S
  BY <1>1
<1> HIDE DEF n
<1>4. /\ SubSeq(s, 1, n) \in Seq(S) /\ Len(SubSeq(s, 1, n)) = n
      /\ \A i \in 1 .. n : SubSeq(s, 1, n)[i] = s[i]
  BY <1>1, FirstsAre
<1> QED
  BY <1>1, <1>2, <1>3, <1>4, Zenon DEF n

\* and one more.
LEMMA OneMoreIs ==
    ASSUME NEW S, NEW s \in Seq(S), NEW x \in S
    PROVE  /\ s \o <<x>> \in Seq(S) /\ Len(s \o <<x>>) = Len(s) + 1
           /\ \A i \in 1 .. Len(s) : (s \o <<x>>)[i] = s[i]
           /\ Append(s, x) \in Seq(S) /\ Len(Append(s, x)) = Len(s) + 1
           /\ \A i \in 1 .. Len(s) : Append(s, x)[i] = s[i]
           /\ Len(s) \in Nat
<1>1. Len(s) \in Nat
  OBVIOUS
<1>2. s \o <<x>> \in Seq(S) /\ Len(s \o <<x>>) = Len(s) + 1
  OBVIOUS
<1>3. \A i \in 1 .. Len(s) : (s \o <<x>>)[i] = s[i]
  OBVIOUS
<1>4. Append(s, x) \in Seq(S) /\ Len(Append(s, x)) = Len(s) + 1
  OBVIOUS
<1>5. \A i \in 1 .. Len(s) : Append(s, x)[i] = s[i]
  OBVIOUS
<1> QED
  BY <1>1, <1>2, <1>3, <1>4, <1>5

-----------------------------------------------------------------------------
(* The calls of _parse_block that are active.                                *)

\* Replacing the innermost call leaves the others.
LEMMA ReplaceIs ==
    ASSUME NEW C, calls \in Seq(C), calls # <<>>, NEW D, C \subseteq D, NEW call \in D
    PROVE  /\ Replace(call) \in Seq(D) /\ Len(Replace(call)) = Len(calls)
           /\ \A i \in 1 .. Len(calls) - 1 : Replace(call)[i] = calls[i]
<1> DEFINE n == Len(calls)
           front == Front(calls)
           new == front \o <<call>>
<1>1. /\ n \in Nat /\ n > 0 /\ front \in Seq(C) /\ Len(front) = n - 1
      /\ \A i \in 1 .. n - 1 : front[i] = calls[i]
  BY FrontIs
<1> HIDE DEF front
<1>2. front \in Seq(D)
  BY <1>1, SequencesGrow
<1>3. /\ new \in Seq(D) /\ Len(new) = Len(front) + 1
      /\ \A i \in 1 .. Len(front) : new[i] = front[i]
  BY <1>2, OneMoreIs
<1>4. Replace(call) = new
  BY Zenon DEF Replace, front
<1> HIDE DEF new, n
<1>5. Len(new) = n /\ \A i \in 1 .. n - 1 : new[i] = calls[i]
  BY <1>1, <1>3
<1> QED
  BY <1>3, <1>4, <1>5 DEF n

\* Every call but the innermost is within a directive.
Waits(call) == call.key # ""
OuterCallsWait == \A i \in 1 .. Len(calls) - 1 : Waits(calls[i])

\* What the calls hold are raw values, and so is what parse() returned.
ValuesAreRaw == \E U : Closed(U) /\ calls \in Seq(Calls(U)) /\ raw \in Dicts(U)
Typed == tokens \in Seq(Lexemes) /\ pos \in 1 .. Len(tokens) + 1
Nested == Typed /\ ValuesAreRaw /\ OuterCallsWait

\* A token is one of the lexemes.
LEMMA TokenIs ==
    ASSUME Typed
    PROVE  /\ pos \in Nat /\ Len(tokens) \in Nat /\ pos >= 1
           /\ pos <= Len(tokens) => /\ Kind = tokens[pos].kind /\ Kind # "END" /\ After = pos + 1
                                    /\ Kind = "WORD" => Value \in Words
                                    /\ Kind = "STRING" => Value \in Arguments
                                    /\ Kind = "RBRACE" => tokens[pos] = RBrace
           /\ ~(pos <= Len(tokens)) => Kind = "END" /\ After = pos
           /\ After \in 1 .. Len(tokens) + 1
<1>1. pos \in Nat /\ Len(tokens) \in Nat /\ pos >= 1 /\ pos <= Len(tokens) + 1
  BY DEF Typed
<1>2. CASE pos <= Len(tokens)
  <2> DEFINE t == tokens[pos]
  <2>1. t \in Lexemes
    BY <1>1, <1>2 DEF Typed
  <2>2. Kind = t.kind /\ Value = t.value
    BY <1>2 DEF Kind, Value
  <2> HIDE DEF t
  <2>3. /\ t.kind # "END"
        /\ t.kind = "WORD" => t.value \in Words
        /\ t.kind = "STRING" => t.value \in Arguments
        /\ t.kind = "RBRACE" => t = RBrace
    <3>1. CASE t \in {LBrace, RBrace, Semicolon}
      <4>1. LBrace.kind = "LBRACE" /\ RBrace.kind = "RBRACE" /\ Semicolon.kind = "SEMICOLON"
        BY DEF LBrace, RBrace, Semicolon, Lexeme
      <4>2. CASE t = LBrace
        BY <4>1, <4>2
      <4>3. CASE t = RBrace
        BY <4>1, <4>3
      <4>4. CASE t = Semicolon
        BY <4>1, <4>4
      <4> QED
        BY <3>1, <4>2, <4>3, <4>4
    <3>2. CASE t \in [kind : {"WORD"}, value : Words]
      BY <3>2
    <3>3. CASE t \in [kind : {"STRING"}, value : Arguments]
      BY <3>3
    <3>4. CASE t \in [kind : {"COMMENT", "WHITESPACE", "OTHER"}, value : STRING]
      BY <3>4
    <3> QED
      BY <2>1, <3>1, <3>2, <3>3, <3>4, Zenon DEF Lexemes
  <2>4. After = pos + 1
    BY <2>2, <2>3 DEF After
  <2> QED
    BY <1>1, <1>2, <2>2, <2>3, <2>4 DEF t
<1>3. CASE ~(pos <= Len(tokens))
  <2>1. Kind = "END" /\ After = pos
    BY <1>3 DEF Kind, After
  <2> QED
    BY <1>1, <1>3, <2>1
<1> QED
  BY <1>2, <1>3

\* A step that changes the innermost call.
LEMMA ReplaceKeepsNested ==
    ASSUME Nested, calls # <<>>, NEW call, calls' = Replace(call),
           pos' = After, tokens' = tokens, raw' = raw,
           \A U : Closed(U) /\ Top \in Calls(U) => \E W : U \subseteq W /\ Closed(W) /\ call \in Calls(W)
    PROVE  Nested' /\ Len(calls') = Len(calls)
<1>1. PICK U : Closed(U) /\ calls \in Seq(Calls(U)) /\ raw \in Dicts(U)
  BY DEF Nested, ValuesAreRaw
<1>2. Top \in Calls(U)
  <2> DEFINE C == Calls(U)
  <2> HIDE DEF C
  <2>1. calls \in Seq(C)
    BY <1>1 DEF C
  <2>2. Last(calls) \in C
    BY <2>1, FrontIs
  <2> QED
    BY <2>2 DEF Top, C
<1>3. PICK W : U \subseteq W /\ Closed(W) /\ call \in Calls(W)
  BY <1>1, <1>2
<1>4. Calls(U) \subseteq Calls(W) /\ raw \in Dicts(W)
  BY <1>1, <1>3, CallsGrow, DictsGrow
<1>5. /\ Replace(call) \in Seq(Calls(W)) /\ Len(Replace(call)) = Len(calls)
      /\ \A i \in 1 .. Len(calls) - 1 : Replace(call)[i] = calls[i]
  <2> DEFINE C == Calls(U)
             D == Calls(W)
  <2> HIDE DEF C, D
  <2>1. calls \in Seq(C) /\ C \subseteq D /\ call \in D
    BY <1>1, <1>3, <1>4 DEF C, D
  <2>2. /\ Replace(call) \in Seq(D) /\ Len(Replace(call)) = Len(calls)
        /\ \A i \in 1 .. Len(calls) - 1 : Replace(call)[i] = calls[i]
    BY <2>1, ReplaceIs
  <2> QED
    BY <2>2 DEF D
<1>6. ValuesAreRaw'
  <2>1. Closed(W) /\ calls' \in Seq(Calls(W)) /\ raw' \in Dicts(W)
    BY <1>3, <1>4, <1>5
  <2> QED
    BY <2>1, Zenon DEF ValuesAreRaw
<1>7. OuterCallsWait'
  BY <1>5 DEF Nested, OuterCallsWait
<1>8. Typed'
  BY TokenIs DEF Nested, Typed
<1> QED
  BY <1>5, <1>6, <1>7, <1>8 DEF Nested

\* The steps that read a name,
LEMMA ReadNameNested == Nested /\ ReadName => Nested' /\ Len(calls') = Len(calls)
<1> SUFFICES ASSUME Nested, ReadName PROVE Nested' /\ Len(calls') = Len(calls)
  OBVIOUS
<1> DEFINE call == [Top EXCEPT !.key = Value, !.args = <<>>]
<1>1. calls # <<>> /\ calls' = Replace(call) /\ pos' = After /\ tokens' = tokens /\ raw' = raw
  BY DEF ReadName, ReadingName, Parsing
<1>2. Value \in Arguments
  <2>1. Kind = "WORD" /\ Typed
    BY DEF ReadName, Nested
  <2>2. Value \in Words
    BY <2>1, TokenIs
  <2> QED
    BY <2>2 DEF Arguments
<1>3. ASSUME NEW U, Closed(U), Top \in Calls(U) PROVE call \in Calls(U)
  <2>1. <<>> \in Seq(Arguments)
    OBVIOUS
  <2> QED
    BY <1>2, <1>3, <2>1, CallChanges
<1> HIDE DEF call
<1> QED
  BY <1>1, <1>3, ReplaceKeepsNested

\* an argument,
LEMMA ReadArgumentNested == Nested /\ ReadArgument => Nested' /\ Len(calls') = Len(calls)
<1> SUFFICES ASSUME Nested, ReadArgument PROVE Nested' /\ Len(calls') = Len(calls)
  OBVIOUS
<1> DEFINE call == [Top EXCEPT !.args = Append(@, Value)]
<1>1. calls # <<>> /\ calls' = Replace(call) /\ pos' = After /\ tokens' = tokens /\ raw' = raw
  BY DEF ReadArgument, ReadingArgs, Parsing
<1>2. Value \in Arguments
  <2>1. Kind \in {"WORD", "STRING"} /\ Typed
    BY DEF ReadArgument, Nested
  <2>2. Value \in Words \/ Value \in Arguments
    BY <2>1, TokenIs
  <2> QED
    BY <2>2 DEF Arguments
<1>3. ASSUME NEW U, Closed(U), Top \in Calls(U) PROVE call \in Calls(U)
  <2>1. Top.args \in Seq(Arguments)
    BY <1>3, CallIs
  <2>2. Append(Top.args, Value) \in Seq(Arguments)
    BY <1>2, <2>1
  <2>3. call = [Top EXCEPT !.args = Append(Top.args, Value)]
    OBVIOUS
  <2> QED
    BY <1>3, <2>2, <2>3, CallChanges
<1> HIDE DEF call
<1> QED
  BY <1>1, <1>3, ReplaceKeepsNested

\* and the semicolon of a directive change the innermost call only.
LEMMA EndDirectiveNested == Nested /\ EndDirective => Nested' /\ Len(calls') = Len(calls)
<1> SUFFICES ASSUME Nested, EndDirective PROVE Nested' /\ Len(calls') = Len(calls)
  OBVIOUS
<1> DEFINE config == AppendRepeated(Top.config, Top.key, Args(Top.args))
           call == [Top EXCEPT !.config = config, !.key = ""]
<1>1. calls # <<>> /\ calls' = Replace(call) /\ pos' = After /\ tokens' = tokens /\ raw' = raw
  BY DEF EndDirective, ReadingArgs, Parsing
<1>2. ASSUME NEW U, Closed(U), Top \in Calls(U)
      PROVE  \E W : U \subseteq W /\ Closed(W) /\ call \in Calls(W)
  <2> DEFINE args == Args(Top.args)
             V == U \union {args}
  <2>1. Top.config \in Dicts(U) /\ Top.key \in Arguments /\ Top.args \in Seq(Arguments)
    BY <1>2, CallIs
  <2>2. args \in RawOver(U)
    BY <2>1, RawsAre
  <2> HIDE DEF args
  <2>3. Closed(V) /\ U \subseteq V /\ args \in V
    BY <1>2, <2>2, OneMoreRaw
  <2>4. Top.config \in Dicts(V)
    BY <2>1, <2>3, DictsGrow
  <2> HIDE DEF V
  <2>5. PICK W : V \subseteq W /\ Closed(W) /\ AppendRepeated(Top.config, Top.key, args) \in Dicts(W)
    BY <2>1, <2>3, <2>4, AppendRepeatedType
  <2>6. config \in Dicts(W) /\ "" \in Arguments /\ U \subseteq W
    BY <2>3, <2>5 DEF args, Arguments
  <2> HIDE DEF config
  <2>7. [Top EXCEPT !.config = config, !.key = ""] \in Calls(W)
    BY <1>2, <2>6, CallChanges
  <2> QED
    BY <2>5, <2>6, <2>7
<1> HIDE DEF call
<1> QED
  BY <1>1, <1>2, ReplaceKeepsNested

\* A block that is opened adds a call, and the call that opens it waits.
LEMMA OpenBlockNested == Nested /\ OpenBlock => Nested' /\ Len(calls') = Len(calls) + 1
<1> SUFFICES ASSUME Nested, OpenBlock PROVE Nested' /\ Len(calls') = Len(calls) + 1
  OBVIOUS
<1>1. /\ calls # <<>> /\ calls' = Append(calls, Call)
      /\ pos' = After /\ tokens' = tokens /\ raw' = raw
  BY DEF OpenBlock, ReadingArgs, Parsing
<1>0. Waits(Top)
  BY DEF OpenBlock, ReadingArgs, Parsing, Waits
<1>2. PICK U : Closed(U) /\ calls \in Seq(Calls(U)) /\ raw \in Dicts(U)
  BY DEF Nested, ValuesAreRaw
<1> DEFINE C == Calls(U)
           n == Len(calls)
<1>3. Call \in C
  <2> DEFINE D == Dicts(U)
             A == Seq(Arguments)
  <2>1. Empty \in D /\ "" \in Arguments /\ <<>> \in A
    BY EmptyIsDict DEF Arguments
  <2> HIDE DEF D, A
  <2>2. Call \in [config : D, key : Arguments, args : A]
    BY <2>1 DEF Call
  <2> QED
    BY <2>2, Zenon DEF Calls, D, A
<1> HIDE DEF C
<1>4. calls \in Seq(C) /\ n \in Nat
  BY <1>2 DEF C
<1>5. calls' \in Seq(C) /\ Len(calls') = n + 1 /\ \A i \in 1 .. n : calls'[i] = calls[i]
  BY <1>1, <1>3, <1>4, OneMoreIs
<1>6. ValuesAreRaw'
  <2>1. Closed(U) /\ calls' \in Seq(Calls(U)) /\ raw' \in Dicts(U)
    BY <1>1, <1>2, <1>5 DEF C
  <2> QED
    BY <2>1, Zenon DEF ValuesAreRaw
<1>7. OuterCallsWait'
  <2>1. Top = calls[n]
    BY DEF Top, Last
  <2>2. \A i \in 1 .. n - 1 : Waits(calls[i])
    BY DEF Nested, OuterCallsWait
  <2>3. Waits(calls[n])
    BY <1>0, <2>1
  <2> HIDE DEF n
  <2>4. \A i \in 1 .. n : Waits(calls[i])
    BY <1>4, <2>2, <2>3
  <2>5. \A i \in 1 .. Len(calls') - 1 : Waits(calls'[i])
    BY <1>4, <1>5, <2>4
  <2> QED
    BY <2>5, Zenon DEF OuterCallsWait, Waits
<1>8. Typed'
  BY <1>1, TokenIs DEF Nested, Typed
<1> QED
  BY <1>5, <1>6, <1>7, <1>8 DEF Nested

\* A block that is closed is stored by the call that waits for it, or refused.
LEMMA CloseBlockNested ==
    ASSUME Nested, CloseBlock
    PROVE  /\ Nested'
           /\ Refuse \/ (Len(calls') = Len(calls) - 1 /\ calls' # <<>> /\ pos' = After /\ tokens' = tokens)
<1> DEFINE n == Len(calls)
           outer == calls[n - 1]
           nested == Dict(Top.config)
           rest == SubSeq(calls, 1, n - 2)
           call == Stored(outer, nested)
<1>1. CASE Refuse
  BY <1>1 DEF Refuse, input, Nested, Typed, ValuesAreRaw, OuterCallsWait
<1>2. CASE ~Refuse
  <2>1. /\ n > 1 /\ CanStore(outer) /\ calls' = rest \o <<call>>
        /\ pos' = After /\ tokens' = tokens /\ raw' = raw
    BY <1>2 DEF CloseBlock
  <2>2. PICK U : Closed(U) /\ calls \in Seq(Calls(U)) /\ raw \in Dicts(U)
    BY DEF Nested, ValuesAreRaw
  <2> DEFINE C == Calls(U)
             V == U \union {nested}
  <2>3. n \in Nat /\ outer \in C /\ Top \in C /\ rest \in Seq(C) /\ Len(rest) = n - 2
        /\ \A i \in 1 .. n - 2 : rest[i] = calls[i]
    <3> HIDE DEF C
    <3>1. calls \in Seq(C) /\ calls # <<>>
      BY <2>1, <2>2 DEF C
    <3>2. n \in Nat /\ Top \in C
      BY <3>1, FrontIs DEF Top
    <3>3. n - 2 \in 0 .. n /\ outer \in C
      BY <2>1, <3>1, <3>2
    <3>4. /\ SubSeq(calls, 1, n - 2) \in Seq(C) /\ Len(SubSeq(calls, 1, n - 2)) = n - 2
          /\ \A i \in 1 .. n - 2 : SubSeq(calls, 1, n - 2)[i] = calls[i]
      <4> DEFINE m == n - 2
      <4>1. m \in 0 .. Len(calls)
        BY <3>3
      <4> HIDE DEF m
      <4>2. /\ SubSeq(calls, 1, m) \in Seq(C) /\ Len(SubSeq(calls, 1, m)) = m
            /\ \A i \in 1 .. m : SubSeq(calls, 1, m)[i] = calls[i]
        BY <3>1, <4>1, FirstsAre
      <4> QED
        BY <4>2 DEF m
    <3> QED
      BY <3>2, <3>3, <3>4
  <2>4. nested \in RawOver(U)
    <3>1. Top.config \in Dicts(U)
      BY <2>3, CallIs
    <3> QED
      BY <3>1, RawsAre
  <2> HIDE DEF nested, rest, outer
  <2>5. Closed(V) /\ U \subseteq V /\ nested \in V
    BY <2>2, <2>4, OneMoreRaw
  <2>6. outer \in Calls(V)
    BY <2>3, <2>5, CallsGrow
  <2> HIDE DEF V, n
  <2>7. PICK W : V \subseteq W /\ Closed(W) /\ Stored(outer, nested) \in Calls(W)
    BY <2>1, <2>5, <2>6, StoredType
  <2> DEFINE D == Calls(W)
  <2>8. C \subseteq D /\ raw \in Dicts(W) /\ call \in D
    BY <2>2, <2>5, <2>7, CallsGrow, DictsGrow
  <2> HIDE DEF call
  <2>9. /\ calls' \in Seq(D) /\ Len(calls') = n - 1
        /\ \A i \in 1 .. n - 2 : calls'[i] = calls[i]
    <3> HIDE DEF C, D
    <3>1. rest \in Seq(D)
      BY <2>3, <2>8, SequencesGrow
    <3>2. calls' = rest \o <<call>> /\ call \in D
      BY <2>1, <2>8 DEF call
    <3>3. /\ calls' \in Seq(D) /\ Len(calls') = Len(rest) + 1
          /\ \A i \in 1 .. Len(rest) : calls'[i] = rest[i]
      BY <3>1, <3>2, OneMoreIs
    <3> QED
      BY <2>3, <3>3
  <2>10. ValuesAreRaw'
    <3>1. Closed(W) /\ calls' \in Seq(Calls(W)) /\ raw' \in Dicts(W)
      BY <2>1, <2>7, <2>8, <2>9
    <3> QED
      BY <3>1, Zenon DEF ValuesAreRaw
  <2>11. OuterCallsWait'
    <3>1. \A i \in 1 .. n - 1 : Waits(calls[i])
      BY DEF Nested, OuterCallsWait, n
    <3>2. \A i \in 1 .. Len(calls') - 1 : Waits(calls'[i])
      BY <2>3, <2>9, <3>1
    <3> QED
      BY <3>2, Zenon DEF OuterCallsWait, Waits
  <2>12. Typed'
    BY <2>1, TokenIs DEF Nested, Typed
  <2>13. calls' # <<>>
    BY <2>1, <2>3, <2>9
  <2> QED
    BY <2>1, <2>9, <2>10, <2>11, <2>12, <2>13 DEF Nested, n
<1> QED
  BY <1>1, <1>2

\* What the outermost call returns is a raw dictionary.
LEMMA FinishParseNested == Nested /\ FinishParse => Nested'
<1> SUFFICES ASSUME Nested, FinishParse PROVE Nested'
  OBVIOUS
<1>1. /\ raw' = Top.config /\ calls' = <<>> /\ pos' = After /\ tokens' = tokens
      /\ Len(calls) = 1
  BY DEF FinishParse
<1>2. PICK U : Closed(U) /\ calls \in Seq(Calls(U)) /\ raw \in Dicts(U)
  BY DEF Nested, ValuesAreRaw
<1>3. Top.config \in Dicts(U)
  <2> DEFINE C == Calls(U)
  <2> HIDE DEF C
  <2>1. calls \in Seq(C)
    BY <1>2 DEF C
  <2>2. Top \in C
    <3>1. calls # <<>>
      BY <1>1
    <3> QED
      BY <2>1, <3>1, FrontIs DEF Top
  <2> QED
    BY <2>2, CallIs DEF C
<1>4. ValuesAreRaw'
  <2>1. Closed(U) /\ calls' \in Seq(Calls(U)) /\ raw' \in Dicts(U)
    BY <1>1, <1>2, <1>3
  <2> QED
    BY <2>1, Zenon DEF ValuesAreRaw
<1>5. OuterCallsWait'
  <2>1. \A i \in 1 .. Len(calls') - 1 : Waits(calls'[i])
    BY <1>1
  <2> QED
    BY <2>1, Zenon DEF OuterCallsWait, Waits
<1>6. Typed'
  BY <1>1, TokenIs DEF Nested, Typed
<1> QED
  BY <1>4, <1>5, <1>6 DEF Nested

-----------------------------------------------------------------------------
(* Braces.                                                                   *)

\* One more number counts if it is in the set.
LEMMA CountStep ==
    ASSUME NEW n \in Nat, NEW P
    PROVE  /\ Cardinality((1 .. n) \cap P) \in Nat
           /\ n + 1 \in P => Cardinality((1 .. n + 1) \cap P) = Cardinality((1 .. n) \cap P) + 1
           /\ n + 1 \notin P => Cardinality((1 .. n + 1) \cap P) = Cardinality((1 .. n) \cap P)
<1> DEFINE A == (1 .. n) \cap P
           B == (1 .. n + 1) \cap P
<1>1. IsFiniteSet(1 .. n)
  BY FS_Interval
<1>2. IsFiniteSet(A)
  BY <1>1, FS_Intersection
<1>3. n + 1 \in P => B = A \union {n + 1}
  OBVIOUS
<1>4. n + 1 \notin P => B = A
  OBVIOUS
<1>5. n + 1 \notin A
  OBVIOUS
<1> HIDE DEF A, B
<1>6. Cardinality(A) \in Nat /\ Cardinality(A \union {n + 1}) = Cardinality(A) + 1
  BY <1>2, <1>5, FS_CardinalityType, FS_AddElement
<1> QED
  BY <1>3, <1>4, <1>6 DEF A, B

Of(kind) == {i \in Nat : tokens[i].kind = kind}

\* A token read is counted.
LEMMA CountIs ==
    ASSUME Typed, pos <= Len(tokens), pos' = After, tokens' = tokens, NEW kind
    PROVE  /\ Count(kind) \in Nat
           /\ Kind = kind => (Count(kind))' = Count(kind) + 1
           /\ Kind # kind => (Count(kind))' = Count(kind)
<1> DEFINE n == pos - 1
           P == Of(kind)
<1>1. n \in Nat /\ pos = n + 1 /\ pos' = pos + 1 /\ Kind = tokens[pos].kind
  BY TokenIs
<1>2. {i \in 1 .. n : tokens[i].kind = kind} = (1 .. n) \cap P
  BY <1>1 DEF Of
<1>3. {i \in 1 .. n + 1 : tokens[i].kind = kind} = (1 .. n + 1) \cap P
  BY <1>1 DEF Of
<1>4. n + 1 \in P <=> Kind = kind
  BY <1>1 DEF Of
<1>5. Count(kind) = Cardinality((1 .. n) \cap P)
  BY <1>2 DEF Count
<1>6. (Count(kind))' = Cardinality((1 .. n + 1) \cap P)
  <2>1. (Count(kind))' = Cardinality({i \in 1 .. pos' - 1 : tokens[i].kind = kind})
    BY DEF Count
  <2>2. pos' - 1 = n + 1
    BY <1>1
  <2> HIDE DEF n, P
  <2> QED
    BY <1>3, <2>1, <2>2
<1> HIDE DEF n, P
<1> QED
  BY <1>1, <1>4, <1>5, <1>6, CountStep

Openings == Count("LBRACE")
Closings == Count("RBRACE")

\* What a token adds to the two counts.
LEMMA BracesCount ==
    ASSUME Typed, pos <= Len(tokens), pos' = After, tokens' = tokens
    PROVE  /\ Openings \in Nat /\ Closings \in Nat
           /\ Kind = "LBRACE" => Openings' = Openings + 1 /\ Closings' = Closings
           /\ Kind = "RBRACE" => Openings' = Openings /\ Closings' = Closings + 1
           /\ Kind \notin {"LBRACE", "RBRACE"} => Openings' = Openings /\ Closings' = Closings
<1>1. /\ Openings \in Nat
      /\ Kind = "LBRACE" => Openings' = Openings + 1
      /\ Kind # "LBRACE" => Openings' = Openings
  BY CountIs DEF Openings
<1>2. /\ Closings \in Nat
      /\ Kind = "RBRACE" => Closings' = Closings + 1
      /\ Kind # "RBRACE" => Closings' = Closings
  BY CountIs DEF Closings
<1> QED
  BY <1>1, <1>2

\* What the calls must be for the braces to match, and to match after a step.
LEMMA BracesAre ==
    ASSUME BracesMatch, pos <= Len(tokens), calls # <<>>
    PROVE  Openings = Closings + (Len(calls) - 1)
BY DEF BracesMatch, Openings, Closings

\* What is to be shown after a step, while a block is open and after the last.
LEMMA BracesMatchAfter ==
    /\ (pos' <= Len(tokens') => calls' # <<>> /\ Openings' = Closings' + (Len(calls') - 1)) => BracesMatch'
    /\ (pos' <= Len(tokens') => calls' = <<>> /\ Closings' = Openings' + 1 /\ tokens'[pos' - 1] = RBrace) => BracesMatch'
BY DEF BracesMatch, Openings, Closings

\* A step that reads a token and neither opens nor closes a block.
LEMMA ReadingKeepsBraces ==
    ASSUME Typed, BracesMatch, calls # <<>>, calls' # <<>>, Len(calls') = Len(calls),
           pos' = After, tokens' = tokens, Kind \notin {"LBRACE", "RBRACE"}, Len(calls) \in Nat
    PROVE  BracesMatch'
<1>1. CASE pos <= Len(tokens)
  <2>1. Openings = Closings + (Len(calls) - 1)
    BY <1>1, BracesAre
  <2>2. Openings' = Openings /\ Closings' = Closings
    BY <1>1, BracesCount
  <2> QED
    BY <2>1, <2>2, BracesMatchAfter
<1>2. CASE ~(pos <= Len(tokens))
  BY <1>2, TokenIs DEF BracesMatch
<1> QED
  BY <1>1, <1>2

\* A step that opens a block,
LEMMA OpeningKeepsBraces ==
    ASSUME Typed, BracesMatch, calls # <<>>, calls' # <<>>, Len(calls') = Len(calls) + 1,
           pos' = After, tokens' = tokens, Kind = "LBRACE", Len(calls) \in Nat
    PROVE  BracesMatch'
<1>1. pos <= Len(tokens)
  <2>1. ~(pos <= Len(tokens)) => Kind = "END"
    BY TokenIs
  <2> QED
    BY <2>1
<1>2. Openings = Closings + (Len(calls) - 1)
  BY <1>1, BracesAre
<1>3. Openings' = Openings + 1 /\ Closings' = Closings /\ Openings \in Nat /\ Closings \in Nat
  BY <1>1, BracesCount
<1>4. Openings' = Closings' + (Len(calls') - 1)
  BY <1>2, <1>3
<1> QED
  BY <1>4, BracesMatchAfter

\* and one that closes a block or ends the parse.
LEMMA ClosingKeepsBraces ==
    ASSUME Typed, BracesMatch, calls # <<>>, Len(calls) \in Nat,
           pos' = After, tokens' = tokens, Kind \in {"RBRACE", "END"},
           \/ calls' # <<>> /\ Len(calls') = Len(calls) - 1
           \/ calls' = <<>> /\ Len(calls) = 1
    PROVE  BracesMatch'
<1>1. CASE pos <= Len(tokens)
  <2>1. Kind = "RBRACE" /\ tokens[pos] = RBrace /\ pos' = pos + 1 /\ pos \in Nat
    <3>1. Kind # "END"
      BY <1>1, TokenIs
    <3>2. Kind = "RBRACE"
      BY <3>1
    <3> QED
      BY <1>1, <3>2, TokenIs
  <2>2. Openings = Closings + (Len(calls) - 1)
    BY <1>1, BracesAre
  <2>3. Openings' = Openings /\ Closings' = Closings + 1 /\ Openings \in Nat /\ Closings \in Nat
    BY <1>1, <2>1, BracesCount
  <2>4. CASE calls' # <<>> /\ Len(calls') = Len(calls) - 1
    <3>1. Openings' = Closings' + (Len(calls') - 1)
      BY <2>2, <2>3, <2>4
    <3> QED
      BY <2>4, <3>1, BracesMatchAfter
  <2>5. CASE calls' = <<>> /\ Len(calls) = 1
    <3>1. Closings' = Openings' + 1
      BY <2>2, <2>3, <2>5
    <3>2. tokens'[pos' - 1] = RBrace
      <4>1. pos' - 1 = pos
        BY <2>1
      <4> QED
        BY <2>1, <4>1
    <3> QED
      BY <2>5, <3>1, <3>2, BracesMatchAfter
  <2> QED
    BY <2>4, <2>5
<1>2. CASE ~(pos <= Len(tokens))
  BY <1>2, TokenIs DEF BracesMatch
<1> QED
  BY <1>1, <1>2

-----------------------------------------------------------------------------
(* The servers that are loaded.                                              *)

ServersAreUsable ==
    Loaded => /\ result.servers # <<>>
              /\ \A i \in DOMAIN result.servers :
                     /\ result.servers[i].listens # <<>>
                     /\ (result.servers[i].tls.certificate = "") = (result.servers[i].tls.key = "")

\* The server blocks are a sequence of raw values.
LEMMA RawServersType ==
    ASSUME NEW U, Closed(U), NEW config \in Dicts(U)
    PROVE  RawServers(config) \in Seq(U)
<1> DEFINE http == IF "http" \in DOMAIN config THEN config["http"] ELSE Dict(Empty)
           server == http.v["server"]
<1>1. RawServers(config) =
          IF http.kind # "dict" \/ "server" \notin DOMAIN http.v THEN <<>>
          ELSE CASE IsBlock(server) -> <<server>>
                 [] server.kind = "many" ->
                    Elements(server.v, {i \in DOMAIN server.v : IsBlock(server.v[i])})
                 [] OTHER -> <<>>
  BY Zenon DEF RawServers
<1>2. CASE http.kind # "dict" \/ "server" \notin DOMAIN http.v
  <2>1. RawServers(config) = <<>>
    BY <1>1, <1>2, Zenon
  <2> QED
    BY <2>1
<1>3. CASE ~(http.kind # "dict" \/ "server" \notin DOMAIN http.v)
  <2>1. http.v \in Dicts(U)
    <3>1. CASE "http" \in DOMAIN config
      <4>1. http = config["http"]
        BY <3>1
      <4>2. http \in U
        BY <3>1, <4>1, DictIs
      <4>3. http \in RawOver(U)
        BY <4>2 DEF Closed
      <4> HIDE DEF http
      <4> QED
        BY <1>3, <4>3, RawIs
    <3>2. CASE "http" \notin DOMAIN config
      <4>1. http.v = Empty
        BY <3>2 DEF Dict
      <4> QED
        BY <4>1, EmptyIsDict
    <3> QED
      BY <3>1, <3>2
  <2> HIDE DEF http
  <2>2. server \in U
    BY <1>3, <2>1, DictIs
  <2>3. server \in RawOver(U)
    BY <2>2 DEF Closed
  <2> DEFINE blocks == {i \in DOMAIN server.v : IsBlock(server.v[i])}
             given == Elements(server.v, blocks)
  <2>7. RawServers(config) = CASE IsBlock(server) -> <<server>>
                               [] server.kind = "many" -> given
                               [] OTHER -> <<>>
    BY <1>1, <1>3, Zenon
  <2>8. IsBlock(server) => ~(server.kind = "many")
    BY DEF IsBlock
  <2> HIDE DEF server, given
  <2>4. CASE IsBlock(server)
    <3>1. RawServers(config) = <<server>>
      BY <2>7, <2>8, <2>4
    <3> QED
      BY <2>2, <3>1
  <2>5. CASE ~IsBlock(server) /\ server.kind = "many"
    <3>1. server.v \in Seq(U)
      BY <2>3, <2>5, RawIs
    <3>2. RawServers(config) = given
      BY <2>7, <2>5
    <3> HIDE DEF blocks
    <3> QED
      BY <3>1, <3>2, ElementsType DEF given
  <2>6. CASE ~IsBlock(server) /\ ~(server.kind = "many")
    <3>1. RawServers(config) = <<>>
      BY <2>7, <2>6
    <3> QED
      BY <3>1
  <2> QED
    BY <2>4, <2>5, <2>6
<1> QED
  BY <1>2, <1>3

\* What a server block is converted to.
LEMMA ConvertedIsUsable ==
    ASSUME NEW block, CanConvert(block)
    PROVE  /\ ConvertServer(block).listens # <<>>
           /\ (ConvertServer(block).tls.certificate = "") = (ConvertServer(block).tls.key = "")
<1> DEFINE listens == ParseListen(block)
           tls == ParseTLS(block)
           certificate == FirstArg(block, "ssl_certificate", "")
           key == FirstArg(block, "ssl_certificate_key", "")
<1>1. ConvertServer(block).listens = listens /\ ConvertServer(block).tls = tls
  <2> HIDE DEF listens, tls
  <2> QED
    BY DEF ConvertServer, listens, tls
<1>2. listens # <<>>
  <2>1. DefaultListens # <<>>
    BY DEF DefaultListens
  <2>2. \E given : listens = IF given = <<>> THEN DefaultListens ELSE given
    BY Zenon DEF ParseListen
  <2> HIDE DEF listens
  <2> QED
    BY <2>1, <2>2
<1>3. (certificate = "") = (key = "")
  BY Zenon DEF CanConvert, NeedsBoth
<1>4. (tls.certificate = "") = (tls.key = "")
  <2>1. \E chain : tls = IF certificate = "" THEN NoTLS
                         ELSE [certificate |-> certificate, key |-> key, chain |-> chain]
    BY Zenon DEF ParseTLS
  <2> HIDE DEF tls, certificate, key
  <2>2. PICK chain : tls = IF certificate = "" THEN NoTLS
                         ELSE [certificate |-> certificate, key |-> key, chain |-> chain]
    BY <2>1
  <2>3. CASE certificate = ""
    BY <2>2, <2>3 DEF NoTLS
  <2>4. CASE certificate # ""
    BY <1>3, <2>2, <2>4
  <2> QED
    BY <2>3, <2>4
<1> QED
  BY <1>1, <1>2, <1>4, Zenon

\* What the conversion returns can be bound and certified.
LEMMA ConvertMakesUsable ==
    ASSUME ValuesAreRaw, Convert
    PROVE  ServersAreUsable'
<1> DEFINE servers == RawServers(raw)
           converted == [i \in DOMAIN servers |-> ConvertServer(servers[i].v)]
<1>1. PICK U : Closed(U) /\ raw \in Dicts(U)
  BY DEF ValuesAreRaw
<1>2. servers \in Seq(U)
  BY <1>1, RawServersType
<1>3. result' = IF servers = <<>> \/ \E i \in DOMAIN servers : ~CanConvert(servers[i].v) THEN Refused
                ELSE AppConfig(converted)
  BY Zenon DEF Convert, ParseConfigDict
<1> HIDE DEF servers
<1>4. CASE servers = <<>> \/ \E i \in DOMAIN servers : ~CanConvert(servers[i].v)
  <2>1. result' = Refused
    BY <1>3, <1>4
  <2>2. result'.status # "loaded"
    BY <2>1 DEF Refused
  <2> QED
    BY <2>2 DEF ServersAreUsable, Loaded
<1>5. CASE ~(servers = <<>> \/ \E i \in DOMAIN servers : ~CanConvert(servers[i].v))
  <2>1. result' = AppConfig(converted)
    BY <1>3, <1>5, Zenon
  <2>2. result'.servers = converted
    <3> HIDE DEF converted
    <3> QED
      BY <2>1 DEF AppConfig
  <2>3. converted # <<>>
    <3>1. 1 \in DOMAIN servers
      BY <1>2, <1>5
    <3>2. 1 \in DOMAIN converted
      BY <3>1
    <3> HIDE DEF converted
    <3> QED
      BY <3>2
  <2>4. ASSUME NEW i \in DOMAIN converted
        PROVE  /\ converted[i].listens # <<>>
               /\ (converted[i].tls.certificate = "") = (converted[i].tls.key = "")
    <3>1. i \in DOMAIN servers /\ converted[i] = ConvertServer(servers[i].v)
      BY <2>4
    <3>2. CanConvert(servers[i].v)
      BY <1>5, <3>1
    <3> HIDE DEF converted
    <3> QED
      BY <3>1, <3>2, ConvertedIsUsable, ZenonT(40)
  <2> HIDE DEF converted
  <2> QED
    BY <2>2, <2>3, <2>4, Zenon DEF ServersAreUsable
<1> QED
  BY <1>4, <1>5

-----------------------------------------------------------------------------
(* The invariant.                                                            *)

ReadingIsSound == Nested /\ BracesMatch /\ ServersAreUsable

\* A call begins with an empty dictionary.
LEMMA CallIsFresh == \A U : Call \in Calls(U)
<1> SUFFICES ASSUME NEW U PROVE Call \in Calls(U)
  OBVIOUS
<1> DEFINE D == Dicts(U)
           A == Seq(Arguments)
<1>1. Empty \in D /\ "" \in Arguments /\ <<>> \in A
  BY EmptyIsDict DEF Arguments
<1> HIDE DEF D, A
<1>2. Call \in [config : D, key : Arguments, args : A]
  BY <1>1 DEF Call
<1> QED
  BY <1>2, Zenon DEF Calls, D, A

\* The parser begins with one call that has read nothing.
LEMMA StartIsSound == Init => ReadingIsSound
<1> SUFFICES ASSUME Init PROVE ReadingIsSound
  OBVIOUS
<1>1. PICK text \in {Text} : /\ tokens = Tokenize(text)
                             /\ result = IF HasUnmatched(text) THEN Refused ELSE Pending
  BY Zenon DEF Init
<1>2. pos = 1 /\ calls = <<Call>> /\ raw = Empty
  BY DEF Init
<1>3. tokens \in Seq(Lexemes)
  <2>1. text \in Seq(Lexemes)
    BY <1>1, TextType
  <2> DEFINE positions == {i \in DOMAIN text : IsToken(text[i])}
  <2>2. tokens = Elements(text, positions)
    BY <1>1, Zenon DEF Tokenize
  <2> HIDE DEF positions
  <2> QED
    BY <2>1, <2>2, ElementsType
<1>4. Typed
  BY <1>2, <1>3 DEF Typed
<1>5. ValuesAreRaw
  <2>1. Closed({}) /\ raw \in Dicts({})
    BY <1>2, EmptyIsDict DEF Closed
  <2> DEFINE C == Calls({})
  <2>2. Call \in C
    BY CallIsFresh
  <2> HIDE DEF C
  <2>3. calls \in Seq(C)
    BY <1>2, <2>2
  <2> QED
    BY <2>1, <2>3, Zenon DEF ValuesAreRaw, C
<1>6. Len(calls) = 1
  BY <1>2
<1>7. OuterCallsWait
  BY <1>6 DEF OuterCallsWait
<1>8. BracesMatch
  <2>1. \A kind : Count(kind) = 0
    <3>1. \A kind : {i \in 1 .. pos - 1 : tokens[i].kind = kind} = {}
      BY <1>2
    <3> QED
      BY <3>1, FS_EmptySet DEF Count
  <2>2. calls # <<>>
    BY <1>2
  <2> QED
    BY <1>6, <2>1, <2>2 DEF BracesMatch
<1>9. ServersAreUsable
  <2>1. result.status # "loaded"
    BY <1>1 DEF Refused, Pending
  <2> QED
    BY <2>1 DEF ServersAreUsable, Loaded
<1> QED
  BY <1>4, <1>5, <1>7, <1>8, <1>9 DEF ReadingIsSound, Nested

\* What holds of the calls and tokens goes on holding while they do not change.
LEMMA RestingKeepsReading ==
    ASSUME Nested, BracesMatch, UNCHANGED <<tokens, pos, calls, raw>>
    PROVE  Nested' /\ BracesMatch'
<1>1. Typed' /\ OuterCallsWait'
  BY DEF Nested, Typed, OuterCallsWait, Waits
<1>2. ValuesAreRaw'
  BY Zenon DEF Nested, ValuesAreRaw
<1>3. BracesMatch'
  BY DEF BracesMatch, Count
<1> QED
  BY <1>1, <1>2, <1>3 DEF Nested

\* An exception loads nothing.
LEMMA RefusingKeepsUsable == Refuse => ServersAreUsable'
<1> SUFFICES ASSUME Refuse PROVE ServersAreUsable'
  OBVIOUS
<1>1. result'.status # "loaded"
  BY DEF Refuse, Refused
<1> QED
  BY <1>1 DEF ServersAreUsable, Loaded

\* There is a call as long as the calls are some.
LEMMA CallsAreCounted ==
    ASSUME NEW stack, \E U : stack \in Seq(Calls(U))
    PROVE  Len(stack) \in Nat /\ (stack = <<>> <=> Len(stack) = 0)
<1>1. PICK U : stack \in Seq(Calls(U))
  OBVIOUS
<1> DEFINE C == Calls(U)
<1> HIDE DEF C
<1>2. stack \in Seq(C)
  BY <1>1 DEF C
<1> QED
  BY <1>2

\* With as many calls or one more, there are some.
LEMMA CallsGoOn ==
    ASSUME Nested
    PROVE  /\ Len(calls) \in Nat
           /\ Nested' /\ calls # <<>> /\ Len(calls') \in {Len(calls), Len(calls) + 1} => calls' # <<>>
<1>1. Len(calls) \in Nat /\ (calls = <<>> <=> Len(calls) = 0)
  BY CallsAreCounted DEF Nested, ValuesAreRaw
<1>2. ASSUME Nested' PROVE Len(calls') \in Nat /\ (calls' = <<>> <=> Len(calls') = 0)
  BY <1>2, CallsAreCounted DEF Nested, ValuesAreRaw
<1> QED
  BY <1>1, <1>2

\* Every step keeps the invariant.
LEMMA StepsKeepReading == ReadingIsSound /\ [Next]_vars => ReadingIsSound'
<1> SUFFICES ASSUME Nested, BracesMatch, ServersAreUsable, [Next]_vars
             PROVE  Nested' /\ BracesMatch' /\ ServersAreUsable'
  BY DEF ReadingIsSound
<1>0. Typed /\ Len(calls) \in Nat
  BY CallsGoOn DEF Nested
<1>10. ASSUME result' = result PROVE ServersAreUsable'
  BY <1>10 DEF ServersAreUsable, Loaded
<1>1. CASE ReadName
  <2>1. /\ calls # <<>> /\ pos' = After /\ tokens' = tokens /\ result' = result
        /\ Kind \notin {"LBRACE", "RBRACE"}
    BY <1>1 DEF ReadName, ReadingName, Parsing
  <2>2. Nested' /\ Len(calls') = Len(calls)
    BY <1>1, ReadNameNested
  <2>3. calls' # <<>>
    BY <2>1, <2>2, CallsGoOn
  <2> QED
    BY <1>0, <1>10, <2>1, <2>2, <2>3, ReadingKeepsBraces
<1>2. CASE ReadArgument
  <2>1. /\ calls # <<>> /\ pos' = After /\ tokens' = tokens /\ result' = result
        /\ Kind \notin {"LBRACE", "RBRACE"}
    BY <1>2 DEF ReadArgument, ReadingArgs, Parsing
  <2>2. Nested' /\ Len(calls') = Len(calls)
    BY <1>2, ReadArgumentNested
  <2>3. calls' # <<>>
    BY <2>1, <2>2, CallsGoOn
  <2> QED
    BY <1>0, <1>10, <2>1, <2>2, <2>3, ReadingKeepsBraces
<1>3. CASE EndDirective
  <2>1. /\ calls # <<>> /\ pos' = After /\ tokens' = tokens /\ result' = result
        /\ Kind \notin {"LBRACE", "RBRACE"}
    BY <1>3 DEF EndDirective, EndsDirective, ReadingArgs, Parsing
  <2>2. Nested' /\ Len(calls') = Len(calls)
    BY <1>3, EndDirectiveNested
  <2>3. calls' # <<>>
    BY <2>1, <2>2, CallsGoOn
  <2> QED
    BY <1>0, <1>10, <2>1, <2>2, <2>3, ReadingKeepsBraces
<1>4. CASE OpenBlock
  <2>1. /\ calls # <<>> /\ pos' = After /\ tokens' = tokens /\ result' = result
        /\ Kind = "LBRACE"
    BY <1>4 DEF OpenBlock, ReadingArgs, Parsing
  <2>2. Nested' /\ Len(calls') = Len(calls) + 1
    BY <1>4, OpenBlockNested
  <2>3. calls' # <<>>
    BY <2>1, <2>2, CallsGoOn
  <2> QED
    BY <1>0, <1>10, <2>1, <2>2, <2>3, OpeningKeepsBraces
<1>5. CASE CloseBlock
  <2>1. CASE Refuse
    BY <2>1, RestingKeepsReading, RefusingKeepsUsable DEF Refuse
  <2>2. CASE ~Refuse
    <3>1. /\ Nested' /\ Len(calls') = Len(calls) - 1 /\ calls' # <<>>
          /\ pos' = After /\ tokens' = tokens
      BY <1>5, <2>2, CloseBlockNested
    <3>2. calls # <<>> /\ result' = result /\ Kind \in {"RBRACE", "END"}
      BY <1>5, <2>2 DEF CloseBlock, Closes, ReadingName, Parsing
    <3> QED
      BY <1>0, <1>10, <3>1, <3>2, ClosingKeepsBraces
  <2> QED
    BY <2>1, <2>2
<1>6. CASE FinishParse
  <2>1. /\ calls # <<>> /\ pos' = After /\ tokens' = tokens /\ result' = result
        /\ Kind \in {"RBRACE", "END"} /\ calls' = <<>> /\ Len(calls) = 1
    BY <1>6 DEF FinishParse, Closes, ReadingName, Parsing
  <2>2. Nested'
    BY <1>6, FinishParseNested
  <2> QED
    BY <1>0, <1>10, <2>1, <2>2, ClosingKeepsBraces
<1>7. CASE SyntaxError
  <2>1. Refuse
    BY <1>7 DEF SyntaxError
  <2> QED
    BY <2>1, RestingKeepsReading, RefusingKeepsUsable DEF Refuse
<1>8. CASE Convert
  <2>1. UNCHANGED <<tokens, pos, calls, raw>>
    BY <1>8 DEF Convert
  <2> QED
    BY <1>8, <2>1, RestingKeepsReading, ConvertMakesUsable DEF Nested
<1>9. CASE UNCHANGED vars
  BY <1>9, <1>10, RestingKeepsReading DEF vars
<1> QED
  BY <1>1, <1>2, <1>3, <1>4, <1>5, <1>6, <1>7, <1>8, <1>9 DEF Next

\* The invariant holds at every token.
LEMMA ReadingStaysSound == Spec => []ReadingIsSound
BY StartIsSound, StepsKeepReading, PTL DEF Spec

\* The invariant says what ParserInv says.
LEMMA SoundIsTyped == ReadingIsSound => ParserInv
<1> SUFFICES ASSUME ReadingIsSound PROVE ParserInv
  OBVIOUS
<1>1. PICK U : calls \in Seq(Calls(U))
  BY DEF ReadingIsSound, Nested, ValuesAreRaw
<1>2. \A i \in DOMAIN calls : calls[i].key \in Words \union {""} /\ calls[i].args \in Seq(Arguments)
  <2> DEFINE C == Calls(U)
  <2> HIDE DEF C
  <2>1. calls \in Seq(C)
    BY <1>1 DEF C
  <2>2. \A i \in DOMAIN calls : calls[i] \in C
    BY <2>1
  <2> QED
    BY <2>2, CallIs DEF C, Arguments
<1>3. \A i \in 1 .. Len(calls) - 1 : calls[i].key # ""
  BY DEF ReadingIsSound, Nested, OuterCallsWait, Waits
<1>4. tokens \in Seq(Lexemes) /\ pos \in 1 .. Len(tokens) + 1
  BY DEF ReadingIsSound, Nested, Typed
<1>5. TypeOK
  BY <1>2, <1>3, <1>4, Zenon DEF TypeOK, ReadingIsSound, ServersAreUsable
<1> QED
  BY <1>5 DEF ParserInv, ReadingIsSound

\* At every token the parser holds names, arguments and calls of their types, every
\* call but the innermost is within a directive, one call more is active than braces
\* are open, the parse stops short of the end only at a brace too many, and a loaded
\* server has a listener and has a key just when it has a certificate
\* (ConfigParser._parse_block, parse_config_dict).
THEOREM ParserIsSound == Spec => []ParserInv
<1>1. ReadingIsSound => ParserInv
  BY SoundIsTyped
<1> QED
  BY <1>1, ReadingStaysSound, PTL

\* What the calls of _parse_block hold, and what parse() returns, is a raw dictionary
\* to any depth, for any file, whole, cut or with a lexeme too many: _directive_values
\* and parse_config_dict never meet a value of another kind.
THEOREM WhatIsReadIsRaw == Spec => []ValuesAreRaw
<1>1. ReadingIsSound => ValuesAreRaw
  BY DEF ReadingIsSound, Nested
<1> QED
  BY <1>1, ReadingStaysSound, PTL

-----------------------------------------------------------------------------
(* What is left of a sequence from a place on.                               *)

Left(s, p) == SubSeq(s, p, Len(s))

\* How much is left.
LEMMA LeftLength ==
    ASSUME NEW S, NEW s \in Seq(S), NEW p \in 1 .. Len(s) + 1
    PROVE  /\ Left(s, p) \in Seq(S) /\ Len(Left(s, p)) = Len(s) + 1 - p
           /\ Left(s, 1) = s
BY DEF Left

-----------------------------------------------------------------------------
(* Joining the pieces of a sequence.                                         *)

\* One sequence joined is itself.
LEMMA FlattenOfOne ==
    ASSUME NEW S, NEW s \in Seq(S)
    PROVE  FlattenSeq(<<s>>) = s
<1>1. <<>> \in Seq(Seq(S)) /\ Append(<<>>, s) = <<s>>
  OBVIOUS
<1>2. FlattenSeq(Append(<<>>, s)) = FlattenSeq(<<>>) \o s
  BY <1>1, FlattenOfAppend
<1>3. <<>> \o s = s
  BY ConcatEmptySeq
<1> QED
  BY <1>1, <1>2, <1>3, FlattenIsJoins, Zenon

\* Three sequences are joined from either side.
LEMMA JoinThree ==
    \A S : \A a, b, c \in Seq(S) : \A x, y : x = a \o b /\ y = b \o c => x \o c = a \o y
BY SMTT(30)

\* Two sequences of sequences are joined one after the other.
LEMMA FlattenOfBoth ==
    ASSUME NEW S, NEW ss \in Seq(Seq(S)), NEW tt \in Seq(Seq(S))
    PROVE  FlattenSeq(ss \o tt) = FlattenSeq(ss) \o FlattenSeq(tt)
<1> DEFINE Q == Seq(S)
           T == {t \in Seq(Q) : FlattenSeq(ss \o t) = FlattenSeq(ss) \o FlattenSeq(t)}
<1>1. <<>> \in T
  <2>1. ss \o <<>> = ss /\ FlattenSeq(<<>>) = <<>>
    BY ConcatEmptySeq, FlattenIsJoins
  <2>2. FlattenSeq(ss) \in Seq(S)
    BY FlattenType
  <2>3. FlattenSeq(ss) \o <<>> = FlattenSeq(ss)
    BY <2>2, ConcatEmptySeq
  <2>4. <<>> \in Seq(Q)
    OBVIOUS
  <2> QED
    BY <2>1, <2>3, <2>4
<1>2. ASSUME NEW t \in Seq(Q), NEW e \in Q, t \in T
      PROVE  Append(t, e) \in T
  <2>1. ss \o Append(t, e) = Append(ss \o t, e) /\ ss \o t \in Seq(Q) /\ Append(t, e) \in Seq(Q)
    OBVIOUS
  <2>2. /\ FlattenSeq(Append(ss \o t, e)) = FlattenSeq(ss \o t) \o e
        /\ FlattenSeq(Append(t, e)) = FlattenSeq(t) \o e
    BY <2>1, FlattenOfAppend
  <2>3. FlattenSeq(ss) \in Seq(S) /\ FlattenSeq(t) \in Seq(S) /\ e \in Seq(S)
    BY FlattenType
  <2>5. FlattenSeq(ss \o t) = FlattenSeq(ss) \o FlattenSeq(t)
    BY <1>2
  <2>6. FlattenSeq(ss \o Append(t, e)) = FlattenSeq(ss) \o FlattenSeq(Append(t, e))
    <3> DEFINE a == FlattenSeq(ss)
               b == FlattenSeq(t)
               x == FlattenSeq(ss \o t)
               y == FlattenSeq(Append(t, e))
    <3>1. a \in Seq(S) /\ b \in Seq(S) /\ e \in Seq(S) /\ x = a \o b /\ y = b \o e
      BY <2>2, <2>3, <2>5
    <3>3. FlattenSeq(ss \o Append(t, e)) = x \o e
      BY <2>1, <2>2
    <3> HIDE DEF a, b, x, y
    <3>2. x \o e = a \o y
      BY <3>1, JoinThree, SMTT(30)
    <3> QED
      BY <3>2, <3>3 DEF a, y
  <2> QED
    BY <2>1, <2>6
<1>3. Seq(Q) \subseteq T
  <2> HIDE DEF T, Q
  <2> QED
    BY <1>1, <1>2, SequenceInduction
<1> QED
  BY <1>3

\* The pieces from a place on, joined.
From(pieces, i) == FlattenSeq(Left(pieces, i))

\* They are the piece at that place and those after it.
LEMMA FromIs ==
    ASSUME NEW S, NEW pieces \in Seq(Seq(S))
    PROVE  /\ From(pieces, 1) = FlattenSeq(pieces)
           /\ \A i \in 1 .. Len(pieces) + 1 : From(pieces, i) \in Seq(S)
           /\ \A i \in 1 .. Len(pieces) : /\ pieces[i] \in Seq(S)
                                          /\ From(pieces, i) = pieces[i] \o From(pieces, i + 1)
           /\ From(pieces, Len(pieces) + 1) = <<>>
           /\ Len(pieces) \in Nat
<1> DEFINE Q == Seq(S)
           n == Len(pieces)
<1>1. pieces \in Seq(Q) /\ n \in Nat
  OBVIOUS
<1>2. From(pieces, 1) = FlattenSeq(pieces)
  BY <1>1, LeftLength DEF From
<1>3. \A i \in 1 .. n + 1 : From(pieces, i) \in Seq(S)
  <2> SUFFICES ASSUME NEW i \in 1 .. n + 1 PROVE From(pieces, i) \in Seq(S)
    OBVIOUS
  <2>1. Left(pieces, i) \in Seq(Q)
    BY LeftLength
  <2> QED
    BY <2>1, FlattenType DEF From
<1>4. ASSUME NEW i \in 1 .. n
      PROVE  pieces[i] \in Seq(S) /\ From(pieces, i) = pieces[i] \o From(pieces, i + 1)
  <2>1. pieces[i] \in Q /\ i + 1 \in 1 .. n + 1
    OBVIOUS
  <2>2. Left(pieces, i + 1) \in Seq(Q)
    BY <2>1, LeftLength
  <2>3. Left(pieces, i) = <<pieces[i]>> \o Left(pieces, i + 1)
    <3> HIDE DEF Q
    <3> QED
      BY <1>1, <2>1 DEF Left
  <2>4. <<pieces[i]>> \in Seq(Q) /\ FlattenSeq(<<pieces[i]>>) = pieces[i]
    BY <2>1, FlattenOfOne
  <2>5. FlattenSeq(<<pieces[i]>> \o Left(pieces, i + 1)) = FlattenSeq(<<pieces[i]>>) \o FlattenSeq(Left(pieces, i + 1))
    BY <2>2, <2>4, FlattenOfBoth
  <2> QED
    BY <2>1, <2>3, <2>4, <2>5, Zenon DEF From
<1>5. From(pieces, n + 1) = <<>>
  <2>1. Left(pieces, n + 1) = <<>>
    BY <1>1 DEF Left
  <2> QED
    BY <2>1, FlattenIsJoins DEF From
<1> QED
  BY <1>1, <1>2, <1>3, <1>4, <1>5

\* What is joined before a place and from it on is the whole.
LEMMA FromAfter ==
    ASSUME NEW S, NEW pieces \in Seq(Seq(S)), NEW i \in 0 .. Len(pieces)
    PROVE  /\ FlattenSeq(SubSeq(pieces, 1, i)) \in Seq(S)
           /\ FlattenSeq(SubSeq(pieces, 1, i)) \o From(pieces, i + 1) = FlattenSeq(pieces)
<1> DEFINE Q == Seq(S)
           a == SubSeq(pieces, 1, i)
           b == SubSeq(pieces, i + 1, Len(pieces))
<1>1. a \in Seq(Q) /\ b \in Seq(Q) /\ pieces = a \o b
  <2> HIDE DEF Q
  <2>1. pieces \in Seq(Q)
    BY DEF Q
  <2> QED
    BY <2>1, SplitStream
<1> HIDE DEF a, b
<1>2. FlattenSeq(a \o b) = FlattenSeq(a) \o FlattenSeq(b) /\ FlattenSeq(a) \in Seq(S)
  BY <1>1, FlattenOfBoth, FlattenType
<1> QED
  BY <1>1, <1>2 DEF From, Left, a, b

-----------------------------------------------------------------------------
(* Elements of a longer sequence.                                            *)

\* Nothing is picked from nothing.
LEMMA ElementsOfEmpty == \A positions : Elements(<<>>, positions) = <<>>
<1> SUFFICES ASSUME NEW positions PROVE Elements(<<>>, positions) = <<>>
  OBVIOUS
<1>1. <<>> \in Seq({0}) /\ Len(<<>>) = 0
  OBVIOUS
<1>2. \A s \in Seq({0}) : Keeps(s, positions)[0] = <<>>
  BY KeepsEquation
<1>3. Keeps(<<>>, positions)[0] = <<>>
  BY <1>1, <1>2, Zenon
<1> QED
  BY <1>1, <1>3, ElementsIsKeeps

\* One more element is picked or not.
LEMMA ElementsOfAppend ==
    ASSUME NEW S, NEW s \in Seq(S), NEW x \in S, NEW P, NEW Q,
           \A i \in 1 .. Len(s) : i \in P <=> i \in Q
    PROVE  Elements(Append(s, x), Q) =
               IF Len(s) + 1 \in Q THEN Append(Elements(s, P), x) ELSE Elements(s, P)
<1> DEFINE t == Append(s, x)
           n == Len(s)
<1>1. /\ n \in Nat /\ t \in Seq(S) /\ Len(t) = n + 1 /\ t[n + 1] = x
      /\ \A i \in 1 .. n : t[i] = s[i]
  OBVIOUS
<1> HIDE DEF t
<1> DEFINE g == Keeps(s, P)
           h == Keeps(t, Q)
<1>2. /\ g[0] = <<>> /\ \A i \in 1 .. n : g[i] = Picked(g[i - 1], s, i, P)
      /\ h[0] = <<>> /\ \A i \in 1 .. n + 1 : h[i] = Picked(h[i - 1], t, i, Q)
  BY <1>1, KeepsEquation
<1>3. Elements(s, P) = g[n] /\ Elements(t, Q) = h[n + 1]
  BY <1>1, ElementsIsKeeps
<1> HIDE DEF n, g, h
<1>4. GoAlike(h, g, n)
  <2>1. ASSUME NEW i \in 1 .. n, h[i - 1] = g[i - 1] PROVE h[i] = g[i]
    <3>1. i \in 1 .. n + 1 /\ t[i] = s[i] /\ (i \in P <=> i \in Q)
      BY <1>1 DEF n
    <3>2. h[i] = Picked(h[i - 1], t, i, Q) /\ g[i] = Picked(g[i - 1], s, i, P)
      BY <1>2, <3>1
    <3> QED
      BY <2>1, <3>1, <3>2 DEF Picked
  <2> QED
    BY <1>2, <2>1 DEF GoAlike
<1>5. h[n] = g[n]
  <2>1. Alike(h, g, n)
    BY <1>1, <1>4, SameIteration
  <2>2. n \in 0 .. n
    BY <1>1
  <2> QED
    BY <2>1, <2>2 DEF Alike
<1>6. h[n + 1] = Picked(h[n], t, n + 1, Q)
  <2>1. n + 1 \in 1 .. n + 1 /\ (n + 1) - 1 = n
    BY <1>1
  <2>2. h[n + 1] = Picked(h[(n + 1) - 1], t, n + 1, Q)
    BY <1>2, <2>1
  <2> QED
    BY <2>1, <2>2
<1> QED
  BY <1>1, <1>3, <1>5, <1>6 DEF Picked, n, t

\* If the first few are picked, they are what the picked ones begin with.
LEMMA ElementsBegin ==
    ASSUME NEW S, NEW s \in Seq(S), NEW P, NEW k \in 0 .. Len(s), \A i \in 1 .. k : i \in P
    PROVE  /\ Elements(s, P) \in Seq(S) /\ Len(Elements(s, P)) >= k
           /\ \A i \in 1 .. k : Elements(s, P)[i] = s[i]
           /\ Len(Elements(s, P)) <= Len(s)
<1> DEFINE n == Len(s)
           g == Keeps(s, P)
           least(i) == IF i <= k THEN i ELSE k
           T == {i \in 0 .. n : /\ Len(g[i]) >= least(i) /\ Len(g[i]) <= i
                                /\ \A j \in 1 .. least(i) : g[i][j] = s[j]}
<1>1. n \in Nat /\ k \in Nat /\ k <= n
  OBVIOUS
<1>2. /\ g[0] = <<>> /\ \A i \in 1 .. n : g[i] = Picked(g[i - 1], s, i, P)
      /\ \A i \in 0 .. n : g[i] \in Seq(S)
  BY KeepsEquation
<1>3. Elements(s, P) = g[n]
  BY ElementsIsKeeps
<1> HIDE DEF g
<1>4. 0 \in T
  BY <1>1, <1>2
<1>5. ASSUME NEW i \in 1 .. n, i - 1 \in T PROVE i \in T
  <2> DEFINE a == g[i - 1]
             m == Len(a)
  <2>1. /\ a \in Seq(S) /\ m \in Nat /\ m >= least(i - 1) /\ m <= i - 1
        /\ \A j \in 1 .. least(i - 1) : a[j] = s[j]
        /\ g[i] = Picked(a, s, i, P) /\ s[i] \in S
    BY <1>1, <1>2, <1>5
  <2> HIDE DEF a, m
  <2>2. CASE i \in P
    <3>1. /\ g[i] = Append(a, s[i]) /\ Len(g[i]) = m + 1 /\ g[i][m + 1] = s[i]
          /\ \A j \in 1 .. m : g[i][j] = a[j]
      BY <2>1, <2>2 DEF Picked, m
    <3>2. CASE i <= k
      <4>1. m = i - 1 /\ least(i) = i /\ least(i - 1) = i - 1
        BY <1>1, <2>1, <3>2
      <4>2. \A j \in 1 .. i : g[i][j] = s[j]
        BY <2>1, <3>1, <4>1
      <4> QED
        BY <3>1, <4>1, <4>2
    <3>3. CASE ~(i <= k)
      <4>1. least(i) = k /\ least(i - 1) = k /\ m >= k /\ k \in Nat
        BY <1>1, <2>1, <3>3
      <4>2. \A j \in 1 .. k : g[i][j] = s[j]
        BY <2>1, <3>1, <4>1
      <4>3. Len(g[i]) >= k /\ Len(g[i]) <= i /\ i \in 0 .. n
        BY <2>1, <3>1, <4>1
      <4> QED
        BY <4>1, <4>2, <4>3, Zenon
    <3> QED
      BY <3>2, <3>3
  <2>3. CASE i \notin P
    <3>1. ~(i <= k)
      BY <1>1, <2>3
    <3>2. least(i) = k /\ least(i - 1) = k /\ g[i] = a
      BY <1>1, <2>1, <2>3, <3>1 DEF Picked
    <3> QED
      BY <2>1, <3>2 DEF m
  <2> QED
    BY <2>2, <2>3
<1>6. n \in T
  <2> HIDE DEF T
  <2>1. 0 .. n \subseteq T
    BY <1>1, <1>4, <1>5, BoundedInduction
  <2> QED
    BY <1>1, <2>1
<1>7. least(n) = k
  BY <1>1
<1> QED
  BY <1>1, <1>2, <1>3, <1>6, <1>7

\* If all are picked, nothing changes.
LEMMA ElementsOfAll ==
    ASSUME NEW S, NEW s \in Seq(S), NEW P, \A i \in 1 .. Len(s) : i \in P
    PROVE  Elements(s, P) = s
<1>1. Len(s) \in 0 .. Len(s)
  OBVIOUS
<1>2. /\ Elements(s, P) \in Seq(S) /\ Len(Elements(s, P)) = Len(s)
      /\ \A i \in 1 .. Len(s) : Elements(s, P)[i] = s[i]
  BY <1>1, ElementsBegin
<1> QED
  BY <1>2, SeqEqual

-----------------------------------------------------------------------------
(* The lexer.                                                                *)

\* One more lexeme is a token or not.
LEMMA TokenizeAppend ==
    ASSUME NEW S, NEW text \in Seq(S), NEW x \in S
    PROVE  Tokenize(Append(text, x)) =
               IF IsToken(x) THEN Append(Tokenize(text), x) ELSE Tokenize(text)
<1> DEFINE t == Append(text, x)
           P == {i \in DOMAIN text : IsToken(text[i])}
           Q == {i \in DOMAIN t : IsToken(t[i])}
<1>1. /\ Len(text) \in Nat /\ DOMAIN text = 1 .. Len(text) /\ DOMAIN t = 1 .. Len(text) + 1
      /\ \A i \in 1 .. Len(text) : t[i] = text[i]
      /\ t[Len(text) + 1] = x
  OBVIOUS
<1> HIDE DEF t
<1>2. (\A i \in 1 .. Len(text) : i \in P <=> i \in Q) /\ (Len(text) + 1 \in Q <=> IsToken(x))
  BY <1>1
<1>3. Tokenize(text) = Elements(text, P) /\ Tokenize(t) = Elements(t, Q)
  BY Zenon DEF Tokenize
<1> HIDE DEF P, Q
<1>4. Elements(t, Q) = IF Len(text) + 1 \in Q THEN Append(Elements(text, P), x) ELSE Elements(text, P)
  BY <1>2, ElementsOfAppend DEF t
<1> QED
  BY <1>2, <1>3, <1>4 DEF t

\* Of tokens all are tokens, and after other lexemes they are added to their tokens.
LEMMA TokenizeTokens ==
    ASSUME NEW a \in Seq(Lexemes)
    PROVE  \A b \in Seq(Tokens) : Tokenize(a \o b) = Tokenize(a) \o b
<1> DEFINE T == {b \in Seq(Tokens) : Tokenize(a \o b) = Tokenize(a) \o b}
<1>0. Tokens \subseteq Lexemes /\ \A x \in Tokens : IsToken(x)
  BY DEF Tokens
<1>1. <<>> \in T
  <2>1. Tokenize(a) \in Seq(Lexemes)
    BY ElementsType DEF Tokenize
  <2>2. a \o <<>> = a /\ Tokenize(a) \o <<>> = Tokenize(a) /\ <<>> \in Seq(Tokens)
    BY <2>1, ConcatEmptySeq
  <2> QED
    BY <2>2
<1>2. ASSUME NEW b \in Seq(Tokens), NEW x \in Tokens, b \in T
      PROVE  Append(b, x) \in T
  <2>1. b \in Seq(Lexemes) /\ x \in Lexemes /\ Append(b, x) \in Seq(Tokens)
    BY <1>0, SequencesGrow
  <2>2. a \o Append(b, x) = Append(a \o b, x) /\ a \o b \in Seq(Lexemes)
    BY <2>1
  <2>3. Tokenize(Append(a \o b, x)) = Append(Tokenize(a \o b), x)
    BY <1>0, <2>1, <2>2, TokenizeAppend, Zenon
  <2>4. Tokenize(a) \in Seq(Lexemes) /\ Tokenize(a \o b) = Tokenize(a) \o b
    BY <1>2, ElementsType DEF Tokenize
  <2>5. Append(Tokenize(a) \o b, x) = Tokenize(a) \o Append(b, x)
    <3> DEFINE u == Tokenize(a)
    <3> HIDE DEF u
    <3>1. u \in Seq(Lexemes)
      BY <2>4 DEF u
    <3>2. Append(u \o b, x) = u \o Append(b, x)
      BY <2>1, <3>1, SMTT(30)
    <3> QED
      BY <3>2 DEF u
  <2> QED
    BY <2>1, <2>2, <2>3, <2>4, <2>5
<1>3. Seq(Tokens) \subseteq T
  <2> HIDE DEF T
  <2> QED
    BY <1>1, <1>2, SequenceInduction
<1> QED
  BY <1>3

\* Tokens with a lexeme among them: it is dropped if it is layout.
LEMMA TokenizeAround ==
    ASSUME NEW a \in Seq(Tokens), NEW b \in Seq(Tokens), NEW x \in Lexemes
    PROVE  /\ Tokenize(a) = a
           /\ Tokenize((a \o <<x>>) \o b) = IF IsToken(x) THEN (a \o <<x>>) \o b ELSE a \o b
<1>0. Tokens \subseteq Lexemes
  BY DEF Tokens
<1>1. a \in Seq(Lexemes) /\ b \in Seq(Lexemes) /\ a \o <<x>> = Append(a, x) /\ Append(a, x) \in Seq(Lexemes)
  BY <1>0, SequencesGrow
<1>2. Tokenize(a) = a
  <2>1. <<>> \in Seq(Lexemes) /\ Tokenize(<<>>) = <<>> /\ <<>> \o a = a
    BY ElementsOfEmpty, ConcatEmptySeq DEF Tokenize
  <2>2. Tokenize(<<>> \o a) = Tokenize(<<>>) \o a
    BY <2>1, TokenizeTokens
  <2> QED
    BY <2>1, <2>2
<1>3. Tokenize(Append(a, x) \o b) = Tokenize(Append(a, x)) \o b
  BY <1>1, TokenizeTokens
<1>4. Tokenize(Append(a, x)) = IF IsToken(x) THEN Append(a, x) ELSE a
  BY <1>1, <1>2, TokenizeAppend
<1> QED
  BY <1>1, <1>2, <1>3, <1>4

-----------------------------------------------------------------------------
(* What a dictionary has of a directive's name: the arguments of each        *)
(* directive of the name, in their order.                                    *)

Lists == Seq(Words) \ {<<>>}
Given(lists) == [i \in DOMAIN lists |-> Args(lists[i])]
Gives(config, name, lists) ==
    IF lists = <<>> THEN name \notin DOMAIN config
    ELSE /\ name \in DOMAIN config /\ config[name].kind # "dict"
         /\ Values(config, name) = Given(lists)

\* Two dictionaries have the same under a name.
SameAt(config, other, name) ==
    /\ name \in DOMAIN config <=> name \in DOMAIN other
    /\ name \in DOMAIN config => other[name] = config[name]

\* Then they give the same.
LEMMA SameGives ==
    ASSUME NEW config, NEW other, NEW name, NEW lists, SameAt(config, other, name),
           Gives(config, name, lists)
    PROVE  Gives(other, name, lists)
<1>1. Values(other, name) = Values(config, name)
  BY DEF Values, SameAt
<1> QED
  BY <1>1 DEF Gives, SameAt

\* A key that gets a value has it, and the others have what they had.
LEMMA WithIs ==
    ASSUME NEW config, NEW key, NEW value
    PROVE  /\ DOMAIN With(config, key, value) = DOMAIN config \union {key}
           /\ With(config, key, value)[key] = value
           /\ \A name : name # key => SameAt(config, With(config, key, value), name)
BY DEF With, SameAt

\* A repeated directive changes nothing under other names.
LEMMA AppendRepeatedIs ==
    ASSUME NEW config, NEW key, NEW value
    PROVE  /\ DOMAIN AppendRepeated(config, key, value) = DOMAIN config \union {key}
           /\ \A name : name # key => SameAt(config, AppendRepeated(config, key, value), name)
<1>1. \E item : AppendRepeated(config, key, value) = With(config, key, item)
  BY Zenon DEF AppendRepeated
<1>2. PICK item : AppendRepeated(config, key, value) = With(config, key, item)
  BY <1>1, Zenon
<1>3. /\ DOMAIN With(config, key, item) = DOMAIN config \union {key}
      /\ \A name : name # key => SameAt(config, With(config, key, item), name)
  BY WithIs, Zenon
<1> QED
  BY <1>2, <1>3, Zenon

\* The lists given are true values: none is empty.
LEMMA GivenIs ==
    ASSUME NEW lists \in Seq(Lists), NEW args \in Lists
    PROVE  /\ DOMAIN Given(lists) = 1 .. Len(lists) /\ Len(lists) \in Nat
           /\ \A i \in 1 .. Len(lists) : /\ Given(lists)[i] = Args(lists[i]) /\ lists[i] \in Lists
                                         /\ Given(lists)[i].kind = "args" /\ Given(lists)[i].v = lists[i]
                                         /\ IsTrue(Given(lists)[i])
           /\ Len(Given(lists)) = Len(lists)
           /\ Given(lists) = <<>> <=> lists = <<>>
           /\ Append(Given(lists), Args(args)) = Given(Append(lists, args))
<1> DEFINE n == Len(lists)
           A == {Args(l) : l \in Lists}
           L == Lists
<1>1. n \in Nat /\ DOMAIN lists = 1 .. n /\ \A i \in 1 .. n : lists[i] \in L
  OBVIOUS
<1>2. \A l \in Lists : DOMAIN l # {}
  <2> SUFFICES ASSUME NEW l \in Seq(Words), l # <<>> PROVE DOMAIN l # {}
    BY DEF Lists
  <2>1. 1 \in DOMAIN l
    OBVIOUS
  <2> QED
    BY <2>1
<1>3. \A i \in 1 .. n : /\ Given(lists)[i] = Args(lists[i])
                        /\ Args(lists[i]).kind = "args" /\ Args(lists[i]).v = lists[i]
                        /\ IsTrue(Args(lists[i]))
  BY <1>1, <1>2 DEF Given, Args, IsTrue
<1> HIDE DEF A, L
<1>4. Given(lists) \in [1 .. n -> A]
  BY <1>1 DEF Given, A, L
<1>5. Given(lists) \in Seq(A) /\ Len(Given(lists)) = n /\ DOMAIN Given(lists) = 1 .. n
  <2>1. [1 .. n -> A] \subseteq Seq(A)
    BY <1>1
  <2>2. Given(lists) \in Seq(A) /\ DOMAIN Given(lists) = 1 .. n
    BY <1>4, <2>1
  <2> QED
    BY <1>1, <2>2
<1>6. Append(Given(lists), Args(args)) = Given(Append(lists, args))
  <2> DEFINE new == Append(lists, args)
             g == Given(lists)
             x == Args(args)
  <2>1. /\ DOMAIN new = 1 .. n + 1 /\ new[n + 1] = args
        /\ \A i \in 1 .. n : new[i] = lists[i]
    BY <1>1
  <2>2. Given(new) = [i \in 1 .. n + 1 |-> Args(new[i])]
    BY <2>1, Zenon DEF Given
  <2>3. g \in Seq(A) /\ Len(g) = n /\ x \in A /\ \A i \in 1 .. n : g[i] = Args(lists[i])
    BY <1>1, <1>3, <1>5 DEF A
  <2> HIDE DEF g, x, new
  <2>4. Append(g, x) = [i \in 1 .. n + 1 |-> IF i = n + 1 THEN x ELSE g[i]]
    <3> DEFINE h == [i \in 1 .. n + 1 |-> IF i = n + 1 THEN x ELSE g[i]]
    <3>1. \A i \in 1 .. n : g[i] \in A
      BY <2>3
    <3>2. h \in [1 .. n + 1 -> A] /\ [1 .. n + 1 -> A] \subseteq Seq(A)
      BY <1>1, <2>3, <3>1
    <3>3. h \in Seq(A) /\ Len(h) = n + 1
      BY <1>1, <3>2
    <3>4. /\ Append(g, x) \in Seq(A) /\ Len(Append(g, x)) = n + 1
          /\ \A i \in 1 .. n : Append(g, x)[i] = g[i]
          /\ Append(g, x)[n + 1] = x
      BY <2>3, AppendProperties
    <3>5. \A i \in 1 .. n + 1 : Append(g, x)[i] = h[i]
      BY <1>1, <3>4
    <3> HIDE DEF h
    <3>6. Append(g, x) = h
      BY <3>3, <3>4, <3>5, SeqEqual
    <3> QED
      BY <3>6 DEF h
  <2>5. \A i \in 1 .. n + 1 : (IF i = n + 1 THEN x ELSE g[i]) = Args(new[i])
    BY <1>1, <2>1, <2>3 DEF x
  <2>6. Append(g, x) = Given(new)
    BY <2>2, <2>4, <2>5
  <2> QED
    BY <2>6 DEF g, x, new
<1> QED
  BY <1>1, <1>3, <1>5, <1>6 DEF L

\* A directive more gives a list more.
LEMMA AppendGives ==
    ASSUME NEW config, NEW name, NEW lists \in Seq(Lists), NEW args \in Lists,
           Gives(config, name, lists)
    PROVE  Gives(AppendRepeated(config, name, Args(args)), name, Append(lists, args))
<1> DEFINE value == Args(args)
           new == AppendRepeated(config, name, value)
           more == Append(lists, args)
<1>1. more # <<>> /\ more \in Seq(Lists)
  <2> DEFINE L == Lists
  <2> HIDE DEF L
  <2>1. lists \in Seq(L) /\ args \in L
    BY DEF L
  <2>2. more # <<>> /\ more \in Seq(L)
    BY <2>1
  <2> QED
    BY <2>2 DEF L
<1>2. CASE lists = <<>>
  <2>1. new = With(config, name, value)
    BY <1>2, Zenon DEF AppendRepeated, Gives
  <2>2. name \in DOMAIN new /\ new[name] = value
    <3> HIDE DEF new, value
    <3>1. DOMAIN new = DOMAIN config \union {name} /\ new[name] = value
      <4>1. /\ DOMAIN With(config, name, value) = DOMAIN config \union {name}
            /\ With(config, name, value)[name] = value
        BY DEF With
      <4> QED
        BY <2>1, <4>1, Zenon
    <3> QED
      BY <3>1
  <2>3. value.kind = "args"
    BY DEF Args
  <2> HIDE DEF value, new
  <2>4. Values(new, name) = <<value>>
    BY <2>2, <2>3 DEF Values
  <2>5. Given(more) = Append(Given(lists), value) /\ Given(lists) = <<>>
    BY <1>2, GivenIs, Zenon DEF value
  <2>6. Append(<<>>, value) = <<value>>
    OBVIOUS
  <2> QED
    BY <1>1, <2>2, <2>3, <2>4, <2>5, <2>6 DEF Gives, new, value
<1>3. CASE lists # <<>>
  <2> DEFINE existing == config[name]
             items == CASE existing.kind = "many" -> Append(existing.v, value)
                        [] ~IsTrue(existing) /\ existing.kind = "args" -> <<value>>
                        [] OTHER -> <<existing, value>>
  <2>1. name \in DOMAIN config /\ existing.kind # "dict" /\ Values(config, name) = Given(lists)
    BY <1>3 DEF Gives
  <2>2. new = With(config, name, Many(items))
    BY <2>1, Zenon DEF AppendRepeated
  <2>3. items = Append(Given(lists), value)
    <3>1. CASE existing.kind = "many"
      <4>1. Given(lists) = existing.v
        BY <2>1, <3>1 DEF Values
      <4>2. ~(existing.kind = "args")
        BY <3>1
      <4> HIDE DEF existing, value
      <4> QED
        BY <3>1, <4>1, <4>2
    <3>2. CASE existing.kind # "many"
      <4>1. Given(lists) = <<existing>>
        BY <2>1, <3>2 DEF Values
      <4>2. Len(lists) = 1 /\ Given(lists)[1] = existing
        BY <4>1, GivenIs
      <4>3. IsTrue(existing)
        BY <4>2, GivenIs
      <4> HIDE DEF existing, value
      <4>4. items = <<existing, value>>
        BY <3>2, <4>3
      <4> HIDE DEF items
      <4> QED
        BY <4>1, <4>4
    <3> QED
      BY <3>1, <3>2
  <2> HIDE DEF items
  <2>4. /\ name \in DOMAIN new /\ new[name] = Many(items)
    <3> HIDE DEF new
    <3>1. DOMAIN new = DOMAIN config \union {name} /\ new[name] = Many(items)
      <4>1. /\ DOMAIN With(config, name, Many(items)) = DOMAIN config \union {name}
            /\ With(config, name, Many(items))[name] = Many(items)
        BY DEF With
      <4> QED
        BY <2>2, <4>1, Zenon
    <3> QED
      BY <3>1
  <2>5. new[name].kind = "many" /\ new[name].v = items
    BY <2>4 DEF Many
  <2>6. Values(new, name) = items
    BY <2>4, <2>5 DEF Values
  <2>7. items = Given(more)
    BY <2>3, GivenIs, Zenon
  <2>8. new[name].kind # "dict"
    BY <2>5
  <2> QED
    BY <1>1, <2>4, <2>6, <2>7, <2>8 DEF Gives
<1> QED
  BY <1>2, <1>3

-----------------------------------------------------------------------------
(* What the directives of a server say, as one more is read.                 *)

Simples(name) == {d \in Directives : ~IsLocation(d) /\ d.name = name}
Places == {d \in Directives : IsLocation(d)}
Located(ds) == Elements(ds, {i \in DOMAIN ds : IsLocation(ds[i])})
NamedArgs(ds, name) == [i \in DOMAIN Named(ds, name) |-> Named(ds, name)[i].args]

\* What is picked are elements at the positions.
LEMMA ElementsPicked ==
    ASSUME NEW S, NEW s \in Seq(S), NEW P, NEW D, \A i \in 1 .. Len(s) : i \in P => s[i] \in D
    PROVE  Elements(s, P) \in Seq(D)
<1> DEFINE n == Len(s)
           g == Keeps(s, P)
           T == {i \in 0 .. n : g[i] \in Seq(D)}
<1>1. n \in Nat
  OBVIOUS
<1>2. g[0] = <<>> /\ \A i \in 1 .. n : g[i] = Picked(g[i - 1], s, i, P)
  BY KeepsEquation
<1>3. Elements(s, P) = g[n]
  BY ElementsIsKeeps
<1> HIDE DEF g
<1>4. 0 \in T
  <2>1. <<>> \in Seq(D)
    OBVIOUS
  <2>2. g[0] \in Seq(D)
    BY <1>2, <2>1, Zenon
  <2>3. 0 \in 0 .. n
    BY <1>1
  <2> QED
    BY <2>2, <2>3
<1>5. ASSUME NEW i \in 1 .. n, i - 1 \in T PROVE i \in T
  <2> DEFINE Q == Seq(D)
             a == g[i - 1]
  <2>1. a \in Q /\ g[i] = Picked(a, s, i, P) /\ (i \in P => s[i] \in D)
    BY <1>2, <1>5
  <2>2. i \in P => Append(a, s[i]) \in Q
    BY <2>1
  <2> HIDE DEF Q
  <2>3. g[i] \in Q
    BY <2>1, <2>2 DEF Picked
  <2> QED
    BY <2>3 DEF Q
<1>6. n \in T
  <2> HIDE DEF T
  <2>1. 0 .. n \subseteq T
    BY <1>1, <1>4, <1>5, BoundedInduction
  <2> QED
    BY <1>1, <2>1
<1> QED
  BY <1>3, <1>6

\* The directives of a name, and the locations, are what they are called.
LEMMA NamedType ==
    ASSUME NEW ds \in Seq(Directives)
    PROVE  /\ \A name : Named(ds, name) \in Seq(Simples(name))
           /\ Located(ds) \in Seq(Places)
<1>1. ASSUME NEW name PROVE Named(ds, name) \in Seq(Simples(name))
  <2> DEFINE P == {i \in DOMAIN ds : ~IsLocation(ds[i]) /\ ds[i].name = name}
             D == Simples(name)
  <2>1. \A i \in 1 .. Len(ds) : i \in P => ds[i] \in D
    <3>1. \A i \in 1 .. Len(ds) : ds[i] \in Directives
      OBVIOUS
    <3> QED
      BY <3>1 DEF Simples
  <2>2. Named(ds, name) = Elements(ds, P)
    BY Zenon DEF Named
  <2> HIDE DEF P, D
  <2> QED
    BY <2>1, <2>2, ElementsPicked DEF D
<1>2. Located(ds) \in Seq(Places)
  <2> DEFINE P == {i \in DOMAIN ds : IsLocation(ds[i])}
  <2>1. \A i \in 1 .. Len(ds) : i \in P => ds[i] \in Places
    <3>1. \A i \in 1 .. Len(ds) : ds[i] \in Directives
      OBVIOUS
    <3> QED
      BY <3>1 DEF Places
  <2>2. Located(ds) = Elements(ds, P)
    BY Zenon DEF Located
  <2> HIDE DEF P
  <2> QED
    BY <2>1, <2>2, ElementsPicked
<1> QED
  BY <1>1, <1>2

\* Their arguments are lists of words.
LEMMA NamedArgsType ==
    ASSUME NEW ds \in Seq(Directives), NEW name
    PROVE  /\ NamedArgs(ds, name) \in Seq(Lists)
           /\ Named(ds, name) \in Seq(Simples(name)) /\ Len(Named(ds, name)) \in Nat
           /\ DOMAIN Named(ds, name) = 1 .. Len(Named(ds, name))
           /\ Len(NamedArgs(ds, name)) = Len(Named(ds, name))
           /\ \A i \in 1 .. Len(Named(ds, name)) :
                  NamedArgs(ds, name)[i] = Named(ds, name)[i].args /\ Named(ds, name)[i].args \in Lists
<1> DEFINE named == Named(ds, name)
           n == Len(named)
           D == Simples(name)
           L == Lists
<1>1. \A d \in D : d.args \in L
  BY DirectiveIs DEF Simples, Lists
<1>2. named \in Seq(D)
  BY NamedType
<1>3. NamedArgs(ds, name) = [i \in DOMAIN named |-> named[i].args]
  BY Zenon DEF NamedArgs
<1> HIDE DEF D, named, L
<1>4. n \in Nat /\ DOMAIN named = 1 .. n /\ \A i \in 1 .. n : named[i].args \in L
  BY <1>1, <1>2
<1>5. NamedArgs(ds, name) \in [1 .. n -> L] /\ [1 .. n -> L] \subseteq Seq(L)
  BY <1>3, <1>4, SMTT(30)
<1>6. NamedArgs(ds, name) \in Seq(L) /\ Len(NamedArgs(ds, name)) = n
      /\ \A i \in 1 .. n : NamedArgs(ds, name)[i] = named[i].args
  BY <1>3, <1>4, <1>5
<1> QED
  BY <1>2, <1>4, <1>6 DEF named, D, L

\* One more directive is one more of its name,
LEMMA NamedOfAppend ==
    ASSUME NEW ds \in Seq(Directives), NEW d \in Directives, NEW name
    PROVE  /\ Named(Append(ds, d), name) =
                  IF ~IsLocation(d) /\ d.name = name THEN Append(Named(ds, name), d) ELSE Named(ds, name)
           /\ NamedArgs(Append(ds, d), name) =
                  IF ~IsLocation(d) /\ d.name = name THEN Append(NamedArgs(ds, name), d.args)
                  ELSE NamedArgs(ds, name)
<1> DEFINE t == Append(ds, d)
           P == {i \in DOMAIN ds : ~IsLocation(ds[i]) /\ ds[i].name = name}
           Q == {i \in DOMAIN t : ~IsLocation(t[i]) /\ t[i].name = name}
           is == ~IsLocation(d) /\ d.name = name
<1>1. /\ Len(ds) \in Nat /\ DOMAIN ds = 1 .. Len(ds) /\ DOMAIN t = 1 .. Len(ds) + 1
      /\ \A i \in 1 .. Len(ds) : t[i] = ds[i]
      /\ t[Len(ds) + 1] = d
      /\ t \in Seq(Directives)
  <2> DEFINE D == Directives
  <2> HIDE DEF D
  <2>1. ds \in Seq(D) /\ d \in D
    BY DEF D
  <2> QED
    BY <2>1 DEF D
<1> HIDE DEF t
<1>2. (\A i \in 1 .. Len(ds) : i \in P <=> i \in Q) /\ (Len(ds) + 1 \in Q <=> is)
  BY <1>1
<1>3. Named(ds, name) = Elements(ds, P) /\ Named(t, name) = Elements(t, Q)
  BY Zenon DEF Named
<1> HIDE DEF P, Q
<1>4. Elements(t, Q) = IF Len(ds) + 1 \in Q THEN Append(Elements(ds, P), d) ELSE Elements(ds, P)
  BY <1>2, ElementsOfAppend DEF t
<1>5. Named(t, name) = IF is THEN Append(Named(ds, name), d) ELSE Named(ds, name)
  <2> HIDE DEF is
  <2> QED
    BY <1>2, <1>3, <1>4
<1>6. NamedArgs(t, name) = IF is THEN Append(NamedArgs(ds, name), d.args) ELSE NamedArgs(ds, name)
  <2>1. CASE ~is
    <3>1. Named(t, name) = Named(ds, name)
      BY <1>5, <2>1
    <3> QED
      BY <2>1, <3>1, Zenon DEF NamedArgs
  <2>2. CASE is
    <3> DEFINE a == Named(ds, name)
               n == Len(a)
               L == Lists
               u == NamedArgs(ds, name)
               w == NamedArgs(t, name)
               new == Append(a, d)
               D == Simples(name)
    <3>0. d.args \in L /\ d \in D
      BY <2>2, DirectiveIs DEF Lists, Simples
    <3>1. Named(t, name) = new
      BY <1>5, <2>2
    <3>2. a \in Seq(D) /\ n \in Nat /\ u \in Seq(L) /\ Len(u) = n /\ \A i \in 1 .. n : u[i] = a[i].args
      BY NamedArgsType
    <3>3. w \in Seq(L) /\ Len(w) = Len(new) /\ \A i \in 1 .. Len(new) : w[i] = new[i].args
      <4>1. /\ NamedArgs(t, name) \in Seq(Lists)
            /\ Len(NamedArgs(t, name)) = Len(Named(t, name))
            /\ \A i \in 1 .. Len(Named(t, name)) : NamedArgs(t, name)[i] = Named(t, name)[i].args
        BY <1>1, NamedArgsType
      <4> QED
        BY <3>1, <4>1, Zenon
    <3> HIDE DEF a, u, w, L, D
    <3>4. Len(new) = n + 1 /\ new[n + 1] = d /\ \A i \in 1 .. n : new[i] = a[i]
      BY <3>0, <3>2, AppendProperties
    <3> HIDE DEF new
    <3>5. /\ Append(u, d.args) \in Seq(L) /\ Len(Append(u, d.args)) = n + 1
          /\ Append(u, d.args)[n + 1] = d.args
          /\ \A i \in 1 .. n : Append(u, d.args)[i] = u[i]
      BY <3>0, <3>2, AppendProperties
    <3>6. \A i \in 1 .. n + 1 : w[i] = Append(u, d.args)[i]
      BY <3>2, <3>3, <3>4, <3>5
    <3>7. w = Append(u, d.args)
      BY <3>3, <3>4, <3>5, <3>6, SeqEqual
    <3> QED
      BY <2>2, <3>7 DEF u, w
  <2> QED
    BY <2>1, <2>2
<1> QED
  BY <1>5, <1>6 DEF t

\* or one more location.
LEMMA LocatedOfAppend ==
    ASSUME NEW ds \in Seq(Directives), NEW d \in Directives
    PROVE  Located(Append(ds, d)) = IF IsLocation(d) THEN Append(Located(ds), d) ELSE Located(ds)
<1> DEFINE t == Append(ds, d)
           P == {i \in DOMAIN ds : IsLocation(ds[i])}
           Q == {i \in DOMAIN t : IsLocation(t[i])}
<1>1. /\ Len(ds) \in Nat /\ DOMAIN ds = 1 .. Len(ds) /\ DOMAIN t = 1 .. Len(ds) + 1
      /\ \A i \in 1 .. Len(ds) : t[i] = ds[i]
      /\ t[Len(ds) + 1] = d
  <2> DEFINE D == Directives
  <2> HIDE DEF D
  <2>1. ds \in Seq(D) /\ d \in D
    BY DEF D
  <2> QED
    BY <2>1 DEF D
<1> HIDE DEF t
<1>2. (\A i \in 1 .. Len(ds) : i \in P <=> i \in Q) /\ (Len(ds) + 1 \in Q <=> IsLocation(d))
  BY <1>1
<1>3. Located(ds) = Elements(ds, P) /\ Located(t) = Elements(t, Q)
  BY Zenon DEF Located
<1> HIDE DEF P, Q
<1>4. Elements(t, Q) = IF Len(ds) + 1 \in Q THEN Append(Elements(ds, P), d) ELSE Elements(ds, P)
  BY <1>2, ElementsOfAppend DEF t
<1> QED
  BY <1>2, <1>3, <1>4 DEF t

-----------------------------------------------------------------------------
(* The locations of a server: of those with the same path the last.          *)

LastAt(written, p) == SelectLastInSeq(written, LAMBDA d : d.path = p)
At(written, p) == {i \in 1 .. Len(written) : written[i].path = p}
RootOf(roots) == IF roots = <<>> THEN "html" ELSE roots[1]

\* A bounded set of numbers has a greatest.
LEMMA GreatestElement ==
    ASSUME NEW n \in Nat, NEW T \in SUBSET (1 .. n), T # {}
    PROVE  \E m \in T : \A k \in T : k <= m
<1> DEFINE U == {n - k : k \in T}
<1>1. U \in SUBSET Nat /\ U # {}
  <2>1. \A k \in T : k \in 1 .. n
    OBVIOUS
  <2>2. \A k \in T : n - k \in Nat
    BY <2>1
  <2>3. U # {}
    OBVIOUS
  <2> QED
    BY <2>2, <2>3
<1>2. PICK u \in U : \A w \in U : u <= w
  <2> HIDE DEF U
  <2> QED
    BY <1>1, LeastElement
<1>3. PICK m \in T : u = n - m
  BY <1>2
<1>4. \A k \in T : k <= m
  <2>1. \A k \in T : n - k \in U
    OBVIOUS
  <2>2. \A k \in T : n - m <= n - k
    BY <1>2, <1>3, <2>1
  <2>3. \A k \in T : k \in Int
    OBVIOUS
  <2> HIDE DEF U
  <2> QED
    BY <2>2, <2>3
<1> QED
  BY <1>4

\* The last place of a path is the greatest, if there is any.
LEMMA LastAtIs ==
    ASSUME NEW written, Len(written) \in Nat, NEW p, NEW m \in At(written, p),
           \A i \in At(written, p) : i <= m
    PROVE  LastAt(written, p) = m
<1> DEFINE I == {i \in 1 .. Len(written) : written[i].path = p}
<1>1. I = At(written, p)
  BY DEF At
<1>2. LastAt(written, p) = IF I # {} THEN Max(I) ELSE 0
  BY DEF LastAt, SelectLastInSeq
<1>3. I # {} /\ \A i \in I : i \in Nat
  BY <1>1
<1>4. Max(I) = CHOOSE x \in I : \A y \in I : x >= y
  BY Zenon DEF Max
<1> HIDE DEF I
<1>5. \A x \in I : (\A y \in I : x >= y) => x = m
  BY <1>1, <1>3
<1>6. m \in I /\ \A y \in I : m >= y
  BY <1>1, <1>3
<1>7. (CHOOSE x \in I : \A y \in I : x >= y) = m
  BY <1>5, <1>6
<1> QED
  BY <1>2, <1>3, <1>4, <1>7, Zenon

\* What Locations says, in these terms.
Paths(written) == {written[i].path : i \in DOMAIN written}

\* The locations of a server, the last of those with the same path.
LEMMA LocationsAre ==
    \A ds : /\ DOMAIN Locations(ds) = Paths(Located(ds))
            /\ Locations(ds) =
                   [p \in Paths(Located(ds)) |-> RootOf(Located(ds)[LastAt(Located(ds), p)].roots)]
BY DEF Locations, Located, LastAt, Paths, RootOf

\* A location more is the last of its path.
LEMMA LastOfAppend ==
    ASSUME NEW written \in Seq(Places), NEW d \in Places
    PROVE  LET new == Append(written, d) IN
           /\ Paths(new) = Paths(written) \union {d.path}
           /\ new[LastAt(new, d.path)] = d
           /\ \A p \in Paths(written) : p # d.path => new[LastAt(new, p)] = written[LastAt(written, p)]
<1> DEFINE new == Append(written, d)
           n == Len(written)
           P == Places
<1> HIDE DEF P
<1>1. /\ n \in Nat /\ DOMAIN written = 1 .. n /\ DOMAIN new = 1 .. n + 1 /\ Len(new) = n + 1
      /\ new[n + 1] = d /\ \A i \in 1 .. n : new[i] = written[i]
  <2>1. written \in Seq(P) /\ d \in P
    BY DEF P
  <2> QED
    BY <2>1
<1> HIDE DEF new
<1>2. Paths(new) = Paths(written) \union {d.path}
  BY <1>1 DEF Paths
<1>3. LastAt(new, d.path) = n + 1
  <2>1. n + 1 \in At(new, d.path) /\ \A i \in At(new, d.path) : i <= n + 1
    BY <1>1 DEF At
  <2> QED
    BY <1>1, <2>1, LastAtIs
<1>4. ASSUME NEW p \in Paths(written), p # d.path
      PROVE  new[LastAt(new, p)] = written[LastAt(written, p)]
  <2>1. At(new, p) = At(written, p) /\ At(written, p) # {} /\ At(written, p) \in SUBSET (1 .. n)
    BY <1>1, <1>4 DEF At, Paths
  <2>2. PICK m \in At(written, p) : \A k \in At(written, p) : k <= m
    BY <1>1, <2>1, GreatestElement
  <2>3. LastAt(written, p) = m /\ LastAt(new, p) = m
    BY <1>1, <2>1, <2>2, LastAtIs
  <2> QED
    BY <1>1, <2>1, <2>3
<1> QED
  BY <1>1, <1>2, <1>3, <1>4 DEF new

\* So one directive more changes what the locations are at its path, if it is one.
LEMMA LocationsOfAppend ==
    ASSUME NEW ds \in Seq(Directives), NEW d \in Directives
    PROVE  /\ ~IsLocation(d) => Locations(Append(ds, d)) = Locations(ds)
           /\ IsLocation(d) =>
                  /\ DOMAIN Locations(Append(ds, d)) = DOMAIN Locations(ds) \union {d.path}
                  /\ Locations(Append(ds, d))[d.path] = RootOf(d.roots)
                  /\ \A p \in DOMAIN Locations(ds) :
                         p # d.path => Locations(Append(ds, d))[p] = Locations(ds)[p]
<1> DEFINE t == Append(ds, d)
           a == Located(ds)
           b == Located(t)
<1>1. b = IF IsLocation(d) THEN Append(a, d) ELSE a
  BY LocatedOfAppend
<1>2. a \in Seq(Places)
  BY NamedType
<1>3. /\ DOMAIN Locations(ds) = Paths(a)
      /\ Locations(ds) = [p \in Paths(a) |-> RootOf(a[LastAt(a, p)].roots)]
      /\ DOMAIN Locations(t) = Paths(b)
      /\ Locations(t) = [p \in Paths(b) |-> RootOf(b[LastAt(b, p)].roots)]
  BY LocationsAre, Zenon
<1> HIDE DEF a, b, t
<1>4. CASE ~IsLocation(d)
  <2>1. b = a
    BY <1>1, <1>4
  <2>2. Locations(t) = Locations(ds)
    BY <1>3, <2>1, Zenon
  <2> QED
    BY <1>4, <2>2 DEF t
<1>5. CASE IsLocation(d)
  <2>1. b = Append(a, d) /\ d \in Places
    BY <1>1, <1>5 DEF Places
  <2>2. /\ Paths(b) = Paths(a) \union {d.path}
        /\ b[LastAt(b, d.path)] = d
        /\ \A p \in Paths(a) : p # d.path => b[LastAt(b, p)] = a[LastAt(a, p)]
    BY <1>2, <2>1, LastOfAppend
  <2>3. \A p \in Paths(b) : Locations(t)[p] = RootOf(b[LastAt(b, p)].roots)
    BY <1>3
  <2>4. \A p \in Paths(a) : Locations(ds)[p] = RootOf(a[LastAt(a, p)].roots)
    BY <1>3
  <2>5. Locations(t)[d.path] = RootOf(d.roots)
    BY <2>2, <2>3
  <2>6. \A p \in Paths(a) : p # d.path => Locations(t)[p] = Locations(ds)[p]
    <3> SUFFICES ASSUME NEW p \in Paths(a), p # d.path PROVE Locations(t)[p] = Locations(ds)[p]
      OBVIOUS
    <3>1. p \in Paths(b) /\ b[LastAt(b, p)] = a[LastAt(a, p)]
      BY <2>2
    <3>2. /\ Locations(t)[p] = RootOf(b[LastAt(b, p)].roots)
          /\ Locations(ds)[p] = RootOf(a[LastAt(a, p)].roots)
      BY <2>3, <2>4, <3>1, Zenon
    <3> QED
      BY <3>1, <3>2, Zenon
  <2> QED
    BY <1>3, <1>5, <2>2, <2>5, <2>6 DEF t
<1> QED
  BY <1>4, <1>5

-----------------------------------------------------------------------------
(* What a server's dictionary has of the directives read.                    *)

RootArgs(roots) == [i \in DOMAIN roots |-> <<roots[i]>>]
HasRoot(inner, root) == HasValues(inner, "root", {1}) /\ FirstArg(inner, "root", "html") = root
HoldsLocations(config, ds) ==
    IF DOMAIN Locations(ds) = {} THEN "location" \notin DOMAIN config
    ELSE /\ "location" \in DOMAIN config /\ IsBlock(config["location"])
         /\ DOMAIN config["location"].v = DOMAIN Locations(ds)
         /\ \A p \in DOMAIN Locations(ds) :
                /\ IsBlock(config["location"].v[p])
                /\ HasRoot(config["location"].v[p].v, Locations(ds)[p])
Describes(config, ds) ==
    /\ \A name : name # "location" => Gives(config, name, NamedArgs(ds, name))
    /\ HoldsLocations(config, ds)

\* Nothing is described by the empty dictionary.
LEMMA NothingDescribed == Describes(Empty, <<>>)
<1>1. \A P : Elements(<<>>, P) = <<>>
  BY ElementsOfEmpty
<1>2. \A name : Named(<<>>, name) = <<>>
  BY <1>1, Zenon DEF Named
<1>3. Located(<<>>) = <<>>
  BY <1>1, Zenon DEF Located
<1>4. \A name : NamedArgs(<<>>, name) = <<>>
  <2>1. \A name : NamedArgs(<<>>, name) = [i \in DOMAIN Named(<<>>, name) |-> Named(<<>>, name)[i].args]
    BY DEF NamedArgs
  <2>2. DOMAIN <<>> = {}
    OBVIOUS
  <2>3. \A name : NamedArgs(<<>>, name) = [i \in {} |-> Named(<<>>, name)[i].args]
    BY <1>2, <2>1, <2>2
  <2>4. \A f : DOMAIN f = {} /\ f = [i \in {} |-> f[i]] => f = <<>>
    OBVIOUS
  <2> QED
    BY <2>3, <2>4
<1>5. \A name : name \notin DOMAIN Empty
  BY DEF Empty
<1>6. DOMAIN Locations(<<>>) = {}
  <2>1. DOMAIN Locations(<<>>) = Paths(Located(<<>>))
    BY LocationsAre, Zenon
  <2>2. Paths(<<>>) = {}
    BY DEF Paths
  <2> QED
    BY <1>3, <2>1, <2>2, Zenon
<1> QED
  BY <1>4, <1>5, <1>6, Zenon DEF Describes, Gives, HoldsLocations

\* A directive more is described when it is appended under its name.
LEMMA SimpleDescribed ==
    ASSUME NEW config, NEW ds \in Seq(Directives), Describes(config, ds),
           NEW d \in Directives, ~IsLocation(d)
    PROVE  Describes(AppendRepeated(config, d.name, Args(d.args)), Append(ds, d))
<1> DEFINE new == AppendRepeated(config, d.name, Args(d.args))
           more == Append(ds, d)
<1>1. d.args \in Lists /\ d.name # "location"
  BY DirectiveIs DEF Lists
<1>2. \A name : name # d.name => SameAt(config, new, name)
  BY AppendRepeatedIs, Zenon
<1>3. \A name : NamedArgs(ds, name) \in Seq(Lists)
  BY NamedArgsType
<1>4. ASSUME NEW name, name # "location" PROVE Gives(new, name, NamedArgs(more, name))
  <2>1. Gives(config, name, NamedArgs(ds, name))
    BY <1>4 DEF Describes
  <2>2. CASE name = d.name
    <3>1. NamedArgs(more, name) = Append(NamedArgs(ds, name), d.args)
      BY <2>2, NamedOfAppend
    <3>2. Gives(AppendRepeated(config, name, Args(d.args)), name, Append(NamedArgs(ds, name), d.args))
      BY <1>1, <1>3, <2>1, AppendGives
    <3> HIDE DEF more
    <3> QED
      BY <2>2, <3>1, <3>2
  <2>3. CASE name # d.name
    <3>1. NamedArgs(more, name) = NamedArgs(ds, name)
      BY <2>3, NamedOfAppend
    <3>2. SameAt(config, new, name)
      BY <1>2, <2>3
    <3> HIDE DEF more, new
    <3>3. Gives(new, name, NamedArgs(ds, name))
      BY <2>1, <3>2, SameGives
    <3> QED
      BY <3>1, <3>3
  <2> QED
    BY <2>2, <2>3
<1>5. HoldsLocations(new, more)
  <2>1. Locations(more) = Locations(ds)
    BY LocationsOfAppend
  <2>2. SameAt(config, new, "location")
    BY <1>1, <1>2
  <2>3. HoldsLocations(config, ds)
    BY DEF Describes
  <2> HIDE DEF new, more
  <2> QED
    BY <2>1, <2>2, <2>3 DEF HoldsLocations, SameAt
<1> QED
  BY <1>4, <1>5, Zenon DEF Describes

\* A call that stores a block under an argument changes its key's dictionary there.
LEMMA StoredNamed ==
    ASSUME NEW U, NEW call \in Calls(U), NEW nested, NEW path, call.args = <<path>>
    PROVE  LET existing == IF call.key \in DOMAIN call.config THEN call.config[call.key] ELSE Dict(Empty)
               new == Stored(call, nested)
           IN  /\ new.config = With(call.config, call.key, Dict(With(existing.v, path, nested)))
               /\ new.key = "" /\ new.args = call.args
<1> DEFINE existing == IF call.key \in DOMAIN call.config THEN call.config[call.key] ELSE Dict(Empty)
           config == With(call.config, call.key, Dict(With(existing.v, path, nested)))
<1>1. call.args # <<>> /\ call.args[1] = path
  OBVIOUS
<1>2. Stored(call, nested) = [call EXCEPT !.config = config, !.key = ""]
  BY <1>1, Zenon DEF Stored
<1> HIDE DEF config
<1>3. /\ [call EXCEPT !.config = config, !.key = ""].config = config
      /\ [call EXCEPT !.config = config, !.key = ""].key = ""
      /\ [call EXCEPT !.config = config, !.key = ""].args = call.args
  BY DEF Calls
<1> QED
  BY <1>2, <1>3, Zenon DEF config

\* A call that stores a block without arguments appends it under its key.
LEMMA StoredUnnamed ==
    ASSUME NEW U, NEW call \in Calls(U), NEW nested, call.args = <<>>
    PROVE  LET new == Stored(call, nested)
           IN  /\ CanStore(call)
               /\ new.config = AppendRepeated(call.config, call.key, nested)
               /\ new.key = "" /\ new.args = call.args
<1> DEFINE config == AppendRepeated(call.config, call.key, nested)
<1>2. Stored(call, nested) = [call EXCEPT !.config = config, !.key = ""]
  BY Zenon DEF Stored
<1> HIDE DEF config
<1>3. /\ [call EXCEPT !.config = config, !.key = ""].config = config
      /\ [call EXCEPT !.config = config, !.key = ""].key = ""
      /\ [call EXCEPT !.config = config, !.key = ""].args = call.args
  BY DEF Calls
<1> QED
  BY <1>2, <1>3, Zenon DEF config, CanStore

\* A location more is described when it is stored under its path.
LEMMA LocationDescribed ==
    ASSUME NEW U, NEW call \in Calls(U), NEW ds \in Seq(Directives), Describes(call.config, ds),
           NEW d \in Directives, IsLocation(d),
           call.key = "location", call.args = <<d.path>>,
           NEW inner, HasRoot(inner, RootOf(d.roots))
    PROVE  /\ CanStore(call)
           /\ Describes(Stored(call, Dict(inner)).config, Append(ds, d))
<1> DEFINE config == call.config
           there == "location" \in DOMAIN config
           existing == IF there THEN config["location"] ELSE Dict(Empty)
           places == With(existing.v, d.path, Dict(inner))
           new == With(config, "location", Dict(places))
           more == Append(ds, d)
           L == Locations(ds)
           M == Locations(more)
<1>1. HoldsLocations(config, ds)
  BY DEF Describes
<1>2. CanStore(call)
  BY <1>1 DEF CanStore, HoldsLocations, IsBlock
<1>3. Stored(call, Dict(inner)).config = new
  <2> DEFINE old == IF call.key \in DOMAIN call.config THEN call.config[call.key] ELSE Dict(Empty)
  <2>1. Stored(call, Dict(inner)).config = With(call.config, call.key, Dict(With(old.v, d.path, Dict(inner))))
    BY StoredNamed, Zenon
  <2>2. old = existing
    OBVIOUS
  <2> HIDE DEF old, existing
  <2> QED
    BY <2>1, <2>2, Zenon
<1>4. \A name : name # "location" => SameAt(config, new, name)
  BY WithIs, Zenon
<1>5. ASSUME NEW name, name # "location" PROVE Gives(new, name, NamedArgs(more, name))
  <2>1. Gives(config, name, NamedArgs(ds, name))
    BY <1>5 DEF Describes
  <2>2. NamedArgs(more, name) = NamedArgs(ds, name)
    BY NamedOfAppend
  <2>3. SameAt(config, new, name)
    BY <1>4, <1>5
  <2> HIDE DEF more, new, config
  <2>4. Gives(new, name, NamedArgs(ds, name))
    BY <2>1, <2>3, SameGives
  <2> QED
    BY <2>2, <2>4
<1>6. /\ DOMAIN M = DOMAIN L \union {d.path} /\ M[d.path] = RootOf(d.roots)
      /\ \A p \in DOMAIN L : p # d.path => M[p] = L[p]
  BY LocationsOfAppend
<1>7. /\ "location" \in DOMAIN new /\ new["location"] = Dict(places)
  <2> HIDE DEF places, config
  <2> QED
    BY DEF With
<1>8. /\ DOMAIN existing.v = DOMAIN L
      /\ \A p \in DOMAIN L : IsBlock(existing.v[p]) /\ HasRoot(existing.v[p].v, L[p])
  <2>1. CASE DOMAIN L = {}
    <3>1. ~there
      BY <1>1, <2>1 DEF HoldsLocations
    <3>2. existing.v = Empty
      BY <3>1 DEF Dict
    <3> HIDE DEF existing
    <3> QED
      BY <2>1, <3>2 DEF Empty
  <2>2. CASE DOMAIN L # {}
    BY <1>1, <2>2 DEF HoldsLocations
  <2> QED
    BY <2>1, <2>2
<1>9. /\ IsBlock(Dict(places)) /\ Dict(places).v = places
      /\ IsBlock(Dict(inner)) /\ Dict(inner).v = inner
  BY DEF IsBlock, Dict
<1>10. /\ DOMAIN places = DOMAIN L \union {d.path} /\ places[d.path] = Dict(inner)
       /\ \A p \in DOMAIN L : p # d.path => places[p] = existing.v[p]
  <2> HIDE DEF existing
  <2>1. /\ DOMAIN places = DOMAIN existing.v \union {d.path} /\ places[d.path] = Dict(inner)
        /\ \A p \in DOMAIN existing.v : p # d.path => places[p] = existing.v[p]
    BY DEF With
  <2> QED
    BY <1>8, <2>1
<1>11. HoldsLocations(new, more)
  <2> HIDE DEF new, places, existing, L, more
  <2>1. DOMAIN M # {}
    BY <1>6
  <2>2. new["location"].v = places /\ IsBlock(new["location"])
    BY <1>7, <1>9
  <2>3. ASSUME NEW p \in DOMAIN M PROVE IsBlock(places[p]) /\ HasRoot(places[p].v, M[p])
    <3> HIDE DEF M
    <3>1. CASE p = d.path
      BY <1>6, <1>9, <1>10, <3>1
    <3>2. CASE p # d.path
      <4>1. p \in DOMAIN L
        BY <1>6, <2>3, <3>2
      <4> QED
        BY <1>6, <1>8, <1>10, <3>2, <4>1
    <3> QED
      BY <3>1, <3>2
  <2>4. DOMAIN places = DOMAIN M
    BY <1>6, <1>10
  <2>5. DOMAIN new["location"].v = DOMAIN M
    BY <2>2, <2>4
  <2>6. \A p \in DOMAIN M : IsBlock(new["location"].v[p]) /\ HasRoot(new["location"].v[p].v, M[p])
    BY <2>2, <2>3
  <2> QED
    BY <1>7, <2>1, <2>2, <2>5, <2>6, Zenon DEF HoldsLocations
<1> QED
  BY <1>2, <1>3, <1>5, <1>11, Zenon DEF Describes

\* The roots of a location, each an argument of its own.
LEMMA RootArgsAre ==
    ASSUME NEW roots \in Seq(Words)
    PROVE  /\ RootArgs(roots) \in Seq(Lists) /\ Len(RootArgs(roots)) = Len(roots)
           /\ \A i \in 1 .. Len(roots) : RootArgs(roots)[i] = <<roots[i]>>
           /\ \A w \in Words : RootArgs(Append(roots, w)) = Append(RootArgs(roots), <<w>>)
<1> DEFINE L == Lists
           n == Len(roots)
<1>1. \A w \in Words : <<w>> \in L
  BY FewWords DEF Lists
<1> HIDE DEF L
<1>2. \A r \in Seq(Words) : /\ RootArgs(r) \in Seq(L) /\ Len(RootArgs(r)) = Len(r)
                            /\ \A i \in 1 .. Len(r) : RootArgs(r)[i] = <<r[i]>>
  <2> SUFFICES ASSUME NEW r \in Seq(Words)
               PROVE  /\ RootArgs(r) \in Seq(L) /\ Len(RootArgs(r)) = Len(r)
                      /\ \A i \in 1 .. Len(r) : RootArgs(r)[i] = <<r[i]>>
    OBVIOUS
  <2>1. Len(r) \in Nat /\ DOMAIN r = 1 .. Len(r) /\ \A i \in 1 .. Len(r) : r[i] \in Words
    OBVIOUS
  <2>2. RootArgs(r) \in [1 .. Len(r) -> L] /\ [1 .. Len(r) -> L] \subseteq Seq(L)
    BY <1>1, <2>1 DEF RootArgs
  <2> QED
    BY <2>1, <2>2 DEF RootArgs
<1>3. ASSUME NEW w \in Words PROVE RootArgs(Append(roots, w)) = Append(RootArgs(roots), <<w>>)
  <2> DEFINE new == Append(roots, w)
             a == RootArgs(new)
             b == RootArgs(roots)
             c == Append(b, <<w>>)
  <2>1. /\ new \in Seq(Words) /\ n \in Nat /\ Len(new) = n + 1 /\ new[n + 1] = w
        /\ \A i \in 1 .. n : new[i] = roots[i]
    OBVIOUS
  <2>2. a \in Seq(L) /\ Len(a) = n + 1 /\ \A i \in 1 .. n + 1 : a[i] = <<new[i]>>
    BY <1>2, <2>1
  <2>3. b \in Seq(L) /\ Len(b) = n /\ \A i \in 1 .. n : b[i] = <<roots[i]>>
    BY <1>2
  <2> HIDE DEF a, b, new
  <2>4. /\ c \in Seq(L) /\ Len(c) = n + 1 /\ c[n + 1] = <<w>>
        /\ \A i \in 1 .. n : c[i] = b[i]
    BY <1>1, <2>1, <2>3, AppendProperties
  <2> HIDE DEF c
  <2>5. \A i \in 1 .. n + 1 : a[i] = c[i]
    <3>1. a[n + 1] = <<w>>
      BY <2>1, <2>2
    <3>2. \A i \in 1 .. n : a[i] = <<roots[i]>>
      BY <2>1, <2>2
    <3>3. \A i \in 1 .. n : a[i] = c[i]
      BY <2>3, <2>4, <3>2
    <3>4. n \in Nat /\ a[n + 1] = c[n + 1]
      BY <2>1, <2>4, <3>1
    <3> HIDE DEF n
    <3> QED
      BY <3>3, <3>4
  <2>6. a = c
    BY <2>2, <2>4, <2>5, SeqEqual
  <2> QED
    BY <2>6 DEF a, b, c, new
<1> QED
  BY <1>2, <1>3 DEF L

\* A location's dictionary has its root.
LEMMA RootGiven ==
    ASSUME NEW roots \in Seq(Words), NEW inner, Gives(inner, "root", RootArgs(roots))
    PROVE  HasRoot(inner, RootOf(roots))
<1> DEFINE values == Values(inner, "root")
           lists == RootArgs(roots)
<1>1. /\ lists \in Seq(Lists) /\ Len(lists) = Len(roots) /\ Len(roots) \in Nat
      /\ \A i \in 1 .. Len(roots) : lists[i] = <<roots[i]>>
  BY RootArgsAre
<1>2. lists = <<>> <=> roots = <<>>
  <2> DEFINE L == Lists
  <2> HIDE DEF L, lists
  <2>1. lists \in Seq(L)
    BY <1>1 DEF L
  <2> QED
    BY <1>1, <2>1
<1> HIDE DEF lists
<1>3. CASE roots = <<>>
  <2>1. "root" \notin DOMAIN inner
    BY <1>2, <1>3 DEF Gives, lists
  <2>2. values = <<>>
    BY <2>1 DEF Values
  <2> HIDE DEF values
  <2> QED
    BY <1>3, <2>1, <2>2 DEF HasRoot, HasValues, FirstArg, RootOf, values
<1>4. CASE roots # <<>>
  <2>1. /\ values = Given(lists) /\ inner["root"].kind # "dict"
    BY <1>2, <1>4 DEF Gives, lists
  <2>2. lists # <<>> /\ Len(lists) >= 1
    BY <1>1, <1>2, <1>4
  <2>4. /\ Given(lists) # <<>> /\ DOMAIN Given(lists) = 1 .. Len(lists)
        /\ \A i \in 1 .. Len(lists) : /\ Given(lists)[i].kind = "args" /\ Given(lists)[i].v = lists[i]
                                      /\ IsTrue(Given(lists)[i])
    <3>1. lists[1] \in Lists
      <4> DEFINE L == Lists
      <4> HIDE DEF L
      <4>1. lists \in Seq(L)
        BY <1>1 DEF L
      <4>2. lists[1] \in L
        BY <2>2, <4>1
      <4> QED
        BY <4>2 DEF L
    <3> QED
      BY <1>1, <2>2, <3>1, GivenIs
  <2>5. values[1].v = <<roots[1]>> /\ IsTrue(values[1]) /\ values # <<>>
    BY <1>1, <2>1, <2>2, <2>4
  <2>6. FirstArg(inner, "root", "html") = roots[1]
    BY <2>5 DEF FirstArg
  <2>7. \A i \in DOMAIN Values(inner, "root") : Values(inner, "root")[i].kind = "args"
    BY <2>1, <2>4
  <2>8. HasValues(inner, "root", {1})
    BY <2>1, <2>7, Zenon DEF HasValues
  <2> QED
    BY <1>4, <2>6, <2>8 DEF HasRoot, RootOf
<1> QED
  BY <1>3, <1>4

-----------------------------------------------------------------------------
(* What a server's dictionary is converted to, if it gives what is said.     *)

FirstOf(lists, default) == IF lists = <<>> THEN default ELSE lists[1][1]
AsksForTLS(list) == Contains(Tail(list), "ssl")
ListensOf(lists) == [i \in DOMAIN lists |-> [port |-> lists[i][1], ssl |-> AsksForTLS(lists[i])]]
FirstsOf(lists) == [i \in DOMAIN lists |-> lists[i][1]]
TLSOf(certificates, keys, chains) ==
    IF FirstOf(certificates, "") = "" THEN NoTLS
    ELSE [certificate |-> FirstOf(certificates, ""), key |-> FirstOf(keys, ""), chain |-> FirstsOf(chains)]

\* The elements of a sequence of lists.
LEMMA ListsAre ==
    ASSUME NEW lists \in Seq(Lists)
    PROVE  /\ Len(lists) \in Nat /\ DOMAIN lists = 1 .. Len(lists)
           /\ \A i \in 1 .. Len(lists) : lists[i] \in Lists /\ lists[i] \in Seq(Words) /\ lists[i] # <<>>
           /\ lists = <<>> <=> Len(lists) = 0
           /\ \A list \in Lists : list[1] \in Words
<1> DEFINE L == Lists
<1>1. \A list \in L : list \in Seq(Words) /\ list # <<>> /\ list[1] \in Words
  BY DEF Lists
<1> HIDE DEF L
<1>2. lists \in Seq(L)
  BY DEF L
<1>3. Len(lists) \in Nat /\ DOMAIN lists = 1 .. Len(lists) /\ \A i \in 1 .. Len(lists) : lists[i] \in L
  BY <1>2
<1>4. lists = <<>> <=> Len(lists) = 0
  BY <1>2
<1> QED
  BY <1>1, <1>3, <1>4 DEF L

\* The values of a name that gives lists are these lists.
LEMMA ValuesGiven ==
    ASSUME NEW block, NEW name, NEW lists \in Seq(Lists), Gives(block, name, lists)
    PROVE  LET values == Values(block, name) IN
           /\ values = Given(lists)
           /\ Elements(values, {i \in DOMAIN values : IsTrue(values[i])}) = values
           /\ \A used : HasValues(block, name, used)
           /\ \A default : FirstArg(block, name, default) = FirstOf(lists, default)
           /\ values = <<>> <=> lists = <<>>
           /\ DOMAIN values = 1 .. Len(lists)
           /\ \A i \in 1 .. Len(lists) : IsTrue(values[i]) /\ values[i].v = lists[i]
<1> DEFINE values == Values(block, name)
           n == Len(lists)
<1>1. /\ n \in Nat /\ DOMAIN lists = 1 .. n
      /\ \A i \in 1 .. n : lists[i] \in Lists
      /\ lists = <<>> <=> n = 0
  BY ListsAre
<1>2. CASE lists = <<>>
  <2>1. name \notin DOMAIN block
    BY <1>2 DEF Gives
  <2>2. values = <<>>
    BY <2>1 DEF Values
  <2>3. Given(lists) = <<>>
    <3>1. DOMAIN Given(lists) = {} /\ Given(lists) = [i \in DOMAIN Given(lists) |-> Given(lists)[i]]
      BY <1>2 DEF Given
    <3>2. \A f : DOMAIN f = {} /\ f = [i \in DOMAIN f |-> f[i]] => f = <<>>
      OBVIOUS
    <3> QED
      BY <3>1, <3>2
  <2>4. DOMAIN values = {} /\ 1 .. n = {}
    BY <1>1, <1>2, <2>2
  <2>5. Elements(values, {i \in DOMAIN values : IsTrue(values[i])}) = values
    BY <2>2, ElementsOfEmpty
  <2>6. \A used : HasValues(block, name, used)
    BY <2>1, <2>4, Zenon DEF HasValues
  <2>7. \A default : FirstArg(block, name, default) = FirstOf(lists, default)
    BY <1>2, <2>2 DEF FirstArg, FirstOf
  <2> QED
    BY <1>2, <2>2, <2>3, <2>4, <2>5, <2>6, <2>7
<1>3. CASE lists # <<>>
  <2>1. values = Given(lists) /\ block[name].kind # "dict"
    BY <1>3 DEF Gives
  <2>2. 1 \in 1 .. n /\ lists[1] \in Lists
    BY <1>1, <1>3
  <2>3. /\ DOMAIN Given(lists) = 1 .. n /\ Len(Given(lists)) = n
        /\ \A i \in 1 .. n : /\ Given(lists)[i] = Args(lists[i])
                             /\ Given(lists)[i].kind = "args" /\ Given(lists)[i].v = lists[i]
                             /\ IsTrue(Given(lists)[i])
        /\ Given(lists) # <<>>
    BY <1>3, <2>2, GivenIs
  <2>4. values \in Seq({Args(l) : l \in Lists})
    <3> DEFINE A == {Args(l) : l \in Lists}
    <3>1. \A i \in 1 .. n : Args(lists[i]) \in A
      BY <1>1
    <3> HIDE DEF A
    <3>2. Given(lists) \in [1 .. n -> A]
      BY <1>1, <3>1 DEF Given
    <3>3. Given(lists) \in Seq(A)
      BY <1>1, <3>2
    <3> QED
      BY <2>1, <3>3 DEF A
  <2>5. Elements(values, {i \in DOMAIN values : IsTrue(values[i])}) = values
    <3> DEFINE P == {i \in DOMAIN values : IsTrue(values[i])}
    <3>1. \A i \in 1 .. Len(values) : i \in P
      BY <2>1, <2>3
    <3> HIDE DEF P
    <3>2. Elements(values, P) = values
      BY <2>4, <3>1, ElementsOfAll
    <3> QED
      BY <3>2 DEF P
  <2>6. \A used : HasValues(block, name, used)
    <3>1. \A i \in DOMAIN Values(block, name) : Values(block, name)[i].kind = "args"
      BY <2>1, <2>3
    <3> QED
      BY <2>1, <3>1, Zenon DEF HasValues
  <2>7. \A default : FirstArg(block, name, default) = FirstOf(lists, default)
    <3>1. values # <<>> /\ IsTrue(values[1]) /\ values[1].v = lists[1]
      BY <2>1, <2>2, <2>3
    <3>2. FirstOf(lists, <<>>) = lists[1][1] /\ \A default : FirstOf(lists, default) = lists[1][1]
      BY <1>3 DEF FirstOf
    <3>3. \A default : FirstArg(block, name, default) = values[1].v[1]
      BY <3>1, Zenon DEF FirstArg
    <3> QED
      BY <3>1, <3>2, <3>3, Zenon
  <2> QED
    BY <1>3, <2>1, <2>3, <2>5, <2>6, <2>7
<1> QED
  BY <1>2, <1>3

\* A list asks for TLS when the words after its first say so.
LEMMA TLSIsAsked ==
    ASSUME NEW list \in Lists
    PROVE  ("ssl" \in ToSet(Tail(list))) = AsksForTLS(list)
<1> DEFINE t == Tail(list)
<1>1. list \in Seq(Words) /\ list # <<>>
  BY DEF Lists
<1>2. t \in Seq(Words)
  BY <1>1
<1> HIDE DEF t
<1>3. DOMAIN t = 1 .. Len(t)
  BY <1>2
<1>4. ("ssl" \in ToSet(t)) <=> Contains(t, "ssl")
  <2>1. ("ssl" \in ToSet(t)) <=> \E i \in DOMAIN t : t[i] = "ssl"
    BY DEF ToSet
  <2>2. Contains(t, "ssl") <=> \E i \in 1 .. Len(t) : t[i] = "ssl"
    BY DEF Contains
  <2> QED
    BY <1>3, <2>1, <2>2
<1>5. ("ssl" \in ToSet(t)) = (\E i \in 1 .. Len(t) : t[i] = "ssl")
  <2>1. CASE "ssl" \in ToSet(t)
    <3>1. ("ssl" \in ToSet(t)) = TRUE
      BY <2>1
    <3>2. (\E i \in 1 .. Len(t) : t[i] = "ssl") = TRUE
      BY <1>4, <2>1, Zenon DEF Contains
    <3> QED
      BY <3>1, <3>2
  <2>2. CASE ~("ssl" \in ToSet(t))
    <3>1. ("ssl" \in ToSet(t)) = FALSE
      BY <2>2
    <3>2. (\E i \in 1 .. Len(t) : t[i] = "ssl") = FALSE
      BY <1>4, <2>2, Zenon DEF Contains
    <3> QED
      BY <3>1, <3>2
  <2> QED
    BY <2>1, <2>2
<1> QED
  BY <1>5, Zenon DEF AsksForTLS, Contains, t

\* The listeners that are given.
LEMMA ListensGiven ==
    ASSUME NEW block, NEW lists \in Seq(Lists), Gives(block, "listen", lists)
    PROVE  ParseListen(block) = OrDefault(ListensOf(lists), DefaultListens)
<1> DEFINE values == Values(block, "listen")
           given == Elements(values, {i \in DOMAIN values : IsTrue(values[i])})
           listens == [i \in DOMAIN given |-> [port |-> given[i].v[1], ssl |-> "ssl" \in ToSet(Tail(given[i].v))]]
           n == Len(lists)
<1>1. /\ given = values /\ DOMAIN values = 1 .. n
      /\ \A i \in 1 .. n : values[i].v = lists[i]
  BY ValuesGiven
<1>2. n \in Nat /\ DOMAIN lists = 1 .. n /\ \A i \in 1 .. n : lists[i] \in Lists
  BY ListsAre
<1>3. \A i \in 1 .. n : [port |-> given[i].v[1], ssl |-> "ssl" \in ToSet(Tail(given[i].v))] =
                        [port |-> lists[i][1], ssl |-> AsksForTLS(lists[i])]
  <2> SUFFICES ASSUME NEW i \in 1 .. n
               PROVE  [port |-> given[i].v[1], ssl |-> "ssl" \in ToSet(Tail(given[i].v))] =
                      [port |-> lists[i][1], ssl |-> AsksForTLS(lists[i])]
    OBVIOUS
  <2>1. given[i].v = lists[i]
    BY <1>1
  <2>2. ("ssl" \in ToSet(Tail(lists[i]))) = AsksForTLS(lists[i])
    BY <1>2, TLSIsAsked
  <2> HIDE DEF given
  <2> QED
    BY <2>1, <2>2, Zenon
<1>4. DOMAIN given = 1 .. n
  BY <1>1
<1> HIDE DEF given
<1>5. listens = ListensOf(lists)
  BY <1>2, <1>3, <1>4 DEF ListensOf
<1>6. ParseListen(block) = IF listens = <<>> THEN DefaultListens ELSE listens
  BY Zenon DEF ParseListen, given
<1> HIDE DEF listens
<1>7. listens = <<>> <=> DOMAIN listens = {}
  <2>1. \A f : DOMAIN f = {} /\ f = [i \in DOMAIN f |-> f[i]] => f = <<>>
    OBVIOUS
  <2>2. listens = [i \in DOMAIN listens |-> listens[i]]
    BY <1>5 DEF ListensOf
  <2>3. DOMAIN <<>> = {}
    OBVIOUS
  <2> QED
    BY <2>1, <2>2, <2>3, Zenon
<1> QED
  BY <1>5, <1>6, <1>7, Zenon DEF OrDefault

\* The certificate, its key and its chain that are given.
LEMMA TLSGiven ==
    ASSUME NEW block, NEW certificates \in Seq(Lists), NEW keys \in Seq(Lists), NEW chains \in Seq(Lists),
           Gives(block, "ssl_certificate", certificates), Gives(block, "ssl_certificate_key", keys),
           Gives(block, "ssl_certificate_chain", chains)
    PROVE  ParseTLS(block) = TLSOf(certificates, keys, chains)
<1> DEFINE values == Values(block, "ssl_certificate_chain")
           chain == Elements(values, {i \in DOMAIN values : IsTrue(values[i])})
           firsts == [i \in DOMAIN chain |-> chain[i].v[1]]
           n == Len(chains)
<1>1. FirstArg(block, "ssl_certificate", "") = FirstOf(certificates, "")
  BY ValuesGiven
<1>2. FirstArg(block, "ssl_certificate_key", "") = FirstOf(keys, "")
  BY ValuesGiven
<1>3. /\ chain = values /\ DOMAIN values = 1 .. n
      /\ \A i \in 1 .. n : values[i].v = chains[i]
  BY ValuesGiven
<1>4. DOMAIN chains = 1 .. n
  BY ListsAre
<1>5. firsts = FirstsOf(chains)
  <2>1. DOMAIN chain = 1 .. n /\ \A i \in 1 .. n : chain[i].v = chains[i]
    BY <1>3
  <2> HIDE DEF chain
  <2> QED
    BY <1>4, <2>1 DEF FirstsOf
<1>6. ParseTLS(block) =
          IF FirstArg(block, "ssl_certificate", "") = "" THEN NoTLS
          ELSE [certificate |-> FirstArg(block, "ssl_certificate", ""),
                key |-> FirstArg(block, "ssl_certificate_key", ""), chain |-> firsts]
  BY Zenon DEF ParseTLS
<1> HIDE DEF firsts
<1> QED
  BY <1>1, <1>2, <1>5, <1>6, Zenon DEF TLSOf

-----------------------------------------------------------------------------
(* A server's dictionary is converted to what its directives mean.           *)

\* What the directives say, in terms of the arguments of those of a name.
LEMMA SaidIs ==
    ASSUME NEW ds \in Seq(Directives)
    PROVE  /\ Listens(ds) = ListensOf(NamedArgs(ds, "listen"))
           /\ Chain(ds) = FirstsOf(NamedArgs(ds, "ssl_certificate_chain"))
           /\ \A name, default : First(Named(ds, name), default) = FirstOf(NamedArgs(ds, name), default)
           /\ Certificate(ds) = FirstOf(NamedArgs(ds, "ssl_certificate"), "")
           /\ Key(ds) = FirstOf(NamedArgs(ds, "ssl_certificate_key"), "")
<1>1. ASSUME NEW name
      PROVE  /\ DOMAIN Named(ds, name) = DOMAIN NamedArgs(ds, name)
             /\ \A i \in DOMAIN Named(ds, name) : Named(ds, name)[i].args = NamedArgs(ds, name)[i]
             /\ Named(ds, name) = <<>> <=> NamedArgs(ds, name) = <<>>
             /\ Named(ds, name) # <<>> => 1 \in DOMAIN Named(ds, name)
  <2> DEFINE a == Named(ds, name)
             b == NamedArgs(ds, name)
             D == Simples(name)
             L == Lists
  <2>1. /\ a \in Seq(D) /\ b \in Seq(L) /\ Len(b) = Len(a) /\ Len(a) \in Nat
        /\ \A i \in 1 .. Len(a) : b[i] = a[i].args
    BY NamedArgsType
  <2> HIDE DEF a, b, D, L
  <2>2. DOMAIN a = 1 .. Len(a) /\ DOMAIN b = 1 .. Len(a)
    BY <2>1
  <2>3. (a = <<>> <=> Len(a) = 0) /\ (b = <<>> <=> Len(b) = 0)
    BY <2>1
  <2> QED
    BY <2>1, <2>2, <2>3 DEF a, b
<1>2. Listens(ds) = ListensOf(NamedArgs(ds, "listen"))
  <2> DEFINE a == Named(ds, "listen")
             b == NamedArgs(ds, "listen")
  <2>1. DOMAIN a = DOMAIN b /\ \A i \in DOMAIN a : a[i].args = b[i]
    BY <1>1
  <2>2. Listens(ds) = [i \in DOMAIN a |-> [port |-> a[i].args[1], ssl |-> AsksForTLS(a[i].args)]]
    BY Zenon DEF Listens, AsksForTLS
  <2>3. \A i \in DOMAIN a : [port |-> a[i].args[1], ssl |-> AsksForTLS(a[i].args)] =
                            [port |-> b[i][1], ssl |-> AsksForTLS(b[i])]
    BY <2>1, Zenon
  <2> HIDE DEF a, b
  <2> QED
    BY <2>1, <2>2, <2>3 DEF ListensOf, b
<1>3. Chain(ds) = FirstsOf(NamedArgs(ds, "ssl_certificate_chain"))
  <2> DEFINE a == Named(ds, "ssl_certificate_chain")
             b == NamedArgs(ds, "ssl_certificate_chain")
  <2>1. DOMAIN a = DOMAIN b /\ \A i \in DOMAIN a : a[i].args = b[i]
    BY <1>1
  <2>2. Chain(ds) = [i \in DOMAIN a |-> a[i].args[1]]
    BY Zenon DEF Chain
  <2> HIDE DEF a, b
  <2> QED
    BY <2>1, <2>2 DEF FirstsOf, b
<1>4. ASSUME NEW name, NEW default
      PROVE  First(Named(ds, name), default) = FirstOf(NamedArgs(ds, name), default)
  <2>1. /\ Named(ds, name) = <<>> <=> NamedArgs(ds, name) = <<>>
        /\ Named(ds, name) # <<>> => Named(ds, name)[1].args = NamedArgs(ds, name)[1]
    BY <1>1
  <2> QED
    BY <2>1, Zenon DEF First, FirstOf
<1>5. Certificate(ds) = FirstOf(NamedArgs(ds, "ssl_certificate"), "")
  BY <1>4, Zenon DEF Certificate
<1>6. Key(ds) = FirstOf(NamedArgs(ds, "ssl_certificate_key"), "")
  BY <1>4, Zenon DEF Key
<1> QED
  BY <1>2, <1>3, <1>4, <1>5, <1>6

\* The locations that are held.
LEMMA LocationsGiven ==
    ASSUME NEW block, NEW ds, HoldsLocations(block, ds)
    PROVE  /\ ParseLocations(block) = OrDefault(Locations(ds), [p \in {"/"} |-> "html"])
           /\ "location" \in DOMAIN block /\ block["location"].kind = "dict" =>
                  \A p \in DOMAIN block["location"].v :
                      LET location == block["location"].v[p]
                      IN  location.kind = "dict" => HasValues(location.v, "root", {1})
<1> DEFINE there == "location" \in DOMAIN block
           locations == IF there THEN block["location"] ELSE Dict(Empty)
           paths == {p \in DOMAIN locations.v : locations.v[p].kind = "dict"}
           default == [p \in {"/"} |-> "html"]
           L == Locations(ds)
<1>1. ParseLocations(block) =
          IF locations.kind # "dict" THEN Empty
          ELSE IF paths = {} THEN default
          ELSE [p \in paths |-> FirstArg(locations.v[p].v, "root", "html")]
  BY Zenon DEF ParseLocations
<1> HIDE DEF default
<1>2. CASE DOMAIN L = {}
  <2>1. ~there
    BY <1>2 DEF HoldsLocations
  <2>2. locations.kind = "dict" /\ locations.v = Empty
    BY <2>1 DEF Dict
  <2>3. paths = {}
    BY <2>2 DEF Empty
  <2> HIDE DEF locations, paths
  <2>4. ParseLocations(block) = default
    BY <1>1, <2>2, <2>3
  <2> HIDE DEF L
  <2> QED
    BY <1>2, <2>1, <2>4 DEF OrDefault, L, default
<1>3. CASE DOMAIN L # {}
  <2>1. /\ there /\ IsBlock(block["location"])
        /\ DOMAIN block["location"].v = DOMAIN L
        /\ \A p \in DOMAIN L : /\ IsBlock(block["location"].v[p])
                               /\ HasRoot(block["location"].v[p].v, L[p])
    BY <1>3, Zenon DEF HoldsLocations
  <2>2. locations = block["location"]
    BY <2>1
  <2> HIDE DEF locations, L
  <2>3. paths = DOMAIN L /\ locations.kind = "dict"
    BY <2>1, <2>2 DEF IsBlock
  <2> HIDE DEF paths
  <2>4. ParseLocations(block) = [p \in paths |-> FirstArg(locations.v[p].v, "root", "html")]
    BY <1>1, <1>3, <2>3
  <2>5. \A p \in paths : FirstArg(locations.v[p].v, "root", "html") = L[p]
    BY <2>1, <2>2, <2>3 DEF HasRoot
  <2>6. L = [p \in DOMAIN L |-> L[p]]
    <3>1. Locations(ds) = [p \in Paths(Located(ds)) |-> RootOf(Located(ds)[LastAt(Located(ds), p)].roots)]
      BY LocationsAre, Zenon
    <3> QED
      BY <3>1 DEF L
  <2>7. ParseLocations(block) = L
    BY <2>3, <2>4, <2>5, <2>6
  <2>8. \A p \in DOMAIN block["location"].v : HasValues(block["location"].v[p].v, "root", {1})
    BY <2>1 DEF HasRoot
  <2> QED
    BY <1>3, <2>7, <2>8, Zenon DEF OrDefault, L
<1> QED
  BY <1>2, <1>3

\* The names whose values a server is converted from.
Asked == {"listen", "server_name", "ssl_certificate", "ssl_certificate_key"}

\* A server can be converted if it is sound, and is converted to what it means.
LEMMA MeaningGiven ==
    ASSUME NEW block, NEW ds \in Seq(Directives), Describes(block, ds)
    PROVE  /\ CanConvert(block) <=> IsSound(ds)
           /\ ConvertServer(block) = Meaning(ds)
<1> DEFINE args(name) == NamedArgs(ds, name)
<1>1. \A name : args(name) \in Seq(Lists)
  BY NamedArgsType
<1>2. \A name : name # "location" => Gives(block, name, args(name))
  BY Zenon DEF Describes
<1>3. HoldsLocations(block, ds)
  BY Zenon DEF Describes
<1>4. /\ Gives(block, "listen", args("listen")) /\ Gives(block, "server_name", args("server_name"))
      /\ Gives(block, "ssl_certificate", args("ssl_certificate"))
      /\ Gives(block, "ssl_certificate_key", args("ssl_certificate_key"))
      /\ Gives(block, "ssl_certificate_chain", args("ssl_certificate_chain"))
  BY <1>2
<1>5. /\ Listens(ds) = ListensOf(args("listen"))
      /\ Chain(ds) = FirstsOf(args("ssl_certificate_chain"))
      /\ First(Named(ds, "server_name"), "localhost") = FirstOf(args("server_name"), "localhost")
      /\ Certificate(ds) = FirstOf(args("ssl_certificate"), "")
      /\ Key(ds) = FirstOf(args("ssl_certificate_key"), "")
  BY SaidIs, Zenon
<1> HIDE DEF args
<1>6. /\ FirstArg(block, "ssl_certificate", "") = Certificate(ds)
      /\ FirstArg(block, "ssl_certificate_key", "") = Key(ds)
      /\ FirstArg(block, "server_name", "localhost") = First(Named(ds, "server_name"), "localhost")
  <2>1. FirstArg(block, "ssl_certificate", "") = FirstOf(args("ssl_certificate"), "")
    BY <1>1, <1>4, ValuesGiven
  <2>2. FirstArg(block, "ssl_certificate_key", "") = FirstOf(args("ssl_certificate_key"), "")
    BY <1>1, <1>4, ValuesGiven
  <2>3. FirstArg(block, "server_name", "localhost") = FirstOf(args("server_name"), "localhost")
    BY <1>1, <1>4, ValuesGiven
  <2> QED
    BY <1>5, <2>1, <2>2, <2>3, Zenon
<1>7. CanConvert(block) <=> IsSound(ds)
  <2> DEFINE values == Values(block, "listen")
             numbers == \A i \in DOMAIN values : IsTrue(values[i]) => values[i].v[1] \in Numerals
             n == Len(args("listen"))
  <2>1. \A name \in Asked \union {"ssl_certificate_chain"} : \A used : HasValues(block, name, used)
    <3>1. ASSUME NEW name, Gives(block, name, args(name)) PROVE \A used : HasValues(block, name, used)
      <4>1. args(name) \in Seq(Lists)
        BY <1>1
      <4> QED
        BY <3>1, <4>1, ValuesGiven
    <3>2. \A name \in Asked \union {"ssl_certificate_chain"} : Gives(block, name, args(name))
      BY <1>4 DEF Asked
    <3> QED
      BY <3>1, <3>2, Zenon
  <2>2. numbers <=> \A i \in DOMAIN Listens(ds) : Listens(ds)[i].port \in Numerals
    <3>1. /\ DOMAIN values = 1 .. n
          /\ \A i \in 1 .. n : IsTrue(values[i]) /\ values[i].v = args("listen")[i]
      <4>1. ASSUME NEW name, Gives(block, name, args(name))
            PROVE  /\ DOMAIN Values(block, name) = 1 .. Len(args(name))
                   /\ \A i \in 1 .. Len(args(name)) : /\ IsTrue(Values(block, name)[i])
                                                      /\ Values(block, name)[i].v = args(name)[i]
        <5>1. args(name) \in Seq(Lists)
          BY <1>1
        <5> QED
          BY <4>1, <5>1, ValuesGiven
      <4> QED
        BY <1>4, <4>1, Zenon
    <3>2. DOMAIN args("listen") = 1 .. n
      BY <1>1, ListsAre
    <3>3. /\ DOMAIN Listens(ds) = 1 .. n
          /\ \A i \in 1 .. n : Listens(ds)[i].port = args("listen")[i][1]
      <4> DEFINE lists == args("listen")
      <4>1. Listens(ds) = ListensOf(lists)
        BY <1>5
      <4>2. DOMAIN lists = 1 .. n
        BY <3>2
      <4> HIDE DEF lists, n
      <4>3. DOMAIN ListensOf(lists) = 1 .. n /\ \A i \in 1 .. n : ListensOf(lists)[i].port = lists[i][1]
        BY <4>2 DEF ListensOf
      <4> QED
        BY <4>1, <4>3 DEF lists
    <3> HIDE DEF n, values
    <3> QED
      BY <3>1, <3>3
  <2>3. NeedsBoth(block) <=> (Certificate(ds) = "") = (Key(ds) = "")
    BY <1>6, Zenon DEF NeedsBoth
  <2>4. CanConvert(block) <=>
            /\ HasValues(block, "listen", Nat)
            /\ numbers
            /\ \A name \in {"server_name", "ssl_certificate", "ssl_certificate_key"} : HasValues(block, name, {1})
            /\ "location" \in DOMAIN block /\ block["location"].kind = "dict" =>
                   \A p \in DOMAIN block["location"].v :
                       LET location == block["location"].v[p]
                       IN  location.kind = "dict" => HasValues(location.v, "root", {1})
            /\ NeedsBoth(block)
            /\ FirstArg(block, "ssl_certificate", "") # "" => HasValues(block, "ssl_certificate_chain", Nat)
    BY Zenon DEF CanConvert
  <2>5. /\ HasValues(block, "listen", Nat) /\ HasValues(block, "ssl_certificate_chain", Nat)
        /\ \A name \in {"server_name", "ssl_certificate", "ssl_certificate_key"} : HasValues(block, name, {1})
    BY <2>1 DEF Asked
  <2>6. "location" \in DOMAIN block /\ block["location"].kind = "dict" =>
            \A p \in DOMAIN block["location"].v :
                LET location == block["location"].v[p]
                IN  location.kind = "dict" => HasValues(location.v, "root", {1})
    BY <1>3, LocationsGiven, Zenon
  <2>7. IsSound(ds) <=> /\ \A i \in DOMAIN Listens(ds) : Listens(ds)[i].port \in Numerals
                        /\ (Certificate(ds) = "") = (Key(ds) = "")
    BY Zenon DEF IsSound
  <2> HIDE DEF numbers
  <2> QED
    BY <2>2, <2>3, <2>4, <2>5, <2>6, <2>7, Zenon
<1>8. ConvertServer(block) = Meaning(ds)
  <2>1. ParseListen(block) = OrDefault(Listens(ds), DefaultListens)
    BY <1>1, <1>4, <1>5, ListensGiven
  <2>2. ParseLocations(block) = OrDefault(Locations(ds), [p \in {"/"} |-> "html"])
    BY <1>3, LocationsGiven, Zenon
  <2>3. ParseTLS(block) = TLSOf(args("ssl_certificate"), args("ssl_certificate_key"), args("ssl_certificate_chain"))
    BY <1>1, <1>4, TLSGiven
  <2>4. ParseTLS(block) = IF Certificate(ds) = "" THEN NoTLS
                          ELSE [certificate |-> Certificate(ds), key |-> Key(ds), chain |-> Chain(ds)]
    BY <1>5, <2>3, Zenon DEF TLSOf
  <2> QED
    BY <1>6, <2>1, <2>2, <2>4, Zenon DEF ConvertServer, Meaning
<1> QED
  BY <1>7, <1>8

-----------------------------------------------------------------------------
(* The server blocks of the http block.                                      *)

\* A dictionary holds so many server blocks and nothing else under that name.
HasBlocks(http, n) ==
    IF n = 0 THEN "server" \notin DOMAIN http
    ELSE /\ "server" \in DOMAIN http /\ http["server"].kind \in {"dict", "many"}
         /\ \E S : Values(http, "server") \in Seq(S)
         /\ Len(Values(http, "server")) = n
         /\ \A i \in 1 .. n : IsBlock(Values(http, "server")[i])

\* A server block more is the last of them.
LEMMA BlockAppended ==
    ASSUME NEW http, NEW n \in Nat, HasBlocks(http, n), NEW block
    PROVE  LET new == AppendRepeated(http, "server", Dict(block)) IN
           /\ HasBlocks(new, n + 1)
           /\ Values(new, "server")[n + 1] = Dict(block)
           /\ \A i \in 1 .. n : Values(new, "server")[i] = Values(http, "server")[i]
<1> DEFINE value == Dict(block)
           new == AppendRepeated(http, "server", value)
<1>1. IsBlock(value) /\ value.kind = "dict"
  BY DEF IsBlock, Dict
<1> HIDE DEF value
<1>2. CASE n = 0
  <2>1. new = With(http, "server", value)
    BY <1>2, Zenon DEF AppendRepeated, HasBlocks
  <2>2. "server" \in DOMAIN new /\ new["server"] = value
    <3>1. DOMAIN With(http, "server", value) = DOMAIN http \union {"server"} /\ With(http, "server", value)["server"] = value
      BY DEF With
    <3> HIDE DEF new
    <3> QED
      BY <2>1, <3>1
  <2> HIDE DEF new
  <2>3. Values(new, "server") = <<value>>
    BY <1>1, <2>2 DEF Values
  <2>4. <<value>> \in Seq({value}) /\ Len(<<value>>) = 1 /\ <<value>>[1] = value
    OBVIOUS
  <2>5. \E S : Values(new, "server") \in Seq(S)
    BY <2>3, <2>4, Zenon
  <2>6. new["server"].kind \in {"dict", "many"}
    BY <1>1, <2>2
  <2>7. Len(Values(new, "server")) = 1 /\ Values(new, "server")[1] = value
    BY <2>3, <2>4
  <2>8. \A i \in 1 .. 1 : IsBlock(Values(new, "server")[i])
    BY <1>1, <2>7
  <2>9. HasBlocks(new, 1)
    BY <2>2, <2>5, <2>6, <2>7, <2>8 DEF HasBlocks
  <2> QED
    BY <1>2, <2>7, <2>9 DEF new, value
<1>3. CASE n # 0
  <2> DEFINE existing == http["server"]
             old == Values(http, "server")
             items == CASE existing.kind = "many" -> Append(existing.v, value)
                        [] ~IsTrue(existing) /\ existing.kind = "args" -> <<value>>
                        [] OTHER -> <<existing, value>>
  <2>1. /\ "server" \in DOMAIN http /\ existing.kind \in {"dict", "many"} /\ Len(old) = n
        /\ \A i \in 1 .. n : IsBlock(old[i])
    BY <1>3, Zenon DEF HasBlocks
  <2>2. PICK S : old \in Seq(S)
    BY <1>3, Zenon DEF HasBlocks
  <2>3. new = With(http, "server", Many(items))
    BY <2>1, Zenon DEF AppendRepeated
  <2>4. items = Append(old, value)
    <3>1. CASE existing.kind = "many"
      <4>1. old = existing.v
        BY <2>1, <3>1 DEF Values
      <4>2. ~(existing.kind = "args")
        BY <3>1
      <4> HIDE DEF existing, old
      <4> QED
        BY <3>1, <4>1, <4>2
    <3>2. CASE existing.kind = "dict"
      <4>1. old = <<existing>>
        BY <2>1, <3>2 DEF Values
      <4>2. ~(existing.kind = "args") /\ ~(existing.kind = "many")
        BY <3>2
      <4> HIDE DEF existing, old
      <4>3. items = <<existing, value>>
        BY <4>2
      <4> HIDE DEF items
      <4> QED
        BY <4>1, <4>3
    <3> QED
      BY <2>1, <3>1, <3>2
  <2> HIDE DEF items, existing, old
  <2>5. "server" \in DOMAIN new /\ new["server"] = Many(items)
    <3>1. /\ DOMAIN With(http, "server", Many(items)) = DOMAIN http \union {"server"}
          /\ With(http, "server", Many(items))["server"] = Many(items)
      BY DEF With
    <3> HIDE DEF new
    <3> QED
      BY <2>3, <3>1
  <2> HIDE DEF new
  <2>6. Values(new, "server") = items /\ new["server"].kind = "many"
    BY <2>5 DEF Values, Many
  <2>7. LET T == S \union {value} IN
        /\ items \in Seq(T) /\ Len(items) = n + 1 /\ items[n + 1] = value
        /\ \A i \in 1 .. n : items[i] = old[i]
    <3> DEFINE T == S \union {value}
    <3>1. old \in Seq(T) /\ value \in T
      BY <2>2, SequencesGrow
    <3> HIDE DEF T
    <3>2. /\ Append(old, value) \in Seq(T) /\ Len(Append(old, value)) = n + 1 /\ Append(old, value)[n + 1] = value
          /\ \A i \in 1 .. n : Append(old, value)[i] = old[i]
      BY <2>1, <3>1, AppendProperties
    <3> QED
      BY <2>4, <3>2, Zenon DEF T
  <2>8. \E T : Values(new, "server") \in Seq(T)
    BY <2>6, <2>7, Zenon
  <2>9. \A i \in 1 .. n + 1 : IsBlock(items[i])
    BY <1>1, <2>1, <2>7
  <2>10. HasBlocks(new, n + 1)
    <3>1. n + 1 # 0
      OBVIOUS
    <3>2. new["server"].kind \in {"dict", "many"}
      BY <2>6
    <3> QED
      BY <2>5, <2>6, <2>7, <2>8, <2>9, <3>1, <3>2, Zenon DEF HasBlocks
  <2> QED
    BY <2>6, <2>7, <2>10 DEF new, value, old
<1> QED
  BY <1>2, <1>3

\* Which blocks those are.
LEMMA RawServersAre ==
    ASSUME NEW config, "http" \in DOMAIN config
    PROVE  RawServers(config) =
               LET http == config["http"]
                   server == http.v["server"]
               IN  IF http.kind # "dict" \/ "server" \notin DOMAIN http.v THEN <<>>
                   ELSE CASE IsBlock(server) -> <<server>>
                          [] server.kind = "many" -> Elements(server.v, {i \in DOMAIN server.v : IsBlock(server.v[i])})
                          [] OTHER -> <<>>
<1> DEFINE http == config["http"]
           found == IF "http" \in DOMAIN config THEN config["http"] ELSE Dict(Empty)
           Read(h) == IF h.kind # "dict" \/ "server" \notin DOMAIN h.v THEN <<>>
                      ELSE CASE IsBlock(h.v["server"]) -> <<h.v["server"]>>
                             [] h.v["server"].kind = "many" ->
                                    Elements(h.v["server"].v, {i \in DOMAIN h.v["server"].v : IsBlock(h.v["server"].v[i])})
                             [] OTHER -> <<>>
<1>1. RawServers(config) = Read(found)
  BY Zenon DEF RawServers
<1>2. found = http
  OBVIOUS
<1>3. Read(found) = Read(http)
  <2> HIDE DEF Read, found, http
  <2> QED
    BY <1>2
<1>4. RawServers(config) = Read(http)
  BY <1>1, <1>3, Zenon
<1> QED
  BY <1>4, Zenon

\* The server blocks are what is converted.
LEMMA BlocksConverted ==
    ASSUME NEW config, "http" \in DOMAIN config, IsBlock(config["http"]),
           NEW n \in Nat, HasBlocks(config["http"].v, n)
    PROVE  LET blocks == Values(config["http"].v, "server")
               can == n # 0 /\ \A i \in 1 .. n : CanConvert(blocks[i].v)
           IN  /\ can => ParseConfigDict(config) = AppConfig([i \in 1 .. n |-> ConvertServer(blocks[i].v)])
               /\ ~can => ParseConfigDict(config) = Refused
<1> DEFINE http == config["http"]
           entries == http.v
           server == entries["server"]
           blocks == Values(entries, "server")
           picked == Elements(server.v, {i \in DOMAIN server.v : IsBlock(server.v[i])})
           raws == RawServers(config)
<1>1. raws = IF http.kind # "dict" \/ "server" \notin DOMAIN entries THEN <<>>
             ELSE CASE IsBlock(server) -> <<server>>
                    [] server.kind = "many" -> picked
                    [] OTHER -> <<>>
  BY RawServersAre, Zenon
<1>2. http.kind = "dict"
  BY DEF IsBlock
<1>3. /\ n = 0 => raws = <<>>
      /\ n # 0 => raws = blocks
  <2>1. CASE n = 0
    <3>1. "server" \notin DOMAIN entries
      BY <2>1 DEF HasBlocks
    <3> HIDE DEF raws, http, picked
    <3> QED
      BY <1>1, <2>1, <3>1
  <2>2. CASE n # 0
    <3>1. /\ "server" \in DOMAIN entries /\ server.kind \in {"dict", "many"}
          /\ Len(blocks) = n /\ \A i \in 1 .. n : IsBlock(blocks[i])
      BY <2>2, Zenon DEF HasBlocks
    <3>2. PICK S : blocks \in Seq(S)
      BY <2>2, Zenon DEF HasBlocks
    <3>3. CASE server.kind = "dict"
      <4>1. IsBlock(server) /\ ~(server.kind = "many")
        BY <3>3 DEF IsBlock
      <4>2. blocks = <<server>>
        BY <3>1, <4>1, Zenon DEF Values
      <4> HIDE DEF raws, http, picked, blocks, server
      <4>3. raws = <<server>>
        BY <1>1, <1>2, <3>1, <4>1
      <4> QED
        BY <2>2, <4>2, <4>3
    <3>4. CASE server.kind = "many"
      <4>1. ~IsBlock(server)
        BY <3>4 DEF IsBlock
      <4>2. blocks = server.v
        BY <3>1, <3>4, Zenon DEF Values
      <4>3. picked = blocks
        <5> DEFINE P == {i \in DOMAIN blocks : IsBlock(blocks[i])}
        <5>1. picked = Elements(blocks, P)
          BY <4>2, Zenon
        <5>2. \A i \in 1 .. Len(blocks) : i \in P
          BY <3>1, <3>2
        <5> HIDE DEF P, blocks, picked
        <5>3. Elements(blocks, P) = blocks
          BY <3>2, <5>2, ElementsOfAll
        <5> QED
          BY <5>1, <5>3
      <4> HIDE DEF raws, http, picked, blocks, server
      <4>4. raws = picked
        BY <1>1, <1>2, <3>1, <3>4, <4>1
      <4> QED
        BY <2>2, <4>3, <4>4
    <3> QED
      BY <3>1, <3>3, <3>4
  <2> QED
    BY <2>1, <2>2
<1>4. ParseConfigDict(config) =
          IF raws = <<>> \/ \E i \in DOMAIN raws : ~CanConvert(raws[i].v) THEN Refused
          ELSE AppConfig([i \in DOMAIN raws |-> ConvertServer(raws[i].v)])
  BY Zenon DEF ParseConfigDict
<1>5. n # 0 => raws # <<>> /\ DOMAIN raws = 1 .. n
  <2> SUFFICES ASSUME n # 0 PROVE raws # <<>> /\ DOMAIN raws = 1 .. n
    OBVIOUS
  <2>1. Len(blocks) = n
    BY Zenon DEF HasBlocks
  <2>2. PICK S : blocks \in Seq(S)
    BY Zenon DEF HasBlocks
  <2> HIDE DEF raws, blocks
  <2>3. raws \in Seq(S) /\ Len(raws) = n
    BY <1>3, <2>1, <2>2
  <2> QED
    BY <2>3
<1> HIDE DEF raws, blocks
<1>6. CASE n = 0
  BY <1>3, <1>4, <1>6, Zenon
<1>7. CASE n # 0
  <2>1. raws = blocks /\ raws # <<>> /\ DOMAIN raws = 1 .. n
    BY <1>3, <1>5, <1>7
  <2>2. ParseConfigDict(config) =
          IF \E i \in 1 .. n : ~CanConvert(blocks[i].v) THEN Refused
          ELSE AppConfig([i \in 1 .. n |-> ConvertServer(blocks[i].v)])
    BY <1>4, <2>1, Zenon
  <2> QED
    BY <1>7, <2>2, Zenon DEF blocks
<1> QED
  BY <1>6, <1>7, Zenon DEF blocks

\* A file that is described is loaded as what it means, or refused.
Said(http, servers) ==
    /\ HasBlocks(http, Len(servers))
    /\ \A i \in 1 .. Len(servers) : Describes(Values(http, "server")[i].v, servers[i])
LoadedAs(servers) ==
    IF servers # <<>> /\ \A i \in DOMAIN servers : IsSound(servers[i])
    THEN AppConfig([i \in DOMAIN servers |-> Meaning(servers[i])])
    ELSE Refused

\* A file that was read is converted to what it says.
LEMMA FileConverted ==
    ASSUME NEW config, "http" \in DOMAIN config, IsBlock(config["http"]),
           NEW servers \in Seq(Seq(Directives)), Said(config["http"].v, servers)
    PROVE  ParseConfigDict(config) = LoadedAs(servers)
<1> DEFINE n == Len(servers)
           blocks == Values(config["http"].v, "server")
           Q == Seq(Directives)
<1>1. n \in Nat /\ DOMAIN servers = 1 .. n /\ (servers = <<>> <=> n = 0) /\ \A i \in 1 .. n : servers[i] \in Q
  <2> HIDE DEF Q
  <2>1. servers \in Seq(Q)
    BY DEF Q
  <2> QED
    BY <2>1
<1>2. HasBlocks(config["http"].v, n) /\ \A i \in 1 .. n : Describes(blocks[i].v, servers[i])
  BY DEF Said
<1>3. \A i \in 1 .. n : /\ CanConvert(blocks[i].v) <=> IsSound(servers[i])
                        /\ ConvertServer(blocks[i].v) = Meaning(servers[i])
  BY <1>1, <1>2, MeaningGiven
<1>4. LET can == n # 0 /\ \A i \in 1 .. n : CanConvert(blocks[i].v) IN
      /\ can => ParseConfigDict(config) = AppConfig([i \in 1 .. n |-> ConvertServer(blocks[i].v)])
      /\ ~can => ParseConfigDict(config) = Refused
  BY <1>1, <1>2, BlocksConverted
<1> HIDE DEF blocks, n
<1>5. [i \in 1 .. n |-> ConvertServer(blocks[i].v)] = [i \in DOMAIN servers |-> Meaning(servers[i])]
  BY <1>1, <1>3
<1> QED
  BY <1>1, <1>3, <1>4, <1>5, Zenon DEF LoadedAs

-----------------------------------------------------------------------------
(* What a server's dictionary has of the first of its directives.            *)

Begins(block, server) ==
    \A name : name # "location" =>
        \E m \in 0 .. Len(NamedArgs(server, name)) : Gives(block, name, SubSeq(NamedArgs(server, name), 1, m))

\* A sequence that agrees with a longer one is a prefix of it.
LEMMA PrefixIs ==
    ASSUME NEW S, NEW s \in Seq(S), NEW t \in Seq(S), Len(s) <= Len(t),
           \A i \in 1 .. Len(s) : s[i] = t[i]
    PROVE  IsPrefix(s, t)
<1> DEFINE m == Len(s)
           a == SubSeq(s, 1, m)
           b == SubSeq(t, 1, m)
<1>1. m \in Nat /\ Len(t) \in Nat /\ m \in 0 .. Len(s) /\ m \in 0 .. Len(t)
  OBVIOUS
<1>2. /\ a \in Seq(S) /\ Len(a) = m /\ \A i \in 1 .. m : a[i] = s[i]
      /\ b \in Seq(S) /\ Len(b) = m /\ \A i \in 1 .. m : b[i] = t[i]
  BY <1>1, FirstsAre
<1> HIDE DEF a, b
<1>3. \A i \in 1 .. m : a[i] = b[i]
  BY <1>2
<1>4. a = b
  BY <1>2, <1>3, SeqEqual
<1> QED
  BY <1>4 DEF IsPrefix, a, b

\* The first directives of a name are the directives of that name among the first.
LEMMA FirstsNamed ==
    ASSUME NEW ds \in Seq(Directives), NEW j \in 0 .. Len(ds), NEW name
    PROVE  \E m \in 0 .. Len(NamedArgs(ds, name)) :
               NamedArgs(SubSeq(ds, 1, j), name) = SubSeq(NamedArgs(ds, name), 1, m)
<1> DEFINE n == Len(ds)
           D == Directives
           L == Lists
           args(k) == NamedArgs(SubSeq(ds, 1, k), name)
           little == args(j)
           m == Len(little)
           T == {k \in 0 .. n : k >= j => /\ Len(args(k)) >= m
                                          /\ \A i \in 1 .. m : args(k)[i] = little[i]}
<1>1. n \in Nat /\ j \in Nat /\ j <= n
  OBVIOUS
<1>2. \A k \in 0 .. n : SubSeq(ds, 1, k) \in Seq(D) /\ args(k) \in Seq(L) /\ Len(args(k)) \in Nat
  <2> SUFFICES ASSUME NEW k \in 0 .. n
               PROVE  SubSeq(ds, 1, k) \in Seq(D) /\ args(k) \in Seq(L) /\ Len(args(k)) \in Nat
    OBVIOUS
  <2>1. SubSeq(ds, 1, k) \in Seq(D)
    BY FirstsAre
  <2>2. args(k) \in Seq(L)
    BY <2>1, NamedArgsType
  <2> HIDE DEF args, L, D
  <2>3. Len(args(k)) \in Nat
    BY <2>2
  <2> QED
    BY <2>1, <2>2, <2>3
<1>3. \A k \in 1 .. n : args(k) = args(k - 1) \/ \E list \in L : args(k) = Append(args(k - 1), list)
  <2> SUFFICES ASSUME NEW k \in 1 .. n
               PROVE  args(k) = args(k - 1) \/ \E list \in L : args(k) = Append(args(k - 1), list)
    OBVIOUS
  <2> DEFINE a == SubSeq(ds, 1, k - 1)
             d == ds[k]
  <2>1. SubSeq(ds, 1, k) = Append(a, d) /\ d \in D /\ a \in Seq(D)
    <3> HIDE DEF D
    <3>1. ds \in Seq(D)
      BY DEF D
    <3> QED
      BY <1>1, <3>1
  <2>2. NamedArgs(Append(a, d), name) =
            IF ~IsLocation(d) /\ d.name = name THEN Append(NamedArgs(a, name), d.args) ELSE NamedArgs(a, name)
    BY <2>1, NamedOfAppend
  <2>3. ~IsLocation(d) => d.args \in L
    BY <2>1, DirectiveIs DEF Lists
  <2> HIDE DEF a, d, L, D
  <2> QED
    BY <2>1, <2>2, <2>3, Zenon DEF a, args
<1> HIDE DEF args, L, D
<1>4. 0 \in T
  BY <1>1, <1>2
<1>5. ASSUME NEW k \in 1 .. n, k - 1 \in T PROVE k \in T
  <2>1. CASE k = j
    BY <1>1, <1>2, <2>1
  <2>2. CASE k < j
    BY <1>1, <2>2
  <2>3. CASE k > j
    <3> DEFINE u == args(k - 1)
               w == args(k)
    <3>1. /\ u \in Seq(L) /\ Len(u) \in Nat /\ Len(u) >= m
          /\ \A i \in 1 .. m : u[i] = little[i]
      BY <1>1, <1>2, <1>5, <2>3
    <3>2. w = u \/ \E list \in L : w = Append(u, list)
      BY <1>3
    <3>3. m \in Nat
      BY <1>1, <1>2
    <3> HIDE DEF u, w, m, little
    <3>4. CASE w = u
      BY <3>1, <3>4 DEF T, w
    <3>5. CASE \E list \in L : w = Append(u, list)
      <4>1. PICK list \in L : w = Append(u, list)
        BY <3>5
      <4>2. Len(w) = Len(u) + 1 /\ \A i \in 1 .. Len(u) : w[i] = u[i]
        BY <3>1, <4>1, AppendProperties
      <4>3. Len(w) >= m /\ \A i \in 1 .. m : w[i] = little[i]
        BY <3>1, <3>3, <4>2
      <4> QED
        BY <4>3 DEF T, w
    <3> QED
      BY <3>2, <3>4, <3>5
  <2> QED
    BY <1>1, <2>1, <2>2, <2>3
<1>6. n \in T
  <2> HIDE DEF T
  <2>1. 0 .. n \subseteq T
    BY <1>1, <1>4, <1>5, BoundedInduction
  <2> QED
    BY <1>1, <2>1
<1>7. args(n) = NamedArgs(ds, name)
  <2>1. SubSeq(ds, 1, n) = ds
    <3> HIDE DEF D
    <3>1. ds \in Seq(D)
      BY DEF D
    <3> QED
      BY <3>1
  <2> QED
    BY <2>1, Zenon DEF args
<1> DEFINE whole == args(n)
<1>8. /\ whole \in Seq(L) /\ little \in Seq(L) /\ m \in 0 .. Len(whole)
      /\ \A i \in 1 .. m : whole[i] = little[i]
  BY <1>1, <1>2, <1>6
<1> HIDE DEF whole, little, m
<1>9. SubSeq(whole, 1, m) = little
  <2>1. /\ SubSeq(whole, 1, m) \in Seq(L) /\ Len(SubSeq(whole, 1, m)) = m
        /\ \A i \in 1 .. m : SubSeq(whole, 1, m)[i] = whole[i]
    BY <1>8, FirstsAre
  <2>2. \A i \in 1 .. m : SubSeq(whole, 1, m)[i] = little[i]
    BY <1>8, <2>1
  <2>3. Len(little) = m
    BY DEF m
  <2> QED
    BY <1>8, <2>1, <2>2, <2>3, SeqEqual
<1> QED
  BY <1>7, <1>8, <1>9 DEF whole, little, args

\* So the first directives begin what all of them say,
LEMMA FirstsBegin ==
    ASSUME NEW block, NEW ds \in Seq(Directives), NEW j \in 0 .. Len(ds),
           Describes(block, SubSeq(ds, 1, j))
    PROVE  Begins(block, ds)
<1> SUFFICES ASSUME NEW name, name # "location"
             PROVE  \E m \in 0 .. Len(NamedArgs(ds, name)) : Gives(block, name, SubSeq(NamedArgs(ds, name), 1, m))
  BY Zenon DEF Begins
<1>1. Gives(block, name, NamedArgs(SubSeq(ds, 1, j), name))
  BY Zenon DEF Describes
<1>2. PICK m \in 0 .. Len(NamedArgs(ds, name)) :
          NamedArgs(SubSeq(ds, 1, j), name) = SubSeq(NamedArgs(ds, name), 1, m)
  BY FirstsNamed
<1> QED
  BY <1>1, <1>2, Zenon

\* and still do with another value under the key of locations.
LEMMA StillBegins ==
    ASSUME NEW block, NEW other, NEW ds, Begins(block, ds),
           \A name : name # "location" => SameAt(block, other, name)
    PROVE  Begins(other, ds)
<1> SUFFICES ASSUME NEW name, name # "location"
             PROVE  \E m \in 0 .. Len(NamedArgs(ds, name)) : Gives(other, name, SubSeq(NamedArgs(ds, name), 1, m))
  BY Zenon DEF Begins
<1>1. PICK m \in 0 .. Len(NamedArgs(ds, name)) : Gives(block, name, SubSeq(NamedArgs(ds, name), 1, m))
  BY Zenon DEF Begins
<1>2. SameAt(block, other, name)
  OBVIOUS
<1>3. Gives(other, name, SubSeq(NamedArgs(ds, name), 1, m))
  BY <1>1, <1>2, SameGives
<1> QED
  BY <1>3

\* The first of a sequence of lists are what they are in the whole.
LEMMA FirstLists ==
    ASSUME NEW lists \in Seq(Lists), NEW m \in 0 .. Len(lists)
    PROVE  LET some == SubSeq(lists, 1, m) IN
           /\ some \in Seq(Lists)
           /\ IsPrefix(ListensOf(some), ListensOf(lists))
           /\ IsPrefix(FirstsOf(some), FirstsOf(lists))
           /\ FirstOf(some, "") # "" => FirstOf(some, "") = FirstOf(lists, "")
<1> DEFINE some == SubSeq(lists, 1, m)
           listen(l) == [port |-> l[1], ssl |-> AsksForTLS(l)]
           P == {listen(l) : l \in Lists}
           F == {l[1] : l \in Lists}
           L == Lists
<1> HIDE DEF L
<1>1. lists \in Seq(L)
  BY DEF L
<1>2. /\ some \in Seq(L) /\ Len(some) = m /\ Len(lists) \in Nat /\ m \in Nat /\ m <= Len(lists)
      /\ \A i \in 1 .. m : some[i] = lists[i]
  BY <1>1, FirstsAre
<1>3. /\ DOMAIN some = 1 .. m /\ DOMAIN lists = 1 .. Len(lists)
      /\ (some = <<>> <=> m = 0) /\ (lists = <<>> <=> Len(lists) = 0)
      /\ \A i \in 1 .. m : some[i] \in L
      /\ \A i \in 1 .. Len(lists) : lists[i] \in L
  <2> HIDE DEF some
  <2> QED
    BY <1>1, <1>2
<1> HIDE DEF some
<1>4. IsPrefix(ListensOf(some), ListensOf(lists))
  <2> DEFINE a == ListensOf(some)
             b == ListensOf(lists)
  <2>1. \A l \in L : listen(l) \in P
    BY DEF L
  <2>2. a = [i \in 1 .. m |-> listen(some[i])] /\ b = [i \in 1 .. Len(lists) |-> listen(lists[i])]
    BY <1>3, Zenon DEF ListensOf
  <2> HIDE DEF a, b, listen, P
  <2>3. a \in [1 .. m -> P] /\ b \in [1 .. Len(lists) -> P]
    BY <1>3, <2>1, <2>2
  <2>4. a \in Seq(P) /\ b \in Seq(P) /\ Len(a) = m /\ Len(b) = Len(lists)
    BY <1>2, <2>3, SMTT(30)
  <2>5. \A i \in 1 .. m : a[i] = b[i]
    BY <1>2, <2>2
  <2>6. IsPrefix(a, b)
    BY <1>2, <2>4, <2>5, PrefixIs
  <2> QED
    BY <2>6 DEF a, b
<1>5. IsPrefix(FirstsOf(some), FirstsOf(lists))
  <2> DEFINE a == FirstsOf(some)
             b == FirstsOf(lists)
  <2>1. \A l \in L : l[1] \in F
    BY DEF L
  <2>2. a = [i \in 1 .. m |-> some[i][1]] /\ b = [i \in 1 .. Len(lists) |-> lists[i][1]]
    BY <1>3, Zenon DEF FirstsOf
  <2> HIDE DEF a, b, F
  <2>3. a \in [1 .. m -> F] /\ b \in [1 .. Len(lists) -> F]
    BY <1>3, <2>1, <2>2
  <2>4. a \in Seq(F) /\ b \in Seq(F) /\ Len(a) = m /\ Len(b) = Len(lists)
    BY <1>2, <2>3, SMTT(30)
  <2>5. \A i \in 1 .. m : a[i] = b[i]
    BY <1>2, <2>2
  <2>6. IsPrefix(a, b)
    BY <1>2, <2>4, <2>5, PrefixIs
  <2> QED
    BY <2>6 DEF a, b
<1>6. FirstOf(some, "") # "" => FirstOf(some, "") = FirstOf(lists, "")
  <2>0. m # 0 => 1 \in 1 .. m /\ Len(lists) # 0
    BY <1>2
  <2> SUFFICES ASSUME FirstOf(some, "") # "" PROVE FirstOf(some, "") = FirstOf(lists, "")
    OBVIOUS
  <2>1. some # <<>>
    BY Zenon DEF FirstOf
  <2>2. m # 0 /\ lists # <<>> /\ some[1] = lists[1]
    <3>1. m # 0
      BY <1>3, <2>1
    <3>2. 1 \in 1 .. m /\ Len(lists) # 0
      BY <2>0, <3>1, Zenon
    <3>3. lists # <<>>
      BY <1>3, <3>2, Zenon
    <3>4. some[1] = lists[1]
      BY <1>2, <3>2, Zenon
    <3> QED
      BY <3>1, <3>3, <3>4
  <2> QED
    BY <2>1, <2>2, Zenon DEF FirstOf
<1> QED
  BY <1>2, <1>4, <1>5, <1>6 DEF some, L

\* A dictionary that begins what a server says adds nothing to it.
AddsNothing(loaded, server) ==
    /\ \/ loaded.listens = DefaultListens
       \/ IsPrefix(loaded.listens, Listens(server))
    /\ loaded.tls # NoTLS =>
           /\ loaded.tls.certificate = Certificate(server)
           /\ loaded.tls.key = Key(server)
           /\ IsPrefix(loaded.tls.chain, Chain(server))

\* A server read in part adds nothing.
LEMMA BegunAddsNothing ==
    ASSUME NEW block, NEW ds \in Seq(Directives), Begins(block, ds), CanConvert(block)
    PROVE  AddsNothing(ConvertServer(block), ds)
<1> DEFINE args(name) == NamedArgs(ds, name)
           some(name, m) == SubSeq(args(name), 1, m)
           loaded == ConvertServer(block)
<1>1. \A name : args(name) \in Seq(Lists)
  BY NamedArgsType
<1>2. PICK l \in 0 .. Len(args("listen")) : Gives(block, "listen", some("listen", l))
  BY Zenon DEF Begins
<1>3. PICK c \in 0 .. Len(args("ssl_certificate")) : Gives(block, "ssl_certificate", some("ssl_certificate", c))
  BY Zenon DEF Begins
<1>4. PICK k \in 0 .. Len(args("ssl_certificate_key")) :
          Gives(block, "ssl_certificate_key", some("ssl_certificate_key", k))
  BY Zenon DEF Begins
<1>5. PICK i \in 0 .. Len(args("ssl_certificate_chain")) :
          Gives(block, "ssl_certificate_chain", some("ssl_certificate_chain", i))
  BY Zenon DEF Begins
<1>6. /\ Listens(ds) = ListensOf(args("listen"))
      /\ Chain(ds) = FirstsOf(args("ssl_certificate_chain"))
      /\ Certificate(ds) = FirstOf(args("ssl_certificate"), "")
      /\ Key(ds) = FirstOf(args("ssl_certificate_key"), "")
  BY SaidIs, Zenon
<1>7. /\ loaded.listens = ParseListen(block) /\ loaded.tls = ParseTLS(block)
  BY DEF ConvertServer
<1> HIDE DEF args, loaded
<1>8. loaded.listens = DefaultListens \/ IsPrefix(loaded.listens, Listens(ds))
  <2>1. some("listen", l) \in Seq(Lists) /\ IsPrefix(ListensOf(some("listen", l)), ListensOf(args("listen")))
    BY <1>1, FirstLists
  <2>2. ParseListen(block) = OrDefault(ListensOf(some("listen", l)), DefaultListens)
    BY <1>2, <2>1, ListensGiven
  <2> QED
    BY <1>6, <1>7, <2>1, <2>2, Zenon DEF OrDefault
<1>9. ASSUME loaded.tls # NoTLS
      PROVE  /\ loaded.tls.certificate = Certificate(ds)
             /\ loaded.tls.key = Key(ds)
             /\ IsPrefix(loaded.tls.chain, Chain(ds))
  <2> DEFINE cs == some("ssl_certificate", c)
             ks == some("ssl_certificate_key", k)
             is == some("ssl_certificate_chain", i)
             tls == [certificate |-> FirstOf(cs, ""), key |-> FirstOf(ks, ""), chain |-> FirstsOf(is)]
  <2>1. /\ cs \in Seq(Lists)
        /\ FirstOf(cs, "") # "" => FirstOf(cs, "") = FirstOf(args("ssl_certificate"), "")
    BY <1>1, FirstLists
  <2>2. /\ ks \in Seq(Lists)
        /\ FirstOf(ks, "") # "" => FirstOf(ks, "") = FirstOf(args("ssl_certificate_key"), "")
    BY <1>1, FirstLists
  <2>3. /\ is \in Seq(Lists) /\ IsPrefix(FirstsOf(is), FirstsOf(args("ssl_certificate_chain")))
    BY <1>1, FirstLists
  <2>4. FirstArg(block, "ssl_certificate", "") = FirstOf(cs, "") /\ FirstArg(block, "ssl_certificate_key", "") = FirstOf(ks, "")
    <3>1. FirstArg(block, "ssl_certificate", "") = FirstOf(cs, "")
      BY <1>3, <2>1, ValuesGiven
    <3>2. FirstArg(block, "ssl_certificate_key", "") = FirstOf(ks, "")
      BY <1>4, <2>2, ValuesGiven
    <3> QED
      BY <3>1, <3>2
  <2>5. ParseTLS(block) = TLSOf(cs, ks, is)
    BY <1>3, <1>4, <1>5, <2>1, <2>2, <2>3, TLSGiven
  <2> HIDE DEF cs, ks, is
  <2>6. FirstOf(cs, "") # "" /\ loaded.tls = tls
    BY <1>7, <1>9, <2>5, Zenon DEF TLSOf
  <2>7. FirstOf(ks, "") # ""
    <3>1. (FirstArg(block, "ssl_certificate", "") = "") = (FirstArg(block, "ssl_certificate_key", "") = "")
      BY Zenon DEF CanConvert, NeedsBoth
    <3> QED
      BY <2>4, <2>6, <3>1, Zenon
  <2>8. tls.certificate = FirstOf(cs, "") /\ tls.key = FirstOf(ks, "") /\ tls.chain = FirstsOf(is)
    OBVIOUS
  <2> HIDE DEF tls
  <2> QED
    BY <1>6, <2>1, <2>2, <2>3, <2>6, <2>7, <2>8, Zenon
<1> QED
  BY <1>8, <1>9, Zenon DEF AddsNothing, loaded

-----------------------------------------------------------------------------
(* What is ahead in a file, from any place in it: words, a token that is not *)
(* one, and the rest.                                                        *)

Join(a, b) == a \o b
WordTokens(words) == [i \in DOMAIN words |-> Word(words[i])]
Ahead(words, token, rest) == Join(WordTokens(words), Join(<<token>>, rest))
Marks == {LBrace, RBrace, Semicolon}

\* Words and marks are different tokens.
LEMMA MarksAre ==
    /\ Marks \subseteq Tokens
    /\ \A x \in Marks : x.kind # "WORD" /\ x.kind # "STRING" /\ x.kind # "END"
    /\ \A w : Word(w).kind = "WORD" /\ Word(w).value = w
    /\ LBrace.kind = "LBRACE" /\ RBrace.kind = "RBRACE" /\ Semicolon.kind = "SEMICOLON"
    /\ \A x \in Marks : /\ x.kind = "LBRACE" => x = LBrace
                        /\ x.kind = "RBRACE" => x = RBrace
                        /\ x.kind = "SEMICOLON" => x = Semicolon
<1>1. /\ LBrace.kind = "LBRACE" /\ RBrace.kind = "RBRACE" /\ Semicolon.kind = "SEMICOLON"
      /\ \A w : Word(w).kind = "WORD" /\ Word(w).value = w
  BY DEF LBrace, RBrace, Semicolon, Word, Lexeme
<1>2. Marks \subseteq Tokens
  BY LexemeIs DEF Marks
<1>3. \A x \in Marks : x = LBrace \/ x = RBrace \/ x = Semicolon
  BY DEF Marks
<1> QED
  BY <1>1, <1>2, <1>3

\* Words are written one after the other.
LEMMA WordTokensAre ==
    ASSUME NEW words \in Seq(Words)
    PROVE  /\ WordTokens(words) \in Seq(Tokens) /\ Len(WordTokens(words)) = Len(words)
           /\ \A i \in 1 .. Len(words) : WordTokens(words)[i] = Word(words[i]) /\ words[i] \in Words
           /\ Len(words) \in Nat
           /\ WordTokens(<<>>) = <<>>
<1> DEFINE n == Len(words)
           w == WordTokens(words)
<1>1. n \in Nat /\ DOMAIN words = 1 .. n /\ \A i \in 1 .. n : words[i] \in Words
  OBVIOUS
<1>2. w \in Seq(Tokens)
  BY WordsType DEF WordTokens
<1>3. DOMAIN w = 1 .. n /\ \A i \in 1 .. n : w[i] = Word(words[i])
  BY <1>1 DEF WordTokens
<1> HIDE DEF w, n
<1>4. Len(w) = n
  BY <1>1, <1>2, <1>3
<1>5. WordTokens(<<>>) = <<>>
  <2>1. DOMAIN WordTokens(<<>>) = {} /\ WordTokens(<<>>) = [i \in DOMAIN WordTokens(<<>>) |-> WordTokens(<<>>)[i]]
    BY DEF WordTokens
  <2>2. \A f : DOMAIN f = {} /\ f = [i \in DOMAIN f |-> f[i]] => f = <<>>
    OBVIOUS
  <2> QED
    BY <2>1, <2>2
<1> QED
  BY <1>1, <1>2, <1>3, <1>4, <1>5 DEF w, n

\* Two sequences joined have the elements of both,
LEMMA JoinIs ==
    ASSUME NEW S, NEW a \in Seq(S), NEW b \in Seq(S)
    PROVE  /\ Join(a, b) \in Seq(S) /\ Len(Join(a, b)) = Len(a) + Len(b)
           /\ \A i \in 1 .. Len(a) + Len(b) : Join(a, b)[i] = IF i <= Len(a) THEN a[i] ELSE b[i - Len(a)]
BY DEF Join

\* and it does not matter which are joined first.
LEMMA JoinOnce ==
    ASSUME NEW S, NEW a \in Seq(S), NEW b \in Seq(S), NEW c \in Seq(S)
    PROVE  Join(a, b) \in Seq(S) /\ Join(Join(a, b), c) = Join(a, Join(b, c))
BY DEF Join

\* Nothing to join.
LEMMA JoinEmpty ==
    ASSUME NEW S, NEW a \in Seq(S)
    PROVE  Join(<<>>, a) = a /\ Join(a, <<>>) = a
BY DEF Join

\* Four sequences and the rest.
LEMMA JoinFive ==
    ASSUME NEW S, NEW a \in Seq(S), NEW b \in Seq(S), NEW c \in Seq(S), NEW d \in Seq(S), NEW e \in Seq(S)
    PROVE  Join(Join(Join(Join(a, b), c), d), e) = Join(a, Join(b, Join(c, Join(d, e))))
<1>1. Join(a, b) \in Seq(S) /\ Join(d, e) \in Seq(S)
  BY JoinOnce
<1>2. Join(Join(a, b), c) \in Seq(S) /\ Join(c, Join(d, e)) \in Seq(S)
  BY <1>1, JoinOnce
<1> QED
  BY <1>1, <1>2, JoinOnce

\* What is ahead is made of tokens.
Spells(s, n, words, x, rest) ==
    /\ s \in Seq(Tokens) /\ Len(s) = n + 1 + Len(rest) /\ n \in Nat /\ Len(rest) \in Nat
    /\ \A i \in 1 .. n : s[i] = Word(words[i])
    /\ s[n + 1] = x
    /\ \A i \in 1 .. Len(rest) : s[n + 1 + i] = rest[i]

\* What is ahead holds its words, its mark and the rest, one after the other.
LEMMA AheadIs ==
    ASSUME NEW words \in Seq(Words), NEW x \in Tokens, NEW rest \in Seq(Tokens)
    PROVE  Spells(Ahead(words, x, rest), Len(words), words, x, rest)
<1> DEFINE a == WordTokens(words)
           b == Join(<<x>>, rest)
           n == Len(words)
           s == Ahead(words, x, rest)
<1>1. a \in Seq(Tokens) /\ Len(a) = n /\ n \in Nat /\ \A i \in 1 .. n : a[i] = Word(words[i])
  BY WordTokensAre
<1>2. x \in Tokens /\ rest \in Seq(Tokens)
  OBVIOUS
<1>3. b \in Seq(Tokens) /\ Len(b) = 1 + Len(rest) /\ b[1] = x /\ \A i \in 1 .. Len(rest) : b[i + 1] = rest[i]
  BY <1>2 DEF Join
<1>4. Len(rest) \in Nat
  BY <1>2
<1>5. s = Join(a, b)
  BY Zenon DEF Ahead
<1> HIDE DEF a, b, s, n
<1>6. /\ s \in Seq(Tokens) /\ Len(s) = n + Len(b)
      /\ \A i \in 1 .. n : s[i] = a[i]
      /\ \A i \in 1 .. Len(b) : s[n + i] = b[i]
  <2>1. a \in Seq(Tokens) /\ b \in Seq(Tokens) /\ Len(a) = n
    BY <1>1, <1>3, Zenon
  <2>2. Join(a, b) \in Seq(Tokens) /\ Len(Join(a, b)) = Len(a) + Len(b)
    BY <2>1, JoinIs
  <2>3. \A i \in 1 .. Len(a) + Len(b) : Join(a, b)[i] = IF i <= Len(a) THEN a[i] ELSE b[i - Len(a)]
    BY <2>1, JoinIs
  <2>4. Len(b) \in Nat /\ n \in Nat
    BY <1>1, <2>1
  <2>5. s \in Seq(Tokens) /\ Len(s) = n + Len(b) /\ \A i \in 1 .. n + Len(b) : s[i] = IF i <= n THEN a[i] ELSE b[i - n]
    BY <1>5, <2>1, <2>2, <2>3, Zenon
  <2>6. \A i \in 1 .. n : s[i] = a[i]
    BY <2>4, <2>5
  <2>7. \A i \in 1 .. Len(b) : s[n + i] = b[i]
    <3> SUFFICES ASSUME NEW i \in 1 .. Len(b) PROVE s[n + i] = b[i]
      OBVIOUS
    <3>1. n + i \in 1 .. n + Len(b) /\ ~(n + i <= n) /\ (n + i) - n = i
      BY <2>4
    <3>2. s[n + i] = b[(n + i) - n]
      BY <2>5, <3>1, Zenon
    <3> QED
      BY <3>1, <3>2
  <2> QED
    BY <2>5, <2>6, <2>7
<1>7. \A i \in 1 .. n : s[i] = Word(words[i])
  BY <1>1, <1>6
<1>8. s[n + 1] = x
  <2>1. 1 \in 1 .. Len(b)
    BY <1>3, <1>4
  <2> QED
    BY <1>3, <1>6, <2>1
<1>9. \A i \in 1 .. Len(rest) : s[n + 1 + i] = rest[i]
  <2> SUFFICES ASSUME NEW i \in 1 .. Len(rest) PROVE s[n + 1 + i] = rest[i]
    OBVIOUS
  <2>0. n \in Nat /\ Len(b) = 1 + Len(rest) /\ i \in 1 .. Len(rest) /\ Len(rest) \in Nat
    BY <1>1, <1>3, <1>4, Zenon
  <2>1. i + 1 \in 1 .. Len(b) /\ n + (i + 1) = n + 1 + i
    BY <2>0
  <2>2. s[n + (i + 1)] = b[i + 1]
    BY <1>6, <2>1
  <2> QED
    BY <1>3, <2>1, <2>2
<1>10. Len(s) = n + 1 + Len(rest) /\ s \in Seq(Tokens)
  BY <1>1, <1>3, <1>4, <1>6
<1> QED
  BY <1>1, <1>4, <1>7, <1>8, <1>9, <1>10, Zenon DEF s, n, Spells

\* There is one way to read it.
LEMMA AheadIsUnique ==
    ASSUME NEW v \in Seq(Words), NEW w \in Seq(Words), NEW x \in Tokens, NEW y \in Tokens,
           x.kind # "WORD", y.kind # "WORD", NEW r \in Seq(Tokens), NEW t \in Seq(Tokens),
           Ahead(v, x, r) = Ahead(w, y, t)
    PROVE  v = w /\ x = y /\ r = t
<1> DEFINE a == Ahead(v, x, r)
           b == Ahead(w, y, t)
           m == Len(v)
           n == Len(w)
           T == Tokens
<1>0. \A u : Word(u).kind = "WORD" /\ Word(u).value = u
  BY MarksAre
<1> HIDE DEF T
<1>1. /\ Len(a) = m + 1 + Len(r) /\ m \in Nat /\ Len(r) \in Nat
      /\ \A i \in 1 .. m : a[i] = Word(v[i])
      /\ a[m + 1] = x
      /\ \A i \in 1 .. Len(r) : a[m + 1 + i] = r[i]
  <2>1. Spells(Ahead(v, x, r), Len(v), v, x, r)
    BY AheadIs, Zenon
  <2> QED
    BY <2>1, Zenon DEF Spells
<1>2. /\ Len(b) = n + 1 + Len(t) /\ n \in Nat /\ Len(t) \in Nat
      /\ \A i \in 1 .. n : b[i] = Word(w[i])
      /\ b[n + 1] = y
      /\ \A i \in 1 .. Len(t) : b[n + 1 + i] = t[i]
  <2>1. Spells(Ahead(w, y, t), Len(w), w, y, t)
    BY AheadIs, Zenon
  <2> QED
    BY <2>1, Zenon DEF Spells
<1>3. a = b
  OBVIOUS
<1> HIDE DEF a, b
<1>4. m = n
  <2>1. CASE m < n
    <3>1. m + 1 \in 1 .. n
      BY <1>1, <1>2, <2>1
    <3>2. b[m + 1] = Word(w[m + 1])
      BY <1>2, <3>1
    <3> QED
      BY <1>0, <1>1, <1>3, <3>2
  <2>2. CASE n < m
    <3>1. n + 1 \in 1 .. m
      BY <1>1, <1>2, <2>2
    <3>2. a[n + 1] = Word(v[n + 1])
      BY <1>1, <3>1
    <3> QED
      BY <1>0, <1>2, <1>3, <3>2
  <2> QED
    BY <1>1, <1>2, <2>1, <2>2
<1>5. \A i \in 1 .. m : v[i] = w[i]
  <2> SUFFICES ASSUME NEW i \in 1 .. m PROVE v[i] = w[i]
    OBVIOUS
  <2>1. a[i] = Word(v[i]) /\ b[i] = Word(w[i])
    BY <1>1, <1>2, <1>4
  <2>2. Word(v[i]) = Word(w[i])
    BY <1>3, <2>1
  <2>3. Word(v[i]).value = v[i] /\ Word(w[i]).value = w[i]
    BY <1>0
  <2> QED
    BY <2>2, <2>3
<1>6. v = w
  <2>1. v \in Seq(Words) /\ w \in Seq(Words) /\ Len(v) = Len(w)
    BY <1>4
  <2> QED
    BY <1>5, <2>1, SeqEqual
<1>7. x = y /\ Len(r) = Len(t)
  BY <1>1, <1>2, <1>3, <1>4
<1>8. \A i \in 1 .. Len(r) : r[i] = t[i]
  <2> SUFFICES ASSUME NEW i \in 1 .. Len(r) PROVE r[i] = t[i]
    OBVIOUS
  <2>1. a[m + 1 + i] = r[i] /\ b[n + 1 + i] = t[i]
    BY <1>1, <1>2, <1>7
  <2> QED
    BY <1>3, <1>4, <2>1
<1>9. r = t
  BY <1>7, <1>8, SeqEqual
<1> QED
  BY <1>6, <1>7, <1>9

\* A simple directive is ahead as its words and a semicolon,
LEMMA SimpleAhead ==
    ASSUME NEW name \in Words, NEW args \in Seq(Words), NEW rest \in Seq(Tokens)
    PROVE  /\ Join(Simple(name, args), rest) = Ahead(<<name>> \o args, Semicolon, rest)
           /\ <<name>> \o args \in Seq(Words)
<1> DEFINE a == <<Word(name)>>
           b == WordTokens(args)
           c == <<Semicolon>>
           w == <<name>> \o args
           T == Tokens
<1>1. /\ a \in Seq(T) /\ c \in Seq(T) /\ Word(name) \in T /\ Semicolon \in T
  BY LexemeIs
<1>2. b \in Seq(T) /\ Len(b) = Len(args) /\ Len(args) \in Nat /\ \A i \in 1 .. Len(args) : b[i] = Word(args[i])
  BY WordTokensAre
<1>3. /\ w \in Seq(Words) /\ Len(w) = Len(args) + 1 /\ w[1] = name
      /\ \A i \in 1 .. Len(args) : w[i + 1] = args[i]
  OBVIOUS
<1>4. Simple(name, args) = (a \o b) \o c
  BY Zenon DEF Simple, WordTokens
<1>5. WordTokens(w) = a \o b
  <2> DEFINE u == WordTokens(w)
             z == a \o b
  <2>1. u \in Seq(T) /\ Len(u) = Len(w) /\ \A i \in 1 .. Len(w) : u[i] = Word(w[i])
    BY <1>3, WordTokensAre
  <2> HIDE DEF u, b, w, T
  <2>2. z \in Seq(T) /\ Len(z) = 1 + Len(args) /\ z[1] = Word(name) /\ \A i \in 1 .. Len(args) : z[i + 1] = b[i]
    BY <1>1, <1>2
  <2> HIDE DEF z
  <2>3. \A i \in 1 .. Len(z) : u[i] = z[i]
    <3> SUFFICES ASSUME NEW i \in 1 .. Len(z) PROVE u[i] = z[i]
      OBVIOUS
    <3>1. CASE i = 1
      <4>1. 1 \in 1 .. Len(w)
        BY <1>2, <1>3
      <4>2. u[1] = Word(name)
        BY <1>3, <2>1, <4>1
      <4> QED
        BY <2>2, <3>1, <4>2
    <3>2. CASE i # 1
      <4>1. i - 1 \in 1 .. Len(args) /\ i \in 1 .. Len(w) /\ (i - 1) + 1 = i
        BY <1>2, <1>3, <2>2, <3>2
      <4>2. u[i] = Word(w[i])
        BY <2>1, <4>1
      <4>3. w[i] = args[i - 1] /\ z[i] = b[i - 1]
        BY <1>3, <2>2, <4>1
      <4>4. b[i - 1] = Word(args[i - 1])
        BY <1>2, <4>1
      <4> QED
        BY <4>2, <4>3, <4>4
    <3> QED
      BY <3>1, <3>2
  <2>4. u = z
    BY <1>2, <1>3, <2>1, <2>2, <2>3, SeqEqual
  <2> QED
    BY <2>4 DEF u, z
<1>6. Join(Join(Join(a, b), c), rest) = Join(Join(a, b), Join(c, rest))
  <2>1. Join(a, b) \in Seq(T)
    BY <1>1, <1>2, JoinOnce
  <2> HIDE DEF a, b, c
  <2> QED
    BY <1>1, <2>1, JoinOnce
<1>7. Simple(name, args) = Join(Join(a, b), c) /\ WordTokens(w) = Join(a, b)
  BY <1>4, <1>5, Zenon DEF Join
<1> QED
  BY <1>3, <1>6, <1>7, Zenon DEF Ahead

\* a block as its words, its brace, what is inside and the other brace.
LEMMA BlockAhead ==
    ASSUME NEW words \in Seq(Words), NEW inside \in Seq(Tokens), NEW rest \in Seq(Tokens)
    PROVE  /\ Join(Block(words, inside), rest) = Ahead(words, LBrace, Join(inside, Join(<<RBrace>>, rest)))
           /\ Join(<<RBrace>>, rest) = Ahead(<<>>, RBrace, rest)
           /\ Join(<<RBrace>>, rest) \in Seq(Tokens)
<1> DEFINE a == WordTokens(words)
           b == <<LBrace>>
           d == <<RBrace>>
<1>1. a \in Seq(Tokens) /\ b \in Seq(Tokens) /\ d \in Seq(Tokens)
  BY LexemeIs, WordTokensAre
<1>2. Block(words, inside) = Join(Join(Join(a, b), inside), d)
  BY Zenon DEF Block, WordTokens, Join
<1> HIDE DEF a, b, d
<1>3. Join(Join(Join(Join(a, b), inside), d), rest) = Join(a, Join(b, Join(inside, Join(d, rest))))
  BY <1>1, JoinFive
<1>4. Join(d, rest) \in Seq(Tokens)
  BY <1>1, JoinOnce
<1>5. WordTokens(<<>>) = <<>>
  BY WordTokensAre
<1>6. Join(<<>>, Join(d, rest)) = Join(d, rest)
  BY <1>4, JoinEmpty
<1> QED
  BY <1>2, <1>3, <1>4, <1>5, <1>6, Zenon DEF Ahead, a, b, d

-----------------------------------------------------------------------------
(* What is left of a file: of a location's roots, of a server's directives   *)
(* and of the servers.                                                       *)

RootPieces(roots) == [i \in DOMAIN roots |-> WriteRoot(roots[i])]
DirectivePieces(ds) == [i \in DOMAIN ds |-> Write(ds[i])]
ServerPieces(servers) == [i \in DOMAIN servers |-> WriteServer(servers[i])]
RootsLeft(roots, m, rest) == Join(From(RootPieces(roots), m + 1), Join(<<RBrace>>, rest))
DirectivesLeft(ds, j, rest) == Join(From(DirectivePieces(ds), j + 1), Join(<<RBrace>>, rest))
ServersLeft(servers, i) == Join(From(ServerPieces(servers), i + 1), Join(<<RBrace>>, <<>>))

\* What is written piece by piece.
LEMMA PiecesAre ==
    /\ \A roots \in Seq(Words) :
           /\ RootPieces(roots) \in Seq(Seq(Tokens)) /\ Len(RootPieces(roots)) = Len(roots)
           /\ Len(roots) \in Nat
           /\ \A i \in 1 .. Len(roots) : RootPieces(roots)[i] = WriteRoot(roots[i]) /\ roots[i] \in Words
    /\ \A ds \in Seq(Directives) :
           /\ DirectivePieces(ds) \in Seq(Seq(Tokens)) /\ Len(DirectivePieces(ds)) = Len(ds)
           /\ Len(ds) \in Nat
           /\ \A i \in 1 .. Len(ds) : DirectivePieces(ds)[i] = Write(ds[i]) /\ ds[i] \in Directives
    /\ \A servers \in Seq(Seq(Directives)) :
           /\ ServerPieces(servers) \in Seq(Seq(Tokens)) /\ Len(ServerPieces(servers)) = Len(servers)
           /\ Len(servers) \in Nat
           /\ \A i \in 1 .. Len(servers) : /\ ServerPieces(servers)[i] = WriteServer(servers[i])
                                           /\ servers[i] \in Seq(Directives)
<1>0. ASSUME NEW S, NEW s \in Seq(S), NEW write, DOMAIN write = DOMAIN s, write \in Seq(Seq(Tokens))
      PROVE  Len(write) = Len(s) /\ Len(s) \in Nat /\ DOMAIN s = 1 .. Len(s) /\ \A i \in 1 .. Len(s) : s[i] \in S
  <2>1. Len(s) \in Nat /\ DOMAIN s = 1 .. Len(s) /\ \A i \in 1 .. Len(s) : s[i] \in S
    OBVIOUS
  <2>2. Len(write) \in Nat /\ DOMAIN write = 1 .. Len(write)
    BY <1>0
  <2>3. Len(write) = Len(s)
    <3> DEFINE m == Len(write)
               n == Len(s)
    <3>1. m \in Nat /\ n \in Nat /\ 1 .. m = 1 .. n
      BY <1>0, <2>1, <2>2
    <3> HIDE DEF m, n
    <3>2. m = n
      BY <3>1
    <3> QED
      BY <3>2 DEF m, n
  <2> QED
    BY <2>1, <2>3
<1>1. ASSUME NEW roots \in Seq(Words)
      PROVE  /\ RootPieces(roots) \in Seq(Seq(Tokens)) /\ Len(RootPieces(roots)) = Len(roots)
             /\ Len(roots) \in Nat
             /\ \A i \in 1 .. Len(roots) : RootPieces(roots)[i] = WriteRoot(roots[i]) /\ roots[i] \in Words
  <2> DEFINE write == RootPieces(roots)
  <2>1. \A i \in DOMAIN roots : roots[i] \in Words /\ write[i] = WriteRoot(roots[i])
    BY DEF RootPieces
  <2>2. DOMAIN write = DOMAIN roots /\ write = [i \in DOMAIN roots |-> write[i]]
    BY DEF RootPieces
  <2> HIDE DEF write
  <2>3. \A i \in DOMAIN roots : write[i] \in Seq(Tokens)
    BY <2>1, WriteRootType
  <2>4. write \in Seq(Seq(Tokens))
    BY <2>2, <2>3, WrittenOneByOne, Zenon
  <2>5. Len(write) = Len(roots) /\ Len(roots) \in Nat /\ DOMAIN roots = 1 .. Len(roots)
    BY <1>0, <2>2, <2>4, Zenon
  <2> QED
    BY <2>1, <2>4, <2>5, Zenon DEF write
<1>2. ASSUME NEW ds \in Seq(Directives)
      PROVE  /\ DirectivePieces(ds) \in Seq(Seq(Tokens)) /\ Len(DirectivePieces(ds)) = Len(ds)
             /\ Len(ds) \in Nat
             /\ \A i \in 1 .. Len(ds) : DirectivePieces(ds)[i] = Write(ds[i]) /\ ds[i] \in Directives
  <2> DEFINE write == DirectivePieces(ds)
  <2>1. \A i \in DOMAIN ds : ds[i] \in Directives /\ write[i] = Write(ds[i])
    BY DEF DirectivePieces
  <2>2. DOMAIN write = DOMAIN ds /\ write = [i \in DOMAIN ds |-> write[i]]
    BY DEF DirectivePieces
  <2> HIDE DEF write
  <2>3. \A i \in DOMAIN ds : write[i] \in Seq(Tokens)
    BY <2>1, WriteType
  <2>4. write \in Seq(Seq(Tokens))
    BY <2>2, <2>3, WrittenOneByOne, Zenon
  <2>5. Len(write) = Len(ds) /\ Len(ds) \in Nat /\ DOMAIN ds = 1 .. Len(ds)
    BY <1>0, <2>2, <2>4, Zenon
  <2> QED
    BY <2>1, <2>4, <2>5, Zenon DEF write
<1>3. ASSUME NEW servers \in Seq(Seq(Directives))
      PROVE  /\ ServerPieces(servers) \in Seq(Seq(Tokens)) /\ Len(ServerPieces(servers)) = Len(servers)
             /\ Len(servers) \in Nat
             /\ \A i \in 1 .. Len(servers) : /\ ServerPieces(servers)[i] = WriteServer(servers[i])
                                             /\ servers[i] \in Seq(Directives)
  <2> DEFINE write == ServerPieces(servers)
  <2>1. \A i \in DOMAIN servers : servers[i] \in Seq(Directives) /\ write[i] = WriteServer(servers[i])
    BY DEF ServerPieces
  <2>2. DOMAIN write = DOMAIN servers /\ write = [i \in DOMAIN servers |-> write[i]]
    BY DEF ServerPieces
  <2> HIDE DEF write
  <2>3. \A i \in DOMAIN servers : write[i] \in Seq(Tokens)
    BY <2>1, ServerType
  <2>4. write \in Seq(Seq(Tokens))
    BY <2>2, <2>3, WrittenOneByOne, Zenon
  <2>5. Len(write) = Len(servers) /\ Len(servers) \in Nat /\ DOMAIN servers = 1 .. Len(servers)
    BY <1>0, <2>2, <2>4, Zenon
  <2> QED
    BY <2>1, <2>4, <2>5, Zenon DEF write
<1> QED
  BY <1>1, <1>2, <1>3, Zenon

\* The pieces that are left, and what comes after them.
LEMMA PiecesLeft ==
    ASSUME NEW pieces \in Seq(Seq(Tokens)), NEW k \in 0 .. Len(pieces), NEW tail \in Seq(Tokens)
    PROVE  /\ Join(From(pieces, k + 1), tail) \in Seq(Tokens)
           /\ k = Len(pieces) => Join(From(pieces, k + 1), tail) = tail
           /\ k < Len(pieces) => /\ pieces[k + 1] \in Seq(Tokens)
                                 /\ Join(From(pieces, k + 1), tail) =
                                        Join(pieces[k + 1], Join(From(pieces, (k + 1) + 1), tail))
<1>1. /\ \A i \in 1 .. Len(pieces) + 1 : From(pieces, i) \in Seq(Tokens)
      /\ \A i \in 1 .. Len(pieces) : /\ pieces[i] \in Seq(Tokens)
                                     /\ From(pieces, i) = pieces[i] \o From(pieces, i + 1)
      /\ From(pieces, Len(pieces) + 1) = <<>>
      /\ Len(pieces) \in Nat
  BY FromIs, Zenon
<1>2. k + 1 \in 1 .. Len(pieces) + 1 /\ (k < Len(pieces) => k + 1 \in 1 .. Len(pieces) /\ (k + 1) + 1 \in 1 .. Len(pieces) + 1)
  <2>1. Len(pieces) \in Nat
    BY <1>1, Zenon
  <2> QED
    BY <2>1
<1>3. From(pieces, k + 1) \in Seq(Tokens)
  BY <1>1, <1>2, Zenon
<1>4. Join(From(pieces, k + 1), tail) \in Seq(Tokens)
  BY <1>3, JoinIs
<1>5. ASSUME k = Len(pieces) PROVE Join(From(pieces, k + 1), tail) = tail
  <2>1. From(pieces, k + 1) = <<>>
    BY <1>1, <1>5, Zenon
  <2>2. Join(<<>>, tail) = tail
    BY JoinEmpty
  <2> QED
    BY <2>1, <2>2, Zenon
<1>6. ASSUME k < Len(pieces)
      PROVE  /\ pieces[k + 1] \in Seq(Tokens)
             /\ Join(From(pieces, k + 1), tail) = Join(pieces[k + 1], Join(From(pieces, (k + 1) + 1), tail))
  <2> DEFINE p == pieces[k + 1]
             f == From(pieces, (k + 1) + 1)
  <2>1. p \in Seq(Tokens) /\ f \in Seq(Tokens) /\ From(pieces, k + 1) = Join(p, f)
    BY <1>1, <1>2, <1>6, Zenon DEF Join
  <2> HIDE DEF p, f
  <2>2. Join(Join(p, f), tail) = Join(p, Join(f, tail))
    BY <2>1, JoinOnce
  <2> QED
    BY <2>1, <2>2, Zenon DEF p, f
<1> QED
  BY <1>4, <1>5, <1>6

\* A name and its one argument are two words.
LEMMA TwoWords ==
    ASSUME NEW v \in Words, NEW w \in Words
    PROVE  <<v>> \o <<w>> = <<v, w>>
<1> DEFINE a == <<v>>
           b == <<w>>
           c == <<v, w>>
           z == a \o b
<1>1. a \in Seq(Words) /\ Len(a) = 1 /\ a[1] = v
  OBVIOUS
<1>2. b \in Seq(Words) /\ Len(b) = 1 /\ b[1] = w
  OBVIOUS
<1>3. c \in Seq(Words) /\ Len(c) = 2 /\ c[1] = v /\ c[2] = w
  OBVIOUS
<1> HIDE DEF a, b, c
<1>4. z \in Seq(Words) /\ Len(z) = 2 /\ z[1] = v /\ z[2] = w
  <2>1. z = Join(a, b) /\ 1 \in 1 .. Len(a) + Len(b) /\ 2 \in 1 .. Len(a) + Len(b)
    BY <1>1, <1>2 DEF Join
  <2>2. /\ Join(a, b) \in Seq(Words) /\ Len(Join(a, b)) = Len(a) + Len(b)
        /\ \A i \in 1 .. Len(a) + Len(b) : Join(a, b)[i] = IF i <= Len(a) THEN a[i] ELSE b[i - Len(a)]
    BY <1>1, <1>2, JoinIs, Zenon
  <2>3. z[1] = a[1] /\ z[2] = b[1] /\ Len(z) = 2
    BY <1>1, <1>2, <2>1, <2>2
  <2> QED
    BY <1>1, <1>2, <2>1, <2>2, <2>3
<1> HIDE DEF z
<1>5. \A i \in 1 .. 2 : z[i] = c[i]
  BY <1>3, <1>4
<1>6. z = c
  BY <1>3, <1>4, <1>5, SeqEqual
<1> QED
  BY <1>6 DEF a, b, c, z

\* Of a location's roots there is the brace left, or a root directive,
LEMMA RootsAhead ==
    ASSUME NEW roots \in Seq(Words), NEW m \in 0 .. Len(roots), NEW rest \in Seq(Tokens)
    PROVE  /\ RootsLeft(roots, m, rest) \in Seq(Tokens)
           /\ m = Len(roots) => RootsLeft(roots, m, rest) = Ahead(<<>>, RBrace, rest)
           /\ m < Len(roots) => /\ roots[m + 1] \in Words
                                /\ RootsLeft(roots, m, rest) =
                                       Ahead(<<"root", roots[m + 1]>>, Semicolon, RootsLeft(roots, m + 1, rest))
<1> DEFINE pieces == RootPieces(roots)
           tail == Join(<<RBrace>>, rest)
<1>1. /\ pieces \in Seq(Seq(Tokens)) /\ Len(pieces) = Len(roots) /\ Len(roots) \in Nat
      /\ \A i \in 1 .. Len(roots) : pieces[i] = WriteRoot(roots[i]) /\ roots[i] \in Words
  BY PiecesAre, Zenon
<1>2. tail = Ahead(<<>>, RBrace, rest) /\ tail \in Seq(Tokens)
  <2>1. <<>> \in Seq(Words) /\ <<>> \in Seq(Tokens)
    OBVIOUS
  <2> QED
    BY <2>1, BlockAhead, Zenon
<1> HIDE DEF pieces, tail
<1>3. /\ Join(From(pieces, m + 1), tail) \in Seq(Tokens)
      /\ m = Len(roots) => Join(From(pieces, m + 1), tail) = tail
      /\ m < Len(roots) => /\ pieces[m + 1] \in Seq(Tokens)
                           /\ Join(From(pieces, m + 1), tail) = Join(pieces[m + 1], Join(From(pieces, (m + 1) + 1), tail))
  <2>1. m \in 0 .. Len(pieces)
    BY <1>1, Zenon
  <2>2. /\ Join(From(pieces, m + 1), tail) \in Seq(Tokens)
        /\ m = Len(pieces) => Join(From(pieces, m + 1), tail) = tail
        /\ m < Len(pieces) => /\ pieces[m + 1] \in Seq(Tokens)
                              /\ Join(From(pieces, m + 1), tail) = Join(pieces[m + 1], Join(From(pieces, (m + 1) + 1), tail))
    BY <1>1, <1>2, <2>1, PiecesLeft, Zenon
  <2> QED
    BY <1>1, <2>2, Zenon
<1>4. \A k : RootsLeft(roots, k, rest) = Join(From(pieces, k + 1), tail)
  BY Zenon DEF RootsLeft, pieces, tail
<1>5. ASSUME m < Len(roots)
      PROVE  /\ roots[m + 1] \in Words
             /\ RootsLeft(roots, m, rest) =
                    Ahead(<<"root", roots[m + 1]>>, Semicolon, RootsLeft(roots, m + 1, rest))
  <2> DEFINE r == roots[m + 1]
             more == RootsLeft(roots, m + 1, rest)
  <2>1. m + 1 \in 1 .. Len(roots) /\ m + 1 \in 0 .. Len(pieces)
    <3>1. Len(roots) \in Nat /\ Len(pieces) = Len(roots)
      BY <1>1, Zenon
    <3> QED
      BY <1>5, <3>1
  <2>2. r \in Words /\ pieces[m + 1] = WriteRoot(r)
    BY <1>1, <2>1, Zenon
  <2>3. more \in Seq(Tokens)
    <3>1. Join(From(pieces, (m + 1) + 1), tail) \in Seq(Tokens)
      BY <1>1, <1>2, <2>1, PiecesLeft, Zenon
    <3> QED
      BY <1>4, <3>1, Zenon
  <2>4. RootsLeft(roots, m, rest) = Join(Simple("root", <<r>>), more)
    BY <1>3, <1>4, <1>5, <2>2, Zenon DEF WriteRoot
  <2> HIDE DEF r, more
  <2>5. <<r>> \in Seq(Words) /\ "root" \in Words /\ <<"root">> \o <<r>> = <<"root", r>>
    <3>1. <<"root">> \o <<r>> = <<"root", r>>
      BY <2>2, TwoWords, Assumed
    <3> QED
      BY <2>2, <3>1, FewWords, Assumed, Zenon
  <2>6. Join(Simple("root", <<r>>), more) = Ahead(<<"root", r>>, Semicolon, more)
    <3>1. Join(Simple("root", <<r>>), more) = Ahead(<<"root">> \o <<r>>, Semicolon, more)
      BY <2>3, <2>5, SimpleAhead, Zenon
    <3> QED
      BY <2>5, <3>1, Zenon
  <2> QED
    BY <2>2, <2>4, <2>6, Zenon DEF r, more
<1> QED
  BY <1>2, <1>3, <1>4, <1>5, Zenon

\* of a server's directives the brace, or a directive,
LEMMA DirectivesAhead ==
    ASSUME NEW ds \in Seq(Directives), NEW j \in 0 .. Len(ds), NEW rest \in Seq(Tokens)
    PROVE  /\ DirectivesLeft(ds, j, rest) \in Seq(Tokens)
           /\ j = Len(ds) => DirectivesLeft(ds, j, rest) = Ahead(<<>>, RBrace, rest)
           /\ j < Len(ds) =>
                  LET d == ds[j + 1]
                      more == DirectivesLeft(ds, j + 1, rest)
                  IN  /\ d \in Directives /\ j + 1 \in 0 .. Len(ds) /\ more \in Seq(Tokens)
                      /\ IsLocation(d) => DirectivesLeft(ds, j, rest) =
                                              Ahead(<<"location", d.path>>, LBrace, RootsLeft(d.roots, 0, more))
                      /\ ~IsLocation(d) => DirectivesLeft(ds, j, rest) =
                                               Ahead(<<d.name>> \o d.args, Semicolon, more)
<1> DEFINE pieces == DirectivePieces(ds)
           tail == Join(<<RBrace>>, rest)
<1>1. /\ pieces \in Seq(Seq(Tokens)) /\ Len(pieces) = Len(ds) /\ Len(ds) \in Nat
      /\ \A i \in 1 .. Len(ds) : pieces[i] = Write(ds[i]) /\ ds[i] \in Directives
  BY PiecesAre, Zenon
<1>2. tail = Ahead(<<>>, RBrace, rest) /\ tail \in Seq(Tokens)
  <2>1. <<>> \in Seq(Words) /\ <<>> \in Seq(Tokens)
    OBVIOUS
  <2> QED
    BY <2>1, BlockAhead, Zenon
<1> HIDE DEF pieces, tail
<1>3. ASSUME NEW k \in 0 .. Len(ds)
      PROVE  /\ Join(From(pieces, k + 1), tail) \in Seq(Tokens)
             /\ k = Len(ds) => Join(From(pieces, k + 1), tail) = tail
             /\ k < Len(ds) => /\ pieces[k + 1] \in Seq(Tokens)
                               /\ Join(From(pieces, k + 1), tail) = Join(pieces[k + 1], Join(From(pieces, (k + 1) + 1), tail))
  <2>1. k \in 0 .. Len(pieces)
    BY <1>1, Zenon
  <2>2. /\ Join(From(pieces, k + 1), tail) \in Seq(Tokens)
        /\ k = Len(pieces) => Join(From(pieces, k + 1), tail) = tail
        /\ k < Len(pieces) => /\ pieces[k + 1] \in Seq(Tokens)
                              /\ Join(From(pieces, k + 1), tail) = Join(pieces[k + 1], Join(From(pieces, (k + 1) + 1), tail))
    BY <1>1, <1>2, <2>1, PiecesLeft, Zenon
  <2> QED
    BY <1>1, <2>2, Zenon
<1>4. \A k : DirectivesLeft(ds, k, rest) = Join(From(pieces, k + 1), tail)
  BY Zenon DEF DirectivesLeft, pieces, tail
<1>5. ASSUME j < Len(ds)
      PROVE  LET d == ds[j + 1]
                 more == DirectivesLeft(ds, j + 1, rest)
             IN  /\ d \in Directives /\ j + 1 \in 0 .. Len(ds) /\ more \in Seq(Tokens)
                 /\ IsLocation(d) => DirectivesLeft(ds, j, rest) =
                                         Ahead(<<"location", d.path>>, LBrace, RootsLeft(d.roots, 0, more))
                 /\ ~IsLocation(d) => DirectivesLeft(ds, j, rest) =
                                          Ahead(<<d.name>> \o d.args, Semicolon, more)
  <2> DEFINE d == ds[j + 1]
             more == DirectivesLeft(ds, j + 1, rest)
  <2>1. j + 1 \in 1 .. Len(ds) /\ j + 1 \in 0 .. Len(ds)
    <3>1. Len(ds) \in Nat
      BY <1>1, Zenon
    <3> QED
      BY <1>5, <3>1
  <2>2. d \in Directives /\ pieces[j + 1] = Write(d)
    BY <1>1, <2>1, Zenon
  <2>3. more \in Seq(Tokens)
    <3>1. Join(From(pieces, (j + 1) + 1), tail) \in Seq(Tokens)
      BY <1>3, <2>1, Zenon
    <3> QED
      BY <1>4, <3>1, Zenon
  <2>4. DirectivesLeft(ds, j, rest) = Join(Write(d), more)
    BY <1>3, <1>4, <1>5, <2>2, Zenon
  <2> HIDE DEF d, more
  <2>5. ASSUME IsLocation(d)
        PROVE  DirectivesLeft(ds, j, rest) = Ahead(<<"location", d.path>>, LBrace, RootsLeft(d.roots, 0, more))
    <3> DEFINE inside == Each(d.roots, WriteRoot)
    <3>1. d.path \in Words /\ d.roots \in Seq(Words)
      BY <2>2, <2>5, DirectiveIs
    <3>2. Write(d) = Block(<<"location", d.path>>, inside)
      BY <2>5, Zenon DEF Write
    <3>3. inside \in Seq(Tokens) /\ <<"location", d.path>> \in Seq(Words)
      BY <3>1, RootsType, FewWords, Assumed, Zenon
    <3>4. inside = From(RootPieces(d.roots), 1)
      <4>1. inside = FlattenSeq(RootPieces(d.roots))
        BY Zenon DEF Each, RootPieces
      <4>2. RootPieces(d.roots) \in Seq(Seq(Tokens))
        BY <3>1, PiecesAre, Zenon
      <4> QED
        BY <4>1, <4>2, FromIs, Zenon
    <3>5. RootsLeft(d.roots, 0, more) = Join(inside, Join(<<RBrace>>, more))
      <4>1. 0 + 1 = 1
        OBVIOUS
      <4> QED
        BY <3>4, <4>1, Zenon DEF RootsLeft
    <3> HIDE DEF inside
    <3>6. Join(Block(<<"location", d.path>>, inside), more) =
              Ahead(<<"location", d.path>>, LBrace, Join(inside, Join(<<RBrace>>, more)))
      BY <2>3, <3>3, BlockAhead, ZenonT(40)
    <3> QED
      BY <2>4, <3>2, <3>5, <3>6, Zenon
  <2>6. ASSUME ~IsLocation(d)
        PROVE  DirectivesLeft(ds, j, rest) = Ahead(<<d.name>> \o d.args, Semicolon, more)
    <3>1. d.name \in Words /\ d.args \in Seq(Words)
      BY <2>2, <2>6, DirectiveIs
    <3>2. Write(d) = Simple(d.name, d.args)
      BY <2>6, Zenon DEF Write
    <3>3. Join(Simple(d.name, d.args), more) = Ahead(<<d.name>> \o d.args, Semicolon, more)
      BY <2>3, <3>1, SimpleAhead, Zenon
    <3> QED
      BY <2>4, <3>2, <3>3, Zenon
  <2> QED
    BY <2>1, <2>2, <2>3, <2>5, <2>6 DEF d, more
<1>6. DirectivesLeft(ds, j, rest) \in Seq(Tokens) /\ (j = Len(ds) => DirectivesLeft(ds, j, rest) = Ahead(<<>>, RBrace, rest))
  BY <1>2, <1>3, <1>4, Zenon
<1> QED
  BY <1>5, <1>6, Zenon

\* of the servers the brace, or a server,
LEMMA ServersAhead ==
    ASSUME NEW servers \in Seq(Seq(Directives)), NEW i \in 0 .. Len(servers)
    PROVE  /\ ServersLeft(servers, i) \in Seq(Tokens)
           /\ i = Len(servers) => ServersLeft(servers, i) = Ahead(<<>>, RBrace, <<>>)
           /\ i < Len(servers) =>
                  /\ servers[i + 1] \in Seq(Directives) /\ i + 1 \in 0 .. Len(servers)
                  /\ ServersLeft(servers, i + 1) \in Seq(Tokens)
                  /\ ServersLeft(servers, i) =
                         Ahead(<<"server">>, LBrace, DirectivesLeft(servers[i + 1], 0, ServersLeft(servers, i + 1)))
<1> DEFINE pieces == ServerPieces(servers)
           tail == Join(<<RBrace>>, <<>>)
<1>1. /\ pieces \in Seq(Seq(Tokens)) /\ Len(pieces) = Len(servers) /\ Len(servers) \in Nat
      /\ \A k \in 1 .. Len(servers) : pieces[k] = WriteServer(servers[k]) /\ servers[k] \in Seq(Directives)
  BY PiecesAre, Zenon
<1>2. tail = Ahead(<<>>, RBrace, <<>>) /\ tail \in Seq(Tokens)
  <2>1. <<>> \in Seq(Words) /\ <<>> \in Seq(Tokens)
    OBVIOUS
  <2> QED
    BY <2>1, BlockAhead, Zenon
<1> HIDE DEF pieces, tail
<1>3. ASSUME NEW k \in 0 .. Len(servers)
      PROVE  /\ Join(From(pieces, k + 1), tail) \in Seq(Tokens)
             /\ k = Len(servers) => Join(From(pieces, k + 1), tail) = tail
             /\ k < Len(servers) => /\ pieces[k + 1] \in Seq(Tokens)
                                    /\ Join(From(pieces, k + 1), tail) = Join(pieces[k + 1], Join(From(pieces, (k + 1) + 1), tail))
  <2>1. k \in 0 .. Len(pieces)
    BY <1>1, Zenon
  <2>2. /\ Join(From(pieces, k + 1), tail) \in Seq(Tokens)
        /\ k = Len(pieces) => Join(From(pieces, k + 1), tail) = tail
        /\ k < Len(pieces) => /\ pieces[k + 1] \in Seq(Tokens)
                              /\ Join(From(pieces, k + 1), tail) = Join(pieces[k + 1], Join(From(pieces, (k + 1) + 1), tail))
    BY <1>1, <1>2, <2>1, PiecesLeft, Zenon
  <2> QED
    BY <1>1, <2>2, Zenon
<1>4. \A k : ServersLeft(servers, k) = Join(From(pieces, k + 1), tail)
  BY Zenon DEF ServersLeft, pieces, tail
<1>5. ASSUME i < Len(servers)
      PROVE  /\ servers[i + 1] \in Seq(Directives) /\ i + 1 \in 0 .. Len(servers)
             /\ ServersLeft(servers, i + 1) \in Seq(Tokens)
             /\ ServersLeft(servers, i) =
                    Ahead(<<"server">>, LBrace, DirectivesLeft(servers[i + 1], 0, ServersLeft(servers, i + 1)))
  <2> DEFINE server == servers[i + 1]
             more == ServersLeft(servers, i + 1)
             inside == Each(server, Write)
  <2>1. i + 1 \in 1 .. Len(servers) /\ i + 1 \in 0 .. Len(servers)
    <3>1. Len(servers) \in Nat
      BY <1>1, Zenon
    <3> QED
      BY <1>5, <3>1
  <2>2. server \in Seq(Directives) /\ pieces[i + 1] = WriteServer(server)
    BY <1>1, <2>1, Zenon
  <2>3. more \in Seq(Tokens)
    <3>1. Join(From(pieces, (i + 1) + 1), tail) \in Seq(Tokens)
      BY <1>3, <2>1, Zenon
    <3> QED
      BY <1>4, <3>1, Zenon
  <2>4. ServersLeft(servers, i) = Join(WriteServer(server), more)
    BY <1>3, <1>4, <1>5, <2>2, Zenon
  <2> HIDE DEF server, more
  <2>5. WriteServer(server) = Block(<<"server">>, inside)
    BY Zenon DEF WriteServer
  <2>6. inside \in Seq(Tokens) /\ <<"server">> \in Seq(Words)
    BY <2>2, ServerType, FewWords, Assumed, Zenon
  <2>7. inside = From(DirectivePieces(server), 1)
    <3>1. inside = FlattenSeq(DirectivePieces(server))
      BY Zenon DEF Each, DirectivePieces
    <3>2. DirectivePieces(server) \in Seq(Seq(Tokens))
      BY <2>2, PiecesAre, Zenon
    <3> QED
      BY <3>1, <3>2, FromIs, Zenon
  <2>8. DirectivesLeft(server, 0, more) = Join(inside, Join(<<RBrace>>, more))
    <3>1. 0 + 1 = 1
      OBVIOUS
    <3> QED
      BY <2>7, <3>1, Zenon DEF DirectivesLeft
  <2> HIDE DEF inside
  <2>9. Join(Block(<<"server">>, inside), more) = Ahead(<<"server">>, LBrace, Join(inside, Join(<<RBrace>>, more)))
    BY <2>3, <2>6, BlockAhead, Zenon
  <2> QED
    BY <2>1, <2>2, <2>3, <2>4, <2>5, <2>8, <2>9, Zenon DEF server, more
<1>6. ServersLeft(servers, i) \in Seq(Tokens) /\ (i = Len(servers) => ServersLeft(servers, i) = Ahead(<<>>, RBrace, <<>>))
  BY <1>2, <1>3, <1>4, Zenon
<1> QED
  BY <1>5, <1>6, Zenon

\* and of the file the http block.
LEMMA WrittenAhead ==
    ASSUME NEW servers \in Seq(Seq(Directives))
    PROVE  Written(servers) = Ahead(<<"http">>, LBrace, ServersLeft(servers, 0))
<1> DEFINE inside == Each(servers, WriteServer)
<1>1. ServerPieces(servers) \in Seq(Seq(Tokens))
  BY PiecesAre, Zenon
<1>2. inside = FlattenSeq(ServerPieces(servers))
  BY Zenon DEF Each, ServerPieces
<1>3. inside \in Seq(Tokens)
  BY <1>1, <1>2, FlattenType, Zenon
<1>4. inside = From(ServerPieces(servers), 0 + 1)
  <2>1. 0 + 1 = 1
    OBVIOUS
  <2> QED
    BY <1>1, <1>2, <2>1, FromIs, Zenon
<1>5. ServersLeft(servers, 0) = Join(inside, Join(<<RBrace>>, <<>>))
  BY <1>4, Zenon DEF ServersLeft
<1>6. Written(servers) = Block(<<"http">>, inside)
  BY Zenon DEF Written
<1> HIDE DEF inside
<1>7. <<"http">> \in Seq(Words) /\ <<>> \in Seq(Tokens)
  <2>1. <<>> \in Seq(Tokens)
    OBVIOUS
  <2> QED
    BY <2>1, FewWords, Assumed, Zenon
<1>8. Join(Block(<<"http">>, inside), <<>>) = Ahead(<<"http">>, LBrace, Join(inside, Join(<<RBrace>>, <<>>)))
  BY <1>3, <1>7, BlockAhead, Zenon
<1>9. Join(Block(<<"http">>, inside), <<>>) = Block(<<"http">>, inside)
  <2>1. Block(<<"http">>, inside) \in Seq(Tokens)
    BY <1>3, <1>7, BlockType, Zenon
  <2> HIDE DEF inside
  <2> QED
    BY <2>1, JoinEmpty
<1> QED
  BY <1>5, <1>6, <1>8, <1>9, Zenon

-----------------------------------------------------------------------------
(* Where the parser is in a file: the calls that are active, what they hold, *)
(* and what is left to read.                                                 *)

DirectivesOf(f, i, j) == DirectivesLeft(f[i + 1], j, ServersLeft(f, i + 1))
RootsOf(f, i, j, m) == RootsLeft(f[i + 1][j + 1].roots, m, DirectivesOf(f, i, j + 1))

InHttp(stack) == stack[1].key = "http" /\ stack[1].args = <<>> /\ stack[1].config = Empty
InServer(stack, f, i) ==
    /\ InHttp(stack) /\ stack[2].key = "server" /\ stack[2].args = <<>>
    /\ Said(stack[2].config, SubSeq(f, 1, i))
InLocation(stack, f, i, j) ==
    /\ InServer(stack, f, i) /\ stack[3].key = "location" /\ stack[3].args = <<f[i + 1][j + 1].path>>
    /\ Describes(stack[3].config, SubSeq(f[i + 1], 1, j))

AtFile(stack) == Len(stack) = 1 /\ stack[1].config = Empty
AtServer(stack, f, i) == Len(stack) = 2 /\ InHttp(stack) /\ Said(stack[2].config, SubSeq(f, 1, i))
AtDirective(stack, f, i, j) ==
    Len(stack) = 3 /\ InServer(stack, f, i) /\ Describes(stack[3].config, SubSeq(f[i + 1], 1, j))
AtRoot(stack, f, i, j, m) ==
    /\ Len(stack) = 4 /\ InLocation(stack, f, i, j)
    /\ Gives(stack[4].config, "root", RootArgs(SubSeq(f[i + 1][j + 1].roots, 1, m)))
AtEnd(stack, f) ==
    /\ Len(stack) = 1 /\ "http" \in DOMAIN stack[1].config /\ IsBlock(stack[1].config["http"])
    /\ Said(stack[1].config["http"].v, f)

\* The numbers of a server, of a directive of it and of a root of it, from 0.
IsServer(f, i) == i \in 0 .. Len(f) /\ i < Len(f)
IsDirective(f, i, j) == IsServer(f, i) /\ j \in 0 .. Len(f[i + 1]) /\ j < Len(f[i + 1])
IsRoot(f, i, j, m) ==
    /\ IsDirective(f, i, j) /\ IsLocation(f[i + 1][j + 1])
    /\ m \in 0 .. Len(f[i + 1][j + 1].roots) /\ m < Len(f[i + 1][j + 1].roots)

Place(stack, f, all) ==
    \/ AtFile(stack) /\ all = Written(f)
    \/ \E i \in 0 .. Len(f) : AtServer(stack, f, i) /\ all = ServersLeft(f, i)
    \/ \E i \in 0 .. Len(f) : IsServer(f, i) /\ \E j \in 0 .. Len(f[i + 1]) :
           AtDirective(stack, f, i, j) /\ all = DirectivesOf(f, i, j)
    \/ \E i \in 0 .. Len(f) : \E j \in 0 .. Len(f[i + 1]) :
           /\ IsDirective(f, i, j) /\ IsLocation(f[i + 1][j + 1])
           /\ \E m \in 0 .. Len(f[i + 1][j + 1].roots) :
                  AtRoot(stack, f, i, j, m) /\ all = RootsOf(f, i, j, m)
    \/ AtEnd(stack, f) /\ all = <<>>

\* A name and its arguments.
Worded(name, args) == <<name>> \o args

\* What comes next: a block that opens, a directive that ends, a block that closes.
Opens(stack, f, words, rest) ==
    \/ AtFile(stack) /\ words = <<"http">> /\ rest = ServersLeft(f, 0)
    \/ \E i \in 0 .. Len(f) : /\ IsServer(f, i) /\ AtServer(stack, f, i)
                              /\ words = <<"server">> /\ rest = DirectivesOf(f, i, 0)
    \/ \E i \in 0 .. Len(f) : \E j \in 0 .. Len(f[i + 1]) :
           /\ IsDirective(f, i, j) /\ IsLocation(f[i + 1][j + 1]) /\ AtDirective(stack, f, i, j)
           /\ words = <<"location", f[i + 1][j + 1].path>> /\ rest = RootsOf(f, i, j, 0)
Ends(stack, f, words, rest) ==
    \/ \E i \in 0 .. Len(f) : \E j \in 0 .. Len(f[i + 1]) :
           /\ IsDirective(f, i, j) /\ ~IsLocation(f[i + 1][j + 1]) /\ AtDirective(stack, f, i, j)
           /\ words = Worded(f[i + 1][j + 1].name, f[i + 1][j + 1].args)
           /\ rest = DirectivesOf(f, i, j + 1)
    \/ \E i \in 0 .. Len(f) : \E j \in 0 .. Len(f[i + 1]) : \E m \in 0 .. Len(f[i + 1][j + 1].roots) :
           /\ IsRoot(f, i, j, m) /\ AtRoot(stack, f, i, j, m)
           /\ words = <<"root", f[i + 1][j + 1].roots[m + 1]>> /\ rest = RootsOf(f, i, j, m + 1)
ClosesNext(stack, f, rest) ==
    \/ AtServer(stack, f, Len(f)) /\ rest = <<>>
    \/ \E i \in 0 .. Len(f) : /\ IsServer(f, i) /\ AtDirective(stack, f, i, Len(f[i + 1]))
                              /\ rest = ServersLeft(f, i + 1)
    \/ \E i \in 0 .. Len(f) : \E j \in 0 .. Len(f[i + 1]) :
           /\ IsDirective(f, i, j) /\ IsLocation(f[i + 1][j + 1])
           /\ AtRoot(stack, f, i, j, Len(f[i + 1][j + 1].roots))
           /\ rest = DirectivesOf(f, i, j + 1)
NextIs(stack, f, words, x, rest) ==
    \/ x = LBrace /\ Opens(stack, f, words, rest) /\ words # <<>> /\ Len(words) <= 2
    \/ x = Semicolon /\ Ends(stack, f, words, rest) /\ words # <<>>
    \/ x = RBrace /\ words = <<>> /\ ClosesNext(stack, f, rest)

\* What a file is made of.
LEMMA FileParts ==
    ASSUME NEW f \in Seq(Seq(Directives))
    PROVE  /\ Len(f) \in Nat
           /\ \A i \in 0 .. Len(f) : IsServer(f, i) =>
                  /\ f[i + 1] \in Seq(Directives) /\ i + 1 \in 0 .. Len(f) /\ i + 1 \in 1 .. Len(f)
                  /\ Len(f[i + 1]) \in Nat /\ i \in Nat
           /\ \A i \in 0 .. Len(f) : \A j \in 0 .. Len(f[i + 1]) : IsDirective(f, i, j) =>
                  /\ IsServer(f, i)
                  /\ f[i + 1][j + 1] \in Directives /\ j + 1 \in 0 .. Len(f[i + 1]) /\ j + 1 \in 1 .. Len(f[i + 1])
                  /\ j \in Nat
                  /\ IsLocation(f[i + 1][j + 1]) =>
                         /\ f[i + 1][j + 1].path \in Words /\ f[i + 1][j + 1].roots \in Seq(Words)
                         /\ Len(f[i + 1][j + 1].roots) \in Nat
                  /\ ~IsLocation(f[i + 1][j + 1]) =>
                         f[i + 1][j + 1].name \in Words /\ f[i + 1][j + 1].args \in Lists
<1>1. ASSUME NEW S, NEW s \in Seq(S)
      PROVE  Len(s) \in Nat /\ \A i \in 0 .. Len(s) : i < Len(s) =>
                 s[i + 1] \in S /\ i + 1 \in 0 .. Len(s) /\ i + 1 \in 1 .. Len(s) /\ i \in Nat
  <2>1. Len(s) \in Nat /\ \A i \in 1 .. Len(s) : s[i] \in S
    OBVIOUS
  <2>2. \A i \in 0 .. Len(s) : i < Len(s) => i + 1 \in 0 .. Len(s) /\ i + 1 \in 1 .. Len(s) /\ i \in Nat
    BY <2>1
  <2> QED
    BY <2>1, <2>2
<1>2. ASSUME NEW i \in 0 .. Len(f), IsServer(f, i)
      PROVE  /\ f[i + 1] \in Seq(Directives) /\ i + 1 \in 0 .. Len(f) /\ i + 1 \in 1 .. Len(f)
             /\ Len(f[i + 1]) \in Nat /\ i \in Nat
  <2>1. f[i + 1] \in Seq(Directives) /\ i + 1 \in 0 .. Len(f) /\ i + 1 \in 1 .. Len(f) /\ i \in Nat
    BY <1>1, <1>2, Zenon DEF IsServer
  <2>2. Len(f[i + 1]) \in Nat
    BY <1>1, <2>1, Zenon
  <2> QED
    BY <2>1, <2>2
<1>3. ASSUME NEW i \in 0 .. Len(f), NEW j \in 0 .. Len(f[i + 1]), IsDirective(f, i, j)
      PROVE  /\ IsServer(f, i)
             /\ f[i + 1][j + 1] \in Directives /\ j + 1 \in 0 .. Len(f[i + 1]) /\ j + 1 \in 1 .. Len(f[i + 1])
             /\ j \in Nat
             /\ IsLocation(f[i + 1][j + 1]) =>
                    /\ f[i + 1][j + 1].path \in Words /\ f[i + 1][j + 1].roots \in Seq(Words)
                    /\ Len(f[i + 1][j + 1].roots) \in Nat
             /\ ~IsLocation(f[i + 1][j + 1]) =>
                    f[i + 1][j + 1].name \in Words /\ f[i + 1][j + 1].args \in Lists
  <2>1. IsServer(f, i) /\ j < Len(f[i + 1])
    BY <1>3, Zenon DEF IsDirective
  <2>2. f[i + 1] \in Seq(Directives)
    BY <1>2, <2>1, Zenon
  <2>3. f[i + 1][j + 1] \in Directives /\ j + 1 \in 0 .. Len(f[i + 1]) /\ j + 1 \in 1 .. Len(f[i + 1]) /\ j \in Nat
    BY <1>1, <2>1, <2>2, Zenon
  <2>4. IsLocation(f[i + 1][j + 1]) =>
            /\ f[i + 1][j + 1].path \in Words /\ f[i + 1][j + 1].roots \in Seq(Words)
            /\ Len(f[i + 1][j + 1].roots) \in Nat
    <3>1. ASSUME NEW d \in Directives, IsLocation(d)
          PROVE  d.path \in Words /\ d.roots \in Seq(Words) /\ Len(d.roots) \in Nat
      BY <3>1, DirectiveIs
    <3> QED
      BY <2>3, <3>1, Zenon
  <2>5. ~IsLocation(f[i + 1][j + 1]) => f[i + 1][j + 1].name \in Words /\ f[i + 1][j + 1].args \in Lists
    <3>1. ASSUME NEW d \in Directives, ~IsLocation(d)
          PROVE  d.name \in Words /\ d.args \in Lists
      BY <3>1, DirectiveIs DEF Lists
    <3> QED
      BY <2>3, <3>1, Zenon
  <2> QED
    BY <2>1, <2>3, <2>4, <2>5
<1>4. Len(f) \in Nat
  BY <1>1, Zenon
<1> QED
  BY <1>2, <1>3, <1>4, Zenon

\* What is left of a server or of a location is tokens.
LEMMA PartsLeft ==
    ASSUME NEW f \in Seq(Seq(Directives))
    PROVE  /\ \A i \in 0 .. Len(f) : ServersLeft(f, i) \in Seq(Tokens)
           /\ \A i \in 0 .. Len(f) : IsServer(f, i) =>
                  \A j \in 0 .. Len(f[i + 1]) : DirectivesOf(f, i, j) \in Seq(Tokens)
           /\ \A i \in 0 .. Len(f) : \A j \in 0 .. Len(f[i + 1]) :
                  IsDirective(f, i, j) /\ IsLocation(f[i + 1][j + 1]) =>
                      \A m \in 0 .. Len(f[i + 1][j + 1].roots) : RootsOf(f, i, j, m) \in Seq(Tokens)
<1>1. ASSUME NEW i \in 0 .. Len(f) PROVE ServersLeft(f, i) \in Seq(Tokens)
  BY ServersAhead, Zenon
<1>2. ASSUME NEW i \in 0 .. Len(f), IsServer(f, i), NEW j \in 0 .. Len(f[i + 1])
      PROVE  DirectivesOf(f, i, j) \in Seq(Tokens)
  <2>1. f[i + 1] \in Seq(Directives) /\ ServersLeft(f, i + 1) \in Seq(Tokens)
    BY <1>1, <1>2, FileParts, Zenon
  <2> QED
    BY <2>1, DirectivesAhead, Zenon DEF DirectivesOf
<1>3. ASSUME NEW i \in 0 .. Len(f), NEW j \in 0 .. Len(f[i + 1]),
             IsDirective(f, i, j) /\ IsLocation(f[i + 1][j + 1]),
             NEW m \in 0 .. Len(f[i + 1][j + 1].roots)
      PROVE  RootsOf(f, i, j, m) \in Seq(Tokens)
  <2>1. /\ IsServer(f, i) /\ f[i + 1][j + 1].roots \in Seq(Words) /\ j + 1 \in 0 .. Len(f[i + 1])
    BY <1>3, FileParts, Zenon
  <2>2. DirectivesOf(f, i, j + 1) \in Seq(Tokens)
    BY <1>2, <2>1, Zenon
  <2> QED
    BY <2>1, <2>2, RootsAhead, Zenon DEF RootsOf
<1> QED
  BY <1>1, <1>2, <1>3, Zenon

\* Sequences of one or two words.
LEMMA FewWordsAre ==
    /\ \A w \in Words : <<w>> \in Seq(Words) /\ <<w>> # <<>> /\ Len(<<w>>) <= 2
    /\ \A v \in Words : \A w \in Words : <<v, w>> \in Seq(Words) /\ <<v, w>> # <<>> /\ Len(<<v, w>>) <= 2
    /\ \A w \in Words : \A s \in Seq(Words) : Worded(w, s) \in Seq(Words) /\ Worded(w, s) # <<>>
BY DEF Worded

\* At every place something comes next, or nothing is left.
Comes(stack, f, all) ==
    \E words \in Seq(Words) : \E x \in Marks : \E rest \in Seq(Tokens) :
        all = Ahead(words, x, rest) /\ NextIs(stack, f, words, x, rest)

\* A place is the end, or something comes next there.
LEMMA PlaceIs ==
    ASSUME NEW f \in Seq(Seq(Directives)), NEW stack, NEW all, Place(stack, f, all)
    PROVE  \/ AtEnd(stack, f) /\ all = <<>>
           \/ Comes(stack, f, all)
<1>0. LBrace \in Marks /\ RBrace \in Marks /\ Semicolon \in Marks /\ <<>> \in Seq(Words) /\ <<>> \in Seq(Tokens)
  BY DEF Marks
<1>1. CASE AtFile(stack) /\ all = Written(f)
  <2> DEFINE w == <<"http">>
             rest == ServersLeft(f, 0)
  <2>1. w \in Seq(Words) /\ w # <<>> /\ Len(w) <= 2
    BY FewWordsAre, Assumed, Zenon
  <2>2. 0 \in 0 .. Len(f)
    <3>1. Len(f) \in Nat
      BY FileParts, Zenon
    <3> QED
      BY <3>1
  <2>3. rest \in Seq(Tokens) /\ all = Ahead(w, LBrace, rest)
    BY <1>1, <2>2, PartsLeft, WrittenAhead, Zenon
  <2>4. NextIs(stack, f, w, LBrace, rest)
    BY <1>1, <2>1, Zenon DEF NextIs, Opens
  <2> QED
    BY <1>0, <2>1, <2>3, <2>4, Zenon DEF Comes
<1>2. ASSUME NEW i \in 0 .. Len(f), AtServer(stack, f, i), all = ServersLeft(f, i)
      PROVE  Comes(stack, f, all)
  <2>1. CASE i = Len(f)
    <3>1. all = Ahead(<<>>, RBrace, <<>>)
      BY <1>2, <2>1, ServersAhead, Zenon
    <3>2. NextIs(stack, f, <<>>, RBrace, <<>>)
      BY <1>2, <2>1, Zenon DEF NextIs, ClosesNext
    <3> QED
      BY <1>0, <3>1, <3>2, Zenon DEF Comes
  <2>2. CASE i < Len(f)
    <3> DEFINE w == <<"server">>
               rest == DirectivesOf(f, i, 0)
    <3>1. w \in Seq(Words) /\ w # <<>> /\ Len(w) <= 2
      BY FewWordsAre, Assumed, Zenon
    <3>2. IsServer(f, i)
      BY <2>2, Zenon DEF IsServer
    <3>3. all = Ahead(w, LBrace, rest)
      BY <1>2, <2>2, ServersAhead, Zenon DEF DirectivesOf
    <3>4. 0 \in 0 .. Len(f[i + 1])
      <4>1. Len(f[i + 1]) \in Nat
        BY <3>2, FileParts, Zenon
      <4> QED
        BY <4>1
    <3>5. rest \in Seq(Tokens)
      BY <3>2, <3>4, PartsLeft, Zenon
    <3>6. NextIs(stack, f, w, LBrace, rest)
      BY <1>2, <3>1, <3>2, Zenon DEF NextIs, Opens
    <3> QED
      BY <1>0, <3>1, <3>3, <3>5, <3>6, Zenon DEF Comes
  <2>3. i = Len(f) \/ i < Len(f)
    <3>1. Len(f) \in Nat
      BY FileParts, Zenon
    <3> QED
      BY <3>1
  <2> QED
    BY <2>1, <2>2, <2>3
<1>3. ASSUME NEW i \in 0 .. Len(f), IsServer(f, i), NEW j \in 0 .. Len(f[i + 1]),
             AtDirective(stack, f, i, j), all = DirectivesOf(f, i, j)
      PROVE  Comes(stack, f, all)
  <2> DEFINE ds == f[i + 1]
             after == ServersLeft(f, i + 1)
  <2>1. ds \in Seq(Directives) /\ after \in Seq(Tokens)
    BY <1>3, FileParts, PartsLeft, Zenon
  <2>2. CASE j = Len(ds)
    <3>1. all = Ahead(<<>>, RBrace, after)
      BY <1>3, <2>1, <2>2, DirectivesAhead, Zenon DEF DirectivesOf
    <3>2. NextIs(stack, f, <<>>, RBrace, after)
      BY <1>3, <2>2, Zenon DEF NextIs, ClosesNext
    <3> QED
      BY <1>0, <2>1, <3>1, <3>2, Zenon DEF Comes
  <2>3. CASE j < Len(ds)
    <3> DEFINE d == ds[j + 1]
               more == DirectivesOf(f, i, j + 1)
    <3>1. IsDirective(f, i, j)
      BY <1>3, <2>3, Zenon DEF IsDirective
    <3>2. more \in Seq(Tokens)
      BY <1>3, <3>1, FileParts, PartsLeft, Zenon
    <3>3. /\ IsLocation(d) => all = Ahead(<<"location", d.path>>, LBrace, RootsOf(f, i, j, 0))
          /\ ~IsLocation(d) => all = Ahead(Worded(d.name, d.args), Semicolon, more)
      BY <1>3, <2>1, <2>3, DirectivesAhead, Zenon DEF DirectivesOf, RootsOf, Worded
    <3>4. CASE IsLocation(d)
      <4> DEFINE w == <<"location", d.path>>
                 rest == RootsOf(f, i, j, 0)
      <4>1. d.path \in Words /\ Len(d.roots) \in Nat
        BY <3>1, <3>4, FileParts, Zenon
      <4>2. w \in Seq(Words) /\ w # <<>> /\ Len(w) <= 2
        BY <4>1, FewWordsAre, Assumed, Zenon
      <4>3. 0 \in 0 .. Len(d.roots)
        BY <4>1
      <4>4. rest \in Seq(Tokens)
        BY <3>1, <3>4, <4>3, PartsLeft, Zenon
      <4>5. NextIs(stack, f, w, LBrace, rest)
        BY <1>3, <3>1, <3>4, <4>2, Zenon DEF NextIs, Opens
      <4> QED
        BY <1>0, <3>3, <3>4, <4>2, <4>4, <4>5, Zenon DEF Comes
    <3>5. CASE ~IsLocation(d)
      <4> DEFINE w == Worded(d.name, d.args)
      <4>1. d.name \in Words /\ d.args \in Seq(Words)
        <5>1. \A list : list \in Lists => list \in Seq(Words)
          BY DEF Lists
        <5> QED
          BY <3>1, <3>5, <5>1, FileParts, Zenon
      <4>2. w \in Seq(Words) /\ w # <<>>
        BY <4>1, FewWordsAre, Zenon
      <4>3. NextIs(stack, f, w, Semicolon, more)
        BY <1>3, <3>1, <3>5, <4>2, Zenon DEF NextIs, Ends
      <4> QED
        BY <1>0, <3>2, <3>3, <3>5, <4>2, <4>3, Zenon DEF Comes
    <3> QED
      BY <3>4, <3>5
  <2>4. j = Len(ds) \/ j < Len(ds)
    <3>1. Len(ds) \in Nat
      BY <1>3, FileParts, Zenon
    <3> QED
      BY <3>1
  <2> QED
    BY <2>2, <2>3, <2>4
<1>4. ASSUME NEW i \in 0 .. Len(f), NEW j \in 0 .. Len(f[i + 1]), IsDirective(f, i, j),
             IsLocation(f[i + 1][j + 1]), NEW m \in 0 .. Len(f[i + 1][j + 1].roots),
             AtRoot(stack, f, i, j, m), all = RootsOf(f, i, j, m)
      PROVE  Comes(stack, f, all)
  <2> DEFINE roots == f[i + 1][j + 1].roots
             more == DirectivesOf(f, i, j + 1)
  <2>1. roots \in Seq(Words) /\ Len(roots) \in Nat /\ more \in Seq(Tokens)
    BY <1>4, FileParts, PartsLeft, Zenon
  <2>2. CASE m = Len(roots)
    <3>1. all = Ahead(<<>>, RBrace, more)
      BY <1>4, <2>1, <2>2, RootsAhead, Zenon DEF RootsOf
    <3>2. NextIs(stack, f, <<>>, RBrace, more)
      BY <1>4, <2>2, Zenon DEF NextIs, ClosesNext
    <3> QED
      BY <1>0, <2>1, <3>1, <3>2, Zenon DEF Comes
  <2>3. CASE m < Len(roots)
    <3> DEFINE w == <<"root", roots[m + 1]>>
               rest == RootsOf(f, i, j, m + 1)
    <3>1. roots[m + 1] \in Words /\ all = Ahead(w, Semicolon, rest)
      BY <1>4, <2>1, <2>3, RootsAhead, Zenon DEF RootsOf
    <3>2. w \in Seq(Words) /\ w # <<>>
      BY <3>1, FewWordsAre, Assumed, Zenon
    <3>3. m + 1 \in 0 .. Len(roots)
      BY <2>1, <2>3, SMTT(30)
    <3>4. rest \in Seq(Tokens)
      BY <1>4, <3>3, PartsLeft, Zenon
    <3>5. IsRoot(f, i, j, m)
      BY <1>4, <2>3, Zenon DEF IsRoot
    <3>6. NextIs(stack, f, w, Semicolon, rest)
      BY <1>4, <3>2, <3>5, Zenon DEF NextIs, Ends
    <3> QED
      BY <1>0, <3>1, <3>2, <3>4, <3>6, Zenon DEF Comes
  <2>4. m = Len(roots) \/ m < Len(roots)
    BY <2>1
  <2> QED
    BY <2>2, <2>3, <2>4
<1> QED
  BY <1>1, <1>2, <1>3, <1>4, Zenon DEF Place

\* The first few elements and the one after them.
LEMMA FirstsAppend ==
    ASSUME NEW S, NEW s \in Seq(S), NEW n \in 0 .. Len(s), n < Len(s)
    PROVE  /\ Append(SubSeq(s, 1, n), s[n + 1]) = SubSeq(s, 1, n + 1)
           /\ SubSeq(s, 1, n) \in Seq(S) /\ s[n + 1] \in S
<1> DEFINE a == SubSeq(s, 1, n)
           b == SubSeq(s, 1, n + 1)
           x == s[n + 1]
<1>1. n \in Nat /\ n + 1 \in 0 .. Len(s) /\ x \in S
  OBVIOUS
<1>2. a \in Seq(S) /\ Len(a) = n /\ \A i \in 1 .. n : a[i] = s[i]
  BY FirstsAre
<1>3. b \in Seq(S) /\ Len(b) = n + 1 /\ \A i \in 1 .. n + 1 : b[i] = s[i]
  BY <1>1, FirstsAre
<1> HIDE DEF a, b
<1>4. /\ Append(a, x) \in Seq(S) /\ Len(Append(a, x)) = n + 1
      /\ \A i \in 1 .. n : Append(a, x)[i] = a[i]
      /\ Append(a, x)[n + 1] = x
  <2> HIDE DEF x
  <2>1. Append(a, x)[n + 1] = x
    BY <1>1, <1>2
  <2> QED
    BY <1>1, <1>2, <2>1, OneMoreIs
<1> DEFINE c == Append(a, x)
<1> HIDE DEF c
<1>5. \A i \in 1 .. n + 1 : c[i] = b[i]
  <2>1. /\ \A i \in 1 .. n : c[i] = a[i]
        /\ c[n + 1] = x
    BY <1>4 DEF c
  <2>2. \A i \in 1 .. n : c[i] = b[i]
    BY <1>1, <1>2, <1>3, <2>1
  <2>3. c[n + 1] = b[n + 1]
    BY <1>1, <1>3, <2>1
  <2> QED
    BY <1>1, <2>2, <2>3
<1>6. c = b
  BY <1>3, <1>4, <1>5, SeqEqual DEF c
<1> QED
  BY <1>1, <1>2, <1>6, Zenon DEF a, b, c

\* A name and its arguments are read one way.
LEMMA WordedIs ==
    /\ \A w \in Words : Worded(w, <<>>) = <<w>>
    /\ \A w \in Words : \A x \in Words : Worded(w, <<x>>) = <<w, x>>
<1>1. ASSUME NEW w \in Words PROVE <<w>> \o <<>> = <<w>>
  OBVIOUS
<1> QED
  BY <1>1, TwoWords DEF Worded

\* A name and its arguments can be told apart again.
LEMMA WordsAreUnique ==
    ASSUME NEW v \in Words, NEW a \in Seq(Words), NEW w \in Words, NEW b \in Seq(Words),
           Worded(v, a) = Worded(w, b)
    PROVE  v = w /\ a = b
<1> DEFINE c == Worded(v, a)
           d == Worded(w, b)
<1>1. Len(c) = 1 + Len(a) /\ c[1] = v /\ (\A i \in 1 .. Len(a) : c[i + 1] = a[i]) /\ Len(a) \in Nat
  BY DEF Worded
<1>2. Len(d) = 1 + Len(b) /\ d[1] = w /\ (\A i \in 1 .. Len(b) : d[i + 1] = b[i]) /\ Len(b) \in Nat
  BY DEF Worded
<1>3. c = d
  OBVIOUS
<1> HIDE DEF c, d
<1>4. Len(a) = Len(b) /\ \A i \in 1 .. Len(a) : a[i] = b[i]
  BY <1>1, <1>2, <1>3
<1> QED
  BY <1>1, <1>2, <1>3, <1>4, SeqEqual

\* Calls that are the same but for the name and the arguments of the innermost are
\* at the same place.
SameCalls(new, old, n) == \A i \in 1 .. n : new[i] = old[i]

\* A stack whose calls hold the same, but for what the innermost reads, is at the same place.
LEMMA SamePlace ==
    ASSUME NEW f, NEW old, NEW new, NEW all, Place(old, f, all),
           Len(new) = Len(old), SameCalls(new, old, Len(old) - 1),
           new[Len(old)].config = old[Len(old)].config
    PROVE  Place(new, f, all)
<1>1. ASSUME AtFile(old) PROVE AtFile(new)
  BY <1>1, Zenon DEF AtFile
<1>2. ASSUME AtEnd(old, f) PROVE AtEnd(new, f)
  BY <1>2, Zenon DEF AtEnd
<1>3. ASSUME NEW i, AtServer(old, f, i) PROVE AtServer(new, f, i)
  <2>1. Len(old) = 2 /\ 1 \in 1 .. Len(old) - 1
    BY <1>3 DEF AtServer
  <2>2. new[1] = old[1] /\ Len(new) = 2 /\ new[2].config = old[2].config
    BY <2>1, Zenon DEF SameCalls
  <2> QED
    BY <1>3, <2>2, Zenon DEF AtServer, InHttp
<1>4. ASSUME NEW i, NEW j, AtDirective(old, f, i, j) PROVE AtDirective(new, f, i, j)
  <2>1. Len(old) = 3 /\ 1 \in 1 .. Len(old) - 1 /\ 2 \in 1 .. Len(old) - 1
    BY <1>4 DEF AtDirective
  <2>2. new[1] = old[1] /\ new[2] = old[2] /\ Len(new) = 3 /\ new[3].config = old[3].config
    BY <2>1, Zenon DEF SameCalls
  <2> QED
    BY <1>4, <2>2, Zenon DEF AtDirective, InServer, InHttp
<1>5. ASSUME NEW i, NEW j, NEW m, AtRoot(old, f, i, j, m) PROVE AtRoot(new, f, i, j, m)
  <2>1. Len(old) = 4 /\ 1 \in 1 .. Len(old) - 1 /\ 2 \in 1 .. Len(old) - 1 /\ 3 \in 1 .. Len(old) - 1
    BY <1>5 DEF AtRoot
  <2>2. /\ new[1] = old[1] /\ new[2] = old[2] /\ new[3] = old[3] /\ Len(new) = 4
        /\ new[4].config = old[4].config
    BY <2>1, Zenon DEF SameCalls
  <2> QED
    BY <1>5, <2>2, Zenon DEF AtRoot, InLocation, InServer, InHttp
<1> QED
  BY <1>1, <1>2, <1>3, <1>4, <1>5, Zenon DEF Place

\* A semicolon: the directive that it ends has been read.
LEMMA EndStep ==
    ASSUME NEW f \in Seq(Seq(Directives)), NEW old, NEW new, NEW rest,
           NEW key \in Words, NEW args \in Seq(Words), Ends(old, f, Worded(key, args), rest),
           Len(new) = Len(old), SameCalls(new, old, Len(old) - 1),
           new[Len(old)].config = AppendRepeated(old[Len(old)].config, key, Args(args))
    PROVE  Place(new, f, rest)
<1>1. ASSUME NEW i \in 0 .. Len(f), NEW j \in 0 .. Len(f[i + 1]),
             IsDirective(f, i, j), ~IsLocation(f[i + 1][j + 1]), AtDirective(old, f, i, j),
             Worded(key, args) = Worded(f[i + 1][j + 1].name, f[i + 1][j + 1].args),
             rest = DirectivesOf(f, i, j + 1)
      PROVE  Place(new, f, rest)
  <2> DEFINE ds == f[i + 1]
             d == ds[j + 1]
  <2>1. /\ IsServer(f, i) /\ ds \in Seq(Directives) /\ d \in Directives /\ j + 1 \in 0 .. Len(ds)
        /\ d.name \in Words /\ d.args \in Lists /\ j < Len(ds)
    BY <1>1, FileParts, Zenon DEF IsDirective
  <2>2. key = d.name /\ args = d.args
    <3>1. d.args \in Seq(Words)
      BY <2>1, DirectiveIs, <1>1, Zenon
    <3> QED
      BY <1>1, <2>1, <3>1, WordsAreUnique
  <2>3. Len(old) = 3 /\ 1 \in 1 .. Len(old) - 1 /\ 2 \in 1 .. Len(old) - 1
    BY <1>1 DEF AtDirective
  <2>4. /\ new[1] = old[1] /\ new[2] = old[2] /\ Len(new) = 3
        /\ new[3].config = AppendRepeated(old[3].config, d.name, Args(d.args))
    BY <2>2, <2>3, Zenon DEF SameCalls
  <2>5. Append(SubSeq(ds, 1, j), d) = SubSeq(ds, 1, j + 1) /\ SubSeq(ds, 1, j) \in Seq(Directives)
    BY <1>1, <2>1, FirstsAppend, Zenon
  <2>6. Describes(old[3].config, SubSeq(ds, 1, j)) /\ InServer(old, f, i)
    BY <1>1, Zenon DEF AtDirective
  <2>7. Describes(new[3].config, SubSeq(ds, 1, j + 1))
    <3>1. Describes(AppendRepeated(old[3].config, d.name, Args(d.args)), Append(SubSeq(ds, 1, j), d))
      BY <1>1, <2>1, <2>5, <2>6, SimpleDescribed, Zenon
    <3> QED
      BY <2>4, <2>5, <3>1, Zenon
  <2>8. AtDirective(new, f, i, j + 1)
    BY <2>4, <2>6, <2>7, Zenon DEF AtDirective, InServer, InHttp
  <2> QED
    BY <1>1, <2>1, <2>8, Zenon DEF Place
<1>2. ASSUME NEW i \in 0 .. Len(f), NEW j \in 0 .. Len(f[i + 1]), NEW m \in 0 .. Len(f[i + 1][j + 1].roots),
             IsRoot(f, i, j, m), AtRoot(old, f, i, j, m),
             Worded(key, args) = <<"root", f[i + 1][j + 1].roots[m + 1]>>,
             rest = RootsOf(f, i, j, m + 1)
      PROVE  Place(new, f, rest)
  <2> DEFINE roots == f[i + 1][j + 1].roots
             r == roots[m + 1]
             some == SubSeq(roots, 1, m)
  <2>1. /\ IsDirective(f, i, j) /\ IsLocation(f[i + 1][j + 1]) /\ m < Len(roots)
        /\ roots \in Seq(Words) /\ Len(roots) \in Nat
    BY <1>2, FileParts, Zenon DEF IsRoot
  <2>2. /\ Append(some, r) = SubSeq(roots, 1, m + 1) /\ some \in Seq(Words) /\ r \in Words
    BY <1>2, <2>1, FirstsAppend, Zenon
  <2>3. key = "root" /\ args = <<r>>
    <3> DEFINE w == "root"
               a == <<r>>
    <3>1. Worded(key, args) = Worded(w, a) /\ w \in Words /\ a \in Seq(Words)
      BY <1>2, <2>2, WordedIs, FewWordsAre, Assumed, Zenon
    <3> HIDE DEF w, a
    <3>2. key = w /\ args = a
      BY <3>1, WordsAreUnique
    <3> QED
      BY <3>2 DEF w, a
  <2>4. /\ Len(old) = 4 /\ 1 \in 1 .. Len(old) - 1 /\ 2 \in 1 .. Len(old) - 1 /\ 3 \in 1 .. Len(old) - 1
    BY <1>2 DEF AtRoot
  <2>5. /\ new[1] = old[1] /\ new[2] = old[2] /\ new[3] = old[3] /\ Len(new) = 4
        /\ new[4].config = AppendRepeated(old[4].config, "root", Args(<<r>>))
    BY <2>3, <2>4, Zenon DEF SameCalls
  <2>6. Gives(old[4].config, "root", RootArgs(some)) /\ InLocation(old, f, i, j)
    BY <1>2, Zenon DEF AtRoot
  <2>7. RootArgs(some) \in Seq(Lists) /\ RootArgs(Append(some, r)) = Append(RootArgs(some), <<r>>)
    BY <2>2, RootArgsAre, Zenon
  <2>8. <<r>> \in Lists
    <3>1. <<r>> \in Seq(Words) /\ <<r>> # <<>>
      BY <2>2, FewWordsAre, Zenon
    <3> QED
      BY <3>1 DEF Lists
  <2>9. Gives(new[4].config, "root", RootArgs(SubSeq(roots, 1, m + 1)))
    <3>1. Gives(AppendRepeated(old[4].config, "root", Args(<<r>>)), "root", Append(RootArgs(some), <<r>>))
      BY <2>6, <2>7, <2>8, AppendGives, Zenon
    <3> QED
      BY <2>2, <2>5, <2>7, <3>1, Zenon
  <2>10. AtRoot(new, f, i, j, m + 1)
    BY <2>5, <2>6, <2>9, Zenon DEF AtRoot, InLocation, InServer, InHttp
  <2>11. m + 1 \in 0 .. Len(roots)
    BY <2>1, SMTT(20)
  <2> QED
    BY <1>2, <2>1, <2>10, <2>11, Zenon DEF Place
<1> QED
  BY <1>1, <1>2, Zenon DEF Ends

\* Nothing has been read of a file, of a server or of a location yet.
LEMMA NothingRead ==
    /\ \A f \in Seq(Seq(Directives)) : SubSeq(f, 1, 0) = <<>> /\ Said(Empty, SubSeq(f, 1, 0))
    /\ \A ds \in Seq(Directives) : Describes(Empty, SubSeq(ds, 1, 0))
    /\ \A roots \in Seq(Words) : Gives(Empty, "root", RootArgs(SubSeq(roots, 1, 0)))
<1>1. ASSUME NEW S, NEW s \in Seq(S) PROVE SubSeq(s, 1, 0) = <<>>
  <2>1. 0 \in 0 .. Len(s)
    OBVIOUS
  <2>2. SubSeq(s, 1, 0) \in Seq(S) /\ Len(SubSeq(s, 1, 0)) = 0
    BY <2>1, FirstsAre
  <2> QED
    BY <2>2
<1>2. "server" \notin DOMAIN Empty /\ "root" \notin DOMAIN Empty
  BY DEF Empty
<1>3. ASSUME NEW f \in Seq(Seq(Directives))
      PROVE  SubSeq(f, 1, 0) = <<>> /\ Said(Empty, SubSeq(f, 1, 0))
  <2>1. SubSeq(f, 1, 0) = <<>>
    BY <1>1, Zenon
  <2>2. Len(<<>>) = 0 /\ 1 .. 0 = {}
    OBVIOUS
  <2>3. HasBlocks(Empty, 0)
    BY <1>2, Zenon DEF HasBlocks
  <2>4. Said(Empty, <<>>)
    BY <2>2, <2>3, Zenon DEF Said
  <2> QED
    BY <2>1, <2>4, Zenon
<1>4. ASSUME NEW ds \in Seq(Directives) PROVE Describes(Empty, SubSeq(ds, 1, 0))
  BY <1>1, NothingDescribed, Zenon
<1>5. ASSUME NEW roots \in Seq(Words) PROVE Gives(Empty, "root", RootArgs(SubSeq(roots, 1, 0)))
  <2>1. SubSeq(roots, 1, 0) = <<>> /\ <<>> \in Seq(Words) /\ Len(<<>>) = 0
    BY <1>1
  <2>2. RootArgs(<<>>) = <<>>
    <3>1. RootArgs(<<>>) \in Seq(Lists) /\ Len(RootArgs(<<>>)) = Len(<<>>)
      BY <2>1, RootArgsAre, Zenon
    <3> QED
      BY <3>1
  <2> QED
    BY <1>2, <2>1, <2>2, Zenon DEF Gives
<1> QED
  BY <1>3, <1>4, <1>5, Zenon

\* A brace that opens: the block has been opened, and nothing of it has been read.
LEMMA OpenStep ==
    ASSUME NEW f \in Seq(Seq(Directives)), NEW old, NEW new, NEW rest,
           NEW key \in Words, NEW args \in Seq(Words), Opens(old, f, Worded(key, args), rest),
           Len(new) = Len(old) + 1, SameCalls(new, old, Len(old)),
           old[Len(old)].key = key, old[Len(old)].args = args,
           new[Len(old) + 1].config = Empty
    PROVE  Place(new, f, rest)
<1>0. Len(f) \in Nat /\ 0 \in 0 .. Len(f)
  <2>1. Len(f) \in Nat
    BY FileParts, Zenon
  <2> QED
    BY <2>1
<1>1. ASSUME AtFile(old), Worded(key, args) = <<"http">>, rest = ServersLeft(f, 0)
      PROVE  Place(new, f, rest)
  <2>1. key = "http" /\ args = <<>>
    <3> DEFINE w == "http"
               a == <<>>
    <3>1. Worded(key, args) = Worded(w, a) /\ w \in Words /\ a \in Seq(Words)
      <4>1. a \in Seq(Words)
        OBVIOUS
      <4> QED
        BY <1>1, <4>1, WordedIs, Assumed, Zenon
    <3> HIDE DEF w, a
    <3>2. key = w /\ args = a
      BY <3>1, WordsAreUnique
    <3> QED
      BY <3>2 DEF w, a
  <2>2. Len(old) = 1 /\ 1 \in 1 .. Len(old) /\ Len(old) + 1 = 2
    BY <1>1 DEF AtFile
  <2>3. new[1] = old[1] /\ Len(new) = 2 /\ new[2].config = Empty /\ old[1].key = key /\ old[1].args = args
    BY <2>2, Zenon DEF SameCalls
  <2>4. AtServer(new, f, 0)
    BY <1>1, <2>1, <2>3, NothingRead, Zenon DEF AtServer, InHttp, AtFile
  <2> QED
    BY <1>0, <1>1, <2>4, Zenon DEF Place
<1>2. ASSUME NEW i \in 0 .. Len(f), IsServer(f, i), AtServer(old, f, i),
             Worded(key, args) = <<"server">>, rest = DirectivesOf(f, i, 0)
      PROVE  Place(new, f, rest)
  <2>1. key = "server" /\ args = <<>>
    <3> DEFINE w == "server"
               a == <<>>
    <3>1. Worded(key, args) = Worded(w, a) /\ w \in Words /\ a \in Seq(Words)
      <4>1. a \in Seq(Words)
        OBVIOUS
      <4> QED
        BY <1>2, <4>1, WordedIs, Assumed, Zenon
    <3> HIDE DEF w, a
    <3>2. key = w /\ args = a
      BY <3>1, WordsAreUnique
    <3> QED
      BY <3>2 DEF w, a
  <2>2. Len(old) = 2 /\ 1 \in 1 .. Len(old) /\ 2 \in 1 .. Len(old) /\ Len(old) + 1 = 3
    BY <1>2 DEF AtServer
  <2>3. /\ new[1] = old[1] /\ new[2] = old[2] /\ Len(new) = 3 /\ new[3].config = Empty
        /\ old[2].key = key /\ old[2].args = args
    BY <2>2, Zenon DEF SameCalls
  <2>4. f[i + 1] \in Seq(Directives) /\ Len(f[i + 1]) \in Nat
    BY <1>2, FileParts, Zenon
  <2>5. AtDirective(new, f, i, 0)
    BY <1>2, <2>1, <2>3, <2>4, NothingRead, Zenon DEF AtServer, AtDirective, InServer, InHttp
  <2>6. 0 \in 0 .. Len(f[i + 1])
    BY <2>4
  <2> QED
    BY <1>2, <2>5, <2>6, Zenon DEF Place
<1>3. ASSUME NEW i \in 0 .. Len(f), NEW j \in 0 .. Len(f[i + 1]), IsDirective(f, i, j),
             IsLocation(f[i + 1][j + 1]), AtDirective(old, f, i, j),
             Worded(key, args) = <<"location", f[i + 1][j + 1].path>>, rest = RootsOf(f, i, j, 0)
      PROVE  Place(new, f, rest)
  <2> DEFINE d == f[i + 1][j + 1]
  <2>1. d.path \in Words /\ d.roots \in Seq(Words) /\ Len(d.roots) \in Nat
    BY <1>3, FileParts, Zenon
  <2>2. key = "location" /\ args = <<d.path>>
    <3> DEFINE w == "location"
               a == <<d.path>>
    <3>1. /\ Worded(key, args) = Worded(w, a)
          /\ w \in Words /\ a \in Seq(Words)
      BY <1>3, <2>1, WordedIs, FewWordsAre, Assumed, Zenon
    <3> HIDE DEF w, a
    <3>2. key = w /\ args = a
      BY <3>1, WordsAreUnique
    <3> QED
      BY <3>2 DEF w, a
  <2>3. /\ Len(old) = 3 /\ 1 \in 1 .. Len(old) /\ 2 \in 1 .. Len(old) /\ 3 \in 1 .. Len(old)
        /\ Len(old) + 1 = 4
    BY <1>3 DEF AtDirective
  <2>4. /\ new[1] = old[1] /\ new[2] = old[2] /\ new[3] = old[3] /\ Len(new) = 4 /\ new[4].config = Empty
        /\ old[3].key = key /\ old[3].args = args
    BY <2>3, Zenon DEF SameCalls
  <2>5. AtRoot(new, f, i, j, 0)
    BY <1>3, <2>1, <2>2, <2>4, NothingRead, Zenon DEF AtDirective, AtRoot, InLocation, InServer, InHttp
  <2>6. 0 \in 0 .. Len(d.roots)
    BY <2>1
  <2> QED
    BY <1>3, <2>5, <2>6, Zenon DEF Place
<1> QED
  BY <1>1, <1>2, <1>3, Zenon DEF Opens

\* What has been read all through.
LEMMA AllAre ==
    ASSUME NEW S, NEW s \in Seq(S)
    PROVE  SubSeq(s, 1, Len(s)) = s
<1> DEFINE n == Len(s)
           a == SubSeq(s, 1, n)
<1>1. n \in 0 .. Len(s)
  OBVIOUS
<1>2. a \in Seq(S) /\ Len(a) = n /\ \A i \in 1 .. n : a[i] = s[i]
  BY <1>1, FirstsAre
<1> HIDE DEF a
<1>3. a = s
  BY <1>2, SeqEqual
<1> QED
  BY <1>3 DEF a

\* A server more is said.
LEMMA ServerSaid ==
    ASSUME NEW f \in Seq(Seq(Directives)), NEW i \in 0 .. Len(f), IsServer(f, i),
           NEW http, Said(http, SubSeq(f, 1, i)), NEW block, Describes(block, f[i + 1])
    PROVE  Said(AppendRepeated(http, "server", Dict(block)), SubSeq(f, 1, i + 1))
<1> DEFINE new == AppendRepeated(http, "server", Dict(block))
           a == SubSeq(f, 1, i)
           b == SubSeq(f, 1, i + 1)
<1>1. i \in Nat /\ i + 1 \in 0 .. Len(f)
  BY FileParts, Zenon
<1>2. Len(a) = i /\ \A k \in 1 .. i : a[k] = f[k]
  BY FirstsAre
<1>3. Len(b) = i + 1 /\ \A k \in 1 .. i + 1 : b[k] = f[k]
  BY <1>1, FirstsAre
<1> HIDE DEF a, b
<1>4. HasBlocks(http, i) /\ \A k \in 1 .. i : Describes(Values(http, "server")[k].v, a[k])
  BY <1>2, Zenon DEF Said, a
<1>5. /\ HasBlocks(new, i + 1) /\ Values(new, "server")[i + 1] = Dict(block)
      /\ \A k \in 1 .. i : Values(new, "server")[k] = Values(http, "server")[k]
  <2>1. i \in Nat /\ HasBlocks(http, i)
    BY <1>1, <1>4
  <2>2. HasBlocks(new, i + 1) /\ Values(new, "server")[i + 1] = Dict(block)
    BY <2>1, BlockAppended
  <2>3. \A k \in 1 .. i : Values(new, "server")[k] = Values(http, "server")[k]
    BY <2>1, BlockAppended
  <2> QED
    BY <2>2, <2>3
<1> HIDE DEF new
<1>6. ASSUME NEW k \in 1 .. i + 1 PROVE Describes(Values(new, "server")[k].v, b[k])
  <2>1. CASE k \in 1 .. i
    <3>1. b[k] = a[k]
      BY <1>2, <1>3, <2>1
    <3> QED
      BY <1>4, <1>5, <2>1, <3>1, Zenon
  <2>2. CASE k = i + 1
    <3>1. Dict(block).v = block
      BY DEF Dict
    <3>2. b[k] = f[i + 1]
      BY <1>3, <2>2
    <3> QED
      BY <1>5, <2>2, <3>1, <3>2, Zenon
  <2> QED
    BY <1>1, <2>1, <2>2
<1> QED
  BY <1>3, <1>5, <1>6, Zenon DEF Said, new, b

\* A brace that closes: the block is stored, and can be.
LEMMA CloseStep ==
    ASSUME NEW f \in Seq(Seq(Directives)), NEW U, NEW old \in Seq(Calls(U)), NEW n, n = Len(old),
           NEW new, NEW rest, ClosesNext(old, f, rest),
           Len(new) = n - 1, SameCalls(new, old, n - 2),
           new[n - 1] = Stored(old[n - 1], Dict(old[n].config))
    PROVE  n > 1 /\ CanStore(old[n - 1]) /\ Place(new, f, rest)
<1>0. ASSUME NEW k \in 1 .. n PROVE old[k] \in Calls(U)
  <2> DEFINE C == Calls(U)
  <2> HIDE DEF C
  <2>1. old \in Seq(C)
    BY DEF C
  <2>2. old[k] \in C
    BY <2>1
  <2> QED
    BY <2>2 DEF C
<1>1. ASSUME AtServer(old, f, Len(f)), rest = <<>>
      PROVE  n > 1 /\ CanStore(old[n - 1]) /\ Place(new, f, rest)
  <2>1. n = 2 /\ n - 1 = 1 /\ n > 1 /\ 1 \in 1 .. n
    BY <1>1 DEF AtServer
  <2> DEFINE http == old[2].config
             call == old[1]
  <2>2. call \in Calls(U) /\ call.args = <<>> /\ call.key = "http" /\ call.config = Empty
    BY <1>0, <1>1, <2>1, Zenon DEF AtServer, InHttp
  <2>3. new[1] = Stored(call, Dict(http)) /\ Len(new) = 1
    BY <2>1, Zenon
  <2>4. CanStore(call) /\ Stored(call, Dict(http)).config = AppendRepeated(Empty, "http", Dict(http))
    <3>1. /\ CanStore(call)
          /\ Stored(call, Dict(http)).config = AppendRepeated(call.config, call.key, Dict(http))
      <4> HIDE DEF call
      <4>1. CanStore(call)
        BY <2>2, StoredUnnamed
      <4>2. Stored(call, Dict(http)).config = AppendRepeated(call.config, call.key, Dict(http))
        BY <2>2, StoredUnnamed
      <4> QED
        BY <4>1, <4>2
    <3> QED
      BY <2>2, <3>1, Zenon
  <2>5. AppendRepeated(Empty, "http", Dict(http)) = With(Empty, "http", Dict(http))
    <3>1. "http" \notin DOMAIN Empty
      BY DEF Empty
    <3> QED
      BY <3>1, Zenon DEF AppendRepeated
  <2>6. /\ "http" \in DOMAIN new[1].config /\ new[1].config["http"] = Dict(http)
    <3>1. /\ DOMAIN With(Empty, "http", Dict(http)) = DOMAIN Empty \union {"http"}
          /\ With(Empty, "http", Dict(http))["http"] = Dict(http)
      <4> DEFINE w == "http"
                 v == Dict(http)
      <4> HIDE DEF w, v
      <4>1. DOMAIN With(Empty, w, v) = DOMAIN Empty \union {w}
        BY Zenon DEF With
      <4>2. With(Empty, w, v)[w] = v
        BY DEF With
      <4> QED
        BY <4>1, <4>2 DEF w, v
    <3>2. new[1].config = With(Empty, "http", Dict(http))
      BY <2>3, <2>4, <2>5, Zenon
    <3> QED
      BY <3>1, <3>2
  <2>7. IsBlock(Dict(http)) /\ Dict(http).v = http
    BY DEF IsBlock, Dict
  <2>8. Said(http, f)
    BY <1>1, AllAre, Zenon DEF AtServer
  <2>9. AtEnd(new, f)
    BY <2>3, <2>6, <2>7, <2>8, Zenon DEF AtEnd
  <2> QED
    BY <1>1, <2>1, <2>4, <2>9, Zenon DEF Place
<1>2. ASSUME NEW i \in 0 .. Len(f), IsServer(f, i), AtDirective(old, f, i, Len(f[i + 1])),
             rest = ServersLeft(f, i + 1)
      PROVE  n > 1 /\ CanStore(old[n - 1]) /\ Place(new, f, rest)
  <2>1. n = 3 /\ n - 1 = 2 /\ n > 1 /\ 1 \in 1 .. n - 2 /\ 2 \in 1 .. n
    BY <1>2 DEF AtDirective
  <2> DEFINE block == old[3].config
             call == old[2]
             ds == f[i + 1]
  <2>2. call \in Calls(U) /\ call.args = <<>> /\ call.key = "server" /\ Said(call.config, SubSeq(f, 1, i))
    BY <1>0, <1>2, <2>1, Zenon DEF AtDirective, InServer
  <2>3. new[2] = Stored(call, Dict(block)) /\ Len(new) = 2 /\ new[1] = old[1]
    BY <2>1, Zenon DEF SameCalls
  <2>4. CanStore(call) /\ Stored(call, Dict(block)).config = AppendRepeated(call.config, "server", Dict(block))
    <3>1. /\ CanStore(call)
          /\ Stored(call, Dict(block)).config = AppendRepeated(call.config, call.key, Dict(block))
      <4> HIDE DEF call
      <4>1. CanStore(call)
        BY <2>2, StoredUnnamed
      <4>2. Stored(call, Dict(block)).config = AppendRepeated(call.config, call.key, Dict(block))
        BY <2>2, StoredUnnamed
      <4> QED
        BY <4>1, <4>2
    <3> QED
      BY <2>2, <3>1, Zenon
  <2>5. ds \in Seq(Directives) /\ i + 1 \in 0 .. Len(f)
    BY <1>2, FileParts, Zenon
  <2>6. Describes(block, ds)
    <3>1. SubSeq(ds, 1, Len(ds)) = ds
      BY <2>5, AllAre, Zenon
    <3> QED
      BY <1>2, <3>1, Zenon DEF AtDirective
  <2>7. Said(new[2].config, SubSeq(f, 1, i + 1))
    <3>1. Said(AppendRepeated(call.config, "server", Dict(block)), SubSeq(f, 1, i + 1))
      BY <1>2, <2>2, <2>6, ServerSaid, Zenon
    <3> QED
      BY <2>3, <2>4, <3>1, Zenon
  <2>8. AtServer(new, f, i + 1)
    BY <1>2, <2>3, <2>7, Zenon DEF AtServer, AtDirective, InServer, InHttp
  <2> QED
    BY <1>2, <2>1, <2>4, <2>5, <2>8, Zenon DEF Place
<1>3. ASSUME NEW i \in 0 .. Len(f), NEW j \in 0 .. Len(f[i + 1]), IsDirective(f, i, j),
             IsLocation(f[i + 1][j + 1]), AtRoot(old, f, i, j, Len(f[i + 1][j + 1].roots)),
             rest = DirectivesOf(f, i, j + 1)
      PROVE  n > 1 /\ CanStore(old[n - 1]) /\ Place(new, f, rest)
  <2>1. n = 4 /\ n - 1 = 3 /\ n > 1 /\ 1 \in 1 .. n - 2 /\ 2 \in 1 .. n - 2 /\ 3 \in 1 .. n
    BY <1>3 DEF AtRoot
  <2> DEFINE inner == old[4].config
             call == old[3]
             ds == f[i + 1]
             d == ds[j + 1]
  <2>2. call \in Calls(U) /\ call.args = <<d.path>> /\ call.key = "location" /\ Describes(call.config, SubSeq(ds, 1, j))
    BY <1>0, <1>3, <2>1, Zenon DEF AtRoot, InLocation
  <2>3. new[3] = Stored(call, Dict(inner)) /\ Len(new) = 3 /\ new[1] = old[1] /\ new[2] = old[2]
    BY <2>1, Zenon DEF SameCalls
  <2>4. /\ IsServer(f, i) /\ ds \in Seq(Directives) /\ d \in Directives /\ j + 1 \in 0 .. Len(ds)
        /\ d.roots \in Seq(Words) /\ j < Len(ds)
    BY <1>3, FileParts, Zenon DEF IsDirective
  <2>5. HasRoot(inner, RootOf(d.roots))
    <3>1. SubSeq(d.roots, 1, Len(d.roots)) = d.roots
      BY <2>4, AllAre, Zenon
    <3>2. Gives(inner, "root", RootArgs(d.roots))
      BY <1>3, <3>1, Zenon DEF AtRoot
    <3> QED
      BY <2>4, <3>2, RootGiven, Zenon
  <2>6. Append(SubSeq(ds, 1, j), d) = SubSeq(ds, 1, j + 1) /\ SubSeq(ds, 1, j) \in Seq(Directives)
    BY <1>3, <2>4, FirstsAppend, Zenon
  <2>7. CanStore(call) /\ Describes(Stored(call, Dict(inner)).config, Append(SubSeq(ds, 1, j), d))
    BY <1>3, <2>2, <2>4, <2>5, <2>6, LocationDescribed, Zenon
  <2>8. AtDirective(new, f, i, j + 1)
    BY <1>3, <2>3, <2>6, <2>7, Zenon DEF AtRoot, AtDirective, InLocation, InServer, InHttp
  <2> QED
    BY <1>3, <2>1, <2>4, <2>7, <2>8, Zenon DEF Place
<1> QED
  BY <1>1, <1>2, <1>3, Zenon DEF ClosesNext

\* What the innermost call has read of the directive it is in.
Read(call) == IF call.key = "" THEN <<>> ELSE Worded(call.key, call.args)

\* What comes next is a word, or the mark that the words read lead to.
LEMMA NextRead ==
    ASSUME NEW f, NEW stack, NEW words \in Seq(Words), NEW left \in Seq(Tokens),
           Comes(stack, f, Join(WordTokens(words), left))
    PROVE  /\ left # <<>>
           /\ \A t \in Tokens : \A more \in Seq(Tokens) :
                  left = Join(<<t>>, more) => t.kind = "WORD" \/ NextIs(stack, f, words, t, more)
<1> DEFINE all == Join(WordTokens(words), left)
<1>1. PICK w \in Seq(Words), x \in Marks, rest \in Seq(Tokens) :
          all = Ahead(w, x, rest) /\ NextIs(stack, f, w, x, rest)
  BY Zenon DEF Comes
<1>2. x \in Tokens /\ x.kind # "WORD"
  BY MarksAre
<1>3. left # <<>>
  <2> SUFFICES ASSUME left = <<>> PROVE FALSE
    OBVIOUS
  <2> DEFINE a == WordTokens(words)
             n == Len(w)
  <2>1. a \in Seq(Tokens) /\ Len(a) = Len(words) /\ \A i \in 1 .. Len(words) : a[i] = Word(words[i])
    BY WordTokensAre
  <2>2. all = a
    <3>1. all = Join(a, <<>>)
      OBVIOUS
    <3> HIDE DEF a, all
    <3>2. Join(a, <<>>) = a
      BY <2>1, JoinEmpty
    <3> QED
      BY <3>1, <3>2
  <2>3. Spells(Ahead(w, x, rest), n, w, x, rest)
    BY <1>2, AheadIs, Zenon
  <2>4. a = Ahead(w, x, rest)
    BY <1>1, <2>2
  <2> HIDE DEF a, n
  <2>5. Len(a) = n + 1 + Len(rest) /\ n \in Nat /\ Len(rest) \in Nat /\ a[n + 1] = x
    BY <2>3, <2>4, Zenon DEF Spells
  <2>6. n + 1 \in 1 .. Len(words)
    BY <2>1, <2>5
  <2>7. x = Word(words[n + 1])
    BY <2>1, <2>5, <2>6
  <2>8. Word(words[n + 1]).kind = "WORD"
    BY MarksAre, Zenon
  <2> QED
    BY <1>2, <2>7, <2>8
<1>4. ASSUME NEW t \in Tokens, NEW more \in Seq(Tokens), left = Join(<<t>>, more), t.kind # "WORD"
      PROVE  NextIs(stack, f, words, t, more)
  <2>1. Ahead(words, t, more) = Ahead(w, x, rest)
    BY <1>1, <1>4, Zenon DEF Ahead
  <2>2. words = w /\ t = x /\ more = rest
    BY <1>2, <1>4, <2>1, AheadIsUnique
  <2> QED
    BY <1>1, <2>2
<1> QED
  BY <1>3, <1>4

-----------------------------------------------------------------------------
(* A step of the parser at the next token of a file.                         *)

WordsOnly(call) == call.key # "" => call.key \in Words /\ call.args \in Seq(Words)
Exact(stack, f, left) ==
    /\ WordsOnly(stack[Len(stack)])
    /\ Place(stack, f, Join(WordTokens(Read(stack[Len(stack)])), left))

\* Elements before one more.
LEMMA OneMoreIsLast ==
    ASSUME NEW S, NEW s \in Seq(S), NEW x
    PROVE  /\ Len(s \o <<x>>) = Len(s) + 1 /\ (s \o <<x>>)[Len(s) + 1] = x
           /\ \A i \in 1 .. Len(s) : (s \o <<x>>)[i] = s[i]
           /\ Len(Append(s, x)) = Len(s) + 1 /\ Append(s, x)[Len(s) + 1] = x
           /\ \A i \in 1 .. Len(s) : Append(s, x)[i] = s[i]
<1> DEFINE D == S \union {x}
<1>1. s \in Seq(D) /\ x \in D
  <2>1. S \subseteq D /\ x \in D
    OBVIOUS
  <2> HIDE DEF D
  <2> QED
    BY <2>1, SequencesGrow
<1> HIDE DEF D
<1>2. /\ Len(s \o <<x>>) = Len(s) + 1
      /\ \A i \in 1 .. Len(s) : (s \o <<x>>)[i] = s[i]
      /\ Len(Append(s, x)) = Len(s) + 1
      /\ \A i \in 1 .. Len(s) : Append(s, x)[i] = s[i]
  BY <1>1, OneMoreIs
<1>3. (s \o <<x>>)[Len(s) + 1] = x
  BY <1>1
<1>4. Append(s, x)[Len(s) + 1] = x
  BY <1>1
<1> QED
  BY <1>2, <1>3, <1>4

\* The calls are some, of which the last is the innermost.
LEMMA TopIs ==
    ASSUME Nested, calls # <<>>
    PROVE  /\ Len(calls) \in Nat /\ Len(calls) > 0 /\ Top = calls[Len(calls)]
           /\ \E U : calls \in Seq(Calls(U)) /\ Top \in Calls(U)
           /\ Top.key \in Arguments /\ Top.args \in Seq(Arguments)
<1>1. PICK U : calls \in Seq(Calls(U))
  BY DEF Nested, ValuesAreRaw
<1>2. /\ Len(calls) \in Nat /\ Len(calls) > 0 /\ Top = calls[Len(calls)] /\ Top \in Calls(U)
  <2> DEFINE C == Calls(U)
  <2> HIDE DEF C
  <2>1. calls \in Seq(C)
    BY <1>1 DEF C
  <2>2. Len(calls) \in Nat /\ Len(calls) > 0 /\ Last(calls) = calls[Len(calls)] /\ Last(calls) \in C
    BY <2>1, FrontIs
  <2> QED
    BY <2>2 DEF C, Top
<1> QED
  BY <1>1, <1>2, CallIs

\* A step that changes the innermost call changes it only,
LEMMA ReplacedIs ==
    ASSUME Nested, calls # <<>>, NEW call
    PROVE  /\ Len(Replace(call)) = Len(calls) /\ SameCalls(Replace(call), calls, Len(calls) - 1)
           /\ Replace(call)[Len(calls)] = call
<1>1. PICK U : calls \in Seq(Calls(U))
  BY DEF Nested, ValuesAreRaw
<1> DEFINE C == Calls(U)
           front == Front(calls)
           n == Len(calls)
<1> HIDE DEF C
<1>2. /\ n \in Nat /\ n > 0 /\ front \in Seq(C) /\ Len(front) = n - 1
      /\ \A i \in 1 .. n - 1 : front[i] = calls[i]
  <2>1. calls \in Seq(C)
    BY <1>1 DEF C
  <2> QED
    BY <2>1, FrontIs
<1> HIDE DEF front, n
<1> DEFINE new == front \o <<call>>
<1>3. /\ Len(new) = Len(front) + 1 /\ new[Len(front) + 1] = call
      /\ \A i \in 1 .. Len(front) : new[i] = front[i]
  BY <1>2, OneMoreIsLast
<1>4. Replace(call) = new
  BY Zenon DEF Replace, front
<1> HIDE DEF new
<1>5. Len(new) = n /\ new[n] = call /\ \A i \in 1 .. n - 1 : new[i] = calls[i]
  BY <1>2, <1>3
<1> QED
  BY <1>4, <1>5, Zenon DEF n, SameCalls

\* one that opens a block adds a call,
LEMMA OpenedIs ==
    ASSUME Nested, calls # <<>>, NEW call
    PROVE  /\ Len(Append(calls, call)) = Len(calls) + 1 /\ SameCalls(Append(calls, call), calls, Len(calls))
           /\ Append(calls, call)[Len(calls) + 1] = call
<1>1. PICK U : calls \in Seq(Calls(U))
  BY DEF Nested, ValuesAreRaw
<1> DEFINE C == Calls(U)
<1> HIDE DEF C
<1>2. calls \in Seq(C)
  BY <1>1 DEF C
<1>3. /\ Len(Append(calls, call)) = Len(calls) + 1 /\ Append(calls, call)[Len(calls) + 1] = call
      /\ \A i \in 1 .. Len(calls) : Append(calls, call)[i] = calls[i]
  BY <1>2, OneMoreIsLast
<1> QED
  BY <1>3, Zenon DEF SameCalls

\* and one that closes a block takes one away and changes the one before.
LEMMA ClosedIs ==
    ASSUME Nested, Len(calls) > 1, NEW call
    PROVE  LET new == SubSeq(calls, 1, Len(calls) - 2) \o <<call>> IN
           /\ Len(new) = Len(calls) - 1 /\ SameCalls(new, calls, Len(calls) - 2)
           /\ new[Len(calls) - 1] = call
<1>1. PICK U : calls \in Seq(Calls(U))
  BY DEF Nested, ValuesAreRaw
<1> DEFINE C == Calls(U)
           n == Len(calls)
           m == n - 2
           a == SubSeq(calls, 1, m)
           new == a \o <<call>>
<1> HIDE DEF C
<1>2. calls \in Seq(C) /\ n \in Nat /\ n > 1
  BY <1>1 DEF C
<1> HIDE DEF n
<1>3. m \in 0 .. n /\ m + 1 = n - 1 /\ m \in Nat
  BY <1>2
<1> HIDE DEF m
<1>4. a \in Seq(C) /\ Len(a) = m /\ \A i \in 1 .. m : a[i] = calls[i]
  BY <1>2, <1>3, FirstsAre DEF n
<1> HIDE DEF a
<1>5. Len(new) = m + 1 /\ new[m + 1] = call /\ \A i \in 1 .. m : new[i] = a[i]
  BY <1>4, OneMoreIsLast
<1> HIDE DEF new
<1>6. Len(new) = n - 1 /\ SameCalls(new, calls, m) /\ new[n - 1] = call
  BY <1>3, <1>4, <1>5 DEF SameCalls
<1> QED
  BY <1>6, Zenon DEF new, a, m, n

\* A word more is read.
LEMMA ReadOn ==
    ASSUME NEW words \in Seq(Words), NEW v \in Words, NEW more \in Seq(Tokens)
    PROVE  Join(WordTokens(words), Join(<<Word(v)>>, more)) = Join(WordTokens(Append(words, v)), more)
<1> DEFINE a == WordTokens(words)
           b == <<Word(v)>>
           u == WordTokens(Append(words, v))
           n == Len(words)
<1>1. a \in Seq(Tokens) /\ Len(a) = n /\ n \in Nat /\ \A i \in 1 .. n : a[i] = Word(words[i])
  BY WordTokensAre
<1>2. b \in Seq(Tokens) /\ Len(b) = 1 /\ b[1] = Word(v)
  BY LexemeIs
<1>3. /\ Append(words, v) \in Seq(Words) /\ Len(Append(words, v)) = n + 1
      /\ \A i \in 1 .. n : Append(words, v)[i] = words[i]
      /\ Append(words, v)[n + 1] = v
  BY OneMoreIs, OneMoreIsLast
<1> DEFINE w == Append(words, v)
<1> HIDE DEF w
<1>4. WordTokens(w) \in Seq(Tokens) /\ Len(WordTokens(w)) = n + 1 /\ \A i \in 1 .. n + 1 : WordTokens(w)[i] = Word(w[i])
  <2>1. w \in Seq(Words) /\ Len(w) = n + 1
    BY <1>3 DEF w
  <2>2. WordTokens(w) \in Seq(Tokens) /\ Len(WordTokens(w)) = Len(w)
    BY <2>1, WordTokensAre
  <2>3. \A i \in 1 .. Len(w) : WordTokens(w)[i] = Word(w[i])
    BY <2>1, WordTokensAre
  <2> QED
    BY <2>1, <2>2, <2>3
<1>5. /\ u \in Seq(Tokens) /\ Len(u) = n + 1 /\ \A i \in 1 .. n : u[i] = Word(words[i])
      /\ u[n + 1] = Word(v)
  <2>1. \A i \in 1 .. n : i \in 1 .. n + 1
    BY <1>1
  <2>2. n + 1 \in 1 .. n + 1
    BY <1>1
  <2>3. \A i \in 1 .. n : w[i] = words[i]
    BY <1>3, Zenon DEF w
  <2>4. w[n + 1] = v
    BY <1>3, Zenon DEF w
  <2>5. \A i \in 1 .. n : WordTokens(w)[i] = Word(words[i])
    BY <1>4, <2>1, <2>3, Zenon
  <2>6. WordTokens(w)[n + 1] = Word(v)
    BY <1>4, <2>2, <2>4, Zenon
  <2> QED
    BY <1>4, <2>5, <2>6, Zenon DEF w
<1> HIDE DEF a, b, u, n
<1>6. /\ Join(a, b) \in Seq(Tokens) /\ Len(Join(a, b)) = n + 1
      /\ \A i \in 1 .. n + 1 : Join(a, b)[i] = IF i <= n THEN a[i] ELSE b[i - n]
  <2>1. Join(a, b) \in Seq(Tokens) /\ Len(Join(a, b)) = Len(a) + Len(b)
    BY <1>1, <1>2, JoinIs
  <2>2. \A i \in 1 .. Len(a) + Len(b) : Join(a, b)[i] = IF i <= Len(a) THEN a[i] ELSE b[i - Len(a)]
    BY <1>1, <1>2, JoinIs
  <2> QED
    BY <1>1, <1>2, <2>1, <2>2, Zenon
<1>7. Join(a, b) = u
  <2> DEFINE c == Join(a, b)
  <2> HIDE DEF c
  <2>1. /\ c \in Seq(Tokens) /\ Len(c) = n + 1
        /\ \A i \in 1 .. n + 1 : c[i] = IF i <= n THEN a[i] ELSE b[i - n]
    BY <1>6 DEF c
  <2>2. \A i \in 1 .. n + 1 : c[i] = u[i]
    BY <1>1, <1>2, <1>5, <2>1
  <2>3. c = u
    BY <1>5, <2>1, <2>2, SeqEqual
  <2> QED
    BY <2>3 DEF c
<1>8. Join(Join(a, b), more) = Join(a, Join(b, more))
  BY <1>1, <1>2, JoinOnce
<1> QED
  BY <1>7, <1>8 DEF a, b, u

\* A name and its arguments with one more of them.
LEMMA WordedOn ==
    ASSUME NEW S, NEW w \in S, NEW args \in Seq(S), NEW v \in S
    PROVE  Worded(w, Append(args, v)) = Append(Worded(w, args), v)
<1> DEFINE a == <<w>> \o Append(args, v)
           c == <<w>> \o args
           b == Append(c, v)
           n == Len(args)
<1>1. n \in Nat /\ Append(args, v) \in Seq(S) /\ Len(Append(args, v)) = n + 1
      /\ (\A i \in 1 .. n : Append(args, v)[i] = args[i]) /\ Append(args, v)[n + 1] = v
  BY OneMoreIs, OneMoreIsLast
<1> DEFINE d == Append(args, v)
<1> HIDE DEF d
<1>2. d \in Seq(S) /\ Len(d) = n + 1 /\ (\A i \in 1 .. n : d[i] = args[i]) /\ d[n + 1] = v
  BY <1>1 DEF d
<1>3. <<w>> \o d \in Seq(S) /\ Len(<<w>> \o d) = n + 2 /\ (<<w>> \o d)[1] = w
      /\ \A i \in 1 .. n + 1 : (<<w>> \o d)[i + 1] = d[i]
  BY <1>1, <1>2
<1>4. c \in Seq(S) /\ Len(c) = n + 1 /\ c[1] = w /\ \A i \in 1 .. n : c[i + 1] = args[i]
  BY <1>1
<1>5. a = <<w>> \o d
  BY Zenon DEF d
<1> HIDE DEF a, c, n
<1>6. b \in Seq(S) /\ Len(b) = n + 2 /\ (\A i \in 1 .. n + 1 : b[i] = c[i]) /\ b[n + 2] = v
  <2>1. b \in Seq(S) /\ Len(b) = Len(c) + 1 /\ \A i \in 1 .. Len(c) : b[i] = c[i]
    BY <1>4, OneMoreIs
  <2>2. b[Len(c) + 1] = v
    BY <1>4, OneMoreIsLast
  <2> HIDE DEF b
  <2>3. Len(c) = n + 1 /\ Len(c) + 1 = n + 2
    BY <1>1, <1>4
  <2> QED
    BY <2>1, <2>2, <2>3
<1> HIDE DEF b
<1>7. \A i \in 1 .. n + 2 : a[i] = b[i]
  <2> SUFFICES ASSUME NEW i \in 1 .. n + 2 PROVE a[i] = b[i]
    OBVIOUS
  <2>1. CASE i = 1
    <3>1. 1 \in 1 .. n + 1
      BY <1>1
    <3> QED
      BY <1>3, <1>4, <1>5, <1>6, <2>1, <3>1
  <2>2. CASE i = n + 2
    <3>1. n + 1 \in 1 .. n + 1 /\ (n + 1) + 1 = n + 2
      BY <1>1
    <3>2. a[n + 2] = d[n + 1]
      BY <1>3, <1>5, <3>1
    <3> QED
      BY <1>2, <1>6, <2>2, <3>2
  <2>3. CASE i # 1 /\ i # n + 2
    <3>1. i - 1 \in 1 .. n /\ i - 1 \in 1 .. n + 1 /\ (i - 1) + 1 = i /\ i \in 1 .. n + 1
      BY <1>1, <2>3
    <3>2. a[i] = d[i - 1]
      BY <1>3, <1>5, <3>1
    <3>3. b[i] = c[i] /\ c[i] = args[i - 1] /\ d[i - 1] = args[i - 1]
      BY <1>2, <1>4, <1>6, <3>1
    <3> QED
      BY <3>2, <3>3
  <2> QED
    BY <2>1, <2>2, <2>3
<1>8. a \in Seq(S) /\ Len(a) = n + 2
  BY <1>3, <1>5
<1>9. a = b
  BY <1>6, <1>7, <1>8, SeqEqual
<1> QED
  BY <1>9, Zenon DEF Worded, a, b, c

\* What a call has read when it reads a word more.
LEMMA ReadIs ==
    /\ \A call : call.key = "" => Read(call) = <<>>
    /\ \A call : call.key # "" => Read(call) = Worded(call.key, call.args)
    /\ \A call : WordsOnly(call) => Read(call) \in Seq(Words)
    /\ \A v \in Words : Worded(v, <<>>) = Append(<<>>, v)
    /\ \A w \in Words : \A args \in Seq(Words) : \A v \in Words :
           Worded(w, Append(args, v)) = Append(Worded(w, args), v)
    /\ WordTokens(<<>>) = <<>>
<1>1. /\ \A call : call.key = "" => Read(call) = <<>>
      /\ \A call : call.key # "" => Read(call) = Worded(call.key, call.args)
  BY DEF Read
<1>2. \A call : WordsOnly(call) => Read(call) \in Seq(Words)
  <2>1. <<>> \in Seq(Words)
    OBVIOUS
  <2> QED
    BY <1>1, <2>1, FewWordsAre, Zenon DEF WordsOnly
<1>3. \A v \in Words : Worded(v, <<>>) = Append(<<>>, v)
  <2>1. \A v : Append(<<>>, v) = <<v>>
    OBVIOUS
  <2> QED
    BY <2>1, WordedIs
<1>4. ASSUME NEW w \in Words, NEW args \in Seq(Words), NEW v \in Words
      PROVE  Worded(w, Append(args, v)) = Append(Worded(w, args), v)
  BY WordedOn
<1>5. WordTokens(<<>>) = <<>>
  <2>1. <<>> \in Seq(Words)
    OBVIOUS
  <2> QED
    BY <2>1, WordTokensAre, Zenon
<1> QED
  BY <1>1, <1>2, <1>3, <1>4, <1>5, Zenon

\* A file is read as far as it is left.
LEMMA ExactIs ==
    ASSUME NEW f \in Seq(Seq(Directives)), NEW stack, NEW left \in Seq(Tokens), Exact(stack, f, left)
    PROVE  LET words == Read(stack[Len(stack)]) IN
           /\ words \in Seq(Words)
           /\ left = <<>> => AtEnd(stack, f) /\ stack[Len(stack)].key = ""
           /\ \A t \in Tokens : \A more \in Seq(Tokens) :
                  left = Join(<<t>>, more) => t.kind = "WORD" \/ NextIs(stack, f, words, t, more)
<1> DEFINE words == Read(stack[Len(stack)])
           all == Join(WordTokens(words), left)
<1>1. words \in Seq(Words) /\ Place(stack, f, all)
  BY ReadIs, Zenon DEF Exact
<1>2. \/ AtEnd(stack, f) /\ all = <<>>
      \/ Comes(stack, f, all)
  BY <1>1, PlaceIs, Zenon
<1>3. ASSUME Comes(stack, f, all)
      PROVE  /\ left # <<>>
             /\ \A t \in Tokens : \A more \in Seq(Tokens) :
                    left = Join(<<t>>, more) => t.kind = "WORD" \/ NextIs(stack, f, words, t, more)
  BY <1>1, <1>3, NextRead, Zenon
<1>4. ASSUME all = <<>>
      PROVE  \A t \in Tokens : \A more \in Seq(Tokens) : left # Join(<<t>>, more)
  <2> SUFFICES ASSUME NEW t \in Tokens, NEW more \in Seq(Tokens), left = Join(<<t>>, more) PROVE FALSE
    OBVIOUS
  <2>1. all = Ahead(words, t, more)
    BY Zenon DEF Ahead
  <2>2. Spells(Ahead(words, t, more), Len(words), words, t, more)
    BY <1>1, AheadIs, Zenon
  <2> HIDE DEF words, all
  <2>3. all \in Seq(Tokens) /\ Len(all) = Len(words) + 1 + Len(more) /\ Len(words) \in Nat /\ Len(more) \in Nat
    BY <2>1, <2>2, Zenon DEF Spells
  <2>4. Len(all) = 0
    BY <1>4
  <2> DEFINE n == Len(words)
             m == Len(more)
  <2>5. n + 1 + m = 0 /\ n \in Nat /\ m \in Nat
    BY <2>3, <2>4, Zenon
  <2> HIDE DEF n, m
  <2> QED
    BY <2>5
<1>5. ASSUME all = <<>>, left = <<>> PROVE stack[Len(stack)].key = ""
  <2> DEFINE a == WordTokens(words)
             n == Len(words)
  <2>1. a \in Seq(Tokens) /\ Len(a) = n /\ n \in Nat
    BY <1>1, WordTokensAre, Zenon
  <2>2. all = Join(a, <<>>)
    BY <1>5
  <2> HIDE DEF a, all, words
  <2>3. Join(a, <<>>) = a
    BY <2>1, JoinEmpty
  <2>4. words = <<>>
    <3>1. Len(a) = 0
      BY <1>5, <2>2, <2>3
    <3>2. words \in Seq(Words) /\ Len(words) = 0
      BY <1>1, <2>1, <3>1
    <3> QED
      BY <3>2
  <2> QED
    BY <2>4, ReadIs, FewWordsAre, Zenon DEF words, Exact, WordsOnly
<1> QED
  BY <1>1, <1>2, <1>3, <1>4, <1>5, Zenon

\* The parser is at a token of a file, and what is left is what the file says.
ReadsToken(f, t, more) ==
    /\ Nested /\ result = Pending /\ calls # <<>>
    /\ pos <= Len(tokens) /\ tokens[pos] = t /\ t \in Tokens /\ more \in Seq(Tokens)
    /\ Exact(calls, f, Join(<<t>>, more))
Goes(f, more) ==
    Exact(calls', f, more) /\ calls' # <<>> /\ pos' = pos + 1 /\ result' = Pending /\ tokens' = tokens

\* A token is a word or a mark, and which one tells what has been read.
LEMMA AtToken ==
    ASSUME NEW f \in Seq(Seq(Directives)), NEW t, NEW more, ReadsToken(f, t, more)
    PROVE  /\ Kind = t.kind /\ Value = t.value /\ After = pos + 1
           /\ Read(Top) \in Seq(Words) /\ WordsOnly(Top)
           /\ Place(calls, f, Join(WordTokens(Read(Top)), Join(<<t>>, more)))
           /\ t.kind = "WORD" => t.value \in Words /\ t = Word(t.value)
           /\ t.kind # "WORD" => NextIs(calls, f, Read(Top), t, more) /\ t.kind # "STRING" /\ t.kind # "END"
<1>1. /\ Typed /\ calls # <<>> /\ pos <= Len(tokens) /\ tokens[pos] = t /\ t \in Tokens
      /\ more \in Seq(Tokens) /\ Exact(calls, f, Join(<<t>>, more)) /\ Nested
  BY DEF ReadsToken, Nested
<1>2. Kind = t.kind /\ Value = t.value /\ After = pos + 1
  BY <1>1, TokenIs DEF Value
<1>3. Top = calls[Len(calls)]
  BY <1>1, TopIs, Zenon
<1>4. Join(<<t>>, more) \in Seq(Tokens)
  <2> DEFINE a == <<t>>
  <2>1. a \in Seq(Tokens) /\ more \in Seq(Tokens)
    BY <1>1
  <2> HIDE DEF a
  <2>2. Join(a, more) \in Seq(Tokens)
    BY <2>1, JoinIs
  <2> QED
    BY <2>2 DEF a
<1>5. /\ Read(Top) \in Seq(Words)
      /\ t.kind = "WORD" \/ NextIs(calls, f, Read(Top), t, more)
  BY <1>1, <1>3, <1>4, ExactIs, Zenon
<1>6. ASSUME t.kind = "WORD" PROVE t.value \in Words /\ t = Word(t.value)
  <2>1. t.value \in Words
    BY <1>1, <1>2, <1>6, TokenIs
  <2>2. t \in Lexemes
    BY <1>1, LexemeIs, Zenon
  <2>3. t \in [kind : {"WORD"}, value : Words]
    <3>1. CASE t \in {LBrace, RBrace, Semicolon}
      BY <1>6, <3>1, MarksAre
    <3>2. CASE t \in [kind : {"STRING"}, value : Arguments]
      BY <1>6, <3>2
    <3>3. CASE t \in [kind : {"COMMENT", "WHITESPACE", "OTHER"}, value : STRING]
      BY <1>6, <3>3
    <3> QED
      BY <2>2, <3>1, <3>2, <3>3, Zenon DEF Lexemes
  <2>4. t = [kind |-> "WORD", value |-> t.value]
    BY <2>3
  <2> QED
    BY <2>1, <2>4, Zenon DEF Word, Lexeme
<1>7. ASSUME t.kind # "WORD" PROVE t.kind # "STRING" /\ t.kind # "END"
  <2>1. t \in Marks
    <3>1. NextIs(calls, f, Read(Top), t, more)
      BY <1>5, <1>7
    <3>2. t = LBrace \/ t = RBrace \/ t = Semicolon
      BY <3>1, Zenon DEF NextIs
    <3> QED
      BY <3>2 DEF Marks
  <2> QED
    BY <2>1, MarksAre
<1>8. WordsOnly(Top) /\ Place(calls, f, Join(WordTokens(Read(Top)), Join(<<t>>, more)))
  BY <1>1, <1>3, Zenon DEF Exact
<1> QED
  BY <1>2, <1>5, <1>6, <1>7, <1>8, Zenon

\* A word is read as a name or as an argument.
LEMMA WordRead ==
    ASSUME NEW f \in Seq(Seq(Directives)), NEW t, NEW more, ReadsToken(f, t, more), t.kind = "WORD",
           NEW call, call.config = Top.config, WordsOnly(call), call.key # "",
           Worded(call.key, call.args) = Append(Read(Top), t.value)
    PROVE  Exact(Replace(call), f, more)
<1> DEFINE n == Len(calls)
           new == Replace(call)
<1>1. Nested /\ calls # <<>> /\ more \in Seq(Tokens)
  BY DEF ReadsToken
<1>2. Len(new) = n /\ SameCalls(new, calls, n - 1) /\ new[n] = call
  BY <1>1, ReplacedIs, Zenon
<1>3. Top = calls[n]
  BY <1>1, TopIs, Zenon
<1>4. /\ t.value \in Words /\ t = Word(t.value) /\ Read(Top) \in Seq(Words)
      /\ Place(calls, f, Join(WordTokens(Read(Top)), Join(<<t>>, more)))
  BY AtToken, Zenon
<1>5. Join(WordTokens(Read(Top)), Join(<<t>>, more)) = Join(WordTokens(Append(Read(Top), t.value)), more)
  BY <1>1, <1>4, ReadOn, Zenon
<1>6. Read(call) = Append(Read(Top), t.value)
  BY ReadIs, Zenon
<1>7. Place(calls, f, Join(WordTokens(Read(call)), more))
  BY <1>4, <1>5, <1>6, Zenon
<1>8. Place(new, f, Join(WordTokens(Read(call)), more))
  BY <1>2, <1>3, <1>7, SamePlace, Zenon
<1> QED
  BY <1>2, <1>8, Zenon DEF Exact

\* With nothing read of a directive, what is left is what is ahead.
LEMMA ExactBetween ==
    ASSUME NEW f, NEW stack, NEW more \in Seq(Tokens), stack[Len(stack)].key = "", Place(stack, f, more)
    PROVE  Exact(stack, f, more)
<1> DEFINE call == stack[Len(stack)]
<1>1. Read(call) = <<>> /\ WordsOnly(call) /\ WordTokens(<<>>) = <<>>
  BY ReadIs, Zenon DEF WordsOnly
<1>2. Join(<<>>, more) = more
  BY JoinEmpty
<1> QED
  BY <1>1, <1>2, Zenon DEF Exact

\* Every step of the parser there reads the token as the file means it.
LEMMA ReadNameGoes ==
    ASSUME NEW f \in Seq(Seq(Directives)), NEW t, NEW more, ReadsToken(f, t, more), ReadName
    PROVE  Goes(f, more)
<1> DEFINE call == [Top EXCEPT !.key = Value, !.args = <<>>]
<1>1. /\ Top.key = "" /\ Kind = "WORD" /\ calls' = Replace(call) /\ pos' = After
      /\ tokens' = tokens /\ result' = result
  BY DEF ReadName, ReadingName
<1>2. /\ Kind = t.kind /\ Value = t.value /\ After = pos + 1
      /\ t.kind = "WORD" => t.value \in Words
  BY AtToken, Zenon
<1>3. Nested /\ calls # <<>> /\ result = Pending
  BY DEF ReadsToken
<1>4. call.config = Top.config /\ call.key = t.value /\ call.args = <<>>
  <2>1. PICK U : Top \in Calls(U)
    BY <1>3, TopIs, Zenon
  <2> DEFINE D == Dicts(U)
             A == Seq(Arguments)
  <2> HIDE DEF D, A
  <2>2. Top \in [config : D, key : Arguments, args : A]
    BY <2>1, Zenon DEF Calls, D, A
  <2> QED
    BY <1>2, <2>2
<1> HIDE DEF call
<1>5. t.value \in Words /\ t.value # ""
  BY <1>1, <1>2, Assumed
<1>6. WordsOnly(call)
  <2>1. <<>> \in Seq(Words)
    OBVIOUS
  <2> QED
    BY <1>4, <1>5, <2>1, Zenon DEF WordsOnly
<1>7. Worded(call.key, call.args) = Append(Read(Top), t.value)
  BY <1>1, <1>4, <1>5, ReadIs, Zenon
<1>8. Exact(Replace(call), f, more)
  BY <1>1, <1>2, <1>4, <1>5, <1>6, <1>7, WordRead, Zenon
<1>9. calls' # <<>>
  BY <1>1, <1>3, ReadNameNested, CallsGoOn
<1> QED
  BY <1>1, <1>2, <1>3, <1>8, <1>9, Zenon DEF Goes

\* So does an argument,
LEMMA ReadArgumentGoes ==
    ASSUME NEW f \in Seq(Seq(Directives)), NEW t, NEW more, ReadsToken(f, t, more), ReadArgument
    PROVE  Goes(f, more)
<1> DEFINE call == [Top EXCEPT !.args = Append(@, Value)]
<1>1. /\ Top.key # "" /\ Kind \in {"WORD", "STRING"} /\ calls' = Replace(call) /\ pos' = After
      /\ tokens' = tokens /\ result' = result
  BY DEF ReadArgument, ReadingArgs
<1>2. /\ Kind = t.kind /\ Value = t.value /\ After = pos + 1
      /\ t.kind = "WORD" => t.value \in Words
      /\ t.kind # "WORD" => t.kind # "STRING"
      /\ WordsOnly(Top)
  BY AtToken, Zenon
<1>3. Nested /\ calls # <<>> /\ result = Pending
  BY DEF ReadsToken
<1>4. call.config = Top.config /\ call.key = Top.key /\ call.args = Append(Top.args, t.value)
  <2>1. PICK U : Top \in Calls(U)
    BY <1>3, TopIs, Zenon
  <2> DEFINE D == Dicts(U)
             A == Seq(Arguments)
  <2> HIDE DEF D, A
  <2>2. Top \in [config : D, key : Arguments, args : A]
    BY <2>1, Zenon DEF Calls, D, A
  <2> QED
    BY <1>2, <2>2
<1> HIDE DEF call
<1>5. t.kind = "WORD" /\ t.value \in Words
  BY <1>1, <1>2
<1>6. Top.key \in Words /\ Top.args \in Seq(Words)
  BY <1>1, <1>2, Zenon DEF WordsOnly
<1>7. WordsOnly(call)
  <2>1. Append(Top.args, t.value) \in Seq(Words)
    BY <1>5, <1>6
  <2> QED
    BY <1>4, <1>6, <2>1, Zenon DEF WordsOnly
<1>8. Worded(call.key, call.args) = Append(Read(Top), t.value)
  <2>1. Read(Top) = Worded(Top.key, Top.args)
    BY <1>1, ReadIs, Zenon
  <2>2. Worded(Top.key, Append(Top.args, t.value)) = Append(Worded(Top.key, Top.args), t.value)
    BY <1>5, <1>6, ReadIs, Zenon
  <2> QED
    BY <1>4, <2>1, <2>2, Zenon
<1>9. Exact(Replace(call), f, more)
  BY <1>1, <1>4, <1>5, <1>7, <1>8, WordRead, Zenon
<1>10. calls' # <<>>
  BY <1>3, ReadArgumentNested, CallsGoOn
<1> QED
  BY <1>1, <1>2, <1>3, <1>9, <1>10, Zenon DEF Goes

\* the end of a directive,
LEMMA EndDirectiveGoes ==
    ASSUME NEW f \in Seq(Seq(Directives)), NEW t, NEW more, ReadsToken(f, t, more), EndDirective
    PROVE  Goes(f, more)
<1> DEFINE config == AppendRepeated(Top.config, Top.key, Args(Top.args))
           call == [Top EXCEPT !.config = config, !.key = ""]
           n == Len(calls)
           new == Replace(call)
<1>1. /\ Top.key # "" /\ Kind = "SEMICOLON" /\ calls' = new /\ pos' = After
      /\ tokens' = tokens /\ result' = result
  BY DEF EndDirective, EndsDirective, ReadingArgs
<1>2. /\ Kind = t.kind /\ After = pos + 1
      /\ t.kind # "WORD" => NextIs(calls, f, Read(Top), t, more)
      /\ WordsOnly(Top)
  BY AtToken, Zenon
<1>3. Nested /\ calls # <<>> /\ result = Pending /\ more \in Seq(Tokens)
  BY DEF ReadsToken
<1>4. Ends(calls, f, Read(Top), more)
  <2>1. t.kind = "SEMICOLON" /\ NextIs(calls, f, Read(Top), t, more)
    BY <1>1, <1>2
  <2>2. t # LBrace /\ t # RBrace
    BY <2>1, MarksAre
  <2> QED
    BY <2>1, <2>2, Zenon DEF NextIs
<1>5. Top.key \in Words /\ Top.args \in Seq(Words) /\ Read(Top) = Worded(Top.key, Top.args)
  BY <1>1, <1>2, ReadIs, Zenon DEF WordsOnly
<1>6. call.config = config /\ call.key = ""
  <2>1. PICK U : Top \in Calls(U)
    BY <1>3, TopIs, Zenon
  <2> DEFINE D == Dicts(U)
             A == Seq(Arguments)
  <2> HIDE DEF D, A, config
  <2>2. Top \in [config : D, key : Arguments, args : A]
    BY <2>1, Zenon DEF Calls, D, A
  <2> QED
    BY <2>2
<1>7. Top = calls[n]
  BY <1>3, TopIs, Zenon
<1>8. Len(new) = n /\ SameCalls(new, calls, n - 1) /\ new[n] = call
  <2> HIDE DEF call
  <2> QED
    BY <1>3, ReplacedIs, Zenon
<1> HIDE DEF call
<1>9. Place(new, f, more)
  <2>1. new[n].config = AppendRepeated(calls[n].config, Top.key, Args(Top.args))
    BY <1>6, <1>7, <1>8, Zenon
  <2>2. Ends(calls, f, Worded(Top.key, Top.args), more)
    BY <1>4, <1>5, Zenon
  <2> QED
    BY <1>5, <1>8, <2>1, <2>2, EndStep, Zenon
<1>10. Exact(new, f, more)
  <2>1. new[Len(new)].key = ""
    BY <1>6, <1>8, Zenon
  <2> HIDE DEF new
  <2> QED
    BY <1>3, <1>9, <2>1, ExactBetween, Zenon
<1>11. calls' # <<>>
  BY <1>3, EndDirectiveNested, CallsGoOn
<1> QED
  BY <1>1, <1>2, <1>3, <1>10, <1>11, Zenon DEF Goes

\* a brace that opens a block,
LEMMA OpenBlockGoes ==
    ASSUME NEW f \in Seq(Seq(Directives)), NEW t, NEW more, ReadsToken(f, t, more), OpenBlock
    PROVE  Goes(f, more)
<1> DEFINE n == Len(calls)
           new == Append(calls, Call)
<1>1. /\ Top.key # "" /\ Kind = "LBRACE" /\ calls' = new /\ pos' = After
      /\ tokens' = tokens /\ result' = result
  BY DEF OpenBlock, ReadingArgs
<1>2. /\ Kind = t.kind /\ After = pos + 1
      /\ t.kind # "WORD" => NextIs(calls, f, Read(Top), t, more)
      /\ WordsOnly(Top)
  BY AtToken, Zenon
<1>3. Nested /\ calls # <<>> /\ result = Pending /\ more \in Seq(Tokens)
  BY DEF ReadsToken
<1>4. Opens(calls, f, Read(Top), more)
  <2>1. t.kind = "LBRACE" /\ NextIs(calls, f, Read(Top), t, more)
    BY <1>1, <1>2
  <2>2. t # Semicolon /\ t # RBrace
    BY <2>1, MarksAre
  <2> QED
    BY <2>1, <2>2, Zenon DEF NextIs
<1>5. Top.key \in Words /\ Top.args \in Seq(Words) /\ Read(Top) = Worded(Top.key, Top.args)
  BY <1>1, <1>2, ReadIs, Zenon DEF WordsOnly
<1>6. Call.config = Empty /\ Call.key = ""
  BY DEF Call
<1>7. Top = calls[n]
  BY <1>3, TopIs, Zenon
<1>8. Len(new) = n + 1 /\ SameCalls(new, calls, n) /\ new[n + 1] = Call
  BY <1>3, OpenedIs, Zenon
<1>9. Place(new, f, more)
  <2>1. calls[n].key = Top.key /\ calls[n].args = Top.args /\ new[n + 1].config = Empty
    BY <1>6, <1>7, <1>8, Zenon
  <2>2. Opens(calls, f, Worded(Top.key, Top.args), more)
    BY <1>4, <1>5, Zenon
  <2> QED
    BY <1>5, <1>8, <2>1, <2>2, OpenStep, Zenon
<1>10. Exact(new, f, more)
  <2>1. new[Len(new)].key = ""
    BY <1>6, <1>8, Zenon
  <2> HIDE DEF new
  <2> QED
    BY <1>3, <1>9, <2>1, ExactBetween, Zenon
<1>11. calls' # <<>>
  <2>1. Nested' /\ Len(calls') = Len(calls) + 1
    BY <1>3, OpenBlockNested
  <2> QED
    BY <1>3, <2>1, CallsGoOn
<1> QED
  BY <1>1, <1>2, <1>3, <1>10, <1>11, Zenon DEF Goes

\* (where a block closes the file closes one, and there is one to close)
LEMMA ClosesNextIs ==
    ASSUME NEW f \in Seq(Seq(Directives)), NEW t, NEW more, ReadsToken(f, t, more), Closes
    PROVE  /\ ClosesNext(calls, f, more) /\ Len(calls) # 1
           /\ After = pos + 1 /\ result = Pending /\ Nested /\ more \in Seq(Tokens)
<1>1. Top.key = "" /\ Kind \in {"RBRACE", "END"}
  BY DEF Closes, ReadingName
<1>2. /\ Kind = t.kind /\ After = pos + 1
      /\ t.kind # "WORD" => NextIs(calls, f, Read(Top), t, more) /\ t.kind # "END"
  BY AtToken, Zenon
<1>3. t.kind = "RBRACE" /\ NextIs(calls, f, Read(Top), t, more)
  BY <1>1, <1>2
<1>4. t # LBrace /\ t # Semicolon
  BY <1>3, MarksAre
<1>5. ClosesNext(calls, f, more)
  BY <1>3, <1>4, Zenon DEF NextIs
<1>6. Len(calls) = 2 \/ Len(calls) = 3 \/ Len(calls) = 4
  BY <1>5, Zenon DEF ClosesNext, AtServer, AtDirective, AtRoot
<1>7. Len(calls) # 1
  <2> DEFINE n == Len(calls)
  <2>1. n = 2 \/ n = 3 \/ n = 4
    BY <1>6
  <2> HIDE DEF n
  <2>2. n # 1
    BY <2>1
  <2> QED
    BY <2>2 DEF n
<1> QED
  BY <1>2, <1>5, <1>7, Zenon DEF ReadsToken

\* and a brace that closes one.
LEMMA CloseBlockGoes ==
    ASSUME NEW f \in Seq(Seq(Directives)), NEW t, NEW more, ReadsToken(f, t, more), CloseBlock
    PROVE  Goes(f, more)
<1> DEFINE n == Len(calls)
           outer == calls[n - 1]
           call == Stored(outer, Dict(Top.config))
           new == SubSeq(calls, 1, n - 2) \o <<call>>
<1>1. /\ n > 1
      /\ IF CanStore(outer) THEN calls' = new /\ pos' = After /\ tokens' = tokens /\ result' = result ELSE Refuse
  BY DEF CloseBlock
<1>2. /\ ClosesNext(calls, f, more) /\ After = pos + 1 /\ result = Pending /\ Nested /\ more \in Seq(Tokens)
  <2>1. Closes
    BY DEF CloseBlock
  <2> QED
    BY <2>1, ClosesNextIs, Zenon
<1>3. Len(new) = n - 1 /\ SameCalls(new, calls, n - 2) /\ new[n - 1] = call
  <2> HIDE DEF call
  <2> QED
    BY <1>1, <1>2, ClosedIs, Zenon
<1>4. PICK U : calls \in Seq(Calls(U))
  BY <1>2 DEF Nested, ValuesAreRaw
<1>5. calls # <<>>
  BY DEF ReadsToken
<1>6. Top = calls[n]
  BY <1>2, <1>5, TopIs, Zenon
<1>7. CanStore(outer) /\ Place(new, f, more)
  <2>1. new[n - 1] = Stored(calls[n - 1], Dict(calls[n].config))
    BY <1>3, <1>6, Zenon
  <2> HIDE DEF new
  <2> QED
    BY <1>2, <1>3, <1>4, <2>1, CloseStep, Zenon
<1>8. calls' = new /\ pos' = After /\ tokens' = tokens /\ result' = result
  BY <1>1, <1>7, Zenon
<1>9. call.key = ""
  <2> DEFINE nested == Dict(Top.config)
             a == calls[n - 1]
  <2>1. a \in Calls(U)
    <3> DEFINE C == Calls(U)
    <3> HIDE DEF C
    <3>1. calls \in Seq(C) /\ Len(calls) > 1
      BY <1>1, <1>4 DEF C
    <3>2. a \in C
      BY <3>1
    <3> QED
      BY <3>2 DEF C
  <2> HIDE DEF nested, a
  <2>2. Stored(a, nested).key = ""
    <3> DEFINE D == Dicts(U)
               A == Seq(Arguments)
    <3> HIDE DEF D, A
    <3>1. a \in [config : D, key : Arguments, args : A]
      BY <2>1, Zenon DEF Calls, D, A
    <3>2. \E config : Stored(a, nested) = [a EXCEPT !.config = config, !.key = ""]
      BY Zenon DEF Stored
    <3> QED
      BY <3>1, <3>2
  <2> QED
    BY <2>2, Zenon DEF a, nested
<1>10. Exact(new, f, more)
  <2>1. new[Len(new)].key = ""
    BY <1>3, <1>9, Zenon
  <2> HIDE DEF new
  <2> QED
    BY <1>2, <1>7, <2>1, ExactBetween, Zenon
<1>11. calls' # <<>>
  <2>1. n - 1 > 0 /\ Len(calls') = n - 1
    BY <1>1, <1>2, <1>3, <1>5, <1>8, TopIs
  <2>2. calls' # <<>>
    <3>1. Len(<<>>) = 0
      OBVIOUS
    <3> QED
      BY <2>1, <3>1
  <2> QED
    BY <2>2
<1> QED
  BY <1>2, <1>8, <1>10, <1>11, Zenon DEF Goes

\* None is refused, and the parse does not end.
LEMMA NoErrorGoes ==
    ASSUME NEW f \in Seq(Seq(Directives)), NEW t, NEW more, ReadsToken(f, t, more)
    PROVE  ~SyntaxError /\ ~FinishParse /\ ~Convert
<1>1. ~FinishParse
  <2> SUFFICES ASSUME FinishParse PROVE FALSE
    OBVIOUS
  <2>1. Closes /\ Len(calls) = 1
    BY DEF FinishParse
  <2> QED
    BY <2>1, ClosesNextIs, Zenon
<1>2. ~Convert
  BY DEF Convert, ReadsToken
<1>3. ~SyntaxError
  <2> SUFFICES ASSUME SyntaxError PROVE FALSE
    OBVIOUS
  <2> DEFINE words == Read(Top)
  <2>1. /\ Kind = t.kind
        /\ t.kind = "WORD" \/ NextIs(calls, f, words, t, more)
        /\ t.kind # "WORD" => t.kind # "END"
        /\ WordsOnly(Top)
    BY AtToken, Zenon
  <2>2. /\ Top.key = "" => words = <<>>
        /\ Top.key # "" => words = Worded(Top.key, Top.args)
    BY ReadIs, Zenon
  <2> HIDE DEF words
  <2>3. CASE Top.key = "" /\ Kind \notin {"WORD", "RBRACE", "END"}
    <3>1. NextIs(calls, f, words, t, more) /\ words = <<>> /\ t.kind # "RBRACE"
      BY <2>1, <2>2, <2>3
    <3>2. t = RBrace
      BY <3>1, Zenon DEF NextIs
    <3> QED
      BY <3>1, <3>2, MarksAre
  <2>4. CASE Top.key # "" /\ Kind \in {"RBRACE", "END"}
    <3>1. NextIs(calls, f, words, t, more) /\ t.kind = "RBRACE"
      BY <2>1, <2>4
    <3>2. t # LBrace /\ t # Semicolon
      BY <3>1, MarksAre
    <3>3. words = <<>>
      BY <3>1, <3>2, Zenon DEF NextIs
    <3>4. words # <<>>
      BY <2>1, <2>2, <2>4, FewWordsAre, Zenon DEF WordsOnly
    <3> QED
      BY <3>3, <3>4
  <2>5. CASE Top.key # "" /\ Kind = "LBRACE" /\ Len(Top.args) > 1
    <3>1. NextIs(calls, f, words, t, more) /\ t.kind = "LBRACE"
      BY <2>1, <2>5
    <3>2. t # RBrace /\ t # Semicolon
      BY <3>1, MarksAre
    <3>3. Len(words) <= 2
      BY <3>1, <3>2, Zenon DEF NextIs
    <3>4. Len(words) = 1 + Len(Top.args) /\ Len(Top.args) \in Nat
      <4>1. Top.args \in Seq(Words) /\ words = Worded(Top.key, Top.args)
        BY <2>1, <2>2, <2>5, Zenon DEF WordsOnly
      <4> DEFINE k == Top.key
                 a == Top.args
      <4> HIDE DEF k, a
      <4>2. Len(Worded(k, a)) = 1 + Len(a) /\ Len(a) \in Nat
        BY <4>1 DEF Worded, a
      <4> QED
        BY <4>1, <4>2 DEF k, a
    <3>5. Len(Top.args) > 1
      BY <2>5
    <3> DEFINE a == Len(Top.args)
               b == Len(words)
    <3>6. b <= 2 /\ b = 1 + a /\ a \in Nat /\ a > 1
      BY <3>3, <3>4, <3>5
    <3> HIDE DEF a, b
    <3> QED
      BY <3>6
  <2> QED
    BY <2>3, <2>4, <2>5 DEF SyntaxError, ReadingName, ReadingArgs
<1> QED
  BY <1>1, <1>2, <1>3

\* So every step goes on as the file says.
LEMMA StepGoes ==
    ASSUME NEW f \in Seq(Seq(Directives)), NEW t, NEW more, ReadsToken(f, t, more), Next
    PROVE  Goes(f, more)
BY ReadNameGoes, ReadArgumentGoes, EndDirectiveGoes, OpenBlockGoes, CloseBlockGoes, NoErrorGoes, Zenon DEF Next

-----------------------------------------------------------------------------
(* The tokens of a file, whole, cut or with a lexeme too many.               *)

\* What is left begins with the token at that place.
LEMMA LeftGoes ==
    ASSUME NEW S, NEW s \in Seq(S), NEW p \in 1 .. Len(s) + 1
    PROVE  /\ Left(s, p) \in Seq(S)
           /\ p <= Len(s) => s[p] \in S /\ p + 1 \in 1 .. Len(s) + 1 /\ Left(s, p) = Join(<<s[p]>>, Left(s, p + 1))
           /\ ~(p <= Len(s)) => Left(s, p) = <<>> /\ p = Len(s) + 1
<1>1. Left(s, p) \in Seq(S) /\ Len(Left(s, p)) = Len(s) + 1 - p
  BY LeftLength
<1>2. ASSUME ~(p <= Len(s)) PROVE Left(s, p) = <<>> /\ p = Len(s) + 1
  <2>1. p = Len(s) + 1 /\ Len(s) \in Nat
    BY <1>2
  <2>2. Len(Left(s, p)) = 0
    BY <1>1, <2>1
  <2> QED
    BY <1>1, <2>1, <2>2
<1>3. ASSUME p <= Len(s)
      PROVE  s[p] \in S /\ p + 1 \in 1 .. Len(s) + 1 /\ Left(s, p) = Join(<<s[p]>>, Left(s, p + 1))
  <2> DEFINE x == s[p]
             a == <<x>>
             b == Left(s, p + 1)
             c == Left(s, p)
  <2>1. x \in S /\ p + 1 \in 1 .. Len(s) + 1 /\ Len(s) \in Nat /\ p \in Nat /\ p >= 1
    BY <1>3
  <2>2. b \in Seq(S) /\ Len(b) = Len(s) - p /\ \A i \in 1 .. Len(s) - p : b[i] = s[i + p]
    BY <1>3, <2>1 DEF Left
  <2>3. c \in Seq(S) /\ Len(c) = Len(s) + 1 - p /\ \A i \in 1 .. Len(s) + 1 - p : c[i] = s[i + p - 1]
    BY <1>3, <2>1 DEF Left
  <2>4. a \in Seq(S) /\ Len(a) = 1 /\ a[1] = x
    BY <2>1
  <2> HIDE DEF a, b, c
  <2>5. Join(a, b) \in Seq(S) /\ Len(Join(a, b)) = Len(a) + Len(b)
    BY <2>2, <2>4, JoinIs
  <2>6. \A i \in 1 .. Len(a) + Len(b) : Join(a, b)[i] = IF i <= Len(a) THEN a[i] ELSE b[i - Len(a)]
    BY <2>2, <2>4, JoinIs
  <2> DEFINE d == Join(a, b)
  <2> HIDE DEF d
  <2>7. /\ d \in Seq(S) /\ Len(d) = Len(c)
        /\ \A i \in 1 .. Len(c) : d[i] = IF i <= 1 THEN a[i] ELSE b[i - 1]
    BY <2>1, <2>2, <2>3, <2>4, <2>5, <2>6 DEF d
  <2>8. \A i \in 1 .. Len(c) : d[i] = c[i]
    <3> SUFFICES ASSUME NEW i \in 1 .. Len(c) PROVE d[i] = c[i]
      OBVIOUS
    <3>1. CASE i = 1
      <4>1. c[1] = s[p]
        BY <2>1, <2>3, <3>1
      <4>2. d[1] = x
        BY <2>4, <2>7, <3>1
      <4> QED
        BY <3>1, <4>1, <4>2 DEF x
    <3>2. CASE i # 1
      <4>1. i - 1 \in 1 .. Len(s) - p /\ i \in 1 .. Len(s) + 1 - p /\ (i - 1) + p = i + p - 1 /\ ~(i <= 1)
        BY <2>1, <2>3, <3>2
      <4>2. d[i] = b[i - 1]
        BY <2>7, <4>1
      <4>3. b[i - 1] = s[(i - 1) + p]
        BY <2>2, <4>1
      <4>4. c[i] = s[i + p - 1]
        BY <2>3, <4>1
      <4> QED
        BY <4>1, <4>2, <4>3, <4>4
    <3> QED
      BY <3>1, <3>2
  <2>9. d = c
    BY <2>3, <2>7, <2>8, SeqEqual
  <2> QED
    BY <2>1, <2>9, Zenon DEF a, b, c, d, x
<1> QED
  BY <1>1, <1>2, <1>3

\* What is done to a file.
LEMMA EditIs ==
    ASSUME Init
    PROVE  /\ file \in Seq(Seq(Directives)) /\ Written(file) \in Seq(Tokens) /\ Len(Written(file)) \in Nat
           /\ \/ edit.kind = "none"
              \/ edit.kind = "cut" /\ edit.at \in 0 .. Len(Written(file)) - 1
              \/ /\ edit.kind = "extra" /\ edit.at \in 0 .. Len(Written(file)) - 1
                 /\ edit.lexeme \in Lexemes
           /\ file \in Files
<1> DEFINE whole == Written(file)
           places == 0 .. Len(whole) - 1
<1>1. /\ file \in Seq(Seq(Directives)) /\ file \in Files
      /\ edit = NoEdit \/ edit \in Edits(file)
  BY AssumedOfFiles DEF Init
<1>2. whole \in Seq(Tokens) /\ Len(whole) \in Nat
  <2>1. whole \in Seq(Tokens)
    BY <1>1, WrittenType, Zenon
  <2> HIDE DEF whole
  <2> QED
    BY <2>1
<1>3. edit \in Edits(file) => \/ edit \in [kind : {"cut"}, at : places, lexeme : {Semicolon}]
                              \/ edit \in [kind : {"extra"}, at : places, lexeme : Extras]
  BY Zenon DEF Edits
<1> HIDE DEF whole, places
<1>4. CASE edit = NoEdit
  <2>1. edit.kind = "none"
    BY <1>4 DEF NoEdit
  <2> QED
    BY <1>1, <1>2, <2>1 DEF whole
<1>5. CASE edit \in [kind : {"cut"}, at : places, lexeme : {Semicolon}]
  <2>1. edit.kind = "cut" /\ edit.at \in places
    BY <1>5
  <2> QED
    BY <1>1, <1>2, <2>1, Zenon DEF whole, places
<1>6. CASE edit \in [kind : {"extra"}, at : places, lexeme : Extras]
  <2>1. edit.kind = "extra" /\ edit.at \in places /\ edit.lexeme \in Extras
    BY <1>6
  <2>2. edit.lexeme \in Lexemes
    BY <2>1, AssumedOfFiles
  <2> QED
    BY <1>1, <1>2, <2>1, <2>2, Zenon DEF whole, places
<1> QED
  BY <1>1, <1>3, <1>4, <1>5, <1>6

\* Tokens match some pattern.
LEMMA NoneUnmatched ==
    ASSUME NEW text \in Seq(Lexemes)
    PROVE  /\ (\A i \in 1 .. Len(text) : text[i].kind # "OTHER") => ~HasUnmatched(text)
           /\ (\E i \in 1 .. Len(text) : text[i].kind = "OTHER") => HasUnmatched(text)
<1>1. DOMAIN text = 1 .. Len(text)
  OBVIOUS
<1> QED
  BY <1>1, Zenon DEF HasUnmatched

\* What Init makes of a text.
LEMMA StartIs ==
    ASSUME Init
    PROVE  /\ tokens = Tokenize(Text) /\ result = (IF HasUnmatched(Text) THEN Refused ELSE Pending)
           /\ pos = 1 /\ calls = <<Call>> /\ raw = Empty
BY Zenon DEF Init

\* A sequence is what comes first and what comes after.
LEMMA TwoParts ==
    ASSUME NEW S, NEW s \in Seq(S), NEW n \in 0 .. Len(s)
    PROVE  SubSeq(s, 1, n) \o SubSeq(s, n + 1, Len(s)) = s
<1> DEFINE a == SubSeq(s, 1, n)
           b == SubSeq(s, n + 1, Len(s))
<1>1. n \in Nat /\ Len(s) \in Nat /\ n <= Len(s) /\ n + 1 \in 1 .. Len(s) + 1
  OBVIOUS
<1>2. a \in Seq(S) /\ Len(a) = n /\ \A i \in 1 .. n : a[i] = s[i]
  BY FirstsAre
<1>3. b \in Seq(S) /\ Len(b) = Len(s) - n /\ \A i \in 1 .. Len(s) - n : b[i] = s[n + i]
  BY <1>1
<1> HIDE DEF a, b
<1> DEFINE c == a \o b
<1>4. c \in Seq(S) /\ Len(c) = Len(s) /\ \A i \in 1 .. Len(s) : c[i] = IF i <= n THEN a[i] ELSE b[i - n]
  BY <1>1, <1>2, <1>3
<1> HIDE DEF c
<1>5. \A i \in 1 .. Len(s) : c[i] = s[i]
  BY <1>1, <1>2, <1>3, <1>4
<1>6. c = s
  BY <1>4, <1>5, SeqEqual
<1> QED
  BY <1>6 DEF a, b, c

\* Tokens are lexemes that match.
LEMMA TokensMatch ==
    /\ \A x \in Tokens : x.kind # "OTHER"
    /\ \A text \in Seq(Tokens) : text \in Seq(Lexemes) /\ ~HasUnmatched(text)
<1>1. \A x \in Tokens : x.kind # "OTHER"
  BY DEF Tokens
<1>2. \A text \in Seq(Tokens) : text \in Seq(Lexemes)
  BY LexemeIs, SequencesGrow
<1>3. ASSUME NEW text \in Seq(Tokens) PROVE ~HasUnmatched(text)
  <2>1. \A i \in 1 .. Len(text) : text[i] \in Tokens
    OBVIOUS
  <2>2. \A i \in 1 .. Len(text) : text[i].kind # "OTHER"
    BY <1>1, <2>1, Zenon
  <2> QED
    BY <1>2, <2>2, NoneUnmatched, Zenon
<1> QED
  BY <1>1, <1>2, <1>3, Zenon

\* One more lexeme among tokens matches if it does.
LEMMA OneMoreMatches ==
    ASSUME NEW a \in Seq(Tokens), NEW b \in Seq(Tokens), NEW x \in Lexemes
    PROVE  /\ (a \o <<x>>) \o b \in Seq(Lexemes)
           /\ HasUnmatched((a \o <<x>>) \o b) <=> x.kind = "OTHER"
<1> DEFINE n == Len(a)
           c == a \o <<x>>
           d == c \o b
<1>1. a \in Seq(Lexemes) /\ b \in Seq(Lexemes) /\ n \in Nat /\ Len(b) \in Nat
  BY TokensMatch
<1>2. c \in Seq(Lexemes) /\ Len(c) = n + 1 /\ c[n + 1] = x /\ \A i \in 1 .. n : c[i] = a[i]
  BY <1>1
<1>3. /\ \A i \in 1 .. n : a[i].kind # "OTHER"
      /\ \A i \in 1 .. Len(b) : b[i].kind # "OTHER"
  <2>1. (\A i \in 1 .. n : a[i] \in Tokens) /\ \A i \in 1 .. Len(b) : b[i] \in Tokens
    OBVIOUS
  <2> QED
    BY <2>1, TokensMatch, Zenon
<1> HIDE DEF c
<1>4. /\ d \in Seq(Lexemes) /\ Len(d) = n + 1 + Len(b)
      /\ \A i \in 1 .. n + 1 + Len(b) : d[i] = IF i <= n + 1 THEN c[i] ELSE b[i - (n + 1)]
  <2>1. d \in Seq(Lexemes) /\ Len(d) = Len(c) + Len(b)
    BY <1>1, <1>2
  <2>2. \A i \in 1 .. Len(c) + Len(b) : d[i] = IF i <= Len(c) THEN c[i] ELSE b[i - Len(c)]
    BY <1>1, <1>2
  <2> HIDE DEF d
  <2> QED
    BY <1>2, <2>1, <2>2
<1> HIDE DEF d
<1>5. d[n + 1] = x /\ n + 1 \in 1 .. n + 1 + Len(b)
  BY <1>1, <1>2, <1>4
<1>6. \A i \in 1 .. n + 1 + Len(b) : i # n + 1 => d[i].kind # "OTHER"
  <2> SUFFICES ASSUME NEW i \in 1 .. n + 1 + Len(b), i # n + 1 PROVE d[i].kind # "OTHER"
    OBVIOUS
  <2>1. CASE i \in 1 .. n
    <3>1. d[i] = a[i]
      BY <1>1, <1>2, <1>4, <2>1
    <3> QED
      BY <1>3, <2>1, <3>1
  <2>2. CASE i \notin 1 .. n
    <3>1. i - (n + 1) \in 1 .. Len(b) /\ ~(i <= n + 1)
      BY <1>1, <2>2
    <3>2. d[i] = b[i - (n + 1)]
      BY <1>4, <3>1
    <3> QED
      BY <1>3, <3>1, <3>2
  <2> QED
    BY <2>1, <2>2
<1>7. CASE x.kind = "OTHER"
  <2>1. \E i \in 1 .. Len(d) : d[i].kind = "OTHER"
    BY <1>4, <1>5, <1>7, Zenon
  <2> QED
    BY <1>4, <1>7, <2>1, NoneUnmatched, Zenon DEF c, d
<1>8. CASE x.kind # "OTHER"
  <2>1. \A i \in 1 .. Len(d) : d[i].kind # "OTHER"
    BY <1>4, <1>5, <1>6, <1>8, Zenon
  <2> QED
    BY <1>4, <1>8, <2>1, NoneUnmatched, Zenon DEF c, d
<1> QED
  BY <1>7, <1>8, Zenon

\* The tokens of a file as written, or cut short.
LEMMA UneditedTokens ==
    ASSUME Init
    PROVE  /\ edit.kind = "none" => tokens = Written(file) /\ result = Pending
           /\ edit.kind = "cut" => tokens = SubSeq(Written(file), 1, edit.at) /\ result = Pending
<1> DEFINE whole == Written(file)
           short == SubSeq(whole, 1, edit.at)
<1>1. whole \in Seq(Tokens)
  BY EditIs
<1>2. ASSUME NEW a \in Seq(Tokens) PROVE Tokenize(a) = a /\ ~HasUnmatched(a)
  <2>1. LBrace \in Lexemes
    BY LexemeIs
  <2> QED
    BY <2>1, TokensMatch, TokenizeAround, Zenon
<1> HIDE DEF whole
<1>3. ASSUME edit.kind = "none" PROVE tokens = whole /\ result = Pending
  <2>1. Text = whole
    BY <1>3 DEF Text, whole
  <2> QED
    BY <1>1, <1>2, <2>1, StartIs, Zenon
<1>4. ASSUME edit.kind = "cut" PROVE tokens = short /\ result = Pending
  <2>1. Text = short
    BY <1>4 DEF Text, whole
  <2>2. edit.at \in 0 .. Len(whole)
    <3>1. edit.at \in 0 .. Len(whole) - 1 /\ Len(whole) \in Nat
      BY <1>4, EditIs DEF whole
    <3> QED
      BY <3>1
  <2>3. short \in Seq(Tokens)
    BY <1>1, <2>2, FirstsAre
  <2> HIDE DEF short
  <2> QED
    BY <1>2, <2>1, <2>3, StartIs, Zenon
<1> QED
  BY <1>3, <1>4 DEF whole

\* The tokens of a file with one lexeme too many.
LEMMA ExtraTokens ==
    ASSUME Init, edit.kind = "extra"
    PROVE  LET first == SubSeq(Written(file), 1, edit.at)
               after == Left(Written(file), edit.at + 1)
           IN  /\ first \in Seq(Tokens) /\ after \in Seq(Tokens) /\ Len(first) = edit.at
               /\ edit.lexeme.kind = "OTHER" => result = Refused
               /\ edit.lexeme.kind # "OTHER" => result = Pending
               /\ tokens = IF IsToken(edit.lexeme) THEN (first \o <<edit.lexeme>>) \o after ELSE Written(file)
<1> DEFINE whole == Written(file)
           at == edit.at
           x == edit.lexeme
           first == SubSeq(whole, 1, at)
           after == SubSeq(whole, at + 1, Len(whole))
           text == (first \o <<x>>) \o after
<1>1. whole \in Seq(Tokens) /\ Len(whole) \in Nat /\ at \in 0 .. Len(whole) - 1 /\ x \in Lexemes
  BY EditIs
<1>2. Text = InsertAt(whole, at + 1, x)
  BY DEF Text
<1> HIDE DEF whole, at, x
<1>3. at \in 0 .. Len(whole) /\ at + 1 \in 1 .. Len(whole) + 1 /\ (at + 1) - 1 = at
  BY <1>1
<1>4. Text = text
  BY <1>2, <1>3 DEF InsertAt
<1>5. first \in Seq(Tokens) /\ Len(first) = at
  BY <1>1, <1>3, FirstsAre
<1>6. after \in Seq(Tokens)
  BY <1>1, <1>3
<1>7. first \o after = whole
  BY <1>1, <1>3, TwoParts
<1>8. Tokenize(text) = IF IsToken(x) THEN text ELSE whole
  <2> HIDE DEF first, after
  <2> QED
    BY <1>1, <1>5, <1>6, <1>7, TokenizeAround
<1>9. HasUnmatched(text) <=> x.kind = "OTHER"
  <2> HIDE DEF first, after
  <2> QED
    BY <1>1, <1>5, <1>6, OneMoreMatches
<1>10. /\ x.kind = "OTHER" => result = Refused
       /\ x.kind # "OTHER" => result = Pending
       /\ tokens = IF IsToken(x) THEN text ELSE whole
  <2> HIDE DEF text
  <2> QED
    BY <1>4, <1>8, <1>9, StartIs, Zenon
<1> QED
  BY <1>5, <1>6, <1>10, Zenon DEF Left, whole, at, x

-----------------------------------------------------------------------------
(* A file as written is loaded as what it says.                              *)

\* At the end of the file the outermost call returns, and what it returns is
\* what the file says.
LEMMA EndGoes ==
    ASSUME NEW f \in Seq(Seq(Directives)), Nested, result = Pending, calls # <<>>,
           ~(pos <= Len(tokens)), Exact(calls, f, <<>>), Next
    PROVE  calls' = <<>> /\ result' = Pending /\ tokens' = tokens /\ ParseConfigDict(raw') = LoadedAs(f)
<1>1. AtEnd(calls, f) /\ calls[Len(calls)].key = ""
  <2>1. <<>> \in Seq(Tokens)
    OBVIOUS
  <2> QED
    BY <2>1, ExactIs, Zenon
<1>2. Len(calls) = 1 /\ Top = calls[1] /\ Top.key = ""
  BY <1>1, TopIs, Zenon DEF AtEnd
<1>3. Kind = "END"
  BY TokenIs, Zenon DEF Nested
<1>4. FinishParse
  <2>1. ~ReadName
    BY <1>3 DEF ReadName
  <2>2. ~ReadArgument /\ ~EndDirective /\ ~OpenBlock
    BY <1>2, Zenon DEF ReadArgument, EndDirective, OpenBlock, ReadingArgs
  <2>3. ~CloseBlock
    <3>1. CloseBlock => Len(calls) > 1
      BY Zenon DEF CloseBlock
    <3> DEFINE n == Len(calls)
    <3>2. n = 1
      BY <1>2
    <3> HIDE DEF n
    <3>3. ~(n > 1)
      BY <3>2
    <3> QED
      BY <3>1, <3>3 DEF n
  <2>4. ~SyntaxError
    BY <1>2, <1>3 DEF SyntaxError, ReadingName, ReadingArgs
  <2>5. ~Convert
    BY DEF Convert
  <2> QED
    BY <2>1, <2>2, <2>3, <2>4, <2>5, Zenon DEF Next
<1>5. calls' = <<>> /\ result' = result /\ tokens' = tokens /\ raw' = Top.config
  BY <1>4 DEF FinishParse
<1>6. ParseConfigDict(raw') = LoadedAs(f)
  <2> DEFINE config == raw'
  <2>1. "http" \in DOMAIN config /\ IsBlock(config["http"]) /\ Said(config["http"].v, f)
    BY <1>1, <1>2, <1>5, Zenon DEF AtEnd
  <2> HIDE DEF config
  <2>2. ParseConfigDict(config) = LoadedAs(f)
    BY <2>1, FileConverted, Zenon
  <2> QED
    BY <2>2, Zenon DEF config
<1> QED
  BY <1>5, <1>6

\* As long as the parser reads, what is left is what the file says.
LEMMA ReadingGoes ==
    ASSUME NEW f \in Seq(Seq(Directives)), Nested, result = Pending, calls # <<>>,
           tokens \in Seq(Tokens), Exact(calls, f, Left(tokens, pos)), Next
    PROVE  /\ result' = Pending /\ tokens' = tokens
           /\ calls' # <<>> => Exact(calls', f, Left(tokens', pos'))
           /\ calls' = <<>> => ParseConfigDict(raw') = LoadedAs(f)
<1>0. pos \in 1 .. Len(tokens) + 1
  BY DEF Nested, Typed
<1>1. CASE pos <= Len(tokens)
  <2> DEFINE t == tokens[pos]
             more == Left(tokens, pos + 1)
  <2>1. t \in Tokens /\ pos + 1 \in 1 .. Len(tokens) + 1 /\ Left(tokens, pos) = Join(<<t>>, more)
    BY <1>0, <1>1, LeftGoes, Zenon
  <2>2. more \in Seq(Tokens)
    BY <2>1, LeftGoes, Zenon
  <2>3. ReadsToken(f, t, more)
    BY <1>1, <2>1, <2>2, Zenon DEF ReadsToken
  <2>4. Goes(f, more)
    BY <2>3, StepGoes, Zenon
  <2> QED
    BY <2>4, Zenon DEF Goes
<1>2. CASE ~(pos <= Len(tokens))
  <2>1. Exact(calls, f, <<>>)
    BY <1>0, <1>2, LeftGoes, Zenon
  <2> QED
    BY <1>2, <2>1, EndGoes, Zenon
<1> QED
  BY <1>1, <1>2

\* Before the first token everything is left.
LEMMA StartIsExact ==
    ASSUME NEW f \in Seq(Seq(Directives))
    PROVE  Exact(<<Call>>, f, Written(f))
<1> DEFINE stack == <<Call>>
<1>1. Len(stack) = 1 /\ stack[1] = Call
  OBVIOUS
<1> HIDE DEF stack
<1>2. Call.key = "" /\ Call.config = Empty
  BY DEF Call
<1>3. Place(stack, f, Written(f))
  BY <1>1, <1>2, Zenon DEF Place, AtFile
<1>4. Written(f) \in Seq(Tokens)
  BY WrittenType, Zenon
<1>5. Exact(stack, f, Written(f))
  BY <1>1, <1>2, <1>3, <1>4, ExactBetween, Zenon
<1> QED
  BY <1>5 DEF stack

\* Where the parser is in a file that is whole, and what becomes of it.
IsWhole == edit.kind # "cut" /\ (edit.kind = "extra" => edit.lexeme.kind \in {"COMMENT", "WHITESPACE"})
WholeIsReadExactly ==
    /\ file \in Seq(Seq(Directives))
    /\ IsWhole =>
           /\ tokens = Written(file)
           /\ result = Pending /\ calls # <<>> => Exact(calls, file, Left(tokens, pos))
           /\ result = Pending /\ calls = <<>> => ParseConfigDict(raw) = LoadedAs(file)
           /\ result # Pending => result = LoadedAs(file)

\* A whole file is at its beginning when the parser is.
LEMMA StartIsWhole == Init => WholeIsReadExactly
<1> SUFFICES ASSUME Init PROVE WholeIsReadExactly
  OBVIOUS
<1>1. file \in Seq(Seq(Directives)) /\ Written(file) \in Seq(Tokens)
  BY EditIs
<1>2. ASSUME IsWhole PROVE tokens = Written(file) /\ result = Pending
  <2>1. edit.kind \in {"none", "cut", "extra"}
    BY EditIs
  <2>2. CASE edit.kind = "none"
    BY <2>2, UneditedTokens
  <2>3. CASE edit.kind = "extra"
    <3>1. edit.lexeme.kind \in {"COMMENT", "WHITESPACE"}
      BY <1>2, <2>3 DEF IsWhole
    <3>2. ~IsToken(edit.lexeme) /\ edit.lexeme.kind # "OTHER"
      BY <3>1 DEF IsToken, IsLayout
    <3> QED
      BY <2>3, <3>2, ExtraTokens, Zenon
  <2> QED
    BY <1>2, <2>1, <2>2, <2>3 DEF IsWhole
<1>3. pos = 1 /\ calls = <<Call>>
  BY StartIs
<1>4. Left(Written(file), 1) = Written(file)
  <2> DEFINE s == Written(file)
  <2> HIDE DEF s
  <2>1. s \in Seq(Tokens) /\ 1 \in 1 .. Len(s) + 1
    <3>1. s \in Seq(Tokens)
      BY <1>1 DEF s
    <3> QED
      BY <3>1
  <2>2. Left(s, 1) = s
    BY <2>1, LeftLength, Zenon
  <2> QED
    BY <2>2 DEF s
<1>5. Exact(calls, file, Left(Written(file), pos))
  BY <1>1, <1>3, <1>4, StartIsExact, Zenon
<1>6. calls # <<>>
  BY <1>3
<1> QED
  BY <1>1, <1>2, <1>5, <1>6, Zenon DEF WholeIsReadExactly

\* Every step keeps it.
LEMMA StepKeepsWhole == Nested /\ WholeIsReadExactly /\ [Next]_vars => WholeIsReadExactly'
<1> SUFFICES ASSUME Nested, WholeIsReadExactly, [Next]_vars PROVE WholeIsReadExactly'
  OBVIOUS
<1>1. CASE UNCHANGED vars
  BY <1>1 DEF vars, input, WholeIsReadExactly, IsWhole, Exact, Left
<1>2. CASE Next
  <2>1. file' = file /\ edit' = edit
    BY <1>2 DEF Next, ReadName, ReadArgument, EndDirective, OpenBlock, CloseBlock, FinishParse, SyntaxError, Convert,
                Refuse, input
  <2>2. file \in Seq(Seq(Directives))
    BY DEF WholeIsReadExactly
  <2>3. ASSUME IsWhole
        PROVE  /\ tokens' = Written(file)
               /\ result' = Pending /\ calls' # <<>> => Exact(calls', file, Left(tokens', pos'))
               /\ result' = Pending /\ calls' = <<>> => ParseConfigDict(raw') = LoadedAs(file)
               /\ result' # Pending => result' = LoadedAs(file)
    <3>1. /\ tokens = Written(file)
          /\ result = Pending /\ calls # <<>> => Exact(calls, file, Left(tokens, pos))
          /\ result = Pending /\ calls = <<>> => ParseConfigDict(raw) = LoadedAs(file)
      BY <2>3 DEF WholeIsReadExactly
    <3>2. tokens \in Seq(Tokens)
      BY <2>2, <3>1, WrittenType, Zenon
    <3>3. CASE result = Pending /\ calls # <<>>
      BY <1>2, <2>2, <3>1, <3>2, <3>3, ReadingGoes, Zenon
    <3>4. CASE result = Pending /\ calls = <<>>
      <4>1. Convert
        BY <1>2, <3>4, Zenon DEF Next, ReadName, ReadArgument, EndDirective, OpenBlock, CloseBlock, FinishParse,
             SyntaxError, Closes, ReadingName, ReadingArgs, Parsing
      <4>2. result' = ParseConfigDict(raw) /\ tokens' = tokens /\ calls' = calls /\ raw' = raw
        BY <4>1 DEF Convert
      <4> QED
        BY <3>1, <3>4, <4>2, Zenon
    <3>5. CASE result # Pending
      BY <1>2, <3>5, Zenon DEF Next, ReadName, ReadArgument, EndDirective, OpenBlock, CloseBlock, FinishParse,
           SyntaxError, Closes, ReadingName, ReadingArgs, Parsing, Convert
    <3> QED
      BY <3>3, <3>4, <3>5
  <2> QED
    BY <2>1, <2>2, <2>3, Zenon DEF WholeIsReadExactly, IsWhole
<1> QED
  BY <1>1, <1>2

\* A file as one would write it, with blanks and comments anywhere in it, is loaded as
\* what it says - the servers in their order, of each every listen, the first name and
\* certificate, every intermediate, the last location of a path - or refused when a port
\* is not a number or a certificate has no key (load_config).
THEOREM WholeFilesMeanWhatTheySay == Spec => []FilesMeanWhatTheySay
<1>1. WholeIsReadExactly => FilesMeanWhatTheySay
  BY Zenon DEF WholeIsReadExactly, FilesMeanWhatTheySay, IsWhole, LoadedAs
<1>2. ReadingIsSound => Nested
  BY DEF ReadingIsSound
<1> QED
  BY <1>1, <1>2, StartIsWhole, StepKeepsWhole, ReadingStaysSound, PTL DEF Spec

-----------------------------------------------------------------------------
(* At the end of a file cut short the calls still return, and what they hold *)
(* is a part of what the file says.                                          *)

\* The server blocks that a dictionary holds begin the first servers of a file.
Begun(http, f, n) ==
    HasBlocks(http, n) /\ \A i \in 1 .. n : Begins(Values(http, "server")[i].v, f[i])
SomeBegun(http, f) == \E n \in 0 .. Len(f) : Begun(http, f, n)
InBegun(stack, f, n) ==
    /\ InHttp(stack) /\ stack[2].key = "server" /\ stack[2].args = <<>>
    /\ Begun(stack[2].config, f, n) /\ Begins(stack[3].config, f[n + 1])
HoldsPart(stack, f) ==
    \/ /\ Len(stack) = 1
       /\ \/ stack[1].config = Empty
          \/ /\ "http" \in DOMAIN stack[1].config /\ IsBlock(stack[1].config["http"])
             /\ SomeBegun(stack[1].config["http"].v, f)
    \/ Len(stack) = 2 /\ InHttp(stack) /\ SomeBegun(stack[2].config, f)
    \/ \E n \in 0 .. Len(f) : /\ IsServer(f, n) /\ InBegun(stack, f, n)
                              /\ Len(stack) = 3 \/ (Len(stack) = 4 /\ stack[3].key = "location")

\* The directives of a server begin it,
LEMMA DescribedBegins ==
    ASSUME NEW block, NEW ds \in Seq(Directives), Describes(block, ds)
    PROVE  Begins(block, ds)
<1> DEFINE n == Len(ds)
<1>1. SubSeq(ds, 1, n) = ds
  BY AllAre
<1>2. n \in 0 .. Len(ds)
  OBVIOUS
<1>3. Describes(block, SubSeq(ds, 1, n))
  BY <1>1, Zenon
<1> QED
  BY <1>2, <1>3, FirstsBegin, Zenon

\* and the servers that are said begin the file.
LEMMA SaidBegins ==
    ASSUME NEW f \in Seq(Seq(Directives)), NEW i \in 0 .. Len(f), NEW http, Said(http, SubSeq(f, 1, i))
    PROVE  Begun(http, f, i)
<1> DEFINE a == SubSeq(f, 1, i)
<1>1. Len(a) = i /\ \A k \in 1 .. i : a[k] = f[k]
  BY FirstsAre
<1> HIDE DEF a
<1>2. ASSUME NEW k \in 1 .. i PROVE Begins(Values(http, "server")[k].v, f[k])
  <2>1. Describes(Values(http, "server")[k].v, f[k])
    BY <1>1, Zenon DEF Said, a
  <2>2. f[k] \in Seq(Directives)
    <3> DEFINE Q == Seq(Directives)
    <3> HIDE DEF Q
    <3>1. f \in Seq(Q) /\ k \in 1 .. Len(f)
      BY DEF Q
    <3>2. f[k] \in Q
      BY <3>1
    <3> QED
      BY <3>2 DEF Q
  <2> QED
    BY <2>1, <2>2, DescribedBegins, Zenon
<1>3. HasBlocks(http, i)
  BY <1>1, Zenon DEF Said, a
<1> QED
  BY <1>2, <1>3, Zenon DEF Begun

\* Wherever the parser is in the file, it holds a part of it.
LEMMA PlaceHoldsPart ==
    ASSUME NEW f \in Seq(Seq(Directives)), NEW stack, NEW all, Place(stack, f, all)
    PROVE  HoldsPart(stack, f)
<1>1. CASE AtFile(stack)
  BY <1>1, Zenon DEF AtFile, HoldsPart
<1>2. ASSUME NEW i \in 0 .. Len(f), AtServer(stack, f, i) PROVE HoldsPart(stack, f)
  <2>1. Begun(stack[2].config, f, i)
    BY <1>2, SaidBegins, Zenon DEF AtServer
  <2> QED
    BY <1>2, <2>1, Zenon DEF AtServer, HoldsPart, SomeBegun
<1>3. ASSUME NEW i \in 0 .. Len(f), IsServer(f, i), NEW j \in 0 .. Len(f[i + 1]), InServer(stack, f, i),
             Describes(stack[3].config, SubSeq(f[i + 1], 1, j)),
             Len(stack) = 3 \/ (Len(stack) = 4 /\ stack[3].key = "location")
      PROVE  HoldsPart(stack, f)
  <2>1. Begun(stack[2].config, f, i)
    BY <1>3, SaidBegins, Zenon DEF InServer
  <2>2. f[i + 1] \in Seq(Directives)
    BY <1>3, FileParts, Zenon
  <2>3. Begins(stack[3].config, f[i + 1])
    BY <1>3, <2>2, FirstsBegin, Zenon
  <2>4. InBegun(stack, f, i)
    BY <1>3, <2>1, <2>3, Zenon DEF InBegun, InServer
  <2> QED
    BY <1>3, <2>4, Zenon DEF HoldsPart
<1>4. CASE AtEnd(stack, f)
  <2> DEFINE n == Len(f)
  <2>1. n \in 0 .. Len(f) /\ SubSeq(f, 1, n) = f
    <3> DEFINE Q == Seq(Directives)
    <3> HIDE DEF Q
    <3>1. f \in Seq(Q)
      BY DEF Q
    <3> QED
      BY <3>1, AllAre
  <2>2. Said(stack[1].config["http"].v, SubSeq(f, 1, n))
    BY <1>4, <2>1, Zenon DEF AtEnd
  <2>3. Begun(stack[1].config["http"].v, f, n)
    BY <2>1, <2>2, SaidBegins, Zenon
  <2> HIDE DEF n
  <2> QED
    BY <1>4, <2>1, <2>3, Zenon DEF AtEnd, HoldsPart, SomeBegun
<1>5. ASSUME NEW i \in 0 .. Len(f), IsServer(f, i), NEW j \in 0 .. Len(f[i + 1]), AtDirective(stack, f, i, j)
      PROVE  HoldsPart(stack, f)
  BY <1>3, <1>5, Zenon DEF AtDirective
<1>6. ASSUME NEW i \in 0 .. Len(f), NEW j \in 0 .. Len(f[i + 1]), IsDirective(f, i, j), NEW m, AtRoot(stack, f, i, j, m)
      PROVE  HoldsPart(stack, f)
  <2>1. IsServer(f, i)
    BY <1>6, Zenon DEF IsDirective
  <2> QED
    BY <1>3, <1>6, <2>1, Zenon DEF AtRoot, InLocation
<1> QED
  BY <1>1, <1>2, <1>4, <1>5, <1>6, Zenon DEF Place

\* What a call that stores a block holds afterwards.
LEMMA StoredIs ==
    ASSUME NEW U, NEW call \in Calls(U), NEW nested
    PROVE  /\ \A name : name # call.key => SameAt(call.config, Stored(call, nested).config, name)
           /\ Stored(call, nested).key = ""
<1> DEFINE existing == IF call.key \in DOMAIN call.config THEN call.config[call.key] ELSE Dict(Empty)
           config == IF call.args = <<>> THEN AppendRepeated(call.config, call.key, nested)
                     ELSE With(call.config, call.key, Dict(With(existing.v, call.args[1], nested)))
<1>1. Stored(call, nested) = [call EXCEPT !.config = config, !.key = ""]
  BY Zenon DEF Stored
<1>2. \A name : name # call.key => SameAt(call.config, config, name)
  <2>1. CASE call.args = <<>>
    <3>1. config = AppendRepeated(call.config, call.key, nested)
      BY <2>1, Zenon
    <3> HIDE DEF config
    <3> QED
      BY <3>1, AppendRepeatedIs, Zenon
  <2>2. CASE call.args # <<>>
    <3> DEFINE item == Dict(With(existing.v, call.args[1], nested))
    <3>1. config = With(call.config, call.key, item)
      BY <2>2, Zenon
    <3> HIDE DEF config, item
    <3> QED
      BY <3>1, WithIs, Zenon
  <2> QED
    BY <2>1, <2>2
<1> HIDE DEF config
<1>3. /\ [call EXCEPT !.config = config, !.key = ""].config = config
      /\ [call EXCEPT !.config = config, !.key = ""].key = ""
  <2> DEFINE D == Dicts(U)
             A == Seq(Arguments)
  <2> HIDE DEF D, A
  <2>1. call \in [config : D, key : Arguments, args : A]
    BY Zenon DEF Calls, D, A
  <2> QED
    BY <2>1
<1> QED
  BY <1>1, <1>2, <1>3, Zenon

\* The http block that is stored in what has been read of the file.
LEMMA HttpStored ==
    ASSUME NEW U, NEW call \in Calls(U), call.key = "http", call.args = <<>>, call.config = Empty, NEW http
    PROVE  /\ "http" \in DOMAIN Stored(call, Dict(http)).config
           /\ IsBlock(Stored(call, Dict(http)).config["http"])
           /\ Stored(call, Dict(http)).config["http"].v = http
<1> DEFINE w == "http"
           v == Dict(http)
           config == Stored(call, v).config
<1>1. config = AppendRepeated(call.config, call.key, v)
  BY StoredUnnamed
<1> HIDE DEF config
<1>2. config = With(Empty, w, v)
  <2>1. w \notin DOMAIN Empty
    BY DEF Empty
  <2> QED
    BY <1>1, <2>1, Zenon DEF AppendRepeated
<1> HIDE DEF w, v
<1>3. DOMAIN With(Empty, w, v) = DOMAIN Empty \union {w} /\ With(Empty, w, v)[w] = v
  <2>1. DOMAIN With(Empty, w, v) = DOMAIN Empty \union {w}
    BY Zenon DEF With
  <2>2. With(Empty, w, v)[w] = v
    BY DEF With
  <2> QED
    BY <2>1, <2>2
<1>4. w \in DOMAIN config /\ config[w] = v
  BY <1>2, <1>3
<1>5. IsBlock(v) /\ v.v = http
  BY DEF IsBlock, Dict, v
<1> QED
  BY <1>4, <1>5, Zenon DEF w, v, config

\* A server block more that begins the next server.
LEMMA BegunAppended ==
    ASSUME NEW f, NEW n \in Nat, NEW http, Begun(http, f, n), NEW block, Begins(block, f[n + 1])
    PROVE  Begun(AppendRepeated(http, "server", Dict(block)), f, n + 1)
<1> DEFINE new == AppendRepeated(http, "server", Dict(block))
<1>1. HasBlocks(http, n) /\ \A k \in 1 .. n : Begins(Values(http, "server")[k].v, f[k])
  BY DEF Begun
<1>2. HasBlocks(new, n + 1) /\ Values(new, "server")[n + 1] = Dict(block)
  BY <1>1, BlockAppended
<1>3. \A k \in 1 .. n : Values(new, "server")[k] = Values(http, "server")[k]
  BY <1>1, BlockAppended
<1> HIDE DEF new
<1>4. ASSUME NEW k \in 1 .. n + 1 PROVE Begins(Values(new, "server")[k].v, f[k])
  <2>1. CASE k \in 1 .. n
    BY <1>1, <1>3, <2>1, Zenon
  <2>2. CASE k = n + 1
    <3>1. Dict(block).v = block
      BY DEF Dict
    <3> QED
      BY <1>2, <2>2, <3>1, Zenon
  <2> QED
    BY <2>1, <2>2
<1> QED
  BY <1>2, <1>4, Zenon DEF Begun, new

\* A block that is closed where the file breaks off is a part like the others.
LEMMA PartStored ==
    ASSUME NEW f \in Seq(Seq(Directives)), NEW U, NEW old \in Seq(Calls(U)), NEW n, n = Len(old), n > 1,
           HoldsPart(old, f), NEW new, Len(new) = n - 1, SameCalls(new, old, n - 2),
           new[n - 1] = Stored(old[n - 1], Dict(old[n].config))
    PROVE  HoldsPart(new, f)
<1>0. ASSUME NEW k \in 1 .. n PROVE old[k] \in Calls(U)
  <2> DEFINE C == Calls(U)
  <2> HIDE DEF C
  <2>1. old \in Seq(C)
    BY DEF C
  <2>2. old[k] \in C
    BY <2>1
  <2> QED
    BY <2>2 DEF C
<1>1. ASSUME n = 2, InHttp(old), SomeBegun(old[2].config, f) PROVE HoldsPart(new, f)
  <2>1. n - 1 = 1 /\ 1 \in 1 .. n
    BY <1>1
  <2> DEFINE http == old[2].config
             call == old[1]
  <2>2. call \in Calls(U) /\ call.args = <<>> /\ call.key = "http" /\ call.config = Empty
    BY <1>0, <1>1, <2>1, Zenon DEF InHttp
  <2>3. new[1] = Stored(call, Dict(http)) /\ Len(new) = 1
    BY <1>1, <2>1, Zenon
  <2>4. /\ "http" \in DOMAIN new[1].config /\ IsBlock(new[1].config["http"])
        /\ new[1].config["http"].v = http
    <3> DEFINE config == Stored(call, Dict(http)).config
    <3>1. "http" \in DOMAIN config /\ IsBlock(config["http"]) /\ config["http"].v = http
      <4> HIDE DEF call, http
      <4>1. "http" \in DOMAIN config
        BY <2>2, HttpStored
      <4>2. IsBlock(config["http"])
        BY <2>2, HttpStored
      <4>3. config["http"].v = http
        BY <2>2, HttpStored
      <4> QED
        BY <4>1, <4>2, <4>3
    <3>2. new[1].config = config
      BY <2>3, Zenon
    <3> HIDE DEF config
    <3> QED
      BY <3>1, <3>2, Zenon
  <2> QED
    BY <1>1, <2>3, <2>4, Zenon DEF HoldsPart
<1>2. ASSUME NEW k \in 0 .. Len(f), IsServer(f, k), InBegun(old, f, k), n = 3 PROVE HoldsPart(new, f)
  <2>1. n - 1 = 2 /\ 1 \in 1 .. n - 2 /\ 2 \in 1 .. n
    BY <1>2
  <2> DEFINE block == old[3].config
             call == old[2]
  <2>2. /\ call \in Calls(U) /\ call.args = <<>> /\ call.key = "server"
        /\ Begun(call.config, f, k) /\ Begins(block, f[k + 1])
    BY <1>0, <1>2, <2>1, Zenon DEF InBegun
  <2>3. new[2] = Stored(call, Dict(block)) /\ Len(new) = 2 /\ new[1] = old[1]
    BY <1>2, <2>1, Zenon DEF SameCalls
  <2>4. Stored(call, Dict(block)).config = AppendRepeated(call.config, "server", Dict(block))
    <3>1. Stored(call, Dict(block)).config = AppendRepeated(call.config, call.key, Dict(block))
      <4> HIDE DEF call, block
      <4> QED
        BY <2>2, StoredUnnamed
    <3> QED
      BY <2>2, <3>1, Zenon
  <2>5. k \in Nat /\ k + 1 \in 0 .. Len(f)
    BY <1>2, FileParts, Zenon
  <2>6. Begun(new[2].config, f, k + 1)
    <3>1. Begun(AppendRepeated(call.config, "server", Dict(block)), f, k + 1)
      BY <2>2, <2>5, BegunAppended, Zenon
    <3> QED
      BY <2>3, <2>4, <3>1, Zenon
  <2>7. InHttp(new)
    BY <1>2, <2>3, Zenon DEF InBegun, InHttp
  <2> QED
    BY <2>3, <2>5, <2>6, <2>7, Zenon DEF HoldsPart, SomeBegun
<1>3. ASSUME NEW k \in 0 .. Len(f), IsServer(f, k), InBegun(old, f, k), n = 4, old[3].key = "location"
      PROVE  HoldsPart(new, f)
  <2>1. n - 1 = 3 /\ 1 \in 1 .. n - 2 /\ 2 \in 1 .. n - 2 /\ 3 \in 1 .. n
    BY <1>3
  <2> DEFINE inner == old[4].config
             call == old[3]
  <2>2. call \in Calls(U) /\ call.key = "location" /\ Begins(call.config, f[k + 1])
    BY <1>0, <1>3, <2>1, Zenon DEF InBegun
  <2>3. new[3] = Stored(call, Dict(inner)) /\ Len(new) = 3 /\ new[1] = old[1] /\ new[2] = old[2]
    BY <1>3, <2>1, Zenon DEF SameCalls
  <2>4. \A name : name # "location" => SameAt(call.config, new[3].config, name)
    <3> HIDE DEF call, inner
    <3> QED
      BY <2>2, <2>3, StoredIs, Zenon
  <2>5. Begins(new[3].config, f[k + 1])
    <3> HIDE DEF call, inner
    <3> QED
      BY <2>2, <2>4, StillBegins, Zenon
  <2>6. InBegun(new, f, k)
    BY <1>3, <2>3, <2>5, Zenon DEF InBegun, InHttp
  <2> QED
    BY <1>3, <2>3, <2>6, Zenon DEF HoldsPart
<1>4. ~(n = 1)
  OBVIOUS
<1> QED
  BY <1>1, <1>2, <1>3, <1>4, Zenon DEF HoldsPart

\* What is loaded is a part of what a file says.
IsPart(loaded, f) ==
    loaded.status = "loaded" =>
        Len(loaded.servers) <= Len(f) /\ \A i \in DOMAIN loaded.servers : AddsNothing(loaded.servers[i], f[i])

\* A file that is refused shows nothing.
LEMMA RefusedIsPart == \A f : IsPart(Refused, f)
BY DEF IsPart, Refused

\* So it is when the servers are read in part.
LEMMA PartConverted ==
    ASSUME NEW f \in Seq(Seq(Directives)), NEW stack, HoldsPart(stack, f), Len(stack) = 1
    PROVE  IsPart(ParseConfigDict(stack[1].config), f)
<1> DEFINE config == stack[1].config
           http == config["http"].v
<1>1. \/ config = Empty
      \/ "http" \in DOMAIN config /\ IsBlock(config["http"]) /\ SomeBegun(http, f)
  <2>1. ~(Len(stack) = 2) /\ ~(Len(stack) = 3 \/ (Len(stack) = 4 /\ stack[3].key = "location"))
    OBVIOUS
  <2> QED
    BY <2>1, Zenon DEF HoldsPart
<1>2. CASE config = Empty
  <2>1. "http" \notin DOMAIN Empty /\ Dict(Empty).kind = "dict" /\ Dict(Empty).v = Empty /\ "server" \notin DOMAIN Empty
    BY DEF Empty, Dict
  <2>2. RawServers(Empty) = <<>>
    BY <2>1, Zenon DEF RawServers
  <2>3. ParseConfigDict(Empty) = Refused
    BY <2>2, Zenon DEF ParseConfigDict
  <2> QED
    BY <1>2, <2>3, RefusedIsPart, Zenon
<1>3. CASE "http" \in DOMAIN config /\ IsBlock(config["http"]) /\ SomeBegun(http, f)
  <2>1. PICK n \in 0 .. Len(f) : Begun(http, f, n)
    BY <1>3, Zenon DEF SomeBegun
  <2> DEFINE blocks == Values(http, "server")
             can == n # 0 /\ \A i \in 1 .. n : CanConvert(blocks[i].v)
             servers == [i \in 1 .. n |-> ConvertServer(blocks[i].v)]
             loaded == ParseConfigDict(config)
  <2>2. n \in Nat /\ HasBlocks(http, n) /\ n <= Len(f)
    <3>1. n \in Nat /\ n <= Len(f)
      <4>1. Len(f) \in Nat
        BY FileParts, Zenon
      <4> QED
        BY <4>1
    <3> QED
      BY <2>1, <3>1, Zenon DEF Begun
  <2>3. (can => loaded = AppConfig(servers)) /\ (~can => loaded = Refused)
    <3> HIDE DEF config
    <3>1. can => loaded = AppConfig(servers)
      BY <1>3, <2>2, BlocksConverted
    <3>2. ~can => loaded = Refused
      BY <1>3, <2>2, BlocksConverted
    <3> QED
      BY <3>1, <3>2
  <2>4. CASE ~can
    BY <2>3, <2>4, RefusedIsPart, Zenon
  <2>5. CASE can
    <3>1. \A i \in 1 .. n : AddsNothing(ConvertServer(blocks[i].v), f[i])
      <4> SUFFICES ASSUME NEW i \in 1 .. n PROVE AddsNothing(ConvertServer(blocks[i].v), f[i])
        OBVIOUS
      <4>1. Begins(blocks[i].v, f[i]) /\ CanConvert(blocks[i].v)
        BY <2>1, <2>5, Zenon DEF Begun
      <4>2. f[i] \in Seq(Directives)
        <5> DEFINE Q == Seq(Directives)
        <5> HIDE DEF Q
        <5>1. f \in Seq(Q) /\ i \in 1 .. Len(f)
          <6>1. f \in Seq(Q)
            BY DEF Q
          <6>2. Len(f) \in Nat
            BY <6>1
          <6> QED
            BY <2>2, <6>1, <6>2
        <5>2. f[i] \in Q
          BY <5>1
        <5> QED
          BY <5>2 DEF Q
      <4> QED
        BY <4>1, <4>2, BegunAddsNothing, Zenon
    <3>2. Len(servers) = n /\ DOMAIN servers = 1 .. n /\ \A i \in 1 .. n : servers[i] = ConvertServer(blocks[i].v)
      BY <2>2
    <3>3. loaded = AppConfig(servers)
      BY <2>3, <2>5
    <3> HIDE DEF servers, loaded, blocks, can, http
    <3>4. loaded.servers = servers
      BY <3>3 DEF AppConfig
    <3>5. Len(loaded.servers) <= Len(f)
      <4>1. Len(loaded.servers) = n
        BY <3>2, <3>4, Zenon
      <4> QED
        BY <2>2, <4>1, Zenon
    <3>6. \A i \in DOMAIN loaded.servers : AddsNothing(loaded.servers[i], f[i])
      BY <3>1, <3>2, <3>4, Zenon
    <3>7. IsPart(loaded, f)
      BY <3>5, <3>6, Zenon DEF IsPart
    <3> QED
      BY <3>7, Zenon DEF loaded
  <2> QED
    BY <2>4, <2>5
<1> QED
  BY <1>1, <1>2, <1>3

\* At the end of a file cut short the calls return one after the other.
LEMMA BrokenOffGoes ==
    ASSUME NEW f \in Seq(Seq(Directives)), Nested, result = Pending, calls # <<>>,
           ~(pos <= Len(tokens)), HoldsPart(calls, f), Next
    PROVE  /\ tokens' = tokens /\ pos' = pos
           /\ result' = Pending /\ calls' # <<>> => HoldsPart(calls', f)
           /\ result' = Pending /\ calls' = <<>> => IsPart(ParseConfigDict(raw'), f)
           /\ result' # Pending => IsPart(result', f)
<1> DEFINE n == Len(calls)
           outer == calls[n - 1]
           call == Stored(outer, Dict(Top.config))
           new == SubSeq(calls, 1, n - 2) \o <<call>>
<1>1. Kind = "END" /\ After = pos
  BY TokenIs, Zenon DEF Nested
<1>2. CASE Refuse
  BY <1>2, RefusedIsPart DEF Refuse, Refused, Pending
<1>3. CASE CloseBlock /\ ~Refuse
  <2>1. /\ n > 1 /\ calls' = new /\ pos' = After /\ tokens' = tokens /\ result' = result
    BY <1>3 DEF CloseBlock
  <2>2. Len(new) = n - 1 /\ SameCalls(new, calls, n - 2) /\ new[n - 1] = call
    <3> HIDE DEF call
    <3> QED
      BY <2>1, ClosedIs, Zenon
  <2>3. PICK U : calls \in Seq(Calls(U))
    BY DEF Nested, ValuesAreRaw
  <2>4. Top = calls[n]
    BY TopIs, Zenon
  <2>5. HoldsPart(new, f)
    <3>1. new[n - 1] = Stored(calls[n - 1], Dict(calls[n].config))
      BY <2>2, <2>4, Zenon
    <3> HIDE DEF new
    <3> QED
      BY <2>1, <2>2, <2>3, <3>1, PartStored, Zenon
  <2>6. calls' # <<>>
    BY <1>3, CloseBlockNested, Zenon
  <2> QED
    BY <1>1, <2>1, <2>5, <2>6, Zenon
<1>4. CASE FinishParse
  <2>1. n = 1 /\ calls' = <<>> /\ raw' = Top.config /\ pos' = After /\ tokens' = tokens /\ result' = result
    BY <1>4 DEF FinishParse
  <2>2. Top = calls[1]
    BY <2>1, TopIs, Zenon
  <2>3. IsPart(ParseConfigDict(raw'), f)
    BY <2>1, <2>2, PartConverted, Zenon
  <2> QED
    BY <1>1, <2>1, <2>3, Zenon
<1>5. ~ReadName /\ ~ReadArgument /\ ~EndDirective /\ ~OpenBlock /\ ~Convert
  BY <1>1 DEF ReadName, ReadArgument, EndDirective, EndsDirective, OpenBlock, Convert
<1>6. SyntaxError => Refuse
  BY Zenon DEF SyntaxError
<1> QED
  BY <1>2, <1>3, <1>4, <1>5, <1>6, Zenon DEF Next

\* Where the parser is in a file that was cut, and what becomes of it.
CutIsReadInPart ==
    /\ file \in Seq(Seq(Directives))
    /\ edit.kind = "cut" =>
           /\ edit.at \in 0 .. Len(Written(file)) - 1 /\ tokens = SubSeq(Written(file), 1, edit.at)
           /\ result = Pending /\ calls # <<>> =>
                  IF pos <= Len(tokens) THEN Exact(calls, file, Left(Written(file), pos)) ELSE HoldsPart(calls, file)
           /\ result = Pending /\ calls = <<>> => IsPart(ParseConfigDict(raw), file)
           /\ result # Pending => IsPart(result, file)

\* A file cut short is at its beginning when the parser is.
LEMMA StartIsCut == Init => CutIsReadInPart
<1> SUFFICES ASSUME Init, edit.kind = "cut" PROVE CutIsReadInPart
  <2>1. Init => file \in Seq(Seq(Directives))
    BY EditIs
  <2> QED
    BY <2>1, Zenon DEF CutIsReadInPart
<1> DEFINE whole == Written(file)
<1>1. file \in Seq(Seq(Directives)) /\ whole \in Seq(Tokens) /\ edit.at \in 0 .. Len(whole) - 1
  BY EditIs
<1>2. tokens = SubSeq(whole, 1, edit.at) /\ result = Pending
  BY UneditedTokens
<1>3. pos = 1 /\ calls = <<Call>>
  BY StartIs
<1>4. Left(whole, 1) = whole
  <2> HIDE DEF whole
  <2>1. 1 \in 1 .. Len(whole) + 1
    BY <1>1
  <2> QED
    BY <1>1, <2>1, LeftLength, Zenon
<1>5. Exact(calls, file, Left(whole, pos))
  BY <1>1, <1>3, <1>4, StartIsExact, Zenon
<1>6. HoldsPart(calls, file)
  BY <1>1, <1>5, PlaceHoldsPart, Zenon DEF Exact
<1> QED
  BY <1>1, <1>2, <1>3, <1>5, <1>6, Zenon DEF CutIsReadInPart

\* A token of the file cut short is one of the whole file.
LEMMA CutReadingGoes ==
    ASSUME NEW f \in Seq(Seq(Directives)), Nested, result = Pending, calls # <<>>,
           NEW at \in 0 .. Len(Written(f)) - 1, tokens = SubSeq(Written(f), 1, at),
           pos <= Len(tokens), Exact(calls, f, Left(Written(f), pos)), Next
    PROVE  /\ tokens' = tokens /\ result' = Pending /\ calls' # <<>>
           /\ Exact(calls', f, Left(Written(f), pos')) /\ HoldsPart(calls', f)
<1> DEFINE whole == Written(f)
           t == whole[pos]
           more == Left(whole, pos + 1)
<1>1. whole \in Seq(Tokens)
  BY WrittenType
<1> HIDE DEF whole
<1>2. at \in 0 .. Len(whole) /\ tokens = SubSeq(whole, 1, at) /\ pos <= Len(tokens) /\ Exact(calls, f, Left(whole, pos))
  <2>1. Len(whole) \in Nat
    BY <1>1
  <2> QED
    BY <2>1 DEF whole
<1>3. Len(tokens) = at /\ \A i \in 1 .. at : tokens[i] = whole[i]
  BY <1>1, <1>2, FirstsAre
<1>4. pos \in 1 .. at /\ pos \in 1 .. Len(whole) + 1 /\ pos <= Len(whole)
  <2>1. pos \in 1 .. Len(tokens) + 1 /\ Len(whole) \in Nat
    BY <1>1 DEF Nested, Typed
  <2> QED
    BY <1>2, <1>3, <2>1
<1>5. t \in Tokens /\ pos + 1 \in 1 .. Len(whole) + 1 /\ Left(whole, pos) = Join(<<t>>, more)
  BY <1>1, <1>4, LeftGoes, Zenon
<1>6. more \in Seq(Tokens)
  BY <1>1, <1>5, LeftGoes, Zenon
<1>7. ReadsToken(f, t, more)
  <2>1. tokens[pos] = t
    BY <1>3, <1>4, Zenon
  <2> QED
    BY <1>2, <1>5, <1>6, <2>1, Zenon DEF ReadsToken
<1>8. Goes(f, more)
  BY <1>7, StepGoes, Zenon
<1>9. HoldsPart(calls', f)
  <2>1. Exact(calls', f, more)
    BY <1>8, Zenon DEF Goes
  <2> QED
    BY <2>1, PlaceHoldsPart, Zenon DEF Exact
<1> QED
  BY <1>8, <1>9, Zenon DEF Goes, whole

\* Every step keeps that a file cut short is read in part.
LEMMA StepKeepsCut == Nested /\ CutIsReadInPart /\ [Next]_vars => CutIsReadInPart'
<1> SUFFICES ASSUME Nested, CutIsReadInPart, [Next]_vars PROVE CutIsReadInPart'
  OBVIOUS
<1>1. CASE UNCHANGED vars
  BY <1>1 DEF vars, input, CutIsReadInPart
<1>2. CASE Next
  <2>1. file' = file /\ edit' = edit
    BY <1>2 DEF Next, ReadName, ReadArgument, EndDirective, OpenBlock, CloseBlock, FinishParse, SyntaxError, Convert,
                Refuse, input
  <2>2. file \in Seq(Seq(Directives))
    BY DEF CutIsReadInPart
  <2>3. ASSUME edit.kind = "cut"
        PROVE  /\ tokens' = tokens
               /\ result' = Pending /\ calls' # <<>> =>
                      IF pos' <= Len(tokens') THEN Exact(calls', file, Left(Written(file), pos'))
                      ELSE HoldsPart(calls', file)
               /\ result' = Pending /\ calls' = <<>> => IsPart(ParseConfigDict(raw'), file)
               /\ result' # Pending => IsPart(result', file)
    <3>1. /\ edit.at \in 0 .. Len(Written(file)) - 1 /\ tokens = SubSeq(Written(file), 1, edit.at)
          /\ result = Pending /\ calls # <<>> =>
                 IF pos <= Len(tokens) THEN Exact(calls, file, Left(Written(file), pos)) ELSE HoldsPart(calls, file)
          /\ result = Pending /\ calls = <<>> => IsPart(ParseConfigDict(raw), file)
      BY <2>3, Zenon DEF CutIsReadInPart
    <3>2. CASE result = Pending /\ calls # <<>> /\ pos <= Len(tokens)
      BY <1>2, <2>2, <3>1, <3>2, CutReadingGoes, Zenon
    <3>3. CASE result = Pending /\ calls # <<>> /\ ~(pos <= Len(tokens))
      <4>1. HoldsPart(calls, file)
        BY <3>1, <3>3, Zenon
      <4> QED
        BY <1>2, <2>2, <3>3, <4>1, BrokenOffGoes, Zenon
    <3>4. CASE result = Pending /\ calls = <<>>
      <4>1. Convert
        BY <1>2, <3>4, Zenon DEF Next, ReadName, ReadArgument, EndDirective, OpenBlock, CloseBlock, FinishParse,
             SyntaxError, Closes, ReadingName, ReadingArgs, Parsing
      <4>2. result' = ParseConfigDict(raw) /\ tokens' = tokens /\ calls' = calls /\ raw' = raw
        BY <4>1 DEF Convert
      <4> QED
        BY <3>1, <3>4, <4>2, Zenon
    <3>5. CASE result # Pending
      BY <1>2, <3>5, Zenon DEF Next, ReadName, ReadArgument, EndDirective, OpenBlock, CloseBlock, FinishParse,
           SyntaxError, Closes, ReadingName, ReadingArgs, Parsing, Convert
    <3> QED
      BY <3>2, <3>3, <3>4, <3>5
  <2> QED
    BY <2>1, <2>2, <2>3, Zenon DEF CutIsReadInPart
<1> QED
  BY <1>1, <1>2

\* A file that was cut short may be loaded, and then what is loaded is a part of what the
\* file says: no server, no listener but the default one, no certificate, key or
\* intermediate that the whole file does not ask for in that place (load_config;
\* _parse_block returns at the end of the input as at a brace).
THEOREM CutFilesLoadInPart == Spec => []CutFilesAddNothing
<1>1. CutIsReadInPart => CutFilesAddNothing
  <2>1. Loaded => result # Pending /\ result.status = "loaded"
    BY DEF Loaded, Pending
  <2> QED
    BY <2>1, Zenon DEF CutIsReadInPart, CutFilesAddNothing, IsPart, AddsNothing
<1>2. ReadingIsSound => Nested
  BY DEF ReadingIsSound
<1> QED
  BY <1>1, <1>2, StartIsCut, StepKeepsCut, ReadingStaysSound, PTL DEF Spec

=============================================================================
