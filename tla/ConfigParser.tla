----------------------------- MODULE ConfigParser -----------------------------
(***************************************************************************)
(* load_config: the lexer's tokens, the recursive descent of               *)
(* ConfigParser._parse_block with its stack of calls made explicit, and    *)
(* the conversion of the raw dictionary into server blocks.                *)
(*                                                                         *)
(* A text is a sequence of lexemes, what the regular expressions match one *)
(* after the other, strings without their quotes.  It is a file as one     *)
(* would write it, cut short, or with one lexeme too many.                 *)
(*                                                                         *)
(* Raw values carry their kind: "args" is a list of strings, "dict" a      *)
(* dictionary, "many" a list of those.                                     *)
(*                                                                         *)
(* A definition called Name_Change is Name with a bug.                     *)
(***************************************************************************)
EXTENDS Naturals, FiniteSets, Sequences, SequencesExt

CONSTANTS
    Words,          \* the texts of words and strings, "" excluded
    Numerals,       \* the words that int() reads
    Files,          \* the files that are written: sequences of servers, each a
                    \* sequence of directives [name, args] and locations
                    \* [path, roots], the arguments of its root directives
    EditedFiles,    \* those of which there are cut and garbled versions
    Extras          \* the lexemes that a garbled version has one of

VARIABLES
    file,           \* what was meant
    edit,           \* what was done to it: [kind, at, lexeme]
    tokens,         \* ConfigParser.tokens
    pos,            \* ConfigParser.pos, from 1
    calls,          \* the active calls of _parse_block, the innermost last: what
                    \* they read so far, key and args of the directive they are in
    raw,            \* what parse() returned
    result          \* what load_config does, and the server blocks it returns

input == <<file, edit>>
vars == <<input, tokens, pos, calls, raw, result>>

-----------------------------------------------------------------------------
(* ConfigLexer.tokenize *)

Lexeme(kind, value) == [kind |-> kind, value |-> value]
Word(value) == Lexeme("WORD", value)
LBrace == Lexeme("LBRACE", "{")
RBrace == Lexeme("RBRACE", "}")
Semicolon == Lexeme("SEMICOLON", ";")

\* A string may be empty.
Arguments == Words \union {""}
Lexemes == {LBrace, RBrace, Semicolon}
    \union [kind : {"WORD"}, value : Words] \union [kind : {"STRING"}, value : Arguments]
    \union [kind : {"COMMENT", "WHITESPACE", "OTHER"}, value : STRING]

\* Directives as they are written, with an argument at least.
Directives == [name : Words \ {"location"}, args : Seq(Words) \ {<<>>}]
    \union [path : Words, roots : Seq(Words)]

ASSUME ConfigParserAssumption ==
    /\ Words \subseteq STRING /\ "" \notin Words
    /\ {"http", "server", "location", "root"} \subseteq Words
    /\ Numerals \subseteq Words
    /\ Files \subseteq Seq(Seq(Directives)) /\ EditedFiles \subseteq Files
    /\ Extras \subseteq Lexemes

\* The elements of a sequence at some positions, in order.
Picked(kept, s, i, positions) == IF i \in positions THEN Append(kept, s[i]) ELSE kept
Elements(s, positions) ==
    LET kept[i \in 0 .. Len(s)] ==
            IF i = 0 THEN <<>> ELSE Picked(kept[i - 1], s, i, positions)
    IN  kept[Len(s)]

IsLayout_Blanks(lexeme) == lexeme.kind = "WHITESPACE"
IsLayout(lexeme) == lexeme.kind \in {"WHITESPACE", "COMMENT"}
IsToken(lexeme) == ~IsLayout(lexeme)
HasUnmatched(text) == \E i \in DOMAIN text : text[i].kind = "OTHER"
Tokenize(text) == Elements(text, {i \in DOMAIN text : IsToken(text[i])})

-----------------------------------------------------------------------------
(* Raw values *)

Args(words) == [kind |-> "args", v |-> words]
Dict(entries) == [kind |-> "dict", v |-> entries]
Many(items) == [kind |-> "many", v |-> items]
Empty == [k \in {} |-> Args(<<>>)]

IsTrue(value) == DOMAIN value.v # {}
With(config, key, value) ==
    [k \in DOMAIN config \union {key} |-> IF k = key THEN value ELSE config[k]]

\* _append_repeated: to a list that does not hold strings only, the empty list
\* included, it appends.
AppendRepeated_Replaces(config, key, value) == With(config, key, value)
AppendRepeated(config, key, value) ==
    IF key \notin DOMAIN config THEN With(config, key, value)
    ELSE LET existing == config[key]
         IN  With(config, key,
                  Many(CASE existing.kind = "many" -> Append(existing.v, value)
                         [] ~IsTrue(existing) /\ existing.kind = "args" -> <<value>>
                         [] OTHER -> <<existing, value>>))

-----------------------------------------------------------------------------
(* ConfigParser._parse_block *)

Pending == [status |-> "pending", servers |-> <<>>]
Refused == [status |-> "refused", servers |-> <<>>]      \* an exception
AppConfig(servers) == [status |-> "loaded", servers |-> servers]

Call == [config |-> Empty, key |-> "", args |-> <<>>]
Top == Last(calls)
Replace(call) == Front(calls) \o <<call>>

Kind == IF pos <= Len(tokens) THEN tokens[pos].kind ELSE "END"
Value == tokens[pos].value
After_StaysAtBrace == IF Kind \in {"END", "RBRACE"} THEN pos ELSE pos + 1
After == IF Kind = "END" THEN pos ELSE pos + 1
Parsing == result = Pending /\ calls # <<>>
ReadingName == Parsing /\ Top.key = ""
ReadingArgs == Parsing /\ Top.key # ""

Refuse == result' = Refused /\ UNCHANGED <<input, tokens, pos, calls, raw>>

ReadName ==
    /\ ReadingName /\ Kind = "WORD"
    /\ calls' = Replace([Top EXCEPT !.key = Value, !.args = <<>>])
    /\ pos' = After
    /\ UNCHANGED <<input, tokens, raw, result>>

ReadArgument ==
    /\ ReadingArgs /\ Kind \in {"WORD", "STRING"}
    /\ calls' = Replace([Top EXCEPT !.args = Append(@, Value)])
    /\ pos' = After
    /\ UNCHANGED <<input, tokens, raw, result>>

EndsDirective_AlsoEnd(kind) == kind \in {"SEMICOLON", "END"}
EndsDirective(kind) == kind = "SEMICOLON"

EndDirective ==
    /\ ReadingArgs /\ EndsDirective(Kind)
    /\ calls' = Replace([Top EXCEPT !.config = AppendRepeated(@, Top.key, Args(Top.args)), !.key = ""])
    /\ pos' = After
    /\ UNCHANGED <<input, tokens, raw, result>>

OpenBlock ==
    /\ ReadingArgs /\ Kind = "LBRACE" /\ Len(Top.args) <= 1
    /\ calls' = Append(calls, Call)
    /\ pos' = After
    /\ UNCHANGED <<input, tokens, raw, result>>

\* The call that opened a block stores it: under its argument in the dictionary
\* of its key, or as one more value of its key.
Stored(call, nested) ==
    LET existing == IF call.key \in DOMAIN call.config THEN call.config[call.key] ELSE Dict(Empty)
        config == IF call.args = <<>> THEN AppendRepeated(call.config, call.key, nested)
                  ELSE With(call.config, call.key, Dict(With(existing.v, call.args[1], nested)))
    IN  [call EXCEPT !.config = config, !.key = ""]
CanStore(call) ==
    call.args # <<>> /\ call.key \in DOMAIN call.config => call.config[call.key].kind = "dict"

\* A block ends with its brace, and with the input.
Closes == ReadingName /\ Kind \in {"RBRACE", "END"}

CloseBlock ==
    /\ Closes /\ Len(calls) > 1
    /\ LET outer == calls[Len(calls) - 1]
       IN  IF CanStore(outer)
           THEN /\ calls' = SubSeq(calls, 1, Len(calls) - 2) \o <<Stored(outer, Dict(Top.config))>>
                /\ pos' = After
                /\ UNCHANGED <<input, tokens, raw, result>>
           ELSE Refuse

\* The outermost call returns at any brace it meets.
FinishParse ==
    /\ Closes /\ Len(calls) = 1
    /\ raw' = Top.config
    /\ calls' = <<>>
    /\ pos' = After
    /\ UNCHANGED <<input, tokens, result>>

SyntaxError ==
    /\ \/ ReadingName /\ Kind \notin {"WORD", "RBRACE", "END"}
       \/ ReadingArgs /\ Kind \in {"RBRACE", "END"}
       \/ ReadingArgs /\ Kind = "LBRACE" /\ Len(Top.args) > 1
    /\ Refuse

-----------------------------------------------------------------------------
(* parse_config_dict *)

\* _directive_values: one value for each directive.  A dictionary raises.
Values(block, name) ==
    IF name \notin DOMAIN block THEN <<>>
    ELSE IF block[name].kind = "many" THEN block[name].v ELSE <<block[name]>>
\* No dictionary is asked for its values or for its first argument.
HasValues(block, name, used) ==
    /\ name \in DOMAIN block => block[name].kind # "dict"
    /\ \A i \in DOMAIN Values(block, name) :
           i \in used => Values(block, name)[i].kind = "args" \/ ~IsTrue(Values(block, name)[i])

FirstArg_OfLast(block, name, default) ==
    LET values == Values(block, name)
    IN  IF values = <<>> \/ ~IsTrue(Last(values)) THEN default ELSE Last(values).v[1]
FirstArg(block, name, default) ==
    LET values == Values(block, name)
    IN  IF values = <<>> \/ ~IsTrue(values[1]) THEN default ELSE values[1].v[1]

DefaultListens == <<[port |-> "8080", ssl |-> FALSE]>>
ParseListen(block) ==
    LET values == Values(block, "listen")
        given == Elements(values, {i \in DOMAIN values : IsTrue(values[i])})
        listens == [i \in DOMAIN given |-> [port |-> given[i].v[1], ssl |-> "ssl" \in ToSet(Tail(given[i].v))]]
    IN  IF listens = <<>> THEN DefaultListens ELSE listens

\* A "location" that is not a dictionary leaves the server without locations.
ParseLocations(block) ==
    LET locations == IF "location" \in DOMAIN block THEN block["location"] ELSE Dict(Empty)
        paths == {p \in DOMAIN locations.v : locations.v[p].kind = "dict"}
    IN  IF locations.kind # "dict" THEN Empty
        ELSE IF paths = {} THEN [p \in {"/"} |-> "html"]
        ELSE [p \in paths |-> FirstArg(locations.v[p].v, "root", "html")]

NoTLS == [certificate |-> "", key |-> "", chain |-> <<>>]
ParseTLS(block) ==
    LET certificate == FirstArg(block, "ssl_certificate", "")
        values == Values(block, "ssl_certificate_chain")
        chain == Elements(values, {i \in DOMAIN values : IsTrue(values[i])})
    IN  IF certificate = "" THEN NoTLS
        ELSE [certificate |-> certificate, key |-> FirstArg(block, "ssl_certificate_key", ""),
              chain |-> [i \in DOMAIN chain |-> chain[i].v[1]]]

\* What a server block must satisfy for none of the four functions to raise.
NeedsBoth_Not(block) == TRUE
NeedsBoth(block) ==
    (FirstArg(block, "ssl_certificate", "") = "") = (FirstArg(block, "ssl_certificate_key", "") = "")
CanConvert(block) ==
    /\ HasValues(block, "listen", Nat)
    /\ \A i \in DOMAIN Values(block, "listen") :
           LET listen == Values(block, "listen")[i] IN IsTrue(listen) => listen.v[1] \in Numerals
    /\ \A name \in {"server_name", "ssl_certificate", "ssl_certificate_key"} : HasValues(block, name, {1})
    /\ "location" \in DOMAIN block /\ block["location"].kind = "dict" =>
           \A p \in DOMAIN block["location"].v :
               LET location == block["location"].v[p] IN location.kind = "dict" => HasValues(location.v, "root", {1})
    /\ NeedsBoth(block)
    /\ FirstArg(block, "ssl_certificate", "") # "" => HasValues(block, "ssl_certificate_chain", Nat)

ConvertServer(block) ==
    [listens |-> ParseListen(block), name |-> FirstArg(block, "server_name", "localhost"),
     locations |-> ParseLocations(block), tls |-> ParseTLS(block)]

\* The blocks of the http block; anything else under "server" is passed over.
IsBlock(value) == value.kind = "dict"
RawServers(config) ==
    LET http == IF "http" \in DOMAIN config THEN config["http"] ELSE Dict(Empty)
        server == http.v["server"]
    IN  IF http.kind # "dict" \/ "server" \notin DOMAIN http.v THEN <<>>
        ELSE CASE IsBlock(server) -> <<server>>
               [] server.kind = "many" -> Elements(server.v, {i \in DOMAIN server.v : IsBlock(server.v[i])})
               [] OTHER -> <<>>

ParseConfigDict(config) ==
    LET servers == RawServers(config)
    IN  IF servers = <<>> \/ \E i \in DOMAIN servers : ~CanConvert(servers[i].v) THEN Refused
        ELSE AppConfig([i \in DOMAIN servers |-> ConvertServer(servers[i].v)])

Convert ==
    /\ result = Pending /\ calls = <<>>
    /\ result' = ParseConfigDict(raw)
    /\ UNCHANGED <<input, tokens, pos, calls, raw>>

-----------------------------------------------------------------------------
(* The files, as one would write them *)

Each(s, Op(_)) == FlattenSeq([i \in DOMAIN s |-> Op(s[i])])

Simple(name, args) == <<Word(name)>> \o [i \in DOMAIN args |-> Word(args[i])] \o <<Semicolon>>
Block(words, inside) == [i \in DOMAIN words |-> Word(words[i])] \o <<LBrace>> \o inside \o <<RBrace>>
IsLocation(d) == "path" \in DOMAIN d
WriteRoot(root) == Simple("root", <<root>>)
Write(d) == IF IsLocation(d) THEN Block(<<"location", d.path>>, Each(d.roots, WriteRoot))
            ELSE Simple(d.name, d.args)
WriteServer(server) == Block(<<"server">>, Each(server, Write))
Written(servers) == Block(<<"http">>, Each(servers, WriteServer))

NoEdit == [kind |-> "none", at |-> 0, lexeme |-> Semicolon]
Edits(servers) ==
    LET places == 0 .. Len(Written(servers)) - 1
    IN  [kind : {"cut"}, at : places, lexeme : {Semicolon}]
        \union [kind : {"extra"}, at : places, lexeme : Extras]

Text == LET whole == Written(file)
        IN  CASE edit.kind = "none" -> whole
              [] edit.kind = "cut" -> SubSeq(whole, 1, edit.at)
              [] edit.kind = "extra" -> InsertAt(whole, edit.at + 1, edit.lexeme)

\* The lexer runs to its end before the parser begins; a character that no
\* pattern matches is a SyntaxError.
Init ==
    /\ \/ file \in Files /\ edit = NoEdit
       \/ file \in EditedFiles /\ edit \in Edits(file)
    /\ \E text \in {Text} :
          /\ tokens = Tokenize(text)
          /\ result = IF HasUnmatched(text) THEN Refused ELSE Pending
    /\ pos = 1
    /\ calls = <<Call>>
    /\ raw = Empty

Next ==
    \/ ReadName \/ ReadArgument \/ EndDirective \/ OpenBlock
    \/ CloseBlock \/ FinishParse \/ SyntaxError \/ Convert

Spec == Init /\ [][Next]_vars

-----------------------------------------------------------------------------
(* Properties *)

Loaded == result.status = "loaded"

TypeOK ==
    /\ tokens \in Seq(Lexemes)
    /\ pos \in 1 .. Len(tokens) + 1
    /\ \A i \in DOMAIN calls : /\ calls[i].key \in Words \union {""}
                               /\ calls[i].args \in Seq(Arguments)
    /\ \A i \in 1 .. Len(calls) - 1 : calls[i].key # ""
    /\ Loaded => /\ result.servers # <<>>
                 /\ \A i \in DOMAIN result.servers :
                        /\ result.servers[i].listens # <<>>
                        /\ (result.servers[i].tls.certificate = "") = (result.servers[i].tls.key = "")

\* What a server's directives say: every listen in its order, of the others the
\* first, of locations with the same path the last.
Named(server, name) ==
    Elements(server, {i \in DOMAIN server : ~IsLocation(server[i]) /\ server[i].name = name})
First(directives, default) == IF directives = <<>> THEN default ELSE directives[1].args[1]
Listens(server) == [i \in DOMAIN Named(server, "listen") |->
                       LET args == Named(server, "listen")[i].args
                       IN  [port |-> args[1], ssl |-> Contains(Tail(args), "ssl")]]
Locations(server) ==
    LET written == Elements(server, {i \in DOMAIN server : IsLocation(server[i])})
    IN  [p \in {written[i].path : i \in DOMAIN written} |->
            LET roots == written[SelectLastInSeq(written, LAMBDA d : d.path = p)].roots
            IN  IF roots = <<>> THEN "html" ELSE roots[1]]
Certificate(server) == First(Named(server, "ssl_certificate"), "")
Key(server) == First(Named(server, "ssl_certificate_key"), "")
Chain(server) == [i \in DOMAIN Named(server, "ssl_certificate_chain") |->
                     Named(server, "ssl_certificate_chain")[i].args[1]]

IsSound(server) ==
    /\ \A i \in DOMAIN Listens(server) : Listens(server)[i].port \in Numerals
    /\ (Certificate(server) = "") = (Key(server) = "")
OrDefault(s, default) == IF DOMAIN s = {} THEN default ELSE s
Meaning(server) ==
    [listens |-> OrDefault(Listens(server), DefaultListens),
     name |-> First(Named(server, "server_name"), "localhost"),
     locations |-> OrDefault(Locations(server), [p \in {"/"} |-> "html"]),
     tls |-> IF Certificate(server) = "" THEN NoTLS
             ELSE [certificate |-> Certificate(server), key |-> Key(server), chain |-> Chain(server)]]

\* A file as written, blanks and comments anywhere in it, is loaded as what it
\* says, or refused if it cannot be.
FilesMeanWhatTheySay ==
    /\ edit.kind # "cut"
    /\ edit.kind = "extra" => edit.lexeme.kind \in {"COMMENT", "WHITESPACE"}
    /\ result # Pending
    => result = IF file # <<>> /\ \A i \in DOMAIN file : IsSound(file[i])
                THEN AppConfig([i \in DOMAIN file |-> Meaning(file[i])])
                ELSE Refused

\* A file cut short may be loaded, but nothing listens or is certified in a way
\* the whole file does not ask for: servers, listeners, certificates and chains
\* are missing at most, and a server without a listener gets the default one.
CutFilesAddNothing ==
    edit.kind = "cut" /\ Loaded =>
        /\ Len(result.servers) <= Len(file)
        /\ \A i \in DOMAIN result.servers :
               /\ \/ result.servers[i].listens = DefaultListens
                  \/ IsPrefix(result.servers[i].listens, Listens(file[i]))
               /\ result.servers[i].tls # NoTLS =>
                      /\ result.servers[i].tls.certificate = Certificate(file[i])
                      /\ result.servers[i].tls.key = Key(file[i])
                      /\ IsPrefix(result.servers[i].tls.chain, Chain(file[i]))

\* A block is open for each brace that is; once more are closed, the parser has
\* returned and the rest of the file counts for nothing: only then is anything
\* unread when it returns.
Count(kind) == Cardinality({i \in 1 .. pos - 1 : tokens[i].kind = kind})
BracesMatch ==
    pos <= Len(tokens) =>
        IF calls # <<>> THEN Count("LBRACE") = Count("RBRACE") + (Len(calls) - 1)
        ELSE Count("RBRACE") = Count("LBRACE") + 1 /\ tokens[pos - 1] = RBrace

\* What the parser holds at any token, and what a loaded configuration is made
\* of whatever the file looks like: types, a listener for each server, a key for
\* each certificate, and nothing unread without one brace too many.
ParserInv == TypeOK /\ BracesMatch

\* One lexeme too many leaves the servers that were closed before it as they
\* were, whatever becomes of the rest of the file.  The one exception is the word
\* "location" as the name of the second server: the first has no name, so the
\* second is stored in it, and its directives become the first one's locations.
ClosedBefore(n) == {i \in DOMAIN file : 2 + Len(Each(SubSeq(file, 1, i), WriteServer)) <= n}
SameButLocations(loaded, meant) == [loaded EXCEPT !.locations = meant.locations] = meant
EarlierServersAreKept ==
    edit.kind = "extra" /\ Loaded =>
        \A i \in ClosedBefore(edit.at) :
            /\ i \in DOMAIN result.servers
            /\ \/ result.servers[i] = Meaning(file[i])
               \/ /\ i = 1 /\ edit.lexeme.value = "location"
                  /\ SameButLocations(result.servers[i], Meaning(file[i]))
=============================================================================
