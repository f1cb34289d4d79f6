--------------------------- MODULE MCConfigParser ---------------------------
(***************************************************************************)
(* Instances of ConfigParser for TLC.                                      *)
(***************************************************************************)
EXTENDS ConfigParser, FiniteSetsExt

Directive(name, args) == [name |-> name, args |-> args]
Location(path, roots) == [path |-> path, roots |-> roots]

\* The directives that files with edits are made of, and all of them.
Few == {Directive("listen", <<"80">>), Directive("listen", <<"443", "ssl">>),
        Directive("ssl_certificate", <<"c">>), Directive("ssl_certificate_key", <<"k">>),
        Location("/", <<"r">>)}
All == Few \union
       {Directive("listen", <<"c">>), Directive("server_name", <<"r">>), Directive("server_name", <<"s">>),
        Directive("ssl_certificate_chain", <<"i">>), Directive("ssl_certificate_chain", <<"j">>),
        Location("/", <<"s", "r">>), Location("/a", <<>>)}

UpTo(n, S) == UNION {[1 .. m -> S] : m \in 0 .. n}
\* One server of up to three directives; two servers of one or none; no server.
MCFiles == {<<>>} \union {<<s>> : s \in UpTo(3, All)} \union {<<s, t>> : s \in UpTo(1, All), t \in UpTo(1, All)}
MCEditedFiles == {<<>>} \union {<<s>> : s \in UpTo(2, Few)} \union {<<s, t>> : s \in UpTo(1, Few), t \in UpTo(1, Few)}

MCNumerals == {"80", "443"}
MCWords == MCNumerals \union
           {"http", "server", "listen", "ssl", "server_name", "ssl_certificate", "ssl_certificate_key",
            "ssl_certificate_chain", "location", "root", "/", "/a", "c", "k", "i", "j", "r", "s"}
MCExtras == {LBrace, RBrace, Semicolon, Word("c"), Word("server"), Word("location"), Lexeme("STRING", "c"), Lexeme("STRING", ""),
             Lexeme("COMMENT", "#"), Lexeme("WHITESPACE", " "), Lexeme("OTHER", "?")}
=============================================================================
