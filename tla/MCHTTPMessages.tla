--------------------------- MODULE MCHTTPMessages ---------------------------
(***************************************************************************)
(* Instances of HTTPMessages for TLC.                                      *)
(***************************************************************************)
EXTENDS HTTPMessages

PathChars == {"/", "a", ".", "?", "%/", "%.", "%a", "%?"}
MCChars == PathChars \union {"[", "%0"}
MCUnescaped == [c \in MCChars |-> CASE c = "%/" -> "/"
                                    [] c = "%0" -> "nul"
                                    [] c = "%." -> "."
                                    [] c = "%a" -> "a"
                                    [] c = "%?" -> "?"
                                    [] OTHER -> c]

-----------------------------------------------------------------------------
(* Sites *)

\* Roots: two siblings, and one below the other.
R == <<<<"r">>>>
S == <<<<"s">>>>
Below == <<<<"r">>, <<"a">>>>
MCDefaultRoot == <<<<"h">>>>
MCIndexPath == <<"/", "i">>

Slash(root) == [path |-> <<"/">>, root |-> root]
A(root) == [path |-> <<"/", "a">>, root |-> root]
ASlash(root) == [path |-> <<"/", "a", "/">>, root |-> root]
Unnamed(root) == [path |-> <<>>, root |-> root]

MCSites == {<<Slash(R)>>, <<A(R)>>, <<A(S), Slash(R)>>,
            <<ASlash(Below), Slash(R), A(S)>>, <<A(S), ASlash(R)>>,
            <<Unnamed(S), A(R)>>}

\* Files with one and two segments below each root, and above the roots.
Names == {<<"a">>, <<"a", "a">>, <<"i">>}
Tops == Names \union {<<"r">>, <<"s">>, <<"h">>}
MCFiles == [1 .. 1 -> Names]
    \union {f \in [1 .. 2 -> Tops] : f[2] \in Names}
    \union {f \in [1 .. 3 -> Tops] : f[2] \in Names /\ f[3] \in Names}

\* URLs of up to three characters, of four that begin with a slash, and of five that
\* do and have the characters of names; with brackets and NULs, of up to two behind one
\* slash and of up to three behind two.
NameChars == {"/", "a", ".", "%/", "%.", "%a"}
RaisingChars == {"/", "a", "[", "%0"}
UpToLength(n, chars) == UNION {[1 .. k -> chars] : k \in 0 .. n}
MCUrls == UpToLength(3, PathChars)
    \union {<<"/">> \o u : u \in UpToLength(3, PathChars) \union [1 .. 4 -> NameChars]}
    \union {<<"/">> \o u : u \in UpToLength(2, MCChars)}
    \union {<<"/", "/">> \o u : u \in UpToLength(3, RaisingChars)}

-----------------------------------------------------------------------------
(* Requests *)

Request(line, headers, declared, body, statuses, keeps) ==
    [line |-> line, headers |-> headers, declared |-> declared, body |-> body,
     statuses |-> statuses, keeps |-> keeps]
Get == Start("GET", <<"/", "a">>)
Keep == <<Connection("keep-alive")>>
Close == <<Connection("close")>>

\* Bodies that are empty, that look like a request, and that hold an empty line.
Bodies == {<<>>, <<Get, Eol, Eol>>, <<Byte, Eol, Eol>>}

\* The last of two headers counts; a glued header is another header.
Continuing == {Request(<<Get>>, <<Keep>>, TRUE, body, {200}, TRUE) : body \in Bodies}
    \union {Request(<<Start("HEAD", <<"/">>)>>, <<Keep>>, FALSE, <<>>, {200}, TRUE),
            Request(<<Get, Byte>>, <<Close, Keep, <<Byte, ContentLength(9)>>>>, FALSE, <<>>, {200}, TRUE)}
Closing ==
    {Request(<<Get>>, <<>>, FALSE, <<>>, {200}, FALSE),
     Request(<<Get>>, <<Keep, Close>>, TRUE, <<Byte>>, {200}, FALSE),
     Request(<<Start("POST", <<"/">>)>>, <<Keep>>, TRUE, <<Byte, Byte>>, {405}, TRUE),
     Request(<<Byte, Get>>, <<Keep>>, FALSE, <<>>, {405}, TRUE),
     Request(<<Start("GET", <<"/", "a", ".">>)>>, <<Keep>>, FALSE, <<>>, {404}, TRUE),
     Request(<<Start("HEAD", <<"/", ".", ".", "/", "a">>)>>, <<Keep>>, FALSE, <<>>, {403}, TRUE)}
Refused ==
    {Request(line, <<Keep>>, FALSE, <<>>, {400}, TRUE) : line \in {<<>>, <<Byte>>, Keep \o <<Get>>}}
    \union {Request(<<Get>>, <<header>>, FALSE, <<>>, {400}, TRUE) :
                header \in {<<Byte>>, <<ContentLength(1), Byte>>}}

\* Two requests to put any one behind, and one to put behind a refused one.
Leading == {Request(<<Get>>, <<Keep>>, TRUE, <<Get, Eol, Eol>>, {200}, TRUE),
            Request(<<Start("HEAD", <<"/">>)>>, <<Keep>>, FALSE, <<>>, {200}, TRUE)}
Behind == Request(<<Get>>, <<Keep>>, TRUE, <<Byte, Eol, Eol>>, {200}, TRUE)

\* One to three requests: closing ones anywhere, a refused one before another.
AllRequests == Continuing \union Closing \union Refused
Pipelines ==
    {<<a>> : a \in AllRequests}
        \union {<<a, b>> : a \in AllRequests, b \in AllRequests}
        \union {<<a, b, c>> : a \in Leading, b \in Leading, c \in AllRequests}
        \union {<<a, b, Behind>> : a \in Closing, b \in Refused}

On(sites, pipelines) == [locations : sites, requests : pipelines]

\* Pipelines on one site, and one request for each URL on every site.
MCConversations ==
    On({<<A(S), Slash(R)>>}, Pipelines)
        \union On(MCSites, {<<Request(<<Start("GET", u)>>, <<>>, FALSE, <<>>, {200, 403, 404}, FALSE)>> :
                                u \in MCUrls})

\* A request with a negative Content-Length.
NegativeConversations ==
    On({<<Slash(R)>>}, {<<Request(<<Get>>, <<Keep, <<ContentLength(n)>>>>, FALSE, <<>>, {400}, TRUE)>> :
                            n \in -7 .. -1})
=============================================================================
