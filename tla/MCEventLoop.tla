---------------------------- MODULE MCEventLoop ----------------------------
(***************************************************************************)
(* Instances of EventLoop for TLC: client p of the plain listener and      *)
(* client t of the ssl listener.                                           *)
(***************************************************************************)
EXTENDS EventLoop

CONSTANTS p, t

U(kind, id) == [kind |-> kind, id |-> id]
Hello == U("hello", 0)
Client(script, prompt) == [script |-> script, prompt |-> prompt]

\* Pipelined requests, one in two parts and one behind a closing request; a
\* request that is refused; a request whose file cannot be read.
PlainScripts == {<<U("part", 1), U("keep", 1), U("close", 2), U("keep", 3)>>,
                 <<U("keep", 1), U("bad", 2)>>,
                 <<U("keep", 1), U("boom", 2)>>}

\* Pipelined requests in a session; a session that fails between two requests.
TLSScripts == {<<Hello, U("keep", 1), U("close", 2)>>,
               <<Hello, U("keep", 1), U("junk", 0), U("keep", 2)>>}

AnyClients ==
    {[c \in {p, t} |-> Client(IF c = t THEN tls ELSE plain, FALSE)] :
        plain \in PlainScripts, tls \in TLSScripts}

\* A client whose requests are all the server's to answer, in the middle of
\* everything the other may do or not do.  Two replies to a client that does
\* not read do not fit its kernel buffer of one: half-closed, it is readable
\* for ever and never writable.
OnePromptClient ==
    {[c \in {p, t} |-> IF c = t THEN Client(<<Hello, U("close", 1)>>, FALSE)
                       ELSE Client(<<U("part", 1), U("keep", 1), U("close", 2)>>, TRUE)],
     [c \in {p, t} |-> IF c = t THEN Client(<<Hello, U("close", 1)>>, TRUE)
                       ELSE Client(<<U("keep", 1), U("close", 2)>>, FALSE)]}

\* A request that is refused, and more bytes behind it.
RudeClients == {[c \in {p} |-> Client(<<U("bad", 1), U("part", 2)>>, FALSE)]}
=============================================================================
