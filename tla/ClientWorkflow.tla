--------------------------- MODULE ClientWorkflow ---------------------------
(***************************************************************************)
(* The client's workflow, in client_side.py and again in scripts/demo.py:  *)
(* a plain request, then the same over TLS, each on a connection of its    *)
(* own with a 5 second timeout on every call.  The server answers each     *)
(* and closes, unless it quits before: the event loop closes connections   *)
(* with what they have not sent when a session fails, a client resets, or  *)
(* the loop ends (module EventLoop).  DemoProgram composes the two.        *)
(*                                                                         *)
(* Bytes are counted, not told apart.  The handshake itself is module      *)
(* ToyTLSConnection; here it is the flight of records that completes it.   *)
(*                                                                         *)
(* A definition called Name_Change is Name with a bug.                     *)
(***************************************************************************)
EXTENDS Naturals, Sequences

CONSTANTS
    HeaderLength,   \* of the response, up to and with the empty line
    BodyLength,     \* as Content-Length declares it
    Flight,         \* length of ServerHello and ServerAuth on the wire
    Overhead,       \* what protecting and framing add to a plaintext
    RecvSize        \* the 4096 of recv

ASSUME LengthsAssumption ==
    /\ HeaderLength \in Nat \ {0} /\ BodyLength \in Nat
    /\ Flight \in Nat \ {0} /\ Overhead \in Nat /\ RecvSize \in Nat \ {0}

VARIABLES
    kind,           \* the connection main() is at: "plain" or "tls"
    at,             \* where the client is
    got,            \* bytes it received on this connection
    sent,           \* bytes the server sent on it
    asked,          \* has the server received the request?
    server,         \* the server's end: "open", "closed", or "reset"
    quit,           \* history: did it close before it sent all it should?
    returned        \* history: the length of each response that was returned

clientVars == <<kind, at, got, sent, asked, server, quit, returned>>
connectionVars == <<sent, asked, server, quit>>

Response == HeaderLength + BodyLength
\* One response is one application record.
Total(k) == IF k = "plain" THEN Response ELSE Flight + Response + Overhead

-----------------------------------------------------------------------------
(* The server's end of the connection *)

\* A hello is answered with the flight, a request with the response.
Allowed == IF asked THEN Total(kind) ELSE IF kind = "tls" /\ at # "connect" THEN Flight ELSE 0

ServerSends ==
    /\ server = "open" /\ at # "connect"
    /\ sent' \in sent + 1 .. Allowed
    /\ UNCHANGED <<kind, at, got, asked, server, quit, returned>>

ServerCloses ==
    /\ server = "open" /\ sent = Total(kind)
    /\ server' = "closed"
    /\ UNCHANGED <<kind, at, got, sent, asked, quit, returned>>

\* A close with unread input, or a process that is killed, may reset.
ServerQuits ==
    /\ server = "open" /\ at # "connect" /\ sent < Total(kind)
    /\ server' \in {"closed", "reset"}
    /\ quit' = TRUE
    /\ UNCHANGED <<kind, at, got, sent, asked, returned>>

-----------------------------------------------------------------------------
(* The client *)

ClientRaises == at' = "raised" /\ UNCHANGED <<kind, got, connectionVars, returned>>

\* create_connection needs somebody who listens, and may fail anyway.  Sending
\* fails if the server's end is seen to be gone; otherwise it succeeds.
Connect(reachable) ==
    /\ at = "connect"
    /\ \/ /\ reachable
          /\ at' = IF kind = "plain" THEN "request" ELSE "handshake"
          /\ UNCHANGED <<kind, got, connectionVars, returned>>
       \/ ClientRaises

SendRequest ==
    /\ at = "request"
    /\ \/ /\ at' = "reading" /\ asked' = (server = "open")
          /\ UNCHANGED <<kind, got, sent, server, quit, returned>>
       \/ server # "open" /\ ClientRaises

\* tls.read_plaintext, so far: nothing before the record is whole.
Plaintext_AsItComes(n) == IF n <= Flight + Overhead THEN 0 ELSE n - Flight - Overhead
Plaintext(n) == IF n >= Total("tls") THEN Response ELSE 0

\* The test of Content-Length in recv_tls_http_response.
IsComplete_WithMore(plaintext) == plaintext >= HeaderLength /\ plaintext - HeaderLength > BodyLength
IsComplete(plaintext) == plaintext >= HeaderLength /\ plaintext - HeaderLength >= BodyLength

\* The end of a connection, and the next one with new buffers.
NewBuffer_Kept == got
NewBuffer == 0
Return(length) ==
    /\ returned' = [returned EXCEPT ![kind] = <<length>>]
    /\ at' = IF kind = "plain" THEN "connect" ELSE "done"
    /\ kind' = "tls"
    /\ got' = IF kind = "plain" THEN NewBuffer ELSE got
    /\ IF kind = "plain" THEN sent' = 0 /\ asked' = FALSE /\ server' = "open" /\ quit' = FALSE
       ELSE UNCHANGED connectionVars

\* What recv() may return: some of what has arrived.  A reset may discard it.
Received == {n \in 1 .. RecvSize : got + n <= sent}
AtEnd == got = sent /\ server = "closed"

\* "while not tls.is_established": the hello's answer may also be refused
\* (ToyTLSConnection), and the end of the stream is an error.
RecvHandshake ==
    /\ at = "handshake"
    /\ \/ \E n \in Received :
             \/ /\ got' = got + n
                /\ at' = IF got' >= Flight THEN "request" ELSE at
                /\ UNCHANGED <<kind, connectionVars, returned>>
             \/ got + n >= Flight /\ ClientRaises
       \/ (AtEnd \/ server = "reset") /\ ClientRaises

\* recv_until_socket_closes takes all there is; a short read ends nothing.
EndsReading_OnShortRead(n) == n < RecvSize
EndsReading(n) == n = 0
RecvPlain ==
    /\ at = "reading" /\ kind = "plain"
    /\ \/ \E n \in Received \union {0} :
             /\ n = 0 => AtEnd
             /\ IF EndsReading(n) THEN Return(got + n)
                ELSE got' = got + n /\ UNCHANGED <<kind, at, connectionVars, returned>>
       \/ server = "reset" /\ ClientRaises

\* recv_tls_http_response stops at the end of the response or of the stream.
RecvTLS ==
    /\ at = "reading" /\ kind = "tls"
    /\ \/ \E n \in Received :
             IF IsComplete(Plaintext(got + n)) THEN Return(Plaintext(got + n))
             ELSE got' = got + n /\ UNCHANGED <<kind, at, connectionVars, returned>>
       \/ AtEnd /\ Return(Plaintext(got))
       \/ server = "reset" /\ ClientRaises

\* Every recv() has a timeout, and none of them tries again.
TimesOut_InHandshake == at = "handshake"
TimesOut == at \in {"handshake", "reading"}
Timeout ==
    /\ TimesOut
    /\ got = sent /\ server = "open"
    /\ ClientRaises

ClientInit ==
    /\ kind = "plain" /\ at = "connect"
    /\ got = 0 /\ sent = 0
    /\ asked = FALSE /\ server = "open" /\ quit = FALSE
    /\ returned = [k \in {"plain", "tls"} |-> <<>>]

Client(reachable) ==
    Connect(reachable) \/ SendRequest \/ RecvHandshake \/ RecvPlain \/ RecvTLS \/ Timeout

ClientIsDone == at \in {"done", "raised"}

-----------------------------------------------------------------------------
(* Properties *)

ClientTypeOK ==
    /\ kind \in {"plain", "tls"}
    /\ at \in {"connect", "handshake", "request", "reading", "done", "raised"}
    /\ sent \in 0 .. Total(kind) /\ got \in 0 .. sent
    /\ asked \in BOOLEAN /\ quit \in BOOLEAN
    /\ server \in {"open", "closed", "reset"}
    /\ returned \in [{"plain", "tls"} -> {<<>>} \union {<<n>> : n \in 0 .. Response}]

\* What the server has sent fits what it has been asked, it closes with less than
\* all only if it quits, and a TLS client that reads on has not read all.  It
\* is inductive (Demo_proofs).
ClientInv ==
    /\ ClientTypeOK
    /\ ~asked => sent <= IF kind = "tls" THEN Flight ELSE 0
    /\ at \in {"connect", "handshake", "request"} => ~asked
    /\ at = "handshake" => kind = "tls"
    /\ at = "connect" => sent = 0
    /\ server # "open" => sent = Total(kind) \/ quit
    /\ kind = "tls" /\ at = "reading" => got < Total("tls")

\* However the response is cut by recv(), it is returned whole unless the
\* server closed before it had sent it, and then over TLS nothing of it is.  The
\* TLS client does not wait for a close that need not come: it never gives up
\* with a whole response in its hands.
WholeUnlessServerQuits ==
    [][/\ \A k \in {"plain", "tls"} : returned'[k] # returned[k] =>
             \/ returned'[k] = <<Response>>
             \/ quit /\ (k = "tls" => returned'[k] = <<0>>)
       /\ kind = "tls" /\ at = "reading" /\ at' = "raised" => got < Total("tls")]_clientVars
=============================================================================
