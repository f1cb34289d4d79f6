---------------------------- MODULE HTTPMessages ----------------------------
(***************************************************************************)
(* How the bytes of a connection become requests and replies: DataProvider,*)
(* HTTPParser.parse_message, the loop of _handle_http_messages, and what   *)
(* build_http_response answers, with the file it finds (StaticFiles).      *)
(* Reads split the stream anywhere; EventLoop takes over what they lead to.*)
(*                                                                         *)
(* The stream is a sequence of units: a CRLF, the three words of a start   *)
(* line, a header with its name and value, or one other byte (no colon,    *)
(* space or CR LF).  Lengths count units.                                  *)
(*                                                                         *)
(* A definition called Name_Change is Name with a bug.                     *)
(***************************************************************************)
EXTENDS Integers, StaticFiles

CONSTANTS
    Conversations,  \* a server block's locations, and what a client writes: a
                    \* sequence of requests [line, headers, declared, body]
                    \* with the [statuses, keeps] it may be answered with
    FileLen         \* the length of a file

VARIABLES
    requests,       \* what this client writes
    unread,         \* what of it the server has not read
    http_input,     \* ConnectionContext.http_input
    pc,             \* between reads ("read"), in _handle_http_messages ("http"),
                    \* or the event loop has been left by an exception ("over")
    replies         \* the responses queued

vars == <<locations, requests, unread, http_input, pc, replies>>

Eol == [kind |-> "eol"]
Byte == [kind |-> "byte"]
Start(method, target) == [kind |-> "start", method |-> method, target |-> target]
Connection(value) == [kind |-> "connection", value |-> value]
ContentLength(n) == [kind |-> "length", n |-> n]

Units == {Eol, Byte}
    \union [kind : {"start"}, method : STRING, target : Seq(Chars)]
    \union [kind : {"connection"}, value : STRING] \union [kind : {"length"}, n : Int]
\* A header line that is empty would end the headers.
Line == Seq(Units \ {Eol})
Requests == [line : Line, headers : Seq(Line \ {<<>>}), declared : BOOLEAN,
             body : Seq(Units), statuses : SUBSET Nat, keeps : BOOLEAN]
Locations == [path : Seq(Chars), root : Directories]

ASSUME HTTPMessagesAssumption ==
    /\ Conversations \subseteq [locations : Seq(Locations), requests : Seq(Requests)]
    /\ FileLen \in Nat

-----------------------------------------------------------------------------
(* parse_message *)

\* Where the first empty line begins, or 0: the position of data.find plus one.
Separators(data) == {i \in 1 .. Len(data) - 1 : data[i] = Eol /\ data[i + 1] = Eol}
HeaderEnd(data) == IF Separators(data) = {} THEN 0
                   ELSE CHOOSE i \in Separators(data) : \A j \in Separators(data) : i <= j

\* str.split("\r\n")
Lines(text) == Split(text, Eol)

\* A start line splits into three words, the last one "HTTP/..." with whatever
\* follows.  Bytes glued to its front become part of the method.
StartUnit(line) == SelectInSeq(line, LAMBDA u : u.kind # "byte")
IsStartLine(line) == StartUnit(line) # 0 /\ line[StartUnit(line)].kind = "start"
Method(line) == IF StartUnit(line) = 1 THEN line[1].method ELSE "unknown"

HeaderKinds == {"connection", "length"}
HasColon(line) == \E i \in DOMAIN line : line[i].kind \in HeaderKinds

\* headers[name]: the last line with that name, "none" if there is none.  What
\* is glued to a header's front changes its name, to its end its value.
Header(lines, name) ==
    LET i == SelectLastInSeq(lines, LAMBDA line : line # <<>> /\ line[1].kind = name)
    IN  CASE i = 0 -> [kind |-> "none"]
          [] i # 0 /\ Len(lines[i]) = 1 -> lines[i][1]
          [] OTHER -> [kind |-> "garbled"]

\* Content-Length decides the body's length; none declared is none expected.
BodyLength(lines) == LET h == Header(lines, "length") IN IF h.kind = "length" THEN h.n ELSE 0

\* InvalidMessageError: the start line, a header line, or Content-Length.
IsMalformed(lines) ==
    \/ ~IsStartLine(lines[1])
    \/ \E i \in 2 .. Len(lines) : ~HasColon(lines[i])
    \/ Header(Tail(lines), "length").kind = "garbled"

\* The body has arrived as far as it was declared.
HasBody_Always(rest, length) == TRUE
HasBody(rest, length) == length <= Len(rest)

\* The bytes a request takes from the buffer, with the empty line behind its
\* headers.
Consumed_BodyOnly(header_end, length) == length
Consumed(header_end, length) == header_end + 1 + length

HTTPMessage(lines) ==
    [method |-> Method(lines[1]), target |-> lines[1][StartUnit(lines[1])].target,
     keep_alive |-> Header(Tail(lines), "connection") = Connection("keep-alive")]

NoRequest(result) == [result |-> result, consumed |-> 0]

ParseMessage(data) ==
    LET header_end == HeaderEnd(data)
        lines == Lines(SubSeq(data, 1, header_end - 1))
        length == BodyLength(Tail(lines))
    IN  CASE data = <<>> -> NoRequest("none")
          [] data # <<>> /\ header_end = 0 -> NoRequest("incomplete")
          [] header_end # 0 /\ IsMalformed(lines) -> NoRequest("invalid")
          [] header_end # 0 /\ ~IsMalformed(lines) ->
             IF HasBody(SubSeq(data, header_end + 2, Len(data)), length)
             THEN [result |-> "request", consumed |-> Consumed(header_end, length),
                   message |-> HTTPMessage(lines)]
             ELSE NoRequest("incomplete")

ReduceData_DropsTail(data, size) == SubSeq(data, 1, Len(data) - size)

\* bytes[size:], also for the negative size a negative Content-Length gives.
ReduceData(data, size) ==
    IF size >= 0 THEN SubSeq(data, size + 1, Len(data))
    ELSE SubSeq(data, IF Len(data) + size > 0 THEN Len(data) + size + 1 ELSE 1, Len(data))

-----------------------------------------------------------------------------
(* build_http_response and http_response *)

Response(found, close, length, body) ==
    [status |-> found.status, location |-> found.location, file |-> found.file,
     close |-> close, content_length |-> length, body |-> body]

\* Error bodies are counted as one unit.
ErrorResponse(found) == Response(found, TRUE, 1, 1)
NothingFound(status) == [status |-> status, location |-> <<>>, file |-> <<>>]

\* HEAD declares the length GET would send, and sends nothing.
SentLength(method) == IF method = "HEAD" THEN 0 ELSE FileLen
DeclaredLength_AsSent(method) == SentLength(method)
DeclaredLength(method) == FileLen

\* What is returned where nothing is raised.
Allowed(request) == request.method \in {"GET", "HEAD"}
BuildHTTPResponse(request) ==
    LET allowed == Allowed(request)
        found == Found(request.target)
    IN  CASE ~allowed -> ErrorResponse(NothingFound(405))
          [] allowed /\ found.status # 200 -> ErrorResponse(found)
          [] allowed /\ found.status = 200 ->
             Response(found, ~request.keep_alive,
                      DeclaredLength(request.method), SentLength(request.method))

\* The URLs that raise always do, the file system may.
MustRaise(request) == Allowed(request) /\ UrlRaises(request.target)
MayRaise(request) == Allowed(request) /\ (UrlRaises(request.target) \/ FileMayRaise(request.target))

-----------------------------------------------------------------------------
(* The connection *)

\* What a client writes for a request: its lines, an empty one and the body.
RequestLines(r) ==
    <<r.line>> \o r.headers
    \o (IF r.declared THEN << <<ContentLength(Len(r.body))>> >> ELSE <<>>)
Terminated(lines) == FlattenSeq([i \in DOMAIN lines |-> Append(lines[i], Eol)])
Rendered(r) == Append(Terminated(RequestLines(r)), Eol) \o r.body
RenderedAll(rs) == FlattenSeq([i \in DOMAIN rs |-> Rendered(rs[i])])
Stream == RenderedAll(requests)

Responses == [status : {200, 400, 403, 404, 405}, location : Paths \union {<<>>, <<"/">>},
              file : Files \union {<<>>}, close : BOOLEAN, content_length : Nat, body : Nat]
TypeOK ==
    /\ locations \in Seq(Locations)
    /\ requests \in Seq(Requests)
    /\ unread \in Seq(Units)
    /\ http_input \in Seq(Units)
    /\ pc \in {"read", "http", "over"}
    /\ replies \in Seq(Responses)

Init ==
    /\ \E c \in Conversations : locations = c.locations /\ requests = c.requests
    /\ unread = Stream
    /\ http_input = <<>>
    /\ pc = "read"
    /\ replies = <<>>

\* A read appends what recv or the session returned.  Reads go on behind a
\* closing reply until the event loop has sent it and closes the connection.
Read ==
    /\ pc = "read"
    /\ \E n \in DOMAIN unread :
          /\ http_input' = http_input \o SubSeq(unread, 1, n)
          /\ unread' = SubSeq(unread, n + 1, Len(unread))
    /\ pc' = "http"
    /\ UNCHANGED <<locations, requests, replies>>

AwaitMore ==
    /\ pc = "http"
    /\ ParseMessage(http_input).result \in {"none", "incomplete"}
    /\ pc' = "read"
    /\ UNCHANGED <<locations, requests, unread, http_input, replies>>

\* The refused bytes stay in the buffer.
Refuse ==
    /\ pc = "http"
    /\ ParseMessage(http_input).result = "invalid"
    /\ replies' = Append(replies, ErrorResponse(NothingFound(400)))
    /\ pc' = "read"
    /\ UNCHANGED <<locations, requests, unread, http_input>>

Answer ==
    /\ pc = "http"
    /\ LET parsed == ParseMessage(http_input)
           response == BuildHTTPResponse(parsed.message)
       IN  /\ parsed.result = "request"
           /\ ~MustRaise(parsed.message)
           /\ http_input' = ReduceData(http_input, parsed.consumed)
           /\ replies' = Append(replies, response)
           /\ pc' = IF response.close THEN "read" ELSE "http"
    /\ UNCHANGED <<locations, requests, unread>>

\* Nobody catches what build_http_response raises: the request has left the
\* buffer, there is no reply, and the event loop ends and closes its sockets.
Raise ==
    /\ pc = "http"
    /\ LET parsed == ParseMessage(http_input)
       IN  /\ parsed.result = "request"
           /\ MayRaise(parsed.message)
           /\ http_input' = ReduceData(http_input, parsed.consumed)
    /\ pc' = "over"
    /\ UNCHANGED <<locations, requests, unread, replies>>

Next == Read \/ AwaitMore \/ Refuse \/ Answer \/ Raise

Spec == Init /\ [][Next]_vars

-----------------------------------------------------------------------------
(* Properties *)

\* The requests in front of the first one refused: a reply each.  The refused one
\* stays in the buffer, so whatever is read behind it is refused with it again.
Refusals == {i \in DOMAIN replies : replies[i].status = 400}
Taken == IF Refusals = {} THEN Len(replies) ELSE Min(Refusals) - 1
RequestOf(i) == IF i <= Taken THEN i ELSE Taken + 1

\* The handler has returned on a closing reply, whatever is left in the buffer.
Stopped == replies # <<>> /\ Last(replies).close

\* The replies are the answers to the requests the client wrote, one by one and
\* behind closing ones too, however reads split and join them and whatever their
\* bodies look like, until one is refused: then every reply is to that one.  Once
\* all has arrived none is missing, but where the last reply closes.
RepliesAnswerRequests ==
    /\ \A i \in DOMAIN replies :
          /\ RequestOf(i) \in DOMAIN requests
          /\ replies[i].status \in requests[RequestOf(i)].statuses
          /\ replies[i].close = ~(replies[i].status = 200 /\ requests[RequestOf(i)].keeps)
    /\ unread = <<>> /\ pc = "read" /\ ~Stopped => Len(replies) = Len(requests)

\* Whoever reads a reply finds its end: a GET's body is as long as declared,
\* and a HEAD declares what a GET of it would.
RepliesAreFramed ==
    \A i \in DOMAIN replies :
        IF replies[i].status = 200 /\ Method(requests[RequestOf(i)].line) = "HEAD"
        THEN replies[i].body = 0 /\ replies[i].content_length = FileLen
        ELSE replies[i].body = replies[i].content_length

-----------------------------------------------------------------------------
(* Why: what a client may expect of each request alone, and what every step *)
(* keeps of that in a conversation.                                         *)

\* The reply to a request whose lines have arrived, if there is one.
ReplyTo(r) ==
    LET lines == RequestLines(r)
    IN  IF IsMalformed(lines) THEN ErrorResponse(NothingFound(400))
        ELSE BuildHTTPResponse(HTTPMessage(lines))

\* What the client writes: its headers declare the body's length, and it expects
\* what a request is answered with on its own.
LengthsAreTrue ==
    \A i \in DOMAIN requests :
        LET lines == RequestLines(requests[i])
        IN  ~IsMalformed(lines) => BodyLength(Tail(lines)) = Len(requests[i].body)
AnswersAreExpected ==
    \A i \in DOMAIN requests :
        LET r == requests[i]
            reply == ReplyTo(r)
        IN  reply.status \in r.statuses /\ reply.close = ~(reply.status = 200 /\ r.keeps)

RepliesFollowRequests ==
    \A i \in DOMAIN replies :
        RequestOf(i) \in DOMAIN requests /\ replies[i] = ReplyTo(requests[RequestOf(i)])

\* No byte is lost or read twice: the requests taken have left the buffer, with
\* the one that raised, and what is buffered and unread is the stream behind them.
Handled == IF pc = "over" THEN Taken + 1 ELSE Taken
StreamIsAnswered ==
    Stream = RenderedAll(SubSeq(requests, 1, Handled)) \o (http_input \o unread)

\* The handler waits for another read only for want of bytes, or on a closing reply.
ReadsForMore ==
    pc = "read" /\ ~Stopped => ParseMessage(http_input).result \in {"none", "incomplete"}

\* The state of a connection, whose client writes and expects such requests.
ConversationInv ==
    /\ LengthsAreTrue /\ AnswersAreExpected
    /\ TypeOK /\ RepliesAreFramed
    /\ RepliesFollowRequests /\ StreamIsAnswered /\ ReadsForMore

-----------------------------------------------------------------------------

\* Every request answered takes bytes out of the buffer, so the loop over
\* pipelined requests ends.
RequestsConsumeBytes == [][Answer => Len(http_input') < Len(http_input)]_vars

\* What a GET or HEAD asked for, and the replies that tell what was found.
LineOf(i) == requests[RequestOf(i)].line
Target(i) == LineOf(i)[StartUnit(LineOf(i))].target
Answered == {i \in DOMAIN replies : replies[i].status \in {200, 403, 404}}

\* Whatever a URL is made of, what is served lies below the root of the location
\* chosen, with no ".." left in its path that the file system would follow.
ServedFilesAreInside ==
    \A i \in Answered : replies[i].status = 200 =>
        /\ IsPrefix(Root(replies[i].location), replies[i].file)
        /\ DotDot \notin ToSet(replies[i].file)

\* A path without escapes, dots and empty segments is the name of its file below
\* the root of the longest location that is a prefix of it, or of the default one.
\* An empty location, as a quoted string names it, is never preferred to "/".
LongestPrefix(path) ==
    LET prefixes == {p \in Paths \ {<<>>} : IsPrefix(p, path)}
    IN  IF prefixes = {} THEN <<"/">>
        ELSE CHOOSE p \in prefixes : \A q \in prefixes : Len(q) <= Len(p)
IsPlain(path) ==
    /\ Len(path) > 1 /\ path[1] = "/" /\ Last(path) # "/"
    /\ \A i \in DOMAIN path : path[i] \in Chars \ {".", "?"} /\ Unescaped[path[i]] = path[i]
    /\ \A i \in 1 .. Len(path) - 1 : path[i] # "/" \/ path[i + 1] # "/"
PlainPathsNameFiles ==
    \A i \in Answered : IsPlain(Target(i)) =>
        LET file == Root(LongestPrefix(Target(i))) \o Tail(Segments(Target(i)))
        IN  IF file \in Files THEN replies[i].status = 200 /\ replies[i].file = file
            ELSE replies[i].status = 404

\* How a path is spelled does not matter where it chooses the location that its
\* resolved form chooses: escapes, dots and repeated slashes lead to the file of
\* the resolved path.  Elsewhere it does, since match_location compares the path as
\* it was sent and _safe_file_path decodes it.  Left aside are paths that climb
\* above the root, that resolve to it, that do not begin with one slash, or whose
\* name would be read otherwise in a URL, as an escaped "?" would.
Decoded(u) == [i \in DOMAIN Uri(u) |-> Unescaped[Uri(u)[i]]]
StandsForItself(c) == c \in Chars \ {"?"} /\ Unescaped[c] = c
Resolved(u) == Resolve(<<>>, Segments(Decoded(u)))
Canonical(u) == FlattenSeq([i \in DOMAIN Resolved(u) |-> <<"/">> \o Resolved(u)[i]])
StaysBelow(root, u) == Resolve(root, Segments(Decoded(u))) = root \o Resolved(u)
SpellingDoesNotMatterToFiles ==
    \A i \in Answered :
        LET u == Target(i) IN
        /\ Uri(u)[1] = "/" /\ ~HasHost(Uri(u))
        /\ \A j \in DOMAIN Uri(u) : StandsForItself(Decoded(u)[j])
        /\ Resolved(u) # <<>>
        /\ LongestPrefix(Uri(u)) = LongestPrefix(Canonical(u))
        /\ StaysBelow(Root(LongestPrefix(Uri(u))), u)
        => replies[i].file = Found(Canonical(u)).file
=============================================================================
