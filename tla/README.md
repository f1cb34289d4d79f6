# A verification project for the toy-TLS web server

TLA+ models of the program in `src/`: a single-threaded `selectors` web server
whose `ssl` listeners put a self-written TLS-like layer between the socket and
the HTTP parser, with its configuration, its demo directory and its client. The
models are checked by TLC on small instances, and every module that has a
specification is also proved about with TLAPS, for every value of its constants.

1. [The system](#1-the-system)
2. [The modules](#2-the-modules)
3. [What the runs check](#3-what-the-runs-check)
4. [What is proved](#4-what-is-proved)
5. [What the checks found](#5-what-the-checks-found)
6. [What is not modelled](#6-what-is-not-modelled)
7. [State](#7-state)

## 1. The system

| Component | Source | State | Operations |
|---|---|---|---|
| TLS session | `tls/connection.py`, `tls/key_schedule.py`, `tls/record_protection.py`, `tls/messages.py` | per endpoint: `state`, ephemeral keys, write keys, `_send_seq`, `_recv_seq`, `_records`, `_pending_wire`, `_plaintext` | `feed_wire_data`, `pop_pending_wire_data`, `read_plaintext`, `protect_application_data`, the four handlers |
| Record framing | `tls/framing.py` | `_buffer` | `frame_payload`, `feed`, `pop_record` |
| Event loop | `server.py` | selector registrations, `_stopping`, `_ready`, `_bound_listeners`; per connection `http_input`, `output_buffer`, `closing_after_write`, the TLS session | `serve_forever`, `_accept_connection`, `_service_connection`, `_read_from_connection`, `_handle_http_messages`, `_queue_output`, `_flush_output`, `_close_connection`, `_cleanup`, `stop`, `_setup_listeners`, `wait_until_ready` |
| HTTP | `http.py` | none beyond `DataProvider` | `parse_message`, `match_location`, `_safe_file_path`, `build_http_response` |
| Configuration | `config.py` | lexer and parser positions | `tokenize`, `_parse_block`, `parse_config_dict` |
| Certificates | `tls/certificates.py` | PEM files, `ServerIdentity` | `generate_certificate_chain`, `load_server_identity`, `verify_server_certificate` |
| Client workflow | `client_side.py` | the bytes received so far | `request_plain_http`, `request_http_over_self_written_tls`, `recv_tls_http_response` |
| Start-up and demo | `server_side.py`, `scripts/demo.py` | the files of the demo directory, the demo's two threads | write the demo files, start, wait for, stop and join the server |

How they interact. The event loop owns every socket. It hands what `recv`
returned to the session (`feed_wire_data`) or, on a plain listener, straight to
the HTTP buffer; the session hands back handshake bytes to queue
(`pop_pending_wire_data`) and request bytes (`read_plaintext`); the HTTP layer
turns complete requests into responses; the session protects them; the loop
buffers and sends. The session runs its records through the framing, the key
schedule and the record protection. The server thread shares two
`threading.Event`s and the list of bound listeners with other threads (`stop`,
`wait_until_ready`, `bound_port`); everything else is confined to it. Runs of the
programs share files: every run of `server_side.py` or the demo rewrites the
certificates and the configuration of one default directory, a server reads them
once when it starts, and a client reads the root certificate each time. What acts
concurrently with the loop is the outside:
clients, the kernel's socket buffers, the thread that calls `stop`.

What is hard here, and what must hold:

* **Session.** Records may be split and merged by TCP in any way, and the layer
  is meant to notice a stream that is not the one the peer wrote. The client
  must only reach `ESTABLISHED` with the server it asked for, holding that
  server's keys; plaintext must come out in order, without gaps or repeats;
  keys must never be renewed under a running sequence number; and none of these
  mechanisms may refuse a session that is in order.
* **Framing.** Boundaries must not depend on chunking; a complete record must
  never wait in the buffer for bytes that may not come.
* **Event loop.** A connection's fate is spread over four pieces of state that
  different events update (selector interest, `output_buffer`,
  `closing_after_write`, whether the socket is open). A wrong combination is a
  reply never sent, a connection never closed, or a loop that spins. Requests
  must be answered once and in order across partial reads and partial sends,
  and no client may keep the others waiting.
* **Life cycle.** Set-up can fail at any listener, `stop` can come at any time,
  and whoever waits for the server must be woken, told the right ports, and find
  the ports given back afterwards.
* **HTTP.** Sequential code with boundary cases: how many bytes a request takes,
  where a reply ends, the longest prefix, what dots, slashes and escapes mean to
  the check that a file is below its root.
* **Configuration.** A recursive descent that keeps only a position, repeated
  directives whose representation changes with their number, damaged files.
* **Demo directory.** Five files written one after the other and read one after
  the other, by runs that overlap, get killed, and outlive their certificates.
* **Client.** A response must be recognised as complete however it is cut, and a
  server that leaves early or stalls must not leave the client in doubt or hanging.

`PROJECT.json` lists the hazards line by line, with the properties that cover
each one.

## 2. The modules

| Module | What it is |
|---|---|
| `SecureChannel` | abstract specification: what the session promises to the layer above |
| `ToyTLSConnection` | both endpoints of one session, their callers and the wire |
| `ToyTLSConnection_proofs` | theorems about it |
| `RecordBuffer` | `framing.py` byte by byte |
| `RequestService` | abstract specification: what the server promises on each connection |
| `EventLoop` | the server's loop with its connections, clients and kernel buffers |
| `ServerLifecycle` | the steps of the server's thread from set-up to clean-up, and of the thread that starts it |
| `StaticFiles` | URLs to files: `match_location`, `_safe_file_path` (operators) |
| `HTTPMessages` | bytes to requests to replies: `parse_message`, the loop around it, `build_http_response` |
| `ConfigParser` | `load_config`: lexemes, `_parse_block`, the conversion to server blocks |
| `DemoSite` | the runs of `server_side.py` and the demo on one directory, and their clients |
| `ClientWorkflow` | the steps of a client that makes both requests, and of its server's end |
| `DemoProgram` | `scripts/demo.py`: the steps of the two modules before, composed |
| `MC...` | instances of these for TLC |
| `RecordBuffer_proofs`, `EventLoop_proofs`, `HTTPMessages_proofs`, `ConfigParser_proofs`, `ConfigGarbled_proofs`, `Demo_proofs` | theorems about them (section 4); `HTTPMessages_proofs` covers `StaticFiles`, `ConfigGarbled_proofs` the configurations with a lexeme too many, `Demo_proofs` `DemoProgram` with the two modules it composes, and `DemoSite` |
| `DataInduction` | induction over numbers and sequences, and what the community modules' `FlattenSeq` computes: lemmas the proofs share |

How they fit together: the session (`ToyTLSConnection`) is proved to be a
`SecureChannel`, which is all the layers above rely on, and relies on `RecordBuffer` for
its framing. `EventLoop` takes the outcomes of the session's records and of
`HTTPMessages` as units of its streams and implements `RequestService`;
`HTTPMessages` extends `StaticFiles`, which finds the file a request names.
`ServerLifecycle` is what surrounds the loop, with configurations that
`ConfigParser` can return, and `ClientWorkflow` what a client does with the ports it
is told; `DemoProgram` composes the two. `DemoSite` is about the files that both
the server and the client load.

The functions that a model computes by recursion over a sequence (`Split`, `Resolve`,
`Exchange`, `Elements`, `Power`) are recursive functions with the step as an operator
of its own (`Extended`, `Entered`, `Picked`), which is what the proofs reason about.

A definition called `Name_Change` is `Name` with a bug a maintainer might
introduce. Nothing in a specification uses it; `PROJECT.json` pairs it with the
property that catches it.

### `ToyTLSConnection`

Variables are functions of the side (`"client"`, `"server"`) and carry the
attributes' names. `Init` is the state after both constructors: the client's
has already queued its ClientHello. `feed_wire_data` is one step that takes a
chunk (`Feed`) and one step per record of its `while` loop: `HandleClientHello`,
`HandleServerHello`, `HandleServerAuth`, `HandleApplicationRecord`, or
`FeedRaises` when `pop_record` or the handler raises; `FeedReturns` ends it and
includes what both callers do next, sending what is pending and then taking the
plaintext. `SendApplicationData` is `protect_application_data` with its send,
`SendClientHello` the client's first `sendall`, `Close` a caller that leaves.

* *A frame is a record with a `type`*; a chunk that completes no record changes
  nothing a caller can see, so chunks are counted in records here. That bytes
  come out as the frames that went in is what `RecordBuffer` checks.
* *Cryptography is symbolic.* A shared secret is the set of the two public keys,
  a session key a pair of writer and secret, a protected record carries its key,
  number and body. Altering a record or a signature makes it fail
  (`intact = FALSE`), except that a hello is not protected and may be altered
  into a hello with another key. This takes X25519, HKDF, AES-GCM and RSA-PSS to
  do their job; they are the `cryptography` library's.
* *The verifier's answer on a certificate chain* is a fact about what
  `load_server_identity` loaded (`path_valid`), since it depends on files only.
  A loaded identity may be wrong in any way `load_server_identity` does not
  check: a key that is not the certificate's, an incomplete chain, another name.
* *The wire* (`WireFault`) may lose, repeat, delay, alter and echo records. TCP
  does none of this; the record layer is written and tested to notice it
  (`tests/test_tls_connection.py:66`, `:77`).

`SecureChannel` has three variables: `open`, `sent`, `got`. `ImplementsSecureChannel`
maps `open[s]` to `state[s] = "ESTABLISHED"` and the histories to themselves.

### `RecordBuffer`

Bytes, big-endian length prefixes and one step per call of `pop_record`. The
base and the header's length are constants (256 and 4 in the code), so that a
two-digit binary header reaches every boundary: each digit's carry, a header
split in the middle, a payload that looks like a header.

### `EventLoop`

`pc` is where the loop's thread is: at the `for` (`loop`), in
`_read_from_connection` (`read`), in `feed_wire_data` (`feed`), in
`_handle_http_messages` (`http`), in `_flush_output` (`flush`), in `_cleanup`, or
`done`. `context[c]` is the `ConnectionContext` with its selector registration
and socket; the helpers `QueueOutput`, `CloseConnection`, `EndOfStream`,
`Flushed` and `Reduced` are the methods they are named after, as functions on a
context. `peer[c]` is the client and the kernel: what has arrived and not been
read, how full the send buffer is, whether the stream ended or was reset, and
whether the client is `prompt`, one that keeps reading what it is sent. The
outside may act between any two steps of the loop.

A client's stream is a sequence of units, each with the outcome its bytes lead
to: a `part` of a request, the end of one that is answered with or without
`keep-alive`, is refused, or makes `build_http_response` raise; on a TLS
listener a hello, an application record holding such a unit, or a record the
session refuses. A `recv` returns any non-empty prefix of what has arrived, a
`send` takes any non-empty part the kernel has room for.

Two early returns of the code cannot be reached from a ready event and have no
step: `BlockingIOError` of `recv` and `send` (readiness a select has reported
lasts until this thread uses it), and `_flush_output` with nothing to send
(WRITE is only watched while output is buffered, which
`WriteInterestMatchesOutput` confirms).

`RequestService` has, for each connection, what was asked, what was answered and
what was delivered. `ImplementsRequestService` maps these to the requests among
the units sent, and to the answers in the histories `queued` and `written`; a
connection is over when it is closed. Handshakes, refusals, reads, partial sends
and the selector are not visible there.

### `ServerLifecycle`

Two program counters. `pc` is the server's thread in `serve_forever`: one step per
iteration of the two loops of `_setup_listeners`, then the loop, then the three
parts of the `finally` that other threads can tell apart (sockets closed, list
cleared, `_ready` set). `main` is a thread that starts the server, waits, asks for
both ports, stops and joins, as `scripts/demo.py` and the integration tests do.
`stop` may also come from elsewhere at any time, and the wait and the join may time
out. A listener fails to open if its port is taken, and may fail without a reason the
model knows, in `socket`, `bind`, `listen` or `register`; its socket may hold a port by
then, which nobody gives back but the garbage collector.

### `HTTPMessages`

The stream is a sequence of units: a line end, a start line, a header, another
byte. That keeps what `parse_message` looks for (the empty line, line ends, words,
colons, a length) and forgets spelling. Clients write requests with any line in
the place of the start line, headers that count, are repeated or are garbled by
what is glued to them, and bodies that look like requests; reads split the stream
anywhere. Each request carries the answer it should get, so that the model's parse
is compared with what was written and not with itself.

As in `_service_connection`, reads go on behind a reply that closes, until the event
loop has sent it: `EventLoop` has when that is, and here it may be never. So there may be
more replies than requests: a refused request stays in the buffer (`server.py:229`) and
is refused again with each read behind it. `Taken` are the requests in front of it, which
have a reply each, and `RequestOf(i)` is the request that reply `i` is to.

`Raise` is the outcome in which `build_http_response` does not return. `urlsplit` raises
for a bracket in the host that is not closed (`//[`), and `resolve` for a NUL (`%00`); both
always do (`MustRaise`). `is_file` and `read_bytes` may fail for any path below the root
(`FileMayRaise`). The request has then left the buffer and has no reply, and nothing
catches the exception: the program counter is `over`, as the whole event loop is.

Each conversation comes with the locations of its server block, and each reply
with the location and the file it was served from, so that the properties of
routing are about requests that went through the parser.

What a client writes is only constrained where a property needs it: `LengthsAreTrue`
(a declared length is the body's) and `AnswersAreExpected` (a request expects what it
is answered with on its own) are invariants of the instance TLC explores and
hypotheses of the theorems.

### `StaticFiles`

Pure operators over the locations of a server block. URLs are sequences of
characters with escapes; paths are sequences of segments. `urlsplit` is modelled
where it matters, including the host after `//` and the second call on a path that
was already split. Symbolic links are left out. The locations are those a configuration
can name, the empty one of a quoted `""` among them.

### `ConfigParser`

The lexer is modelled from the lexemes on. `calls` is the stack of `_parse_block`'s
activations with their local variables; one step per token. Raw values are tagged
with the type Python would find with `isinstance`. The conversion functions are
operators, `CanConvert` is the conjunction of what makes none of them raise. Words
are not empty and strings may be, as the lexer's patterns have it. The
second half of the module writes files from their meaning, the reference the
result is compared with, and damages them.

### `DemoSite`

A run picks one of the three programs and is at one of its stages; a write opens (which truncates) and
then writes, a load reads one file per step. Files hold the run that wrote them, a
certificate is a record of keys, extensions and days. `End` kills a run at any
point. `alone` remembers the runs beside which no other was alive, which is what
the promises are made to. `Midnight` moves the date.

### `ClientWorkflow`

Bytes are counted. The client reads with a timeout from a server that answers, in
pieces of any size, and may stall, close or reset at any byte. The handshake is the
flight that completes it. Over TLS a response is one record, so plaintext appears
all at once (`Plaintext`), which `ToyTLSConnection` and `RecordBuffer` show.

### `DemoProgram`

The program as a whole: the main thread starts the server's thread, waits for it,
asks for the ports, is the client, stops the server and joins it. What ties the two
modules together is the kernel's: a connection can only be made while somebody
listens on the port the client was told, it is served only while the loop runs, and
`_cleanup` closes it with the listeners, at whatever byte it is. The steps of the
two threads interleave freely.

## 3. What the runs check

| Run | Instance | Properties |
|---|---|---|
| `tls_faults` | 3 ephemeral keys, 4 identities (one right, three wrong), 2 plaintexts per side, 1 fault | `ClientAuthenticatesServer`, `PlaintextIsPrefix`, `CleanWireNeverFails`, `SessionInv`, `SessionIsFixed`, `ImplementsSecureChannel` |
| `tls_clean` | 2 ephemeral keys, no faults, fairness | `HandshakeCompletes`, `SentIsReceived` |
| `framing` | base 2, 2-digit headers, payloads of 0 to 3 bytes, limit 2, 4 payloads, fairness | `BufferInv`, `OnlyOversizeIsRefused`, `NothingIsLeftBehind`, `FramedIsPopped` |
| `loop_safety` | one plain and one TLS client, up to 4 units each, kernel buffer of 2 units | `LoopInv`, `WriteInterestMatchesOutput`, `ClosingHasOutput`, `AnsweredInOrder`, `BufferedOutputIsNotDropped` |
| `loop_prompt` | a client that reads beside one that stalls, half-closes or resets at any time, kernel buffer of 1 unit, fairness: a plain one beside a TLS one, and a TLS one beside a plain one whose replies do not fit its kernel buffer, so half-closed it keeps the loop busy | `RequestsAreAnswered`, `DepartingClientIsClosed`, `StopEndsTheLoop`, `ImplementsRequestService` |
| `demo` | 7 configurations with one or two blocks, 4 ports of which one is taken, timeouts, a response of 3 bytes, reads of up to 2, fairness | `DemoInv`, `HeldPortsAreServed`, `OnlyAFailedListenerIsLeft`, `WholeUnlessServerQuits`, `StopEndsTheThread`, `DemoEnds` |
| `http` | one to three of 16 requests on one site, with closing and refused ones in front of others; on 6 sites with 75 files a request for each URL of up to 3 of 8 characters, 4 if it begins with `/`, 5 if its characters are those of names, their escapes and slashes, and for URLs of up to 3 behind `//` and of up to 2 behind `/` with brackets and NULs | `ConversationInv`, `RepliesAnswerRequests`, `ServedFilesAreInside`, `PlainPathsNameFiles`, `SpellingDoesNotMatterToFiles`, `RequestsConsumeBytes` |
| `config` | files of up to 3 of 12 directives or 2 servers; smaller ones cut anywhere or with one of 11 lexemes added anywhere | `ParserInv`, `FilesMeanWhatTheySay`, `CutFilesAddNothing`, `EarlierServersAreKept` |
| `site` | two runs of any of the three programs, four dates a year apart | `SiteInv`, `ServedAloneIsAccepted`, `ClientsOfItSucceed` |
| `tls_oversize`, `loop_closing`, `http_negative` | the findings of section 5 | |

The invariants called `...Inv` are a module's `TypeOK` with what ties its variables
together. They are what section 4 proves by induction, `BufferInv` together with the
two other invariants of its run and `ParserInv` together with `ValuesAreRaw`:

* `SessionInv`: keys match states, frames are authentic, counters match streams, what
  was received is in order, `ClientAuthenticatesServer`, `PendingIsFlushed`,
  `WireIsStream`.
* `BufferInv`: `BoundariesAreKept`, and a refused stream is not drained further.
* `LoopInv`: `DispatchIsCurrent`, `OnlyOpenIsRegistered`, `WriteInterestMatchesOutput`,
  `ClosingHasOutput`, `OutputIsStream`, `RequestsWaitTheirTurn`.
* `DemoInv`: `LifecycleInv` (`SetUpIsInOrder`, `PortsHaveTheirListeners`, `ReadyIsInOrder`,
  `ListenersAreConfigured`, `HeldPortsAreServed`) with `ClientInv`.
* `ConversationInv`: `RepliesAreFramed`, `RepliesFollowRequests`, `StreamIsAnswered`,
  `ReadsForMore`, and the two assumptions about the client.
* `ParserInv`: `BracesMatch`.
* `SiteInv`: `FilesStay`, `AloneIsUndisturbed`, `ClientsAreServed`, `ClientsOfItSucceed`,
  `AcceptedIsGenuine`.

Why the bounds are enough for what they are used for:

* `tls_faults`: a third ephemeral key lets a fault put a key on the wire that is
  neither side's. Two plaintexts per side make reordering and gaps possible, and
  one fault can hit any record of the handshake or of the data. More faults and
  more data are the business of the proofs, which bound neither.
* `framing`: with four payloads out of four lengths every pair of neighbours
  occurs, and every chunking of every stream is explored.
* `loop_*`: two connections are enough to interleave one connection's service
  with another's, on both kinds of listener; scripts contain pipelined requests,
  a request split in two, one behind a closing request, one refused, one that
  raises, a session that fails between two requests. A kernel buffer smaller than
  the replies makes every flush partial in some behaviour. `MaxId` only numbers
  the requests.
* `loop_prompt`: liveness and refinement are costly to check, so the scripts are
  shorter and there is one prompt client at a time; with a session whose record
  fails, `loop_safety` has what these scripts leave out.
* `demo`: two blocks with two listeners reach every position a failure can
  strike at, before, between and after listeners that are open. A header, a flight
  and a record that are longer than a byte and together longer than one read put the
  client's reads, and the server's end, at every place of a response.
* `http`: what one request leaves behind meets a second and a third one, also behind a
  reply that closes, and a request refused behind such a reply is refused up to once per
  unit of the request behind it; bodies hold the separators the parser looks for. Lengths
  are small because only their relation to what has arrived matters.
  URLs of five characters hold a location, an escape and a `..` that leaves it,
  with a sibling whose name continues the location's. Every character that routing
  or the file system reads has an escape, `%?` among them, which is no query.
* `config`: three directives make every pair repeat with another between; two
  servers make `server` a list. Damage to larger files meets the same parser
  states.
* `site`: one run can be interrupted at any point and the other follow alone, or
  overlap it, with any two of the programs. The runs are interchangeable, which is
  used as a symmetry (the run checks invariants only). The date moves by years
  because the validity periods are 730, 1825 and 3650 days.
* `LastDay`, `MaxSent`, `MaxFaults`, `MaxFramed` and the scripts' lengths bound the model,
  not the code: the program has no such limits.

Every run of a system that may end says `CHECK_DEADLOCK FALSE`: sessions close,
servers stop, files are read to their end and clients finish.

Fairness. The server's thread is scheduled, so its steps are weakly fair; so is
a caller of `feed_wire_data` that has bytes, which its `while` loops justify. Of
clients only those that are `prompt` are assumed to take what they are sent. Nobody
is assumed to send, finish, reset or call `stop`. In `DemoProgram` both threads are
scheduled; the main thread's steps include the client's, whose `recv` returns or
times out, because `create_connection` is given 5 seconds and the socket keeps
them. The server need not answer, and need not fail or be stopped by others.
`SocketError`, `HandlerRaises` and
the like are outcomes, not separately fair. `select()` returns every ready
socket and the `for` loop works through all of them, so weak fairness of the
whole loop is enough for each connection.

The fairness of a loop's steps takes its body to end. `RequestsConsumeBytes` is why it does
for clients whose lengths are true; a negative `Content-Length` (`http_negative`) can keep
the thread in `_handle_http_messages` for ever, where neither `stop()` nor another client
reaches it. The clients of `loop_prompt` and the demo's own send no such request, and
`StopEndsTheLoop`, `StopEndsTheThread` and `DemoEnds` do not hold of one that does.

What the properties say beyond single steps:

* `RequestsAreAnswered` is the README's "One slow TLS client must not block all
  other connections" (`README.md:183`), for clients of both listeners against
  stalls, half-closes and resets of the other.
* `ClosingHasOutput` and `WriteInterestMatchesOutput` are what
  `DepartingClientIsClosed` rests on: they tie together state that
  `_read_from_connection`, `_queue_output` and `_flush_output` update separately.
* `BufferedOutputIsNotDropped` says which events may discard replies already
  queued. The list includes a failing session (`server.py:208`) and an exception
  that escapes the loop: that is what the code does.
  What these two kinds of loss leave must still be in order, which is `LoopInv`'s.
* `OnlyAFailedListenerIsLeft` names the one socket that `_cleanup` does not find, and says
  that it finds every other.
* `RepliesAnswerRequests` and `ConversationInv` speak of all replies, those behind a
  closing one too. That the closing reply is not the last is the finding `loop_closing`.
* `SpellingDoesNotMatterToFiles` has as its premise that the path chooses the location
  its canonical spelling chooses, which is what the undecoded comparison in
  `match_location` (`http.py:110`) does not ensure; it fails without it.
* `ImplementsRequestService` relates every reply to the requests made before it,
  and every delivery to the replies given before it, through all closes.
* `HeldPortsAreServed` rests on the order of `_cleanup` and `_ready.set()`: after
  a failed set-up the waiting thread goes on, and only the emptied list keeps
  `bound_port` from naming a port that was closed.
* `FilesMeanWhatTheySay` compares two passes over a representation that changes
  with the number of directives (one list, a list of lists) with the plain meaning
  of the directives written.
* `ServedAloneIsAccepted` holds whatever earlier runs left behind, because every
  run rewrites all five files; a run that reused what it finds would not satisfy
  it. `AcceptedIsGenuine` is what the client's checks make of mixtures.
* `DemoEnds` is about both threads: whatever of the set-up, the client or the loop
  fails, the server's thread ends with the program, except when `wait_until_ready`
  times out, which is outside the `try` (`scripts/demo.py:98`).
* `WholeUnlessServerQuits` says what a response can be that the client returns: as long
  as announced and no longer, or what a server sent that left before; over TLS all of
  it or none; and that the TLS client does not wait for the close of a server it has
  a whole response from.
* `CleanWireNeverFails` is the counterpart of the rejections: over a wire that
  delivers, nothing is rejected, up to the last byte `MAX_RECORD_SIZE` allows.

## 4. What is proved

For every value of the constants: any number of connections, runs, plaintexts, faults,
files, blocks and locations, any lengths, any contents. No theorem uses a bound of an
instance; `MaxSent`, `MaxFaults`, `MaxFramed`, `MaxId` and `LastDay` are arbitrary numbers.

| Module | Theorem | Statement |
|---|---|---|
| `ToyTLSConnection_proofs` | `SessionInvariant`, `TypeCorrectness` | `Spec => []SessionInv`, `Spec => []TypeOK` |
| | `ServerIsAuthenticated` | `Spec => []ClientAuthenticatesServer` |
| | `PlaintextIsInOrder` | `Spec => []PlaintextIsPrefix` |
| | `CleanWireIsReliable` | `Spec => [](EverythingFits => CleanWireNeverFails)` |
| | `SessionStaysFixed` | `Spec => SessionIsFixed` |
| | `Refinement` | `Spec => ImplementsSecureChannel` |
| `RecordBuffer_proofs` | `ChunksDoNotMatter` | `Spec => []BufferInv` |
| | `RefusalsAreOversize` | `Spec => []OnlyOversizeIsRefused` |
| | `DrainingIsComplete` | `Spec => []NothingIsLeftBehind` |
| `EventLoop_proofs` | `LoopIsSound` | `Spec => []LoopInv` |
| | `WriteInterest`, `ClosingConnections` | `Spec => []WriteInterestMatchesOutput`, `Spec => []ClosingHasOutput` |
| | `AnswersInOrder` | `Spec => []AnsweredInOrder` |
| | `OutputIsNotDropped` | `Spec => BufferedOutputIsNotDropped` |
| | `LoopImplementsService` | `Spec => ImplementsRequestService` |
| `HTTPMessages_proofs` | `ConversationsAreTyped` | `Spec => []TypeOK` |
| | `ServedFilesStayInside` | `Spec => []ServedFilesAreInside` |
| | `RequestsAreSeparated` | `Spec /\ LengthsAreTrue => []Conversing` |
| | `RepliesHaveAnEnd` | `Spec /\ LengthsAreTrue => []RepliesAreFramed` |
| | `RequestsAreAnswered` | `Spec /\ LengthsAreTrue /\ AnswersAreExpected => []RepliesAnswerRequests` |
| | `ConversationsAreSound` | `Spec /\ LengthsAreTrue /\ AnswersAreExpected => []ConversationInv` |
| | `LoopsOverRequestsEnd` | `Spec /\ LengthsAreTrue => RequestsConsumeBytes` |
| | `PlainPathsLeadToFiles` | `Spec /\ LengthsAreTrue => []PlainPathsNameFiles` |
| | `SpellingIsResolved` | `Spec /\ LengthsAreTrue => []SpellingDoesNotMatterToFiles` |
| `ConfigParser_proofs` | `ParserIsSound` | `Spec => []ParserInv` |
| | `WhatIsReadIsRaw` | `Spec => []ValuesAreRaw` |
| | `WholeFilesMeanWhatTheySay` | `Spec => []FilesMeanWhatTheySay` |
| | `CutFilesLoadInPart` | `Spec => []CutFilesAddNothing` |
| `ConfigGarbled_proofs` | `EarlierServersStay` | `Spec => []EarlierServersAreKept` |
| `Demo_proofs` | `DemoIsSound` | `Spec => []DemoInv` |
| | `PortsAreServed` | `Spec => []HeldPortsAreServed` |
| | `ListenersMatchConfiguration` | `Spec => []ListenersAreConfigured` |
| | `PortsAreGivenBack` | `Spec => []OnlyAFailedListenerIsLeft` |
| | `ResponsesAreWhole` | `Spec => WholeUnlessServerQuits` |
| | `SiteIsSound` | `SiteSpec => []SiteInv` |
| | `AloneServesWell` | `SiteSpec => []ServedAloneIsAccepted` |
| | `ClientsAreNotTurnedAway` | `SiteSpec => []ClientsOfItSucceed` |

Assumptions. Each module names what its constants must be, and TLC evaluates it on
every instance. They are types (lengths are naturals, scripts are sequences of units)
and these few facts: `None` is not a key; `TLSConns` are connections, and connections
are not listeners; a port is not 0; a header, a read and a handshake are not empty;
every payload is shorter than its header can express (`struct.pack` raises otherwise);
a missing and an empty file are not a run, and not the same; a day is not 0; `"/"` is a
character that stands for itself; `http`, `server`, `location` and `root` are words, and the empty string is
not one.

Hypotheses. Three are about what the program is given, and all can be met. `EverythingFits`
says that every plaintext fits into a record; the finding `tls_oversize` is what
happens without it. `LengthsAreTrue` says that the headers of every request declare the
length of its body, or none if it has none; without it (`http_negative`) the next
request begins at another place than the client meant, or nowhere.
`AnswersAreExpected` only says what the client takes for its answer. Both are
invariants of the run `http`.

### The session

`PlaintextIsPrefix` and `ClientAuthenticatesServer` are not
inductive: whether a record is accepted depends on what is on the wire, and
nothing in them restricts that. `SessionInv` adds

* `KeysMatchState`: an endpoint has keys exactly when it is `ESTABLISHED`, and no
  data before;
* `FramesAreAuthentic`: every frame in flight, buffered or pending that is
  unaltered is authentic. An application record under a key of the session is
  one its writer protected, with the number of its place in what was sent; a
  ServerAuth is the server's, over the two keys it then derived its secret from.
  This survives loss, repetition, delay, echo and alteration, since none of them
  makes a record authentic for something else;
* `CountersMatchStreams`: `_send_seq` and `_recv_seq` are the lengths of what was
  sent and accepted;
* `ReceivedInOrder`: `PlaintextIsPrefix` element by element;
* `PendingIsFlushed`: nothing is pending between two calls but the client's hello;
* `WireIsStream`: without faults, the frames in flight are what the writer has
  produced (`Greeting` and its data) less what the reader has handled.

A record that `unprotect_record` accepts has the number `_recv_seq` and a key
written by the peer, so `FramesAreAuthentic` says its body is the next element of
what the peer sent (`AcceptedIsNext`); a ServerAuth that `_handle_server_auth`
accepts was signed over the client's own ephemeral key and the server key the
client was told, so the server derived the same secret (`AcceptedServerAuth`).
That the directional keys differ is needed for echoes: with one key for both
directions an endpoint would accept its own record. Over a clean wire `WireIsStream`
says that the next record is the one the handler expects, so no handler raises.

The refinement follows from the same invariant: handshake handlers that establish
a side are `Establish`, `SendApplicationData` is `Send`, `FeedReturns` with
plaintext is `Receive`, every other step leaves the channel's variables alone.

### Framing

`BoundariesAreKept` says where the buffer is: what is buffered and unread is the
frames of the payloads not yet popped. That `struct.unpack` gives back the length that
`struct.pack` was given is an induction over digits, for any base; a header is then
read from the right bytes, the two refusals follow, and a drained buffer is shorter
than the next frame.

### The event loop

`WriteInterestMatchesOutput` and `ClosingHasOutput` are broken between the steps of one
service if another event of the batch could touch the same connection; `DispatchIsCurrent`
says that no event is about the connection in service and that every connection
reported is open until its turn, and `OnlyOpenIsRegistered` that a connection that is not
open is registered for nothing. `AnsweredInOrder` is not inductive either: a request
on its way must be known to come next. `RequestsWaitTheirTurn` follows each request
through the kernel, the session's chunk, its plaintext and `http_input`; a reset or a
close may drop the last ones, never one from the middle.

The refinement maps a step that answers to `Answer` and a `send` to `Deliver`, by the
fact that what `Exchange` finds in a prefix of a stream is a prefix of what it finds in
the stream.

### The demo

`SetUpIsInOrder` says that the listeners that are open are those before the place
where `_setup_listeners` is, and that `_bound_listeners` names exactly what is
open until it is cleared; `ReadyIsInOrder` orders `_ready`, the program counters and the
failures. A port that the other thread holds was then read after a set-up that
succeeded, and is open unless the loop has ended. `PortsHaveTheirListeners` says whose
sockets hold ports: `_cleanup` finds all of them but the one at which the set-up
failed, and no other listener has its port. For the client, `ClientInv` bounds
what was received by what was sent, and says what may be sent before the request.

### HTTP

`ConversationsAreTyped` says that no step, a raising one included, leaves the types; it
does not say that a reply is always made, since `urlsplit` and `resolve` may raise.
`ServedFilesStayInside` needs nothing else: a file whose path has the root as a prefix
after `Resolve`, which leaves no `..` behind. `Conversing` is the invariant of a client
whose lengths are true: what was sent is the requests handled, rendered, followed by the
buffer and what is unread (`StreamIsAnswered`). Then the first empty line of the buffer
is the next request's own, its lines are those the client wrote (`Split` of a rendered
request), and the body ends where the next request begins; so each reply is `ReplyTo`
of its request alone. Which request that is follows from where the first 400 is
(`IsTaken`): until then each reply takes one request out of the buffer, whether it closes
or not (`ConversingAnswers`), or there is no reply and no further step
(`ConversingRaises`). From then on the buffer begins with the refused request, whose
lines do not change when more is read behind them, so every step that replies refuses
it again (`RefusedAgain`, `ConversingRefuses`). A reply that does not close has taken its
request (`NothingRefused`), which is why none is missing in the end.
`ReadsForMore` says that the loop stops only when no complete request is buffered, or on
a closing reply. `PlainPathsLeadToFiles` is about `match_location` as a fold over the
locations in any order: it holds the longest prefix seen so far.

`SpellingIsResolved` compares a path as it was sent with its canonical spelling
(`SpelledIsFound`), for any locations: each of them chooses the longest location that is
a prefix of it (`MatchIsLongest`), which the premise says is the same one. The path that
is looked up has no query left (`UriHasNoQuery`), so that the second `urlsplit` changes
nothing; what it is decoded to splits into segments without a slash, and these resolve to
names (`ResolvedNames`). Names joined by slashes
split into the same names (`PathIs`), decode to themselves, and lead down from any root
(`NamesLeadDown`). The property first lacked a condition the proof asked for: a name that
holds an unescaped `?` has no spelling without an escape, and as `StandsForItself` says
is left aside. The run's characters now have the escape `%?`, which shows the difference.

### Configuration

A raw value is only known to be well formed together with what it holds. `ValuesAreRaw`
says that there is a set of values, closed under taking the parts of a value, over which
all the dictionaries of `calls` and `raw` are built; each step that stores a directive
or a block adds at most a value or two to it (`AppendRepeatedType`, `StoredType`), so
no induction over the depth is needed. `BracesMatch` counts: a call is active for each brace that is
open, and one more, which gives that `_parse_block` returns from the outermost call with
tokens left only at a brace too many. That the tokens are lexemes goes through the
writing of files and through `Tokenize`.

What a file means is proved by relating the stack of calls, at each token, to the part
of the file that was read. `Place` says where the parser is: how many servers, how many
directives of the next one and how many roots of the location it is in, and which
words of what comes next; what is unread is then `ServersAhead`, `DirectivesAhead` or
`RootsAhead` of that place behind the rest of those words. `Exact` adds that the
dictionaries of the calls hold what the directives before that place say (`Describes`
for a block, `HasBlocks` for the servers, whatever form `_append_repeated` gave them).
Words, directives and servers are read off the unread tokens by their marks, one
lexeme at a time (`PlaceIs`, `NextRead`), so no induction over the file's syntax is needed, only
one over the tokens. `WholeIsReadExactly` is this as an invariant; `FileConverted` says
that the conversion of what it ends with is the file's meaning. A cut file is read
exactly up to its end, where the calls return one after the other with what they have:
`CutIsReadInPart` then says `HoldsPart`, the servers before the last as they are and a
beginning of the directives of the last.

Behind a token too many the parser is at no place of the file: blocks are closed early or
nested in others, and `Exact` is lost. `EarlierServersAreKept` follows from two facts that
are kept there (`Behind`). `Keeping` says that the servers closed before the token are in
the http block, open or closed, as the file describes them (`KeptServers`), but that
in the first one another block may have replaced what stood under its name; under
`location` only if the token's value is `location`. It is not inductive by itself: a second
`http` directive or block would be stored over them, and a named server block inside the
first of them. `Reads` rules that out. The tokens that are left are still those of the
file at one of its depths (`Inside`: nothing, servers, directives or roots of a location),
the number of calls is that depth's plus one, two for `{`, none for `}` (`Depth`), and
the words of the innermost call are words of the file or the token's (`Known`). So the
words in front of a brace or a semicolon are those of a `server`, a `location` or a
directive of the file with one word more or less, wherever the parser believes to be
(`ReadsSpares`), and the next token is read from the same file (`ReadsGoOn`). How many
servers were closed before is counted by the length of what is left (`LeftAfter`).
`GarbledIsRead` is all of this as an invariant; `KeptConverted` converts what was kept.

### The demo directory

`AloneIsUndisturbed` says that beside a run in `alone` no other is alive, that the files it is
past are its own, and that it has loaded nothing else. `ClientsAreServed` ties a
client to the run it connected to and, while that serves undisturbed, to the root of
that run. `AcceptedIsGenuine` needs no history: two certificates and a chain that
verify against a root, and a signature that verifies with the leaf's key, name one run.

### What is only model-checked

* Liveness, under fairness: `HandshakeCompletes`, `SentIsReceived`, `FramedIsPopped`,
  `RequestsAreAnswered`, `DepartingClientIsClosed`, `StopEndsTheLoop`,
  `StopEndsTheThread`, `DemoEnds`. The prover has neither `ENABLED` nor fairness.

Every other property of a passing run is stated by a theorem.

Induction. The library's induction theorems take an operator as a parameter, which the
installed provers cannot instantiate. `DataInduction` states induction for sets and for
functions instead: a set of numbers that has 0 and is closed under successor has all
(`BoundedInduction`), a set of sequences that is closed under `Append` has all
(`SequenceInduction`), and a function defined by iteration exists and is the only one
(`Iteration`, `SameIteration`). It rests on the well-foundedness of the naturals. A
recursive function of a model is first shown to satisfy its equation, then to have its
property at each index; the models use no `RECURSIVE` operator.
## 5. What the checks found

* **A response can be too long for its record** (`tls_oversize`). `frame_payload`
  and `protect_application_data` accept any length; the receiver's `pop_record`
  refuses more than `MAX_RECORD_SIZE`. A file over 16 MiB less the 36 bytes of
  protection is served by the plain listener and breaks the session on the `ssl`
  one, though `README.md:384` promises "a secure byte stream for the web server".
  `CleanWireNeverFails` fails with one such plaintext and holds without.
* **Replies follow the closing reply** (`loop_closing`). After a reply with
  `Connection: close` is queued the connection is still watched for READ, and
  `_service_connection` reads before it flushes: requests that arrive in between
  are answered behind it. After a 400 the refused bytes also stay in
  `http_input`, and are refused again with the bytes that are read behind them: the
  run's client sends one refused request and a part of another, and gets two 400s for
  the first.
  `client_side.py:34` takes all bytes up to the close for one response.
* **A request that takes no bytes** (`http_negative`). `Content-Length` may be
  negative; the number of bytes consumed may then be zero or less, and the loop of
  `_handle_http_messages`, which "continues after reducing the consumed bytes"
  (`server.py:223`), does not advance.

The proofs found three things that the runs had not shown, because no instance
held them:

* A location may be the empty string, if a configuration quotes it. `match_location`
  starts from a default location whose length is 1 (`http.py:109`), so this one is
  chosen for no path, though it is a prefix of every path. `LongestPrefix` leaves it out; one of the sites
  of `http` now has such a location.
* A session that fails between two requests drops the first with the second
  (`server.py:205`): the first version of `RequestsWaitTheirTurn` said that what is
  decrypted is answered, and TLC refuted it once a script had such a session.

* One word too many can change a server that was closed before it: `location` as the
  name of the second server (`server location {`) makes `_parse_block` store that
  block inside the first (`config.py:141`), whose locations are then the directives of
  the second. `EarlierServersAreKept` said that this cannot happen, and held until the
  instance had the word; it now names the exception.

Things the models include as they are. They are not wrong by a line of the
repository, or only by a loose reading of one:

* `serve_forever` sets `_ready` in its `finally`, so `wait_until_ready` returns
  also after a bind or an identity failed. Callers that ask `bound_port` next
  get a `LookupError`, and only then or when they waited too short
  (`HeldPortsAreServed`).
* Locations are matched against the undecoded path, files are looked up by the
  decoded one. Where the path as it was sent chooses the location that its resolved
  form chooses, as it always does with `/` as the only location, the spelling does not
  matter (`SpellingDoesNotMatterToFiles`); elsewhere it may choose another location, though
  no file outside the chosen root is served (`ServedFilesAreInside`).
* Every run regenerates the certificates in the default directory, also a demo or a
  `--prepare-only` beside a running server, whose clients then load a root that did
  not issue its certificate and refuse it. The promises of `DemoSite` are therefore
  made to runs that had the directory to themselves.
* If the server closes after the handshake the TLS client returns empty bytes as
  the response, which is why `WholeUnlessServerQuits` allows none over TLS.
* A demo whose `wait_until_ready` times out leaves the server running in its daemon
  thread.

And: a record that fails makes the server drop replies already
buffered and plaintext decrypted from the same `recv` (`server.py:205`); an
exception of `build_http_response`, which the URLs `//[` and `/%00` cause, ends
`serve_forever` for every connection (`server.py:237`); neither buffers nor idle connections have a limit; a
configuration that is cut short, or has a closing brace too many, is loaded as far
as it goes (`config.py:120`, `:159`); the first directive without arguments is
swallowed by the next of its name (`config.py:167`), and a named block after an
unnamed one is stored inside it (`config.py:141`).

## 6. What is not modelled

* Which characters make a lexeme, a header name or a TLV field; reply texts and
  content types; the index page. Data no property distinguishes.
* X.509 beyond keys, issuers, names, path lengths and validity; cryptography.
* The contents of records beyond the fields the handlers look for (`messages.py`).
* Symbolic links, and files that change while they are served, other than an `is_file`
  or `read_bytes` that fails (`Raise` in `HTTPMessages`, `boom` in `EventLoop`).
* Closing a socket with unread input may make the kernel discard replies that
  were written; `written` in `EventLoop` means handed to the kernel.
* Errors of `accept()` other than `BlockingIOError`, which the code does not
  handle, such as the process running out of descriptors.
* The garbage collector, which closes the socket a set-up failed at in the end
  (`OnlyAFailedListenerIsLeft`), and what connects to it until then.
* Clients of `EventLoop` whose request is answered without an end (`http_negative`): each
  step of its handler answers a unit.
* Command-line parsing and printing.

## 7. State

Every component is modelled, each has its inductive invariant proved, and every safety
and action property the passing runs check is proved for all values of the constants,
under the hypotheses section 4 names.
What stays with TLC alone is liveness (section 4), and the runs that show a violation.
A change of the program is to be followed in this order: the module, its run, the
invariant of the component, its theorems.
