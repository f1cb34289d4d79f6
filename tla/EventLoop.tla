----------------------------- MODULE EventLoop -----------------------------
(***************************************************************************)
(* The single-threaded selectors loop of WebServer                         *)
(* (tls_web_server/server.py) with the connections it serves: accept,      *)
(* non-blocking reads, the TLS layer's records, the HTTP request loop,     *)
(* buffered partial writes, orderly and abrupt closes, stop().             *)
(*                                                                         *)
(* One step of the loop is one selector call, one socket call or one round *)
(* of an inner while loop.  Clients, the kernel's socket buffers and the   *)
(* thread that calls stop() act between any two of them.                   *)
(*                                                                         *)
(* Data.  A client's stream is a sequence of units.  On a plain listener a *)
(* unit is bytes of HTTP: "part" of a request, or the end of one, which    *)
(* settles what the request is: "keep" and "close" are answered with that  *)
(* Connection header, "bad" is what parse_message refuses, and "boom" is a *)
(* request whose file cannot be read when build_http_response tries.  On a *)
(* TLS listener a unit is one record: a ClientHello ("hello"), an          *)
(* application record holding such bytes, or "junk" the session refuses    *)
(* (module ToyTLSConnection says which those are).                         *)
(***************************************************************************)
EXTENDS Naturals, Sequences, FiniteSets, SequencesExt

CONSTANTS
    Conns,         \* connections, one per client
    TLSConns,      \* those made to the ssl listener
    Populations,   \* the clients there may be: of each connection's, the
                   \* stream it may send, and whether it is prompt, a client
                   \* that keeps reading what it is sent
    MaxId,         \* bound: requests are numbered 1 .. MaxId in each stream
    SendCapacity   \* units a kernel send buffer holds

Listeners == {"plain", "ssl"}
ListenerOf(c) == IF c \in TLSConns THEN "ssl" ELSE "plain"

Kinds == {"hello", "junk", "part", "keep", "close", "bad", "boom"}
HttpKinds == {"part", "keep", "close", "bad", "boom"}
Unit == [kind : Kinds, id : 0 .. MaxId]

\* What the server writes: the handshake's ServerHello and ServerAuth, an
\* answer with its Connection header, or the 400 that rejects a request.
Output == [kind : {"handshake", "keep", "close", "reject"}, id : 0 .. MaxId]
Handshake == [kind : {"handshake"}, id : 0 .. MaxId]

Mask == SUBSET {"READ", "WRITE"}
Event == [key : Conns \cup Listeners, mask : Mask]

ASSUME ConstantsAssumption ==
    /\ TLSConns \subseteq Conns
    /\ Conns \cap Listeners = {}
    /\ MaxId \in Nat
    /\ SendCapacity \in Nat \ {0}
    /\ Populations \subseteq [Conns -> [script : Seq(Unit), prompt : BOOLEAN]]

VARIABLES
    pc,         \* where the loop's thread is
    stopping,   \* _stopping
    events,     \* what select() returned and the for loop has not reached
    cur,        \* the event being serviced
    chunk,      \* records of this recv that feed_wire_data has not popped
    pending,    \* the session's _pending_wire
    plaintext,  \* the session's _plaintext
    context,    \* context[c]: the ConnectionContext and its socket
    peer        \* peer[c]: client c and the kernel's buffers

sessionVars == <<chunk, pending, plaintext>>
loopVars == <<pc, events, cur>>
vars == <<loopVars, sessionVars, stopping, context, peer>>

\* queued and written are histories: all that entered output_buffer, and all
\* that send() took from it.
Context == [phase : {"none", "backlog", "open", "closed"},
            interest : Mask,
            tls : {"plain", "WAIT_CLIENT_HELLO", "ESTABLISHED"},
            http_input : Seq(Unit),
            output_buffer : Seq(Output),
            closing_after_write : BOOLEAN,
            queued : Seq(Output),
            written : Seq(Output)]

\* sent counts the units of the script put on the wire, unread the written
\* units the client has not taken from the kernel.
PeerState == [script : Seq(Unit), prompt : BOOLEAN, sent : Nat, inbound : Seq(Unit),
              fin : BOOLEAN, reset : BOOLEAN, unread : 0 .. SendCapacity]

TypeOK ==
    /\ pc \in {"loop", "read", "feed", "http", "flush", "cleanup", "done"}
    /\ stopping \in BOOLEAN
    /\ events \subseteq Event
    /\ cur \in Event
    /\ pc \in {"read", "feed", "http", "flush"} => cur.key \in Conns
    /\ chunk \in Seq(Unit)
    /\ pending \in Seq(Handshake)
    /\ plaintext \in Seq(Unit)
    /\ context \in [Conns -> Context]
    /\ peer \in [Conns -> PeerState]

Idle == [key |-> "plain", mask |-> {}]

Init ==
    /\ pc = "loop"
    /\ stopping = FALSE
    /\ events = {}
    /\ cur = Idle
    /\ chunk = <<>>
    /\ pending = <<>>
    /\ plaintext = <<>>
    /\ context = [c \in Conns |->
           [phase |-> "none", interest |-> {},
            tls |-> IF c \in TLSConns THEN "WAIT_CLIENT_HELLO" ELSE "plain",
            http_input |-> <<>>, output_buffer |-> <<>>,
            closing_after_write |-> FALSE, queued |-> <<>>, written |-> <<>>]]
    /\ \E clients \in Populations :
           peer = [c \in Conns |->
                  [script |-> clients[c].script, prompt |-> clients[c].prompt,
                   sent |-> 0, inbound |-> <<>>,
                   fin |-> FALSE, reset |-> FALSE, unread |-> 0]]

-----------------------------------------------------------------------------
(* What the methods of WebServer do to one ConnectionContext.  A definition *)
(* Name_Change is Name with a bug a maintainer might introduce; the mutants *)
(* of PROJECT.json put it in the place of Name.                             *)

\* _queue_output
QueueOutput_KeepInterest(ctx, data) ==
    [ctx EXCEPT !.output_buffer = @ \o data, !.queued = @ \o data]
QueueOutput(ctx, data) ==
    IF data = <<>> THEN ctx
    ELSE [ctx EXCEPT !.output_buffer = @ \o data, !.queued = @ \o data,
                     !.interest = {"READ", "WRITE"}]

\* _close_connection: unregistered, then closed.
CloseConnection(ctx) == [ctx EXCEPT !.phase = "closed", !.interest = {}]

\* recv() returned no data.
EndOfStream_Defer(ctx) == [ctx EXCEPT !.closing_after_write = TRUE]
EndOfStream(ctx) ==
    IF ctx.output_buffer # <<>> THEN [ctx EXCEPT !.closing_after_write = TRUE]
                                ELSE CloseConnection(ctx)

\* send() took the first n units: what remains is kept for the next event.
Remaining_OffByOne(buffer, n) == SubSeq(buffer, n + 2, Len(buffer))
Remaining(buffer, n) == SubSeq(buffer, n + 1, Len(buffer))

\* _flush_output after send().
Flushed_CloseEarly(ctx) ==
    IF ctx.closing_after_write THEN CloseConnection(ctx)
    ELSE IF ctx.output_buffer # <<>> THEN ctx
    ELSE [ctx EXCEPT !.interest = {"READ"}]
Flushed(ctx) ==
    IF ctx.output_buffer # <<>> THEN ctx
    ELSE IF ctx.closing_after_write THEN CloseConnection(ctx)
    ELSE [ctx EXCEPT !.interest = {"READ"}]

\* parse_message finds the first request that is complete or refused.
HasRequest(input) == \E i \in DOMAIN input : input[i].kind # "part"
RequestEnd(input) ==
    CHOOSE i \in DOMAIN input :
        input[i].kind # "part" /\ \A j \in 1 .. i - 1 : input[j].kind = "part"
Request(input) == input[RequestEnd(input)]

\* DataProvider.reduce_data(consumed)
Reduced_KeepLast(input) == SubSeq(input, RequestEnd(input), Len(input))
Reduced(input) == SubSeq(input, RequestEnd(input) + 1, Len(input))

-----------------------------------------------------------------------------
(* Readiness, as the kernel reports it *)

Readable(c) == peer[c].inbound # <<>> \/ peer[c].fin \/ peer[c].reset
Writable(c) == peer[c].unread < SendCapacity \/ peer[c].reset

ReadyMask(c) ==
    context[c].interest \cap ((IF Readable(c) THEN {"READ"} ELSE {})
                                  \cup (IF Writable(c) THEN {"WRITE"} ELSE {}))

Open(c) == context[c].phase = "open"
Pending(l) == {c \in Conns : context[c].phase = "backlog" /\ ListenerOf(c) = l}

Ready ==
    {[key |-> l, mask |-> {"READ"}] : l \in {k \in Listeners : Pending(k) # {}}}
        \cup {[key |-> c, mask |-> ReadyMask(c)] :
                  c \in {d \in Conns : ReadyMask(d) # {}}}

\* send() takes some of the buffer, never more than the kernel has room for.
Sendable(c) ==
    {n \in 1 .. Len(context[c].output_buffer) : n <= SendCapacity - peer[c].unread}

-----------------------------------------------------------------------------
(* serve_forever *)

\* The while condition is tested between batches only.
MustStop_WhenIdle == stopping /\ Ready = {}
MustStop == stopping

\* select() returns every ready socket; a time-out with none changes nothing.
Select ==
    /\ pc = "loop"
    /\ events = {}
    /\ ~MustStop
    /\ Ready # {}
    /\ events' = Ready
    /\ UNCHANGED <<pc, cur, sessionVars, stopping, context, peer>>

LeaveLoop ==
    /\ pc = "loop"
    /\ events = {}
    /\ MustStop
    /\ pc' = "cleanup"
    /\ UNCHANGED <<events, cur, sessionVars, stopping, context, peer>>

\* _accept_connection; BlockingIOError if the client has gone since select().
Accept(l) ==
    /\ pc = "loop"
    /\ [key |-> l, mask |-> {"READ"}] \in events
    /\ events' = events \ {[key |-> l, mask |-> {"READ"}]}
    /\ IF Pending(l) = {} THEN UNCHANGED context
       ELSE \E c \in Pending(l) :
                context' = [context EXCEPT ![c].phase = "open",
                                           ![c].interest = {"READ"}]
    /\ UNCHANGED <<pc, cur, sessionVars, stopping, peer>>

\* isinstance(key.data, ListenerContext) tells a listener from a client.
IsClient_Always(ev) == TRUE
IsClient(ev) == ev.key \in Conns

\* _service_connection: READ is served before WRITE.
Service(ev) ==
    /\ pc = "loop"
    /\ ev \in events
    /\ IsClient(ev)
    /\ events' = events \ {ev}
    /\ cur' = ev
    /\ pc' = IF "READ" \in ev.mask THEN "read" ELSE "flush"
    /\ UNCHANGED <<sessionVars, stopping, context, peer>>

At(c, place) == pc = place /\ c = cur.key

\* On with this event, or back to the for loop (or out of it).
Goto(place) ==
    /\ pc' = place
    /\ cur' = IF place \in {"loop", "cleanup"} THEN Idle ELSE cur
    /\ UNCHANGED events

\* The read is over: WRITE follows if it was in the mask and the socket is
\* still open.
AfterRead(ctx) ==
    IF ctx.phase = "open" /\ "WRITE" \in cur.mask THEN "flush" ELSE "loop"

-----------------------------------------------------------------------------
(* _read_from_connection.  Readiness seen by select() lasts until this     *)
(* thread uses it up, so recv() has something to return.                   *)

\* recv(4096) returns a prefix of what has arrived.
RecvData(c) ==
    /\ At(c, "read")
    /\ \E n \in 1 .. Len(peer[c].inbound) :
          LET data == SubSeq(peer[c].inbound, 1, n) IN
          /\ peer' = [peer EXCEPT ![c].inbound = SubSeq(@, n + 1, Len(@))]
          /\ IF context[c].tls = "plain"
             THEN /\ context' = [context EXCEPT ![c].http_input = @ \o data]
                  /\ Goto("http")
                  /\ UNCHANGED chunk
             ELSE /\ chunk' = data
                  /\ Goto("feed")
                  /\ UNCHANGED context
    /\ UNCHANGED <<pending, plaintext, stopping>>

RecvEnd(c) ==
    /\ At(c, "read")
    /\ ~peer[c].reset
    /\ peer[c].inbound = <<>>
    /\ peer[c].fin
    /\ context' = [context EXCEPT ![c] = EndOfStream(@)]
    /\ Goto(AfterRead(context'[c]))
    /\ UNCHANGED <<sessionVars, stopping, peer>>

\* recv(), when nothing is left to read, or send() raises ConnectionResetError
\* or another OSError.
SocketError(c) ==
    /\ \/ At(c, "read") /\ peer[c].inbound = <<>>
       \/ At(c, "flush")
    /\ peer[c].reset
    /\ context' = [context EXCEPT ![c] = CloseConnection(@)]
    /\ Goto("loop")
    /\ UNCHANGED <<sessionVars, stopping, peer>>

\* feed_wire_data, one record per step: the ClientHello, application data, or
\* a record that makes it raise.
FeedHello(c) ==
    /\ At(c, "feed")
    /\ chunk # <<>>
    /\ Head(chunk).kind = "hello"
    /\ context[c].tls = "WAIT_CLIENT_HELLO"
    /\ context' = [context EXCEPT ![c].tls = "ESTABLISHED"]
    /\ pending' = Append(pending, [kind |-> "handshake", id |-> Head(chunk).id])
    /\ chunk' = Tail(chunk)
    /\ UNCHANGED <<loopVars, plaintext, stopping, peer>>

FeedApplicationData(c) ==
    /\ At(c, "feed")
    /\ chunk # <<>>
    /\ Head(chunk).kind \in HttpKinds
    /\ context[c].tls = "ESTABLISHED"
    /\ plaintext' = Append(plaintext, Head(chunk))
    /\ chunk' = Tail(chunk)
    /\ UNCHANGED <<loopVars, pending, stopping, context, peer>>

FeedRaises(c) ==
    /\ At(c, "feed")
    /\ chunk # <<>>
    /\ ~ CASE context[c].tls = "WAIT_CLIENT_HELLO" -> Head(chunk).kind = "hello"
           [] context[c].tls = "ESTABLISHED" -> Head(chunk).kind \in HttpKinds
    /\ context' = [context EXCEPT ![c] = CloseConnection(@)]
    /\ chunk' = <<>>
    /\ pending' = <<>>
    /\ plaintext' = <<>>
    /\ Goto("loop")
    /\ UNCHANGED <<stopping, peer>>

\* What is pending is queued before the plaintext reaches the HTTP layer.
FeedReturns(c) ==
    /\ At(c, "feed")
    /\ chunk = <<>>
    /\ context' = [context EXCEPT ![c] =
                       [QueueOutput(context[c], pending) EXCEPT !.http_input = @ \o plaintext]]
    /\ pending' = <<>>
    /\ plaintext' = <<>>
    /\ Goto(IF plaintext # <<>> THEN "http" ELSE AfterRead(context[c]))
    /\ UNCHANGED <<chunk, stopping, peer>>

-----------------------------------------------------------------------------
(* _handle_http_messages, one request per step *)

\* Nothing, or the beginning of a request: wait for another read event.
AwaitMore(c) ==
    /\ At(c, "http")
    /\ ~HasRequest(context[c].http_input)
    /\ Goto(AfterRead(context[c]))
    /\ UNCHANGED <<sessionVars, stopping, context, peer>>

\* InvalidMessageError: a 400 is queued; http_input is not reduced.
RejectRequest(c) ==
    /\ At(c, "http")
    /\ HasRequest(context[c].http_input)
    /\ LET request == Request(context[c].http_input)
           reply == [kind |-> "reject", id |-> request.id]
       IN  /\ request.kind = "bad"
           /\ context' = [context EXCEPT ![c] =
                  [QueueOutput(context[c], <<reply>>) EXCEPT !.closing_after_write = TRUE]]
    /\ Goto(AfterRead(context[c]))
    /\ UNCHANGED <<sessionVars, stopping, peer>>

\* build_http_response and _send_application_bytes.  Plaintext only comes out
\* of an established session, so protect_application_data does not raise here.
AnswerRequest(c) ==
    /\ At(c, "http")
    /\ HasRequest(context[c].http_input)
    /\ LET request == Request(context[c].http_input)
           reply == [kind |-> request.kind, id |-> request.id]
           close == request.kind = "close"
       IN  /\ request.kind \in {"keep", "close"}
           /\ context' = [context EXCEPT ![c] =
                  [QueueOutput(context[c], <<reply>>) EXCEPT
                      !.http_input = Reduced(@),
                      !.closing_after_write = @ \/ close]]
           /\ Goto(IF close THEN AfterRead(context[c]) ELSE "http")
    /\ UNCHANGED <<sessionVars, stopping, peer>>

\* The file of the request cannot be read: nothing catches the exception on
\* its way out of serve_forever.
HandlerRaises(c) ==
    /\ At(c, "http")
    /\ HasRequest(context[c].http_input)
    /\ Request(context[c].http_input).kind = "boom"
    /\ context' = [context EXCEPT ![c].http_input = Reduced(@)]
    /\ Goto("cleanup")
    /\ UNCHANGED <<sessionVars, stopping, peer>>

-----------------------------------------------------------------------------
(* _flush_output.  WRITE is only watched while output is buffered, so the  *)
(* early return for an empty buffer is never taken.                        *)

Flush(c) ==
    /\ At(c, "flush")
    /\ ~peer[c].reset
    /\ \E n \in Sendable(c) :
          /\ context' = [context EXCEPT ![c] =
                 Flushed([context[c] EXCEPT
                     !.output_buffer = Remaining(@, n),
                     !.written = @ \o SubSeq(context[c].output_buffer, 1, n)])]
          /\ peer' = [peer EXCEPT ![c].unread = @ + n]
    /\ Goto("loop")
    /\ UNCHANGED <<sessionVars, stopping>>

\* _cleanup closes every registered socket and the listeners with their backlog.
Cleanup ==
    /\ pc = "cleanup"
    /\ context' = [c \in Conns |-> IF context[c].phase = "none" THEN context[c]
                                   ELSE CloseConnection(context[c])]
    /\ events' = {}
    /\ pc' = "done"
    /\ UNCHANGED <<cur, sessionVars, stopping, peer>>

ServiceStep(c) ==
    \/ RecvData(c) \/ RecvEnd(c) \/ SocketError(c)
    \/ FeedHello(c) \/ FeedApplicationData(c) \/ FeedRaises(c) \/ FeedReturns(c)
    \/ AwaitMore(c) \/ RejectRequest(c) \/ AnswerRequest(c) \/ HandlerRaises(c)
    \/ Flush(c)

ServerStep ==
    \/ Select
    \/ LeaveLoop
    \/ \E l \in Listeners : Accept(l)
    \/ \E ev \in events : Service(ev)
    \/ \E c \in Conns : ServiceStep(c)
    \/ Cleanup

-----------------------------------------------------------------------------
(* The clients, the kernel, and the thread that stops the server *)

serverVars == <<loopVars, sessionVars>>

Connect(c) ==
    /\ pc # "done"
    /\ context[c].phase = "none"
    /\ context' = [context EXCEPT ![c].phase = "backlog"]
    /\ UNCHANGED <<serverVars, stopping, peer>>

Connected(c) == context[c].phase \in {"backlog", "open"} /\ ~peer[c].reset

\* The client of a session has the server's handshake before it can protect
\* application data.
Received(c) == SubSeq(context[c].written, 1, Len(context[c].written) - peer[c].unread)
MaySend(c, u) ==
    c \in TLSConns /\ u.kind \in HttpKinds =>
        \E i \in DOMAIN Received(c) : Received(c)[i].kind = "handshake"

ClientSends(c) ==
    /\ Connected(c)
    /\ ~peer[c].fin
    /\ peer[c].sent < Len(peer[c].script)
    /\ LET u == peer[c].script[peer[c].sent + 1] IN
       /\ MaySend(c, u)
       /\ peer' = [peer EXCEPT ![c].sent = @ + 1, ![c].inbound = Append(@, u)]
    /\ UNCHANGED <<serverVars, stopping, context>>

ClientFinishes(c) ==
    /\ Connected(c)
    /\ ~peer[c].fin
    /\ peer' = [peer EXCEPT ![c].fin = TRUE]
    /\ UNCHANGED <<serverVars, stopping, context>>

\* A reset may discard what has arrived; in the backlog it may discard the
\* connection itself.
ClientResets(c) ==
    /\ Connected(c)
    /\ \E inbound \in {<<>>, peer[c].inbound} :
          peer' = [peer EXCEPT ![c].reset = TRUE, ![c].inbound = inbound]
    /\ \/ UNCHANGED context
       \/ /\ context[c].phase = "backlog"
          /\ context' = [context EXCEPT ![c] = CloseConnection(@)]
    /\ UNCHANGED <<serverVars, stopping>>

\* What is read after the server closed changes nothing here.
ClientReads(c) ==
    /\ Open(c)
    /\ peer[c].unread > 0
    /\ ~peer[c].reset
    /\ peer' = [peer EXCEPT ![c].unread = @ - 1]
    /\ UNCHANGED <<serverVars, stopping, context>>

Stop ==
    /\ ~stopping
    /\ stopping' = TRUE
    /\ UNCHANGED <<serverVars, context, peer>>

ClientStep(c) ==
    Connect(c) \/ ClientSends(c) \/ ClientFinishes(c) \/ ClientResets(c) \/ ClientReads(c)

Next ==
    \/ ServerStep
    \/ \E c \in Conns : ClientStep(c)
    \/ Stop

Spec == Init /\ [][Next]_vars

\* The server's thread runs; prompt clients read what they are sent.  Nothing is
\* assumed of the others: they may stall anywhere, for ever.
FairSpec ==
    /\ Spec
    /\ WF_vars(ServerStep)
    /\ \A c \in Conns : WF_vars(peer[c].prompt /\ ClientReads(c))

-----------------------------------------------------------------------------
(* Properties *)

\* The selector watches for WRITE exactly while output is buffered: less, and
\* a reply is never sent; more, and the loop spins on an idle socket.
WriteInterestMatchesOutput ==
    \A c \in Conns : Open(c) =>
        context[c].interest = IF context[c].output_buffer = <<>> THEN {"READ"}
                                                                 ELSE {"READ", "WRITE"}

\* closing_after_write only acts when output drains, so a connection it is set
\* on must still have output: otherwise nobody would ever close it.
ClosingHasOutput ==
    \A c \in Conns : Open(c) /\ context[c].closing_after_write =>
        context[c].output_buffer # <<>>

\* However send() splits it, what was queued is written once, in order, and
\* the rest is still buffered.
OutputIsStream ==
    \A c \in Conns : context[c].written \o context[c].output_buffer = context[c].queued

\* What a stream of units, or of outputs, holds of the exchange of requests and
\* answers.  An answer carries the kind and the number of its request.
IsExchanged(u) == u.kind \in {"keep", "close"}
Extended(exchange, u) == IF IsExchanged(u) THEN Append(exchange, u) ELSE exchange
Exchange(stream) ==
    LET upTo[i \in 0 .. Len(stream)] ==
            IF i = 0 THEN <<>> ELSE Extended(upTo[i - 1], stream[i])
    IN  upTo[Len(stream)]

\* The replies queued answer the client's requests one by one in the order the
\* client sent them, however reads split and join them and whatever else is
\* going on: none is skipped, none is answered twice.
AnsweredInOrder ==
    \A c \in Conns : IsPrefix(Exchange(context[c].queued), Exchange(peer[c].script))

\* The session's buffers only hold something while feed_wire_data runs.  A
\* connection that select() reported is open until it is served, and nothing else
\* closes it: no event of a batch is about the connection in service.
DispatchIsCurrent ==
    /\ pc \in {"loop", "cleanup", "done"} <=> cur = Idle
    /\ pc # "feed" => chunk = <<>> /\ pending = <<>> /\ plaintext = <<>>
    /\ pc = "feed" => cur.key \in TLSConns
    /\ cur.key \in Conns => Open(cur.key)
    /\ \A ev \in events : ev.key \in Conns => Open(ev.key) /\ ev.key # cur.key
    /\ \A e, f \in events : e.key = f.key => e = f

\* The selector knows the open connections only, and only those have exchanged
\* anything.
OnlyOpenIsRegistered ==
    \A c \in Conns :
        /\ context[c].phase # "open" => context[c].interest = {}
        /\ context[c].phase \in {"none", "backlog"} =>
               /\ context[c].queued = <<>> /\ context[c].http_input = <<>>
               /\ ~context[c].closing_after_write
        /\ c \in TLSConns <=> context[c].tls # "plain"

\* Where the requests of a client are that it has sent and that are not answered:
\* in http_input, in the session's hands, or with the kernel.
Unanswered(c) ==
    context[c].http_input \o (IF c = cur.key THEN plaintext \o chunk ELSE <<>>) \o peer[c].inbound
Asked(c) == Exchange(SubSeq(peer[c].script, 1, peer[c].sent))

\* Every request sent is answered or waits in its turn.  A reset loses some of
\* the last ones; the end of the connection, any that are not answered.
RequestsWaitTheirTurn ==
    \A c \in Conns :
        LET answered == Exchange(context[c].queued)
            known == answered \o Exchange(Unanswered(c))
        IN  /\ peer[c].sent <= Len(peer[c].script)
            /\ IF context[c].phase = "closed" THEN IsPrefix(answered, Asked(c))
               ELSE IF peer[c].reset THEN IsPrefix(known, Asked(c))
               ELSE known = Asked(c)

\* The state of the loop and its connections, its type included.  It is inductive
\* (EventLoop_proofs).
LoopInv ==
    /\ TypeOK
    /\ DispatchIsCurrent
    /\ OnlyOpenIsRegistered
    /\ WriteInterestMatchesOutput
    /\ ClosingHasOutput
    /\ OutputIsStream
    /\ RequestsWaitTheirTurn

\* The loop implements the service its clients rely on: a reply only ever
\* answers the next of the requests already made, it leaves the server in its
\* turn, and nothing is answered or sent on a connection that has ended.
PhaseOf(c) == CASE context[c].phase \in {"none", "backlog"} -> "ahead"
                [] context[c].phase = "open" -> "open"
                [] context[c].phase = "closed" -> "over"
RS == INSTANCE RequestService WITH
    Requests <- [kind : {"keep", "close"}, id : 0 .. MaxId],
    asked <- [c \in Conns |-> Exchange(SubSeq(peer[c].script, 1, peer[c].sent))],
    answers <- [c \in Conns |-> Exchange(context[c].queued)],
    delivered <- [c \in Conns |-> Exchange(context[c].written)],
    phase <- [c \in Conns |-> PhaseOf(c)]
ImplementsRequestService == RS!Spec

\* A connection is given up with replies still buffered only if the client
\* broke it, its session failed, or the server stops.
BufferedOutputIsNotDropped ==
    [][\A c \in Conns :
           Open(c) /\ context'[c].phase = "closed" /\ context'[c].output_buffer # <<>>
               => peer[c].reset \/ pc = "cleanup" \/ FeedRaises(c)]_vars

\* Once a reply that announces "Connection: close" is queued, it is the last
\* thing on that connection.
ClosingReplyIsLast ==
    \A c \in Conns : \A i \in DOMAIN context[c].queued :
        context[c].queued[i].kind \in {"close", "reject"} => i = Len(context[c].queued)

\* A unit is the server's to answer if nothing before it ended the conversation
\* and its session does not fail later on.
Answerable(c, i) ==
    LET script == peer[c].script IN
    /\ script[i].kind \in {"hello", "keep", "close"}
    /\ \A j \in 1 .. i - 1 : script[j].kind \in {"hello", "part", "keep"}
    /\ \A j \in DOMAIN script : script[j].kind # "junk" /\ (script[j].kind = "hello" => j = 1)

Wrote(c, id) == \E k \in DOMAIN context[c].written : context[c].written[k].id = id
IsOwed(c) == \E i \in 1 .. peer[c].sent : Answerable(c, i) /\ ~Wrote(c, peer[c].script[i].id)

\* Complete requests, and a ClientHello, from a client that reads are answered,
\* also while other clients are half-way through a handshake, stall without
\* reading, hang up or reset: "One slow TLS client must not block all other
\* connections".
RequestsAreAnswered ==
    \A c \in Conns :
        peer[c].prompt /\ IsOwed(c) ~> ~IsOwed(c) \/ peer[c].reset \/ stopping

\* A client that hangs up or that was told "Connection: close" is let go, if
\* it takes what is still buffered for it.
DepartingClientIsClosed ==
    \A c \in Conns :
        peer[c].prompt /\ Open(c) /\ (peer[c].fin \/ peer[c].reset \/ context[c].closing_after_write)
            ~> context[c].phase = "closed"

\* stop() ends the loop whatever the clients do.
StopEndsTheLoop == stopping ~> pc = "done"
=============================================================================
