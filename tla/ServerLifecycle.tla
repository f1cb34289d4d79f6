-------------------------- MODULE ServerLifecycle --------------------------
(***************************************************************************)
(* The life of a WebServer: a thread runs serve_forever, which opens the   *)
(* configured listeners, serves, and cleans up, while the thread that      *)
(* started it waits for readiness, asks for ports, stops it and joins it   *)
(* (scripts/demo.py, tests/test_integration.py).  The two share _ready,    *)
(* _stopping and _bound_listeners.  What happens inside the loop is module *)
(* EventLoop; here the loop runs until it is stopped or something raises.  *)
(* What the starting thread uses the server for is module DemoProgram,     *)
(* which composes the steps of this module with those of ClientWorkflow.   *)
(*                                                                         *)
(* A definition called Name_Change is Name with a bug.                     *)
(***************************************************************************)
EXTENDS Naturals, Sequences

CONSTANTS
    Configs,        \* the configurations a server may have
    Ports,          \* the port numbers there are
    ForeignPorts,   \* those another process listens on
    MayTimeOut      \* do wait_until_ready and join have a timeout that may expire?

\* A server block: whether it has TLS files, and good ones, and what it listens
\* on; port 0 means any.
ServerBlock ==
    [tls : {"none", "ok", "bad"}, listens : Seq([port : Ports \union {0}, ssl : BOOLEAN])]

ASSUME ConstantsAssumption ==
    /\ Configs \subseteq Seq(ServerBlock)
    /\ Ports \subseteq Nat \ {0}
    /\ ForeignPorts \subseteq Ports
    /\ MayTimeOut \in BOOLEAN

VARIABLES
    config,         \* self.config.servers
    pc,             \* where the server's thread is
    place,          \* the listener _setup_listeners is at: block b, listen i
    identity,       \* local variable of _setup_listeners: a block's identity, or 0
    sock,           \* the listening sockets, by block and index
    bound,          \* _bound_listeners: the listener and its port
    ready,          \* _ready
    stopping,       \* _stopping
    raised,         \* history: the part of serve_forever an exception came from
    main            \* the starting thread: where it is and the ports it was told

lifecycleVars == <<config, pc, place, identity, sock, bound, ready, stopping, raised, main>>
setupVars == <<place, identity>>
shared == <<bound, ready, stopping>>

Listens(b) == config[b].listens
Listeners == UNION {{b} \X DOMAIN Listens(b) : b \in DOMAIN config}
Directive(l) == Listens(l[1])[l[2]]
Here == <<place.b, place.i>>

NoSocket == [state |-> "none", port |-> 0, identity |-> 0]
IsListening(l) == sock[l].state = "registered"
PortsInUse == ForeignPorts \union {sock[l].port : l \in Listeners}

LifecycleTypeOK ==
    /\ config \in Configs
    /\ pc \in {"new", "setup", "loop", "close", "clear", "signal", "done"}
    /\ place \in [b : 1 .. Len(config) + 1, i : Nat]
    /\ place.i # 0 => Here \in Listeners
    /\ identity \in 0 .. Len(config)
    /\ sock \in [Listeners -> [state : {"none", "unregistered", "registered", "closed"},
                               port : Ports \union {0}, identity : 0 .. Len(config)]]
    /\ bound \in Seq([listener : Listeners, port : Ports])
    /\ ready \in BOOLEAN
    /\ stopping \in BOOLEAN
    /\ raised \in {"nothing", "setup", "loop"}
    /\ main \in [at : {"init", "waiting", "ready", "plain", "using", "lookup_error",
                       "timeout", "stopped", "joined"},
                 port : [BOOLEAN -> Ports \union {0}]]

LifecycleInit ==
    /\ config \in Configs
    /\ pc = "new"
    /\ place = [b |-> 1, i |-> 0]
    /\ identity = 0
    /\ sock = [l \in Listeners |-> NoSocket]
    /\ bound = <<>>
    /\ ready = FALSE
    /\ stopping = FALSE
    /\ raised = "nothing"
    /\ main = [at |-> "init", port |-> [ssl \in BOOLEAN |-> 0]]

-----------------------------------------------------------------------------
(* The server's thread: _setup_listeners *)

InSetup == pc = "setup" /\ place.b <= Len(config)

\* The exception leaves the try of serve_forever for its finally.
Raise(part) ==
    /\ pc' = "close"
    /\ raised' = part
    /\ UNCHANGED <<config, setupVars, shared, main>>

\* The position after the current one: the next listen of the block, or the
\* next block, whose identity comes first.
Advanced_OneMore == IF place.i <= Len(Listens(place.b)) THEN [place EXCEPT !.i = @ + 1]
                                                  ELSE [b |-> place.b + 1, i |-> 0]
Advanced == IF place.i < Len(Listens(place.b)) THEN [place EXCEPT !.i = @ + 1]
                                         ELSE [b |-> place.b + 1, i |-> 0]

NeedsIdentity(b) == \E i \in DOMAIN Listens(b) : Listens(b)[i].ssl

\* Identity material is loaded once per block, and only if a listener of the
\* block needs it.
LoadedIdentity_KeepsPrevious(b) == IF NeedsIdentity(b) /\ identity = 0 THEN b ELSE identity
LoadedIdentity(b) == IF NeedsIdentity(b) THEN b ELSE 0

LoadIdentity ==
    /\ InSetup
    /\ place.i = 0
    /\ NeedsIdentity(place.b) => config[place.b].tls = "ok"
    /\ identity' = LoadedIdentity(place.b)
    /\ place' = Advanced
    /\ UNCHANGED <<config, pc, sock, shared, raised, main>>

\* No TLS config, or files that cannot be read or parsed.  The check at line
\* 140 can then not fail: a block with an ssl listen has its identity.
LoadIdentityRaises ==
    /\ InSetup
    /\ place.i = 0
    /\ NeedsIdentity(place.b)
    /\ config[place.b].tls # "ok"
    /\ Raise("setup")
    /\ UNCHANGED sock

\* What bind() may give a socket: the configured port or, for port 0, any
\* that nobody uses.
BindablePorts(listen) ==
    (IF listen.port = 0 THEN Ports ELSE {listen.port}) \ PortsInUse

\* The ListenerContext a socket is registered with: without an identity the
\* connections it accepts are plain.
ContextIdentity_Always(listen) == identity
ContextIdentity(listen) == IF listen.ssl THEN identity ELSE 0

OpenListener ==
    /\ InSetup
    /\ place.i > 0
    /\ \E port \in BindablePorts(Directive(Here)) :
          /\ sock' = [sock EXCEPT ![Here] =
                 [state |-> "registered", port |-> port,
                  identity |-> ContextIdentity(Directive(Here))]]
          /\ bound' = Append(bound, [listener |-> Here, port |-> port])
    /\ place' = Advanced
    /\ UNCHANGED <<config, pc, identity, ready, stopping, raised, main>>

\* socket(), bind(), listen() or register() fails: the address is in use, not
\* allowed, or something runs out.  The new socket may hold a port by then, even
\* listen, but is not registered.
OpenListenerRaises ==
    /\ InSetup
    /\ place.i > 0
    /\ \E port \in BindablePorts(Directive(Here)) \union {0} :
          sock' = [sock EXCEPT ![Here] =
              [state |-> "unregistered", port |-> port, identity |-> 0]]
    /\ Raise("setup")

SetReady ==
    /\ pc = "setup"
    /\ place.b > Len(config)
    /\ ready' = TRUE
    /\ pc' = "loop"
    /\ UNCHANGED <<config, setupVars, sock, bound, stopping, raised, main>>

-----------------------------------------------------------------------------
(* The loop's end, and the finally of serve_forever *)

LeaveLoop ==
    /\ pc = "loop"
    /\ stopping
    /\ pc' = "close"
    /\ UNCHANGED <<config, setupVars, sock, shared, raised, main>>

\* An exception nothing in the loop catches, or Ctrl+C.
LoopRaises ==
    /\ pc = "loop"
    /\ Raise("loop")
    /\ UNCHANGED sock

\* _cleanup finds its sockets in the selector.
ToClose_WhenReady == {l \in Listeners : IsListening(l) /\ ready}
ToClose == {l \in Listeners : IsListening(l)}

CloseSockets ==
    /\ pc = "close"
    /\ sock' = [l \in Listeners |-> IF l \in ToClose THEN [NoSocket EXCEPT !.state = "closed"]
                                                     ELSE sock[l]]
    /\ pc' = "clear"
    /\ UNCHANGED <<config, setupVars, shared, raised, main>>

Cleared_NotAtAll(listeners) == listeners
Cleared(listeners) == <<>>

ClearBoundListeners ==
    /\ pc = "clear"
    /\ bound' = Cleared(bound)
    /\ pc' = "signal"
    /\ UNCHANGED <<config, setupVars, sock, ready, stopping, raised, main>>

\* Whoever waits is woken also when nothing was ever served.
Signalled_OnSuccess == ready
Signalled == TRUE

Signal ==
    /\ pc = "signal"
    /\ ready' = Signalled
    /\ pc' = "done"
    /\ UNCHANGED <<config, setupVars, sock, bound, stopping, raised, main>>

SetUpStep ==
    \/ LoadIdentity \/ LoadIdentityRaises
    \/ OpenListener \/ OpenListenerRaises \/ SetReady

-----------------------------------------------------------------------------
(* The thread that starts and stops the server *)

serverVars == <<config, setupVars, sock, bound, raised>>

\* _ready and _stopping are as they were made: stop() may have come before.
EventsAtStart_Cleared == [ready |-> FALSE, stopping |-> FALSE]
EventsAtStart_Ready == [ready |-> TRUE, stopping |-> stopping]
EventsAtStart == [ready |-> ready, stopping |-> stopping]

Start ==
    /\ main.at = "init"
    /\ main' = [main EXCEPT !.at = "waiting"]
    /\ pc' = "setup"
    /\ ready' = EventsAtStart.ready
    /\ stopping' = EventsAtStart.stopping
    /\ UNCHANGED serverVars

WaitReturns ==
    /\ main.at = "waiting"
    /\ ready
    /\ main' = [main EXCEPT !.at = "ready"]
    /\ UNCHANGED <<serverVars, pc, ready, stopping>>

\* TimeoutError: in the demo the wait is outside the try, so nobody stops the
\* server; its thread is a daemon.
WaitTimesOut ==
    /\ MayTimeOut
    /\ main.at = "waiting"
    /\ ~ready
    /\ main' = [main EXCEPT !.at = "timeout"]
    /\ UNCHANGED <<serverVars, pc, ready, stopping>>

\* bound_port: the first bound listener of that kind, plain before TLS.
BoundPort(ssl) ==
    LET matches == {i \in DOMAIN bound : Directive(bound[i].listener).ssl = ssl}
        first == CHOOSE i \in matches : \A j \in matches : i <= j
    IN
    /\ main.at = IF ssl THEN "plain" ELSE "ready"
    /\ main' = IF matches = {}
               THEN [main EXCEPT !.at = "lookup_error"]
               ELSE [main EXCEPT !.at = IF ssl THEN "using" ELSE "plain",
                                 !.port[ssl] = bound[first].port]
    /\ UNCHANGED <<serverVars, pc, ready, stopping>>

MainStops ==
    /\ main.at \in {"using", "lookup_error"}
    /\ stopping' = TRUE
    /\ main' = [main EXCEPT !.at = "stopped"]
    /\ UNCHANGED <<serverVars, pc, ready>>

Join ==
    /\ main.at = "stopped"
    /\ pc = "done" \/ MayTimeOut
    /\ main' = [main EXCEPT !.at = "joined"]
    /\ UNCHANGED <<serverVars, pc, ready, stopping>>

MainStep ==
    \/ Start \/ WaitReturns
    \/ \E ssl \in BOOLEAN : BoundPort(ssl)
    \/ Join

\* stop() may be called by any thread at any time.
Stop ==
    /\ ~stopping
    /\ stopping' = TRUE
    /\ UNCHANGED <<serverVars, pc, ready, main>>

-----------------------------------------------------------------------------
(* Properties *)

Served(ssl) == \E l \in Listeners : /\ IsListening(l)
                                    /\ sock[l].port = main.port[ssl]
                                    /\ Directive(l).ssl = ssl

\* Who was told a port can connect to it, and every other configured listener
\* is open too, unless the server was stopped or its loop failed.  After a failed
\* set-up wait_until_ready returns as after a good one: what keeps bound_port
\* from naming a port that is gone is that _cleanup empties _bound_listeners
\* before _ready is set.  And who got a LookupError instead asked for a listener
\* that is not configured, or the server has stopped or failed: waiting for
\* readiness is enough.
HeldPortsAreServed ==
    /\ \A ssl \in BOOLEAN : main.port[ssl] # 0 =>
          /\ raised # "setup"
          /\ \/ stopping \/ raised = "loop"
             \/ Served(ssl) /\ \A l \in Listeners : IsListening(l)
    /\ main.at = "lookup_error" =>
          \/ stopping \/ raised # "nothing"
          \/ \E ssl \in BOOLEAN : \A l \in Listeners : Directive(l).ssl # ssl

\* Connections accepted from a listener get a TLS session exactly if the
\* directive says ssl, with the identity of the listener's own server block;
\* no two listeners share a port.
ListenersAreConfigured ==
    \A l \in Listeners : IsListening(l) =>
        /\ sock[l].identity = IF Directive(l).ssl THEN l[1] ELSE 0
        /\ Directive(l).port \in {0, sock[l].port}
        /\ \A k \in Listeners \ {l} : sock[k].port # sock[l].port

\* A port is held by a listener that serves or, if the set-up failed, by the one
\* it failed at.
PortsHaveTheirListeners ==
    \A l \in Listeners : sock[l].port # 0 => IsListening(l) \/ (raised = "setup" /\ l = Here)

\* Once the thread of the server is done, however it got there, its ports can be
\* bound again, but for one: that of a socket which bind() had given a port and
\* which did not get registered.  _cleanup does not know it.
OnlyAFailedListenerIsLeft ==
    pc = "done" => \A l \in Listeners : sock[l].port # 0 => raised = "setup" /\ l = Here

\* The listeners _setup_listeners is past, and only they, are registered, and
\* _bound_listeners names them until it is cleared.
Past == {l \in Listeners : l[1] < place.b \/ (l[1] = place.b /\ l[2] < place.i)}
SetUpIsInOrder ==
    /\ pc = "new" => place.i = 0
    /\ pc = "loop" => place.b > Len(config)
    /\ pc = "setup" /\ place.i > 0 =>
          identity = IF NeedsIdentity(place.b) THEN place.b ELSE 0
    /\ pc \in {"new", "setup", "loop"} => {l \in Listeners : IsListening(l)} = Past
    /\ \A l \in Listeners : IsListening(l) =>
          /\ pc \notin {"clear", "signal", "done"}
          /\ sock[l].port # 0
          /\ \E i \in DOMAIN bound : bound[i].listener = l
    /\ pc \notin {"clear", "signal", "done"} => \A i \in DOMAIN bound :
          IsListening(bound[i].listener) /\ sock[bound[i].listener].port = bound[i].port
    /\ pc \in {"signal", "done"} => bound = <<>>

\* _ready tells that the set-up is over or that the thread is done, and a thread
\* that is past its loop was stopped or has failed.
ReadyIsInOrder ==
    /\ pc = "new" <=> main.at = "init"
    /\ ready => pc \notin {"new", "setup"} /\ (raised = "setup" => pc = "done")
    /\ pc \in {"new", "setup", "loop"} => raised = "nothing"
    /\ pc \in {"close", "clear", "signal", "done"} => stopping \/ raised # "nothing"
    /\ main.at \in {"ready", "plain", "using", "lookup_error"} => ready
    /\ \A ssl \in BOOLEAN : main.port[ssl] # 0 => ready

\* The two threads, types included.  It is inductive (Demo_proofs).
LifecycleInv ==
    /\ LifecycleTypeOK
    /\ SetUpIsInOrder
    /\ PortsHaveTheirListeners
    /\ ReadyIsInOrder
    /\ ListenersAreConfigured
    /\ HeldPortsAreServed

\* stop() ends the server, also if it comes before the thread runs or during the
\* set-up: the event is never reset.
StopEndsTheThread == stopping ~> pc = "done"
=============================================================================
