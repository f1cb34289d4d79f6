----------------------------- MODULE DemoProgram -----------------------------
(***************************************************************************)
(* scripts/demo.py as a whole: one thread starts the server's thread,      *)
(* waits for it, runs the client's workflow against its two ports, stops   *)
(* it and joins it; the server may fail or be stopped under the client.    *)
(* The steps are those of ServerLifecycle and ClientWorkflow.              *)
(***************************************************************************)
EXTENDS ServerLifecycle, ClientWorkflow

vars == <<lifecycleVars, clientVars>>

Init == LifecycleInit /\ ClientInit

-----------------------------------------------------------------------------
(* The server's thread *)

\* A client's connection is served while the loop runs, well or not.
ServeClient ==
    /\ pc = "loop"
    /\ ServerSends \/ ServerCloses \/ ServerQuits
    /\ UNCHANGED lifecycleVars

\* _cleanup closes the connections with the listeners, and the backlog with
\* them.
HasConnection == server = "open" /\ at # "connect"
CleanUp ==
    /\ CloseSockets
    /\ IF HasConnection THEN ServerCloses \/ ServerQuits ELSE UNCHANGED clientVars

ServerThread ==
    \/ (SetUpStep \/ LeaveLoop \/ ClearBoundListeners \/ Signal) /\ UNCHANGED clientVars
    \/ CleanUp

-----------------------------------------------------------------------------
(* The main thread *)

UseServer ==
    /\ main.at = "using"
    /\ Client(Served(kind = "tls"))
    /\ UNCHANGED lifecycleVars

\* finally: server.stop(), whether the client succeeded, raised, or was never
\* told its ports.
FinishUsing ==
    /\ main.at = "using" => ClientIsDone
    /\ MainStops
    /\ UNCHANGED clientVars

MainThread == (MainStep /\ UNCHANGED clientVars) \/ UseServer \/ FinishUsing

Next ==
    \/ ServerThread
    \/ ServeClient
    \/ MainThread
    \/ (LoopRaises \/ WaitTimesOut \/ Stop) /\ UNCHANGED clientVars

\* Both threads are scheduled, and a recv() of the client returns or times out.
\* The server need not answer; exceptions, the timeout of wait_until_ready and
\* the stops of others may or may not happen.
Spec == Init /\ [][Next]_vars /\ WF_vars(ServerThread) /\ WF_vars(MainThread)

-----------------------------------------------------------------------------
(* Properties *)

\* The state of both threads and of the client's connections: what listens is
\* configured, and what is known of it is current.
DemoInv == LifecycleInv /\ ClientInv

\* The program ends, and its server with it: the waiting thread is woken also
\* after a set-up that fails, and the client and its server's thread come to an end
\* even if the server stalls, fails or is stopped under the client.  Only a
\* wait_until_ready that times out, outside the try, leaves the server running.
DemoEnds == <>(main.at = "timeout" \/ (main.at = "joined" /\ pc = "done"))
=============================================================================
