--------------------------- MODULE SecureChannel ---------------------------
(***************************************************************************)
(* What the TLS-like layer promises to the HTTP layer above it, in the     *)
(* words of the repository's README: "TLS terminates below HTTP and        *)
(* produces a secure byte stream for the web server".                      *)
(*                                                                         *)
(* Each endpoint hands plaintexts to the channel and takes plaintexts from *)
(* it.  Whatever happens to the records underneath, an endpoint is only    *)
(* ever given the next plaintexts its peer sent, in the order they were    *)
(* sent; it is given none before its own side of the session is open; and  *)
(* the client's side opens only onto a server side that is already open.   *)
(* A channel may stop at any point: nothing is promised about progress.    *)
(***************************************************************************)
EXTENDS Naturals, Sequences

CONSTANT Messages    \* the plaintexts the two applications exchange

VARIABLES
    open,            \* open[s]: endpoint s holds session keys
    sent,            \* sent[s]: what the application at s handed over
    got              \* got[s]: what the application at s was given

vars == <<open, sent, got>>

Side == {"client", "server"}
Peer(s) == IF s = "client" THEN "server" ELSE "client"

Init ==
    /\ open = [s \in Side |-> FALSE]
    /\ sent = [s \in Side |-> <<>>]
    /\ got = [s \in Side |-> <<>>]

Establish(s) ==
    /\ ~open[s]
    /\ s = "client" => open["server"]
    /\ open' = [open EXCEPT ![s] = TRUE]
    /\ UNCHANGED <<sent, got>>

Send(s, m) ==
    /\ open[s]
    /\ sent' = [sent EXCEPT ![s] = Append(@, m)]
    /\ UNCHANGED <<open, got>>

\* The stream moves forward to the first k plaintexts of the peer.
Receive(s, k) ==
    /\ open[s]
    /\ k > Len(got[s])
    /\ got' = [got EXCEPT ![s] = SubSeq(sent[Peer(s)], 1, k)]
    /\ UNCHANGED <<open, sent>>

Next ==
    \E s \in Side :
        \/ Establish(s)
        \/ \E m \in Messages : Send(s, m)
        \/ \E k \in 1 .. Len(sent[Peer(s)]) : Receive(s, k)

Spec == Init /\ [][Next]_vars
=============================================================================
