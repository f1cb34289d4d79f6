--------------------------- MODULE RequestService ---------------------------
(***************************************************************************)
(* What the web server promises its clients, whatever carries the bytes:   *)
(* on each connection the requests that were made are answered one by one, *)
(* in order, and the answers are delivered one by one, in order, until the *)
(* connection ends, which it does once.  EventLoop implements it.          *)
(***************************************************************************)
EXTENDS Naturals, Sequences, SequencesExt

CONSTANTS
    Conns,          \* connections
    Requests        \* what a client may ask: a request, or the answer to it

VARIABLES
    asked,          \* of each connection, the requests made
    answers,        \* the answers given
    delivered,      \* the answers that left the server
    phase           \* whether the connection is "ahead", "open" or "over"

vars == <<asked, answers, delivered, phase>>

Init ==
    /\ asked = [c \in Conns |-> <<>>]
    /\ answers = [c \in Conns |-> <<>>]
    /\ delivered = [c \in Conns |-> <<>>]
    /\ phase = [c \in Conns |-> "ahead"]

Ask(c) ==
    /\ phase[c] # "over"
    /\ \E request \in Requests : asked' = [asked EXCEPT ![c] = Append(@, request)]
    /\ UNCHANGED <<answers, delivered, phase>>

Open(c) ==
    /\ phase[c] = "ahead"
    /\ phase' = [phase EXCEPT ![c] = "open"]
    /\ UNCHANGED <<asked, answers, delivered>>

\* The next request, among those already made.
Answer(c) ==
    /\ phase[c] = "open"
    /\ Len(answers[c]) < Len(asked[c])
    /\ answers' = [answers EXCEPT ![c] = Append(@, asked[c][Len(@) + 1])]
    /\ UNCHANGED <<asked, delivered, phase>>

\* Some of the answers that are due; the connection may end with the last one.
Deliver(c) ==
    /\ phase[c] = "open"
    /\ \E n \in Len(delivered[c]) + 1 .. Len(answers[c]) :
          delivered' = [delivered EXCEPT ![c] = SubSeq(answers[c], 1, n)]
    /\ \/ UNCHANGED phase
       \/ delivered'[c] = answers[c] /\ phase' = [phase EXCEPT ![c] = "over"]
    /\ UNCHANGED <<asked, answers>>

\* Connections end by themselves, or all of them with the server.
End(ending) ==
    /\ ending # {}
    /\ \A c \in ending : phase[c] # "over"
    /\ phase' = [c \in Conns |-> IF c \in ending THEN "over" ELSE phase[c]]
    /\ UNCHANGED <<asked, answers, delivered>>

Next ==
    \/ \E c \in Conns : Ask(c) \/ Open(c) \/ Answer(c) \/ Deliver(c)
    \/ \E ending \in SUBSET Conns : End(ending)

Spec == Init /\ [][Next]_vars
=============================================================================
