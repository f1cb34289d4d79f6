--------------------------- MODULE MCDemoProgram ---------------------------
(***************************************************************************)
(* Instances of DemoProgram for TLC.                                       *)
(***************************************************************************)
EXTENDS DemoProgram

Plain(port) == [port |-> port, ssl |-> FALSE]
TLS(port) == [port |-> port, ssl |-> TRUE]
Block(tls, listens) == [tls |-> tls, listens |-> listens]

\* The demo's configuration; one with fixed ports, one of them taken; two
\* blocks, the second plain or with an identity that cannot be loaded; a
\* TLS listener without TLS configuration; two blocks on one port.
MCConfigs ==
    {<<Block("ok", <<Plain(0), TLS(0)>>)>>,
     <<Block("ok", <<TLS(2), Plain(1)>>)>>,
     <<Block("ok", <<TLS(0), Plain(2)>>), Block("none", <<Plain(0)>>)>>,
     <<Block("ok", <<TLS(0)>>), Block("bad", <<TLS(0), Plain(0)>>)>>,
     <<Block("ok", <<TLS(0)>>), Block("ok", <<Plain(0), TLS(0)>>)>>,
     <<Block("none", <<Plain(0), TLS(0)>>)>>,
     <<Block("none", <<Plain(2)>>), Block("none", <<Plain(2)>>)>>}
=============================================================================
