------------------------------- MODULE DemoSite -------------------------------
(***************************************************************************)
(* The demo directory: server_side.py, with and without --prepare-only,    *)
(* and scripts/demo.py write certificates, a key and a configuration into  *)
(* it and serve from them; client_side.py and the demo's own client trust  *)
(* the root certificate they find there.  A program may be killed at any   *)
(* point, and several may run at a time on the default directory.          *)
(*                                                                         *)
(* A file holds what one run wrote as a whole, or nothing once it has been *)
(* opened for writing.  Certificates and signatures are symbolic.          *)
(*                                                                         *)
(* A definition called Name_Change is Name with a bug.                     *)
(***************************************************************************)
EXTENDS Naturals, Sequences, SequencesExt

CONSTANTS
    Runs,           \* runs of the programs, each of them started once
    Programs,       \* those that are run: "server", "prepare", "demo"
    Missing, Empty, \* what a file holds that is not there or has been truncated
    Day, LastDay    \* how far the date moves at a time, and how far in all

ASSUME SiteAssumption ==
    /\ Programs \subseteq {"server", "prepare", "demo"}
    /\ Missing \notin Runs /\ Empty \notin Runs /\ Missing # Empty
    /\ Day \in Nat \ {0} /\ LastDay \in Nat

VARIABLES
    today,
    file,           \* the run that wrote each file
    run,            \* of each run: which program, where it is, how many steps of that it did,
                    \* when it began, the configuration and identity it loaded
    alone,          \* history: the runs beside which no other was alive
    client          \* of each client: where it is, the run that served when it
                    \* began, the root it loaded, the run it connected to

siteVars == <<today, file, run, alone, client>>

-----------------------------------------------------------------------------
(* Certificates: issue_certificate with ca_extensions and server_extensions *)

Key(r, of) == <<r, of>>
CAExtensions(pathLength) == [ca |-> TRUE, pathLength |-> pathLength, names |-> {}]
ServerExtensions(names) == [ca |-> FALSE, pathLength |-> 0, names |-> names]
IssueCertificate(key, issuerKey, extensions, days) ==
    [key |-> key, issuerKey |-> issuerKey, extensions |-> extensions, days |-> days]

RootCert(r) == IssueCertificate(Key(r, "root"), Key(r, "root"), CAExtensions(1), 3650)
IntermediateCert_OneYear(r) == IssueCertificate(Key(r, "intermediate"), Key(r, "root"), CAExtensions(0), 365)
IntermediateCert(r) == IssueCertificate(Key(r, "intermediate"), Key(r, "root"), CAExtensions(0), 1825)
ServerCert(r) == IssueCertificate(Key(r, "server"), Key(r, "intermediate"), ServerExtensions({"localhost"}), 730)

\* verify_server_certificate: a path from the certificate over intermediates to
\* the root, each issued by the next and none too old, none longer than a CA
\* allows, for this name.
IsValid(certificate) == today <= run[certificate.key[1]].born + certificate.days
VerifyServerCertificate(root, intermediates, certificate, name) ==
    /\ name \in certificate.extensions.names /\ ~certificate.extensions.ca
    /\ \E n \in 0 .. Len(intermediates) : \E path \in [1 .. n -> ToSet(intermediates)] :
           LET full == <<certificate>> \o path \o <<root>>
           IN  /\ \A i \in DOMAIN full : IsValid(full[i])
               /\ \A i \in 2 .. Len(full) :
                      /\ full[i - 1].issuerKey = full[i].key
                      /\ full[i].extensions.ca /\ i - 2 <= full[i].extensions.pathLength

\* A client that trusts one run's root, and a server whose identity comes from
\* files of three: the path must hold, and CertificateVerify be made with the
\* certificate's key.
Accepts(root, identity) ==
    /\ VerifyServerCertificate(RootCert(root), <<IntermediateCert(identity[3])>>, ServerCert(identity[2]), "localhost")
    /\ ServerCert(identity[2]).key = Key(identity[1], "server")

-----------------------------------------------------------------------------
(* The programs: prepare_demo_site, then WebServer *)

\* The order of generate_certificate_chain, and the configuration after it.
Written == <<"root_cert", "intermediate_cert", "server_cert", "server_key", "server.conf">>
\* The order of load_server_identity.
Loaded == <<"server_key", "server_cert", "intermediate_cert">>

Idle == [program |-> "none", at |-> "idle", step |-> 0, born |-> 0, conf |-> Missing, identity |-> <<>>]
IsAlive(r) == run[r].at \notin {"idle", "over"}
IsServing(r) == run[r].at = "serving"
\* server_side.py's configuration has its ports, the demo's has port 0.
HasPorts(r) == IsServing(r) /\ run[run[r].conf].program # "demo"
Move(r, at) == run' = [run EXCEPT ![r].at = at, ![r].step = 0]

StartRun(r) ==
    /\ run[r].at = "idle"
    /\ \E program \in Programs :
          run' = [run EXCEPT ![r] = [Idle EXCEPT !.program = program, !.at = "generating", !.born = today]]
    /\ alone' = IF \E s \in Runs : IsAlive(s) THEN {} ELSE {r}
    /\ UNCHANGED <<today, file, client>>

\* generate_certificate_chain verifies its chain before it writes a file.
Generate(r) ==
    /\ run[r].at = "generating"
    /\ Move(r, IF VerifyServerCertificate(RootCert(r), <<IntermediateCert(r)>>, ServerCert(r), "localhost")
               THEN "writing" ELSE "over")
    /\ UNCHANGED <<today, file, alone, client>>

\* write_bytes and write_text open, which truncates, and then write.
Target(r) == Written[run[r].step \div 2 + 1]
MustWrite_IfMissing(name) == file[name] \in {Missing, Empty}
MustWrite(name) == TRUE
IsOpened(r) == run[r].step % 2 = 1
WriteFile(r) ==
    /\ run[r].at = "writing" /\ run[r].step < 2 * Len(Written)
    /\ run' = [run EXCEPT ![r].step = @ + 1]
    /\ file' = IF MustWrite(Target(r))
               THEN [file EXCEPT ![Target(r)] = IF IsOpened(r) THEN r ELSE Empty]
               ELSE file
    /\ UNCHANGED <<today, alone, client>>

FinishPreparing(r) ==
    /\ run[r].at = "writing" /\ run[r].step = 2 * Len(Written)
    /\ Move(r, IF run[r].program = "prepare" THEN "over" ELSE "config")
    /\ UNCHANGED <<today, file, alone, client>>

\* WebServer.__init__ loads the configuration; an empty one is refused.
LoadConfig(r) ==
    /\ run[r].at = "config"
    /\ run' = [run EXCEPT ![r].conf = file["server.conf"],
                          ![r].at = IF file["server.conf"] = Empty THEN "over" ELSE "loading"]
    /\ UNCHANGED <<today, file, alone, client>>

\* load_pem_private_key and load_pem_x509_certificate raise on an empty file.
IsReadable_Always(content) == TRUE
IsReadable(content) == content # Empty

\* load_server_identity reads one file after the other.
LoadIdentityFile(r) ==
    /\ run[r].at = "loading" /\ Len(run[r].identity) < Len(Loaded)
    /\ LET found == file[Loaded[Len(run[r].identity) + 1]]
       IN  run' = IF IsReadable(found) THEN [run EXCEPT ![r].identity = Append(@, found)]
                  ELSE [run EXCEPT ![r].at = "over"]
    /\ UNCHANGED <<today, file, alone, client>>

\* bind raises if another server listens on the configured ports.
Bind(r) ==
    /\ run[r].at = "loading" /\ Len(run[r].identity) = Len(Loaded)
    /\ Move(r, IF run[run[r].conf].program # "demo" /\ \E s \in Runs : HasPorts(s) THEN "over" ELSE "serving")
    /\ UNCHANGED <<today, file, alone, client>>

-----------------------------------------------------------------------------
(* The clients: client_side.py, and the one inside each demo *)

Clients == {"client_side"} \union Runs
NoClient == [at |-> "idle", with |-> Missing, root |-> Missing, server |-> Missing]
\* The runs a client's ports lead to: the demo asks its server for its ports.
Reaches(c, r) == IF c = "client_side" THEN HasPorts(r) ELSE c = r /\ run[r].program = "demo" /\ IsServing(r)
Serving(c) == IF \E r \in Runs : Reaches(c, r) THEN CHOOSE r \in Runs : Reaches(c, r) ELSE Missing

\* main() of client_side.py looks whether the root certificate is there; both
\* then make the plain request.  Without either there is nothing more to it.
ClientStart(c) ==
    /\ client[c].at = "idle"
    /\ file["root_cert"] # Missing
    /\ Serving(c) # Missing
    /\ client' = [client EXCEPT ![c] = [NoClient EXCEPT !.at = "plain", !.with = Serving(c)]]
    /\ UNCHANGED <<today, file, run, alone>>

\* load_trusted_root
LoadTrustedRoot(c) ==
    /\ client[c].at = "plain"
    /\ client' = [client EXCEPT ![c].root = file["root_cert"],
                                ![c].at = IF IsReadable(file["root_cert"]) THEN "trusting" ELSE "raised"]
    /\ UNCHANGED <<today, file, run, alone>>

Verdict_NameOnly(root, r) == IF root = run[r].identity[2] THEN "accepted" ELSE "refused"
Verdict(root, r) == IF Accepts(root, run[r].identity) THEN "accepted" ELSE "refused"
ConnectClient(c) ==
    /\ client[c].at = "trusting"
    /\ client' = [client EXCEPT ![c].server = Serving(c),
                                ![c].at = IF Serving(c) = Missing THEN "raised"
                                          ELSE Verdict(client[c].root, Serving(c))]
    /\ UNCHANGED <<today, file, run, alone>>

\* client_side.py may be run again.
ClientEnd ==
    /\ client["client_side"].at \in {"accepted", "refused", "raised"}
    /\ client' = [client EXCEPT !["client_side"] = NoClient]
    /\ UNCHANGED <<today, file, run, alone>>

\* A run is killed, interrupted, or, a demo, done, and its client with it.
End(r) ==
    /\ IsAlive(r)
    /\ Move(r, "over")
    /\ client' = [c \in Clients |-> IF c = r THEN NoClient ELSE client[c]]
    /\ UNCHANGED <<today, file, alone>>

-----------------------------------------------------------------------------

SiteInit ==
    /\ today = 0
    /\ file = [name \in ToSet(Written) |-> Missing]
    /\ run = [r \in Runs |-> Idle]
    /\ alone = {}
    /\ client = [c \in Clients |-> NoClient]

Midnight ==
    /\ today + Day <= LastDay
    /\ today' = today + Day
    /\ UNCHANGED <<file, run, alone, client>>

SiteNext ==
    \/ \E r \in Runs : \/ StartRun(r) \/ Generate(r) \/ WriteFile(r) \/ FinishPreparing(r) \/ LoadConfig(r)
                       \/ LoadIdentityFile(r) \/ Bind(r) \/ End(r)
    \/ \E c \in Clients : ClientStart(c) \/ LoadTrustedRoot(c) \/ ConnectClient(c)
    \/ ClientEnd \/ Midnight

SiteSpec == SiteInit /\ [][SiteNext]_siteVars

-----------------------------------------------------------------------------
(* Properties *)

TypeOK ==
    /\ today \in 0 .. LastDay
    /\ file \in [ToSet(Written) -> Runs \union {Missing, Empty}]
    /\ run \in [Runs -> [program : Programs \union {"none"},
                         at : {"idle", "generating", "writing", "config", "loading", "serving", "over"},
                         step : 0 .. 2 * Len(Written), born : 0 .. LastDay,
                         conf : Runs \union {Missing, Empty}, identity : Seq(Runs)]]
    /\ \A r \in Runs : /\ Len(run[r].identity) <= Len(Loaded)
                       /\ run[r].at \in {"loading", "serving"} => run[r].conf \in Runs
                       /\ IsServing(r) => Len(run[r].identity) = Len(Loaded)
    /\ alone \subseteq Runs
    /\ client \in [Clients -> [at : {"idle", "plain", "trusting", "accepted", "refused", "raised"},
                               with : Runs \union {Missing}, root : Runs \union {Missing, Empty},
                               server : Runs \union {Missing}]]

InTime(r) == today <= run[r].born + 730

\* Whatever earlier runs left behind, killed while they wrote or overlapping one
\* another: a run beside which no other has been alive serves with its own
\* configuration and with an identity that a client trusting the root in the
\* directory accepts, until the server certificate expires.
ServedAloneIsAccepted ==
    \A r \in alone : IsServing(r) /\ InTime(r) =>
        /\ run[r].conf = r
        /\ file["root_cert"] \in Runs
        /\ Accepts(file["root_cert"], run[r].identity)

\* A client that begins while such a run serves is not turned away as long as it
\* goes on serving.
ClientsOfItSucceed ==
    \A c \in Clients :
        LET r == client[c].with
        IN  r \in alone /\ IsServing(r) /\ InTime(r) => client[c].at \notin {"refused", "raised"}

\* Runs that overlap may leave a server with a key, a certificate and a chain of
\* different runs, which nothing checks when they are loaded.  No client takes
\* such a server for the one its root vouches for.
AcceptedIsGenuine ==
    \A c \in Clients : client[c].at = "accepted" =>
        run[client[c].server].identity = <<client[c].root, client[c].root, client[c].root>>

\* What a run has opened is never missing again.  A run beside which no other has
\* been alive is still alone, the last to have written what it is past, and has
\* loaded nothing else.
HasDone(r, step) == \/ run[r].at \in {"config", "loading", "serving"}
                    \/ run[r].at = "writing" /\ step <= run[r].step
FilesStay ==
    \A r \in Runs : \A i \in DOMAIN Written : HasDone(r, 2 * i - 1) => file[Written[i]] # Missing
AloneIsUndisturbed ==
    \A r \in alone :
        /\ run[r].at # "idle" /\ \A s \in Runs \ {r} : ~IsAlive(s)
        /\ \A i \in DOMAIN Written : HasDone(r, 2 * i) => file[Written[i]] = r
        /\ run[r].at \in {"loading", "serving"} => run[r].conf = r
        /\ \A i \in DOMAIN run[r].identity : run[r].identity[i] = r

\* A client's server was serving when the client began, or connected, and no run
\* serves twice; one that serves undisturbed is the one the client reaches, with
\* the root that the client trusts.
HasServed(r) == run[r].at \in {"serving", "over"}
ClientsAreServed ==
    \A c \in Clients :
        LET r == client[c].with
        IN  /\ r \in Runs => HasServed(r)
            /\ r \in alone /\ IsServing(r) =>
                   Reaches(c, r) /\ (client[c].at = "trusting" => client[c].root = r)
            /\ client[c].at = "accepted" => client[c].server \in Runs /\ HasServed(client[c].server)

\* The state of the directory, the runs and the clients, its type included: what
\* a server serves with it has loaded whole.  It is inductive (Demo_proofs).
SiteInv ==
    /\ TypeOK
    /\ FilesStay
    /\ AloneIsUndisturbed
    /\ ClientsAreServed
    /\ ClientsOfItSucceed
    /\ AcceptedIsGenuine
=============================================================================
