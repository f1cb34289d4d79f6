-------------------------- MODULE ToyTLSConnection --------------------------
(***************************************************************************)
(* One session between a ToyTLSClientConnection and a                      *)
(* ToyTLSServerConnection (tls_web_server/tls/connection.py), with the     *)
(* record framing, the key schedule and the record protection they use,    *)
(* the callers that move bytes between them and a socket, and the bytes in *)
(* flight.                                                                 *)
(*                                                                         *)
(* Granularity.  A frame is one length-prefixed record; a chunk that       *)
(* completes no record changes nothing a caller can see, so only chunks    *)
(* that complete records are steps (module RecordBuffer shows that byte    *)
(* chunks of any size come out as the frames that went in).  feed_wire_data*)
(* is one step to take the chunk and one per record of its loop: the loop  *)
(* shares nothing with the peer but the frames in flight.                  *)
(*                                                                         *)
(* Cryptography is symbolic.  An X25519 key pair is named by its public    *)
(* key, a shared secret by the set of the two public keys, and a protected *)
(* record or a signature that was altered in flight carries intact = FALSE.*)
(***************************************************************************)
EXTENDS Naturals, Sequences, FiniteSets, SequencesExt

CONSTANTS
    Messages,          \* plaintexts the applications send
    PlaintextLen,      \* length in bytes of each plaintext
    MAX_RECORD_SIZE,   \* framing.py: the longest payload pop_record accepts
    Ephemerals,        \* X25519 public keys
    Identities,        \* what load_server_identity may have loaded
    DnsNames,          \* names a client may ask for
    None,              \* Python's None
    MaxSent,           \* bound: plaintexts sent by each side
    MaxFaults          \* bound: faults of the wire

Certificates == {i.certificate : i \in Identities}
IdentityKeys == {i.private_key : i \in Identities}
                    \cup {c.public_key : c \in Certificates}

ASSUME ConstantsAssumption ==
    /\ PlaintextLen \in [Messages -> Nat]
    /\ MAX_RECORD_SIZE \in Nat
    /\ None \notin Ephemerals
    /\ \A i \in Identities : i.path_valid \in BOOLEAN
    /\ MaxSent \in Nat
    /\ MaxFaults \in Nat

Side == {"client", "server"}
Peer(s) == IF s = "client" THEN "server" ELSE "client"

-----------------------------------------------------------------------------
(* Keys: key_schedule.py *)

\* derive_session_keys: one directional key per writer of the session.
Secrets == {{a, b} : a \in Ephemerals, b \in Ephemerals}
Keys == [writer : Side, secret : Secrets]
DeriveSessionKeys_OneKey(shared_secret) ==
    [s \in Side |-> [writer |-> "client", secret |-> shared_secret]]
DeriveSessionKeys(shared_secret) ==
    [s \in Side |-> [writer |-> s, secret |-> shared_secret]]

NoKeys == [s \in Side |-> None]

(* Frames: messages.py, record_protection.py *)

Hello == [type : {"hello"}, eph : Ephemerals, intact : BOOLEAN]
ServerAuth == [type : {"auth"}, certificate : Certificates, path_valid : BOOLEAN,
               signer : IdentityKeys, over : Ephemerals \X Ephemerals,
               intact : BOOLEAN]
Protected == [type : {"app"}, key : Keys, seq : Nat, body : Messages,
              intact : BOOLEAN]
Frame == Hello \cup ServerAuth \cup Protected

HelloFrame(e) == [type |-> "hello", eph |-> e, intact |-> TRUE]

\* SEQ_LEN + NONCE_LEN + TAG_LEN
ProtectionLen == 36

\* pop_record refuses a frame whose length prefix exceeds MAX_RECORD_SIZE.
\* Handshake records stay far below it.
FitsRecord_Strict(r) ==
    r.type = "app" => ProtectionLen + PlaintextLen[r.body] < MAX_RECORD_SIZE
FitsRecord(r) ==
    r.type = "app" => ProtectionLen + PlaintextLen[r.body] <= MAX_RECORD_SIZE

\* protect_record: the sequence number travels in the record and is
\* authenticated with it.
ProtectRecord_SeqOffByOne(key, seq, m) ==
    [type |-> "app", key |-> key, seq |-> seq - 1, body |-> m, intact |-> TRUE]
ProtectRecord(key, seq, m) ==
    [type |-> "app", key |-> key, seq |-> seq, body |-> m, intact |-> TRUE]

\* unprotect_record returns a plaintext; otherwise it raises.
Unprotects_AnySeq(key, expected_seq, r) ==
    r.type = "app" /\ r.intact /\ r.key = key
Unprotects(key, expected_seq, r) ==
    /\ r.type = "app"
    /\ r.seq = expected_seq
    /\ r.intact
    /\ r.key = key

-----------------------------------------------------------------------------
VARIABLES
    identity,          \* the server's ServerIdentity
    dns_name,          \* the name the client checks the certificate against
    state,             \* self.state of each endpoint
    ephemeral,         \* own X25519 key pair, None until generated
    server_ephemeral,  \* the client's _server_ephemeral_public_bytes
    keys,              \* write keys of both directions, as each side derived them
    send_seq,          \* _send_seq
    recv_seq,          \* _recv_seq
    records,           \* complete records in _records not yet popped
    pending_wire,      \* _pending_wire
    plaintext,         \* _plaintext
    feeding,           \* the caller is inside feed_wire_data
    status,            \* the caller's socket: open, closed, or failed by an exception
    wire,              \* wire[s]: frames in flight towards s
    faults,            \* faults injected so far
    sent,              \* history: plaintexts given to protect_application_data
    got                \* history: plaintexts the application received

identityVars == <<identity, dns_name>>
handshakeVars == <<identity, dns_name, state, ephemeral, server_ephemeral, keys>>
callerVars == <<status, sent, got>>
netVars == <<wire, faults>>
vars == <<handshakeVars, send_seq, recv_seq, records, pending_wire, plaintext,
          feeding, status, wire, faults, sent, got>>

HandshakeStates == {"WAIT_CLIENT_HELLO", "WAIT_SERVER_HELLO", "WAIT_SERVER_AUTH",
                    "ESTABLISHED"}

TypeOK ==
    /\ identity \in Identities
    /\ dns_name \in DnsNames
    /\ state \in [Side -> HandshakeStates]
    /\ state["client"] # "WAIT_CLIENT_HELLO"
    /\ state["server"] \notin {"WAIT_SERVER_HELLO", "WAIT_SERVER_AUTH"}
    /\ ephemeral \in [Side -> Ephemerals \cup {None}]
    /\ server_ephemeral \in Ephemerals \cup {None}
    /\ keys \in [Side -> [Side -> Keys \cup {None}]]
    /\ send_seq \in [Side -> Nat]
    /\ recv_seq \in [Side -> Nat]
    /\ records \in [Side -> Seq(Frame)]
    /\ pending_wire \in [Side -> Seq(Frame)]
    /\ plaintext \in [Side -> Seq(Messages)]
    /\ feeding \in [Side -> BOOLEAN]
    /\ status \in [Side -> {"open", "closed", "failed"}]
    /\ wire \in [Side -> Seq(Frame)]
    /\ faults \in Nat
    /\ sent \in [Side -> Seq(Messages)]
    /\ got \in [Side -> Seq(Messages)]

\* Both objects are constructed; the client's constructor generates its
\* ephemeral key and queues the ClientHello.
Init ==
    /\ identity \in Identities
    /\ dns_name \in DnsNames
    /\ state = [s \in Side |-> IF s = "client" THEN "WAIT_SERVER_HELLO"
                                               ELSE "WAIT_CLIENT_HELLO"]
    /\ \E e \in Ephemerals :
          /\ ephemeral = [s \in Side |-> IF s = "client" THEN e ELSE None]
          /\ pending_wire = [s \in Side |-> IF s = "client" THEN <<HelloFrame(e)>>
                                                            ELSE <<>>]
    /\ server_ephemeral = None
    /\ keys = [s \in Side |-> NoKeys]
    /\ send_seq = [s \in Side |-> 0]
    /\ recv_seq = [s \in Side |-> 0]
    /\ records = [s \in Side |-> <<>>]
    /\ plaintext = [s \in Side |-> <<>>]
    /\ feeding = [s \in Side |-> FALSE]
    /\ status = [s \in Side |-> "open"]
    /\ wire = [s \in Side |-> <<>>]
    /\ faults = 0
    /\ sent = [s \in Side |-> <<>>]
    /\ got = [s \in Side |-> <<>>]

-----------------------------------------------------------------------------
(* feed_wire_data: the chunk, then one step per record.  A definition      *)
(* Name_Change is Name with a bug a maintainer might introduce; the        *)
(* mutants of PROJECT.json put it in the place of Name.                    *)

Feed(s, n) ==
    /\ status[s] = "open"
    /\ ~feeding[s]
    /\ records' = [records EXCEPT ![s] = @ \o SubSeq(wire[s], 1, n)]
    /\ wire' = [wire EXCEPT ![s] = SubSeq(@, n + 1, Len(@))]
    /\ feeding' = [feeding EXCEPT ![s] = TRUE]
    /\ UNCHANGED <<handshakeVars, send_seq, recv_seq, pending_wire, plaintext,
                   faults, callerVars>>

PopRecord(s) == records' = [records EXCEPT ![s] = Tail(@)]

\* The loop of feed_wire_data popped a record and dispatches on the state.
Handling_AnyState(s, st) ==
    feeding[s] /\ records[s] # <<>> /\ FitsRecord(Head(records[s]))
Handling(s, st) ==
    /\ feeding[s]
    /\ records[s] # <<>>
    /\ FitsRecord(Head(records[s]))
    /\ state[s] = st

\* decode_message and first_field find an X25519 public key.  ClientHello and
\* ServerHello have the same encoding.
CarriesPublicKey(r) == r.type = "hello" /\ r.intact

\* verify_server_certificate: the certificates sent reach the trusted root and
\* the leaf names the host (the x509 verifier is the cryptography library's).
VerifyServerCertificate(r) == r.path_valid /\ r.certificate.dns_name = dns_name

\* _handle_server_auth raises unless the record decodes, carries a certificate
\* and a CertificateVerify, and both verify against this client's own key and
\* the server key of the ServerHello.
VerifiesServer_ClientKeyOnly(r) ==
    /\ r.type = "auth"
    /\ r.intact
    /\ VerifyServerCertificate(r)
    /\ r.signer = r.certificate.public_key
    /\ r.over[1] = ephemeral["client"]
VerifiesServer_SwappedKeys(r) ==
    /\ r.type = "auth"
    /\ r.intact
    /\ VerifyServerCertificate(r)
    /\ r.signer = r.certificate.public_key
    /\ r.over = <<server_ephemeral, ephemeral["client"]>>
VerifiesServer(r) ==
    /\ r.type = "auth"
    /\ r.intact
    /\ VerifyServerCertificate(r)
    /\ r.signer = r.certificate.public_key
    /\ r.over = <<ephemeral["client"], server_ephemeral>>

UnprotectsNext(s, r) == Unprotects(keys[s][Peer(s)], recv_seq[s], r)

\* The certificate chain and a CertificateVerify over both ephemeral keys.
AuthFrame(client_public, server_public) ==
    [type |-> "auth", certificate |-> identity.certificate,
     path_valid |-> identity.path_valid, signer |-> identity.private_key,
     over |-> <<client_public, server_public>>, intact |-> TRUE]

\* _handle_client_hello with a fresh ephemeral key e.
HandleClientHello(e) ==
    /\ Handling("server", "WAIT_CLIENT_HELLO")
    /\ CarriesPublicKey(Head(records["server"]))
    /\ LET client_public == Head(records["server"]).eph
       IN  /\ e \notin {client_public, ephemeral["client"]}
           /\ pending_wire' = [pending_wire EXCEPT !["server"] =
                                   @ \o <<HelloFrame(e), AuthFrame(client_public, e)>>]
           /\ keys' = [keys EXCEPT !["server"] = DeriveSessionKeys({client_public, e})]
    /\ ephemeral' = [ephemeral EXCEPT !["server"] = e]
    /\ state' = [state EXCEPT !["server"] = "ESTABLISHED"]
    /\ PopRecord("server")
    /\ UNCHANGED <<identityVars, server_ephemeral, send_seq, recv_seq, plaintext,
                   feeding, netVars, callerVars>>

\* _handle_server_hello
HandleServerHello ==
    /\ Handling("client", "WAIT_SERVER_HELLO")
    /\ CarriesPublicKey(Head(records["client"]))
    /\ server_ephemeral' = Head(records["client"]).eph
    /\ state' = [state EXCEPT !["client"] = "WAIT_SERVER_AUTH"]
    /\ PopRecord("client")
    /\ UNCHANGED <<identityVars, ephemeral, keys, send_seq, recv_seq, pending_wire,
                   plaintext, feeding, netVars, callerVars>>

\* _handle_server_auth
HandleServerAuth ==
    /\ Handling("client", "WAIT_SERVER_AUTH")
    /\ VerifiesServer(Head(records["client"]))
    /\ keys' = [keys EXCEPT !["client"] =
                    DeriveSessionKeys({ephemeral["client"], server_ephemeral})]
    /\ state' = [state EXCEPT !["client"] = "ESTABLISHED"]
    /\ PopRecord("client")
    /\ UNCHANGED <<identityVars, ephemeral, server_ephemeral, send_seq, recv_seq,
                   pending_wire, plaintext, feeding, netVars, callerVars>>

\* _handle_application_record, the same on both sides
HandleApplicationRecord(s) ==
    /\ Handling(s, "ESTABLISHED")
    /\ UnprotectsNext(s, Head(records[s]))
    /\ plaintext' = [plaintext EXCEPT ![s] = Append(@, Head(records[s]).body)]
    /\ recv_seq' = [recv_seq EXCEPT ![s] = @ + 1]
    /\ PopRecord(s)
    /\ UNCHANGED <<handshakeVars, send_seq, pending_wire, feeding, netVars,
                   callerVars>>

\* pop_record or the handler raises.  Both callers give the connection up: the
\* server closes it (_read_from_connection), the exception leaves the client's
\* with block.  What was decrypted from the same chunk is never read, and what
\* was pending is never sent.
FeedRaises(s) ==
    /\ feeding[s]
    /\ records[s] # <<>>
    /\ ~ LET r == Head(records[s]) IN
         /\ FitsRecord(r)
         /\ \/ /\ state[s] \in {"WAIT_CLIENT_HELLO", "WAIT_SERVER_HELLO"}
               /\ CarriesPublicKey(r)
            \/ state[s] = "WAIT_SERVER_AUTH" /\ VerifiesServer(r)
            \/ state[s] = "ESTABLISHED" /\ UnprotectsNext(s, r)
    /\ status' = [status EXCEPT ![s] = "failed"]
    /\ feeding' = [feeding EXCEPT ![s] = FALSE]
    /\ records' = [records EXCEPT ![s] = <<>>]
    /\ pending_wire' = [pending_wire EXCEPT ![s] = <<>>]
    /\ plaintext' = [plaintext EXCEPT ![s] = <<>>]
    /\ UNCHANGED <<handshakeVars, send_seq, recv_seq, netVars, sent, got>>

-----------------------------------------------------------------------------
(* The callers: client_side.py and WebServer._read_from_connection *)

\* The client's first sendall puts the ClientHello on the wire.
SendClientHello ==
    /\ status["client"] = "open"
    /\ ~feeding["client"]
    /\ pending_wire["client"] # <<>>
    /\ wire' = [wire EXCEPT !["server"] = @ \o pending_wire["client"]]
    /\ pending_wire' = [pending_wire EXCEPT !["client"] = <<>>]
    /\ UNCHANGED <<handshakeVars, send_seq, recv_seq, records, plaintext, feeding,
                   faults, callerVars>>

\* feed_wire_data returned: the caller sends what is pending, then takes the
\* plaintext, in that order.
FeedReturns(s) ==
    /\ feeding[s]
    /\ records[s] = <<>>
    /\ wire' = [wire EXCEPT ![Peer(s)] = @ \o pending_wire[s]]
    /\ pending_wire' = [pending_wire EXCEPT ![s] = <<>>]
    /\ got' = [got EXCEPT ![s] = @ \o plaintext[s]]
    /\ plaintext' = [plaintext EXCEPT ![s] = <<>>]
    /\ feeding' = [feeding EXCEPT ![s] = FALSE]
    /\ UNCHANGED <<handshakeVars, send_seq, recv_seq, records, faults, status, sent>>

\* protect_application_data and the send of its frame.
SendApplicationData(s, m) ==
    /\ status[s] = "open"
    /\ ~feeding[s]
    /\ state[s] = "ESTABLISHED"
    /\ Len(sent[s]) < MaxSent
    /\ wire' = [wire EXCEPT ![Peer(s)] =
                    Append(@, ProtectRecord(keys[s][s], send_seq[s], m))]
    /\ send_seq' = [send_seq EXCEPT ![s] = @ + 1]
    /\ sent' = [sent EXCEPT ![s] = Append(@, m)]
    /\ UNCHANGED <<handshakeVars, recv_seq, records, pending_wire, plaintext,
                   feeding, faults, status, got>>

\* The caller is done with the connection, or saw the end of the stream.
Close(s) ==
    /\ status[s] = "open"
    /\ ~feeding[s]
    /\ \/ state[s] = "ESTABLISHED"
       \/ status[Peer(s)] # "open" /\ wire[s] = <<>>
    /\ status' = [status EXCEPT ![s] = "closed"]
    /\ UNCHANGED <<handshakeVars, send_seq, recv_seq, records, pending_wire,
                   plaintext, feeding, netVars, sent, got>>

-----------------------------------------------------------------------------
(* What may happen to records in flight.  TCP delivers a stream in order;  *)
(* the record layer is written, and tested, to notice when what it is      *)
(* handed is not the stream the peer wrote.                                *)

Corrupted(f) ==
    {[f EXCEPT !.intact = FALSE]}
        \cup (IF f.type = "hello" THEN {[f EXCEPT !.eph = e] : e \in Ephemerals}
                                  ELSE {})

Faulty(s, frames) ==
    /\ faults < MaxFaults
    /\ faults' = faults + 1
    /\ wire' = [wire EXCEPT ![s] = frames]
    /\ UNCHANGED <<handshakeVars, send_seq, recv_seq, records, pending_wire,
                   plaintext, feeding, callerVars>>

Lose(s, i) == Faulty(s, RemoveAt(wire[s], i))
Duplicate(s, i) == Faulty(s, Append(wire[s], wire[s][i]))
Delay(s, i) == Faulty(s, Append(RemoveAt(wire[s], i), wire[s][i]))
Corrupt(s, i) == \E f \in Corrupted(wire[s][i]) : Faulty(s, ReplaceAt(wire[s], i, f))
\* A record comes back to the side that wrote it.
Echo(s, i) == Faulty(Peer(s), Append(wire[Peer(s)], wire[s][i]))

WireFault ==
    \E s \in Side : \E i \in 1 .. Len(wire[s]) :
        Lose(s, i) \/ Duplicate(s, i) \/ Delay(s, i) \/ Corrupt(s, i) \/ Echo(s, i)

-----------------------------------------------------------------------------
FeedStep(s) ==
    \/ s = "server" /\ \E e \in Ephemerals : HandleClientHello(e)
    \/ s = "client" /\ HandleServerHello
    \/ s = "client" /\ HandleServerAuth
    \/ HandleApplicationRecord(s)
    \/ FeedRaises(s)
    \/ FeedReturns(s)

Next ==
    \/ SendClientHello
    \/ \E s \in Side :
          \/ \E n \in 1 .. Len(wire[s]) : Feed(s, n)
          \/ FeedStep(s)
          \/ \E m \in Messages : SendApplicationData(s, m)
          \/ Close(s)
    \/ WireFault

Spec == Init /\ [][Next]_vars

\* A caller that holds bytes feeds them and lets feed_wire_data run to its end;
\* the client opens the conversation.  Nothing is assumed about the applications.
Fairness ==
    /\ WF_vars(SendClientHello)
    /\ \A s \in Side : /\ WF_vars(\E n \in 1 .. Len(wire[s]) : Feed(s, n))
                       /\ WF_vars(FeedStep(s))

FairSpec == Spec /\ Fairness

-----------------------------------------------------------------------------
(* Properties *)

TrustedServer ==
    /\ identity.private_key = identity.certificate.public_key
    /\ identity.path_valid
    /\ identity.certificate.dns_name = dns_name

\* The client reaches ESTABLISHED only against the server it asked for, and
\* then both ends hold the same two directional keys, whatever the wire did to
\* the handshake: CertificateVerify must bind both ephemeral keys, because
\* neither hello is authenticated by itself.
ClientAuthenticatesServer ==
    state["client"] = "ESTABLISHED" =>
        /\ TrustedServer
        /\ state["server"] = "ESTABLISHED"
        /\ keys["client"] = keys["server"]

\* What an endpoint has decrypted is, in order and without gaps or repeats,
\* what its peer protected: lost, repeated, delayed, altered and echoed
\* records are all noticed by unprotect_record.
PlaintextIsPrefix ==
    \A s \in Side : IsPrefix(got[s] \o plaintext[s], sent[Peer(s)])

\* On a wire that delivers what was written, with an identity the client
\* trusts, no endpoint ever gives the connection up with an exception.
CleanWireNeverFails ==
    faults = 0 /\ TrustedServer => \A s \in Side : status[s] # "failed"

-----------------------------------------------------------------------------
(* Why the properties above hold: the invariant that every step preserves. *)

\* An endpoint has session keys, and has exchanged data, only once it is
\* ESTABLISHED; the client waits for ServerAuth knowing both ephemeral keys.
KeysMatchState ==
    /\ \A s \in Side :
          IF state[s] = "ESTABLISHED"
          THEN \E secret \in Secrets : keys[s] = DeriveSessionKeys(secret)
          ELSE keys[s] = NoKeys /\ sent[s] = <<>> /\ got[s] = <<>> /\ plaintext[s] = <<>>
    /\ ephemeral["client"] \in Ephemerals
    /\ state["client"] = "WAIT_SERVER_AUTH" => server_ephemeral \in Ephemerals

\* What makes a record on its way authentic: an unaltered application record
\* is one its writer protected, under the number of its place in what was
\* sent; an unaltered ServerAuth is the server's, over the keys it then used.
Authentic(f) ==
    f.intact =>
        /\ f.type = "app" =>
              \E p \in Side :
                  /\ f.key = keys[p][p]
                  /\ f.key \in Keys
                  /\ f.key.writer = p
                  /\ f.seq < Len(sent[p])
                  /\ f.body = sent[p][f.seq + 1]
        /\ f.type = "auth" =>
              /\ f.certificate = identity.certificate
              /\ f.path_valid = identity.path_valid
              /\ f.signer = identity.private_key
              /\ state["server"] = "ESTABLISHED"
              /\ keys["server"] = DeriveSessionKeys({f.over[1], f.over[2]})

FramesAreAuthentic ==
    \A s \in Side :
        /\ \A i \in DOMAIN wire[s] : Authentic(wire[s][i])
        /\ \A i \in DOMAIN records[s] : Authentic(records[s][i])
        /\ \A i \in DOMAIN pending_wire[s] : Authentic(pending_wire[s][i])

\* The counters of both directions count what was sent and what was accepted.
CountersMatchStreams ==
    \A s \in Side :
        /\ send_seq[s] = Len(sent[s])
        /\ feeding[s] => status[s] = "open"
        /\ status[s] = "open" => recv_seq[s] = Len(got[s]) + Len(plaintext[s])

\* What the application was given, then what it has not read yet, is how the
\* stream of the peer begins.
Begins(stream, given, unread) ==
    /\ Len(given) + Len(unread) <= Len(stream)
    /\ \A i \in 1 .. Len(given) : given[i] = stream[i]
    /\ \A i \in 1 .. Len(unread) : unread[i] = stream[Len(given) + i]

ReceivedInOrder == \A s \in Side : Begins(sent[Peer(s)], got[s], plaintext[s])

\* Nothing happens before the client's caller sends its ClientHello, and the
\* server's handshake does not outlast the call that made it.
PendingIsFlushed ==
    /\ pending_wire["client"] # <<>> =>
          /\ state["client"] = "WAIT_SERVER_HELLO" /\ state["server"] = "WAIT_CLIENT_HELLO"
          /\ pending_wire["server"] = <<>>
          /\ \A s \in Side : wire[s] = <<>> /\ records[s] = <<>>
    /\ pending_wire["server"] # <<>> => feeding["server"]

\* The records each side writes: its handshake, then its data.
Greeting(s) ==
    CASE s = "client" -> <<HelloFrame(ephemeral["client"])>>
      [] s = "server" /\ state["server"] = "ESTABLISHED" ->
         <<HelloFrame(ephemeral["server"]), AuthFrame(ephemeral["client"], ephemeral["server"])>>
      [] OTHER -> <<>>
ProtectedData(s) ==
    [i \in 1 .. Len(sent[s]) |-> ProtectRecord(keys[s][s], i - 1, sent[s][i])]
Stream(s) == Greeting(s) \o ProtectedData(s)

\* How many of its peer's records a side has handled, and those it has not.
Handled(s) ==
    recv_seq[s] + (CASE state[s] \in {"WAIT_CLIENT_HELLO", "WAIT_SERVER_HELLO"} -> 0
                     [] state[s] = "WAIT_SERVER_AUTH" -> 1
                     [] state[s] = "ESTABLISHED" -> Len(Greeting(Peer(s))))
InFlight(s) == records[s] \o wire[s] \o pending_wire[Peer(s)]
Continues(stream, n, rest) ==
    /\ Len(stream) = n + Len(rest)
    /\ \A i \in 1 .. Len(rest) : rest[i] = stream[n + i]

\* Over a wire that delivers what was written, the records still to come are
\* the rest of what the peer wrote, until a side gives up.
WireIsStream ==
    faults = 0 =>
        /\ \A s \in Side : status[s] = "open" /\ status[Peer(s)] # "failed" =>
               Continues(Stream(Peer(s)), Handled(s), InFlight(s))
        /\ state["client"] = "WAIT_SERVER_AUTH" /\ status["server"] # "failed" =>
               /\ state["server"] = "ESTABLISHED"
               /\ server_ephemeral = ephemeral["server"]

\* The inductive invariant.
SessionInv ==
    /\ TypeOK
    /\ KeysMatchState
    /\ FramesAreAuthentic
    /\ CountersMatchStreams
    /\ ReceivedInOrder
    /\ ClientAuthenticatesServer
    /\ PendingIsFlushed
    /\ WireIsStream

-----------------------------------------------------------------------------
\* Keys are agreed once: no later record, not even a repeated hello, makes an
\* endpoint replace them or leave ESTABLISHED, which would reuse sequence
\* numbers already spent.
SessionIsFixed ==
    [][\A s \in Side : state[s] = "ESTABLISHED" =>
           state'[s] = "ESTABLISHED" /\ keys'[s] = keys[s]]_vars

\* The channel the HTTP layer relies on (module SecureChannel).
Channel == INSTANCE SecureChannel WITH
    open <- [s \in Side |-> state[s] = "ESTABLISHED"]

ImplementsSecureChannel == Channel!Spec

\* A trusted server's handshake over a clean wire completes, however the
\* records are chunked.
HandshakeCompletes ==
    TrustedServer /\ faults = 0 ~> state["client"] = "ESTABLISHED" \/ faults > 0

\* What one side sends the other gets, unless the receiver closed first.
SentIsReceived ==
    \A s \in Side : \A n \in 1 .. MaxSent :
        TrustedServer /\ Len(sent[s]) >= n
            ~> Len(got[Peer(s)]) >= n \/ status[Peer(s)] = "closed" \/ faults > 0
=============================================================================
