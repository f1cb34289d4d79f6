---------------------- MODULE ToyTLSConnection_proofs ----------------------
(***************************************************************************)
(* Proofs about ToyTLSConnection for every set of keys, identities and     *)
(* messages, every bound, and any number of faults of the wire.            *)
(***************************************************************************)
EXTENDS ToyTLSConnection, SequenceTheorems, TLAPS

(* Sequences of frames: every operation of the wire and of the record      *)
(* buffers keeps a sequence over S a sequence over S.                      *)

\* What pop_record takes out and what it leaves.
LEMMA TailOfSeq ==
    ASSUME NEW S, NEW q \in Seq(S), q # <<>>
    PROVE  Head(q) \in S /\ Tail(q) \in Seq(S)
OBVIOUS

\* A chunk of a stream is made of the stream's records.
LEMMA SubSeqOfSeq ==
    ASSUME NEW S, NEW q \in Seq(S), NEW m \in Nat, NEW n \in Nat,
           1 <= m, n <= Len(q)
    PROVE  SubSeq(q, m, n) \in Seq(S)
  OBVIOUS

\* Losing a record adds none.
LEMMA RemoveAtOfSeq ==
    ASSUME NEW S, NEW q \in Seq(S), NEW i \in 1 .. Len(q)
    PROVE  RemoveAt(q, i) \in Seq(S)
BY SubSeqOfSeq, ConcatProperties DEF RemoveAt

\* One more record at the end.
LEMMA AppendOfSeq ==
    ASSUME NEW S, NEW q \in Seq(S), NEW x \in S
    PROVE  Append(q, x) \in Seq(S)
OBVIOUS

\* What is there already stays where it is.
LEMMA AppendKeeps ==
    ASSUME NEW S, NEW q \in Seq(S), NEW x \in S, NEW n \in Nat, n < Len(q)
    PROVE  n < Len(Append(q, x)) /\ Append(q, x)[n + 1] = q[n + 1]
<1>1. Len(Append(q, x)) = Len(q) + 1 /\ Len(q) \in Nat
  OBVIOUS
<1>2. n + 1 \in 1 .. Len(q)
  BY <1>1
<1> QED
  BY <1>1, <1>2

\* One record altered in place.
LEMMA ReplaceAtOfSeq ==
    ASSUME NEW S, NEW q \in Seq(S), NEW i \in 1 .. Len(q), NEW x \in S
    PROVE  ReplaceAt(q, i, x) \in Seq(S)
BY ExceptSeq DEF ReplaceAt

\* A sequence is over any set that holds its elements.
LEMMA SeqOfMembers ==
    ASSUME NEW S, NEW T, NEW q \in Seq(S), \A i \in DOMAIN q : q[i] \in T
    PROVE  q \in Seq(T)
OBVIOUS

\* And the converse.
LEMMA MembersOfSeq ==
    ASSUME NEW T, NEW q \in Seq(T)
    PROVE  \A i \in DOMAIN q : q[i] \in T
OBVIOUS

\* Two streams joined.
LEMMA ConcatOfSeq ==
    ASSUME NEW S, NEW q \in Seq(S), NEW r \in Seq(S)
    PROVE  q \o r \in Seq(S)
OBVIOUS

-----------------------------------------------------------------------------
(* Type correctness *)

\* derive_session_keys gives a key to each direction.
LEMMA SessionKeys ==
    ASSUME NEW a \in Ephemerals, NEW b \in Ephemerals
    PROVE  DeriveSessionKeys({a, b}) \in [Side -> Keys \cup {None}]
BY DEF DeriveSessionKeys, Keys, Secrets

\* Altering a frame leaves a frame.
LEMMA CorruptedFrame ==
    ASSUME NEW f \in Frame, NEW g \in Corrupted(f)
    PROVE  g \in Frame
<1>1. CASE f \in Hello
  BY <1>1 DEF Corrupted, Frame, Hello
<1>2. CASE f \in ServerAuth
  BY <1>2 DEF Corrupted, Frame, ServerAuth
<1>3. CASE f \in Protected
  BY <1>3 DEF Corrupted, Frame, Protected
<1> QED
  BY <1>1, <1>2, <1>3 DEF Frame

\* What pops a hello pops a public key.
LEMMA PublicKeyOfHello ==
    ASSUME TypeOK, NEW s \in Side, records[s] # <<>>, CarriesPublicKey(Head(records[s]))
    PROVE  Head(records[s]).eph \in Ephemerals
<1>1. Head(records[s]) \in Frame
  BY TailOfSeq DEF TypeOK
<1> QED
  BY <1>1 DEF CarriesPublicKey, Frame, Hello, ServerAuth, Protected

\* The two constructors set every attribute to a value of its type.
LEMMA InitTypeOK == Init => TypeOK
<1> SUFFICES ASSUME Init PROVE TypeOK
  OBVIOUS
<1>1. PICK e \in Ephemerals :
          /\ ephemeral = [s \in Side |-> IF s = "client" THEN e ELSE None]
          /\ pending_wire = [s \in Side |-> IF s = "client" THEN <<HelloFrame(e)>>
                                                            ELSE <<>>]
  BY DEF Init
<1>2. HelloFrame(e) \in Frame
  BY DEF HelloFrame, Frame, Hello
<1>3. pending_wire \in [Side -> Seq(Frame)]
  BY <1>1, <1>2
<1> QED
  BY <1>1, <1>3 DEF Init, TypeOK, Side, HandshakeStates, NoKeys

\* Only the variables a step of the client's or server's handler writes need
\* an argument; the frames are in Frame because of what they are made from.
LEMMA NextTypeOK == TypeOK /\ KeysMatchState /\ [Next]_vars => TypeOK'
<1> SUFFICES ASSUME TypeOK, KeysMatchState, [Next]_vars PROVE TypeOK'
  OBVIOUS
<1> USE ConstantsAssumption
<1>1. ASSUME NEW s \in Side, NEW n \in 1 .. Len(wire[s]), Feed(s, n)
      PROVE  TypeOK'
  <2>1. SubSeq(wire[s], 1, n) \in Seq(Frame) /\ SubSeq(wire[s], n + 1, Len(wire[s])) \in Seq(Frame)
    BY SubSeqOfSeq DEF TypeOK
  <2>2. records[s] \o SubSeq(wire[s], 1, n) \in Seq(Frame)
    BY <2>1 DEF TypeOK
  <2> QED
    BY <1>1, <2>1, <2>2 DEF TypeOK, Feed, handshakeVars, callerVars
<1>2. ASSUME NEW e \in Ephemerals, HandleClientHello(e)
      PROVE  TypeOK'
  <2> DEFINE r == Head(records["server"])
             auth == AuthFrame(r.eph, e)
  <2>1. r \in Frame /\ Tail(records["server"]) \in Seq(Frame)
    BY <1>2, TailOfSeq DEF HandleClientHello, Handling, TypeOK, Side
  <2>2. r.eph \in Ephemerals
    BY <1>2, PublicKeyOfHello DEF HandleClientHello, Handling, Side
  <2>3. auth \in Frame
    BY <2>2 DEF AuthFrame, TypeOK, Frame, ServerAuth, Certificates, IdentityKeys
  <2>4. HelloFrame(e) \in Frame
    BY DEF HelloFrame, Frame, Hello
  <2>5. pending_wire["server"] \o <<HelloFrame(e), auth>> \in Seq(Frame)
    BY <2>3, <2>4 DEF TypeOK, Side
  <2>6. pending_wire' \in [Side -> Seq(Frame)]
    BY <1>2, <2>5 DEF HandleClientHello, TypeOK
  <2>7. keys' \in [Side -> [Side -> Keys \cup {None}]]
    BY <1>2, <2>2, SessionKeys DEF HandleClientHello, TypeOK, Side
  <2>8. /\ state' \in [Side -> HandshakeStates]
        /\ state'["client"] = state["client"]
        /\ state'["server"] = "ESTABLISHED"
    BY <1>2 DEF HandleClientHello, TypeOK, Side, HandshakeStates
  <2> QED
    BY <1>2, <2>1, <2>6, <2>7, <2>8
    DEF TypeOK, HandleClientHello, PopRecord, HandshakeStates, identityVars, netVars, callerVars
<1>3. CASE HandleServerHello
  <2>1. Head(records["client"]) \in Frame /\ Tail(records["client"]) \in Seq(Frame)
    BY <1>3, TailOfSeq DEF HandleServerHello, Handling, TypeOK, Side
  <2>2. Head(records["client"]).eph \in Ephemerals
    BY <1>3, PublicKeyOfHello DEF HandleServerHello, Handling, Side
  <2> QED
    BY <1>3, <2>1, <2>2
    DEF TypeOK, HandleServerHello, PopRecord, HandshakeStates, Side, identityVars, netVars, callerVars
<1>4. CASE HandleServerAuth
  <2>1. Head(records["client"]) \in Frame /\ Tail(records["client"]) \in Seq(Frame)
    BY <1>4, TailOfSeq DEF HandleServerAuth, Handling, TypeOK, Side
  <2>2. ephemeral["client"] \in Ephemerals /\ server_ephemeral \in Ephemerals
    BY <1>4, <2>1
    DEF HandleServerAuth, VerifiesServer, TypeOK, Frame, Hello, ServerAuth, Protected
  <2>3. keys' \in [Side -> [Side -> Keys \cup {None}]]
    BY <1>4, <2>2, SessionKeys DEF HandleServerAuth, TypeOK, Side
  <2>4. /\ state' \in [Side -> HandshakeStates]
        /\ state'["client"] = "ESTABLISHED"
        /\ state'["server"] = state["server"]
    BY <1>4 DEF HandleServerAuth, TypeOK, Side, HandshakeStates
  <2> QED
    BY <1>4, <2>1, <2>3, <2>4
    DEF TypeOK, HandleServerAuth, PopRecord, HandshakeStates, identityVars, netVars, callerVars
<1>5. ASSUME NEW s \in Side, HandleApplicationRecord(s)
      PROVE  TypeOK'
  <2>1. Head(records[s]) \in Frame /\ Tail(records[s]) \in Seq(Frame)
    BY <1>5, TailOfSeq DEF HandleApplicationRecord, Handling, TypeOK
  <2>2. Head(records[s]).body \in Messages
    BY <1>5, <2>1
    DEF HandleApplicationRecord, UnprotectsNext, Unprotects, Frame, Hello, ServerAuth, Protected
  <2>3. plaintext' \in [Side -> Seq(Messages)]
    BY <1>5, <2>2, AppendOfSeq DEF TypeOK, HandleApplicationRecord
  <2>4. records' \in [Side -> Seq(Frame)]
    BY <1>5, <2>1 DEF TypeOK, HandleApplicationRecord, PopRecord
  <2>5. recv_seq' \in [Side -> Nat]
    BY <1>5 DEF TypeOK, HandleApplicationRecord
  <2> QED
    BY <1>5, <2>3, <2>4, <2>5
    DEF TypeOK, HandleApplicationRecord, PopRecord, handshakeVars, netVars, callerVars
<1>6. ASSUME NEW s \in Side, FeedRaises(s)
      PROVE  TypeOK'
  BY <1>6 DEF TypeOK, FeedRaises, handshakeVars, netVars
<1>7. ASSUME NEW s \in Side, FeedReturns(s)
      PROVE  TypeOK'
  <2>1. wire[Peer(s)] \o pending_wire[s] \in Seq(Frame) /\ got[s] \o plaintext[s] \in Seq(Messages)
    BY DEF TypeOK, Peer, Side
  <2>2. wire' \in [Side -> Seq(Frame)] /\ got' \in [Side -> Seq(Messages)]
    BY <1>7, <2>1 DEF TypeOK, FeedReturns
  <2>3. pending_wire' \in [Side -> Seq(Frame)] /\ plaintext' \in [Side -> Seq(Messages)]
    BY <1>7 DEF TypeOK, FeedReturns
  <2> QED
    BY <1>7, <2>2, <2>3 DEF TypeOK, FeedReturns, handshakeVars, Side, Peer
<1>8. CASE SendClientHello
  <2>1. wire["server"] \o pending_wire["client"] \in Seq(Frame)
    BY DEF TypeOK, Side
  <2> QED
    BY <1>8, <2>1 DEF TypeOK, SendClientHello, handshakeVars, callerVars, Side
<1>9. ASSUME NEW s \in Side, NEW m \in Messages, SendApplicationData(s, m)
      PROVE  TypeOK'
  <2>1. keys[s][s] \in Keys
    <3>1. PICK secret \in Secrets : keys[s] = DeriveSessionKeys(secret)
      BY <1>9 DEF SendApplicationData, KeysMatchState
    <3> QED
      BY <3>1 DEF DeriveSessionKeys, Keys
  <2>2. ProtectRecord(keys[s][s], send_seq[s], m) \in Frame
    BY <2>1 DEF ProtectRecord, Frame, Protected, TypeOK
  <2>3. Append(wire[Peer(s)], ProtectRecord(keys[s][s], send_seq[s], m)) \in Seq(Frame)
    BY <2>2 DEF TypeOK, Peer, Side
  <2>4. sent' \in [Side -> Seq(Messages)]
    BY <1>9, AppendOfSeq DEF TypeOK, SendApplicationData
  <2>5. wire' \in [Side -> Seq(Frame)]
    BY <1>9, <2>3 DEF TypeOK, SendApplicationData
  <2>6. send_seq' \in [Side -> Nat]
    BY <1>9 DEF TypeOK, SendApplicationData
  <2> QED
    BY <1>9, <2>4, <2>5, <2>6 DEF TypeOK, SendApplicationData, handshakeVars
<1>10. ASSUME NEW s \in Side, Close(s)
       PROVE  TypeOK'
  BY <1>10 DEF TypeOK, Close, handshakeVars, netVars
<1>11. CASE WireFault
  <2>0. PICK s \in Side : \E i \in 1 .. Len(wire[s]) :
            Lose(s, i) \/ Duplicate(s, i) \/ Delay(s, i) \/ Corrupt(s, i) \/ Echo(s, i)
    BY <1>11 DEF WireFault
  <2>1. PICK i \in 1 .. Len(wire[s]) :
            Lose(s, i) \/ Duplicate(s, i) \/ Delay(s, i) \/ Corrupt(s, i) \/ Echo(s, i)
    BY <2>0
  <2>2. PICK z \in Side, frames \in Seq(Frame) : Faulty(z, frames)
    <3>1. wire[s] \in Seq(Frame) /\ wire[Peer(s)] \in Seq(Frame) /\ Peer(s) \in Side
      BY DEF TypeOK, Peer, Side
    <3>2. wire[s][i] \in Frame
      BY <3>1, ElementOfSeq
    <3>3. RemoveAt(wire[s], i) \in Seq(Frame)
      BY <3>1, RemoveAtOfSeq
    <3>4. CASE Lose(s, i)
      BY <3>3, <3>4 DEF Lose
    <3>5. CASE Duplicate(s, i)
      BY <3>1, <3>2, <3>5, AppendOfSeq DEF Duplicate
    <3>6. CASE Delay(s, i)
      BY <3>2, <3>3, <3>6, AppendOfSeq DEF Delay
    <3>7. CASE Corrupt(s, i)
      BY <3>1, <3>2, <3>7, CorruptedFrame, ReplaceAtOfSeq DEF Corrupt
    <3>8. CASE Echo(s, i)
      BY <3>1, <3>2, <3>8, AppendOfSeq DEF Echo
    <3> QED
      BY <2>1, <3>4, <3>5, <3>6, <3>7, <3>8
  <2>3. wire' \in [Side -> Seq(Frame)] /\ faults' \in Nat
    BY <2>2 DEF TypeOK, Faulty
  <2> QED
    BY <2>2, <2>3 DEF TypeOK, Faulty, handshakeVars, callerVars
<1>12. CASE UNCHANGED vars
  BY <1>12 DEF TypeOK, vars, handshakeVars
<1> QED
  BY <1>1, <1>2, <1>3, <1>4, <1>5, <1>6, <1>7, <1>8, <1>9, <1>10, <1>11, <1>12
  DEF Next, FeedStep

-----------------------------------------------------------------------------
(* Keys *)

\* New connections have no keys and no data.
LEMMA InitKeys == Init => KeysMatchState
BY DEF Init, KeysMatchState, Side, NoKeys

\* The other steps leave state, keys and ephemeral keys alone.
LEMMA NextKeys == TypeOK /\ KeysMatchState /\ [Next]_vars => KeysMatchState'
<1> SUFFICES ASSUME TypeOK, KeysMatchState, [Next]_vars PROVE KeysMatchState'
  OBVIOUS
<1>1. ASSUME NEW e \in Ephemerals, HandleClientHello(e)
      PROVE  KeysMatchState'
  <2> DEFINE r == Head(records["server"])
  <2>1. r.eph \in Ephemerals
    BY <1>1, PublicKeyOfHello DEF HandleClientHello, Handling, Side
  <2>2. {r.eph, e} \in Secrets
    BY <2>1 DEF Secrets
  <2>3. /\ keys' = [keys EXCEPT !["server"] = DeriveSessionKeys({r.eph, e})]
        /\ state' = [state EXCEPT !["server"] = "ESTABLISHED"]
        /\ ephemeral' = [ephemeral EXCEPT !["server"] = e]
        /\ UNCHANGED <<server_ephemeral, plaintext, sent, got>>
    BY <1>1 DEF HandleClientHello, callerVars
  <2> QED
    BY <2>2, <2>3 DEF KeysMatchState, TypeOK, Side
<1>2. CASE HandleServerHello
  <2>1. server_ephemeral' \in Ephemerals
    BY <1>2, PublicKeyOfHello DEF HandleServerHello, Handling, Side
  <2> QED
    BY <1>2, <2>1 DEF HandleServerHello, Handling, KeysMatchState, TypeOK, Side, callerVars
<1>3. CASE HandleServerAuth
  <2>1. {ephemeral["client"], server_ephemeral} \in Secrets
    BY <1>3 DEF HandleServerAuth, Handling, KeysMatchState, Secrets
  <2>2. /\ keys' = [keys EXCEPT !["client"] =
                        DeriveSessionKeys({ephemeral["client"], server_ephemeral})]
        /\ state' = [state EXCEPT !["client"] = "ESTABLISHED"]
        /\ UNCHANGED <<ephemeral, server_ephemeral, plaintext, sent, got>>
    BY <1>3 DEF HandleServerAuth, callerVars
  <2> QED
    BY <2>1, <2>2 DEF KeysMatchState, TypeOK, Side
<1>4. ASSUME NEW s \in Side, HandleApplicationRecord(s)
      PROVE  KeysMatchState'
  <2>1. state[s] = "ESTABLISHED" /\ UNCHANGED <<state, keys, ephemeral, server_ephemeral, sent, got>>
    BY <1>4 DEF HandleApplicationRecord, Handling, handshakeVars, callerVars
  <2>2. \A z \in Side : z # s => plaintext'[z] = plaintext[z]
    BY <1>4 DEF HandleApplicationRecord, TypeOK
  <2> QED
    BY <2>1, <2>2 DEF KeysMatchState
<1>5. ASSUME NEW s \in Side, FeedRaises(s)
      PROVE  KeysMatchState'
  <2>1. UNCHANGED <<state, keys, ephemeral, server_ephemeral, sent, got>>
    BY <1>5 DEF FeedRaises, handshakeVars
  <2>2. \A z \in Side : plaintext'[z] = plaintext[z] \/ plaintext'[z] = <<>>
    BY <1>5 DEF FeedRaises, TypeOK
  <2> QED
    BY <2>1, <2>2 DEF KeysMatchState
<1>6. ASSUME NEW s \in Side, FeedReturns(s)
      PROVE  KeysMatchState'
  <2>1. UNCHANGED <<state, keys, ephemeral, server_ephemeral, sent>>
    BY <1>6 DEF FeedReturns, handshakeVars
  <2>2. \A z \in Side : plaintext'[z] = plaintext[z] \/ plaintext'[z] = <<>>
    BY <1>6 DEF FeedReturns, TypeOK
  <2>3. \A z \in Side : plaintext[z] = <<>> /\ got[z] = <<>> => got'[z] = <<>>
    BY <1>6, ConcatEmptySeq DEF FeedReturns, TypeOK
  <2> QED
    BY <2>1, <2>2, <2>3 DEF KeysMatchState
<1>7. ASSUME NEW s \in Side, NEW m \in Messages, SendApplicationData(s, m)
      PROVE  KeysMatchState'
  <2>1. state[s] = "ESTABLISHED"
        /\ UNCHANGED <<state, keys, ephemeral, server_ephemeral, plaintext, got>>
    BY <1>7 DEF SendApplicationData, handshakeVars
  <2>2. \A z \in Side : z # s => sent'[z] = sent[z]
    BY <1>7 DEF SendApplicationData, TypeOK
  <2> QED
    BY <2>1, <2>2 DEF KeysMatchState
<1>8. ASSUME UNCHANGED <<handshakeVars, plaintext, sent, got>>
      PROVE  KeysMatchState'
  BY <1>8 DEF KeysMatchState, handshakeVars
<1>9. ASSUME NEW s \in Side, NEW n \in 1 .. Len(wire[s]), Feed(s, n)
      PROVE  KeysMatchState'
  BY <1>8, <1>9 DEF Feed, callerVars
<1>10. CASE SendClientHello
  BY <1>8, <1>10 DEF SendClientHello, callerVars
<1>11. ASSUME NEW s \in Side, Close(s)
       PROVE  KeysMatchState'
  BY <1>8, <1>11 DEF Close
<1>12. CASE WireFault
  BY <1>8, <1>12 DEF WireFault, Lose, Duplicate, Delay, Corrupt, Echo, Faulty, callerVars
<1>13. CASE UNCHANGED vars
  BY <1>8, <1>13 DEF vars
<1> QED
  BY <1>1, <1>2, <1>3, <1>4, <1>5, <1>6, <1>7, <1>9, <1>10, <1>11, <1>12, <1>13
  DEF Next, FeedStep

-----------------------------------------------------------------------------
(* Authenticity of the records on their way *)

\* The only record at the start is the ClientHello.
LEMMA InitFrames == Init => FramesAreAuthentic
BY DEF Init, FramesAreAuthentic, Authentic, HelloFrame, Side

\* A record that is authentic stays so: keys are set once, before anything was
\* protected with them, and what was sent is only appended to.
LEMMA AuthenticIsStable ==
    ASSUME TypeOK, KeysMatchState, [Next]_vars, NEW f \in Frame, Authentic(f)
    PROVE  Authentic(f)'
<1>1. ASSUME UNCHANGED <<identity, state, keys, sent>>
      PROVE  Authentic(f)'
  BY <1>1 DEF Authentic
<1>2. ASSUME NEW s \in Side, NEW m \in Messages, SendApplicationData(s, m)
      PROVE  Authentic(f)'
  <2>1. UNCHANGED <<identity, state, keys>>
    BY <1>2 DEF SendApplicationData, handshakeVars
  <2>2. ASSUME NEW p \in Side, NEW n \in Nat, n < Len(sent[p])
        PROVE  n < Len(sent'[p]) /\ sent'[p][n + 1] = sent[p][n + 1]
    <3>1. sent'[p] = sent[p] \/ sent'[p] = Append(sent[p], m)
      BY <1>2 DEF SendApplicationData, TypeOK
    <3>2. sent[p] \in Seq(Messages)
      BY DEF TypeOK
    <3>3. CASE sent'[p] = sent[p]
      BY <2>2, <3>3
    <3>4. CASE sent'[p] = Append(sent[p], m)
      <4>1. n < Len(Append(sent[p], m)) /\ Append(sent[p], m)[n + 1] = sent[p][n + 1]
        BY <2>2, <3>2, AppendKeeps
      <4> QED
        BY <3>4, <4>1
    <3> QED
      BY <3>1, <3>3, <3>4
  <2>3. ASSUME f.type = "app" PROVE f.seq \in Nat
    BY <2>3 DEF Frame, Hello, ServerAuth, Protected
  <2> QED
    BY <2>1, <2>2, <2>3 DEF Authentic
<1>3. ASSUME NEW e \in Ephemerals, HandleClientHello(e)
      PROVE  Authentic(f)'
  <2>1. /\ state["server"] = "WAIT_CLIENT_HELLO" /\ keys["server"] = NoKeys
        /\ keys'["client"] = keys["client"]
        /\ UNCHANGED <<identity, sent>>
    BY <1>3
    DEF HandleClientHello, Handling, KeysMatchState, Side, TypeOK, identityVars, callerVars
  <2>2. sent["server"] = <<>>
    BY <2>1 DEF KeysMatchState, Side
  <2>3. f.intact => f.type # "auth"
    BY <2>1 DEF Authentic
  <2>4. ASSUME f.type = "app" PROVE f.seq \in Nat
    BY <2>4 DEF Frame, Hello, ServerAuth, Protected
  <2> QED
    BY <2>1, <2>2, <2>3, <2>4 DEF Authentic, Side
<1>4. CASE HandleServerAuth
  <2>1. /\ sent["client"] = <<>>
        /\ keys'["server"] = keys["server"] /\ state'["server"] = state["server"]
        /\ UNCHANGED <<identity, sent>>
    BY <1>4
    DEF HandleServerAuth, Handling, KeysMatchState, Side, TypeOK, identityVars, callerVars
  <2>2. ASSUME f.type = "app" PROVE f.seq \in Nat
    BY <2>2 DEF Frame, Hello, ServerAuth, Protected
  <2> QED
    BY <2>1, <2>2 DEF Authentic, Side
<1>5. CASE HandleServerHello
  <2>1. /\ keys' = keys /\ state'["server"] = state["server"]
        /\ UNCHANGED <<identity, sent>>
    BY <1>5 DEF HandleServerHello, TypeOK, Side, identityVars, callerVars
  <2> QED
    BY <2>1 DEF Authentic
<1>6. ASSUME NEW s \in Side, NEW n \in 1 .. Len(wire[s]), Feed(s, n)
      PROVE  Authentic(f)'
  BY <1>1, <1>6 DEF Feed, handshakeVars, callerVars
<1>7. ASSUME NEW s \in Side, HandleApplicationRecord(s)
      PROVE  Authentic(f)'
  BY <1>1, <1>7 DEF HandleApplicationRecord, handshakeVars, callerVars
<1>8. ASSUME NEW s \in Side, FeedRaises(s) \/ FeedReturns(s) \/ Close(s)
      PROVE  Authentic(f)'
  BY <1>1, <1>8 DEF FeedRaises, FeedReturns, Close, handshakeVars
<1>9. CASE SendClientHello \/ WireFault \/ UNCHANGED vars
  BY <1>1, <1>9
  DEF SendClientHello, WireFault, Lose, Duplicate, Delay, Corrupt, Echo, Faulty, vars,
      handshakeVars, callerVars
<1> QED
  BY <1>2, <1>3, <1>4, <1>5, <1>6, <1>7, <1>8, <1>9 DEF Next, FeedStep

\* Altering a record never makes it authentic for something else: only a
\* hello can be altered unnoticed, and nothing is claimed of a hello.
LEMMA CorruptedIsAuthentic ==
    ASSUME NEW f \in Frame, NEW g \in Corrupted(f), Authentic(f)'
    PROVE  Authentic(g)'
<1>1. CASE f.type = "hello" /\ g.intact
  <2>1. g.type = "hello"
    <3>1. f \in Hello
      BY <1>1 DEF Frame, Hello, ServerAuth, Protected
    <3> QED
      BY <1>1, <3>1 DEF Corrupted, Hello
  <2> QED
    BY <2>1 DEF Authentic
<1>2. CASE ~g.intact
  BY <1>2 DEF Authentic
<1>3. CASE f.type # "hello"
  <2>1. g = [f EXCEPT !.intact = FALSE]
    BY <1>3 DEF Corrupted
  <2>2. ~g.intact
    BY <2>1 DEF Frame, Hello, ServerAuth, Protected
  <2> QED
    BY <2>2 DEF Authentic
<1> QED
  BY <1>1, <1>2, <1>3

\* Steps move records from one place to another, and make new ones that are
\* authentic; what the wire makes up is not intact or carries no proof.
LEMMA NextFrames ==
    ASSUME TypeOK, TypeOK', KeysMatchState, CountersMatchStreams, FramesAreAuthentic,
           [Next]_vars
    PROVE  FramesAreAuthentic'
<1> DEFINE G == {f \in Frame : Authentic(f)'}
<1>a. \A f \in Frame : Authentic(f) => f \in G
  BY AuthenticIsStable
<1>b. \A s \in Side : wire[s] \in Seq(G) /\ records[s] \in Seq(G) /\ pending_wire[s] \in Seq(G)
  <2> SUFFICES ASSUME NEW s \in Side
               PROVE  wire[s] \in Seq(G) /\ records[s] \in Seq(G) /\ pending_wire[s] \in Seq(G)
    OBVIOUS
  <2>1. wire[s] \in Seq(Frame) /\ records[s] \in Seq(Frame) /\ pending_wire[s] \in Seq(Frame)
    BY DEF TypeOK
  <2>2. /\ \A i \in DOMAIN wire[s] : wire[s][i] \in G
        /\ \A i \in DOMAIN records[s] : records[s][i] \in G
        /\ \A i \in DOMAIN pending_wire[s] : pending_wire[s][i] \in G
    BY <1>a, <2>1, MembersOfSeq DEF FramesAreAuthentic
  <2> QED
    BY <2>1, <2>2, SeqOfMembers
<1>c. \A f \in G : Corrupted(f) \subseteq G
  BY CorruptedFrame, CorruptedIsAuthentic
<1>d. ASSUME \A s \in Side :
                 wire'[s] \in Seq(G) /\ records'[s] \in Seq(G) /\ pending_wire'[s] \in Seq(G)
      PROVE  FramesAreAuthentic'
  <2>1. ASSUME NEW q \in Seq(G) PROVE \A i \in DOMAIN q : Authentic(q[i])'
    <3>1. \A i \in DOMAIN q : q[i] \in G
      BY MembersOfSeq
    <3> QED
      BY <3>1
  <2> QED
    BY <1>d, <2>1 DEF FramesAreAuthentic
<1>e. \A s \in Side : Peer(s) \in Side
  BY DEF Peer, Side
<1>f. wire \in [Side -> Seq(Frame)] /\ records \in [Side -> Seq(Frame)]
      /\ pending_wire \in [Side -> Seq(Frame)]
  BY DEF TypeOK
<1> HIDE DEF G
\* Records popped or dropped, and nothing new on its way.
<1>g. ASSUME UNCHANGED <<wire, pending_wire>>,
             \A s \in Side : records'[s] = records[s] \/ records'[s] = <<>>
                                 \/ (records[s] # <<>> /\ records'[s] = Tail(records[s]))
      PROVE  FramesAreAuthentic'
  <2>1. \A s \in Side : records'[s] \in Seq(G)
    BY <1>b, <1>g, TailOfSeq, EmptySeq
  <2> QED
    BY <1>b, <1>d, <1>g, <2>1
<1>1. ASSUME NEW s \in Side, NEW n \in 1 .. Len(wire[s]), Feed(s, n)
      PROVE  FramesAreAuthentic'
  <2>1. wire[s] \in Seq(G) /\ records[s] \in Seq(G)
    BY <1>b
  <2>2. SubSeq(wire[s], 1, n) \in Seq(G) /\ SubSeq(wire[s], n + 1, Len(wire[s])) \in Seq(G)
    BY <2>1, SubSeqOfSeq
  <2>3. records[s] \o SubSeq(wire[s], 1, n) \in Seq(G)
    BY <2>1, <2>2, ConcatOfSeq
  <2>4. \A z \in Side : wire'[z] \in Seq(G) /\ records'[z] \in Seq(G)
    BY <1>1, <1>b, <1>f, <2>2, <2>3 DEF Feed
  <2> QED
    BY <1>1, <1>b, <1>d, <2>4 DEF Feed
<1>2. ASSUME NEW e \in Ephemerals, HandleClientHello(e)
      PROVE  FramesAreAuthentic'
  <2> DEFINE r == Head(records["server"])
             auth == AuthFrame(r.eph, e)
  <2>1. /\ records["server"] # <<>>
        /\ records' = [records EXCEPT !["server"] = Tail(@)]
        /\ wire' = wire
        /\ pending_wire' = [pending_wire EXCEPT !["server"] = @ \o <<HelloFrame(e), auth>>]
        /\ identity' = identity
        /\ state'["server"] = "ESTABLISHED"
        /\ keys'["server"] = DeriveSessionKeys({r.eph, e})
    BY <1>2 DEF HandleClientHello, Handling, PopRecord, netVars, identityVars, Side, TypeOK
  <2>2. r.eph \in Ephemerals
    BY <1>2, PublicKeyOfHello DEF HandleClientHello, Handling, Side
  <2>3. HelloFrame(e) \in G
    BY DEF G, HelloFrame, Frame, Hello, Authentic
  <2>4. auth \in G
    <3>1. auth \in Frame
      BY <2>2, ConstantsAssumption DEF AuthFrame, TypeOK, Frame, ServerAuth, Certificates, IdentityKeys
    <3>2. PICK f : f = auth
      OBVIOUS
    <3>3. Authentic(f)'
      BY <2>1, <3>2 DEF Authentic, AuthFrame
    <3>4. f \in G
      BY <3>1, <3>2, <3>3 DEF G
    <3> QED
      BY <3>2, <3>4
  <2>5. pending_wire["server"] \o <<HelloFrame(e), auth>> \in Seq(G)
    <3>1. <<HelloFrame(e), auth>> \in Seq(G)
      BY <2>3, <2>4
    <3> QED
      BY <1>b, <3>1, ConcatOfSeq DEF Side
  <2>6. \A z \in Side : pending_wire'[z] \in Seq(G)
    BY <1>b, <1>f, <2>1, <2>5
  <2>7. \A z \in Side : records'[z] \in Seq(G)
    BY <1>b, <1>f, <2>1, TailOfSeq
  <2> QED
    BY <1>b, <1>d, <2>1, <2>6, <2>7
<1>3. CASE HandleServerHello
  BY <1>3, <1>f, <1>g DEF HandleServerHello, Handling, PopRecord, netVars, Side
<1>4. CASE HandleServerAuth
  BY <1>4, <1>f, <1>g DEF HandleServerAuth, Handling, PopRecord, netVars, Side
<1>5. ASSUME NEW s \in Side, HandleApplicationRecord(s)
      PROVE  FramesAreAuthentic'
  BY <1>5, <1>f, <1>g DEF HandleApplicationRecord, Handling, PopRecord, netVars
<1>6. ASSUME NEW s \in Side, FeedRaises(s)
      PROVE  FramesAreAuthentic'
  <2>1. \A z \in Side : pending_wire'[z] \in Seq(G) /\ records'[z] \in Seq(G)
    BY <1>6, <1>b, <1>f, EmptySeq DEF FeedRaises
  <2> QED
    BY <1>6, <1>b, <1>d, <2>1 DEF FeedRaises, netVars
<1>7. ASSUME NEW s \in Side, FeedReturns(s)
      PROVE  FramesAreAuthentic'
  <2>1. wire[Peer(s)] \o pending_wire[s] \in Seq(G)
    BY <1>b, <1>e, ConcatOfSeq
  <2>2. \A z \in Side : wire'[z] \in Seq(G) /\ pending_wire'[z] \in Seq(G)
    BY <1>7, <1>b, <1>f, <2>1, EmptySeq DEF FeedReturns
  <2> QED
    BY <1>7, <1>b, <1>d, <2>2 DEF FeedReturns
<1>8. CASE SendClientHello
  <2>1. wire["server"] \o pending_wire["client"] \in Seq(G)
    BY <1>b, ConcatOfSeq DEF Side
  <2>2. \A z \in Side : wire'[z] \in Seq(G) /\ pending_wire'[z] \in Seq(G)
    BY <1>8, <1>b, <1>f, <2>1, EmptySeq DEF SendClientHello
  <2> QED
    BY <1>8, <1>b, <1>d, <2>2 DEF SendClientHello
<1>9. ASSUME NEW s \in Side, NEW m \in Messages, SendApplicationData(s, m)
      PROVE  FramesAreAuthentic'
  <2>0. PICK f : f = ProtectRecord(keys[s][s], send_seq[s], m)
    OBVIOUS
  <2>1. keys[s][s] \in Keys /\ keys[s][s].writer = s
    <3>1. PICK secret \in Secrets : keys[s] = DeriveSessionKeys(secret)
      BY <1>9 DEF SendApplicationData, KeysMatchState
    <3> QED
      BY <3>1 DEF DeriveSessionKeys, Keys
  <2>2. f \in Frame
    BY <2>0, <2>1 DEF ProtectRecord, Frame, Protected, TypeOK
  <2>3. sent'[s] = Append(sent[s], m) /\ keys' = keys /\ sent[s] \in Seq(Messages)
    BY <1>9 DEF SendApplicationData, handshakeVars, TypeOK
  <2>4. send_seq[s] < Len(sent'[s]) /\ sent'[s][send_seq[s] + 1] = m
    <3>1. send_seq[s] = Len(sent[s])
      BY DEF CountersMatchStreams
    <3> QED
      BY <2>3, <3>1
  <2>5. Authentic(f)'
    BY <2>0, <2>1, <2>3, <2>4 DEF Authentic, ProtectRecord
  <2>6. Append(wire[Peer(s)], f) \in Seq(G)
    <3>1. f \in G
      BY <2>2, <2>5 DEF G
    <3> QED
      BY <1>b, <1>e, <3>1, AppendOfSeq
  <2>7. \A z \in Side : wire'[z] \in Seq(G)
    BY <1>9, <1>b, <1>f, <2>0, <2>6 DEF SendApplicationData
  <2> QED
    BY <1>9, <1>b, <1>d, <2>7 DEF SendApplicationData
<1>10. ASSUME NEW s \in Side, Close(s)
       PROVE  FramesAreAuthentic'
  BY <1>10, <1>g DEF Close, netVars
<1>11. CASE WireFault
  <2>0. PICK s \in Side : \E i \in 1 .. Len(wire[s]) :
            Lose(s, i) \/ Duplicate(s, i) \/ Delay(s, i) \/ Corrupt(s, i) \/ Echo(s, i)
    BY <1>11 DEF WireFault
  <2>1. PICK i \in 1 .. Len(wire[s]) :
            Lose(s, i) \/ Duplicate(s, i) \/ Delay(s, i) \/ Corrupt(s, i) \/ Echo(s, i)
    BY <2>0
  <2>2. wire[s] \in Seq(G) /\ wire[Peer(s)] \in Seq(G)
    BY <1>b, <1>e
  <2>3. wire[s][i] \in G
    BY <2>2, ElementOfSeq
  <2>4. RemoveAt(wire[s], i) \in Seq(G)
    BY <2>2, RemoveAtOfSeq
  <2>5. PICK z \in Side, frames \in Seq(G) : Faulty(z, frames)
    <3>1. CASE Lose(s, i)
      BY <2>4, <3>1 DEF Lose
    <3>2. CASE Duplicate(s, i)
      BY <2>2, <2>3, <3>2, AppendOfSeq DEF Duplicate
    <3>3. CASE Delay(s, i)
      BY <2>3, <2>4, <3>3, AppendOfSeq DEF Delay
    <3>4. CASE Corrupt(s, i)
      BY <1>c, <2>2, <2>3, <3>4, ReplaceAtOfSeq DEF Corrupt
    <3>5. CASE Echo(s, i)
      BY <1>e, <2>2, <2>3, <3>5, AppendOfSeq DEF Echo
    <3> QED
      BY <2>1, <3>1, <3>2, <3>3, <3>4, <3>5
  <2>6. \A y \in Side : wire'[y] \in Seq(G)
    BY <1>b, <1>f, <2>5 DEF Faulty
  <2> QED
    BY <1>b, <1>d, <2>5, <2>6 DEF Faulty
<1>12. CASE UNCHANGED vars
  BY <1>12, <1>g DEF vars
<1> QED
  BY <1>1, <1>2, <1>3, <1>4, <1>5, <1>6, <1>7, <1>8, <1>9, <1>10, <1>11, <1>12
  DEF Next, FeedStep

-----------------------------------------------------------------------------
(* Sequence numbers and what was received *)

\* How a stream begins: nothing read yet.
LEMMA BeginsEmpty ==
    ASSUME NEW S, NEW t \in Seq(S)
    PROVE  Begins(t, <<>>, <<>>)
BY DEF Begins

\* Dropping what was not read yet.
LEMMA BeginsDropped ==
    ASSUME NEW S, NEW t \in Seq(S), NEW g \in Seq(S), NEW p \in Seq(S), Begins(t, g, p)
    PROVE  Begins(t, g, <<>>)
BY DEF Begins

\* The stream grows at its end.
LEMMA BeginsLonger ==
    ASSUME NEW S, NEW t \in Seq(S), NEW g \in Seq(S), NEW p \in Seq(S), Begins(t, g, p),
           NEW m \in S
    PROVE  Begins(Append(t, m), g, p)
BY DEF Begins

\* The next element is decrypted.
LEMMA BeginsNext ==
    ASSUME NEW S, NEW t \in Seq(S), NEW g \in Seq(S), NEW p \in Seq(S), Begins(t, g, p),
           Len(g) + Len(p) < Len(t)
    PROVE  Begins(t, g, Append(p, t[Len(g) + Len(p) + 1]))
<1> DEFINE m == t[Len(g) + Len(p) + 1]
           q == Append(p, m)
<1>1. Len(q) = Len(p) + 1 /\ Len(p) \in Nat /\ Len(g) \in Nat
  OBVIOUS
<1>2. ASSUME NEW i \in 1 .. Len(q) PROVE q[i] = t[Len(g) + i]
  <2>1. CASE i = Len(p) + 1
    BY <2>1
  <2>2. CASE i <= Len(p)
    BY <2>2 DEF Begins
  <2> QED
    BY <1>1, <2>1, <2>2
<1> QED
  BY <1>1, <1>2 DEF Begins

\* What was not read yet is given to the application.
LEMMA BeginsGiven ==
    ASSUME NEW S, NEW t \in Seq(S), NEW g \in Seq(S), NEW p \in Seq(S), Begins(t, g, p)
    PROVE  Begins(t, g \o p, <<>>)
<1>1. /\ Len(g \o p) = Len(g) + Len(p)
      /\ \A i \in 1 .. Len(g) + Len(p) :
            (g \o p)[i] = IF i <= Len(g) THEN g[i] ELSE p[i - Len(g)]
  BY ConcatProperties
<1>2. ASSUME NEW i \in 1 .. Len(g) + Len(p) PROVE (g \o p)[i] = t[i]
  <2>1. CASE i <= Len(g)
    BY <1>1, <2>1 DEF Begins
  <2>2. CASE i > Len(g)
    <3>1. i - Len(g) \in 1 .. Len(p) /\ Len(g) + (i - Len(g)) = i
      BY <2>2
    <3> QED
      BY <1>1, <2>2, <3>1 DEF Begins
  <2> QED
    BY <2>1, <2>2
<1> QED
  BY <1>1, <1>2 DEF Begins

\* In the words of the community modules.
LEMMA BeginsIsPrefix ==
    ASSUME NEW S, NEW t \in Seq(S), NEW g \in Seq(S), Begins(t, g, <<>>)
    PROVE  IsPrefix(g, t)
<1>1. Len(g) <= Len(t) /\ Len(g) \in Nat /\ Len(t) \in Nat
  BY DEF Begins
<1>2. SubSeq(g, 1, Len(g)) = SubSeq(t, 1, Len(g))
  BY <1>1 DEF Begins
<1> QED
  BY <1>1, <1>2 DEF IsPrefix

\* In the words of SecureChannel.
LEMMA BeginsIsSubSeq ==
    ASSUME NEW S, NEW t \in Seq(S), NEW g \in Seq(S), Begins(t, g, <<>>)
    PROVE  g = SubSeq(t, 1, Len(g))
<1>1. Len(g) <= Len(t) /\ Len(g) \in Nat /\ Len(t) \in Nat
  BY DEF Begins
<1>2. SubSeq(t, 1, Len(g)) \in Seq(S) /\ Len(SubSeq(t, 1, Len(g))) = Len(g)
  BY <1>1
<1>3. \A i \in 1 .. Len(g) : g[i] = SubSeq(t, 1, Len(g))[i]
  BY <1>1 DEF Begins
<1> QED
  BY <1>2, <1>3, SeqEqual

\* Nothing sent, nothing received.
LEMMA InitStreams == Init => CountersMatchStreams /\ ReceivedInOrder
BY DEF Init, CountersMatchStreams, ReceivedInOrder, Begins, Side, Peer

\* Both sequence numbers keep counting the records of their stream.
LEMMA NextCounters ==
    ASSUME TypeOK, CountersMatchStreams, [Next]_vars
    PROVE  CountersMatchStreams'
<1>1. ASSUME UNCHANGED <<send_seq, recv_seq, sent, got, plaintext>>,
             \A s \in Side : /\ status'[s] = "open" => status[s] = "open"
                             /\ feeding'[s] => status'[s] = "open"
      PROVE  CountersMatchStreams'
  BY <1>1 DEF CountersMatchStreams
<1>2. ASSUME NEW s \in Side, NEW n \in 1 .. Len(wire[s]), Feed(s, n)
      PROVE  CountersMatchStreams'
  <2>1. \A z \in Side : feeding'[z] => status'[z] = "open"
    BY <1>2 DEF Feed, callerVars, TypeOK, CountersMatchStreams
  <2> QED
    BY <1>1, <1>2, <2>1 DEF Feed, callerVars
<1>3. ASSUME NEW s \in Side, HandleApplicationRecord(s)
      PROVE  CountersMatchStreams'
  <2>1. /\ recv_seq' = [recv_seq EXCEPT ![s] = @ + 1]
        /\ plaintext' = [plaintext EXCEPT ![s] = Append(@, Head(records[s]).body)]
        /\ UNCHANGED <<send_seq, status, sent, got, feeding>>
    BY <1>3 DEF HandleApplicationRecord, callerVars
  <2>2. Len(plaintext'[s]) = Len(plaintext[s]) + 1 /\ recv_seq'[s] = recv_seq[s] + 1
    BY <2>1 DEF TypeOK
  <2>3. \A z \in Side : z # s => plaintext'[z] = plaintext[z] /\ recv_seq'[z] = recv_seq[z]
    BY <2>1 DEF TypeOK
  <2>4. ASSUME NEW z \in Side, status[z] = "open"
        PROVE  recv_seq'[z] = Len(got[z]) + Len(plaintext'[z])
    <3>0. got[z] \in Seq(Messages) /\ plaintext[z] \in Seq(Messages)
      BY DEF TypeOK
    <3>1. recv_seq[z] = Len(got[z]) + Len(plaintext[z])
      BY <2>4 DEF CountersMatchStreams
    <3>2. CASE z = s
      <4>1. Len(got[z]) \in Nat /\ Len(plaintext[z]) \in Nat
        BY <3>0, LenProperties
      <4>2. Len(plaintext'[z]) = Len(plaintext[z]) + 1 /\ recv_seq'[z] = recv_seq[z] + 1
        BY <2>2, <3>2
      <4>3. \A a, b \in Nat : (a + b) + 1 = a + (b + 1)
        OBVIOUS
      <4> QED
        BY <3>1, <4>1, <4>2, <4>3
    <3>3. CASE z # s
      BY <2>3, <3>1, <3>3
    <3> QED
      BY <3>2, <3>3
  <2> QED
    BY <2>1, <2>4 DEF CountersMatchStreams
<1>4. ASSUME NEW s \in Side, FeedRaises(s)
      PROVE  CountersMatchStreams'
  <2>1. /\ status' = [status EXCEPT ![s] = "failed"]
        /\ feeding' = [feeding EXCEPT ![s] = FALSE]
        /\ plaintext' = [plaintext EXCEPT ![s] = <<>>]
        /\ UNCHANGED <<send_seq, recv_seq, sent, got>>
    BY <1>4 DEF FeedRaises
  <2>2. \A z \in Side : z # s => /\ status'[z] = status[z] /\ feeding'[z] = feeding[z]
                                 /\ plaintext'[z] = plaintext[z]
    BY <2>1 DEF TypeOK
  <2>3. status'[s] = "failed" /\ ~feeding'[s]
    BY <2>1 DEF TypeOK
  <2> QED
    BY <2>1, <2>2, <2>3 DEF CountersMatchStreams
<1>5. ASSUME NEW s \in Side, FeedReturns(s)
      PROVE  CountersMatchStreams'
  <2>1. /\ got' = [got EXCEPT ![s] = @ \o plaintext[s]]
        /\ plaintext' = [plaintext EXCEPT ![s] = <<>>]
        /\ feeding' = [feeding EXCEPT ![s] = FALSE]
        /\ UNCHANGED <<send_seq, recv_seq, status, sent>>
    BY <1>5 DEF FeedReturns
  <2>2. \A z \in Side : feeding'[z] => feeding[z]
    BY <2>1 DEF TypeOK
  <2>3. ASSUME NEW z \in Side
        PROVE  Len(got'[z]) + Len(plaintext'[z]) = Len(got[z]) + Len(plaintext[z])
    <3>1. CASE z = s
      <4>1. Len(got[s] \o plaintext[s]) = Len(got[s]) + Len(plaintext[s])
        BY ConcatProperties DEF TypeOK
      <4>2. got'[s] = got[s] \o plaintext[s] /\ plaintext'[s] = <<>>
        BY <2>1 DEF TypeOK
      <4>3. Len(got[s]) \in Nat /\ Len(plaintext[s]) \in Nat
        BY DEF TypeOK
      <4> QED
        BY <3>1, <4>1, <4>2, <4>3
    <3>2. CASE z # s
      BY <2>1, <3>2 DEF TypeOK
    <3> QED
      BY <3>1, <3>2
  <2> QED
    BY <2>1, <2>2, <2>3 DEF CountersMatchStreams
<1>6. ASSUME NEW s \in Side, NEW m \in Messages, SendApplicationData(s, m)
      PROVE  CountersMatchStreams'
  <2>1. /\ send_seq' = [send_seq EXCEPT ![s] = @ + 1]
        /\ sent' = [sent EXCEPT ![s] = Append(@, m)]
        /\ UNCHANGED <<recv_seq, plaintext, feeding, status, got>>
    BY <1>6 DEF SendApplicationData
  <2>2. ASSUME NEW z \in Side PROVE send_seq'[z] = Len(sent'[z])
    <3>1. sent[z] \in Seq(Messages) /\ send_seq[z] = Len(sent[z])
      BY DEF TypeOK, CountersMatchStreams
    <3>2. CASE z = s
      BY <2>1, <3>1, <3>2 DEF TypeOK
    <3>3. CASE z # s
      BY <2>1, <3>1, <3>3 DEF TypeOK
    <3> QED
      BY <3>2, <3>3
  <2> QED
    BY <2>1, <2>2 DEF CountersMatchStreams
<1>7. ASSUME NEW s \in Side, Close(s)
      PROVE  CountersMatchStreams'
  <2>1. /\ ~feeding[s] /\ status' = [status EXCEPT ![s] = "closed"]
        /\ UNCHANGED <<send_seq, recv_seq, sent, got, plaintext, feeding>>
    BY <1>7 DEF Close
  <2>2. \A z \in Side : /\ status'[z] = "open" => status[z] = "open"
                        /\ feeding'[z] => status'[z] = "open"
    BY <2>1 DEF TypeOK, CountersMatchStreams
  <2> QED
    BY <1>1, <2>1, <2>2
<1>8. ASSUME UNCHANGED <<send_seq, recv_seq, sent, got, plaintext, status, feeding>>
      PROVE  CountersMatchStreams'
  BY <1>8 DEF CountersMatchStreams
<1>9. ASSUME NEW e \in Ephemerals, HandleClientHello(e)
      PROVE  CountersMatchStreams'
  BY <1>8, <1>9 DEF HandleClientHello, callerVars
<1>10. CASE HandleServerHello \/ HandleServerAuth \/ SendClientHello \/ WireFault \/ UNCHANGED vars
  BY <1>8, <1>10
  DEF HandleServerHello, HandleServerAuth, SendClientHello, WireFault, Lose, Duplicate,
      Delay, Corrupt, Echo, Faulty, vars, callerVars
<1> QED
  BY <1>2, <1>3, <1>4, <1>5, <1>6, <1>7, <1>9, <1>10 DEF Next, FeedStep

\* The record the next plaintext comes from carries the key only the peer
\* writes with, and the number of the next place in what the peer sent.
LEMMA AcceptedIsNext ==
    ASSUME TypeOK, KeysMatchState, FramesAreAuthentic, CountersMatchStreams,
           NEW s \in Side, HandleApplicationRecord(s)
    PROVE  LET n == Len(got[s]) + Len(plaintext[s])
           IN  n < Len(sent[Peer(s)]) /\ Head(records[s]).body = sent[Peer(s)][n + 1]
<1> DEFINE r == Head(records[s])
<1>1. /\ state[s] = "ESTABLISHED" /\ feeding[s] /\ records[s] # <<>>
      /\ r.type = "app" /\ r.intact /\ r.seq = recv_seq[s] /\ r.key = keys[s][Peer(s)]
  BY DEF HandleApplicationRecord, Handling, UnprotectsNext, Unprotects
<1>2. Authentic(r)
  <2>1. 1 \in DOMAIN records[s] /\ r = records[s][1]
    BY <1>1 DEF TypeOK
  <2> QED
    BY <2>1 DEF FramesAreAuthentic
<1>3. PICK p \in Side : /\ r.key.writer = p /\ r.seq < Len(sent[p])
                        /\ r.body = sent[p][r.seq + 1]
  BY <1>1, <1>2 DEF Authentic
<1>4. r.key.writer = Peer(s)
  <2>1. PICK secret \in Secrets : keys[s] = DeriveSessionKeys(secret)
    BY <1>1 DEF KeysMatchState
  <2> QED
    BY <1>1, <2>1 DEF DeriveSessionKeys, Peer, Side
<1>5. recv_seq[s] = Len(got[s]) + Len(plaintext[s])
  BY <1>1 DEF CountersMatchStreams
<1> QED
  BY <1>1, <1>3, <1>4, <1>5

\* Every step keeps what was received the beginning of what was sent.
LEMMA NextReceived ==
    ASSUME TypeOK, KeysMatchState, FramesAreAuthentic, CountersMatchStreams,
           ReceivedInOrder, [Next]_vars
    PROVE  ReceivedInOrder'
<1>a. ASSUME NEW s \in Side
      PROVE  /\ Peer(s) \in Side /\ sent[s] \in Seq(Messages) /\ got[s] \in Seq(Messages)
             /\ plaintext[s] \in Seq(Messages) /\ sent[Peer(s)] \in Seq(Messages)
  BY DEF TypeOK, Side, Peer
<1>b. \A s \in Side : Begins(sent[Peer(s)], got[s], plaintext[s])
  BY DEF ReceivedInOrder
<1>1. ASSUME UNCHANGED <<sent, got>>,
             \A s \in Side : plaintext'[s] = plaintext[s] \/ plaintext'[s] = <<>>
      PROVE  ReceivedInOrder'
  <2>1. ASSUME NEW s \in Side PROVE Begins(sent'[Peer(s)], got'[s], plaintext'[s])
    BY <1>1, <1>a, <1>b, BeginsDropped
  <2> QED
    BY <2>1 DEF ReceivedInOrder
<1>2. ASSUME NEW s \in Side, HandleApplicationRecord(s)
      PROVE  ReceivedInOrder'
  <2>1. /\ plaintext' = [plaintext EXCEPT ![s] = Append(@, Head(records[s]).body)]
        /\ UNCHANGED <<sent, got>>
    BY <1>2 DEF HandleApplicationRecord, callerVars
  <2>2. LET n == Len(got[s]) + Len(plaintext[s])
        IN  n < Len(sent[Peer(s)]) /\ Head(records[s]).body = sent[Peer(s)][n + 1]
    BY <1>2, AcceptedIsNext
  <2>3. \A z \in Side : z # s => plaintext'[z] = plaintext[z]
    BY <2>1 DEF TypeOK
  <2>4. plaintext'[s] = Append(plaintext[s], sent[Peer(s)][Len(got[s]) + Len(plaintext[s]) + 1])
    BY <2>1, <2>2 DEF TypeOK
  <2>5. Begins(sent[Peer(s)], got[s], plaintext'[s])
    <3>1. Begins(sent[Peer(s)], got[s], plaintext[s])
          /\ Len(got[s]) + Len(plaintext[s]) < Len(sent[Peer(s)])
      BY <1>b, <2>2
    <3>2. /\ sent[Peer(s)] \in Seq(Messages) /\ got[s] \in Seq(Messages)
          /\ plaintext[s] \in Seq(Messages)
      BY <1>a
    <3>3. Begins(sent[Peer(s)], got[s],
                 Append(plaintext[s], sent[Peer(s)][Len(got[s]) + Len(plaintext[s]) + 1]))
      BY <3>1, <3>2, BeginsNext
    <3> QED
      BY <2>4, <3>3
  <2> QED
    BY <1>b, <2>1, <2>3, <2>5 DEF ReceivedInOrder
<1>3. ASSUME NEW s \in Side, FeedReturns(s)
      PROVE  ReceivedInOrder'
  <2>1. /\ got' = [got EXCEPT ![s] = @ \o plaintext[s]]
        /\ plaintext' = [plaintext EXCEPT ![s] = <<>>]
        /\ UNCHANGED sent
    BY <1>3 DEF FeedReturns
  <2>2. \A z \in Side : z # s => got'[z] = got[z] /\ plaintext'[z] = plaintext[z]
    BY <2>1 DEF TypeOK
  <2>3. got'[s] = got[s] \o plaintext[s] /\ plaintext'[s] = <<>>
    BY <2>1 DEF TypeOK
  <2>4. Begins(sent[Peer(s)], got'[s], plaintext'[s])
    BY <1>a, <1>b, <2>3, BeginsGiven
  <2> QED
    BY <1>b, <2>1, <2>2, <2>4 DEF ReceivedInOrder
<1>4. ASSUME NEW s \in Side, NEW m \in Messages, SendApplicationData(s, m)
      PROVE  ReceivedInOrder'
  <2>1. sent' = [sent EXCEPT ![s] = Append(@, m)] /\ UNCHANGED <<plaintext, got>>
    BY <1>4 DEF SendApplicationData
  <2>2. \A z \in Side : sent'[z] = sent[z] \/ sent'[z] = Append(sent[z], m)
    BY <2>1 DEF TypeOK
  <2>3. ASSUME NEW z \in Side PROVE Begins(sent'[Peer(z)], got[z], plaintext[z])
    <3>1. CASE sent'[Peer(z)] = sent[Peer(z)]
      BY <1>b, <3>1
    <3>2. CASE sent'[Peer(z)] = Append(sent[Peer(z)], m)
      <4>1. Begins(Append(sent[Peer(z)], m), got[z], plaintext[z])
        BY <1>a, <1>b, BeginsLonger
      <4> QED
        BY <3>2, <4>1
    <3> QED
      BY <1>a, <2>2, <3>1, <3>2
  <2> QED
    BY <2>1, <2>3 DEF ReceivedInOrder
<1>5. ASSUME NEW s \in Side, FeedRaises(s)
      PROVE  ReceivedInOrder'
  <2>1. \A z \in Side : plaintext'[z] = plaintext[z] \/ plaintext'[z] = <<>>
    BY <1>5 DEF FeedRaises, TypeOK
  <2> QED
    BY <1>1, <1>5, <2>1 DEF FeedRaises
<1>6. ASSUME NEW s \in Side, NEW n \in 1 .. Len(wire[s]), Feed(s, n)
      PROVE  ReceivedInOrder'
  BY <1>1, <1>6 DEF Feed, callerVars
<1>7. ASSUME NEW e \in Ephemerals, HandleClientHello(e)
      PROVE  ReceivedInOrder'
  BY <1>1, <1>7 DEF HandleClientHello, callerVars
<1>8. ASSUME NEW s \in Side, Close(s)
      PROVE  ReceivedInOrder'
  BY <1>1, <1>8 DEF Close
<1>9. CASE HandleServerHello \/ HandleServerAuth \/ SendClientHello \/ WireFault \/ UNCHANGED vars
  BY <1>1, <1>9
  DEF HandleServerHello, HandleServerAuth, SendClientHello, WireFault, Lose, Duplicate,
      Delay, Corrupt, Echo, Faulty, vars, callerVars
<1> QED
  BY <1>2, <1>3, <1>4, <1>5, <1>6, <1>7, <1>8, <1>9 DEF Next, FeedStep

-----------------------------------------------------------------------------
(* Authentication of the server *)

\* The client starts before ESTABLISHED.
LEMMA InitAuthentication == Init => ClientAuthenticatesServer
BY DEF Init, ClientAuthenticatesServer, Side

\* The record the client accepts is one this server made, over the key pair
\* the client knows to be its own and the one it was told is the server's.
LEMMA AcceptedServerAuth ==
    ASSUME TypeOK, FramesAreAuthentic, HandleServerAuth
    PROVE  /\ TrustedServer
           /\ state["server"] = "ESTABLISHED"
           /\ keys["server"] = DeriveSessionKeys({ephemeral["client"], server_ephemeral})
<1> DEFINE r == Head(records["client"])
<1>1. records["client"] # <<>> /\ VerifiesServer(r)
  BY DEF HandleServerAuth, Handling
<1>2. Authentic(r)
  <2>1. 1 \in DOMAIN records["client"] /\ r = records["client"][1]
    BY <1>1 DEF TypeOK, Side
  <2> QED
    BY <2>1 DEF FramesAreAuthentic, Side
<1>3. /\ r.intact /\ r.type = "auth" /\ VerifyServerCertificate(r)
      /\ r.signer = r.certificate.public_key
      /\ r.over = <<ephemeral["client"], server_ephemeral>>
  BY <1>1 DEF VerifiesServer
<1>4. r.over[1] = ephemeral["client"] /\ r.over[2] = server_ephemeral
  BY <1>3
<1>5. r.path_valid /\ r.certificate.dns_name = dns_name
  BY <1>3 DEF VerifyServerCertificate
<1> QED
  BY <1>2, <1>3, <1>4, <1>5 DEF Authentic, TrustedServer

\* Only _handle_server_auth establishes the client, and no step unsettles it.
LEMMA NextAuthentication ==
    ASSUME TypeOK, FramesAreAuthentic, ClientAuthenticatesServer, [Next]_vars
    PROVE  ClientAuthenticatesServer'
<1>1. ASSUME UNCHANGED handshakeVars
      PROVE  ClientAuthenticatesServer'
  BY <1>1 DEF handshakeVars, ClientAuthenticatesServer, TrustedServer
<1>2. ASSUME NEW e \in Ephemerals, HandleClientHello(e)
      PROVE  ClientAuthenticatesServer'
  <2>1. state["server"] # "ESTABLISHED" /\ state'["client"] = state["client"]
    BY <1>2 DEF HandleClientHello, Handling, TypeOK, Side
  <2> QED
    BY <2>1 DEF ClientAuthenticatesServer
<1>3. CASE HandleServerHello
  <2>1. state'["client"] = "WAIT_SERVER_AUTH"
    BY <1>3 DEF HandleServerHello, TypeOK, Side
  <2> QED
    BY <2>1 DEF ClientAuthenticatesServer
<1>4. CASE HandleServerAuth
  <2>1. /\ keys'["client"] = DeriveSessionKeys({ephemeral["client"], server_ephemeral})
        /\ keys'["server"] = keys["server"] /\ state'["server"] = state["server"]
        /\ UNCHANGED <<identity, dns_name>>
    BY <1>4 DEF HandleServerAuth, TypeOK, Side, identityVars
  <2> QED
    BY <1>4, <2>1, AcceptedServerAuth DEF ClientAuthenticatesServer, TrustedServer
<1>5. ASSUME NEW s \in Side, HandleApplicationRecord(s) \/ FeedRaises(s) \/ FeedReturns(s)
                                 \/ Close(s)
      PROVE  ClientAuthenticatesServer'
  BY <1>1, <1>5 DEF HandleApplicationRecord, FeedRaises, FeedReturns, Close
<1>6. ASSUME NEW s \in Side, NEW n \in 1 .. Len(wire[s]), Feed(s, n)
      PROVE  ClientAuthenticatesServer'
  BY <1>1, <1>6 DEF Feed
<1>7. ASSUME NEW s \in Side, NEW m \in Messages, SendApplicationData(s, m)
      PROVE  ClientAuthenticatesServer'
  BY <1>1, <1>7 DEF SendApplicationData
<1>8. CASE SendClientHello \/ WireFault \/ UNCHANGED vars
  BY <1>1, <1>8
  DEF SendClientHello, WireFault, Lose, Duplicate, Delay, Corrupt, Echo, Faulty, vars,
      handshakeVars
<1> QED
  BY <1>2, <1>3, <1>4, <1>5, <1>6, <1>7, <1>8 DEF Next, FeedStep

-----------------------------------------------------------------------------
(* A wire that delivers what was written.                                  *)

\* What is left of a stream when the next record of it is taken.
LEMMA ContinuesPopped ==
    ASSUME NEW S, NEW stream \in Seq(S), NEW q \in Seq(S), NEW n \in Nat,
           Continues(stream, n, q), q # <<>>
    PROVE  /\ n + 1 \in 1 .. Len(stream)
           /\ Head(q) = stream[n + 1]
           /\ Continues(stream, n + 1, Tail(q))
<1>1. Len(q) \in Nat \ {0} /\ Len(stream) = n + Len(q) /\ \A i \in 1 .. Len(q) : q[i] = stream[n + i]
  BY EmptySeq DEF Continues
<1>2. Head(q) = q[1] /\ Len(Tail(q)) = Len(q) - 1 /\ \A i \in 1 .. Len(q) - 1 : Tail(q)[i] = q[i + 1]
  BY <1>1
<1> HIDE DEF Continues
<1>3. \A i \in 1 .. Len(Tail(q)) : Tail(q)[i] = stream[n + 1 + i]
  <2> TAKE i \in 1 .. Len(Tail(q))
  <2>1. i + 1 \in 1 .. Len(q) /\ Tail(q)[i] = q[i + 1] /\ n + (i + 1) = n + 1 + i
    BY <1>1, <1>2
  <2> QED
    BY <1>1, <2>1
<1>4. 1 \in 1 .. Len(q) /\ Len(stream) = n + 1 + Len(Tail(q))
  BY <1>1, <1>2
<1> QED
  BY <1>1, <1>2, <1>3, <1>4 DEF Continues

\* What is written is the end of what is still to come.
LEMMA ContinuesLonger ==
    ASSUME NEW S, NEW stream \in Seq(S), NEW q \in Seq(S), NEW n \in Nat, NEW x \in S,
           Continues(stream, n, q)
    PROVE  Continues(Append(stream, x), n, Append(q, x))
<1>1. Len(stream) \in Nat /\ Len(q) \in Nat /\ Len(stream) = n + Len(q)
  BY DEF Continues
<1>2. Len(Append(stream, x)) = Len(stream) + 1 /\ Len(Append(q, x)) = Len(q) + 1
  OBVIOUS
<1>3. ASSUME NEW i \in 1 .. Len(Append(q, x))
      PROVE  Append(q, x)[i] = Append(stream, x)[n + i]
  <2>1. CASE i \in 1 .. Len(q)
    <3>1. n + i \in 1 .. Len(stream)
      BY <1>1, <2>1
    <3>2. Append(stream, x)[n + i] = stream[n + i] /\ Append(q, x)[i] = q[i]
      BY <2>1, <3>1
    <3> QED
      BY <2>1, <3>2 DEF Continues
  <2>2. CASE i = Len(q) + 1
    <3>1. n + i = Len(stream) + 1
      BY <1>1, <2>2
    <3>2. Append(stream, x)[Len(stream) + 1] = x /\ Append(q, x)[Len(q) + 1] = x
      OBVIOUS
    <3> QED
      BY <2>2, <3>1, <3>2
  <2> QED
    BY <1>1, <1>2, <2>1, <2>2
<1> DEFINE A == Append(stream, x)
           B == Append(q, x)
<1>4. Len(A) = n + Len(B) /\ \A i \in 1 .. Len(B) : B[i] = A[n + i]
  <2>1. Len(A) = Len(stream) + 1 /\ Len(B) = Len(q) + 1 /\ \A i \in 1 .. Len(B) : B[i] = A[n + i]
    BY <1>2, <1>3, Zenon
  <2> HIDE DEF A, B
  <2> QED
    BY <1>1, <2>1
<1> QED
  BY <1>4, Zenon DEF Continues

\* Feeding moves bytes from the wire to the records, sending from pending to
\* the wire; what is in flight stays.
LEMMA SplitWire ==
    ASSUME NEW S, NEW w \in Seq(S), NEW n \in 1 .. Len(w)
    PROVE  /\ SubSeq(w, 1, n) \in Seq(S) /\ SubSeq(w, n + 1, Len(w)) \in Seq(S)
           /\ w = SubSeq(w, 1, n) \o SubSeq(w, n + 1, Len(w))
OBVIOUS
LEMMA FlightFed ==
    ASSUME NEW S, NEW r \in Seq(S), NEW a \in Seq(S), NEW b \in Seq(S), NEW p \in Seq(S)
    PROVE  (r \o a) \o b \o p = r \o (a \o b) \o p
<1>1. (r \o a) \o b = r \o (a \o b)
  OBVIOUS
<1> QED
  BY <1>1, Zenon
LEMMA FlightSent ==
    ASSUME NEW S, NEW r \in Seq(S), NEW w \in Seq(S), NEW p \in Seq(S)
    PROVE  r \o (w \o p) \o <<>> = r \o w \o p
<1>1. r \o (w \o p) = r \o w \o p
  OBVIOUS
<1>2. r \o (w \o p) \in Seq(S)
  OBVIOUS
<1> QED
  BY <1>1, <1>2, ConcatEmptySeq, Zenon

\* A record written to the wire, with nothing pending, is the last in flight.
LEMMA FlightLonger ==
    ASSUME NEW S, NEW r \in Seq(S), NEW w \in Seq(S), NEW x \in S
    PROVE  r \o Append(w, x) \o <<>> = Append(r \o w \o <<>>, x)
<1>1. r \o Append(w, x) = Append(r \o w, x)
  OBVIOUS
<1>2. r \o w \in Seq(S) /\ Append(r \o w, x) \in Seq(S)
  OBVIOUS
<1> QED
  BY <1>1, <1>2, ConcatEmptySeq, Zenon

\* pop_record takes the first record in flight.
LEMMA FlightPopped ==
    ASSUME NEW S, NEW r \in Seq(S), NEW w \in Seq(S), NEW p \in Seq(S), r # <<>>
    PROVE  /\ r \o w \o p \in Seq(S) /\ r \o w \o p # <<>>
           /\ Head(r \o w \o p) = Head(r)
           /\ Tail(r \o w \o p) = Tail(r) \o w \o p
<1>1. ASSUME NEW q \in Seq(S)
      PROVE  r \o q \in Seq(S) /\ r \o q # <<>> /\ Head(r \o q) = Head(r) /\ Tail(r \o q) = Tail(r) \o q
  OBVIOUS
<1>2. w \o p \in Seq(S) /\ Tail(r) \in Seq(S)
  OBVIOUS
<1>3. ASSUME NEW a \in Seq(S)
      PROVE  a \o w \o p = a \o (w \o p)
  OBVIOUS
<1>4. r \o w \o p = r \o (w \o p) /\ Tail(r) \o w \o p = Tail(r) \o (w \o p)
  BY <1>2, <1>3, Zenon
<1>5. /\ r \o (w \o p) \in Seq(S) /\ r \o (w \o p) # <<>>
      /\ Head(r \o (w \o p)) = Head(r)
      /\ Tail(r \o (w \o p)) = Tail(r) \o (w \o p)
  BY <1>1, <1>2, Zenon
<1> QED
  BY <1>4, <1>5, Zenon

\* Short sequences.
LEMMA ShortSeq ==
    ASSUME NEW S, NEW a \in S, NEW b \in S
    PROVE  /\ <<>> \in Seq(S) /\ <<a>> \in Seq(S) /\ <<a, b>> \in Seq(S)
           /\ Len(<<>>) = 0 /\ Len(<<a>>) = 1 /\ Len(<<a, b>>) = 2
OBVIOUS

\* A sequence with one more element.
LEMMA GrownSequence ==
    ASSUME NEW S, NEW P \in Seq(S), NEW Q \in Seq(S), NEW f \in S, Len(Q) = Len(P) + 1,
           Q[Len(P) + 1] = f, \A i \in 1 .. Len(P) : Q[i] = P[i]
    PROVE  Q = Append(P, f)
<1> DEFINE A == Append(P, f)
<1>1. A \in Seq(S) /\ Len(A) = Len(P) + 1 /\ A[Len(P) + 1] = f /\ \A i \in 1 .. Len(P) : A[i] = P[i]
  BY AppendProperties
<1> HIDE DEF A
<1>2. Len(P) \in Nat
  OBVIOUS
<1>3. \A i \in 1 .. Len(Q) : Q[i] = A[i]
  BY <1>1, <1>2
<1>4. Q = A
  BY <1>1, <1>3, SeqEqual
<1> QED
  BY <1>4 DEF A
\* A function on 1 .. n is a sequence.
LEMMA FunctionIsSeq ==
    ASSUME NEW n \in Nat, NEW S, NEW P \in [1 .. n -> S]
    PROVE  P \in Seq(S) /\ Len(P) = n
OBVIOUS
LEMMA AppendOfConcat ==
    ASSUME NEW S, NEW T, NEW g \in Seq(S), NEW P \in Seq(T), NEW f
    PROVE  g \o Append(P, f) = Append(g \o P, f)
<1> DEFINE U == S \cup T \cup {f}
<1>1. g \in Seq(U) /\ P \in Seq(U) /\ f \in U
  BY SeqOfMembers, MembersOfSeq
<1> HIDE DEF U
<1> QED
  BY <1>1

\* The records a side writes are a sequence, whatever else they are.
LEMMA StreamIsSeq ==
    ASSUME TypeOK, NEW s \in Side
    PROVE  \E S : Frame \subseteq S /\ Stream(s) \in Seq(S)
<1> DEFINE a == HelloFrame(ephemeral[s])
           b == AuthFrame(ephemeral["client"], ephemeral["server"])
           P == ProtectedData(s)
           S == Frame \cup {HelloFrame(ephemeral["client"]), HelloFrame(ephemeral["server"]), b}
                    \cup {P[i] : i \in 1 .. Len(sent[s])}
<1>1. Len(sent[s]) \in Nat
  BY DEF TypeOK
<1>2. P \in Seq(S)
  <2>1. P \in [1 .. Len(sent[s]) -> S]
    BY DEF ProtectedData
  <2> QED
    BY <1>1, <2>1
<1>3. Greeting(s) \in Seq(S)
  <2>1. Greeting(s) \in {<<HelloFrame(ephemeral["client"])>>, <<HelloFrame(ephemeral["server"]), b>>, <<>>}
    BY DEF Greeting, Side
  <2>2. b \in S /\ HelloFrame(ephemeral["client"]) \in S /\ HelloFrame(ephemeral["server"]) \in S
    OBVIOUS
  <2> HIDE DEF P, S, b
  <2> QED
    BY <2>1, <2>2, ShortSeq
<1>4. Greeting(s) \o P \in Seq(S)
  <2> HIDE DEF S, P
  <2> QED
    BY <1>2, <1>3
<1> QED
  BY <1>4 DEF Stream

LEMMA GreetingIsSeq ==
    ASSUME NEW s \in Side
    PROVE  \E S : Greeting(s) \in Seq(S)
<1> DEFINE h == HelloFrame(ephemeral["client"])
           k == HelloFrame(ephemeral["server"])
           b == AuthFrame(ephemeral["client"], ephemeral["server"])
           S == {h, k, b}
<1>1. Greeting(s) \in {<<h>>, <<k, b>>, <<>>} /\ h \in S /\ k \in S /\ b \in S
  BY DEF Greeting, Side
<1> HIDE DEF S, h, k, b
<1>2. Greeting(s) \in Seq(S)
  BY <1>1, ShortSeq
<1> QED
  BY <1>2

\* What is in flight are frames.
LEMMA FlightIsSeq ==
    ASSUME TypeOK, NEW s \in Side
    PROVE  /\ records[s] \in Seq(Frame) /\ wire[s] \in Seq(Frame) /\ pending_wire[Peer(s)] \in Seq(Frame)
           /\ InFlight(s) \in Seq(Frame)
<1>1. Peer(s) \in Side
  BY DEF Peer, Side
<1>2. records[s] \in Seq(Frame) /\ wire[s] \in Seq(Frame) /\ pending_wire[Peer(s)] \in Seq(Frame)
  BY <1>1 DEF TypeOK
<1> HIDE DEF Frame
<1> QED
  BY <1>2, ConcatOfSeq DEF InFlight

\* A handshake is at most two records.
LEMMA GreetingLength ==
    ASSUME NEW s \in Side
    PROVE  /\ Len(Greeting("client")) = 1
           /\ state["server"] = "ESTABLISHED" => Len(Greeting("server")) = 2
           /\ Len(Greeting(Peer(s))) \in Nat
BY DEF Greeting, Peer, Side

LEMMA HandledIsNat ==
    ASSUME TypeOK, NEW s \in Side
    PROVE  Handled(s) \in Nat
<1>1. recv_seq[s] \in Nat /\ state[s] \in HandshakeStates
  BY DEF TypeOK
<1> QED
  BY <1>1, GreetingLength DEF Handled, HandshakeStates

\* What the wire does for a side that is open and whose peer has not failed.
Flows(s) == Continues(Stream(Peer(s)), Handled(s), InFlight(s))
IsUp(s) == status[s] = "open" /\ status[Peer(s)] # "failed"

\* The record a handler takes is the next one its peer wrote.
LEMMA NextRecord ==
    ASSUME TypeOK, NEW s \in Side, Flows(s), records[s] # <<>>
    PROVE  /\ Handled(s) + 1 \in 1 .. Len(Stream(Peer(s)))
           /\ Head(records[s]) = Stream(Peer(s))[Handled(s) + 1]
           /\ Continues(Stream(Peer(s)), Handled(s) + 1, Tail(records[s]) \o wire[s] \o pending_wire[Peer(s)])
<1>1. Peer(s) \in Side
  BY DEF Peer, Side
<1>2. PICK S : Frame \subseteq S /\ Stream(Peer(s)) \in Seq(S)
  BY <1>1, StreamIsSeq
<1>3. /\ records[s] \in Seq(Frame) /\ wire[s] \in Seq(Frame) /\ pending_wire[Peer(s)] \in Seq(Frame)
      /\ InFlight(s) \in Seq(Frame)
  BY FlightIsSeq
<1>4. InFlight(s) \in Seq(S)
  BY <1>2, <1>3, SeqOfMembers, MembersOfSeq
<1>5. /\ InFlight(s) # <<>> /\ Head(InFlight(s)) = Head(records[s])
      /\ Tail(InFlight(s)) = Tail(records[s]) \o wire[s] \o pending_wire[Peer(s)]
  <2> DEFINE r == records[s]
             w == wire[s]
             p == pending_wire[Peer(s)]
  <2>1. InFlight(s) = r \o w \o p
    BY DEF InFlight
  <2>2. r \in Seq(Frame) /\ w \in Seq(Frame) /\ p \in Seq(Frame) /\ r # <<>>
    BY <1>3
  <2>3. /\ r \o w \o p # <<>> /\ Head(r \o w \o p) = Head(r)
        /\ Tail(r \o w \o p) = Tail(r) \o w \o p
    <3> HIDE DEF r, w, p
    <3> QED
      BY <2>2, FlightPopped
  <2> QED
    BY <2>1, <2>3
<1>6. Handled(s) \in Nat
  BY HandledIsNat
<1>7. /\ Handled(s) + 1 \in 1 .. Len(Stream(Peer(s)))
      /\ Head(InFlight(s)) = Stream(Peer(s))[Handled(s) + 1]
      /\ Continues(Stream(Peer(s)), Handled(s) + 1, Tail(InFlight(s)))
  BY <1>2, <1>4, <1>5, <1>6, ContinuesPopped DEF Flows
<1> QED
  BY <1>5, <1>7

\* The handshake comes first, then the data in the order it was sent.
LEMMA RecordOfStream ==
    ASSUME TypeOK, NEW s \in Side, NEW i \in 1 .. Len(Stream(s))
    PROVE  /\ i <= Len(Greeting(s)) => Stream(s)[i] = Greeting(s)[i]
           /\ i > Len(Greeting(s)) =>
                  /\ i - Len(Greeting(s)) \in 1 .. Len(sent[s])
                  /\ Stream(s)[i] = ProtectRecord(keys[s][s], i - Len(Greeting(s)) - 1,
                                                  sent[s][i - Len(Greeting(s))])
<1> DEFINE g == Len(Greeting(s))
           P == ProtectedData(s)
<1>1. Len(sent[s]) \in Nat
  BY DEF TypeOK
<1>2. g \in Nat /\ \E S : Greeting(s) \in Seq(S)
  <2> DEFINE h == HelloFrame(ephemeral["client"])
             k == HelloFrame(ephemeral["server"])
             b == AuthFrame(ephemeral["client"], ephemeral["server"])
             S == {h, k, b}
  <2>1. Greeting(s) \in {<<h>>, <<k, b>>, <<>>}
    BY DEF Greeting, Side
  <2>2. h \in S /\ k \in S /\ b \in S
    OBVIOUS
  <2> HIDE DEF S, h, k, b
  <2>3. Greeting(s) \in Seq(S) /\ g \in Nat
    BY <2>1, <2>2, ShortSeq
  <2> QED
    BY <2>3
<1>3. Len(P) = Len(sent[s]) /\ \E S : P \in Seq(S)
  <2>1. P \in [1 .. Len(sent[s]) -> {P[j] : j \in 1 .. Len(sent[s])}]
    BY DEF ProtectedData
  <2>2. P \in Seq({P[j] : j \in 1 .. Len(sent[s])})
    <3> HIDE DEF P
    <3> QED
      BY <1>1, <2>1
  <2>3. DOMAIN P = 1 .. Len(sent[s])
    BY DEF ProtectedData
  <2> QED
    <3> HIDE DEF P
    <3> QED
      BY <1>1, <2>2, <2>3, LenProperties
<1>4. PICK S, T : Greeting(s) \in Seq(S) /\ P \in Seq(T)
  BY <1>2, <1>3
<1>5. /\ Len(Greeting(s) \o P) = g + Len(P)
      /\ \A j \in 1 .. g : (Greeting(s) \o P)[j] = Greeting(s)[j]
      /\ \A j \in g + 1 .. g + Len(P) : (Greeting(s) \o P)[j] = P[j - g]
  <2>1. Greeting(s) \in Seq(S \cup T) /\ P \in Seq(S \cup T)
    <3> HIDE DEF P
    <3> QED
      BY <1>4, SeqOfMembers, MembersOfSeq
  <2> HIDE DEF P
  <2> QED
    BY <2>1
<1>6. \A j \in 1 .. Len(sent[s]) : P[j] = ProtectRecord(keys[s][s], j - 1, sent[s][j])
  BY DEF ProtectedData
<1>7. Stream(s) = Greeting(s) \o P
  BY DEF Stream
<1> HIDE DEF P, g
<1>8. i \in 1 .. g + Len(sent[s])
  BY <1>3, <1>5, <1>7
<1>9. i <= g => Stream(s)[i] = Greeting(s)[i]
  BY <1>2, <1>5, <1>7, <1>8
<1>10. ASSUME i > g
       PROVE  /\ i - g \in 1 .. Len(sent[s])
              /\ Stream(s)[i] = ProtectRecord(keys[s][s], i - g - 1, sent[s][i - g])
  <2>1. i \in g + 1 .. g + Len(P) /\ i - g \in 1 .. Len(sent[s])
    BY <1>1, <1>2, <1>3, <1>8, <1>10
  <2>2. Stream(s)[i] = P[i - g]
    BY <1>5, <1>7, <2>1, Zenon
  <2> QED
    BY <1>6, <2>1, <2>2
<1> QED
  BY <1>9, <1>10 DEF g

\* What a side writes is the same as long as its handshake and data are.
LEMMA StreamStays ==
    ASSUME TypeOK, NEW s \in Side, UNCHANGED <<identity, ephemeral>>, sent'[s] = sent[s],
           state'["server"] = "ESTABLISHED" <=> state["server"] = "ESTABLISHED",
           keys'[s][s] = keys[s][s] \/ sent[s] = <<>>
    PROVE  Stream(s)' = Stream(s) /\ Greeting(s)' = Greeting(s)
<1>1. Greeting(s)' = Greeting(s)
  BY DEF Greeting, HelloFrame, AuthFrame
<1>2. ProtectedData(s)' = ProtectedData(s)
  <2>1. CASE sent[s] = <<>>
    BY <2>1 DEF ProtectedData
  <2>2. CASE keys'[s][s] = keys[s][s]
    BY <2>2 DEF ProtectedData
  <2> QED
    BY <2>1, <2>2
<1> QED
  BY <1>1, <1>2 DEF Stream

\* And the records it handles, as long as its state and counter are.
LEMMA FlowsOn ==
    ASSUME NEW s \in Side, Flows(s), Stream(Peer(s))' = Stream(Peer(s)),
           Handled(s)' = Handled(s), InFlight(s)' = InFlight(s)
    PROVE  Flows(s)'
BY DEF Flows
LEMMA HandledStays ==
    ASSUME NEW s \in Side, recv_seq'[s] = recv_seq[s], state'[s] = state[s],
           Greeting(Peer(s))' = Greeting(Peer(s))
    PROVE  Handled(s)' = Handled(s)
BY DEF Handled

\* The next record handled is one less in flight.
LEMMA FlowsPopped ==
    ASSUME TypeOK, NEW s \in Side, Flows(s), records[s] # <<>>,
           PopRecord(s), UNCHANGED <<wire, pending_wire[Peer(s)]>>,
           Stream(Peer(s))' = Stream(Peer(s)), Handled(s)' = Handled(s) + 1
    PROVE  Flows(s)'
<1>1. records'[s] = Tail(records[s])
  BY DEF PopRecord, TypeOK
<1>2. InFlight(s)' = Tail(records[s]) \o wire[s] \o pending_wire[Peer(s)]
  BY <1>1 DEF InFlight
<1>3. Continues(Stream(Peer(s)), Handled(s) + 1, Tail(records[s]) \o wire[s] \o pending_wire[Peer(s)])
  BY NextRecord
<1> QED
  BY <1>2, <1>3 DEF Flows

\* What holds of the sides that are still up holds of the wire.
KeyIsKnown ==
    state["client"] = "WAIT_SERVER_AUTH" /\ status["server"] # "failed" =>
        state["server"] = "ESTABLISHED" /\ server_ephemeral = ephemeral["server"]
LEMMA WireIsFlow == WireIsStream <=> (faults = 0 => (\A s \in Side : IsUp(s) => Flows(s)) /\ KeyIsKnown)
BY DEF WireIsStream, IsUp, Flows, KeyIsKnown
LEMMA WireIsFlowNext == WireIsStream' <=> (faults = 0 => (\A s \in Side : IsUp(s) => Flows(s)) /\ KeyIsKnown)'
BY WireIsFlow, PTL

\* The client's first bytes.
LEMMA SendKeepsWire ==
    ASSUME TypeOK, NEW s \in Side, NEW z \in Side, Flows(z),
           wire' = [wire EXCEPT ![Peer(s)] = @ \o pending_wire[s]],
           pending_wire' = [pending_wire EXCEPT ![s] = <<>>],
           UNCHANGED <<handshakeVars, recv_seq, records, sent>>
    PROVE  Flows(z)'
<1>1. Peer(z) \in Side /\ Peer(s) \in Side
  BY DEF Peer, Side
<1>2. Stream(Peer(z))' = Stream(Peer(z)) /\ Handled(z)' = Handled(z)
  BY <1>1, StreamStays, HandledStays DEF handshakeVars
<1>3. InFlight(z)' = InFlight(z)
  <2>1. CASE z = s
    <3>1. wire'[z] = wire[z] /\ pending_wire'[Peer(z)] = pending_wire[Peer(z)]
      BY <1>1, <2>1 DEF TypeOK, Peer, Side
    <3> QED
      BY <3>1 DEF InFlight
  <2>2. CASE z = Peer(s)
    <3>1. Peer(z) = s
      BY <2>2 DEF Peer, Side
    <3>2. wire'[z] = wire[z] \o pending_wire[Peer(z)] /\ pending_wire'[Peer(z)] = <<>>
      BY <1>1, <2>2, <3>1 DEF TypeOK
    <3> DEFINE r == records[z]
               w == wire[z]
               p == pending_wire[Peer(z)]
    <3>3. r \in Seq(Frame) /\ w \in Seq(Frame) /\ p \in Seq(Frame)
      BY FlightIsSeq
    <3>4. r \o (w \o p) \o <<>> = r \o w \o p
      <4> HIDE DEF r, w, p
      <4> QED
        BY <3>3, FlightSent
    <3> QED
      BY <3>2, <3>4 DEF InFlight
  <2> QED
    BY <2>1, <2>2 DEF Peer, Side
<1> QED
  BY <1>2, <1>3, FlowsOn

\* recv() and feed_wire_data's feed().
LEMMA FeedKeepsWire ==
    ASSUME TypeOK, NEW s \in Side, NEW n \in 1 .. Len(wire[s]), Feed(s, n), NEW z \in Side, Flows(z)
    PROVE  Flows(z)'
<1>1. Peer(z) \in Side
  BY DEF Peer, Side
<1>2. Stream(Peer(z))' = Stream(Peer(z)) /\ Handled(z)' = Handled(z)
  BY <1>1, StreamStays, HandledStays DEF Feed, handshakeVars, callerVars
<1>3. InFlight(z)' = InFlight(z)
  <2>1. CASE z = s
    <3> DEFINE r == records[z]
               a == SubSeq(wire[z], 1, n)
               b == SubSeq(wire[z], n + 1, Len(wire[z]))
               p == pending_wire[Peer(z)]
    <3>1. /\ records'[z] = r \o a /\ wire'[z] = b
          /\ pending_wire' = pending_wire
      BY <2>1 DEF Feed, TypeOK
    <3>2. r \in Seq(Frame) /\ wire[z] \in Seq(Frame) /\ p \in Seq(Frame) /\ n \in 1 .. Len(wire[z])
      BY <2>1, FlightIsSeq
    <3>3. a \in Seq(Frame) /\ b \in Seq(Frame) /\ wire[z] = a \o b
      BY <3>2, SplitWire
    <3>4. (r \o a) \o b \o p = r \o (a \o b) \o p
      <4>1. r \in Seq(Frame) /\ a \in Seq(Frame) /\ b \in Seq(Frame) /\ p \in Seq(Frame)
        BY <3>2, <3>3
      <4> HIDE DEF r, a, b, p
      <4> QED
        <5>1. (r \o a) \o b = r \o (a \o b)
          BY <4>1
        <5> QED
          BY <5>1, Zenon
    <3> QED
      BY <3>1, <3>3, <3>4, Zenon DEF InFlight
  <2>2. CASE z # s
    <3>1. records'[z] = records[z] /\ wire'[z] = wire[z] /\ pending_wire' = pending_wire
      BY <2>2 DEF Feed, TypeOK
    <3> QED
      BY <3>1 DEF InFlight
  <2> QED
    BY <2>1, <2>2
<1> QED
  BY <1>2, <1>3, FlowsOn

\* protect_application_data and the send of its frame.
LEMMA DataKeepsWire ==
    ASSUME TypeOK, KeysMatchState, CountersMatchStreams, PendingIsFlushed,
           NEW s \in Side, NEW m \in Messages, SendApplicationData(s, m), NEW z \in Side, Flows(z)
    PROVE  Flows(z)'
<1>1. Peer(z) \in Side /\ Peer(s) \in Side
  BY DEF Peer, Side
<1>2. \A x \in Side : Greeting(x)' = Greeting(x)
  BY DEF SendApplicationData, handshakeVars, Greeting, HelloFrame, AuthFrame
<1>3. Handled(z)' = Handled(z)
  BY <1>1, <1>2, HandledStays DEF SendApplicationData, handshakeVars
<1>4. CASE z = s
  <2>1. sent'[Peer(z)] = sent[Peer(z)] /\ wire'[z] = wire[z]
    BY <1>1, <1>4 DEF SendApplicationData, TypeOK, Peer, Side
  <2>2. Stream(Peer(z))' = Stream(Peer(z))
    BY <1>1, <2>1, StreamStays DEF SendApplicationData, handshakeVars
  <2>3. InFlight(z)' = InFlight(z)
    BY <2>1 DEF InFlight, SendApplicationData
  <2> QED
    BY <1>3, <2>2, <2>3, FlowsOn
<1>5. CASE z = Peer(s)
  <2> DEFINE f == ProtectRecord(keys[s][s], send_seq[s], m)
             P == ProtectedData(s)
  <2>1. Peer(z) = s
    BY <1>5 DEF Peer, Side
  <2>2. pending_wire[s] = <<>> /\ pending_wire' = pending_wire /\ records' = records
    BY DEF SendApplicationData, PendingIsFlushed, Side
  <2>3. wire'[z] = Append(wire[z], f)
    BY <1>1, <1>5 DEF SendApplicationData, TypeOK
  <2>4. Len(sent[s]) \in Nat /\ send_seq[s] = Len(sent[s]) /\ sent[s] \in Seq(Messages)
    BY DEF TypeOK, CountersMatchStreams
  <2>5. ProtectedData(s)' = Append(P, f)
    <3>1. sent'[s] = Append(sent[s], m) /\ keys' = keys
      BY DEF SendApplicationData, TypeOK, handshakeVars
    <3>2. Len(sent'[s]) = Len(sent[s]) + 1 /\ sent'[s][Len(sent[s]) + 1] = m
          /\ \A i \in 1 .. Len(sent[s]) : sent'[s][i] = sent[s][i]
      BY <2>4, <3>1
    <3> DEFINE Q == ProtectedData(s)'
               k == Len(sent[s])
               S == {P[i] : i \in 1 .. k} \cup {f}
    <3>3. Q = [i \in 1 .. k + 1 |-> ProtectRecord(keys[s][s], i - 1, sent'[s][i])]
      BY <3>1, <3>2 DEF ProtectedData
    <3>4. Q[k + 1] = f
      BY <2>4, <3>2, <3>3
    <3>5. \A i \in 1 .. k : Q[i] = P[i]
      BY <2>4, <3>2, <3>3 DEF ProtectedData
    <3>6. P \in [1 .. k -> S]
      BY DEF ProtectedData
    <3>7. Q \in [1 .. k + 1 -> S]
      <4>1. \A i \in 1 .. k + 1 : Q[i] \in S
        <5>1. f \in S /\ \A i \in 1 .. k : P[i] \in S
          OBVIOUS
        <5> HIDE DEF Q, P, f, S
        <5> QED
          BY <2>4, <3>4, <3>5, <5>1
      <4>2. Q = [i \in 1 .. k + 1 |-> Q[i]]
        BY <3>3
      <4> HIDE DEF Q, S
      <4> QED
        BY <4>1, <4>2
    <3>8. Q = Append(P, f)
      <4>1. f \in S
        OBVIOUS
      <4> HIDE DEF Q, P, f, S
      <4>2. P \in Seq(S) /\ Len(P) = k /\ Q \in Seq(S) /\ Len(Q) = k + 1
        BY <2>4, <3>6, <3>7, FunctionIsSeq
      <4> QED
        BY <3>4, <3>5, <4>1, <4>2, GrownSequence
    <3> QED
      BY <3>8
  <2>6. Stream(s)' = Append(Stream(s), f)
    <3>1. PICK S : Greeting(s) \in Seq(S)
      BY GreetingIsSeq
    <3>2. P \in Seq({P[i] : i \in 1 .. Len(sent[s])})
      <4>1. P = [i \in 1 .. Len(sent[s]) |-> P[i]]
        BY DEF ProtectedData
      <4> HIDE DEF P
      <4> QED
        BY <2>4, <4>1
    <3>3. Greeting(s) \o Append(P, f) = Append(Greeting(s) \o P, f)
      <4> HIDE DEF P, f
      <4> QED
        BY <3>1, <3>2, AppendOfConcat
    <3> QED
      BY <1>2, <2>5, <3>3, Zenon DEF Stream
  <2>7. InFlight(z)' = Append(InFlight(z), f)
    <3> DEFINE r == records[z]
               w == wire[z]
    <3>1. InFlight(z) = r \o w \o <<>> /\ InFlight(z)' = r \o Append(w, f) \o <<>>
      BY <2>1, <2>2, <2>3 DEF InFlight
    <3>2. r \in Seq(Frame \cup {f}) /\ w \in Seq(Frame \cup {f}) /\ f \in Frame \cup {f}
      BY FlightIsSeq, SeqOfMembers, MembersOfSeq
    <3> HIDE DEF r, w, f
    <3> QED
      BY <3>1, <3>2, FlightLonger
  <2>8. Continues(Append(Stream(s), f), Handled(z), Append(InFlight(z), f))
    <3>1. PICK S : Frame \subseteq S /\ Stream(s) \in Seq(S)
      BY StreamIsSeq
    <3>2. /\ Stream(s) \in Seq(S \cup {f}) /\ InFlight(z) \in Seq(S \cup {f}) /\ f \in S \cup {f}
          /\ Handled(z) \in Nat /\ Continues(Stream(s), Handled(z), InFlight(z))
      <4>1. InFlight(z) \in Seq(Frame)
        BY FlightIsSeq
      <4> HIDE DEF f
      <4> QED
        BY <2>1, <3>1, <4>1, HandledIsNat, SeqOfMembers, MembersOfSeq DEF Flows
    <3> HIDE DEF f
    <3> QED
      BY <3>2, ContinuesLonger
  <2> QED
    BY <1>3, <2>1, <2>6, <2>7, <2>8 DEF Flows
<1> QED
  BY <1>4, <1>5 DEF Peer, Side

\* What the sides are up to when a step begins and ends.
LEMMA UpBefore ==
    ASSUME NEW z \in Side, \A s \in Side : status[s] = "failed" => status'[s] = "failed",
           \A s \in Side : status'[s] = "open" => status[s] = "open", IsUp(z)'
    PROVE  IsUp(z)
BY DEF IsUp, Peer, Side

\* Of a connection that has not been accepted nothing has been received.
LEMMA NoDataYet ==
    ASSUME TypeOK, KeysMatchState, CountersMatchStreams, NEW s \in Side,
           state[s] # "ESTABLISHED", feeding[s]
    PROVE  recv_seq[s] = 0 /\ sent[s] = <<>>
<1>1. got[s] = <<>> /\ plaintext[s] = <<>> /\ sent[s] = <<>> /\ status[s] = "open"
  BY DEF KeysMatchState, CountersMatchStreams
<1>2. Len(got[s]) = 0 /\ Len(plaintext[s]) = 0
  BY <1>1
<1>3. recv_seq[s] = Len(got[s]) + Len(plaintext[s])
  BY <1>1 DEF CountersMatchStreams
<1>4. recv_seq[s] = 0
  BY <1>2, <1>3
<1> QED
  BY <1>1, <1>4

\* The peer's first record is its hello.
LEMMA FirstRecord ==
    ASSUME TypeOK, KeysMatchState, NEW s \in Side, Flows(s), records[s] # <<>>, Handled(s) = 0
    PROVE  /\ Head(records[s]) = HelloFrame(ephemeral[Peer(s)])
           /\ Peer(s) = "server" => state["server"] = "ESTABLISHED"
<1>1. 1 \in 1 .. Len(Stream(Peer(s))) /\ Head(records[s]) = Stream(Peer(s))[1] /\ Peer(s) \in Side
  BY NextRecord DEF Peer, Side
<1>2. CASE Greeting(Peer(s)) # <<>>
  <2>1. Greeting(Peer(s))[1] = HelloFrame(ephemeral[Peer(s)]) /\ Len(Greeting(Peer(s))) \in {1, 2}
    BY <1>1, <1>2 DEF Greeting, Side
  <2>2. Stream(Peer(s))[1] = Greeting(Peer(s))[1]
    BY <1>1, <2>1, RecordOfStream
  <2>3. Peer(s) = "server" => state["server"] = "ESTABLISHED"
    BY <1>2 DEF Greeting
  <2> QED
    BY <1>1, <2>1, <2>2, <2>3
<1>3. Greeting(Peer(s)) # <<>>
  <2> SUFFICES ASSUME Greeting(Peer(s)) = <<>> PROVE FALSE
    OBVIOUS
  <2>1. state[Peer(s)] # "ESTABLISHED"
    BY <1>1 DEF Greeting, Side
  <2>2. Len(sent[Peer(s)]) = 0
    BY <1>1, <2>1 DEF KeysMatchState
  <2>3. Len(Greeting(Peer(s))) = 0
    OBVIOUS
  <2>4. 1 - Len(Greeting(Peer(s))) \in 1 .. Len(sent[Peer(s)])
    BY <1>1, <2>3, RecordOfStream
  <2> QED
    BY <2>2, <2>3, <2>4
<1> QED
  BY <1>2, <1>3

\* _handle_client_hello: the hello is the next record of the client's, and the
\* server's handshake the first two of its own.
LEMMA ClientHelloKeepsWire ==
    ASSUME TypeOK, KeysMatchState, CountersMatchStreams, ClientAuthenticatesServer, WireIsStream,
           faults = 0, NEW e \in Ephemerals, HandleClientHello(e)
    PROVE  WireIsStream'
<1> DEFINE r == Head(records["server"])
           h == HelloFrame(e)
           b == AuthFrame(r.eph, e)
<1>1. /\ feeding["server"] /\ records["server"] # <<>> /\ state["server"] = "WAIT_CLIENT_HELLO"
      /\ pending_wire' = [pending_wire EXCEPT !["server"] = @ \o <<h, b>>]
      /\ keys' = [keys EXCEPT !["server"] = DeriveSessionKeys({r.eph, e})]
      /\ ephemeral' = [ephemeral EXCEPT !["server"] = e]
      /\ state' = [state EXCEPT !["server"] = "ESTABLISHED"]
      /\ PopRecord("server")
      /\ UNCHANGED <<identity, server_ephemeral, recv_seq, wire, faults, status, sent>>
  BY DEF HandleClientHello, Handling, identityVars, netVars, callerVars
<1>2. status["server"] = "open" /\ recv_seq["server"] = 0 /\ sent["server"] = <<>>
  BY <1>1, NoDataYet DEF CountersMatchStreams, Side
<1>3. Greeting("server") = <<>>
  BY <1>1 DEF Greeting
<1>4. Stream("server") = <<>>
  <2>1. ProtectedData("server") = <<>>
    BY <1>2 DEF ProtectedData
  <2> QED
    BY <1>3, <2>1 DEF Stream
<1>5. Stream("client")' = Stream("client") /\ Greeting("client")' = Greeting("client")
  <2>1. Greeting("client")' = Greeting("client")
    BY <1>1 DEF Greeting, TypeOK, Side
  <2>2. ProtectedData("client")' = ProtectedData("client")
    BY <1>1 DEF ProtectedData, TypeOK, Side
  <2> QED
    BY <2>1, <2>2 DEF Stream
<1>6. ASSUME IsUp("server")'
      PROVE  Flows("server")'
  <2>1. Flows("server")
    BY <1>1, <1>6, WireIsFlow DEF IsUp, Side, Peer
  <2>2. Handled("server") = 0 /\ Handled("server")' = 1
    <3>1. state'["server"] = "ESTABLISHED" /\ recv_seq'["server"] = 0
      BY <1>1, <1>2 DEF TypeOK, Side
    <3>2. Handled("server") = 0
      BY <1>1, <1>2 DEF Handled
    <3>3. Len(Greeting("client")') = 1
      BY DEF Greeting
    <3>4. Handled("server")' = 0 + Len(Greeting("client")')
      BY <3>1 DEF Handled, Peer
    <3>5. 0 + Len(Greeting("client")') = 1
      BY <3>3
    <3> QED
      BY <3>2, <3>4, <3>5, Zenon
  <2>3. "server" \in Side /\ Peer("server") = "client"
    BY DEF Side, Peer
  <2>4. UNCHANGED <<wire, pending_wire["client"]>>
    BY <1>1 DEF TypeOK, Side
  <2>5. Handled("server")' = Handled("server") + 1
    BY <2>2
  <2> QED
    BY <1>1, <1>5, <2>1, <2>3, <2>4, <2>5, FlowsPopped
<1>7. ASSUME IsUp("client")'
      PROVE  Flows("client")'
  <2>1. Flows("client") /\ Flows("server")
    BY <1>1, <1>2, <1>7, WireIsFlow DEF IsUp, Side, Peer
  <2>2. Handled("client") = 0 /\ InFlight("client") = <<>>
    <3>1. Handled("client") \in Nat /\ InFlight("client") \in Seq(Frame)
      BY HandledIsNat, FlightIsSeq DEF Side
    <3>2. 0 = Handled("client") + Len(InFlight("client")) /\ Len(InFlight("client")) \in Nat
      BY <1>4, <2>1, <3>1 DEF Flows, Peer, Continues
    <3> QED
      BY <3>1, <3>2, EmptySeq
  <2>3. state["client"] # "ESTABLISHED" /\ Handled("client")' = 0
    <3>1. state["client"] # "ESTABLISHED"
      BY <1>1 DEF ClientAuthenticatesServer
    <3>2. state'["client"] = state["client"] /\ recv_seq'["client"] = recv_seq["client"]
      BY <1>1 DEF TypeOK, Side
    <3>3. Handled("client")' = Handled("client")
      <4>1. state["client"] \in HandshakeStates \ {"ESTABLISHED"}
        BY <3>1 DEF TypeOK, Side
      <4> QED
        BY <3>2, <4>1 DEF Handled, HandshakeStates
    <3> QED
      BY <2>2, <3>1, <3>3
  <2>4. r.eph = ephemeral["client"]
    <3>1. Handled("server") = 0
      BY <1>1, <1>2 DEF Handled
    <3>2. r = HelloFrame(ephemeral["client"])
      BY <1>1, <2>1, <3>1, FirstRecord DEF Side, Peer
    <3> QED
      BY <3>2 DEF HelloFrame
  <2>5. Stream("server")' = <<h, b>>
    <3>1. ProtectedData("server")' = <<>>
      BY <1>1, <1>2 DEF ProtectedData
    <3>2. Greeting("server")' = <<h, b>>
      <4>1. state'["server"] = "ESTABLISHED" /\ ephemeral'["server"] = e
            /\ ephemeral'["client"] = ephemeral["client"]
        BY <1>1 DEF TypeOK, Side
      <4> QED
        BY <1>1, <2>4, <4>1 DEF Greeting, AuthFrame, HelloFrame
    <3>3. <<h, b>> \o <<>> = <<h, b>>
      <4> HIDE DEF h, b
      <4> QED
        OBVIOUS
    <3> QED
      BY <3>1, <3>2, <3>3 DEF Stream
  <2>6. InFlight("client")' = <<h, b>>
    <3> DEFINE x == records["client"]
               w == wire["client"]
               p == pending_wire["server"]
               S == Frame \cup {h, b}
    <3>1. x \in Seq(Frame) /\ w \in Seq(Frame) /\ p \in Seq(Frame)
      BY FlightIsSeq DEF Side, Peer
    <3>2. x \in Seq(S) /\ w \in Seq(S) /\ p \in Seq(S) /\ <<h, b>> \in Seq(S)
      <4>1. h \in S /\ b \in S
        OBVIOUS
      <4> HIDE DEF h, b
      <4> QED
        BY <3>1, <4>1, SeqOfMembers, MembersOfSeq, ShortSeq
    <3>3. x \o w \o p = <<>>
      BY <2>2 DEF InFlight, Peer
    <3>4. records'["client"] = x /\ wire'["client"] = w /\ pending_wire'["server"] = p \o <<h, b>>
      BY <1>1 DEF TypeOK, Side, PopRecord
    <3>5. InFlight("client")' = x \o w \o (p \o <<h, b>>)
      BY <3>4 DEF InFlight, Peer
    <3> DEFINE hb == <<h, b>>
    <3>6. x \o w \o (p \o hb) = (x \o w \o p) \o hb
      <4>1. x \in Seq(S) /\ w \in Seq(S) /\ p \in Seq(S) /\ hb \in Seq(S)
        BY <3>2
      <4> HIDE DEF x, w, p, hb, S
      <4> QED
        BY <4>1, SMT
    <3>7. <<>> \o hb = hb
      <4>1. hb \in Seq(S)
        BY <3>2
      <4> HIDE DEF hb, S
      <4> QED
        BY <4>1, ConcatEmptySeq
    <3> QED
      BY <3>3, <3>5, <3>6, <3>7, Zenon
  <2>7. Continues(<<h, b>>, 0, <<h, b>>)
    BY DEF Continues
  <2> QED
    BY <2>3, <2>5, <2>6, <2>7, Zenon DEF Flows, Peer
<1>8. KeyIsKnown'
  BY <1>1, <1>2, WireIsFlow DEF KeyIsKnown, TypeOK, Side
<1> QED
  BY <1>1, <1>6, <1>7, <1>8, WireIsFlowNext DEF Side

\* _handle_server_hello.
LEMMA ServerHelloKeepsWire ==
    ASSUME TypeOK, KeysMatchState, CountersMatchStreams, WireIsStream, faults = 0, HandleServerHello
    PROVE  WireIsStream'
<1>1. /\ feeding["client"] /\ records["client"] # <<>> /\ state["client"] = "WAIT_SERVER_HELLO"
      /\ server_ephemeral' = Head(records["client"]).eph
      /\ state' = [state EXCEPT !["client"] = "WAIT_SERVER_AUTH"]
      /\ PopRecord("client")
      /\ UNCHANGED <<identity, ephemeral, keys, recv_seq, pending_wire, wire, faults, status, sent>>
  BY DEF HandleServerHello, Handling, identityVars, netVars, callerVars
<1>2. status["client"] = "open" /\ recv_seq["client"] = 0
  BY <1>1, NoDataYet DEF CountersMatchStreams, Side
<1>3. ASSUME NEW z \in Side
      PROVE  Stream(z)' = Stream(z) /\ Greeting(z)' = Greeting(z)
  <2>1. state'["server"] = state["server"]
    BY <1>1 DEF TypeOK, Side
  <2> QED
    BY <1>1, <2>1, StreamStays
<1>4. Handled("client") = 0 /\ Handled("client")' = 0 + 1
  <2>1. state'["client"] = "WAIT_SERVER_AUTH" /\ recv_seq'["client"] = 0
    BY <1>1, <1>2 DEF TypeOK, Side
  <2> QED
    BY <1>1, <1>2, <2>1 DEF Handled
<1>5. Peer("client") = "server" /\ Peer("server") = "client" /\ "client" \in Side /\ "server" \in Side
  BY DEF Peer, Side
<1>6. ASSUME IsUp("client")'
      PROVE  Flows("client") /\ Flows("client")'
  <2>1. Flows("client")
    BY <1>1, <1>5, <1>6, WireIsFlow DEF IsUp
  <2>2. UNCHANGED <<wire, pending_wire["server"]>>
    BY <1>1
  <2> QED
    BY <1>1, <1>3, <1>4, <1>5, <2>1, <2>2, FlowsPopped
<1>7. ASSUME IsUp("server")'
      PROVE  Flows("server")'
  <2>1. Flows("server")
    BY <1>1, <1>5, <1>7, WireIsFlow DEF IsUp
  <2>2. Handled("server")' = Handled("server")
    <3>1. state'["server"] = state["server"] /\ recv_seq' = recv_seq
      BY <1>1 DEF TypeOK, Side
    <3> QED
      BY <1>3, <1>5, <3>1, HandledStays
  <2>3. InFlight("server")' = InFlight("server")
    <3>1. records'["server"] = records["server"]
      BY <1>1 DEF PopRecord, TypeOK, Side
    <3> QED
      BY <1>1, <3>1 DEF InFlight
  <2> QED
    BY <1>3, <1>5, <2>1, <2>2, <2>3, FlowsOn
<1>8. KeyIsKnown'
  <2> SUFFICES ASSUME status'["server"] # "failed"
               PROVE  state'["server"] = "ESTABLISHED" /\ server_ephemeral' = ephemeral'["server"]
    BY DEF KeyIsKnown
  <2>1. IsUp("client")'
    BY <1>1, <1>2, <1>5 DEF IsUp
  <2>2. Head(records["client"]) = HelloFrame(ephemeral["server"]) /\ state["server"] = "ESTABLISHED"
    BY <1>1, <1>4, <1>5, <1>6, <2>1, FirstRecord
  <2>3. Head(records["client"]).eph = ephemeral["server"]
    BY <2>2 DEF HelloFrame
  <2> QED
    BY <1>1, <2>2, <2>3 DEF TypeOK, Side
<1> QED
  BY <1>1, <1>6, <1>7, <1>8, WireIsFlowNext DEF Side

\* _handle_server_auth: the client has handled the whole of the handshake.
LEMMA ServerAuthKeepsWire ==
    ASSUME TypeOK, KeysMatchState, CountersMatchStreams, WireIsStream, ClientAuthenticatesServer',
           faults = 0, HandleServerAuth
    PROVE  WireIsStream'
<1>1. /\ feeding["client"] /\ records["client"] # <<>> /\ state["client"] = "WAIT_SERVER_AUTH"
      /\ keys' = [keys EXCEPT !["client"] =
                      DeriveSessionKeys({ephemeral["client"], server_ephemeral})]
      /\ state' = [state EXCEPT !["client"] = "ESTABLISHED"]
      /\ PopRecord("client")
      /\ UNCHANGED <<identity, ephemeral, server_ephemeral, recv_seq, pending_wire, wire, faults,
                     status, sent>>
  BY DEF HandleServerAuth, Handling, identityVars, netVars, callerVars
<1>2. status["client"] = "open" /\ recv_seq["client"] = 0 /\ sent["client"] = <<>>
  BY <1>1, NoDataYet DEF CountersMatchStreams, Side
<1>3. ASSUME NEW z \in Side
      PROVE  Stream(z)' = Stream(z) /\ Greeting(z)' = Greeting(z)
  <2>1. state'["server"] = state["server"]
    BY <1>1 DEF TypeOK, Side
  <2>2. keys'[z][z] = keys[z][z] \/ sent[z] = <<>>
    BY <1>1, <1>2 DEF TypeOK, Side
  <2> QED
    BY <1>1, <2>1, <2>2, StreamStays
<1>4. Peer("client") = "server" /\ Peer("server") = "client" /\ "client" \in Side /\ "server" \in Side
  BY DEF Peer, Side
<1>5. state["server"] = "ESTABLISHED" /\ state'["client"] = "ESTABLISHED"
  BY <1>1 DEF TypeOK, Side, ClientAuthenticatesServer
<1>6. Handled("client") = 1 /\ Handled("client")' = 1 + 1
  <2>1. Len(Greeting("server")) = 2
    BY <1>4, <1>5, GreetingLength
  <2>2. recv_seq'["client"] = 0
    BY <1>1, <1>2
  <2>3. Handled("client")' = 0 + Len(Greeting("server")')
    BY <1>4, <1>5, <2>2 DEF Handled
  <2>4. Greeting("server")' = Greeting("server")
    BY <1>3, <1>4
  <2>5. 0 + Len(Greeting("server")') = 1 + 1
    BY <2>1, <2>4
  <2>6. Handled("client") = 1
    BY <1>1, <1>2 DEF Handled
  <2> QED
    BY <2>3, <2>5, <2>6, Zenon
<1>7. ASSUME IsUp("client")'
      PROVE  Flows("client")'
  <2>1. Flows("client")
    BY <1>1, <1>4, <1>7, WireIsFlow DEF IsUp
  <2>2. UNCHANGED <<wire, pending_wire["server"]>>
    BY <1>1
  <2> QED
    BY <1>1, <1>3, <1>4, <1>6, <2>1, <2>2, FlowsPopped
<1>8. ASSUME IsUp("server")'
      PROVE  Flows("server")'
  <2>1. Flows("server")
    BY <1>1, <1>4, <1>8, WireIsFlow DEF IsUp
  <2>2. Handled("server")' = Handled("server")
    <3>1. state'["server"] = state["server"] /\ recv_seq' = recv_seq
      BY <1>1 DEF TypeOK, Side
    <3> QED
      BY <1>3, <1>4, <3>1, HandledStays
  <2>3. InFlight("server")' = InFlight("server")
    <3>1. records'["server"] = records["server"]
      BY <1>1 DEF PopRecord, TypeOK, Side
    <3> QED
      BY <1>1, <3>1 DEF InFlight
  <2> QED
    BY <1>3, <1>4, <2>1, <2>2, <2>3, FlowsOn
<1>9. KeyIsKnown'
  BY <1>5 DEF KeyIsKnown
<1> QED
  BY <1>1, <1>7, <1>8, <1>9, WireIsFlowNext DEF Side

\* _handle_application_record.
LEMMA DataRecordKeepsWire ==
    ASSUME TypeOK, NEW s \in Side, HandleApplicationRecord(s), NEW z \in Side, Flows(z)
    PROVE  Flows(z)'
<1>1. /\ records[s] # <<>> /\ state[s] = "ESTABLISHED"
      /\ recv_seq' = [recv_seq EXCEPT ![s] = @ + 1]
      /\ PopRecord(s)
      /\ UNCHANGED <<identity, ephemeral, state, keys, pending_wire, wire, sent>>
  BY DEF HandleApplicationRecord, Handling, handshakeVars, netVars, callerVars
<1>2. Peer(z) \in Side
  BY DEF Peer, Side
<1>3. Stream(Peer(z))' = Stream(Peer(z)) /\ Greeting(Peer(z))' = Greeting(Peer(z))
  BY <1>1, <1>2, StreamStays
<1>4. CASE z = s
  <2> DEFINE g == Len(Greeting(Peer(s)))
  <2>1. recv_seq'[s] = recv_seq[s] + 1 /\ recv_seq[s] \in Nat /\ g \in Nat
    BY <1>1, GreetingLength DEF TypeOK
  <2>2. Handled(s) = recv_seq[s] + g
    BY <1>1 DEF Handled
  <2>3. Handled(s)' = recv_seq'[s] + g
    <3>1. Handled(s)' = recv_seq'[s] + Len(Greeting(Peer(s))')
      BY <1>1 DEF Handled
    <3> QED
      BY <1>3, <1>4, <3>1, Zenon
  <2>4. Handled(s)' = Handled(s) + 1
    <3> HIDE DEF g
    <3> QED
      BY <2>1, <2>2, <2>3
  <2>5. UNCHANGED <<wire, pending_wire[Peer(s)]>>
    BY <1>1
  <2> QED
    BY <1>1, <1>3, <1>4, <2>4, <2>5, FlowsPopped
<1>5. CASE z # s
  <2>1. records'[z] = records[z] /\ recv_seq'[z] = recv_seq[z]
    BY <1>1, <1>5 DEF PopRecord, TypeOK
  <2>2. InFlight(z)' = InFlight(z)
    BY <1>1, <2>1 DEF InFlight
  <2>3. Handled(z)' = Handled(z)
    BY <1>1, <1>3, <2>1, HandledStays
  <2> QED
    BY <1>3, <2>2, <2>3, FlowsOn
<1> QED
  BY <1>4, <1>5

\* Every step leaves the rest of each stream in flight, or gives the connection
\* up, or is a fault.
LEMMA NextWire ==
    ASSUME TypeOK, KeysMatchState, CountersMatchStreams, ClientAuthenticatesServer,
           ClientAuthenticatesServer', PendingIsFlushed, WireIsStream, [Next]_vars
    PROVE  WireIsStream'
<1> SUFFICES ASSUME faults' = 0 PROVE WireIsStream'
  BY WireIsFlowNext
<1>1. ASSUME faults = 0, KeyIsKnown', \A z \in Side : IsUp(z)' => IsUp(z),
             \A z \in Side : IsUp(z) /\ IsUp(z)' /\ Flows(z) => Flows(z)'
      PROVE  WireIsStream'
  <2>1. \A z \in Side : IsUp(z) => Flows(z)
    BY <1>1, WireIsFlow
  <2> QED
    BY <1>1, <2>1, WireIsFlowNext
<1>2. ASSUME faults = 0, UNCHANGED <<state, server_ephemeral, ephemeral>>,
             status'["server"] # "failed" => status["server"] # "failed"
      PROVE  KeyIsKnown'
  BY <1>2, WireIsFlow DEF KeyIsKnown
<1>3. CASE SendClientHello
  <2>1. /\ wire' = [wire EXCEPT ![Peer("client")] = @ \o pending_wire["client"]]
        /\ pending_wire' = [pending_wire EXCEPT !["client"] = <<>>]
        /\ UNCHANGED <<handshakeVars, recv_seq, records, sent, status, faults>>
    BY <1>3 DEF SendClientHello, callerVars, Peer
  <2>2. UNCHANGED <<state, server_ephemeral, ephemeral>>
    BY <2>1 DEF handshakeVars
  <2> QED
    BY <1>1, <1>2, <2>1, <2>2, SendKeepsWire DEF IsUp, Side
<1>4. ASSUME NEW s \in Side, NEW n \in 1 .. Len(wire[s]), Feed(s, n)
      PROVE  WireIsStream'
  <2>1. UNCHANGED <<state, server_ephemeral, ephemeral, status, faults>>
    BY <1>4 DEF Feed, handshakeVars, callerVars
  <2> QED
    BY <1>1, <1>2, <1>4, <2>1, FeedKeepsWire DEF IsUp
<1>5. ASSUME NEW e \in Ephemerals, HandleClientHello(e)
      PROVE  WireIsStream'
  <2>1. faults = 0
    BY <1>5 DEF HandleClientHello, netVars
  <2> QED
    BY <1>5, <2>1, ClientHelloKeepsWire
<1>6. CASE HandleServerHello
  <2>1. faults = 0
    BY <1>6 DEF HandleServerHello, netVars
  <2> QED
    BY <1>6, <2>1, ServerHelloKeepsWire
<1>7. CASE HandleServerAuth
  <2>1. faults = 0
    BY <1>7 DEF HandleServerAuth, netVars
  <2> QED
    BY <1>7, <2>1, ServerAuthKeepsWire
<1>8. ASSUME NEW s \in Side, HandleApplicationRecord(s)
      PROVE  WireIsStream'
  <2>1. UNCHANGED <<state, server_ephemeral, ephemeral, status, faults>>
    BY <1>8 DEF HandleApplicationRecord, handshakeVars, netVars, callerVars
  <2> QED
    BY <1>1, <1>2, <1>8, <2>1, DataRecordKeepsWire DEF IsUp
<1>9. ASSUME NEW s \in Side, FeedRaises(s)
      PROVE  WireIsStream'
  <2>1. UNCHANGED <<state, server_ephemeral, ephemeral, faults>>
    BY <1>9 DEF FeedRaises, handshakeVars, netVars
  <2>2. status' = [status EXCEPT ![s] = "failed"]
    BY <1>9 DEF FeedRaises
  <2>3. \A z \in Side : ~IsUp(z)'
    BY <2>2 DEF IsUp, TypeOK, Peer, Side
  <2>4. status'["server"] # "failed" => status["server"] # "failed"
    BY <2>2 DEF TypeOK, Side
  <2> QED
    BY <1>1, <1>2, <2>1, <2>3, <2>4
<1>10. ASSUME NEW s \in Side, FeedReturns(s)
       PROVE  WireIsStream'
  <2>1. /\ wire' = [wire EXCEPT ![Peer(s)] = @ \o pending_wire[s]]
        /\ pending_wire' = [pending_wire EXCEPT ![s] = <<>>]
        /\ UNCHANGED <<handshakeVars, recv_seq, records, sent, status, faults>>
    BY <1>10 DEF FeedReturns
  <2>2. UNCHANGED <<state, server_ephemeral, ephemeral>>
    BY <2>1 DEF handshakeVars
  <2> QED
    BY <1>1, <1>2, <2>1, <2>2, SendKeepsWire DEF IsUp
<1>11. ASSUME NEW s \in Side, NEW m \in Messages, SendApplicationData(s, m)
       PROVE  WireIsStream'
  <2>1. UNCHANGED <<state, server_ephemeral, ephemeral, status, faults>>
    BY <1>11 DEF SendApplicationData, handshakeVars
  <2> QED
    BY <1>1, <1>2, <1>11, <2>1, DataKeepsWire DEF IsUp
<1>12. ASSUME NEW s \in Side, Close(s)
       PROVE  WireIsStream'
  <2>1. /\ status[s] = "open" /\ status' = [status EXCEPT ![s] = "closed"]
        /\ UNCHANGED <<handshakeVars, recv_seq, records, pending_wire, wire, faults, sent>>
    BY <1>12 DEF Close, netVars
  <2>2. UNCHANGED <<identity, state, keys, server_ephemeral, ephemeral>>
    BY <2>1 DEF handshakeVars
  <2>3. \A z \in Side : IsUp(z)' => IsUp(z)
    BY <2>1 DEF IsUp, TypeOK, Peer, Side
  <2>4. \A z \in Side : Flows(z) => Flows(z)'
    BY <2>1, <2>2 DEF Flows, Stream, Greeting, ProtectedData, Handled, InFlight, HelloFrame, AuthFrame
  <2>5. status'["server"] # "failed" => status["server"] # "failed"
    BY <2>1 DEF TypeOK, Side
  <2> QED
    BY <1>1, <1>2, <2>1, <2>2, <2>3, <2>4, <2>5
<1>13. CASE WireFault
  <2>1. faults' = faults + 1 /\ faults \in Nat
    BY <1>13 DEF WireFault, Lose, Duplicate, Delay, Corrupt, Echo, Faulty, TypeOK
  <2> QED
    BY <2>1
<1>14. CASE UNCHANGED vars
  BY <1>14 DEF vars, handshakeVars, WireIsStream, Stream, Greeting, ProtectedData, Handled, InFlight,
               HelloFrame, AuthFrame
<1> QED
  BY <1>3, <1>4, <1>5, <1>6, <1>7, <1>8, <1>9, <1>10, <1>11, <1>12, <1>13, <1>14
  DEF Next, FeedStep

\* The steps that write pending bytes, or happen while there are some.
LEMMA NextPending ==
    ASSUME TypeOK, PendingIsFlushed, [Next]_vars
    PROVE  PendingIsFlushed'
<1>1. \A s \in Side : pending_wire["client"] # <<>> => records[s] = <<>> /\ Len(wire[s]) = 0
  BY DEF PendingIsFlushed
<1>2. CASE SendClientHello
  BY <1>2 DEF SendClientHello, PendingIsFlushed, TypeOK, Side, handshakeVars
<1>3. ASSUME NEW s \in Side, NEW n \in 1 .. Len(wire[s]), Feed(s, n)
      PROVE  PendingIsFlushed'
  <2>1. Len(wire[s]) # 0
    BY <1>3
  <2>2. pending_wire["client"] = <<>>
    BY <1>1, <2>1
  <2>3. UNCHANGED pending_wire /\ \A z \in Side : feeding[z] => feeding'[z]
    BY <1>3 DEF Feed, TypeOK
  <2> QED
    BY <2>2, <2>3 DEF PendingIsFlushed, Side
<1>4. ASSUME NEW e \in Ephemerals, HandleClientHello(e)
      PROVE  PendingIsFlushed'
  <2>1. /\ records["server"] # <<>> /\ feeding["server"] /\ UNCHANGED feeding
        /\ pending_wire'["client"] = pending_wire["client"]
    BY <1>4 DEF HandleClientHello, Handling, TypeOK, Side
  <2> QED
    BY <1>1, <2>1 DEF PendingIsFlushed, Side
<1>5. CASE HandleServerHello \/ HandleServerAuth
  BY <1>1, <1>5 DEF HandleServerHello, HandleServerAuth, Handling, PendingIsFlushed, Side
<1>6. ASSUME NEW s \in Side, HandleApplicationRecord(s) \/ FeedRaises(s)
      PROVE  PendingIsFlushed'
  <2>1. records[s] # <<>> /\ pending_wire["client"] = <<>>
    BY <1>1, <1>6 DEF HandleApplicationRecord, FeedRaises, Handling
  <2>2. CASE HandleApplicationRecord(s)
    BY <2>1, <2>2 DEF HandleApplicationRecord, PendingIsFlushed
  <2>3. CASE FeedRaises(s)
    BY <2>1, <2>3 DEF FeedRaises, PendingIsFlushed, TypeOK, Side
  <2> QED
    BY <1>6, <2>2, <2>3
<1>7. ASSUME NEW s \in Side, FeedReturns(s)
      PROVE  PendingIsFlushed'
  <2>1. /\ pending_wire' = [pending_wire EXCEPT ![s] = <<>>]
        /\ feeding' = [feeding EXCEPT ![s] = FALSE]
        /\ wire' = [wire EXCEPT ![Peer(s)] = @ \o pending_wire[s]]
        /\ UNCHANGED <<state, records>>
    BY <1>7 DEF FeedReturns, handshakeVars
  <2>2. CASE s = "client"
    BY <2>1, <2>2 DEF PendingIsFlushed, TypeOK, Side
  <2>3. CASE s = "server"
    <3>1. pending_wire["client"] # <<>> => pending_wire["server"] = <<>> /\ wire["client"] = <<>>
      BY DEF PendingIsFlushed, Side
    <3>2. pending_wire["client"] # <<>> => wire["client"] \o pending_wire["server"] = <<>>
      BY <3>1
    <3>3. pending_wire'["client"] = pending_wire["client"] /\ pending_wire'["server"] = <<>>
      BY <2>1, <2>3 DEF TypeOK, Side
    <3>4. wire'["client"] = wire["client"] \o pending_wire["server"] /\ wire'["server"] = wire["server"]
      BY <2>1, <2>3 DEF TypeOK, Side, Peer
    <3> QED
      BY <2>1, <3>2, <3>3, <3>4 DEF PendingIsFlushed, Side
  <2> QED
    BY <2>2, <2>3 DEF Side
<1>8. ASSUME NEW s \in Side, NEW m \in Messages, SendApplicationData(s, m)
      PROVE  PendingIsFlushed'
  <2>1. state[s] = "ESTABLISHED" /\ UNCHANGED <<pending_wire, feeding>>
    BY <1>8 DEF SendApplicationData
  <2> QED
    BY <2>1 DEF PendingIsFlushed, Side
<1>9. ASSUME NEW s \in Side, Close(s)
      PROVE  PendingIsFlushed'
  BY <1>9 DEF Close, PendingIsFlushed, handshakeVars, netVars
<1>10. CASE WireFault
  <2>1. PICK s \in Side : \E i \in 1 .. Len(wire[s]) :
            Lose(s, i) \/ Duplicate(s, i) \/ Delay(s, i) \/ Corrupt(s, i) \/ Echo(s, i)
    BY <1>10 DEF WireFault
  <2>2. pending_wire["client"] = <<>>
    BY <1>1, <2>1
  <2>3. UNCHANGED <<pending_wire, feeding>>
    BY <2>1 DEF Lose, Duplicate, Delay, Corrupt, Echo, Faulty
  <2> QED
    BY <2>2, <2>3 DEF PendingIsFlushed
<1>11. CASE UNCHANGED vars
  BY <1>11 DEF vars, PendingIsFlushed, handshakeVars
<1> QED
  BY <1>2, <1>3, <1>4, <1>5, <1>6, <1>7, <1>8, <1>9, <1>10, <1>11 DEF Next, FeedStep

\* At first there is a ClientHello, pending.
LEMMA InitWire == Init => PendingIsFlushed /\ WireIsStream
<1> SUFFICES ASSUME Init PROVE PendingIsFlushed /\ WireIsStream
  OBVIOUS
<1>1. PICK e \in Ephemerals :
          /\ ephemeral = [s \in Side |-> IF s = "client" THEN e ELSE None]
          /\ pending_wire = [s \in Side |-> IF s = "client" THEN <<HelloFrame(e)>> ELSE <<>>]
  BY DEF Init
<1>2. /\ state["client"] = "WAIT_SERVER_HELLO" /\ state["server"] = "WAIT_CLIENT_HELLO"
      /\ \A s \in Side : wire[s] = <<>> /\ records[s] = <<>> /\ recv_seq[s] = 0 /\ sent[s] = <<>>
      /\ pending_wire["client"] = <<HelloFrame(e)>> /\ pending_wire["server"] = <<>>
      /\ ephemeral["client"] = e
  BY <1>1 DEF Init, Side
<1>3. PendingIsFlushed
  BY <1>2 DEF PendingIsFlushed, Side
<1>4. \A s \in Side : Handled(s) = 0
  BY <1>2 DEF Handled, Side
<1> DEFINE h == <<HelloFrame(e)>>
<1>5. Stream("client") = h /\ Stream("server") = <<>>
  <2>1. Greeting("client") = h /\ Greeting("server") = <<>>
    BY <1>2 DEF Greeting
  <2>2. \A s \in Side : ProtectedData(s) = <<>>
    BY <1>2 DEF ProtectedData
  <2>3. h \o <<>> = h /\ <<>> \o <<>> = <<>>
    OBVIOUS
  <2> QED
    BY <2>1, <2>2, <2>3, Zenon DEF Stream, Side
<1>6. InFlight("server") = h /\ InFlight("client") = <<>>
  <2>1. <<>> \o <<>> \o h = h /\ <<>> \o <<>> \o <<>> = <<>>
    OBVIOUS
  <2> QED
    BY <1>2, <2>1, Zenon DEF InFlight, Peer, Side
<1>7. Continues(h, 0, h) /\ Continues(<<>>, 0, <<>>)
  BY DEF Continues
<1>8. Flows("server") /\ Flows("client")
  BY <1>4, <1>5, <1>6, <1>7 DEF Flows, Peer, Side
<1> QED
  BY <1>2, <1>3, <1>8, WireIsFlow DEF KeyIsKnown, Side

-----------------------------------------------------------------------------
(* The theorems *)

\* The session's invariant holds in every reachable state, for every choice of
\* the constants and whatever the wire does to the records.
THEOREM SessionInvariant == Spec => []SessionInv
<1>1. Init => SessionInv
  BY InitTypeOK, InitKeys, InitFrames, InitStreams, InitAuthentication, InitWire DEF SessionInv
<1>2. SessionInv /\ [Next]_vars => SessionInv'
  <2> SUFFICES ASSUME SessionInv, [Next]_vars PROVE SessionInv'
    OBVIOUS
  <2>1. TypeOK'
    BY NextTypeOK DEF SessionInv
  <2>2. KeysMatchState'
    BY NextKeys DEF SessionInv
  <2>3. FramesAreAuthentic'
    BY <2>1, NextFrames DEF SessionInv
  <2>4. CountersMatchStreams'
    BY NextCounters DEF SessionInv
  <2>5. ReceivedInOrder'
    BY NextReceived DEF SessionInv
  <2>6. ClientAuthenticatesServer'
    BY NextAuthentication DEF SessionInv
  <2>7. PendingIsFlushed'
    BY NextPending DEF SessionInv
  <2>8. WireIsStream'
    BY <2>6, NextWire DEF SessionInv
  <2> QED
    BY <2>1, <2>2, <2>3, <2>4, <2>5, <2>6, <2>7, <2>8 DEF SessionInv
<1> QED
  BY <1>1, <1>2, PTL DEF Spec

\* Every variable keeps its type: no handler of connection.py stores a value of
\* another kind.
THEOREM TypeCorrectness == Spec => []TypeOK
<1>1. SessionInv => TypeOK
  BY DEF SessionInv
<1> QED
  BY <1>1, SessionInvariant, PTL

\* The client's _handle_server_auth reaches ESTABLISHED only against the server
\* it asked for, and then both ends hold the same two directional keys.
THEOREM ServerIsAuthenticated == Spec => []ClientAuthenticatesServer
<1>1. SessionInv => ClientAuthenticatesServer
  BY DEF SessionInv
<1> QED
  BY <1>1, SessionInvariant, PTL

\* What unprotect_record lets through is, in order, without gaps or repeats,
\* what the peer's protect_application_data was given.
THEOREM PlaintextIsInOrder == Spec => []PlaintextIsPrefix
<1>1. SessionInv => PlaintextIsPrefix
  <2> SUFFICES ASSUME SessionInv, NEW s \in Side
               PROVE  IsPrefix(got[s] \o plaintext[s], sent[Peer(s)])
    BY DEF PlaintextIsPrefix
  <2>1. /\ sent[Peer(s)] \in Seq(Messages) /\ got[s] \in Seq(Messages)
        /\ plaintext[s] \in Seq(Messages)
    BY DEF SessionInv, TypeOK, Side, Peer
  <2>2. Begins(sent[Peer(s)], got[s] \o plaintext[s], <<>>)
    BY <2>1, BeginsGiven DEF SessionInv, ReceivedInOrder
  <2>3. got[s] \o plaintext[s] \in Seq(Messages)
    BY <2>1, ConcatOfSeq
  <2> QED
    BY <2>1, <2>2, <2>3, BeginsIsPrefix
<1> QED
  BY <1>1, SessionInvariant, PTL

\* Plaintexts that fit into a record: at most MAX_RECORD_SIZE less the 36 bytes
\* of its protection.
EverythingFits == \A m \in Messages : ProtectionLen + PlaintextLen[m] <= MAX_RECORD_SIZE

\* A record of a stream is one that its receiver accepts.
LEMMA StreamIsAccepted ==
    ASSUME SessionInv, EverythingFits, TrustedServer, faults = 0,
           NEW s \in Side, Flows(s), feeding[s], records[s] # <<>>, status["server"] # "failed"
    PROVE  LET r == Head(records[s]) IN
           /\ FitsRecord(r)
           /\ \/ state[s] \in {"WAIT_CLIENT_HELLO", "WAIT_SERVER_HELLO"} /\ CarriesPublicKey(r)
              \/ state[s] = "WAIT_SERVER_AUTH" /\ VerifiesServer(r)
              \/ state[s] = "ESTABLISHED" /\ UnprotectsNext(s, r)
<1> DEFINE r == Head(records[s])
           g == Len(Greeting(Peer(s)))
<1>1. TypeOK /\ KeysMatchState /\ CountersMatchStreams /\ ClientAuthenticatesServer
  BY DEF SessionInv
<1>2. Peer(s) \in Side /\ state[s] \in HandshakeStates /\ recv_seq[s] \in Nat /\ g \in Nat
  BY <1>1, GreetingLength DEF Peer, Side, TypeOK
<1>3. /\ Handled(s) \in Nat
      /\ Handled(s) + 1 \in 1 .. Len(Stream(Peer(s))) /\ r = Stream(Peer(s))[Handled(s) + 1]
  BY <1>1, NextRecord, HandledIsNat
<1>4. CASE state[s] \in {"WAIT_CLIENT_HELLO", "WAIT_SERVER_HELLO"}
  <2>1. Handled(s) = 0
    BY <1>1, <1>4, NoDataYet DEF Handled
  <2>2. r = HelloFrame(ephemeral[Peer(s)])
    BY <1>1, <2>1, FirstRecord
  <2>3. r.type = "hello" /\ r.intact
    BY <2>2 DEF HelloFrame
  <2> QED
    BY <1>4, <2>3 DEF CarriesPublicKey, FitsRecord
<1>5. CASE state[s] = "WAIT_SERVER_AUTH"
  <2>1. Handled(s) = 1
    BY <1>1, <1>5, NoDataYet DEF Handled
  <2>2. state["server"] = "ESTABLISHED" /\ server_ephemeral = ephemeral["server"] /\ Peer(s) = "server"
    <3>1. s = "client"
      BY <1>1, <1>5 DEF TypeOK, Side
    <3> QED
      BY <1>5, <3>1, WireIsFlow DEF KeyIsKnown, Peer, SessionInv
  <2>3. g = 2 /\ Greeting("server")[2] = AuthFrame(ephemeral["client"], ephemeral["server"])
    BY <2>2 DEF Greeting
  <2>4. r = AuthFrame(ephemeral["client"], server_ephemeral)
    <3>1. 2 \in 1 .. Len(Stream(Peer(s))) /\ r = Stream(Peer(s))[2]
      BY <1>3, <2>1
    <3> QED
      BY <1>1, <1>2, <2>2, <2>3, <3>1, RecordOfStream
  <2>5. /\ r.type = "auth" /\ r.intact /\ r.path_valid = identity.path_valid
        /\ r.certificate = identity.certificate /\ r.signer = identity.private_key
        /\ r.over = <<ephemeral["client"], server_ephemeral>>
    BY <2>4 DEF AuthFrame
  <2> QED
    BY <1>5, <2>5 DEF VerifiesServer, VerifyServerCertificate, TrustedServer, FitsRecord
<1>6. CASE state[s] = "ESTABLISHED"
  <2> DEFINE i == Handled(s) + 1
             p == Peer(s)
  <2>1. Handled(s) = recv_seq[s] + g
    BY <1>6 DEF Handled
  <2>2. i > g /\ i - g = recv_seq[s] + 1 /\ i - g - 1 = recv_seq[s]
    BY <1>2, <2>1
  <2>3. i - g \in 1 .. Len(sent[p]) /\ r = ProtectRecord(keys[p][p], i - g - 1, sent[p][i - g])
    <3>1. i \in 1 .. Len(Stream(p))
      BY <1>3
    <3> HIDE DEF i, g
    <3> QED
      BY <1>1, <1>2, <1>3, <2>2, <3>1, RecordOfStream DEF g, i
  <2> HIDE DEF i, g
  <2>4. sent[p][i - g] \in Messages
    <3>1. sent[p] \in Seq(Messages)
      BY <1>1, <1>2 DEF TypeOK
    <3> QED
      BY <2>3, <3>1, ElementOfSeq
  <2>5. state[p] = "ESTABLISHED"
    <3>1. sent[p] # <<>>
      BY <2>3
    <3> QED
      BY <1>1, <1>2, <3>1 DEF KeysMatchState
  <2>6. keys[s] = keys[p]
    BY <1>1, <1>6, <2>5 DEF ClientAuthenticatesServer, Peer, Side
  <2>7. /\ r.type = "app" /\ r.seq = recv_seq[s] /\ r.intact /\ r.key = keys[p][p]
        /\ r.body \in Messages
    BY <2>2, <2>3, <2>4 DEF ProtectRecord
  <2> QED
    BY <1>6, <2>6, <2>7 DEF UnprotectsNext, Unprotects, FitsRecord, EverythingFits
<1> QED
  BY <1>2, <1>4, <1>5, <1>6 DEF HandshakeStates

\* A connection that is up is not given up.
LEMMA CleanStep ==
    ASSUME SessionInv, EverythingFits, CleanWireNeverFails, [Next]_vars
    PROVE  CleanWireNeverFails'
<1> SUFFICES ASSUME faults' = 0, TrustedServer' PROVE \A s \in Side : status'[s] # "failed"
  BY DEF CleanWireNeverFails
<1>1. TypeOK /\ CountersMatchStreams
  BY DEF SessionInv
<1>2. ASSUME NEW s \in Side, FeedRaises(s)
      PROVE  FALSE
  <2>1. faults = 0 /\ TrustedServer /\ feeding[s] /\ records[s] # <<>>
    BY <1>2 DEF FeedRaises, handshakeVars, netVars, TrustedServer
  <2>2. \A z \in Side : status[z] # "failed"
    BY <2>1 DEF CleanWireNeverFails
  <2>3. IsUp(s) /\ status["server"] # "failed"
    BY <1>1, <2>1, <2>2 DEF IsUp, CountersMatchStreams, Peer, Side
  <2>4. Flows(s)
    BY <2>1, <2>3, WireIsFlow DEF SessionInv
  <2> QED
    BY <1>2, <2>1, <2>3, <2>4, StreamIsAccepted DEF FeedRaises
<1>3. CASE faults' = faults /\ UNCHANGED <<identity, dns_name>>
           /\ \A s \in Side : status'[s] = "failed" => status[s] = "failed"
  BY <1>3 DEF CleanWireNeverFails, TrustedServer
<1>4. CASE SendClientHello
  BY <1>3, <1>4 DEF SendClientHello, handshakeVars, callerVars
<1>5. ASSUME NEW s \in Side, NEW n \in 1 .. Len(wire[s]), Feed(s, n)
      PROVE  \A z \in Side : status'[z] # "failed"
  BY <1>3, <1>5 DEF Feed, handshakeVars, callerVars
<1>6. ASSUME NEW e \in Ephemerals, HandleClientHello(e)
      PROVE  \A z \in Side : status'[z] # "failed"
  BY <1>3, <1>6 DEF HandleClientHello, identityVars, netVars, callerVars
<1>7. CASE HandleServerHello \/ HandleServerAuth
  BY <1>3, <1>7 DEF HandleServerHello, HandleServerAuth, identityVars, netVars, callerVars
<1>8. ASSUME NEW s \in Side, HandleApplicationRecord(s) \/ FeedReturns(s)
      PROVE  \A z \in Side : status'[z] # "failed"
  BY <1>3, <1>8 DEF HandleApplicationRecord, FeedReturns, handshakeVars, netVars, callerVars
<1>9. ASSUME NEW s \in Side, NEW m \in Messages, SendApplicationData(s, m)
      PROVE  \A z \in Side : status'[z] # "failed"
  BY <1>3, <1>9 DEF SendApplicationData, handshakeVars
<1>10. ASSUME NEW s \in Side, Close(s)
       PROVE  \A z \in Side : status'[z] # "failed"
  BY <1>1, <1>3, <1>10 DEF Close, handshakeVars, netVars, TypeOK
<1>11. CASE WireFault
  <2>1. faults' = faults + 1 /\ faults \in Nat
    BY <1>1, <1>11 DEF WireFault, Lose, Duplicate, Delay, Corrupt, Echo, Faulty, TypeOK
  <2> QED
    BY <2>1
<1>12. CASE UNCHANGED vars
  BY <1>3, <1>12 DEF vars, handshakeVars
<1> QED
  BY <1>2, <1>4, <1>5, <1>6, <1>7, <1>8, <1>9, <1>10, <1>11, <1>12 DEF Next, FeedStep

\* On a wire that delivers what was written, with an identity the client trusts
\* and plaintexts that fit into a record, neither feed_wire_data ever raises.
THEOREM CleanWireIsReliable == Spec => [](EverythingFits => CleanWireNeverFails)
<1>1. Init => CleanWireNeverFails
  BY DEF Init, CleanWireNeverFails
<1>2. SessionInv /\ (EverythingFits => CleanWireNeverFails) /\ [Next]_vars
          => (EverythingFits => CleanWireNeverFails)'
  <2>1. EverythingFits' <=> EverythingFits
    BY DEF EverythingFits
  <2> QED
    BY <2>1, CleanStep
<1> QED
  BY <1>1, <1>2, SessionInvariant, PTL DEF Spec

\* ESTABLISHED is final and the keys of a session are never replaced.
THEOREM SessionStaysFixed == Spec => SessionIsFixed
<1>1. TypeOK /\ [Next]_vars =>
          [\A s \in Side : state[s] = "ESTABLISHED" =>
               state'[s] = "ESTABLISHED" /\ keys'[s] = keys[s]]_vars
  <2> SUFFICES ASSUME TypeOK, Next, NEW s \in Side, state[s] = "ESTABLISHED"
               PROVE  state'[s] = "ESTABLISHED" /\ keys'[s] = keys[s]
    OBVIOUS
  <2>1. ASSUME UNCHANGED <<state, keys>>
        PROVE  state'[s] = "ESTABLISHED" /\ keys'[s] = keys[s]
    BY <2>1
  <2>2. ASSUME NEW e \in Ephemerals, HandleClientHello(e)
        PROVE  state'[s] = "ESTABLISHED" /\ keys'[s] = keys[s]
    BY <2>2 DEF HandleClientHello, Handling, TypeOK, Side
  <2>3. CASE HandleServerHello
    BY <2>3 DEF HandleServerHello, Handling, TypeOK, Side
  <2>4. CASE HandleServerAuth
    BY <2>4 DEF HandleServerAuth, Handling, TypeOK, Side
  <2>5. ASSUME NEW z \in Side,
               HandleApplicationRecord(z) \/ FeedRaises(z) \/ FeedReturns(z) \/ Close(z)
        PROVE  state'[s] = "ESTABLISHED" /\ keys'[s] = keys[s]
    BY <2>1, <2>5 DEF HandleApplicationRecord, FeedRaises, FeedReturns, Close, handshakeVars
  <2>6. ASSUME NEW z \in Side, NEW n \in 1 .. Len(wire[z]), Feed(z, n)
        PROVE  state'[s] = "ESTABLISHED" /\ keys'[s] = keys[s]
    BY <2>1, <2>6 DEF Feed, handshakeVars
  <2>7. ASSUME NEW z \in Side, NEW m \in Messages, SendApplicationData(z, m)
        PROVE  state'[s] = "ESTABLISHED" /\ keys'[s] = keys[s]
    BY <2>1, <2>7 DEF SendApplicationData, handshakeVars
  <2>8. CASE SendClientHello \/ WireFault
    BY <2>1, <2>8
    DEF SendClientHello, WireFault, Lose, Duplicate, Delay, Corrupt, Echo, Faulty,
        handshakeVars
  <2> QED
    BY <2>2, <2>3, <2>4, <2>5, <2>6, <2>7, <2>8 DEF Next, FeedStep
<1> QED
  BY <1>1, TypeCorrectness, PTL DEF Spec, SessionIsFixed

-----------------------------------------------------------------------------
(* Refinement *)

\* A step that leaves the sessions and the two applications alone is a stutter
\* of the channel.
LEMMA QuietStep ==
    ASSUME UNCHANGED <<state, sent, got>>
    PROVE  UNCHANGED Channel!vars
BY DEF Channel!vars

\* Initial states map to initial states.
LEMMA RefinedInit == Init => Channel!Init
BY DEF Init, Channel!Init, Channel!Side, Side

\* Every step of the session is a step of the channel or invisible to it.
LEMMA RefinedStep ==
    ASSUME SessionInv, SessionInv', [Next]_vars
    PROVE  [Channel!Next]_(Channel!vars)
<1> DEFINE open == [s \in Side |-> state[s] = "ESTABLISHED"]
<1>a. Channel!Side = Side /\ \A s : Channel!Peer(s) = Peer(s)
  BY DEF Channel!Side, Side, Channel!Peer, Peer
<1>b. TypeOK /\ TypeOK'
  BY DEF SessionInv
<1>1. ASSUME NEW e \in Ephemerals, HandleClientHello(e)
      PROVE  Channel!Next
  <2>1. /\ state["server"] # "ESTABLISHED"
        /\ state' = [state EXCEPT !["server"] = "ESTABLISHED"]
        /\ UNCHANGED <<sent, got>>
    BY <1>1, <1>b DEF HandleClientHello, Handling, callerVars, TypeOK, Side
  <2>2. open' = [open EXCEPT !["server"] = TRUE]
    BY <1>b, <2>1 DEF TypeOK, Side
  <2>3. Channel!Establish("server")
    BY <2>1, <2>2 DEF Channel!Establish, Side
  <2> QED
    BY <1>a, <2>3 DEF Channel!Next, Side
<1>2. CASE HandleServerAuth
  <2>1. /\ state["client"] = "WAIT_SERVER_AUTH"
        /\ state' = [state EXCEPT !["client"] = "ESTABLISHED"]
        /\ UNCHANGED <<sent, got>>
    BY <1>2, <1>b DEF HandleServerAuth, Handling, callerVars
  <2>2. state["server"] = "ESTABLISHED"
    BY <1>2, AcceptedServerAuth DEF SessionInv
  <2>3. open' = [open EXCEPT !["client"] = TRUE]
    BY <1>b, <2>1 DEF TypeOK, Side
  <2>4. Channel!Establish("client")
    BY <2>1, <2>2, <2>3 DEF Channel!Establish, Side
  <2> QED
    BY <1>a, <2>4 DEF Channel!Next, Side
<1>3. ASSUME NEW s \in Side, NEW m \in Messages, SendApplicationData(s, m)
      PROVE  Channel!Next
  <2>1. /\ state[s] = "ESTABLISHED" /\ sent' = [sent EXCEPT ![s] = Append(@, m)]
        /\ UNCHANGED <<state, got>>
    BY <1>3 DEF SendApplicationData, handshakeVars
  <2>2. Channel!Send(s, m)
    BY <2>1 DEF Channel!Send
  <2> QED
    BY <1>a, <2>2 DEF Channel!Next
<1>4. ASSUME NEW s \in Side, FeedReturns(s), plaintext[s] # <<>>
      PROVE  Channel!Next
  <2> DEFINE k == Len(got[s]) + Len(plaintext[s])
             t == sent[Peer(s)]
  <2>1. /\ t \in Seq(Messages) /\ got[s] \in Seq(Messages)
        /\ plaintext[s] \in Seq(Messages)
    BY <1>b DEF TypeOK, Side, Peer
  <2>2. /\ got' = [got EXCEPT ![s] = @ \o plaintext[s]]
        /\ UNCHANGED <<state, sent>>
    BY <1>4 DEF FeedReturns, handshakeVars
  <2>3. state[s] = "ESTABLISHED"
    BY <1>4 DEF SessionInv, KeysMatchState
  <2>4. k \in 1 .. Len(t) /\ k > Len(got[s])
    <3>1. k <= Len(t)
      BY DEF SessionInv, ReceivedInOrder, Begins
    <3>2. PICK a \in Nat, b \in Nat \ {0} : a = Len(got[s]) /\ b = Len(plaintext[s])
      BY <1>4, <2>1, EmptySeq, LenProperties
    <3>3. Len(t) \in Nat
      BY <2>1
    <3>4. k = a + b /\ a = Len(got[s])
      BY <3>2
    <3>5. a + b \in Nat /\ a + b > a /\ a + b >= 1
      OBVIOUS
    <3>6. k \in Nat /\ k > Len(got[s]) /\ k >= 1
      BY <3>4, <3>5
    <3> HIDE DEF k, t
    <3> QED
      BY <3>1, <3>3, <3>6
  <2>5. got[s] \o plaintext[s] = SubSeq(t, 1, k)
    <3>1. Begins(t, got[s] \o plaintext[s], <<>>)
      BY <2>1, BeginsGiven DEF SessionInv, ReceivedInOrder
    <3>2. got[s] \o plaintext[s] \in Seq(Messages) /\ Len(got[s] \o plaintext[s]) = k
      BY <2>1, ConcatProperties
    <3> QED
      BY <2>1, <3>1, <3>2, BeginsIsSubSeq
  <2>6. Channel!Receive(s, k)
    BY <1>a, <2>2, <2>3, <2>4, <2>5 DEF Channel!Receive
  <2> QED
    BY <1>a, <2>4, <2>6 DEF Channel!Next
<1>5. ASSUME NEW s \in Side, FeedReturns(s), plaintext[s] = <<>>
      PROVE  UNCHANGED Channel!vars
  <2>1. got'  = got /\ UNCHANGED <<state, sent>>
    BY <1>5, <1>b, ConcatEmptySeq DEF FeedReturns, handshakeVars, TypeOK
  <2> QED
    BY <2>1, QuietStep
<1>6. CASE HandleServerHello
  <2>1. open' = open /\ UNCHANGED <<sent, got>>
    BY <1>6, <1>b DEF HandleServerHello, Handling, callerVars, TypeOK, Side
  <2> QED
    BY <2>1 DEF Channel!vars
<1>7. ASSUME NEW s \in Side, HandleApplicationRecord(s) \/ FeedRaises(s) \/ Close(s)
      PROVE  UNCHANGED Channel!vars
  BY <1>7, QuietStep
  DEF HandleApplicationRecord, FeedRaises, Close, handshakeVars, callerVars
<1>8. ASSUME NEW s \in Side, NEW n \in 1 .. Len(wire[s]), Feed(s, n)
      PROVE  UNCHANGED Channel!vars
  BY <1>8, QuietStep DEF Feed, handshakeVars, callerVars
<1>9. CASE SendClientHello \/ WireFault \/ UNCHANGED vars
  BY <1>9, QuietStep
  DEF SendClientHello, WireFault, Lose, Duplicate, Delay, Corrupt, Echo, Faulty, vars,
      handshakeVars, callerVars
<1> QED
  BY <1>1, <1>2, <1>3, <1>4, <1>5, <1>6, <1>7, <1>8, <1>9 DEF Next, FeedStep

\* The two connection objects and their callers implement the channel that the
\* HTTP layer relies on, over a wire that may do anything to the records.
THEOREM Refinement == Spec => ImplementsSecureChannel
<1>1. Init => Channel!Init
  BY RefinedInit
<1>2. SessionInv /\ SessionInv' /\ [Next]_vars => [Channel!Next]_(Channel!vars)
  BY RefinedStep
<1> QED
  BY <1>1, <1>2, SessionInvariant, PTL DEF Spec, ImplementsSecureChannel, Channel!Spec
=============================================================================
