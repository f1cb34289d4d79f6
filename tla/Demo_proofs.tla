----------------------------- MODULE Demo_proofs -----------------------------
(***************************************************************************)
(* Proofs about the demo.  First DemoProgram, the two threads and the two  *)
(* connections of one run, for any configurations, ports, lengths of what  *)
(* is exchanged and sizes of what recv() returns; then DemoSite, the       *)
(* directory, for any number of runs of any of the programs, killed        *)
(* anywhere and overlapping in any way, and any dates.                     *)
(***************************************************************************)
EXTENDS DemoProgram, DemoSite, DataInduction

-----------------------------------------------------------------------------
(* Configurations                                                           *)

ListenDirective == [port : Ports \union {0}, ssl : BOOLEAN]

\* What is in a configuration, and where its listeners are.
LEMMA ConfigShape ==
    ASSUME config \in Configs
    PROVE  /\ Len(config) \in Nat /\ DOMAIN config = 1 .. Len(config)
           /\ \A b \in 1 .. Len(config) :
                  /\ Len(Listens(b)) \in Nat /\ DOMAIN Listens(b) = 1 .. Len(Listens(b))
                  /\ \A i \in 1 .. Len(Listens(b)) :
                         <<b, i>> \in Listeners /\ Listens(b)[i] \in ListenDirective
           /\ \A l \in Listeners :
                  /\ l = <<l[1], l[2]>> /\ l[1] \in 1 .. Len(config)
                  /\ l[2] \in 1 .. Len(Listens(l[1]))
                  /\ Directive(l) \in ListenDirective
           /\ \A b, i : <<b, i>> \in Listeners =>
                  b \in 1 .. Len(config) /\ i \in 1 .. Len(Listens(b))
<1>1. config \in Seq(ServerBlock)
  BY ConstantsAssumption
<1>2. Len(config) \in Nat /\ DOMAIN config = 1 .. Len(config)
  BY <1>1
<1>3. ASSUME NEW b \in 1 .. Len(config)
      PROVE  Listens(b) \in Seq(ListenDirective)
  <2>1. config[b] \in ServerBlock
    BY <1>1
  <2>2. \A block \in ServerBlock : block.listens \in Seq(ListenDirective)
    BY DEF ServerBlock, ListenDirective
  <2> QED
    BY <2>1, <2>2 DEF Listens
<1>4. ASSUME NEW b \in 1 .. Len(config)
      PROVE  /\ Len(Listens(b)) \in Nat /\ DOMAIN Listens(b) = 1 .. Len(Listens(b))
             /\ \A i \in 1 .. Len(Listens(b)) : Listens(b)[i] \in ListenDirective
  BY <1>3
<1>5. \A l : l \in Listeners <=> \E b \in DOMAIN config : l \in {b} \X DOMAIN Listens(b)
  BY DEF Listeners
<1>6. ASSUME NEW b \in 1 .. Len(config), NEW i \in 1 .. Len(Listens(b))
      PROVE  <<b, i>> \in Listeners
  BY <1>2, <1>4, <1>5
<1>7. ASSUME NEW l \in Listeners
      PROVE  /\ l = <<l[1], l[2]>> /\ l[1] \in 1 .. Len(config)
             /\ l[2] \in 1 .. Len(Listens(l[1]))
             /\ Directive(l) \in ListenDirective
  <2>1. PICK b \in DOMAIN config : l \in {b} \X DOMAIN Listens(b)
    BY <1>5
  <2>2. l = <<l[1], l[2]>> /\ l[1] = b /\ l[2] \in DOMAIN Listens(b)
    BY <2>1
  <2> QED
    BY <1>2, <1>4, <2>2 DEF Directive
<1>8. ASSUME NEW b, NEW i, <<b, i>> \in Listeners
      PROVE  b \in 1 .. Len(config) /\ i \in 1 .. Len(Listens(b))
  <2> DEFINE l == <<b, i>>
  <2>1. l[1] = b /\ l[2] = i
    OBVIOUS
  <2>2. l[1] \in 1 .. Len(config) /\ l[2] \in 1 .. Len(Listens(l[1]))
    BY <1>7, <1>8
  <2> QED
    BY <2>1, <2>2
<1> QED
  BY <1>2, <1>4, <1>6, <1>7, <1>8

\* The configuration is read once.
LEMMA ConfigStays ==
    ASSUME config' = config
    PROVE  /\ Listeners' = Listeners
           /\ \A b : Listens(b)' = Listens(b) /\ (NeedsIdentity(b)' <=> NeedsIdentity(b))
           /\ \A l : Directive(l)' = Directive(l)
BY DEF Listeners, Listens, NeedsIdentity, Directive

\* _setup_listeners goes on: it is past the listener it was at.
LEMMA AdvancedPast ==
    ASSUME LifecycleTypeOK, place.b <= Len(config), place' = Advanced, config' = config
    PROVE  /\ place' \in [b : 1 .. Len(config) + 1, i : Nat]
           /\ place'.i # 0 => <<place'.b, place'.i>> \in Listeners /\ place'.b = place.b
           /\ Past' = Past \union (IF place.i > 0 THEN {Here} ELSE {})
<1> DEFINE b == place.b
           i == place.i
           n == Len(Listens(b))
<1>1. /\ b \in 1 .. Len(config) /\ i \in Nat /\ n \in Nat /\ place = [b |-> b, i |-> i]
      /\ i # 0 => <<b, i>> \in Listeners
  <2>1. place \in [b : 1 .. Len(config) + 1, i : Nat] /\ config \in Configs
    BY DEF LifecycleTypeOK
  <2>2. place = [b |-> b, i |-> i] /\ b \in 1 .. Len(config) + 1 /\ i \in Nat
    BY <2>1
  <2>3. Len(config) \in Nat
    BY <2>1, ConfigShape
  <2>4. b \in 1 .. Len(config)
    BY <2>2, <2>3
  <2>5. n \in Nat
    BY <2>1, <2>4, ConfigShape
  <2>6. i # 0 => <<b, i>> \in Listeners
    BY DEF LifecycleTypeOK, Here
  <2> QED
    BY <2>2, <2>4, <2>5, <2>6
<1>2. i # 0 => i \in 1 .. n
  BY <1>1, ConfigShape DEF LifecycleTypeOK
<1>3. \/ i < n /\ place' = [b |-> b, i |-> i + 1]
      \/ ~(i < n) /\ place' = [b |-> b + 1, i |-> 0]
  BY <1>1 DEF Advanced
<1>4. /\ place' \in [b : 1 .. Len(config) + 1, i : Nat]
      /\ place'.i # 0 => place'.b = b /\ place'.i \in 1 .. n
  <2>1. Len(config) \in Nat
    BY ConfigShape DEF LifecycleTypeOK
  <2> HIDE DEF b, i, n
  <2> QED
    BY <1>1, <1>3, <2>1
<1>5. ASSUME NEW l \in Listeners
      PROVE  l \in Past' <=> l \in Past \/ (i > 0 /\ l = <<b, i>>)
  <2>1. l = <<l[1], l[2]>> /\ l[1] \in 1 .. Len(config) /\ l[2] \in 1 .. Len(Listens(l[1]))
    BY ConfigShape DEF LifecycleTypeOK
  <2>2. l \in Past <=> l[1] < b \/ (l[1] = b /\ l[2] < i)
    BY DEF Past
  <2>3. l \in Past' <=> l[1] < place'.b \/ (l[1] = place'.b /\ l[2] < place'.i)
    BY ConfigStays DEF Past
  <2>4. l[1] = b => l[2] \in 1 .. n
    BY <2>1
  <2>5. l[1] \in Nat /\ l[2] \in Nat /\ l[2] > 0
    <3>1. Len(Listens(l[1])) \in Nat /\ Len(config) \in Nat
      BY <2>1, ConfigShape DEF LifecycleTypeOK
    <3> QED
      BY <2>1, <3>1
  <2>6. l = <<b, i>> <=> l[1] = b /\ l[2] = i
    BY <2>1
  <2> DEFINE l1 == l[1]
             l2 == l[2]
  <2> HIDE DEF b, i, n, l1, l2
  <2>7. CASE i < n /\ place' = [b |-> b, i |-> i + 1]
    BY <1>1, <1>2, <2>2, <2>3, <2>4, <2>5, <2>6, <2>7
  <2>8. CASE ~(i < n) /\ place' = [b |-> b + 1, i |-> 0]
    BY <1>1, <1>2, <2>2, <2>3, <2>4, <2>5, <2>6, <2>8
  <2> QED
    BY <1>3, <2>7, <2>8
<1>6. Past \subseteq Listeners /\ Past' \subseteq Listeners
  BY ConfigStays DEF Past
<1>7. Past' = Past \union (IF place.i > 0 THEN {Here} ELSE {})
  BY <1>1, <1>5, <1>6 DEF Here
<1> QED
  BY <1>1, <1>4, <1>7, ConfigShape DEF LifecycleTypeOK

-----------------------------------------------------------------------------
(* The server's thread and the thread that started it                       *)

\* What is in _bound_listeners.
LEMMA BoundEntries ==
    ASSUME LifecycleTypeOK
    PROVE  /\ Len(bound) \in Nat /\ DOMAIN bound = 1 .. Len(bound)
           /\ \A i \in DOMAIN bound : bound[i].listener \in Listeners /\ bound[i].port \in Ports
<1> DEFINE Entries == [listener : Listeners, port : Ports]
<1>1. bound \in Seq(Entries)
  BY DEF LifecycleTypeOK
<1>2. \A e \in Entries : e.listener \in Listeners /\ e.port \in Ports
  OBVIOUS
<1> HIDE DEF Entries
<1>3. /\ Len(bound) \in Nat /\ DOMAIN bound = 1 .. Len(bound)
      /\ \A i \in DOMAIN bound : bound[i] \in Entries
  BY <1>1
<1> QED
  BY <1>2, <1>3

\* Listening sockets in a state and the next one, if no socket is touched.
LEMMA SocketsStay ==
    ASSUME UNCHANGED <<config, sock>>
    PROVE  /\ Listeners' = Listeners
           /\ \A l : IsListening(l)' <=> IsListening(l)
           /\ ListenersAreConfigured => ListenersAreConfigured'
<1>1. /\ Listeners' = Listeners
      /\ \A l : Directive(l)' = Directive(l)
  BY ConfigStays
<1>2. \A l : IsListening(l)' <=> IsListening(l)
  BY DEF IsListening
<1>3. ListenersAreConfigured => ListenersAreConfigured'
  BY <1>1, <1>2 DEF ListenersAreConfigured
<1> QED
  BY <1>1, <1>2, <1>3

\* Who holds a port still has it served, if what is served stays.
LEMMA HeldPortsStay ==
    ASSUME HeldPortsAreServed, UNCHANGED <<config, sock>>,
           main'.port = main.port, main'.at = "lookup_error" => main.at = "lookup_error",
           stopping => stopping', raised' # raised => raised' = "loop"
    PROVE  HeldPortsAreServed'
<1>1. /\ Listeners' = Listeners
      /\ \A l : IsListening(l)' <=> IsListening(l)
      /\ \A l : Directive(l)' = Directive(l)
  BY SocketsStay, ConfigStays
<1>2. \A ssl \in BOOLEAN : Served(ssl) => Served(ssl)'
  BY <1>1 DEF Served
<1>3. ASSUME NEW ssl \in BOOLEAN, main'.port[ssl] # 0
      PROVE  /\ raised' # "setup"
             /\ \/ stopping' \/ raised' = "loop"
                \/ Served(ssl)' /\ \A l \in Listeners' : IsListening(l)'
  BY <1>1, <1>2, <1>3 DEF HeldPortsAreServed
<1>4. ASSUME main'.at = "lookup_error"
      PROVE  \/ stopping' \/ raised' # "nothing"
             \/ \E ssl \in BOOLEAN : \A l \in Listeners' : Directive(l)'.ssl # ssl
  BY <1>1, <1>4 DEF HeldPortsAreServed
<1> QED
  BY <1>3, <1>4 DEF HeldPortsAreServed

\* Whose socket has a port, if no socket is touched and a failed set-up stays one.
LEMMA PortsStay ==
    ASSUME PortsHaveTheirListeners, UNCHANGED <<config, place, sock>>,
           raised = "setup" => raised' = "setup"
    PROVE  PortsHaveTheirListeners'
<1>1. Listeners' = Listeners /\ Here' = Here
  BY ConfigStays DEF Here
<1>2. \A l : IsListening(l)' <=> IsListening(l)
  BY DEF IsListening
<1> QED
  BY <1>1, <1>2 DEF PortsHaveTheirListeners

\* Nobody holds a port before _ready is set.
LEMMA NobodyHoldsAPort ==
    ASSUME ReadyIsInOrder, ~ready, main' = main
    PROVE  HeldPortsAreServed'
BY DEF ReadyIsInOrder, HeldPortsAreServed

\* A step that leaves the set-up alone.
LEMMA SetUpStays ==
    ASSUME SetUpIsInOrder, UNCHANGED <<config, place, identity, sock, bound>>,
           \/ pc' = pc
           \/ pc = "new" /\ pc' = "setup"
           \/ pc \in {"setup", "loop"} /\ pc' = "close"
           \/ pc = "setup" /\ pc' = "loop" /\ place.b > Len(config)
           \/ pc = "signal" /\ pc' = "done"
    PROVE  SetUpIsInOrder'
<1>1. /\ Listeners' = Listeners
      /\ \A l : IsListening(l)' <=> IsListening(l)
      /\ \A b : NeedsIdentity(b)' <=> NeedsIdentity(b)
  BY SocketsStay, ConfigStays
<1>2. Past' = Past
  BY <1>1 DEF Past
<1>3. {l \in Listeners : IsListening(l)}' = {l \in Listeners : IsListening(l)}
  BY <1>1
<1> QED
  BY <1>1, <1>2, <1>3 DEF SetUpIsInOrder

\* A block's identity is loaded before its listeners are opened.
LEMMA LoadIdentityKeepsInv ==
    ASSUME LifecycleInv, LoadIdentity
    PROVE  LifecycleInv'
<1> USE DEF LoadIdentity, InSetup, shared
<1>1. /\ LifecycleTypeOK /\ config \in Configs
      /\ place.b <= Len(config) /\ place' = Advanced /\ config' = config
  BY DEF LifecycleInv, LifecycleTypeOK
<1>2. /\ place' \in [b : 1 .. Len(config) + 1, i : Nat]
      /\ place'.i # 0 => <<place'.b, place'.i>> \in Listeners /\ place'.b = place.b
      /\ Past' = Past
  BY <1>1, AdvancedPast
<1>3. /\ Listeners' = Listeners
      /\ \A l : IsListening(l)' <=> IsListening(l)
      /\ \A b : NeedsIdentity(b)' <=> NeedsIdentity(b)
  BY SocketsStay, ConfigStays
<1>4. LifecycleTypeOK'
  <2>1. place.b \in 0 .. Len(config) /\ Len(config) \in Nat
    BY <1>1, ConfigShape DEF LifecycleTypeOK
  <2>2. identity' \in 0 .. Len(config)
    BY <2>1 DEF LoadedIdentity
  <2> QED
    BY <1>1, <1>2, <1>3, <2>2 DEF LifecycleTypeOK, Here
<1>5. SetUpIsInOrder'
  <2>1. identity' = IF NeedsIdentity(place.b) THEN place.b ELSE 0
    BY DEF LoadedIdentity
  <2> QED
    BY <1>2, <1>3, <2>1 DEF LifecycleInv, SetUpIsInOrder
<1>6. ReadyIsInOrder'
  BY DEF LifecycleInv, ReadyIsInOrder
<1>7. ListenersAreConfigured' /\ HeldPortsAreServed'
  BY SocketsStay, HeldPortsStay DEF LifecycleInv
<1>8. PortsHaveTheirListeners'
  <2>1. raised = "nothing" /\ raised' = raised /\ sock' = sock
    BY DEF LifecycleInv, ReadyIsInOrder
  <2> QED
    BY <1>3, <2>1 DEF LifecycleInv, PortsHaveTheirListeners
<1> QED
  BY <1>4, <1>5, <1>6, <1>7, <1>8 DEF LifecycleInv

\* A set-up that fails has told nobody a port.
LEMMA LoadIdentityRaisesKeepsInv ==
    ASSUME LifecycleInv, LoadIdentityRaises
    PROVE  LifecycleInv'
<1> USE DEF LoadIdentityRaises, InSetup, Raise, setupVars, shared
<1>1. ~ready
  BY DEF LifecycleInv, ReadyIsInOrder
<1>2. Listeners' = Listeners
  BY ConfigStays
<1>3. LifecycleTypeOK'
  BY <1>2 DEF LifecycleInv, LifecycleTypeOK, Here
<1>4. SetUpIsInOrder'
  BY SetUpStays DEF LifecycleInv
<1>5. ReadyIsInOrder'
  BY <1>1 DEF LifecycleInv, ReadyIsInOrder
<1>6. ListenersAreConfigured' /\ HeldPortsAreServed'
  BY <1>1, SocketsStay, NobodyHoldsAPort DEF LifecycleInv
<1>7. PortsHaveTheirListeners'
  BY PortsStay DEF LifecycleInv
<1> QED
  BY <1>3, <1>4, <1>5, <1>6, <1>7 DEF LifecycleInv

\* A listener that is opened: its port is nobody else's, and it is registered
\* with the identity of its own block.
LEMMA OpenListenerKeepsInv ==
    ASSUME LifecycleInv, OpenListener
    PROVE  LifecycleInv'
<1> USE DEF OpenListener, InSetup
<1>1. /\ LifecycleTypeOK /\ config \in Configs /\ pc = "setup" /\ pc' = pc
      /\ place.b <= Len(config) /\ place' = Advanced /\ config' = config
      /\ place.i > 0 /\ Here \in Listeners
  BY DEF LifecycleInv, LifecycleTypeOK
<1>2. /\ place' \in [b : 1 .. Len(config) + 1, i : Nat]
      /\ place'.i # 0 => <<place'.b, place'.i>> \in Listeners /\ place'.b = place.b
      /\ Past' = Past \union {Here}
  BY <1>1, AdvancedPast
<1>3. /\ Listeners' = Listeners
      /\ \A l : Directive(l)' = Directive(l)
      /\ \A b : NeedsIdentity(b)' <=> NeedsIdentity(b)
  BY <1>1, ConfigStays
<1>4. PICK port \in BindablePorts(Directive(Here)) :
         /\ sock' = [sock EXCEPT ![Here] =
                [state |-> "registered", port |-> port,
                 identity |-> ContextIdentity(Directive(Here))]]
         /\ bound' = Append(bound, [listener |-> Here, port |-> port])
  OBVIOUS
<1>5. /\ Directive(Here) \in ListenDirective
      /\ Here[1] = place.b /\ Here[2] = place.i
      /\ place.i \in DOMAIN Listens(place.b)
  BY <1>1, ConfigShape DEF Here
<1>6. /\ port \in Ports /\ port # 0 /\ port \notin PortsInUse
      /\ Directive(Here).port \in {0, port}
  BY <1>5, ConstantsAssumption DEF BindablePorts, ListenDirective
<1>7. \A l \in Listeners : IsListening(l) <=> l \in Past
  BY <1>1 DEF LifecycleInv, SetUpIsInOrder
<1>8. Here \notin Past
  BY <1>1, <1>5 DEF Past, LifecycleTypeOK
<1>9. sock \in [Listeners -> [state : {"none", "unregistered", "registered", "closed"},
                             port : Ports \union {0}, identity : 0 .. Len(config)]]
  BY <1>1 DEF LifecycleTypeOK
<1>10. /\ sock'[Here].state = "registered" /\ sock'[Here].port = port
       /\ sock'[Here].identity = ContextIdentity(Directive(Here))
       /\ \A l \in Listeners : l # Here => sock'[l] = sock[l]
  BY <1>1, <1>4, <1>9
<1>11. \A l \in Listeners : IsListening(l)' <=> IsListening(l) \/ l = Here
  BY <1>10 DEF IsListening
<1>12. ContextIdentity(Directive(Here)) = IF Directive(Here).ssl THEN place.b ELSE 0
  <2>1. identity = IF NeedsIdentity(place.b) THEN place.b ELSE 0
    BY <1>1 DEF LifecycleInv, SetUpIsInOrder
  <2>2. Directive(Here).ssl => NeedsIdentity(place.b)
    BY <1>5 DEF NeedsIdentity, Directive
  <2> QED
    BY <2>1, <2>2 DEF ContextIdentity
<1>13. LifecycleTypeOK'
  <2>1. bound \in Seq([listener : Listeners, port : Ports])
    BY <1>1 DEF LifecycleTypeOK
  <2>2. [listener |-> Here, port |-> port] \in [listener : Listeners, port : Ports]
    BY <1>1, <1>6
  <2>3. bound' \in Seq([listener : Listeners, port : Ports])
    BY <1>4, <2>1, <2>2
  <2>4. ContextIdentity(Directive(Here)) \in 0 .. Len(config)
    <3>1. place.b \in 0 .. Len(config) /\ 0 \in 0 .. Len(config)
      BY <1>1, ConfigShape DEF LifecycleTypeOK
    <3> QED
      BY <1>12, <3>1
  <2>5. sock' \in [Listeners -> [state : {"none", "unregistered", "registered", "closed"},
                                port : Ports \union {0}, identity : 0 .. Len(config)]]
    BY <1>4, <1>6, <1>9, <2>4
  <2> HIDE DEF OpenListener
  <2>6. UNCHANGED <<config, pc, identity, ready, stopping, raised, main>>
    BY DEF OpenListener
  <2> QED
    BY <1>1, <1>2, <1>3, <2>3, <2>5, <2>6 DEF LifecycleTypeOK, Here
<1>14. /\ Len(bound) \in Nat /\ DOMAIN bound = 1 .. Len(bound)
       /\ DOMAIN bound' = 1 .. Len(bound) + 1
       /\ \A i \in DOMAIN bound : bound'[i] = bound[i] /\ bound[i].listener \in Listeners
       /\ bound'[Len(bound) + 1] = [listener |-> Here, port |-> port]
  <2> DEFINE Entries == [listener : Listeners, port : Ports]
             entry == [listener |-> Here, port |-> port]
  <2>1. bound \in Seq(Entries)
    BY <1>1 DEF LifecycleTypeOK
  <2>2. bound' = Append(bound, entry) /\ entry \in Entries
    BY <1>1, <1>4, <1>6
  <2>3. \A e \in Entries : e.listener \in Listeners
    OBVIOUS
  <2> HIDE DEF OpenListener, Entries, entry
  <2>4. /\ Len(bound) \in Nat /\ DOMAIN bound = 1 .. Len(bound)
        /\ \A i \in DOMAIN bound : bound[i] \in Entries
    BY <2>1
  <2>5. /\ DOMAIN bound' = 1 .. Len(bound) + 1
        /\ \A i \in DOMAIN bound : bound'[i] = bound[i]
        /\ bound'[Len(bound) + 1] = entry
    BY <2>1, <2>2
  <2> QED
    BY <2>3, <2>4, <2>5 DEF entry
<1>15. \A i \in DOMAIN bound' :
          \/ i \in DOMAIN bound /\ bound'[i] = bound[i]
          \/ i = Len(bound) + 1 /\ bound'[i] = [listener |-> Here, port |-> port]
  <2> HIDE DEF OpenListener
  <2> QED
    BY <1>14
<1>16. SetUpIsInOrder'
  <2> HIDE DEF OpenListener
  <2> USE <1>1, <1>3
  <2>1. identity' = identity /\ place'.i # 0 => identity' = IF NeedsIdentity(place'.b) THEN place'.b ELSE 0
    BY <1>2 DEF LifecycleInv, SetUpIsInOrder
  <2>2. {l \in Listeners : IsListening(l)}' = Past'
    BY <1>2, <1>7, <1>11 DEF Past
  <2>3. ASSUME NEW l \in Listeners, IsListening(l)'
        PROVE  sock'[l].port # 0 /\ \E i \in DOMAIN bound' : bound'[i].listener = l
    <3>1. CASE l = Here
      <4>1. Len(bound) + 1 \in DOMAIN bound'
        BY <1>14
      <4> QED
        BY <3>1, <4>1, <1>6, <1>10, <1>14
    <3>2. CASE l # Here
      <4>1. IsListening(l) /\ sock'[l] = sock[l]
        BY <2>3, <3>2, <1>10, <1>11
      <4>2. sock[l].port # 0 /\ \E i \in DOMAIN bound : bound[i].listener = l
        BY <4>1 DEF LifecycleInv, SetUpIsInOrder
      <4>3. DOMAIN bound \subseteq DOMAIN bound'
        BY <1>14
      <4> QED
        BY <4>1, <4>2, <4>3, <1>14
    <3> QED
      BY <3>1, <3>2
  <2>4. ASSUME NEW i \in DOMAIN bound'
        PROVE  (IsListening(bound[i].listener) /\ sock[bound[i].listener].port = bound[i].port)'
    <3>1. CASE i \in DOMAIN bound /\ bound'[i] = bound[i]
      <4>1. IsListening(bound[i].listener) /\ sock[bound[i].listener].port = bound[i].port
        BY <3>1 DEF LifecycleInv, SetUpIsInOrder
      <4>2. bound[i].listener \in Listeners /\ bound[i].listener # Here
        BY <3>1, <4>1, <1>7, <1>8, <1>14
      <4> QED
        BY <3>1, <4>1, <4>2, <1>10, <1>11
    <3>2. CASE bound'[i] = [listener |-> Here, port |-> port]
      BY <3>2, <1>10, <1>11
    <3> QED
      BY <3>1, <3>2, <1>15
  <2>5. UNCHANGED identity
    BY DEF OpenListener
  <2> QED
    BY <2>1, <2>2, <2>3, <2>4, <2>5 DEF SetUpIsInOrder
<1>17. ~ready /\ UNCHANGED <<ready, main>>
  BY DEF LifecycleInv, ReadyIsInOrder
<1>18. ReadyIsInOrder'
  BY <1>17 DEF LifecycleInv, ReadyIsInOrder
<1>19. ListenersAreConfigured'
  <2> HIDE DEF OpenListener
  <2> USE <1>1, <1>3
  <2>1. ASSUME NEW l \in Listeners, IsListening(l)'
        PROVE  /\ sock'[l].identity = IF Directive(l).ssl THEN l[1] ELSE 0
               /\ Directive(l).port \in {0, sock'[l].port}
               /\ \A k \in Listeners \ {l} : sock'[k].port # sock'[l].port
    <3>1. \A k \in Listeners : sock[k].port # port
      BY <1>6 DEF PortsInUse
    <3>2. CASE l = Here
      BY <3>1, <3>2, <1>5, <1>6, <1>10, <1>12
    <3>3. CASE l # Here
      <4>1. IsListening(l) /\ sock'[l] = sock[l]
        BY <2>1, <3>3, <1>10, <1>11
      <4>2. /\ sock[l].identity = IF Directive(l).ssl THEN l[1] ELSE 0
            /\ Directive(l).port \in {0, sock[l].port}
            /\ \A k \in Listeners \ {l} : sock[k].port # sock[l].port
        BY <4>1 DEF LifecycleInv, ListenersAreConfigured
      <4> QED
        BY <3>1, <3>3, <4>1, <4>2, <1>10
    <3> QED
      BY <3>2, <3>3
  <2> QED
    BY <2>1 DEF ListenersAreConfigured
<1>20. HeldPortsAreServed'
  BY <1>17, NobodyHoldsAPort DEF LifecycleInv
<1>21. PortsHaveTheirListeners'
  <2> HIDE DEF OpenListener
  <2>1. raised = "nothing" /\ raised' = raised
    BY <1>1 DEF LifecycleInv, ReadyIsInOrder, OpenListener
  <2> QED
    BY <1>1, <1>3, <1>10, <1>11, <2>1 DEF LifecycleInv, PortsHaveTheirListeners
<1> QED
  BY <1>13, <1>16, <1>18, <1>19, <1>20, <1>21 DEF LifecycleInv

\* A listener that cannot be opened may hold a port, but nobody else's.
LEMMA OpenListenerRaisesKeepsInv ==
    ASSUME LifecycleInv, OpenListenerRaises
    PROVE  LifecycleInv'
<1> USE DEF OpenListenerRaises, InSetup, Raise, setupVars, shared
<1>1. /\ LifecycleTypeOK /\ config \in Configs /\ pc = "setup" /\ pc' = "close"
      /\ Here \in Listeners /\ config' = config
  BY DEF LifecycleInv, LifecycleTypeOK
<1>2. ~ready
  BY DEF LifecycleInv, ReadyIsInOrder
<1>3. /\ Listeners' = Listeners
      /\ \A l : Directive(l)' = Directive(l)
  BY ConfigStays
<1>4. \A l \in Listeners : IsListening(l) <=> l \in Past
  BY <1>1 DEF LifecycleInv, SetUpIsInOrder
<1>5. Here \notin Past
  BY <1>1 DEF Past, Here, LifecycleTypeOK
<1>6. PICK port \in BindablePorts(Directive(Here)) \union {0} :
         sock' = [sock EXCEPT ![Here] =
             [state |-> "unregistered", port |-> port, identity |-> 0]]
  OBVIOUS
<1>7. /\ port \in Ports \union {0}
      /\ port # 0 => \A l \in Listeners : sock[l].port # port
  <2>1. port \in Ports \union {0} /\ (port # 0 => port \notin PortsInUse)
    BY <1>1, ConfigShape DEF BindablePorts, ListenDirective
  <2> QED
    BY <2>1 DEF PortsInUse
<1>8. /\ sock'[Here].state = "unregistered" /\ sock'[Here].port = port
      /\ \A l \in Listeners : l # Here => sock'[l] = sock[l]
  BY <1>6, <1>1 DEF LifecycleTypeOK
<1>9. \A l \in Listeners : IsListening(l)' <=> IsListening(l)
  BY <1>4, <1>5, <1>8 DEF IsListening
<1>10. \A l \in Listeners : IsListening(l) => l # Here /\ sock'[l] = sock[l]
  BY <1>4, <1>5, <1>8
<1>11. LifecycleTypeOK'
  <2>1. [state |-> "unregistered", port |-> port, identity |-> 0] \in
           [state : {"none", "unregistered", "registered", "closed"},
            port : Ports \union {0}, identity : 0 .. Len(config)]
    <3>1. port \in Ports \union {0}
      BY <1>7
    <3> QED
      BY <1>1, <3>1, ConfigShape
  <2> QED
    BY <1>6, <1>1, <1>3, <2>1 DEF LifecycleTypeOK, Here
<1>12. SetUpIsInOrder'
  <2>1. ASSUME NEW l \in Listeners, IsListening(l)'
        PROVE  sock'[l].port # 0 /\ \E i \in DOMAIN bound : bound[i].listener = l
    BY <2>1, <1>9, <1>10 DEF LifecycleInv, SetUpIsInOrder
  <2>2. ASSUME NEW i \in DOMAIN bound
        PROVE  (IsListening(bound[i].listener) /\ sock[bound[i].listener].port = bound[i].port)'
    <3>1. IsListening(bound[i].listener) /\ sock[bound[i].listener].port = bound[i].port
      BY <1>1 DEF LifecycleInv, SetUpIsInOrder
    <3>2. bound[i].listener \in Listeners
      BY <1>1, BoundEntries
    <3> QED
      BY <3>1, <3>2, <1>9, <1>10
  <2> QED
    BY <1>1, <1>3, <2>1, <2>2 DEF SetUpIsInOrder
<1>13. ReadyIsInOrder'
  BY <1>2 DEF LifecycleInv, ReadyIsInOrder
<1>14. ListenersAreConfigured'
  <2>1. ASSUME NEW l \in Listeners, IsListening(l)'
        PROVE  /\ sock'[l].identity = IF Directive(l).ssl THEN l[1] ELSE 0
               /\ Directive(l).port \in {0, sock'[l].port}
               /\ \A k \in Listeners \ {l} : sock'[k].port # sock'[l].port
    <3>1. IsListening(l) /\ sock'[l] = sock[l] /\ sock[l].port # 0
      BY <2>1, <1>9, <1>10 DEF LifecycleInv, SetUpIsInOrder
    <3>2. /\ sock[l].identity = IF Directive(l).ssl THEN l[1] ELSE 0
          /\ Directive(l).port \in {0, sock[l].port}
          /\ \A k \in Listeners \ {l} : sock[k].port # sock[l].port
      BY <3>1 DEF LifecycleInv, ListenersAreConfigured
    <3> QED
      BY <3>1, <3>2, <1>7, <1>8
  <2> QED
    BY <1>3, <2>1 DEF ListenersAreConfigured
<1>15. HeldPortsAreServed'
  BY <1>2, NobodyHoldsAPort DEF LifecycleInv
<1>16. PortsHaveTheirListeners'
  <2>1. raised = "nothing" /\ raised' = "setup" /\ place' = place
    BY <1>1 DEF LifecycleInv, ReadyIsInOrder
  <2>2. Here' = Here
    BY <2>1 DEF Here
  <2> QED
    BY <1>3, <1>8, <1>9, <2>1, <2>2 DEF LifecycleInv, PortsHaveTheirListeners
<1> QED
  BY <1>11, <1>12, <1>13, <1>14, <1>15, <1>16 DEF LifecycleInv

\* _ready is set once every listener is open.
LEMMA SetReadyKeepsInv ==
    ASSUME LifecycleInv, SetReady
    PROVE  LifecycleInv'
<1> USE DEF SetReady, setupVars
<1>1. ~ready
  BY DEF LifecycleInv, ReadyIsInOrder
<1>2. Listeners' = Listeners
  BY ConfigStays
<1>3. LifecycleTypeOK'
  BY <1>2 DEF LifecycleInv, LifecycleTypeOK, Here
<1>4. SetUpIsInOrder'
  BY SetUpStays DEF LifecycleInv
<1>5. ReadyIsInOrder'
  BY <1>1 DEF LifecycleInv, ReadyIsInOrder
<1>6. ListenersAreConfigured' /\ HeldPortsAreServed'
  BY <1>1, SocketsStay, NobodyHoldsAPort DEF LifecycleInv
<1>7. PortsHaveTheirListeners'
  BY PortsStay DEF LifecycleInv
<1> QED
  BY <1>3, <1>4, <1>5, <1>6, <1>7 DEF LifecycleInv

\* The loop ends because it was stopped, or something raised.
LEMMA LeavingTheLoopKeepsInv ==
    ASSUME LifecycleInv, LeaveLoop \/ LoopRaises
    PROVE  LifecycleInv'
<1> USE DEF LeaveLoop, LoopRaises, Raise, setupVars, shared
<1>1. Listeners' = Listeners
  BY ConfigStays
<1>2. LifecycleTypeOK'
  BY <1>1 DEF LifecycleInv, LifecycleTypeOK, Here
<1>3. SetUpIsInOrder'
  BY SetUpStays DEF LifecycleInv
<1>4. ReadyIsInOrder'
  BY DEF LifecycleInv, ReadyIsInOrder
<1>5. ListenersAreConfigured' /\ HeldPortsAreServed'
  BY SocketsStay, HeldPortsStay DEF LifecycleInv
<1>6. PortsHaveTheirListeners'
  <2>1. raised = "nothing"
    BY DEF LifecycleInv, ReadyIsInOrder
  <2> QED
    BY <2>1, PortsStay DEF LifecycleInv
<1> QED
  BY <1>2, <1>3, <1>4, <1>5, <1>6 DEF LifecycleInv

\* After _cleanup nothing listens; it runs when the server was stopped or failed.
LEMMA CloseSocketsKeepsInv ==
    ASSUME LifecycleInv, CloseSockets
    PROVE  LifecycleInv'
<1> USE DEF CloseSockets, setupVars, shared
<1>1. Listeners' = Listeners
  BY ConfigStays
<1>2. \A l \in Listeners : ~IsListening(l)'
  BY DEF ToClose, IsListening, NoSocket
<1>3. LifecycleTypeOK'
  <2>1. config \in Configs
    BY DEF LifecycleInv, LifecycleTypeOK
  <2>2. [NoSocket EXCEPT !.state = "closed"] \in
           [state : {"none", "unregistered", "registered", "closed"},
            port : Ports \union {0}, identity : 0 .. Len(config)]
    BY <2>1, ConfigShape DEF NoSocket
  <2> QED
    BY <1>1, <2>2 DEF LifecycleInv, LifecycleTypeOK, Here
<1>4. SetUpIsInOrder'
  BY <1>1, <1>2 DEF LifecycleInv, SetUpIsInOrder
<1>5. ReadyIsInOrder'
  BY DEF LifecycleInv, ReadyIsInOrder
<1>6. ListenersAreConfigured'
  BY <1>1, <1>2 DEF ListenersAreConfigured
<1>7. HeldPortsAreServed'
  <2>1. stopping \/ raised # "nothing"
    BY DEF LifecycleInv, ReadyIsInOrder
  <2>2. ASSUME NEW ssl \in BOOLEAN, main.port[ssl] # 0
        PROVE  raised # "setup" /\ (stopping \/ raised = "loop")
    BY <2>1, <2>2 DEF LifecycleInv, LifecycleTypeOK, HeldPortsAreServed
  <2> QED
    BY <2>1, <2>2 DEF HeldPortsAreServed
<1>8. PortsHaveTheirListeners'
  <2>1. Here' = Here
    BY DEF Here
  <2>2. ASSUME NEW l \in Listeners, sock'[l].port # 0
        PROVE  sock'[l] = sock[l] /\ ~IsListening(l)
    BY <2>2 DEF ToClose, NoSocket
  <2> QED
    BY <1>1, <2>1, <2>2 DEF LifecycleInv, PortsHaveTheirListeners
<1> QED
  BY <1>3, <1>4, <1>5, <1>6, <1>7, <1>8 DEF LifecycleInv

\* _bound_listeners is emptied while nothing of it listens any more.
LEMMA ClearBoundListenersKeepsInv ==
    ASSUME LifecycleInv, ClearBoundListeners
    PROVE  LifecycleInv'
<1> USE DEF ClearBoundListeners, setupVars, Cleared
<1>1. Listeners' = Listeners
  BY ConfigStays
<1>2. \A l \in Listeners : ~IsListening(l)'
  BY DEF LifecycleInv, SetUpIsInOrder, IsListening
<1>3. LifecycleTypeOK'
  <2>1. bound' \in Seq([listener : Listeners, port : Ports])
    OBVIOUS
  <2> QED
    BY <1>1, <2>1 DEF LifecycleInv, LifecycleTypeOK, Here
<1>4. SetUpIsInOrder'
  BY <1>1, <1>2 DEF LifecycleInv, SetUpIsInOrder
<1>5. ReadyIsInOrder'
  BY DEF LifecycleInv, ReadyIsInOrder
<1>6. ListenersAreConfigured' /\ HeldPortsAreServed'
  BY SocketsStay, HeldPortsStay DEF LifecycleInv
<1>7. PortsHaveTheirListeners'
  BY PortsStay DEF LifecycleInv
<1> QED
  BY <1>3, <1>4, <1>5, <1>6, <1>7 DEF LifecycleInv

\* The thread that waits is woken when no port can be found any more.
LEMMA SignalKeepsInv ==
    ASSUME LifecycleInv, Signal
    PROVE  LifecycleInv'
<1> USE DEF Signal, setupVars, Signalled
<1>1. Listeners' = Listeners
  BY ConfigStays
<1>2. LifecycleTypeOK'
  BY <1>1 DEF LifecycleInv, LifecycleTypeOK, Here
<1>3. SetUpIsInOrder'
  BY SetUpStays DEF LifecycleInv
<1>4. ReadyIsInOrder'
  BY DEF LifecycleInv, ReadyIsInOrder
<1>5. ListenersAreConfigured' /\ HeldPortsAreServed'
  BY SocketsStay, HeldPortsStay DEF LifecycleInv
<1>6. PortsHaveTheirListeners'
  BY PortsStay DEF LifecycleInv
<1> QED
  BY <1>2, <1>3, <1>4, <1>5, <1>6 DEF LifecycleInv

\* stop() comes from any thread, and a thread starts, waits and joins.
LEMMA WaitingKeepsInv ==
    ASSUME LifecycleInv, Start \/ WaitReturns \/ WaitTimesOut \/ MainStops \/ Join \/ Stop
    PROVE  LifecycleInv'
<1> USE DEF Start, WaitReturns, WaitTimesOut, MainStops, Join, Stop, serverVars, setupVars,
            EventsAtStart
<1>1. LifecycleTypeOK /\ ReadyIsInOrder
  BY DEF LifecycleInv
<1>2. /\ UNCHANGED <<config, place, identity, sock, bound, raised>>
      /\ pc' = pc \/ (pc = "new" /\ pc' = "setup")
      /\ ready' = ready /\ stopping \in BOOLEAN /\ (stopping' = stopping \/ stopping' = TRUE)
  <2>1. CASE Start
    BY <1>1, <2>1 DEF ReadyIsInOrder, LifecycleTypeOK
  <2>2. CASE ~Start
    BY <1>1, <2>2 DEF LifecycleTypeOK
  <2> QED
    BY <2>1, <2>2
<1>3. /\ main'.at \in {"waiting", "ready", "timeout", "stopped", "joined"} \/ main' = main
      /\ main'.port = main.port
      /\ main' \in [at : {"init", "waiting", "ready", "plain", "using", "lookup_error",
                          "timeout", "stopped", "joined"},
                    port : [BOOLEAN -> Ports \union {0}]]
  BY <1>1 DEF LifecycleTypeOK
<1>4. ReadyIsInOrder'
  BY <1>1 DEF ReadyIsInOrder, LifecycleTypeOK
<1> HIDE DEF Start, WaitReturns, WaitTimesOut, MainStops, Join, Stop, serverVars, setupVars,
             EventsAtStart
<1>5. Listeners' = Listeners
  BY <1>2, ConfigStays
<1>6. LifecycleTypeOK'
  BY <1>1, <1>2, <1>3, <1>5 DEF LifecycleTypeOK, Here
<1>7. SetUpIsInOrder'
  BY <1>2, SetUpStays DEF LifecycleInv
<1>8. ListenersAreConfigured' /\ HeldPortsAreServed'
  BY <1>2, <1>3, SocketsStay, HeldPortsStay DEF LifecycleInv
<1>9. PortsHaveTheirListeners'
  BY <1>2, PortsStay DEF LifecycleInv
<1> QED
  BY <1>4, <1>6, <1>7, <1>8, <1>9 DEF LifecycleInv

\* A set of indices has a least element, which CHOOSE finds.
LEMMA LeastIndex ==
    ASSUME NEW n \in Nat, NEW I \in SUBSET (1 .. n), I # {}
    PROVE  (CHOOSE i \in I : \A j \in I : i <= j) \in I
<1>1. \E i \in I : \A j \in I : i <= j
  BY LeastElement
<1> QED
  BY <1>1

\* One entry of a function in a field of a record is replaced.
LEMMA FieldIsUpdated ==
    ASSUME NEW A, NEW S, NEW T, NEW r \in [at : A, port : [S -> T]],
           NEW a \in A, NEW x \in S, NEW v \in T,
           NEW q, q = [r EXCEPT !.at = a, !.port[x] = v]
    PROVE  /\ q \in [at : A, port : [S -> T]]
           /\ q.at = a /\ q.port[x] = v
           /\ \A y \in S : y # x => q.port[y] = r.port[y]
OBVIOUS

\* While the loop runs every listener is open and can be found; afterwards the
\* server was stopped or has failed.
LEMMA BoundPortKeepsInv ==
    ASSUME LifecycleInv, NEW ssl \in BOOLEAN, BoundPort(ssl)
    PROVE  LifecycleInv'
<1> DEFINE matches == {i \in DOMAIN bound : Directive(bound[i].listener).ssl = ssl}
           first == CHOOSE i \in matches : \A j \in matches : i <= j
<1>1. /\ LifecycleTypeOK /\ SetUpIsInOrder /\ ReadyIsInOrder /\ HeldPortsAreServed
      /\ config \in Configs
  BY DEF LifecycleInv, LifecycleTypeOK
<1>2. /\ UNCHANGED <<config, place, identity, sock, bound, raised, pc, ready, stopping>>
      /\ main.at \in {"plain", "ready"}
      /\ matches = {} => main' = [main EXCEPT !.at = "lookup_error"]
      /\ matches # {} => main' = [main EXCEPT !.at = IF ssl THEN "using" ELSE "plain",
                                             !.port[ssl] = bound[first].port]
  BY DEF BoundPort, serverVars, setupVars
<1>3. /\ ready /\ pc \notin {"new", "setup"} /\ (raised = "setup" => pc = "done")
      /\ pc # "loop" => stopping \/ raised # "nothing"
  BY <1>1, <1>2 DEF ReadyIsInOrder, LifecycleTypeOK
<1>4. pc = "loop" => \A l \in Listeners :
                        IsListening(l) /\ \E i \in DOMAIN bound : bound[i].listener = l
  <2>1. ASSUME pc = "loop", NEW l \in Listeners
        PROVE  l \in Past
    <3>1. place.b > Len(config) /\ place.b \in Nat /\ Len(config) \in Nat
      BY <1>1, <2>1, ConfigShape DEF SetUpIsInOrder, LifecycleTypeOK
    <3>2. l[1] \in 1 .. Len(config)
      BY <1>1, ConfigShape
    <3> QED
      BY <3>1, <3>2 DEF Past
  <2> QED
    BY <1>1, <2>1 DEF SetUpIsInOrder
<1>5. ASSUME matches # {}
      PROVE  /\ first \in DOMAIN bound /\ Directive(bound[first].listener).ssl = ssl
             /\ bound[first].listener \in Listeners /\ bound[first].port \in Ports
             /\ pc \notin {"signal", "done"}
  <2>1. /\ Len(bound) \in Nat /\ DOMAIN bound = 1 .. Len(bound)
        /\ \A i \in DOMAIN bound : bound[i].listener \in Listeners /\ bound[i].port \in Ports
    BY <1>1, BoundEntries
  <2>2. first \in matches
    BY <1>5, <2>1, LeastIndex
  <2>3. bound # <<>>
    BY <2>2
  <2> QED
    BY <1>1, <2>1, <2>2, <2>3 DEF SetUpIsInOrder
<1>6. /\ Listeners' = Listeners
      /\ \A l : IsListening(l)' <=> IsListening(l)
      /\ \A l : Directive(l)' = Directive(l)
  BY <1>2, SocketsStay, ConfigStays
<1> DEFINE Places == {"init", "waiting", "ready", "plain", "using", "lookup_error",
                      "timeout", "stopped", "joined"}
           Held == Ports \union {0}
<1>7. /\ main' \in [at : Places, port : [BOOLEAN -> Held]]
      /\ matches # {} => /\ main'.at # "lookup_error" /\ main'.port[ssl] = bound[first].port
                         /\ \A tls \in BOOLEAN : tls # ssl => main'.port[tls] = main.port[tls]
  <2>1. main \in [at : Places, port : [BOOLEAN -> Held]]
    BY <1>1 DEF LifecycleTypeOK
  <2> DEFINE next == IF ssl THEN "using" ELSE "plain"
  <2>2. next \in Places /\ next # "lookup_error" /\ "lookup_error" \in Places
    OBVIOUS
  <2>3. matches # {} => bound[first].port \in Held
    BY <1>5
  <2>4. matches # {} => main' = [main EXCEPT !.at = next, !.port[ssl] = bound[first].port]
    BY <1>2
  <2> HIDE DEF matches, first, next, Places, Held
  <2>5. CASE matches # {}
    <3> DEFINE port == bound[first].port
    <3>1. port \in Held /\ main' = [main EXCEPT !.at = next, !.port[ssl] = port]
      BY <2>3, <2>4, <2>5
    <3> HIDE DEF port
    <3>2. /\ main' \in [at : Places, port : [BOOLEAN -> Held]]
          /\ main'.at = next /\ main'.port[ssl] = port
          /\ \A tls \in BOOLEAN : tls # ssl => main'.port[tls] = main.port[tls]
      BY <2>1, <2>2, <3>1, FieldIsUpdated, Zenon
    <3> QED
      BY <2>2, <3>2 DEF port
  <2>6. CASE matches = {}
    BY <1>2, <2>1, <2>2, <2>6
  <2> QED
    BY <2>5, <2>6
<1>8. LifecycleTypeOK'
  BY <1>1, <1>2, <1>6, <1>7 DEF LifecycleTypeOK, Here
<1>9. SetUpIsInOrder'
  BY <1>1, <1>2, SetUpStays
<1>10. ReadyIsInOrder'
  <2>1. main'.at # "init" /\ main.at # "init"
    BY <1>1, <1>2 DEF LifecycleTypeOK
  <2> QED
    BY <1>1, <1>2, <1>3, <2>1 DEF ReadyIsInOrder
<1>11. ListenersAreConfigured'
  BY <1>2, SocketsStay DEF LifecycleInv
<1>12. HeldPortsAreServed'
  <2>1. CASE matches = {}
    <3>1. main' = [main EXCEPT !.at = "lookup_error"] /\ main'.port = main.port
      BY <1>1, <1>2, <2>1 DEF LifecycleTypeOK
    <3>2. \/ stopping \/ raised # "nothing"
          \/ \A l \in Listeners : Directive(l).ssl # ssl
      BY <1>3, <1>4, <2>1
    <3>3. ASSUME NEW tls \in BOOLEAN
          PROVE  Served(tls)' <=> Served(tls)
      BY <1>2, <1>6, <3>1 DEF Served
    <3> QED
      BY <1>1, <1>2, <1>6, <3>1, <3>2, <3>3 DEF HeldPortsAreServed
  <2>2. CASE matches # {}
    <3>1. /\ main'.at # "lookup_error" /\ main'.port[ssl] = bound[first].port
          /\ \A tls \in BOOLEAN : tls # ssl => main'.port[tls] = main.port[tls]
      BY <1>7, <2>2
    <3>2. raised # "setup"
      BY <1>3, <1>5, <2>2
    <3>3. pc = "loop" => Served(ssl)'
      <4>1. pc = "loop" => /\ IsListening(bound[first].listener)
                           /\ sock[bound[first].listener].port = bound[first].port
        BY <1>1, <1>5, <2>2 DEF SetUpIsInOrder
      <4> QED
        BY <1>2, <1>5, <1>6, <2>2, <3>1, <4>1 DEF Served
    <3>4. ASSUME NEW tls \in BOOLEAN, main'.port[tls] # 0
          PROVE  /\ raised' # "setup"
                 /\ \/ stopping' \/ raised' = "loop"
                    \/ Served(tls)' /\ \A l \in Listeners' : IsListening(l)'
      <4>1. CASE tls = ssl
        <5>1. pc # "loop" => stopping \/ raised = "loop"
          BY <1>1, <1>3, <3>2 DEF LifecycleTypeOK
        <5> QED
          BY <1>2, <1>4, <1>6, <3>2, <3>3, <4>1, <5>1
      <4>2. CASE tls # ssl
        <5>1. main'.port[tls] = main.port[tls] /\ main.port[tls] # 0
          BY <3>1, <3>4, <4>2
        <5>2. Served(tls)' <=> Served(tls)
          BY <1>2, <1>6, <5>1 DEF Served
        <5> QED
          BY <1>1, <1>2, <1>6, <5>1, <5>2 DEF HeldPortsAreServed
      <4> QED
        BY <4>1, <4>2
    <3> QED
      BY <3>1, <3>4 DEF HeldPortsAreServed
  <2> QED
    BY <2>1, <2>2
<1>13. PortsHaveTheirListeners'
  BY <1>2, PortsStay DEF LifecycleInv
<1> QED
  BY <1>8, <1>9, <1>10, <1>11, <1>12, <1>13 DEF LifecycleInv

\* A step of the client's connection.
LEMMA UnchangedKeepsInv ==
    ASSUME LifecycleInv, UNCHANGED lifecycleVars
    PROVE  LifecycleInv'
<1> USE DEF lifecycleVars
<1>1. Listeners' = Listeners
  BY ConfigStays
<1>2. LifecycleTypeOK'
  BY <1>1 DEF LifecycleInv, LifecycleTypeOK, Here
<1>3. SetUpIsInOrder'
  BY SetUpStays DEF LifecycleInv
<1>4. ReadyIsInOrder'
  BY DEF LifecycleInv, ReadyIsInOrder
<1>5. ListenersAreConfigured' /\ HeldPortsAreServed'
  BY SocketsStay, HeldPortsStay DEF LifecycleInv
<1>6. PortsHaveTheirListeners'
  BY PortsStay DEF LifecycleInv
<1> QED
  BY <1>2, <1>3, <1>4, <1>5, <1>6 DEF LifecycleInv

-----------------------------------------------------------------------------
(* The client and the server's end of its connection                        *)

\* The lengths of what the server sends.
LEMMA Lengths ==
    /\ Response \in Nat /\ Response > 0 /\ Response = HeaderLength + BodyLength
    /\ Total("plain") = Response
    /\ Total("tls") \in Nat /\ Total("tls") = Flight + Response + Overhead
    /\ Flight \in Nat /\ Flight < Total("tls")
BY LengthsAssumption DEF Response, Total

\* What the server sends fits what it was asked.
LEMMA ServerSendsKeepsInv ==
    ASSUME ClientInv, ServerSends
    PROVE  ClientInv'
<1>1. /\ kind \in {"plain", "tls"} /\ sent \in Nat /\ got \in Nat /\ got <= sent
      /\ sent <= Total(kind) /\ Total(kind) \in Nat /\ asked \in BOOLEAN
  BY Lengths DEF ClientInv, ClientTypeOK
<1>2. /\ Allowed \in Nat /\ Allowed <= Total(kind)
      /\ ~asked => Allowed <= IF kind = "tls" THEN Flight ELSE 0
  BY <1>1, Lengths DEF Allowed
<1>3. /\ sent' \in Nat /\ sent < sent' /\ sent' <= Allowed
      /\ at # "connect"
      /\ UNCHANGED <<kind, at, got, asked, server, quit, returned>>
  BY <1>1, <1>2 DEF ServerSends
<1>4. sent' \in 0 .. Total(kind)' /\ got' \in 0 .. sent'
  BY <1>1, <1>2, <1>3 DEF Total
<1>5. ClientTypeOK'
  BY <1>3, <1>4 DEF ClientInv, ClientTypeOK
<1>6. (~asked => sent <= IF kind = "tls" THEN Flight ELSE 0)'
  BY <1>1, <1>2, <1>3, Lengths
<1>7. server = "open"
  BY DEF ServerSends
<1> QED
  BY <1>3, <1>5, <1>6, <1>7 DEF ClientInv

\* It closes when it has sent all, or quits.
LEMMA ServerLeavesKeepsInv ==
    ASSUME ClientInv, ServerCloses \/ ServerQuits
    PROVE  ClientInv'
<1>1. /\ UNCHANGED <<kind, at, got, sent, asked, returned>>
      /\ server' \in {"closed", "reset"}
      /\ \/ sent = Total(kind) /\ quit' = quit
         \/ quit' = TRUE
  BY DEF ServerCloses, ServerQuits
<1>2. Total(kind)' = Total(kind) /\ Total("tls")' = Total("tls")
  BY <1>1 DEF Total
<1>3. ClientTypeOK'
  BY <1>1, <1>2 DEF ClientInv, ClientTypeOK
<1> QED
  BY <1>1, <1>2, <1>3 DEF ClientInv

\* An exception ends the client; nothing else changes.
LEMMA ClientRaisesKeepsInv ==
    ASSUME ClientInv, ClientRaises
    PROVE  ClientInv'
BY DEF ClientInv, ClientTypeOK, ClientRaises, connectionVars, Total

\* A connection is opened once, with nothing asked or sent on it.
LEMMA ConnectKeepsInv ==
    ASSUME ClientInv, NEW reachable, Connect(reachable)
    PROVE  ClientInv'
<1>1. CASE ClientRaises
  BY <1>1, ClientRaisesKeepsInv
<1>2. CASE ~ClientRaises
  BY <1>2 DEF Connect, ClientInv, ClientTypeOK, connectionVars, Total
<1> QED
  BY <1>1, <1>2

\* Before a request is sent no response has been.
LEMMA SendRequestKeepsInv ==
    ASSUME ClientInv, SendRequest
    PROVE  ClientInv'
<1>1. CASE ClientRaises
  BY <1>1, ClientRaisesKeepsInv
<1>2. CASE ~ClientRaises
  <2>1. /\ at = "request" /\ at' = "reading" /\ asked' = (server = "open")
        /\ UNCHANGED <<kind, got, sent, server, quit, returned>>
    BY <1>2 DEF SendRequest
  <2>2. asked' \in BOOLEAN /\ ~asked
    BY <2>1 DEF ClientInv
  <2>3. ClientTypeOK'
    BY <2>1, <2>2 DEF ClientInv, ClientTypeOK, Total
  <2>4. /\ sent <= IF kind = "tls" THEN Flight ELSE 0
        /\ sent \in Nat /\ got \in Nat /\ got <= sent
    <3>1. sent \in 0 .. Total(kind) /\ got \in 0 .. sent /\ kind \in {"plain", "tls"}
      BY DEF ClientInv, ClientTypeOK
    <3>2. sent <= IF kind = "tls" THEN Flight ELSE 0
      BY <2>2 DEF ClientInv
    <3> QED
      BY <3>1, <3>2, Lengths
  <2>5. kind = "tls" => got < Total("tls")
    BY <2>4, Lengths
  <2>6. Total("tls")' = Total("tls")
    BY DEF Total
  <2> QED
    BY <2>1, <2>3, <2>4, <2>5, <2>6 DEF ClientInv
<1> QED
  BY <1>1, <1>2

\* What recv() gives has arrived.
LEMMA ReceivedHasArrived ==
    ASSUME ClientInv, NEW n \in Received
    PROVE  n \in Nat /\ n > 0 /\ got + n \in 0 .. sent
BY Lengths, LengthsAssumption DEF ClientInv, ClientTypeOK, Received

\* The handshake is read to its end.
LEMMA RecvHandshakeKeepsInv ==
    ASSUME ClientInv, RecvHandshake
    PROVE  ClientInv'
<1>1. CASE ClientRaises
  BY <1>1, ClientRaisesKeepsInv
<1>2. CASE ~ClientRaises
  <2>1. PICK n \in Received :
           /\ got' = got + n
           /\ at' = IF got' >= Flight THEN "request" ELSE at
           /\ UNCHANGED <<kind, connectionVars, returned>>
    BY <1>2 DEF RecvHandshake
  <2>2. got' \in 0 .. sent
    BY <2>1, ReceivedHasArrived
  <2>3. at = "handshake" /\ at' \in {"handshake", "request"}
    BY <2>1 DEF RecvHandshake
  <2>4. UNCHANGED <<kind, sent, asked, server, quit, returned>>
    BY <2>1 DEF connectionVars
  <2> HIDE DEF RecvHandshake
  <2> QED
    BY <2>2, <2>3, <2>4 DEF ClientInv, ClientTypeOK, Total
<1> QED
  BY <1>1, <1>2

\* A response that is returned ends its connection.
LEMMA ReturnKeepsInv ==
    ASSUME ClientInv, NEW length \in 0 .. Response, Return(length)
    PROVE  ClientInv'
<1>1. /\ kind \in {"plain", "tls"}
      /\ returned \in [{"plain", "tls"} -> {<<>>} \union {<<n>> : n \in 0 .. Response}]
  BY DEF ClientInv, ClientTypeOK
<1>2. returned' \in [{"plain", "tls"} -> {<<>>} \union {<<n>> : n \in 0 .. Response}]
  BY <1>1 DEF Return
<1>3. CASE kind = "plain"
  <2>1. /\ at' = "connect" /\ kind' = "tls" /\ got' = 0 /\ sent' = 0
        /\ asked' = FALSE /\ server' = "open" /\ quit' = FALSE
    BY <1>3 DEF Return, NewBuffer
  <2>2. Response' = Response /\ Total(kind)' = Total("tls") /\ (IF kind = "tls" THEN Flight ELSE 0)' = Flight
    BY <2>1 DEF Response, Total
  <2>3. 0 \in 0 .. Total("tls") /\ 0 \in 0 .. 0 /\ 0 <= Flight
    BY Lengths
  <2> QED
    BY <1>2, <2>1, <2>2, <2>3 DEF ClientInv, ClientTypeOK
<1>4. CASE kind = "tls"
  <2>1. at' = "done" /\ UNCHANGED <<kind, got, sent, asked, server, quit>>
    BY <1>4 DEF Return, connectionVars
  <2>2. Response' = Response
    BY DEF Response
  <2> QED
    BY <1>2, <2>1, <2>2 DEF ClientInv, ClientTypeOK, Total
<1> QED
  BY <1>1, <1>3, <1>4

\* A plain response is what was read.
LEMMA RecvPlainKeepsInv ==
    ASSUME ClientInv, RecvPlain
    PROVE  ClientInv'
<1>1. CASE ClientRaises
  BY <1>1, ClientRaisesKeepsInv
<1>2. CASE ~ClientRaises
  <2>1. PICK n \in Received \union {0} :
           IF EndsReading(n) THEN Return(got + n)
           ELSE got' = got + n /\ UNCHANGED <<kind, at, connectionVars, returned>>
    BY <1>2 DEF RecvPlain
  <2>2. kind = "plain" /\ at = "reading"
    BY DEF RecvPlain
  <2>3. got + n \in 0 .. sent /\ sent <= Response /\ sent \in Nat
    <3>1. sent \in 0 .. Total("plain") /\ got \in 0 .. sent
      BY <2>2 DEF ClientInv, ClientTypeOK
    <3>2. n # 0 => got + n \in 0 .. sent
      BY ReceivedHasArrived
    <3> QED
      BY <3>1, <3>2, Lengths
  <2>4. CASE EndsReading(n)
    <3>1. got + n \in 0 .. Response
      BY <2>3, Lengths
    <3> QED
      BY <2>1, <2>4, <3>1, ReturnKeepsInv
  <2>5. CASE ~EndsReading(n)
    <3>1. got' \in 0 .. sent /\ UNCHANGED <<kind, at, sent, asked, server, quit, returned>>
      BY <2>1, <2>3, <2>5 DEF connectionVars
    <3> QED
      BY <2>2, <3>1 DEF ClientInv, ClientTypeOK, Total
  <2> QED
    BY <2>4, <2>5
<1> QED
  BY <1>1, <1>2

\* Plaintext comes with the whole record, and then it is a whole response.
LEMMA PlaintextIsWhole ==
    ASSUME NEW n \in Nat
    PROVE  /\ Plaintext(n) \in {0, Response}
           /\ IsComplete(Plaintext(n)) <=> n >= Total("tls")
           /\ IsComplete(Plaintext(n)) => Plaintext(n) = Response
           /\ n < Total("tls") => Plaintext(n) = 0
BY Lengths, LengthsAssumption DEF Plaintext, IsComplete

\* A TLS client that reads on has not read all.
LEMMA RecvTLSKeepsInv ==
    ASSUME ClientInv, RecvTLS
    PROVE  ClientInv'
<1>1. CASE ClientRaises
  BY <1>1, ClientRaisesKeepsInv
<1>2. ASSUME NEW n \in Received,
             IF IsComplete(Plaintext(got + n)) THEN Return(Plaintext(got + n))
             ELSE got' = got + n /\ UNCHANGED <<kind, at, connectionVars, returned>>
      PROVE  ClientInv'
  <2>1. got + n \in 0 .. sent /\ sent \in Nat /\ got + n \in Nat
    <3>1. got + n \in 0 .. sent
      BY ReceivedHasArrived
    <3>2. sent \in Nat
      BY Lengths DEF ClientInv, ClientTypeOK
    <3> QED
      BY <3>1, <3>2
  <2>2. CASE IsComplete(Plaintext(got + n))
    <3>1. Plaintext(got + n) \in 0 .. Response
      BY <2>1, PlaintextIsWhole, Lengths
    <3> QED
      BY <1>2, <2>2, <3>1, ReturnKeepsInv
  <2>3. CASE ~IsComplete(Plaintext(got + n))
    <3>1. got' = got + n /\ UNCHANGED <<kind, at, sent, asked, server, quit, returned>>
      BY <1>2, <2>3 DEF connectionVars
    <3>2. got' < Total("tls") /\ got' \in 0 .. sent
      BY <2>1, <2>3, <3>1, PlaintextIsWhole, Lengths
    <3>3. Total("tls")' = Total("tls")
      BY DEF Total
    <3>4. at = "reading"
      BY DEF RecvTLS
    <3> QED
      BY <3>1, <3>2, <3>3, <3>4 DEF ClientInv, ClientTypeOK, Total
  <2> QED
    BY <2>2, <2>3
<1>3. CASE Return(Plaintext(got))
  <2>1. got \in Nat
    BY Lengths DEF ClientInv, ClientTypeOK
  <2>2. Plaintext(got) \in 0 .. Response
    BY <2>1, PlaintextIsWhole, Lengths
  <2> QED
    BY <1>3, <2>2, ReturnKeepsInv
<1> QED
  BY <1>1, <1>2, <1>3 DEF RecvTLS

\* The client, whatever it can reach.
LEMMA ClientKeepsInv ==
    ASSUME ClientInv, NEW reachable, Client(reachable)
    PROVE  ClientInv'
BY ConnectKeepsInv, SendRequestKeepsInv, RecvHandshakeKeepsInv, RecvPlainKeepsInv,
   RecvTLSKeepsInv, ClientRaisesKeepsInv DEF Client, Timeout

-----------------------------------------------------------------------------
(* The program                                                               *)

\* A step of the program is one of either thread's, of the client's or of the
\* server's end of its connection.
LEMMA StepKeepsInv ==
    ASSUME DemoInv, [Next]_vars
    PROVE  DemoInv'
<1>1. LifecycleInv /\ ClientInv
  BY DEF DemoInv
<1>2. ASSUME UNCHANGED clientVars
      PROVE  ClientInv'
  BY <1>1, <1>2 DEF clientVars, ClientInv, ClientTypeOK, Total
<1>3. CASE ServerThread
  <2>1. CASE (SetUpStep \/ LeaveLoop \/ ClearBoundListeners \/ Signal) /\ UNCHANGED clientVars
    <3>1. LifecycleInv'
      BY <1>1, <2>1, LoadIdentityKeepsInv, LoadIdentityRaisesKeepsInv, OpenListenerKeepsInv,
         OpenListenerRaisesKeepsInv, SetReadyKeepsInv, LeavingTheLoopKeepsInv,
         ClearBoundListenersKeepsInv, SignalKeepsInv DEF SetUpStep
    <3> QED
      BY <1>2, <2>1, <3>1 DEF DemoInv
  <2>2. CASE CleanUp
    <3>1. LifecycleInv'
      BY <1>1, <2>2, CloseSocketsKeepsInv DEF CleanUp
    <3>2. ServerCloses \/ ServerQuits \/ UNCHANGED clientVars
      BY <2>2 DEF CleanUp
    <3>3. ClientInv'
      BY <1>1, <1>2, <3>2, ServerLeavesKeepsInv
    <3> QED
      BY <3>1, <3>3 DEF DemoInv
  <2> QED
    BY <1>3, <2>1, <2>2 DEF ServerThread
<1>4. CASE ServeClient
  <2>1. ClientInv'
    BY <1>1, <1>4, ServerSendsKeepsInv, ServerLeavesKeepsInv DEF ServeClient
  <2> QED
    BY <1>1, <1>4, <2>1, UnchangedKeepsInv DEF ServeClient, DemoInv
<1>5. CASE MainThread
  <2>1. CASE MainStep /\ UNCHANGED clientVars
    <3>1. LifecycleInv'
      BY <1>1, <2>1, WaitingKeepsInv, BoundPortKeepsInv DEF MainStep
    <3> QED
      BY <1>2, <2>1, <3>1 DEF DemoInv
  <2>2. CASE UseServer
    <3>1. ClientInv'
      BY <1>1, <2>2, ClientKeepsInv DEF UseServer
    <3> QED
      BY <1>1, <2>2, <3>1, UnchangedKeepsInv DEF UseServer, DemoInv
  <2>3. CASE FinishUsing
    BY <1>1, <1>2, <2>3, WaitingKeepsInv DEF FinishUsing, DemoInv
  <2> QED
    BY <1>5, <2>1, <2>2, <2>3 DEF MainThread
<1>6. CASE (LoopRaises \/ WaitTimesOut \/ Stop) /\ UNCHANGED clientVars
  BY <1>1, <1>2, <1>6, LeavingTheLoopKeepsInv, WaitingKeepsInv DEF DemoInv
<1>7. CASE UNCHANGED vars
  BY <1>1, <1>2, <1>7, UnchangedKeepsInv DEF DemoInv, vars
<1> QED
  BY <1>3, <1>4, <1>5, <1>6, <1>7 DEF Next

\* Before anything has happened.
LEMMA InitIsInv ==
    ASSUME Init
    PROVE  DemoInv
<1> USE DEF Init
<1>1. config \in Configs /\ Len(config) \in Nat
  BY ConfigShape DEF LifecycleInit
<1>2. LifecycleTypeOK
  <2>1. NoSocket \in [state : {"none", "unregistered", "registered", "closed"},
                      port : Ports \union {0}, identity : 0 .. Len(config)]
    BY <1>1 DEF NoSocket
  <2>2. [ssl \in BOOLEAN |-> 0] \in [BOOLEAN -> Ports \union {0}]
    OBVIOUS
  <2>3. bound \in Seq([listener : Listeners, port : Ports])
    BY DEF LifecycleInit
  <2>4. place \in [b : 1 .. Len(config) + 1, i : Nat] /\ place.i = 0 /\ identity \in 0 .. Len(config)
    BY <1>1 DEF LifecycleInit
  <2> QED
    BY <1>1, <2>1, <2>2, <2>3, <2>4 DEF LifecycleInit, LifecycleTypeOK
<1>3. \A l \in Listeners : ~IsListening(l)
  BY DEF LifecycleInit, IsListening, NoSocket
<1>4. Past = {}
  <2>1. \A l \in Listeners : l[1] \in Nat /\ l[2] \in Nat /\ l[1] >= 1 /\ l[2] >= 1
    <3>1. ASSUME NEW l \in Listeners
          PROVE  l[1] \in 1 .. Len(config) /\ l[2] \in 1 .. Len(Listens(l[1])) /\ Len(Listens(l[1])) \in Nat
      BY <1>1, ConfigShape
    <3> QED
      BY <1>1, <3>1
  <2>2. place.b = 1 /\ place.i = 0
    BY DEF LifecycleInit
  <2> QED
    BY <2>1, <2>2 DEF Past
<1>5. SetUpIsInOrder
  <2>1. pc = "new" /\ place.i = 0 /\ bound = <<>>
    BY DEF LifecycleInit
  <2> QED
    BY <1>3, <1>4, <2>1 DEF SetUpIsInOrder
<1>6. ReadyIsInOrder /\ PortsHaveTheirListeners
  BY DEF LifecycleInit, ReadyIsInOrder, PortsHaveTheirListeners, NoSocket
<1>7. ListenersAreConfigured
  BY <1>3 DEF ListenersAreConfigured
<1>8. HeldPortsAreServed
  BY DEF LifecycleInit, HeldPortsAreServed
<1>9. ClientTypeOK
  <2>1. 0 \in 0 .. Total("plain") /\ 0 \in 0 .. 0
    BY Lengths
  <2>2. [k \in {"plain", "tls"} |-> <<>>] \in
            [{"plain", "tls"} -> {<<>>} \union {<<n>> : n \in 0 .. Response}]
    OBVIOUS
  <2> QED
    BY <2>1, <2>2 DEF ClientInit, ClientTypeOK
<1>10. ClientInv
  <2>1. kind = "plain" /\ at = "connect" /\ sent = 0 /\ asked = FALSE /\ server = "open"
    BY DEF ClientInit
  <2> QED
    BY <1>9, <2>1 DEF ClientInv
<1> QED
  BY <1>2, <1>5, <1>6, <1>7, <1>8, <1>10 DEF DemoInv, LifecycleInv

\* In every state of the program the listeners are configured, on ports of their
\* own, with the identities of their own blocks; who holds a port has it served;
\* and the client has read no more than it was sent (serve_forever,
\* _setup_listeners, demo.main).
THEOREM DemoIsSound == Spec => []DemoInv
<1>1. Init => DemoInv
  BY InitIsInv
<1>2. DemoInv /\ [Next]_vars => DemoInv'
  BY StepKeepsInv
<1> QED
  BY <1>1, <1>2, PTL DEF Spec

\* wait_until_ready is enough: the port bound_port names is open and is the
\* kind asked for, unless the server was stopped or its loop failed.
THEOREM PortsAreServed == Spec => []HeldPortsAreServed
<1>1. DemoInv => HeldPortsAreServed
  BY DEF DemoInv, LifecycleInv
<1> QED
  BY <1>1, DemoIsSound, PTL

\* Each listener is registered as its directive says, with the identity of its
\* own block.
THEOREM ListenersMatchConfiguration == Spec => []ListenersAreConfigured
<1>1. DemoInv => ListenersAreConfigured
  BY DEF DemoInv, LifecycleInv
<1> QED
  BY <1>1, DemoIsSound, PTL

\* The finally of serve_forever gives every port back, whichever step of the set-up
\* or the loop failed, but for that of the socket the set-up failed at.
THEOREM PortsAreGivenBack == Spec => []OnlyAFailedListenerIsLeft
<1>1. DemoInv => OnlyAFailedListenerIsLeft
  BY DEF DemoInv, LifecycleInv, SetUpIsInOrder, PortsHaveTheirListeners, OnlyAFailedListenerIsLeft
<1> QED
  BY <1>1, DemoIsSound, PTL

\* A client that returns a response returns the whole one, or what it was sent
\* before the server quit.
LEMMA ClientStepIsWhole ==
    ASSUME ClientInv, NEW reachable, Client(reachable), NEW k \in {"plain", "tls"},
           returned'[k] # returned[k]
    PROVE  \/ returned'[k] = <<Response>>
           \/ quit /\ (k = "tls" => returned'[k] = <<0>>)
<1>1. PICK length : /\ Return(length) /\ at = "reading"
                    /\ \/ RecvPlain /\ length = got /\ AtEnd /\ kind = "plain"
                       \/ RecvTLS /\ kind = "tls" /\ \E n \in Received :
                             IsComplete(Plaintext(got + n)) /\ length = Plaintext(got + n)
                       \/ RecvTLS /\ kind = "tls" /\ AtEnd /\ length = Plaintext(got)
  <2>1. RecvPlain \/ RecvTLS
    BY DEF Client, Connect, SendRequest, RecvHandshake, Timeout, ClientRaises
  <2>2. CASE RecvPlain
    <3>1. ~ClientRaises
      BY DEF ClientRaises
    <3>2. PICK n \in Received \union {0} :
             /\ n = 0 => AtEnd
             /\ IF EndsReading(n) THEN Return(got + n)
                ELSE got' = got + n /\ UNCHANGED <<kind, at, connectionVars, returned>>
      BY <2>2, <3>1 DEF RecvPlain
    <3>3. n = 0 /\ Return(got + n)
      BY <3>2 DEF EndsReading
    <3>4. got \in Nat
      BY Lengths DEF ClientInv, ClientTypeOK
    <3> QED
      BY <2>2, <3>2, <3>3, <3>4 DEF RecvPlain
  <2>3. CASE RecvTLS
    BY <2>3 DEF RecvTLS, ClientRaises
  <2> QED
    BY <2>1, <2>2, <2>3
<1>2. k = kind /\ returned'[k] = <<length>>
  BY <1>1 DEF Return, ClientInv, ClientTypeOK
<1>3. /\ got \in Nat /\ sent \in Nat /\ kind \in {"plain", "tls"}
      /\ AtEnd => got = sent /\ (sent = Total(kind) \/ quit)
      /\ kind = "tls" => got < Total("tls")
  BY <1>1, Lengths DEF ClientInv, ClientTypeOK, AtEnd
<1>4. CASE length = got /\ AtEnd /\ kind = "plain"
  BY <1>2, <1>3, <1>4, Lengths
<1>5. CASE kind = "tls" /\ \E n \in Received :
              IsComplete(Plaintext(got + n)) /\ length = Plaintext(got + n)
  <2>1. PICK n \in Received : IsComplete(Plaintext(got + n)) /\ length = Plaintext(got + n)
    BY <1>5
  <2>2. got + n \in Nat
    BY <1>3, ReceivedHasArrived
  <2>3. length = Response
    BY <2>1, <2>2, PlaintextIsWhole
  <2> QED
    BY <1>2, <2>3
<1>6. CASE kind = "tls" /\ AtEnd /\ length = Plaintext(got)
  <2>1. length = 0
    BY <1>3, <1>6, PlaintextIsWhole
  <2>2. quit
    BY <1>3, <1>6, Lengths
  <2> QED
    BY <1>2, <2>1, <2>2
<1> QED
  BY <1>1, <1>4, <1>5, <1>6

\* A response is returned whole however recv() cuts it, unless the server quit;
\* the TLS client does not wait on with a whole response in its hands
\* (recv_until_socket_closes, recv_tls_http_response).
THEOREM ResponsesAreWhole == Spec => WholeUnlessServerQuits
<1> DEFINE Whole == /\ \A k \in {"plain", "tls"} : returned'[k] # returned[k] =>
                          \/ returned'[k] = <<Response>>
                          \/ quit /\ (k = "tls" => returned'[k] = <<0>>)
                    /\ kind = "tls" /\ at = "reading" /\ at' = "raised" => got < Total("tls")
<1>1. ASSUME DemoInv, [Next]_vars
      PROVE  [Whole]_clientVars
  <2>1. ClientInv
    BY <1>1 DEF DemoInv
  <2>2. kind = "tls" /\ at = "reading" /\ at' = "raised" => got < Total("tls")
    BY <2>1 DEF ClientInv
  <2>3. CASE UseServer
    <3>1. \A k \in {"plain", "tls"} : returned'[k] # returned[k] =>
              \/ returned'[k] = <<Response>>
              \/ quit /\ (k = "tls" => returned'[k] = <<0>>)
      BY <2>1, <2>3, ClientStepIsWhole DEF UseServer
    <3> QED
      BY <2>2, <3>1
  <2>4. CASE ServerSends \/ ServerCloses \/ ServerQuits
    <3>1. returned' = returned
      BY <2>4 DEF ServerSends, ServerCloses, ServerQuits
    <3> QED
      BY <2>2, <3>1
  <2>5. UseServer \/ ServerSends \/ ServerCloses \/ ServerQuits \/ UNCHANGED clientVars
    BY <1>1 DEF Next, vars, ServerThread, CleanUp, ServeClient, MainThread, FinishUsing
  <2> QED
    BY <2>3, <2>4, <2>5
<1>2. [][DemoInv /\ [Next]_vars]_vars => WholeUnlessServerQuits
  <2>1. [DemoInv /\ [Next]_vars]_vars => [Whole]_clientVars
    BY <1>1 DEF vars
  <2> QED
    BY <2>1, PTL DEF WholeUnlessServerQuits
<1> QED
  BY <1>2, DemoIsSound, PTL DEF Spec

-----------------------------------------------------------------------------
(* The demo directory                                                       *)

RunState == [program : Programs \union {"none"},
             at : {"idle", "generating", "writing", "config", "loading", "serving", "over"},
             step : 0 .. 2 * Len(Written), born : 0 .. LastDay,
             conf : Runs \union {Missing, Empty}, identity : Seq(Runs)]
SoundRun(q) ==
    /\ q \in RunState /\ Len(q.identity) <= Len(Loaded)
    /\ q.at \in {"loading", "serving"} => q.conf \in Runs
    /\ q.at = "serving" => Len(q.identity) = Len(Loaded)
ClientState == [at : {"idle", "plain", "trusting", "accepted", "refused", "raised"},
                with : Runs \union {Missing}, root : Runs \union {Missing, Empty},
                server : Runs \union {Missing}]
Contents == [ToSet(Written) -> Runs \union {Missing, Empty}]

IsTyped ==
    /\ today \in 0 .. LastDay /\ file \in Contents
    /\ run \in [Runs -> RunState] /\ \A r \in Runs : SoundRun(run[r])
    /\ alone \subseteq Runs /\ client \in [Clients -> ClientState]

\* The type invariant, with these names.
LEMMA TypeOKIs == TypeOK <=> IsTyped
<1>1. \A r \in Runs : IsServing(r) <=> run[r].at = "serving"
  BY DEF IsServing
<1>2. ASSUME TypeOK
      PROVE  \A r \in Runs : SoundRun(run[r])
  <2>1. run \in [Runs -> RunState]
    BY <1>2 DEF TypeOK, RunState
  <2> QED
    BY <1>1, <1>2, <2>1 DEF TypeOK, SoundRun
<1>3. ASSUME TypeOK
      PROVE  /\ today \in 0 .. LastDay /\ file \in Contents
             /\ run \in [Runs -> RunState]
             /\ alone \subseteq Runs /\ client \in [Clients -> ClientState]
  BY <1>3 DEF TypeOK, Contents, RunState, ClientState
<1>4. ASSUME /\ today \in 0 .. LastDay /\ file \in Contents
             /\ run \in [Runs -> RunState] /\ \A r \in Runs : SoundRun(run[r])
             /\ alone \subseteq Runs /\ client \in [Clients -> ClientState]
      PROVE  TypeOK
  <2>1. /\ today \in 0 .. LastDay /\ file \in [ToSet(Written) -> Runs \union {Missing, Empty}]
        /\ alone \subseteq Runs
    BY <1>4 DEF Contents
  <2>2. run \in [Runs -> RunState] /\ client \in [Clients -> ClientState]
    BY <1>4
  <2>3. \A r \in Runs : /\ Len(run[r].identity) <= Len(Loaded)
                        /\ run[r].at \in {"loading", "serving"} => run[r].conf \in Runs
                        /\ IsServing(r) => Len(run[r].identity) = Len(Loaded)
    BY <1>1, <1>4 DEF SoundRun
  <2> QED
    BY <2>1, <2>2, <2>3 DEF TypeOK, RunState, ClientState
<1> QED
  BY <1>2, <1>3, <1>4 DEF IsTyped

LEMMA TypeOKIsNext == TypeOK' <=> IsTyped'
BY TypeOKIs, PTL

\* The names of the files.
LEMMA Names ==
    /\ Len(Written) = 5 /\ DOMAIN Written = 1 .. 5 /\ Len(Loaded) = 3
    /\ Written[1] = "root_cert" /\ Written[5] = "server.conf"
    /\ \A i \in 1 .. 5 : Written[i] \in ToSet(Written)
    /\ \A name \in ToSet(Written) : \E i \in 1 .. 5 : name = Written[i]
    /\ \A i \in 1 .. 5, j \in 1 .. 5 : Written[i] = Written[j] => i = j
    /\ \A i \in 1 .. 3 : \E j \in 1 .. 5 : Loaded[i] = Written[j]
<1>1. Len(Written) = 5 /\ DOMAIN Written = 1 .. 5 /\ Len(Loaded) = 3
  BY DEF Written, Loaded
<1>2. /\ Written[1] = "root_cert" /\ Written[2] = "intermediate_cert" /\ Written[3] = "server_cert"
      /\ Written[4] = "server_key" /\ Written[5] = "server.conf"
      /\ Loaded[1] = "server_key" /\ Loaded[2] = "server_cert" /\ Loaded[3] = "intermediate_cert"
  BY DEF Written, Loaded
<1>3. \A name : name \in ToSet(Written) <=> \E i \in 1 .. 5 : name = Written[i]
  BY <1>1, Zenon DEF ToSet
<1>4. \A i \in 1 .. 5, j \in 1 .. 5 : Written[i] = Written[j] => i = j
  BY <1>2
<1>5. \A i \in 1 .. 3 : \E j \in 1 .. 5 : Loaded[i] = Written[j]
  BY <1>2
<1> QED
  BY <1>1, <1>2, <1>3, <1>4, <1>5

-----------------------------------------------------------------------------
(* Certificates                                                             *)

\* What a path to the root must be made of.
Valid(full) ==
    /\ \A i \in DOMAIN full : IsValid(full[i])
    /\ \A i \in 2 .. Len(full) :
           /\ full[i - 1].issuerKey = full[i].key
           /\ full[i].extensions.ca /\ i - 2 <= full[i].extensions.pathLength

\* The path of a run's own certificates holds until the server's certificate
\* expires.
LEMMA OwnPath ==
    ASSUME TypeOK, NEW r \in Runs, InTime(r)
    PROVE  VerifyServerCertificate(RootCert(r), <<IntermediateCert(r)>>, ServerCert(r), "localhost")
<1> DEFINE s == ServerCert(r)
           m == IntermediateCert(r)
           root == RootCert(r)
           full == <<s>> \o <<m>> \o <<root>>
<1>1. /\ s.key = Key(r, "server") /\ s.issuerKey = Key(r, "intermediate") /\ s.days = 730
      /\ s.extensions.names = {"localhost"} /\ s.extensions.ca = FALSE
  BY DEF ServerCert, IssueCertificate, ServerExtensions
<1>2. /\ m.key = Key(r, "intermediate") /\ m.issuerKey = Key(r, "root") /\ m.days = 1825
      /\ m.extensions.ca = TRUE /\ m.extensions.pathLength = 0
  BY DEF IntermediateCert, IssueCertificate, CAExtensions
<1>3. /\ root.key = Key(r, "root") /\ root.days = 3650
      /\ root.extensions.ca = TRUE /\ root.extensions.pathLength = 1
  BY DEF RootCert, IssueCertificate, CAExtensions
<1>4. today \in Nat /\ run[r].born \in Nat /\ today <= run[r].born + 730
  BY TypeOKIs DEF IsTyped, RunState, InTime
<1>5. IsValid(s) /\ IsValid(m) /\ IsValid(root)
  <2>1. s.key[1] = r /\ m.key[1] = r /\ root.key[1] = r
    BY <1>1, <1>2, <1>3 DEF Key
  <2> HIDE DEF s, m, root
  <2> QED
    BY <1>1, <1>2, <1>3, <1>4, <2>1 DEF IsValid
<1> HIDE DEF s, m, root
<1>6. /\ Len(full) = 3 /\ DOMAIN full = 1 .. 3
      /\ full[1] = s /\ full[2] = m /\ full[3] = root
  OBVIOUS
<1> HIDE DEF full
<1>7. Valid(full)
  <2>1. \A i \in DOMAIN full : IsValid(full[i])
    BY <1>5, <1>6
  <2>2. ASSUME NEW i \in 2 .. 3
        PROVE  /\ full[i - 1].issuerKey = full[i].key
               /\ full[i].extensions.ca /\ i - 2 <= full[i].extensions.pathLength
    <3>1. CASE i = 2
      BY <1>1, <1>2, <1>6, <3>1
    <3>2. CASE i = 3
      BY <1>2, <1>3, <1>6, <3>2
    <3> QED
      BY <3>1, <3>2
  <2> QED
    BY <1>6, <2>1, <2>2 DEF Valid
<1>8. <<m>> \in [1 .. 1 -> ToSet(<<m>>)] /\ 1 \in 0 .. Len(<<m>>)
  BY DEF ToSet
<1>9. "localhost" \in s.extensions.names /\ ~s.extensions.ca
  BY <1>1
<1> QED
  BY <1>7, <1>8, <1>9 DEF VerifyServerCertificate, Valid, s, m, root, full

\* So a client that trusts the run's root accepts what the run loads.
LEMMA OwnIdentityIsAccepted ==
    ASSUME TypeOK, NEW r \in Runs, InTime(r)
    PROVE  Accepts(r, <<r, r, r>>)
BY OwnPath DEF Accepts, ServerCert, IssueCertificate

\* And it accepts nothing else.
LEMMA AcceptedIsOwn ==
    ASSUME NEW root, NEW loaded \in Seq(Runs), Len(loaded) = 3, Accepts(root, loaded)
    PROVE  loaded = <<root, root, root>>
<1> DEFINE s == ServerCert(loaded[2])
           m == IntermediateCert(loaded[3])
           top == RootCert(root)
<1>1. /\ s.key = Key(loaded[2], "server") /\ s.issuerKey = Key(loaded[2], "intermediate")
      /\ m.key = Key(loaded[3], "intermediate") /\ m.issuerKey = Key(loaded[3], "root")
      /\ top.key = Key(root, "root")
  BY DEF ServerCert, IntermediateCert, RootCert, IssueCertificate
<1>2. VerifyServerCertificate(top, <<m>>, s, "localhost") /\ s.key = Key(loaded[1], "server")
  BY DEF Accepts
<1> HIDE DEF s, m, top
<1>3. PICK n \in 0 .. Len(<<m>>) :
          \E path \in [1 .. n -> ToSet(<<m>>)] : Valid(<<s>> \o path \o <<top>>)
  BY <1>2 DEF VerifyServerCertificate, Valid
<1>10. PICK path \in [1 .. n -> ToSet(<<m>>)] : Valid(<<s>> \o path \o <<top>>)
  BY <1>3
<1>4. n \in {0, 1} /\ ToSet(<<m>>) = {m}
  BY DEF ToSet
<1>5. n = 1
  <2> SUFFICES ASSUME n = 0 PROVE FALSE
    BY <1>4
  <2>1. path = <<>>
    OBVIOUS
  <2> DEFINE full == <<s>> \o path \o <<top>>
  <2>2. Len(full) = 2 /\ full[1] = s /\ full[2] = top
    BY <2>1
  <2> HIDE DEF full
  <2>3. s.issuerKey = top.key
    BY <1>10, <2>2 DEF Valid, full
  <2> QED
    BY <1>1, <2>3 DEF Key
<1>6. path = <<m>>
  BY <1>4, <1>5
<1> DEFINE full == <<s>> \o path \o <<top>>
<1>7. Len(full) = 3 /\ full[1] = s /\ full[2] = m /\ full[3] = top
  BY <1>6
<1> HIDE DEF full
<1>8. s.issuerKey = m.key /\ m.issuerKey = top.key
  <2>1. \A i \in 2 .. 3 : full[i - 1].issuerKey = full[i].key
    BY <1>10, <1>7 DEF Valid, full
  <2>2. full[2 - 1] = s /\ full[3 - 1] = m
    BY <1>7
  <2> QED
    BY <1>7, <2>1, <2>2
<1>9. loaded[1] = root /\ loaded[2] = root /\ loaded[3] = root
  BY <1>1, <1>2, <1>8 DEF Key
<1> QED
  BY <1>9

-----------------------------------------------------------------------------
(* The invariant                                                            *)

\* What the parts of the invariant say, without the records.
LEMMA SiteIs ==
    ASSUME SiteInv
    PROVE  /\ today \in 0 .. LastDay /\ file \in Contents
           /\ run \in [Runs -> RunState] /\ \A r \in Runs : SoundRun(run[r])
           /\ alone \subseteq Runs /\ client \in [Clients -> ClientState]
           /\ Missing \notin Runs /\ Empty \notin Runs /\ Missing # Empty
BY TypeOKIs, SiteAssumption DEF SiteInv, IsTyped

\* The file a run may have begun to write when the program starts is none.
LEMMA SiteInitially == SiteInit => SiteInv
<1> SUFFICES ASSUME SiteInit PROVE SiteInv
  OBVIOUS
<1>1. Missing \notin Runs /\ Empty \notin Runs /\ LastDay \in Nat
  BY SiteAssumption
<1>2. \A r \in Runs : run[r] = Idle
  BY DEF SiteInit
<1>3. \A c \in Clients : client[c] = NoClient
  BY DEF SiteInit
<1>4. Idle \in RunState /\ SoundRun(Idle)
  <2>1. <<>> \in Seq(Runs) /\ Len(<<>>) = 0 /\ 0 \in 0 .. 2 * Len(Written) /\ 0 \in 0 .. LastDay
    BY <1>1, Names
  <2>2. Idle \in RunState /\ Idle.at = "idle" /\ Idle.identity = <<>>
    BY <2>1 DEF Idle, RunState
  <2> QED
    BY <2>1, <2>2, Names DEF SoundRun
<1>5. NoClient \in ClientState /\ NoClient.at = "idle" /\ NoClient.with = Missing
  BY DEF NoClient, ClientState
<1>6. TypeOK
  <2>1. run \in [Runs -> RunState] /\ client \in [Clients -> ClientState]
    BY <1>4, <1>5, Zenon DEF SiteInit
  <2>2. today \in 0 .. LastDay /\ file \in Contents /\ alone \subseteq Runs
    BY <1>1 DEF SiteInit, Contents
  <2> QED
    BY <1>2, <1>4, <2>1, <2>2, TypeOKIs DEF IsTyped
<1>7. \A r \in Runs : run[r].at = "idle"
  BY <1>2 DEF Idle
<1>8. FilesStay /\ AloneIsUndisturbed
  BY <1>7 DEF FilesStay, AloneIsUndisturbed, HasDone, SiteInit
<1>9. ClientsAreServed /\ ClientsOfItSucceed /\ AcceptedIsGenuine
  <2>1. alone = {}
    BY DEF SiteInit
  <2> QED
    BY <1>1, <1>3, <1>5, <2>1, Zenon DEF ClientsAreServed, ClientsOfItSucceed, AcceptedIsGenuine
<1> QED
  BY <1>6, <1>8, <1>9 DEF SiteInv

\* A step of one run.
RunStep(r, q) == run' = [run EXCEPT ![r] = q] /\ today' = today /\ SoundRun(q)

\* What a run does while it does not serve yet does not matter to the clients.
LEMMA ClientsUntouched ==
    ASSUME SiteInv, NEW r \in Runs, NEW q, RunStep(r, q),
           ~HasServed(r), client' = client, alone' \subseteq alone \union {r}
    PROVE  /\ ClientsAreServed' /\ ClientsOfItSucceed' /\ AcceptedIsGenuine'
<1> USE DEF RunStep
<1>1. /\ run \in [Runs -> RunState] /\ client \in [Clients -> ClientState] /\ Missing \notin Runs
      /\ ClientsAreServed /\ ClientsOfItSucceed /\ AcceptedIsGenuine /\ AloneIsUndisturbed
      /\ run'[r] = q /\ \A s \in Runs \ {r} : run'[s] = run[s]
  BY SiteIs DEF SiteInv
<1>2. \A s \in Runs : HasServed(s) => s # r /\ run'[s] = run[s] /\ HasServed(s)'
  BY <1>1 DEF HasServed
<1>3. ASSUME NEW s \in Runs, HasServed(s), s \in alone', IsServing(s)'
      PROVE  /\ s \in alone /\ IsServing(s)
             /\ \A c \in Clients : Reaches(c, s) => Reaches(c, s)'
  <2>1. s \in alone /\ IsServing(s) /\ run'[s] = run[s]
    BY <1>2, <1>3 DEF IsServing
  <2>2. run[s].conf = s
    BY <1>1, <2>1 DEF AloneIsUndisturbed, IsServing
  <2>3. HasPorts(s)' <=> HasPorts(s)
    BY <2>1, <2>2 DEF HasPorts, IsServing
  <2> QED
    BY <2>1, <2>3 DEF Reaches, IsServing
<1>4. \A s \in Runs : HasServed(s) => (InTime(s)' <=> InTime(s))
  BY <1>2 DEF InTime
<1>5. \A c \in Clients : client[c].with \in Runs => HasServed(client[c].with)
  BY <1>1 DEF ClientsAreServed
<1>6. ClientsAreServed'
  <2> SUFFICES ASSUME NEW c \in Clients, NEW w, w = client[c].with
               PROVE  /\ w \in Runs => HasServed(w)'
                      /\ w \in alone' /\ IsServing(w)' =>
                             Reaches(c, w)' /\ (client[c].at = "trusting" => client[c].root = w)
                      /\ client[c].at = "accepted" =>
                             client[c].server \in Runs /\ HasServed(client[c].server)'
    BY DEF ClientsAreServed
  <2>1. /\ w \in Runs => HasServed(w)
        /\ w \in alone /\ IsServing(w) =>
               Reaches(c, w) /\ (client[c].at = "trusting" => client[c].root = w)
        /\ client[c].at = "accepted" => client[c].server \in Runs /\ HasServed(client[c].server)
    BY <1>1 DEF ClientsAreServed
  <2>2. alone' \subseteq Runs
    BY SiteIs
  <2>3. w \in alone' /\ IsServing(w)' =>
            Reaches(c, w)' /\ (client[c].at = "trusting" => client[c].root = w)
    BY <1>3, <2>1, <2>2
  <2> QED
    BY <1>2, <2>1, <2>3
<1>7. alone' \subseteq Runs
  BY SiteIs
<1>8. ClientsOfItSucceed'
  BY <1>1, <1>3, <1>4, <1>5, <1>7 DEF ClientsOfItSucceed
<1>9. AcceptedIsGenuine'
  BY <1>1, <1>2 DEF AcceptedIsGenuine, ClientsAreServed
<1> QED
  BY <1>6, <1>8, <1>9

\* A run that is alive is the only one if it has always been alone.
LEMMA OnlyTheAloneIsAlive ==
    ASSUME SiteInv, NEW r \in Runs, IsAlive(r)
    PROVE  \A s \in alone : s = r
BY SiteIs DEF SiteInv, AloneIsUndisturbed

\* A run that does not write in this step, and only goes on when it is done.
LEMMA FilesUntouched ==
    ASSUME SiteInv, NEW r \in Runs, NEW q, RunStep(r, q),
           IsAlive(r), file' = file, alone' = alone,
           \A k \in 1 .. 10 : HasDone(r, k)' => HasDone(r, k),
           q.at # "idle",
           r \in alone => /\ q.at \in {"loading", "serving"} => q.conf = r
                          /\ \A i \in DOMAIN q.identity : q.identity[i] = r
    PROVE  FilesStay' /\ AloneIsUndisturbed'
<1> USE DEF RunStep
<1>1. /\ run \in [Runs -> RunState] /\ alone \subseteq Runs
      /\ FilesStay /\ AloneIsUndisturbed
      /\ run'[r] = q /\ \A s \in Runs \ {r} : run'[s] = run[s]
  BY SiteIs DEF SiteInv
<1>2. ASSUME NEW s \in Runs, NEW k \in 1 .. 10, HasDone(s, k)'
      PROVE  HasDone(s, k)
  <2>1. CASE s = r
    BY <1>2, <2>1
  <2>2. CASE s # r
    BY <1>1, <1>2, <2>2 DEF HasDone
  <2> QED
    BY <2>1, <2>2
<1>3. \A i \in DOMAIN Written : 2 * i - 1 \in 1 .. 10 /\ 2 * i \in 1 .. 10
  BY Names
<1>4. FilesStay'
  BY <1>1, <1>2, <1>3 DEF FilesStay
<1>5. ASSUME NEW s \in alone
      PROVE  /\ s = r /\ r \in alone
             /\ \A t \in Runs \ {r} : ~IsAlive(t)'
             /\ \A i \in DOMAIN Written : HasDone(r, 2 * i)' => file[Written[i]] = r
  <2>1. s = r
    BY OnlyTheAloneIsAlive
  <2>2. \A t \in Runs \ {r} : ~IsAlive(t)'
    BY <1>1, <2>1 DEF AloneIsUndisturbed, IsAlive
  <2>3. \A i \in DOMAIN Written : HasDone(r, 2 * i)' => HasDone(r, 2 * i)
    BY <1>2, <1>3
  <2> QED
    BY <1>1, <2>1, <2>2, <2>3 DEF AloneIsUndisturbed
<1>6. AloneIsUndisturbed'
  BY <1>1, <1>5 DEF AloneIsUndisturbed
<1> QED
  BY <1>4, <1>6

\* The type of what is left by a step of one run.
LEMMA RunStepType ==
    ASSUME SiteInv, NEW r \in Runs, NEW q, RunStep(r, q),
           file' \in Contents, alone' \subseteq Runs, client' \in [Clients -> ClientState]
    PROVE  TypeOK'
<1> USE DEF RunStep
<1>1. run \in [Runs -> RunState] /\ today \in 0 .. LastDay /\ \A s \in Runs : SoundRun(run[s])
  BY SiteIs
<1>2. run' \in [Runs -> RunState] /\ \A s \in Runs : run'[s] = IF s = r THEN q ELSE run[s]
  BY <1>1 DEF SoundRun
<1>3. \A s \in Runs : SoundRun(run'[s])
  BY <1>1, <1>2
<1> QED
  BY <1>1, <1>2, <1>3, TypeOKIsNext DEF IsTyped

-----------------------------------------------------------------------------
(* The steps of the programs                                                *)

\* A step before a run serves that writes nothing keeps the invariant.
LEMMA QuietStep ==
    ASSUME SiteInv, NEW r \in Runs, NEW q, RunStep(r, q),
           IsAlive(r), ~IsServing(r),
           file' = file, alone' = alone, client' = client,
           \A k \in 1 .. 10 : HasDone(r, k)' => HasDone(r, k),
           q.at # "idle",
           r \in alone => /\ q.at \in {"loading", "serving"} => q.conf = r
                          /\ \A i \in DOMAIN q.identity : q.identity[i] = r
    PROVE  SiteInv'
<1>1. ~HasServed(r)
  BY DEF IsAlive, IsServing, HasServed
<1>2. TypeOK'
  BY SiteIs, RunStepType
<1>3. FilesStay' /\ AloneIsUndisturbed'
  BY FilesUntouched
<1>4. ClientsAreServed' /\ ClientsOfItSucceed' /\ AcceptedIsGenuine'
  BY <1>1, ClientsUntouched
<1> QED
  BY <1>2, <1>3, <1>4 DEF SiteInv

\* What a run is before its step.
LEMMA RunIs ==
    ASSUME SiteInv, NEW r \in Runs
    PROVE  /\ run[r] \in RunState /\ SoundRun(run[r])
           /\ IsAlive(r) <=> run[r].at \notin {"idle", "over"}
           /\ IsServing(r) <=> run[r].at = "serving"
           /\ r \in alone => /\ run[r].at \in {"loading", "serving"} => run[r].conf = r
                             /\ \A i \in DOMAIN run[r].identity : run[r].identity[i] = r
BY SiteIs DEF SiteInv, AloneIsUndisturbed, IsAlive, IsServing

\* A run that moves on keeps what it has loaded.
LEMMA Moved ==
    ASSUME SiteInv, NEW r \in Runs, NEW phase,
           phase \in {"idle", "generating", "writing", "config", "over"}
    PROVE  LET q == [run[r] EXCEPT !.at = phase, !.step = 0] IN
           /\ SoundRun(q) /\ q.at = phase /\ q.identity = run[r].identity
<1> DEFINE q == [run[r] EXCEPT !.at = phase, !.step = 0]
<1>1. run[r] \in RunState /\ SoundRun(run[r]) /\ 0 \in 0 .. 2 * Len(Written)
  BY RunIs, Names
<1>2. q \in RunState /\ q.at = phase /\ q.identity = run[r].identity
  BY <1>1 DEF RunState
<1> HIDE DEF q
<1>3. SoundRun(q)
  BY <1>1, <1>2 DEF SoundRun
<1> QED
  BY <1>2, <1>3 DEF q

LEMMA StartStep ==
    ASSUME SiteInv, NEW r \in Runs, StartRun(r)
    PROVE  SiteInv'
<1>1. PICK program \in Programs :
          run' = [run EXCEPT ![r] = [Idle EXCEPT !.program = program, !.at = "generating", !.born = today]]
  BY DEF StartRun
<1> DEFINE q == [Idle EXCEPT !.program = program, !.at = "generating", !.born = today]
<1>2. /\ run[r].at = "idle" /\ today' = today /\ file' = file /\ client' = client
      /\ alone' = IF \E s \in Runs : IsAlive(s) THEN {} ELSE {r}
  BY DEF StartRun
<1>3. SoundRun(q) /\ q.at = "generating" /\ q.identity = <<>>
  <2>1. today \in 0 .. LastDay /\ <<>> \in Seq(Runs) /\ Len(<<>>) = 0 /\ 0 \in 0 .. 2 * Len(Written)
    BY SiteIs, Names
  <2>2. q \in RunState /\ q.at = "generating" /\ q.identity = <<>>
    BY <2>1 DEF Idle, RunState
  <2> HIDE DEF q
  <2> QED
    BY <2>1, <2>2, Names DEF SoundRun
<1>4. RunStep(r, q)
  BY <1>1, <1>2, <1>3 DEF RunStep
<1> HIDE DEF q
<1>5. TypeOK'
  BY <1>2, <1>4, SiteIs, RunStepType
<1>6. ClientsAreServed' /\ ClientsOfItSucceed' /\ AcceptedIsGenuine'
  BY <1>2, <1>4, ClientsUntouched DEF HasServed
<1>7. run \in [Runs -> RunState] /\ run'[r] = q /\ \A s \in Runs \ {r} : run'[s] = run[s]
  BY <1>4, SiteIs DEF RunStep
<1>8. FilesStay'
  <2>1. \A s \in Runs : \A k : HasDone(s, k)' => HasDone(s, k)
    BY <1>3, <1>7 DEF HasDone
  <2> QED
    BY <1>2, <2>1 DEF SiteInv, FilesStay
<1>9. AloneIsUndisturbed'
  <2> SUFFICES ASSUME NEW s \in alone'
               PROVE  /\ run'[s].at # "idle" /\ \A t \in Runs \ {s} : ~IsAlive(t)'
                      /\ \A i \in DOMAIN Written : HasDone(s, 2 * i)' => file'[Written[i]] = s
                      /\ run'[s].at \in {"loading", "serving"} => run'[s].conf = s
                      /\ \A i \in DOMAIN run'[s].identity : run'[s].identity[i] = s
    BY DEF AloneIsUndisturbed
  <2>1. s = r /\ \A t \in Runs : ~IsAlive(t)
    BY <1>2
  <2>2. \A t \in Runs \ {s} : ~IsAlive(t)'
    BY <1>7, <2>1 DEF IsAlive
  <2>3. \A k : ~HasDone(s, k)'
    BY <1>3, <1>7, <2>1 DEF HasDone
  <2> QED
    BY <1>3, <1>7, <2>1, <2>2, <2>3
<1> QED
  BY <1>5, <1>6, <1>8, <1>9 DEF SiteInv

LEMMA GenerateStep ==
    ASSUME SiteInv, NEW r \in Runs, Generate(r)
    PROVE  SiteInv'
<1>1. PICK phase \in {"writing", "over"} : Move(r, phase)
  BY DEF Generate
<1> DEFINE q == [run[r] EXCEPT !.at = phase, !.step = 0]
<1>2. /\ run[r].at = "generating" /\ today' = today /\ file' = file
      /\ alone' = alone /\ client' = client
  BY DEF Generate
<1>3. SoundRun(q) /\ q.at = phase /\ q.identity = run[r].identity /\ q.step = 0
  <2>1. q.step = 0
    BY RunIs DEF RunState
  <2> QED
    BY <2>1, Moved
<1>4. run' = [run EXCEPT ![r] = q] /\ run'[r] = q
  BY <1>1, SiteIs DEF Move
<1> HIDE DEF q
<1>5. \A k \in 1 .. 10 : ~HasDone(r, k)'
  BY <1>3, <1>4 DEF HasDone
<1>6. /\ RunStep(r, q) /\ IsAlive(r) /\ ~IsServing(r) /\ q.at # "idle"
      /\ r \in alone => /\ q.at \in {"loading", "serving"} => q.conf = r
                        /\ \A i \in DOMAIN q.identity : q.identity[i] = r
  BY <1>2, <1>3, <1>4, RunIs DEF RunStep
<1>7. \A k \in 1 .. 10 : HasDone(r, k)' => HasDone(r, k)
  BY <1>5
<1> QED
  BY <1>2, <1>6, <1>7, QuietStep

LEMMA FinishPreparingStep ==
    ASSUME SiteInv, NEW r \in Runs, FinishPreparing(r)
    PROVE  SiteInv'
<1>1. PICK phase \in {"config", "over"} : Move(r, phase)
  BY DEF FinishPreparing
<1> DEFINE q == [run[r] EXCEPT !.at = phase, !.step = 0]
<1>2. /\ run[r].at = "writing" /\ run[r].step = 10 /\ today' = today /\ file' = file
      /\ alone' = alone /\ client' = client
  BY Names DEF FinishPreparing
<1>3. SoundRun(q) /\ q.at = phase /\ q.identity = run[r].identity
  BY Moved
<1>4. run' = [run EXCEPT ![r] = q]
  BY <1>1 DEF Move
<1> HIDE DEF q
<1>5. \A k \in 1 .. 10 : HasDone(r, k)
  BY <1>2 DEF HasDone
<1>6. /\ RunStep(r, q) /\ IsAlive(r) /\ ~IsServing(r) /\ q.at # "idle"
      /\ r \in alone => /\ q.at \in {"loading", "serving"} => q.conf = r
                        /\ \A i \in DOMAIN q.identity : q.identity[i] = r
  BY <1>2, <1>3, <1>4, RunIs DEF RunStep
<1>7. \A k \in 1 .. 10 : HasDone(r, k)' => HasDone(r, k)
  BY <1>5
<1> QED
  BY <1>2, <1>6, <1>7, QuietStep

LEMMA LoadConfigStep ==
    ASSUME SiteInv, NEW r \in Runs, LoadConfig(r)
    PROVE  SiteInv'
<1> DEFINE conf == file["server.conf"]
           phase == IF conf = Empty THEN "over" ELSE "loading"
           q == [run[r] EXCEPT !.conf = conf, !.at = phase]
<1>1. /\ run[r].at = "config" /\ today' = today /\ file' = file
      /\ alone' = alone /\ client' = client /\ run' = [run EXCEPT ![r] = q]
  BY DEF LoadConfig
<1>2. HasDone(r, 2 * 5 - 1) /\ HasDone(r, 2 * 5) /\ \A k \in 1 .. 10 : HasDone(r, k)
  BY <1>1 DEF HasDone
<1>3. conf \in Runs \union {Empty} /\ (r \in alone => conf = r)
  <2>1. conf \in Runs \union {Missing, Empty}
    <3>1. "server.conf" \in ToSet(Written)
      BY Names
    <3> QED
      BY <3>1, SiteIs DEF Contents
  <2>2. conf # Missing
    BY <1>2, Names DEF SiteInv, FilesStay
  <2>3. r \in alone => conf = r
    BY <1>2, Names DEF SiteInv, AloneIsUndisturbed
  <2> QED
    BY <2>1, <2>2, <2>3
<1>4. run[r] \in RunState /\ SoundRun(run[r])
  BY RunIs
<1> HIDE DEF conf
<1>5. /\ q \in RunState /\ q.at = phase /\ q.conf = conf /\ q.identity = run[r].identity
      /\ phase \in {"over", "loading"} /\ (phase = "loading" => conf \in Runs)
  BY <1>3, <1>4 DEF RunState
<1> HIDE DEF q, phase
<1>6. SoundRun(q)
  BY <1>4, <1>5 DEF SoundRun
<1>7. /\ RunStep(r, q) /\ IsAlive(r) /\ ~IsServing(r) /\ q.at # "idle"
      /\ r \in alone => /\ q.at \in {"loading", "serving"} => q.conf = r
                        /\ \A i \in DOMAIN q.identity : q.identity[i] = r
  BY <1>1, <1>3, <1>5, <1>6, RunIs DEF RunStep
<1>8. \A k \in 1 .. 10 : HasDone(r, k)' => HasDone(r, k)
  BY <1>2
<1> QED
  BY <1>1, <1>7, <1>8, QuietStep

LEMMA LoadIdentityStep ==
    ASSUME SiteInv, NEW r \in Runs, LoadIdentityFile(r)
    PROVE  SiteInv'
<1> DEFINE n == Len(run[r].identity)
           found == file[Loaded[n + 1]]
<1>1. /\ run[r].at = "loading" /\ n < 3 /\ today' = today /\ file' = file
      /\ alone' = alone /\ client' = client
      /\ run' = IF IsReadable(found) THEN [run EXCEPT ![r].identity = Append(@, found)]
                ELSE [run EXCEPT ![r].at = "over"]
  BY Names DEF LoadIdentityFile
<1>2. \A k \in 1 .. 10 : HasDone(r, k)
  BY <1>1 DEF HasDone
<1>3. run[r] \in RunState /\ SoundRun(run[r]) /\ run[r].identity \in Seq(Runs) /\ n \in 0 .. 2
  <2>1. run[r] \in RunState /\ SoundRun(run[r])
    BY RunIs
  <2>2. run[r].identity \in Seq(Runs)
    BY <2>1 DEF RunState
  <2>3. n \in Nat
    BY <2>2
  <2>4. n \in 0 .. 2
    <3> HIDE DEF n
    <3> QED
      BY <1>1, <2>3
  <2> QED
    BY <2>1, <2>2, <2>4
<1>4. found \in Runs \union {Empty} /\ (r \in alone => found = r)
  <2>1. n + 1 \in 1 .. 3
    <3>1. n \in 0 .. 2
      BY <1>3
    <3> HIDE DEF n
    <3> QED
      BY <3>1
  <2>2. PICK j \in 1 .. 5 : Loaded[n + 1] = Written[j]
    BY <2>1, Names
  <2>3. found \in Runs \union {Missing, Empty} /\ found = file[Written[j]]
    BY <2>2, Names, SiteIs DEF Contents
  <2>4. 2 * j - 1 \in 1 .. 10 /\ 2 * j \in 1 .. 10 /\ j \in DOMAIN Written
    BY Names
  <2>5. HasDone(r, 2 * j - 1) /\ HasDone(r, 2 * j)
    BY <1>2, <2>4
  <2>6. found # Missing
    BY <2>3, <2>4, <2>5 DEF SiteInv, FilesStay
  <2>7. r \in alone => found = r
    BY <2>3, <2>4, <2>5 DEF SiteInv, AloneIsUndisturbed
  <2> QED
    BY <2>3, <2>6, <2>7
<1> HIDE DEF found
<1>5. ASSUME NEW q, RunStep(r, q), q.at \in {"loading", "over"}, q.conf = run[r].conf,
             r \in alone => \A i \in DOMAIN q.identity : q.identity[i] = r
      PROVE  SiteInv'
  <2>1. /\ IsAlive(r) /\ ~IsServing(r) /\ q.at # "idle"
        /\ r \in alone => /\ q.at \in {"loading", "serving"} => q.conf = r
                          /\ \A i \in DOMAIN q.identity : q.identity[i] = r
    BY <1>1, <1>5, RunIs
  <2>2. \A k \in 1 .. 10 : HasDone(r, k)' => HasDone(r, k)
    BY <1>2
  <2> QED
    BY <1>1, <1>5, <2>1, <2>2, QuietStep
<1>6. CASE IsReadable(found)
  <2> DEFINE longer == Append(run[r].identity, found)
             q == [run[r] EXCEPT !.identity = longer]
  <2>1. found \in Runs
    BY <1>4, <1>6 DEF IsReadable
  <2>2. /\ longer \in Seq(Runs) /\ Len(longer) = n + 1
        /\ r \in alone => \A i \in DOMAIN longer : longer[i] = r
    <3>1. longer \in Seq(Runs) /\ Len(longer) = n + 1
      BY <1>3, <2>1
    <3>2. ASSUME NEW i \in DOMAIN longer, r \in alone
          PROVE  longer[i] = r
      <4>1. i \in 1 .. n + 1 /\ \A k \in 1 .. n : run[r].identity[k] = r
        BY <1>3, <3>1, <3>2, RunIs
      <4> QED
        BY <1>3, <1>4, <3>2, <4>1
    <3> QED
      BY <3>1, <3>2
  <2> HIDE DEF longer
  <2>3. q \in RunState /\ q.at = "loading" /\ q.conf = run[r].conf /\ q.identity = longer
    BY <1>1, <1>3, <2>2 DEF RunState
  <2>4. run' = [run EXCEPT ![r] = q]
    BY <1>1, <1>6 DEF longer
  <2> HIDE DEF q
  <2>5. SoundRun(q)
    BY <1>1, <1>3, <2>2, <2>3, Names DEF SoundRun
  <2> QED
    BY <1>1, <1>5, <2>2, <2>3, <2>4, <2>5 DEF RunStep
<1>7. CASE ~IsReadable(found)
  <2> DEFINE q == [run[r] EXCEPT !.at = "over"]
  <2>1. q \in RunState /\ q.at = "over" /\ q.conf = run[r].conf /\ q.identity = run[r].identity
    BY <1>3 DEF RunState
  <2>2. run' = [run EXCEPT ![r] = q]
    BY <1>1, <1>7
  <2> HIDE DEF q
  <2>3. SoundRun(q)
    BY <1>3, <2>1 DEF SoundRun
  <2>4. RunStep(r, q)
    BY <1>1, <2>2, <2>3 DEF RunStep
  <2>5. r \in alone => \A i \in DOMAIN q.identity : q.identity[i] = r
    BY <2>1, RunIs
  <2> QED
    BY <1>5, <2>1, <2>4, <2>5
<1> QED
  BY <1>6, <1>7

LEMMA BindStep ==
    ASSUME SiteInv, NEW r \in Runs, Bind(r)
    PROVE  SiteInv'
<1>1. PICK phase \in {"over", "serving"} : Move(r, phase)
  BY DEF Bind
<1> DEFINE q == [run[r] EXCEPT !.at = phase, !.step = 0]
<1>2. /\ run[r].at = "loading" /\ Len(run[r].identity) = Len(Loaded)
      /\ today' = today /\ file' = file
      /\ alone' = alone /\ client' = client /\ run' = [run EXCEPT ![r] = q]
  BY <1>1 DEF Bind, Move
<1>3. run[r] \in RunState /\ SoundRun(run[r]) /\ 0 \in 0 .. 2 * Len(Written)
  BY RunIs, Names
<1>4. q \in RunState /\ q.at = phase /\ q.conf = run[r].conf /\ q.identity = run[r].identity
  BY <1>3 DEF RunState
<1> HIDE DEF q
<1>5. SoundRun(q)
  BY <1>2, <1>3, <1>4 DEF SoundRun
<1>6. /\ RunStep(r, q) /\ IsAlive(r) /\ ~IsServing(r) /\ q.at # "idle"
      /\ r \in alone => /\ q.at \in {"loading", "serving"} => q.conf = r
                        /\ \A i \in DOMAIN q.identity : q.identity[i] = r
  BY <1>2, <1>4, <1>5, RunIs DEF RunStep
<1>7. \A k \in 1 .. 10 : HasDone(r, k)' => HasDone(r, k)
  BY <1>2 DEF HasDone
<1> QED
  BY <1>2, <1>6, <1>7, QuietStep

LEMMA WriteFileStep ==
    ASSUME SiteInv, NEW r \in Runs, WriteFile(r)
    PROVE  SiteInv'
<1> DEFINE n == run[r].step
           q == [run[r] EXCEPT !.step = n + 1]
           i == n \div 2 + 1
           content == IF n % 2 = 1 THEN r ELSE Empty
<1>1. /\ run[r].at = "writing" /\ n < 10 /\ today' = today /\ alone' = alone /\ client' = client
      /\ run' = [run EXCEPT ![r] = q]
      /\ file' = [file EXCEPT ![Written[i]] = content]
  BY Names DEF WriteFile, MustWrite, IsOpened, Target
<1>2. n \in 0 .. 9
  <2>1. n \in 0 .. 2 * Len(Written)
    BY RunIs DEF RunState
  <2> HIDE DEF n
  <2> QED
    BY <1>1, <2>1, Names
<1>3. run[r] \in RunState /\ SoundRun(run[r]) /\ n + 1 \in 0 .. 2 * Len(Written)
  <2>1. n + 1 \in 0 .. 10
    <3> HIDE DEF n
    <3> QED
      BY <1>2
  <2> QED
    BY <2>1, RunIs, Names
<1> HIDE DEF n
<1>4. q \in RunState /\ q.at = "writing" /\ q.step = n + 1 /\ q.identity = run[r].identity
  BY <1>1, <1>3 DEF RunState
<1> HIDE DEF q
<1>5. SoundRun(q)
  BY <1>3, <1>4 DEF SoundRun
<1>6. RunStep(r, q) /\ IsAlive(r) /\ ~HasServed(r)
  BY <1>1, <1>5, RunIs DEF RunStep, HasServed
<1>7. i \in 1 .. 5 /\ n \in {2 * i - 2, 2 * i - 1} /\ (content = r <=> n = 2 * i - 1)
  <2>1. /\ n = 2 * (n \div 2) + (n % 2) /\ n % 2 \in {0, 1} /\ n \div 2 \in 0 .. 4
    BY <1>2
  <2>2. r # Empty
    BY SiteIs
  <2> QED
    BY <2>1, <2>2
<1>8. content \in {r, Empty}
  OBVIOUS
<1> HIDE DEF i, content
<1>9. /\ file \in Contents /\ Written[i] \in ToSet(Written) /\ file' \in Contents
      /\ file'[Written[i]] = content
      /\ \A j \in 1 .. 5 : j # i => file'[Written[j]] = file[Written[j]]
  <2>1. file \in Contents /\ Written[i] \in ToSet(Written)
    BY <1>7, Names, SiteIs
  <2>2. file' \in Contents /\ file'[Written[i]] = content
    BY <1>1, <1>8, <2>1 DEF Contents
  <2>3. ASSUME NEW j \in 1 .. 5, j # i
        PROVE  file'[Written[j]] = file[Written[j]]
    <3>1. Written[j] \in ToSet(Written) /\ Written[j] # Written[i]
      BY <1>7, <2>3, Names
    <3> QED
      BY <1>1, <2>1, <3>1 DEF Contents
  <2> QED
    BY <2>1, <2>2, <2>3
<1>10. TypeOK'
  BY <1>1, <1>6, <1>9, SiteIs, RunStepType
<1>11. ClientsAreServed' /\ ClientsOfItSucceed' /\ AcceptedIsGenuine'
  BY <1>1, <1>6, ClientsUntouched
<1>12. run \in [Runs -> RunState] /\ run'[r] = q /\ \A s \in Runs \ {r} : run'[s] = run[s]
  BY <1>1, SiteIs
<1>13. \A k : HasDone(r, k) <=> k <= n
  BY <1>1 DEF HasDone, n
<1>14. \A k : HasDone(r, k)' <=> k <= n + 1
  BY <1>4, <1>12 DEF HasDone
<1>15. \A s \in Runs : \A k : s # r => (HasDone(s, k)' <=> HasDone(s, k))
  BY <1>12 DEF HasDone
<1>16. FilesStay'
  <2> SUFFICES ASSUME NEW s \in Runs, NEW j \in 1 .. 5, HasDone(s, 2 * j - 1)'
               PROVE  file'[Written[j]] # Missing
    BY Names DEF FilesStay
  <2>1. CASE j = i
    BY <1>8, <1>9, <2>1, SiteIs
  <2>2. CASE j # i
    <3>1. HasDone(s, 2 * j - 1)
      <4>1. CASE s = r
        BY <1>2, <1>7, <1>13, <1>14, <2>2, <4>1
      <4>2. CASE s # r
        BY <1>15, <4>2
      <4> QED
        BY <4>1, <4>2
    <3> QED
      BY <1>9, <2>2, <3>1, Names DEF SiteInv, FilesStay
  <2> QED
    BY <2>1, <2>2
<1>17. AloneIsUndisturbed'
  <2> SUFFICES ASSUME r \in alone
               PROVE  /\ \A t \in Runs \ {r} : ~IsAlive(t)'
                      /\ \A j \in 1 .. 5 : HasDone(r, 2 * j)' => file'[Written[j]] = r
                      /\ q.at # "idle" /\ q.at \notin {"loading", "serving"}
                      /\ \A k \in DOMAIN q.identity : q.identity[k] = r
    <3>1. \A s \in alone' : s = r
      BY <1>1, <1>6, OnlyTheAloneIsAlive
    <3> QED
      BY <1>1, <1>12, <3>1, Names DEF AloneIsUndisturbed
  <2>1. /\ \A t \in Runs \ {r} : ~IsAlive(t)
        /\ \A j \in 1 .. 5 : HasDone(r, 2 * j) => file[Written[j]] = r
        /\ \A k \in DOMAIN run[r].identity : run[r].identity[k] = r
    BY Names DEF SiteInv, AloneIsUndisturbed
  <2>2. \A t \in Runs \ {r} : ~IsAlive(t)'
    BY <1>12, <2>1 DEF IsAlive
  <2>3. ASSUME NEW j \in 1 .. 5, HasDone(r, 2 * j)'
        PROVE  file'[Written[j]] = r
    <3>1. 2 * j <= n + 1
      BY <1>14, <2>3
    <3>2. CASE j = i
      BY <1>2, <1>7, <1>9, <3>1, <3>2
    <3>3. CASE j # i
      BY <1>2, <1>7, <1>9, <1>13, <2>1, <3>1, <3>3
    <3> QED
      BY <3>2, <3>3
  <2> QED
    BY <1>4, <2>1, <2>2, <2>3
<1> QED
  BY <1>10, <1>11, <1>16, <1>17 DEF SiteInv

LEMMA EndStep ==
    ASSUME SiteInv, NEW r \in Runs, End(r)
    PROVE  SiteInv'
<1> DEFINE q == [run[r] EXCEPT !.at = "over", !.step = 0]
<1>1. /\ IsAlive(r) /\ today' = today /\ file' = file /\ alone' = alone
      /\ run' = [run EXCEPT ![r] = q]
      /\ client' = [c \in Clients |-> IF c = r THEN NoClient ELSE client[c]]
  BY DEF End, Move
<1>2. SoundRun(q) /\ q.at = "over" /\ q.identity = run[r].identity /\ q.born = run[r].born
  <2>1. q.born = run[r].born
    BY RunIs DEF RunState
  <2> QED
    BY <2>1, Moved
<1> HIDE DEF q
<1>3. RunStep(r, q)
  BY <1>1, <1>2 DEF RunStep
<1>4. /\ run \in [Runs -> RunState] /\ client \in [Clients -> ClientState] /\ alone \subseteq Runs
      /\ Missing \notin Runs
      /\ ClientsAreServed /\ ClientsOfItSucceed /\ AcceptedIsGenuine
      /\ run'[r] = q /\ \A s \in Runs \ {r} : run'[s] = run[s]
  BY <1>1, SiteIs DEF SiteInv
<1>5. \A k : ~HasDone(r, k)'
  BY <1>2, <1>4 DEF HasDone
<1>6. FilesStay' /\ AloneIsUndisturbed'
  <2>1. r \in alone => \A i \in DOMAIN q.identity : q.identity[i] = r
    BY <1>2, RunIs
  <2>2. \A k \in 1 .. 10 : HasDone(r, k)' => HasDone(r, k)
    BY <1>5
  <2> QED
    BY <1>1, <1>2, <1>3, <2>1, <2>2, FilesUntouched
<1>7. NoClient \in ClientState /\ NoClient.at = "idle" /\ NoClient.with = Missing
  BY DEF NoClient, ClientState
<1>8. client' \in [Clients -> ClientState]
  BY <1>1, <1>4, <1>7
<1>9. TypeOK'
  BY <1>1, <1>3, <1>8, SiteIs, RunStepType
<1>10. ASSUME NEW c \in Clients
       PROVE  \/ client'[c] = client[c]
              \/ client'[c].at = "idle" /\ client'[c].with = Missing
  BY <1>1, <1>7, <1>10
<1>11. \A s \in Runs : HasServed(s) => HasServed(s)'
  BY <1>2, <1>4 DEF HasServed
<1>12. \A s \in Runs : IsServing(s)' => s # r /\ IsServing(s) /\ run'[s] = run[s]
  BY <1>2, <1>4 DEF IsServing
<1>13. ASSUME NEW s \in alone, IsServing(s)', NEW c \in Clients, Reaches(c, s)
       PROVE  Reaches(c, s)'
  <2>1. s \in Runs /\ s # r /\ run'[s] = run[s]
    BY <1>4, <1>12, <1>13
  <2>2. s = r
    BY <1>1, OnlyTheAloneIsAlive
  <2> QED
    BY <2>1, <2>2
<1>14. ClientsAreServed'
  <2> SUFFICES ASSUME NEW c \in Clients,
                      NEW w, w = client'[c].with, NEW s, s = client'[c].server
               PROVE  /\ w \in Runs => HasServed(w)'
                      /\ w \in alone' /\ IsServing(w)' =>
                             Reaches(c, w)' /\ (client'[c].at = "trusting" => client'[c].root = w)
                      /\ client'[c].at = "accepted" => s \in Runs /\ HasServed(s)'
    BY DEF ClientsAreServed
  <2>1. CASE client'[c] = client[c]
    <3>1. /\ w \in Runs => HasServed(w)
          /\ w \in alone /\ IsServing(w) =>
                 Reaches(c, w) /\ (client[c].at = "trusting" => client[c].root = w)
          /\ client[c].at = "accepted" => client[c].server \in Runs /\ HasServed(client[c].server)
      BY <1>4, <2>1 DEF ClientsAreServed
    <3> QED
      BY <1>1, <1>4, <1>11, <1>12, <1>13, <2>1, <3>1
  <2>2. CASE client'[c].at = "idle" /\ client'[c].with = Missing
    BY <1>1, <1>4, <2>2
  <2> QED
    BY <1>10, <2>1, <2>2
<1>15. ClientsOfItSucceed'
  <2> SUFFICES ASSUME NEW c \in Clients, NEW w, w = client'[c].with,
                      w \in alone', IsServing(w)', InTime(w)'
               PROVE  client'[c].at \notin {"refused", "raised"}
    BY DEF ClientsOfItSucceed
  <2>1. w \in Runs /\ w \in alone
    BY <1>1, <1>4
  <2>2. IsServing(w) /\ InTime(w)
    BY <1>1, <1>12, <2>1 DEF InTime
  <2>3. client'[c] = client[c]
    BY <1>4, <1>10, <2>1
  <2> QED
    BY <1>4, <2>1, <2>2, <2>3 DEF ClientsOfItSucceed
<1>16. AcceptedIsGenuine'
  <2> SUFFICES ASSUME NEW c \in Clients, client'[c].at = "accepted"
               PROVE  run'[client'[c].server].identity = <<client'[c].root, client'[c].root, client'[c].root>>
    BY DEF AcceptedIsGenuine
  <2>1. client'[c] = client[c]
    BY <1>10
  <2>2. client[c].server \in Runs /\ run[client[c].server].identity = <<client[c].root, client[c].root, client[c].root>>
    BY <1>4, <2>1 DEF ClientsAreServed, AcceptedIsGenuine
  <2>3. \A s \in Runs : run'[s].identity = run[s].identity
    BY <1>2, <1>4
  <2> QED
    BY <2>1, <2>2, <2>3
<1> QED
  BY <1>6, <1>9, <1>14, <1>15, <1>16 DEF SiteInv

-----------------------------------------------------------------------------
(* The steps of the clients, and the date                                   *)

\* The run a client's ports lead to serves, and is the only one they lead to if
\* it has always been alone.
LEMMA ServingReaches ==
    ASSUME SiteInv, NEW c \in Clients
    PROVE  /\ Serving(c) # Missing => /\ Serving(c) \in Runs /\ Reaches(c, Serving(c))
                                      /\ run[Serving(c)].at = "serving"
           /\ Serving(c) \in Runs \union {Missing}
           /\ \A r \in alone : Reaches(c, r) => Serving(c) = r
<1>1. \A r : Reaches(c, r) => run[r].at = "serving"
  BY DEF Reaches, HasPorts, IsServing
<1>2. ASSUME NEW r \in Runs, Reaches(c, r)
      PROVE  Serving(c) \in Runs /\ Reaches(c, Serving(c))
  BY <1>2 DEF Serving
<1>3. Serving(c) # Missing => \E r \in Runs : Reaches(c, r)
  BY DEF Serving
<1>4. ASSUME NEW r \in alone, Reaches(c, r)
      PROVE  Serving(c) = r
  <2>1. Serving(c) \in Runs /\ Reaches(c, Serving(c))
    BY <1>2, <1>4, SiteIs
  <2>2. IsAlive(Serving(c))
    BY <1>1, <2>1 DEF IsAlive
  <2> QED
    BY <2>1, <2>2, OnlyTheAloneIsAlive
<1> QED
  BY <1>1, <1>2, <1>3, <1>4

\* A step of one client.
ClientStep(c, k) ==
    /\ client' = [client EXCEPT ![c] = k] /\ k \in ClientState
    /\ today' = today /\ file' = file /\ run' = run /\ alone' = alone

\* It keeps the invariant if what it has learnt is right.
LEMMA ClientStepIsSound ==
    ASSUME SiteInv, NEW c \in Clients, NEW k, ClientStep(c, k),
           k.with \in Runs => HasServed(k.with),
           k.with \in alone /\ IsServing(k.with) =>
               /\ Reaches(c, k.with) /\ (k.at = "trusting" => k.root = k.with)
               /\ InTime(k.with) => k.at \notin {"refused", "raised"},
           k.at = "accepted" =>
               /\ k.server \in Runs /\ HasServed(k.server)
               /\ run[k.server].identity = <<k.root, k.root, k.root>>
    PROVE  SiteInv'
<1> USE DEF ClientStep
<1>1. client \in [Clients -> ClientState]
  BY SiteIs
<1>2. client' \in [Clients -> ClientState] /\ \A d \in Clients : client'[d] = IF d = c THEN k ELSE client[d]
  BY <1>1
<1>3. TypeOK'
  BY <1>2, SiteIs, TypeOKIsNext DEF IsTyped
<1>4. FilesStay' /\ AloneIsUndisturbed'
  BY DEF SiteInv, FilesStay, AloneIsUndisturbed, HasDone, IsAlive
<1>5. /\ \A r : (HasServed(r)' <=> HasServed(r)) /\ (IsServing(r)' <=> IsServing(r))
      /\ \A r : InTime(r)' <=> InTime(r)
      /\ \A d, r : Reaches(d, r)' <=> Reaches(d, r)
  BY DEF HasServed, IsServing, InTime, Reaches, HasPorts
<1>6. ClientsAreServed'
  <2> SUFFICES ASSUME NEW d \in Clients,
                      NEW w, w = client'[d].with, NEW s, s = client'[d].server
               PROVE  /\ w \in Runs => HasServed(w)'
                      /\ w \in alone' /\ IsServing(w)' =>
                             Reaches(d, w)' /\ (client'[d].at = "trusting" => client'[d].root = w)
                      /\ client'[d].at = "accepted" => s \in Runs /\ HasServed(s)'
    BY DEF ClientsAreServed
  <2>1. CASE d = c
    BY <1>2, <1>5, <2>1
  <2>2. CASE d # c
    <3>1. /\ w \in Runs => HasServed(w)
          /\ w \in alone /\ IsServing(w) =>
                 Reaches(d, w) /\ (client[d].at = "trusting" => client[d].root = w)
          /\ client[d].at = "accepted" => client[d].server \in Runs /\ HasServed(client[d].server)
      BY <1>2, <2>2 DEF SiteInv, ClientsAreServed
    <3> QED
      BY <1>2, <1>5, <2>2, <3>1
  <2> QED
    BY <2>1, <2>2
<1>7. ClientsOfItSucceed'
  <2> SUFFICES ASSUME NEW d \in Clients, NEW w, w = client'[d].with,
                      w \in alone', IsServing(w)', InTime(w)'
               PROVE  client'[d].at \notin {"refused", "raised"}
    BY DEF ClientsOfItSucceed
  <2>1. CASE d = c
    BY <1>2, <1>5, <2>1
  <2>2. CASE d # c
    BY <1>2, <1>5, <2>2 DEF SiteInv, ClientsOfItSucceed
  <2> QED
    BY <2>1, <2>2
<1>8. AcceptedIsGenuine'
  BY <1>2 DEF SiteInv, AcceptedIsGenuine
<1> QED
  BY <1>3, <1>4, <1>6, <1>7, <1>8 DEF SiteInv

LEMMA ClientStartStep ==
    ASSUME SiteInv, NEW c \in Clients, ClientStart(c)
    PROVE  SiteInv'
<1> DEFINE w == Serving(c)
           k == [NoClient EXCEPT !.at = "plain", !.with = w]
<1>1. /\ w # Missing /\ client' = [client EXCEPT ![c] = k]
      /\ today' = today /\ file' = file /\ run' = run /\ alone' = alone
  BY DEF ClientStart
<1>2. w \in Runs /\ Reaches(c, w) /\ run[w].at = "serving"
  BY <1>1, ServingReaches
<1> HIDE DEF w
<1>3. k \in ClientState /\ k.at = "plain" /\ k.with = w
  BY <1>2 DEF NoClient, ClientState
<1> HIDE DEF k
<1>4. ClientStep(c, k)
  BY <1>1, <1>3 DEF ClientStep
<1> QED
  BY <1>2, <1>3, <1>4, ClientStepIsSound DEF HasServed

\* What is known of a client that goes on.
LEMMA ClientIs ==
    ASSUME SiteInv, NEW c \in Clients
    PROVE  LET k == client[c] IN
           /\ k \in ClientState
           /\ k.with \in Runs => HasServed(k.with)
           /\ k.with \in alone /\ IsServing(k.with) =>
                  Reaches(c, k.with) /\ (k.at = "trusting" => k.root = k.with)
BY SiteIs DEF SiteInv, ClientsAreServed

\* A run that has always been alone and serves has left its files, and has what
\* its clients accept.
LEMMA AloneServes ==
    ASSUME SiteInv, NEW r \in alone, IsServing(r)
    PROVE  /\ run[r].conf = r /\ file["root_cert"] = r /\ r \in Runs
           /\ run[r].identity = <<r, r, r>>
           /\ InTime(r) => Accepts(r, run[r].identity)
<1>1. r \in Runs /\ run[r].at = "serving" /\ run[r] \in RunState /\ SoundRun(run[r])
  BY SiteIs DEF IsServing
<1>2. HasDone(r, 2 * 1)
  BY <1>1 DEF HasDone
<1>3. file["root_cert"] = r /\ run[r].conf = r /\ \A i \in DOMAIN run[r].identity : run[r].identity[i] = r
  BY <1>1, <1>2, Names DEF SiteInv, AloneIsUndisturbed
<1>4. run[r].identity = <<r, r, r>>
  <2>1. run[r].identity \in Seq(Runs) /\ Len(run[r].identity) = 3
    BY <1>1, Names DEF RunState, SoundRun
  <2> QED
    BY <1>1, <1>3, <2>1
<1>5. InTime(r) => Accepts(r, run[r].identity)
  BY <1>1, <1>4, OwnIdentityIsAccepted DEF SiteInv
<1> QED
  BY <1>1, <1>3, <1>4, <1>5

LEMMA LoadTrustedRootStep ==
    ASSUME SiteInv, NEW c \in Clients, LoadTrustedRoot(c)
    PROVE  SiteInv'
<1> DEFINE root == file["root_cert"]
           phase == IF IsReadable(root) THEN "trusting" ELSE "raised"
           k == [client[c] EXCEPT !.root = root, !.at = phase]
           w == client[c].with
<1>1. /\ client' = [client EXCEPT ![c] = k]
      /\ today' = today /\ file' = file /\ run' = run /\ alone' = alone
  BY DEF LoadTrustedRoot
<1>2. /\ client[c] \in ClientState /\ (w \in Runs => HasServed(w))
      /\ w \in alone /\ IsServing(w) => Reaches(c, w)
  BY ClientIs
<1>3. root \in Runs \union {Missing, Empty}
  BY Names, SiteIs DEF Contents
<1>4. w \in alone /\ IsServing(w) => root = w /\ phase = "trusting"
  BY AloneServes, SiteIs DEF IsReadable
<1>5. phase \in {"trusting", "raised"}
  OBVIOUS
<1> HIDE DEF root, phase
<1>6. k \in ClientState /\ k.at = phase /\ k.root = root /\ k.with = w
  BY <1>2, <1>3, <1>5 DEF ClientState
<1> HIDE DEF k, w
<1>7. ClientStep(c, k)
  BY <1>1, <1>6 DEF ClientStep
<1> QED
  BY <1>2, <1>4, <1>5, <1>6, <1>7, ClientStepIsSound

LEMMA ConnectStep ==
    ASSUME SiteInv, NEW c \in Clients, ConnectClient(c)
    PROVE  SiteInv'
<1> DEFINE w == client[c].with
           root == client[c].root
           reached == Serving(c)
           phase == IF reached = Missing THEN "raised" ELSE Verdict(root, reached)
           k == [client[c] EXCEPT !.server = reached, !.at = phase]
<1>1. /\ client[c].at = "trusting" /\ client' = [client EXCEPT ![c] = k]
      /\ today' = today /\ file' = file /\ run' = run /\ alone' = alone
  BY DEF ConnectClient
<1>2. /\ client[c] \in ClientState /\ (w \in Runs => HasServed(w))
      /\ w \in alone /\ IsServing(w) => Reaches(c, w) /\ root = w
  BY <1>1, ClientIs
<1>3. /\ reached \in Runs \union {Missing}
      /\ reached # Missing => reached \in Runs /\ run[reached].at = "serving"
      /\ w \in alone /\ Reaches(c, w) => reached = w
  BY ServingReaches
<1>4. Missing \notin Runs
  BY SiteIs
<1>5. /\ phase \in {"accepted", "refused", "raised"}
      /\ phase = "accepted" => reached # Missing /\ Accepts(root, run[reached].identity)
  BY DEF Verdict
<1>6. w \in alone /\ IsServing(w) /\ InTime(w) => phase = "accepted"
  BY <1>2, <1>3, <1>4, AloneServes DEF Verdict
<1> HIDE DEF reached, phase
<1>7. k \in ClientState /\ k.at = phase /\ k.root = root /\ k.with = w /\ k.server = reached
  BY <1>2, <1>3, <1>5 DEF ClientState
<1> HIDE DEF k, w, root
<1>8. ClientStep(c, k)
  BY <1>1, <1>7 DEF ClientStep
<1>9. phase = "accepted" =>
          reached \in Runs /\ HasServed(reached) /\ run[reached].identity = <<root, root, root>>
  <2> SUFFICES ASSUME phase = "accepted"
               PROVE  reached \in Runs /\ HasServed(reached) /\ run[reached].identity = <<root, root, root>>
    OBVIOUS
  <2>1. reached \in Runs /\ HasServed(reached) /\ run[reached].at = "serving"
    BY <1>3, <1>5 DEF HasServed
  <2>2. run[reached].identity \in Seq(Runs) /\ Len(run[reached].identity) = 3
    BY <2>1, RunIs, Names DEF RunState, SoundRun
  <2> QED
    BY <1>5, <2>1, <2>2, AcceptedIsOwn
<1> QED
  BY <1>2, <1>5, <1>6, <1>7, <1>8, <1>9, ClientStepIsSound

LEMMA ClientEndStep ==
    ASSUME SiteInv, ClientEnd
    PROVE  SiteInv'
<1>1. "client_side" \in Clients
  BY DEF Clients
<1>2. NoClient \in ClientState /\ NoClient.at = "idle" /\ NoClient.with = Missing
  BY DEF NoClient, ClientState
<1>3. ClientStep("client_side", NoClient)
  BY <1>2 DEF ClientStep, ClientEnd
<1> QED
  BY <1>1, <1>2, <1>3, SiteIs, ClientStepIsSound

LEMMA MidnightStep ==
    ASSUME SiteInv, Midnight
    PROVE  SiteInv'
<1>1. /\ today' = today + Day /\ today + Day <= LastDay
      /\ file' = file /\ run' = run /\ alone' = alone /\ client' = client
  BY DEF Midnight
<1>2. today \in Nat /\ today' \in 0 .. LastDay /\ today <= today'
  BY <1>1, SiteIs, SiteAssumption
<1>3. TypeOK'
  BY <1>1, <1>2, SiteIs, TypeOKIsNext DEF IsTyped
<1>4. FilesStay' /\ AloneIsUndisturbed' /\ ClientsAreServed' /\ AcceptedIsGenuine'
  BY <1>1 DEF SiteInv, FilesStay, AloneIsUndisturbed, ClientsAreServed, AcceptedIsGenuine,
              HasDone, IsAlive, HasServed, IsServing, Reaches, HasPorts
<1>5. ClientsOfItSucceed'
  <2>1. \A r \in Runs : InTime(r)' => InTime(r)
    <3> SUFFICES ASSUME NEW r \in Runs, today' <= run[r].born + 730
                 PROVE  today <= run[r].born + 730
      BY <1>1 DEF InTime
    <3>1. run[r].born \in Nat
      BY RunIs DEF RunState
    <3> QED
      BY <1>2, <3>1
  <2>2. alone \subseteq Runs
    BY SiteIs
  <2> QED
    BY <1>1, <2>1, <2>2 DEF SiteInv, ClientsOfItSucceed, IsServing
<1> QED
  BY <1>3, <1>4, <1>5 DEF SiteInv

-----------------------------------------------------------------------------
(* The theorems                                                             *)

LEMMA SiteStep == SiteInv /\ [SiteNext]_siteVars => SiteInv'
<1> SUFFICES ASSUME SiteInv, [SiteNext]_siteVars PROVE SiteInv'
  OBVIOUS
<1>1. ASSUME NEW r \in Runs,
             \/ StartRun(r) \/ Generate(r) \/ WriteFile(r) \/ FinishPreparing(r) \/ LoadConfig(r)
             \/ LoadIdentityFile(r) \/ Bind(r) \/ End(r)
      PROVE  SiteInv'
  BY <1>1, StartStep, GenerateStep, WriteFileStep, FinishPreparingStep, LoadConfigStep,
     LoadIdentityStep, BindStep, EndStep
<1>2. ASSUME NEW c \in Clients, ClientStart(c) \/ LoadTrustedRoot(c) \/ ConnectClient(c)
      PROVE  SiteInv'
  BY <1>2, ClientStartStep, LoadTrustedRootStep, ConnectStep
<1>3. CASE ClientEnd
  BY <1>3, ClientEndStep
<1>4. CASE Midnight
  BY <1>4, MidnightStep
<1>5. CASE UNCHANGED siteVars
  <2>1. /\ today' = today /\ file' = file /\ run' = run /\ alone' = alone /\ client' = client
    BY <1>5 DEF siteVars
  <2>2. TypeOK'
    BY <2>1, SiteIs, TypeOKIsNext DEF IsTyped
  <2>3. FilesStay' /\ AloneIsUndisturbed' /\ ClientsAreServed' /\ AcceptedIsGenuine'
    BY <2>1 DEF SiteInv, FilesStay, AloneIsUndisturbed, ClientsAreServed, AcceptedIsGenuine,
                HasDone, IsAlive, HasServed, IsServing, Reaches, HasPorts
  <2>4. ClientsOfItSucceed'
    BY <2>1 DEF SiteInv, ClientsOfItSucceed, IsServing, InTime
  <2> QED
    BY <2>2, <2>3, <2>4 DEF SiteInv
<1> QED
  BY <1>1, <1>2, <1>3, <1>4, <1>5 DEF SiteNext

\* Whatever programs are run on the directory, killed and overlapping as they
\* may be, files, runs and clients stay as the invariant says; in particular no
\* client takes a server for one that its root does not vouch for.
THEOREM SiteIsSound == SiteSpec => []SiteInv
BY SiteInitially, SiteStep, PTL DEF SiteSpec

\* What a run has beside which no other has been alive.
LEMMA AloneIsAccepted == SiteInv => ServedAloneIsAccepted
<1> SUFFICES ASSUME SiteInv, NEW r \in alone, IsServing(r), InTime(r)
             PROVE  /\ run[r].conf = r /\ file["root_cert"] \in Runs
                    /\ Accepts(file["root_cert"], run[r].identity)
  BY DEF ServedAloneIsAccepted
<1> QED
  BY AloneServes

\* A run beside which no other has been alive serves with its own configuration
\* and an identity that the root in the directory vouches for, until the server
\* certificate expires, whatever runs before it left behind.
THEOREM AloneServesWell == SiteSpec => []ServedAloneIsAccepted
BY SiteIsSound, AloneIsAccepted, PTL

\* A client that begins while such a run serves is not turned away.
THEOREM ClientsAreNotTurnedAway == SiteSpec => []ClientsOfItSucceed
<1>1. SiteInv => ClientsOfItSucceed
  BY DEF SiteInv
<1> QED
  BY <1>1, SiteIsSound, PTL
=============================================================================
