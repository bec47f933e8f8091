-------------------------- MODULE RegistrationProofs --------------------------
(***************************************************************************)
(* Proofs about the clients: that resolvePort (pkg/relay/runner.go) gives  *)
(* different indices different ports, for lists of every length and every  *)
(* index; that the server reads in a registration what the flags of its    *)
(* client mean; and, for any number of clients, connections and faults,    *)
(* that client and server agree on their connection and its index, which   *)
(* the client keeps.                                                       *)
(***************************************************************************)
EXTENDS ClientRunner, RelayTableProofs, SequenceTheorems

\* Behind the end of an ascending list the ports go on above all of the list.
LEMMA PortsAscend ==
    ASSUME NEW spec \in Seq(Nat), spec # <<>>, Ascending(spec),
           NEW i \in Nat, NEW j \in Nat, i < j
    PROVE  ResolvePort(spec, i) < ResolvePort(spec, j)
  <1>1. Len(spec) \in Nat \ {0} /\ \A k \in 1..Len(spec) : spec[k] \in Nat
    OBVIOUS
  <1>2. \A k \in 1..Len(spec) : spec[k] <= spec[Len(spec)]
    BY <1>1 DEF Ascending
  <1>3. CASE Len(spec) = 1
    BY <1>1, <1>3 DEF ResolvePort
  <1>4. CASE Len(spec) # 1 /\ j < Len(spec)
    <2>1. ResolvePort(spec, i) = spec[i + 1] /\ ResolvePort(spec, j) = spec[j + 1]
      BY <1>1, <1>4 DEF ResolvePort
    <2> QED BY <1>1, <1>4, <2>1 DEF Ascending
  <1>5. CASE Len(spec) # 1 /\ i < Len(spec) /\ j >= Len(spec)
    <2>1. /\ ResolvePort(spec, i) = spec[i + 1]
          /\ ResolvePort(spec, j) = spec[Len(spec)] + (j - Len(spec) + 1)
      BY <1>1, <1>5 DEF ResolvePort
    <2>2. i + 1 \in 1..Len(spec)
      BY <1>1, <1>5
    <2>3. spec[i + 1] <= spec[Len(spec)]
      BY <1>2, <2>2
    <2> QED BY <1>1, <1>5, <2>1, <2>2, <2>3
  <1>6. CASE Len(spec) # 1 /\ i >= Len(spec)
    BY <1>1, <1>6 DEF ResolvePort
  <1> QED BY <1>1, <1>3, <1>4, <1>5, <1>6

\* Clients that share an ascending list of ports and have different indices never
\* want the same port, whatever the length of the list and the ports in it.
THEOREM ResolvePortIsInjective ==
    ASSUME NEW spec \in Seq(Nat), spec # <<>>, Ascending(spec),
           NEW i \in Nat, NEW j \in Nat, i # j
    PROVE  ResolvePort(spec, i) # ResolvePort(spec, j)
  <1>1. ASSUME NEW k \in Nat PROVE ResolvePort(spec, k) \in Nat
    <2>1. Len(spec) \in Nat \ {0} /\ \A m \in 1..Len(spec) : spec[m] \in Nat
      OBVIOUS
    <2>2. CASE Len(spec) = 1 \/ k < Len(spec)
      BY <2>1, <2>2 DEF ResolvePort
    <2>3. CASE Len(spec) # 1 /\ k >= Len(spec)
      BY <2>1, <2>3 DEF ResolvePort
    <2> QED BY <2>1, <2>2, <2>3
  <1>2. CASE i < j
    BY <1>1, <1>2, PortsAscend
  <1>3. CASE j < i
    BY <1>1, <1>3, PortsAscend
  <1> QED BY <1>2, <1>3

\* The same of clients that run with any flags of crflc, in every state.
THEOREM PortsNeverClash == ClientSpec => []PortsAreDistinct
  <1>1. ASSUME NEW i \in Nat, NEW j \in Nat, i # j PROVE PortsDiffer(i, j)
    <2> SUFFICES ASSUME NEW f \in FlagSet, f.ports # <<>>, Ascending(f.ports)
                 PROVE  ResolvePort(f.ports, i) # ResolvePort(f.ports, j)
      BY DEF PortsDiffer
    <2>1. PICK n \in 0..2 : f.ports \in [1..n -> Ports]
      BY DEF FlagSet
    <2>2. f.ports \in [1..n -> Nat]
      BY <2>1, PortsAssumption DEF PortsAssumption
    <2>3. PICK spec \in Seq(Nat) : spec = f.ports
      BY <2>2
    <2>4. ResolvePort(spec, i) # ResolvePort(spec, j)
      BY <1>1, <2>3, ResolvePortIsInjective
    <2> QED BY <2>3, <2>4
  <1>2. \A i, j \in Index : i # j => <<i, j>> \in DifferingIndices
    <2>1. Index \subseteq Nat
      BY IndexAssumption DEF Index
    <2> QED BY <1>1, <2>1 DEF DifferingIndices
  <1>3. PortsAreDistinct
    BY <1>2 DEF PortsAreDistinct
  <1> QED BY <1>3, PTL

-------------------------------------------------------------------------------
(* What a registration means. *)

\* A payload has four fields.
LEMMA FieldsAreFound ==
    ASSUME NEW a, NEW b, NEW c, NEW d
    PROVE  /\ Field(<<a, b, c, d>>, 2) = b
           /\ Field(<<a, b, c, d>>, 3) = c
           /\ Field(<<a, b, c, d>>, 4) = d
           /\ Len(<<a, b, c, d>>) = 4
           /\ <<a, b, c, d>>[1] = a /\ <<a, b, c, d>>[2] = b /\ <<a, b, c, d>>[3] = c
           /\ <<a, b>> \o <<c, d>> = <<a, b, c, d>>
  <1>1. Len(<<a, b, c, d>>) = 4
    OBVIOUS
  <1>2. <<a, b>> \o <<c, d>> = <<a, b, c, d>>
    <2> DEFINE T == {a, b, c, d}
    <2>1. <<a, b>> \in Seq(T) /\ <<c, d>> \in Seq(T) /\ <<a, b, c, d>> \in Seq(T)
      OBVIOUS
    <2>2. PICK s \in Seq(T), t \in Seq(T), u \in Seq(T) :
              /\ s = <<a, b>> /\ t = <<c, d>> /\ u = <<a, b, c, d>>
              /\ Len(s) = 2 /\ Len(t) = 2 /\ Len(u) = 4
              /\ s[1] = u[1] /\ s[2] = u[2] /\ t[1] = u[3] /\ t[2] = u[4]
      BY <2>1
    <2> HIDE DEF T
    <2>3. s \o t \in Seq(T) /\ Len(s \o t) = 4
      BY <2>2
    <2>4. \A k \in 1..4 : (s \o t)[k] = u[k]
      BY <2>2
    <2>5. s \o t = u
      BY <2>2, <2>3, <2>4, SeqEqual
    <2> QED BY <2>2, <2>5
  <1> QED BY <1>1, <1>2 DEF Field

\* The fields of a payload are told apart by their positions, whatever is in them.
LEMMA PayloadIsRead ==
    ASSUME NEW f \in FlagSet, Accepted(f), ResolveRole(f) # "error", NEW i \in Int, i >= -1
    PROVE  ParseRegRequest(BuildRegisterPayload(f, i)) = Meaning(f, i)
  <1>1. ResolveRole(f) \in {"file-sender", "file-receiver", "listener", "forwarder"}
    BY DEF ResolveRole
  <1>2. PICK at2 : at2 = IF i >= 0 THEN Number(i) ELSE Word("")
    OBVIOUS
  <1>3. /\ at2 # Word("tun")
        /\ i = IF at2[1] = "number" THEN at2[2] ELSE -1
    <2>1. CASE i >= 0
      BY <1>2, <2>1 DEF Word, Number
    <2>2. CASE i = -1
      <3>0. ~(i >= 0)
        BY <2>2
      <3>1. at2 = <<"", 0>>
        BY <1>2, <3>0, Zenon DEF Word
      <3>2. at2[1] = ""
        BY <3>1
      <3>3. at2 # <<"tun", 0>>
        BY <3>1
      <3> QED BY <2>2, <3>2, <3>3 DEF Word
    <2> QED BY <2>1, <2>2
  <1>4. ASSUME NEW r, NEW m, NEW x, m # "tun"
        PROVE  ParseRegRequest(<<Word(r), at2>> \o <<Word(m), x>>)
                   = [role |-> r, want |-> i, mode |-> m, net |-> NoNet]
    <2>1. PICK p : p = <<Word(r), at2, Word(m), x>>
      OBVIOUS
    <2>2. /\ Field(p, 2) = at2 /\ Field(p, 3) = Word(m) /\ Len(p) = 4
          /\ p[1] = Word(r) /\ p[2] = at2 /\ p[3] = Word(m)
          /\ <<Word(r), at2>> \o <<Word(m), x>> = p
      BY <2>1, FieldsAreFound
    <2>3. Word(m) # Word("tun") /\ Word(r)[1] = r /\ Word(m)[1] = m
      BY <1>4 DEF Word
    <2>4. {n \in {2, 3} : Field(p, n) = Word("tun")} = {}
      BY <1>3, <2>2, <2>3
    <2>5. ParseRegRequest(p) = [role |-> p[1][1],
                                want |-> IF at2[1] = "number" THEN at2[2] ELSE -1,
                                mode |-> p[3][1],
                                net |-> NoNet]
      BY <2>2, <2>4 DEF ParseRegRequest
    <2> QED BY <1>3, <2>2, <2>3, <2>5
  <1>5. ASSUME NEW r, NEW x
        PROVE  ParseRegRequest(<<Word(r), at2>> \o <<Word("tun"), Word(x)>>)
                   = [role |-> r, want |-> i, mode |-> "tun", net |-> x]
    <2>1. PICK p : p = <<Word(r), at2, Word("tun"), Word(x)>>
      OBVIOUS
    <2>2. /\ Field(p, 2) = at2 /\ Field(p, 3) = Word("tun") /\ Field(p, 4) = Word(x)
          /\ p[1] = Word(r) /\ p[2] = at2
          /\ <<Word(r), at2>> \o <<Word("tun"), Word(x)>> = p
      BY <2>1, FieldsAreFound
    <2>3. Word(r)[1] = r /\ Word(x)[1] = x
      BY DEF Word
    <2>4. {n \in {2, 3} : Field(p, n) = Word("tun")} = {3}
      BY <1>3, <2>2
    <2> QED BY <1>3, <2>2, <2>3, <2>4 DEF ParseRegRequest
  <1>6. NoNet = NoNet /\ (f.net # NoNet => ~f.udp)
    BY DEF Accepted
  <1>7. CASE ResolveRole(f) = "file-sender"
    BY <1>2, <1>4, <1>7 DEF BuildRegisterPayload, FormatRegPayload, Meaning, NewClientMode
  <1>8. CASE ResolveRole(f) = "file-receiver"
    BY <1>2, <1>4, <1>8 DEF BuildRegisterPayload, FormatRegPayload, Meaning, NewClientMode
  <1>9. CASE ResolveRole(f) = "listener" /\ f.net # NoNet
    BY <1>2, <1>5, <1>9 DEF BuildRegisterPayload, FormatRegPayload, Meaning, NewClientMode
  <1>10. CASE ResolveRole(f) = "listener" /\ f.net = NoNet
    BY <1>2, <1>4, <1>10
       DEF BuildRegisterPayload, FormatRegPayload, Meaning, NewClientMode, PickProto, Word
  <1>11. CASE ResolveRole(f) = "forwarder"
    BY <1>2, <1>4, <1>11
       DEF BuildRegisterPayload, FormatRegPayload, Meaning, NewClientMode, PickProto, Word
  <1> QED BY <1>1, <1>7, <1>8, <1>9, <1>10, <1>11

\* Whatever index a client has come to ask for, the request that the server reads is the
\* one its flags mean.
THEOREM RegistrationsAreMeant ==
    ASSUME NEW i \in Index \cup {-1}
    PROVE  MeantAt(i)
  <1>1. i \in Int /\ i >= -1
    BY IndexAssumption DEF Index, IndexAssumption
  <1> QED BY <1>1, PayloadIsRead DEF MeantAt

-------------------------------------------------------------------------------
(* Clients and server. *)

\* The inductive invariant behind ClientsAgree and IndexIsKept: an index that was asked for
\* is given, a RegOK tells the index its connection keeps, and who runs was told.
WantsAreMet ==
    \A c \in Conns :
        /\ pc[c] \in {"assign", "resolve"} => req[c].want = -1
        /\ Settled(c) /\ pc[c] # "done" /\ req[c].want >= 0 => idx[c] = req[c].want

AnswersAreRight ==
    \A c \in Conns : \A n \in RegOKs(c) :
        /\ out[c][n].n = idx[c] /\ idx[c] \in Index /\ Settled(c)
        /\ req[c].want >= 0 => idx[c] = req[c].want

ClientInvariant ==
    /\ ClientsAgree /\ IndexGiven /\ WantsAreMet /\ AnswersAreRight
    /\ \A k \in Clients : at[k] = "run" => Settled(cur[k])

\* A client asks for a request the server may be asked, and for the index it means.
LEMMA RequestsAreMade ==
    ASSUME NEW f \in Configs, NEW i \in Index \cup {-1}
    PROVE  RequestOf[f][i] \in Requests /\ RequestOf[f][i].want = i
  <1>1. f \in FlagSet /\ Accepted(f) /\ ResolveRole(f) # "error" /\ AsRead(Meaning(f, i)) \in Requests
    BY ConfigsAssumption DEF ConfigsAssumption
  <1>2. i \in Int /\ i >= -1
    BY IndexAssumption DEF Index, IndexAssumption
  <1>3. ParseRegRequest(BuildRegisterPayload(f, i)) = Meaning(f, i)
    BY <1>1, <1>2, PayloadIsRead
  <1>4. RequestOf[f][i] = AsRead(ParseRegRequest(BuildRegisterPayload(f, i)))
    BY DEF RequestOf
  <1>5. RequestOf[f][i] = AsRead(Meaning(f, i))
    BY <1>3, <1>4
  <1>6. AsRead(Meaning(f, i)).want = i
    BY DEF AsRead, Meaning
  <1> QED BY <1>1, <1>5, <1>6

\* A step of the server's goroutines keeps its types.
LEMMA ServerTypes ==
    ASSUME TypeOK, IndexGiven, NEW c \in Conns, Handshake(c) \/ HandleClient(c)
    PROVE  TypeOK' /\ IndexGiven' /\ Next /\ req' = req
  <1>1. Next
    BY DEF Next
  <1>2. TypeOK'
    BY <1>1, ConnsStep, PeersStep, TunStep, SrvStep, RegStep DEF TypeOK
  <1> QED BY <1>1, <1>2, IndexStep, RequestsStay

\* An index that a client names is the one it is given.
LEMMA WantsStep ==
    ASSUME TypeOK, IndexGiven, WantsAreMet, Next
    PROVE  WantsAreMet'
  <1> USE DEF TypeOK, RegTypeOK, Settled, WantsAreMet
  <1>1. req' = req
    BY RequestsStay
  <1> SUFFICES ASSUME NEW c \in Conns
               PROVE  /\ pc'[c] \in {"assign", "resolve"} => req[c].want = -1
                      /\ Settled(c)' /\ pc'[c] # "done" /\ req[c].want >= 0 => idx'[c] = req[c].want
    BY <1>1
  <1>2. req[c].want \in Index \cup {-1} /\ (req[c].want >= 0 \/ req[c].want = -1)
    BY RequestsAreTyped, IndexAssumption DEF Index, IndexAssumption
  <1>3. CASE ~Handshake(c) /\ ~HandleClient(c)
    BY <1>3, OthersWait
  <1>4. CASE Handshake(c)
    BY <1>2, <1>4 DEF Handshake, ServerAuthRejects, RejectTun, DispatchReg, Refuse, Return, Goto
  <1>5. CASE AssignIndex(c) \/ ResolveForwarderIndex(c) \/ NoSingleListener(c)
    BY <1>2, <1>5 DEF AssignIndex, ResolveForwarderIndex, NoSingleListener, Refuse, Return, Goto
  <1>6. CASE HandleClient(c) /\ ~AssignIndex(c) /\ ~ResolveForwarderIndex(c) /\ ~NoSingleListener(c)
    <2>1. idx' = idx
      BY <1>6 DEF HandleClient, HandshakeFails, BumpNextIndex, CheckListenerLimit,
                  TooManyListeners, LookupListener, CheckProtocolMatch,
                  ProtocolMismatch, TunEnsurePool, TunPoolFails, TunRegisterClient,
                  TunOutOfRange, InstallListener, InstallForwarder, StoreMeta,
                  NotifyPeerChange, SendRegOK, RelayFromListener, RelayFromForwarder,
                  SendToListener, RelayEnds, Unregister, RemoveMeta, TunFromClient,
                  TunRelayEnds, TunUnregister, regVars
    <2>2. pc'[c] = "done" \/ (Settled(c) /\ pc[c] # "done" /\ Settled(c)')
      BY <1>6 DEF HandleClient, HandshakeFails, BumpNextIndex, CheckListenerLimit,
                  TooManyListeners, LookupListener, CheckProtocolMatch,
                  ProtocolMismatch, TunEnsurePool, TunPoolFails, TunRegisterClient,
                  TunOutOfRange, InstallListener, InstallForwarder, StoreMeta,
                  NotifyPeerChange, SendRegOK, RelayFromListener, RelayFromForwarder,
                  SendToListener, RelayEnds, Unregister, RemoveMeta, TunFromClient,
                  TunRelayEnds, TunUnregister, Refuse, Return, Goto, regVars
    <2> QED BY <2>1, <2>2
  <1> QED BY <1>3, <1>4, <1>5, <1>6

\* A RegOK carries the index of its connection.
LEMMA AnswersStep ==
    ASSUME TypeOK, IndexGiven, WantsAreMet, AnswersAreRight, Next
    PROVE  AnswersAreRight'
  <1>1. req' = req
    BY RequestsStay
  <1> SUFFICES ASSUME NEW c \in Conns, NEW n \in RegOKs(c)'
               PROVE  /\ out'[c][n].n = idx'[c] /\ idx'[c] \in Index /\ Settled(c)'
                      /\ req[c].want >= 0 => idx'[c] = req[c].want
    BY <1>1 DEF AnswersAreRight
  <1>2. n \in 1..Len(out'[c]) /\ out'[c][n].type = "RegOK"
    BY DEF RegOKs
  <1>3. CASE n \in 1..Len(out[c]) /\ out'[c][n] = out[c][n]
    <2>1. n \in RegOKs(c)
      BY <1>2, <1>3 DEF RegOKs
    <2>2. /\ out[c][n].n = idx[c] /\ idx[c] \in Index /\ Settled(c)
          /\ req[c].want >= 0 => idx[c] = req[c].want
      BY <2>1 DEF AnswersAreRight
    <2> QED BY <1>3, <2>2, IndexStays
  <1>4. CASE SendRegOK(c) /\ ~(n \in 1..Len(out[c]) /\ out'[c][n] = out[c][n])
    <2>1. idx[c] \in Index /\ Settled(c) /\ pc[c] # "done"
      BY <1>4 DEF SendRegOK, IndexGiven, Settled
    <2>2. Frame("RegOK", NoConn, idx[c]) \in Frames
      BY <2>1, FramesAreTyped DEF FrameType, Index
    <2>3. out' = Written({c}, Frame("RegOK", NoConn, idx[c]))
      BY <1>4 DEF SendRegOK
    <2>4. out'[c][n] = Frame("RegOK", NoConn, idx[c])
      BY <1>2, <1>4, <2>2, <2>3, NewestIsWritten DEF TypeOK
    <2>5. out'[c][n].n = idx[c]
      BY <2>4 DEF Frame
    <2> QED BY <2>1, <2>5, IndexStays DEF WantsAreMet
  <1> QED BY <1>2, <1>3, <1>4, FrameOrigin DEF Frame

\* What is said of the clients, without the types of the server.
ClientsTyped ==
    /\ at \in [Clients -> {"down", "wait", "run", "exit"}]
    /\ cur \in [Clients -> Conns \cup {NoConn}]
    /\ actualIndex \in [Clients -> Index \cup {-1}]
    /\ config \in [Clients -> Configs]
    /\ signalled \subseteq Clients
    /\ faults \in 0..MaxFaults

\* Clients that are typed make requests that are.
LEMMA ClientTypes ==
    ASSUME TypeOK, ClientsTyped
    PROVE  ClientTypeOK
  <1>1. ASSUME NEW k \in Clients PROVE Request(k) \in Requests
    BY <1>1, RequestsAreMade DEF ClientsTyped, Request
  <1> QED BY <1>1 DEF ClientTypeOK, ClientsTyped

\* What is said of the connections of the clients.
Attached ==
    /\ \A j, k \in Clients : j # k /\ cur[j] = cur[k] => cur[k] = NoConn
    /\ \A k \in Clients :
        /\ at[k] \in {"wait", "run"} <=> cur[k] # NoConn
        /\ cur[k] # NoConn => req[cur[k]] = Request(k) \/ at[k] = "run"
        /\ at[k] = "run" => idx[cur[k]] = actualIndex[k]
        /\ at[k] = "run" => Settled(cur[k])

LEMMA InvariantInParts ==
    /\ ClientInvariant => /\ TypeOK /\ ClientsTyped /\ Attached
                          /\ IndexGiven /\ WantsAreMet /\ AnswersAreRight
    /\ TypeOK /\ ClientsTyped /\ Attached /\ IndexGiven /\ WantsAreMet /\ AnswersAreRight
           => ClientInvariant
  <1>1. TypeOK /\ ClientsTyped /\ Attached /\ IndexGiven /\ WantsAreMet /\ AnswersAreRight
            => ClientInvariant
    BY ClientTypes DEF ClientInvariant, ClientsAgree, Attached
  <1>2. ClientInvariant => /\ TypeOK /\ ClientsTyped /\ Attached
                           /\ IndexGiven /\ WantsAreMet /\ AnswersAreRight
    BY DEF ClientInvariant, ClientsAgree, ClientTypeOK, ClientsTyped, Attached
  <1> QED BY <1>1, <1>2

\* The server's goroutines leave a client its connection and a connection its index.
LEMMA ServerKeepsClients ==
    ASSUME ClientInvariant, NEW c \in Conns, Handshake(c) \/ HandleClient(c), UNCHANGED clientVars
    PROVE  ClientInvariant'
  <1>1. /\ TypeOK /\ ClientsTyped /\ Attached
        /\ IndexGiven /\ WantsAreMet /\ AnswersAreRight
    BY InvariantInParts
  <1>2. TypeOK' /\ IndexGiven' /\ Next /\ req' = req
    BY <1>1, ServerTypes
  <1>3. WantsAreMet' /\ AnswersAreRight'
    BY <1>1, <1>2, WantsStep, AnswersStep
  <1>4. ClientsTyped'
    BY <1>1 DEF ClientsTyped, clientVars
  <1>5. ASSUME NEW k \in Clients, at[k] = "run" PROVE Settled(cur[k])' /\ idx'[cur[k]] = idx[cur[k]]
    <2>1. cur[k] \in Conns /\ Settled(cur[k])
      BY <1>1, <1>5 DEF Attached, ClientsTyped
    <2>2. Settled(cur[k])' /\ idx'[cur[k]] = idx[cur[k]]
      <3>1. PICK d \in Conns : d = cur[k] /\ Settled(d)
        BY <2>1
      <3>2. (pc'[d]) \notin {"auth", "assign", "resolve"} /\ idx'[d] = idx[d]
        BY <1>1, <1>2, <3>1, IndexStays DEF Settled
      <3>3. cur'[k] = cur[k]
        BY DEF clientVars
      <3> QED BY <3>1, <3>2, <3>3 DEF Settled
    <2> QED BY <2>2
  <1>6. Attached'
    BY <1>1, <1>2, <1>5 DEF Attached, clientVars, Request
  <1>7. (TypeOK /\ ClientsTyped /\ Attached /\ IndexGiven /\ WantsAreMet /\ AnswersAreRight
            => ClientInvariant)'
    BY InvariantInParts, PTL
  <1> QED BY <1>2, <1>3, <1>4, <1>6, <1>7

\* A new connection is nobody's, and nothing has been said on it.
LEMMA DialKeepsClients ==
    ASSUME ClientInvariant, NEW k \in Clients, Dial(k)
    PROVE  ClientInvariant'
  <1>1. /\ TypeOK /\ ClientsTyped /\ Attached
        /\ IndexGiven /\ WantsAreMet /\ AnswersAreRight
    BY InvariantInParts
  <1>2. PICK c \in Conns :
          /\ Unused(c)
          /\ Become(k, "wait", c)
          /\ srvClosed' = srvClosed \ {c} /\ cliClosed' = cliClosed \ {c}
          /\ sent' = [sent EXCEPT ![c] = 0] /\ read' = [read EXCEPT ![c] = 0]
          /\ out' = [out EXCEPT ![c] = <<>>]
          /\ pc' = [pc EXCEPT ![c] = "auth"]
          /\ req' = [req EXCEPT ![c] = Request(k)]
          /\ idx' = [idx EXCEPT ![c] = -1]
    BY DEF Dial, Connect
  <1>3. at[k] = "down" /\ UNCHANGED <<peerVars, tunVars, held, srvVars, config, actualIndex, signalled, faults>>
    BY DEF Dial, Connect
  <1>4. Request(k) \in Requests
    BY <1>1, RequestsAreMade DEF ClientsTyped, Request
  <1>5. TypeOK'
    <2>1. ConnsTypeOK'
      BY <1>1, <1>2 DEF TypeOK, ConnsTypeOK
    <2>2. PeerMapTypeOK' /\ TunTypeOK' /\ SrvTypeOK'
      BY <1>1, <1>3 DEF TypeOK, PeerMapTypeOK, TunTypeOK, SrvTypeOK, peerVars, tunVars, srvVars
    <2>3. RegTypeOK'
      BY <1>1, <1>2, <1>3, <1>4 DEF TypeOK, RegTypeOK, Labels
    <2> QED BY <2>1, <2>2, <2>3 DEF TypeOK
  <1>6. ClientsTyped'
    BY <1>1, <1>2, <1>3 DEF ClientsTyped, Become
  <1>7. \A d \in Conns : d # c => /\ pc'[d] = pc[d] /\ idx'[d] = idx[d] /\ req'[d] = req[d]
                                  /\ out'[d] = out[d]
    BY <1>1, <1>2 DEF TypeOK, ConnsTypeOK, RegTypeOK
  <1>8. pc'[c] = "auth" /\ out'[c] = <<>> /\ req'[c] = Request(k)
    BY <1>1, <1>2 DEF TypeOK, ConnsTypeOK, RegTypeOK
  <1>9. IndexGiven' /\ WantsAreMet'
    BY <1>1, <1>7, <1>8 DEF IndexGiven, WantsAreMet, Settled
  <1>10. AnswersAreRight'
    BY <1>1, <1>7, <1>8 DEF AnswersAreRight, RegOKs, Settled
  <1>11. \A j \in Clients : cur[j] # c
    BY <1>2 DEF Unused
  <1>12. /\ \A j \in Clients : j # k => at'[j] = at[j] /\ cur'[j] = cur[j]
         /\ at'[k] = "wait" /\ cur'[k] = c /\ cur[k] = NoConn
    BY <1>1, <1>2, <1>3 DEF Become, ClientsTyped, Attached
  <1>13. c # NoConn /\ \A j \in Clients : Request(j)' = Request(j)
    BY <1>3, ConnsAssumption DEF ConnsAssumption, Request
  <1>14. \A j \in Clients : cur[j] # NoConn => cur[j] \in Conns
    BY <1>1 DEF ClientsTyped
  <1>15. Attached'
    <2>1. ASSUME NEW j \in Clients, j # k
          PROVE  /\ at'[j] \in {"wait", "run"} <=> cur'[j] # NoConn
                 /\ cur'[j] # NoConn => req'[cur'[j]] = Request(j)' \/ at'[j] = "run"
                 /\ at'[j] = "run" => idx'[cur'[j]] = actualIndex'[j]
                 /\ at'[j] = "run" => Settled(cur[j])'
      <3>1. at'[j] = at[j] /\ cur'[j] = cur[j] /\ Request(j)' = Request(j) /\ actualIndex' = actualIndex
        BY <1>3, <1>12, <1>13, <2>1
      <3>2. cur[j] # NoConn => /\ pc'[cur[j]] = pc[cur[j]] /\ idx'[cur[j]] = idx[cur[j]]
                               /\ req'[cur[j]] = req[cur[j]]
        BY <1>7, <1>11, <1>14
      <3> QED BY <1>1, <3>1, <3>2 DEF Attached, Settled
    <2>2. \A i, j \in Clients : i # j /\ cur'[i] = cur'[j] => cur'[j] = NoConn
      BY <1>1, <1>11, <1>12 DEF Attached
    <2> QED BY <1>8, <1>12, <1>13, <2>1, <2>2 DEF Attached
  <1>16. (TypeOK /\ ClientsTyped /\ Attached /\ IndexGiven /\ WantsAreMet /\ AnswersAreRight
            => ClientInvariant)'
    BY InvariantInParts, PTL
  <1> QED BY <1>5, <1>6, <1>9, <1>10, <1>15, <1>16

\* Where the server does nothing, nothing is different for it.
LEMMA ServerStays ==
    ASSUME UNCHANGED vars, TypeOK, IndexGiven, WantsAreMet, AnswersAreRight
    PROVE  TypeOK' /\ IndexGiven' /\ WantsAreMet' /\ AnswersAreRight'
  <1> USE DEF vars
  <1>1. ConnsTypeOK' /\ PeerMapTypeOK'
    BY DEF TypeOK, ConnsTypeOK, PeerMapTypeOK, connVars, peerVars
  <1>2. TunTypeOK' /\ SrvTypeOK'
    BY DEF TypeOK, TunTypeOK, SrvTypeOK, tunVars, srvVars
  <1>3. RegTypeOK'
    BY DEF TypeOK, RegTypeOK, regVars
  <1>4. IndexGiven' /\ WantsAreMet'
    BY DEF IndexGiven, WantsAreMet, Settled, regVars
  <1>5. AnswersAreRight'
    BY DEF AnswersAreRight, RegOKs, Settled, regVars, connVars
  <1> QED BY <1>1, <1>2, <1>3, <1>4, <1>5 DEF TypeOK

\* The RegOK that a client waits for carries the index of its connection.
LEMMA RegisterKeepsClients ==
    ASSUME ClientInvariant, NEW k \in Clients, RegistersAs(k)
    PROVE  /\ ClientInvariant'
           /\ actualIndex[k] >= 0 => actualIndex'[k] = actualIndex[k]
           /\ \A j \in Clients \ {k} : actualIndex'[j] = actualIndex[j]
  <1>1. /\ TypeOK /\ ClientsTyped /\ Attached
        /\ IndexGiven /\ WantsAreMet /\ AnswersAreRight
    BY InvariantInParts
  <1>2. TypeOK' /\ IndexGiven' /\ WantsAreMet' /\ AnswersAreRight'
    BY <1>1, ServerStays DEF RegistersAs
  <1>3. /\ at[k] = "wait" /\ at' = [at EXCEPT ![k] = "run"] /\ cur' = [cur EXCEPT ![k] = cur[k]]
        /\ UNCHANGED <<idx, req, pc>> /\ UNCHANGED <<config, signalled, faults>>
    BY DEF RegistersAs, Become, vars, regVars
  <1>4. PICK c \in Conns : c = cur[k] /\ req[c] = Request(k)
    BY <1>1, <1>3, ConnsAssumption DEF Attached, ClientsTyped, ConnsAssumption
  <1>5. PICK n \in RegOKs(c) : actualIndex' = [actualIndex EXCEPT ![k] = out[c][n].n]
    BY <1>4 DEF RegistersAs
  <1>6. /\ out[c][n].n = idx[c] /\ idx[c] \in Index /\ Settled(c)
        /\ req[c].want >= 0 => idx[c] = req[c].want
    BY <1>1, <1>5 DEF AnswersAreRight
  <1>7. req[c].want = actualIndex[k]
    BY <1>1, <1>4, RequestsAreMade DEF ClientsTyped, Request
  <1>8. /\ actualIndex'[k] = idx[c]
        /\ \A j \in Clients \ {k} : actualIndex'[j] = actualIndex[j]
        /\ \A j \in Clients \ {k} : at'[j] = at[j]
        /\ at'[k] = "run" /\ cur' = cur
    BY <1>1, <1>3, <1>5, <1>6 DEF ClientsTyped
  <1>9. ClientsTyped'
    BY <1>1, <1>3, <1>5, <1>6 DEF ClientsTyped
  <1>10. Attached'
    <2>1. Settled(cur[k])' /\ cur[k] # NoConn
      <3>1. pc' = pc /\ cur' = cur
        BY <1>3, <1>8
      <3> QED BY <1>4, <1>6, <3>1, ConnsAssumption DEF Settled, ConnsAssumption
    <2>2. ASSUME NEW j \in Clients \ {k}
          PROVE  /\ at'[j] \in {"wait", "run"} <=> cur'[j] # NoConn
                 /\ cur'[j] # NoConn => req'[cur'[j]] = Request(j)' \/ at'[j] = "run"
                 /\ at'[j] = "run" => idx'[cur'[j]] = actualIndex'[j]
                 /\ at'[j] = "run" => Settled(cur[j])'
      <3>1. /\ at'[j] = at[j] /\ cur' = cur /\ Request(j)' = Request(j)
            /\ actualIndex'[j] = actualIndex[j]
        BY <1>3, <1>8 DEF Request
      <3> QED BY <1>1, <1>3, <3>1 DEF Attached, Settled
    <2>3. \A i, j \in Clients : i # j /\ cur'[i] = cur'[j] => cur'[j] = NoConn
      BY <1>1, <1>8 DEF Attached
    <2> QED BY <1>3, <1>4, <1>8, <2>1, <2>2, <2>3 DEF Attached
  <1>11. (TypeOK /\ ClientsTyped /\ Attached /\ IndexGiven /\ WantsAreMet /\ AnswersAreRight
            => ClientInvariant)'
    BY InvariantInParts, PTL
  <1> QED BY <1>2, <1>6, <1>7, <1>8, <1>9, <1>10, <1>11

\* A connection that a client hangs up is nobody's.
LEMMA HangupKeepsClients ==
    ASSUME ClientInvariant, NEW k \in Clients, NEW l \in {"down", "exit"},
           Hangup(k, l), at[k] \in {"wait", "run"}, faults' \in 0..MaxFaults
    PROVE  ClientInvariant' /\ actualIndex' = actualIndex
  <1>1. /\ TypeOK /\ ClientsTyped /\ Attached
        /\ IndexGiven /\ WantsAreMet /\ AnswersAreRight
    BY InvariantInParts
  <1>2. PICK c \in Conns : c = cur[k]
    BY <1>1 DEF Attached, ClientsTyped
  <1>3. /\ at' = [at EXCEPT ![k] = l] /\ cur' = [cur EXCEPT ![k] = NoConn]
        /\ cliClosed' = cliClosed \cup {c}
        /\ out' = [out EXCEPT ![c] = <<>>]
        /\ UNCHANGED <<srvClosed, sent, read, peerVars, tunVars, regVars, srvVars>>
        /\ UNCHANGED <<config, actualIndex, signalled>>
    BY <1>2 DEF Hangup, Become
  <1>4. UNCHANGED <<idx, req, pc, held>>
    BY <1>3 DEF regVars
  <1>5. TypeOK'
    <2>1. ConnsTypeOK'
      BY <1>1, <1>3 DEF TypeOK, ConnsTypeOK
    <2>2. PeerMapTypeOK' /\ TunTypeOK' /\ SrvTypeOK' /\ RegTypeOK'
      BY <1>1, <1>3, <1>4 DEF TypeOK, PeerMapTypeOK, TunTypeOK, SrvTypeOK, RegTypeOK,
                              peerVars, tunVars, srvVars
    <2> QED BY <2>1, <2>2 DEF TypeOK
  <1>6. IndexGiven' /\ WantsAreMet'
    BY <1>1, <1>4 DEF IndexGiven, WantsAreMet, Settled
  <1>7. AnswersAreRight'
    <2>1. out'[c] = <<>> /\ \A d \in Conns : d # c => out'[d] = out[d]
      BY <1>1, <1>3 DEF TypeOK, ConnsTypeOK
    <2> QED BY <1>1, <1>4, <2>1 DEF AnswersAreRight, RegOKs, Settled
  <1>8. ClientsTyped'
    BY <1>1, <1>3 DEF ClientsTyped
  <1>9. Attached'
    BY <1>1, <1>3, <1>4 DEF Attached, ClientsTyped, Settled, Request
  <1>10. (TypeOK /\ ClientsTyped /\ Attached /\ IndexGiven /\ WantsAreMet /\ AnswersAreRight
            => ClientInvariant)'
    BY InvariantInParts, PTL
  <1> QED BY <1>3, <1>5, <1>6, <1>7, <1>8, <1>9, <1>10

\* A signal, and a client that ends without a connection, concern no connection.
LEMMA StopKeepsClients ==
    ASSUME ClientInvariant, NEW k \in Clients, Signal(k) \/ ShutDown(k)
    PROVE  ClientInvariant' /\ actualIndex' = actualIndex
  <1>1. /\ TypeOK /\ ClientsTyped /\ Attached
        /\ IndexGiven /\ WantsAreMet /\ AnswersAreRight
    BY InvariantInParts
  <1>2. TypeOK' /\ IndexGiven' /\ WantsAreMet' /\ AnswersAreRight'
    BY <1>1, ServerStays DEF Signal, ShutDown
  <1>3. UNCHANGED <<idx, req, pc, config, actualIndex>>
    BY DEF Signal, ShutDown, vars, regVars
  <1>4. /\ cur' = cur /\ \A j \in Clients : at'[j] = at[j] \/ {at[j], at'[j]} = {"down", "exit"}
        /\ ClientsTyped'
    <2>1. CASE Signal(k)
      BY <1>1, <2>1, ClientsAssumption DEF Signal, ClientsTyped, ClientsAssumption
    <2>2. CASE ShutDown(k)
      BY <1>1, <2>2 DEF ShutDown, Become, Attached, ClientsTyped
    <2> QED BY <2>1, <2>2
  <1>5. Attached'
    BY <1>1, <1>3, <1>4 DEF Attached, Settled, Request
  <1>6. (TypeOK /\ ClientsTyped /\ Attached /\ IndexGiven /\ WantsAreMet /\ AnswersAreRight
            => ClientInvariant)'
    BY InvariantInParts, PTL
  <1> QED BY <1>2, <1>3, <1>4, <1>5, <1>6

\* A server that is started again knows nothing, and all its connections have ended.
LEMMA CrashKeepsClients ==
    ASSUME ClientInvariant, Crash
    PROVE  ClientInvariant' /\ actualIndex' = actualIndex
  <1>1. /\ TypeOK /\ ClientsTyped /\ Attached
        /\ IndexGiven /\ WantsAreMet /\ AnswersAreRight
    BY InvariantInParts
  <1>2. /\ pc' = [c \in Conns |-> "done"]
        /\ UNCHANGED <<cliClosed, sent, read, out, packets, req, idx>>
        /\ UNCHANGED <<config, at, cur, actualIndex, signalled>>
    BY DEF Crash
  <1>3. \A c \in Conns : pc'[c] = "done"
    BY <1>2
  <1>4. TypeOK'
    <2>1. ConnsTypeOK' /\ PeerMapTypeOK'
      BY <1>1 DEF Crash, TypeOK, ConnsTypeOK, PeerMapTypeOK
    <2>2. TunTypeOK' /\ SrvTypeOK'
      <3>1. 0 \in 0..(MaxIndex + 1)
        BY IndexAssumption DEF IndexAssumption
      <3>2. SrvTypeOK'
        BY <3>1, Zenon DEF Crash, SrvTypeOK
      <3>3. packets' \in 0..MaxPackets
        BY <1>1, <1>2 DEF TypeOK, TunTypeOK
      <3>4. TunTypeOK'
        BY <3>3, Zenon DEF Crash, TunTypeOK, NoPacket
      <3> QED BY <3>2, <3>4
    <2>3. RegTypeOK'
      BY <1>1 DEF Crash, TypeOK, RegTypeOK, Labels
    <2> QED BY <2>1, <2>2, <2>3 DEF TypeOK
  <1>5. IndexGiven' /\ WantsAreMet'
    BY <1>3 DEF IndexGiven, WantsAreMet, Settled
  <1>6. AnswersAreRight'
    BY <1>1, <1>2, <1>3 DEF AnswersAreRight, RegOKs, Settled
  <1>7. ClientsTyped'
    BY <1>1, <1>2, ClientsAssumption DEF Crash, ClientsTyped, ClientsAssumption
  <1>8. ASSUME NEW k \in Clients, at[k] = "run" PROVE Settled(cur[k])'
    <2>1. cur[k] \in Conns /\ cur' = cur
      BY <1>1, <1>2, <1>8 DEF Attached, ClientsTyped
    <2> QED BY <1>3, <2>1 DEF Settled
  <1>9. Attached'
    BY <1>1, <1>2, <1>8 DEF Attached, Request
  <1>10. (TypeOK /\ ClientsTyped /\ Attached /\ IndexGiven /\ WantsAreMet /\ AnswersAreRight
            => ClientInvariant)'
    BY InvariantInParts, PTL
  <1> QED BY <1>2, <1>4, <1>5, <1>6, <1>7, <1>9, <1>10

\* The clients are started with flags that are accepted, the server with empty tables.
LEMMA ClientsStart ==
    ASSUME ClientInit
    PROVE  ClientInvariant
  <1>1. TypeOK
    <2>1. ConnsTypeOK
      BY DEF ClientInit, ConnsTypeOK
    <2>2. PeerMapTypeOK
      BY DEF ClientInit, NewPeerMap, PeerMapTypeOK
    <2>3. TunTypeOK
      <3>1. 0 \in 0..MaxPackets
        BY PacketAssumption DEF PacketAssumption
      <3> QED BY <3>1, Zenon DEF ClientInit, NewServerTUNContext, TunTypeOK, NoPacket
    <2>4. RegTypeOK
      <3>1. (CHOOSE r \in Requests : TRUE) \in Requests
        BY ConfigsAssumption DEF ConfigsAssumption
      <3> QED BY <3>1 DEF ClientInit, RegTypeOK, Labels
    <2>5. SrvTypeOK
      <3>1. 0 \in 0..(MaxIndex + 1)
        BY IndexAssumption DEF IndexAssumption
      <3> QED BY <3>1, Zenon DEF ClientInit, SrvTypeOK
    <2> QED BY <2>1, <2>2, <2>3, <2>4, <2>5 DEF TypeOK
  <1>2. IndexGiven /\ WantsAreMet
    BY DEF ClientInit, IndexGiven, WantsAreMet, Settled
  <1>3. AnswersAreRight
    <2>1. ASSUME NEW c \in Conns PROVE RegOKs(c) = {}
      BY DEF ClientInit, RegOKs
    <2> QED BY <2>1 DEF AnswersAreRight
  <1>4. ClientsTyped
    <2>1. Wanted \subseteq Index \cup {-1} /\ 0 \in 0..MaxFaults
      BY ClientsAssumption DEF ClientsAssumption
    <2> QED BY <2>1, Zenon DEF ClientInit, ClientsTyped
  <1>5. Attached
    BY DEF ClientInit, Attached
  <1> QED BY <1>1, <1>2, <1>3, <1>4, <1>5, InvariantInParts

\* Every step of a client, of the server and of their failures keeps the invariant, and
\* the index of a client that has one.
LEMMA ClientStep ==
    ASSUME ClientInvariant, [ClientNext]_allVars
    PROVE  /\ ClientInvariant'
           /\ \A k \in Clients : actualIndex[k] >= 0 => actualIndex'[k] = actualIndex[k]
  <1> DEFINE Kept ==
        /\ ClientInvariant'
        /\ \A k \in Clients : actualIndex[k] >= 0 => actualIndex'[k] = actualIndex[k]
  <1>1. ASSUME NEW k \in Clients, Dial(k) PROVE Kept
    BY <1>1, DialKeepsClients DEF Dial, Connect
  <1>2. ASSUME NEW k \in Clients, RegistersAs(k) PROVE Kept
    BY <1>2, RegisterKeepsClients
  <1>3. ASSUME NEW k \in Clients, AttemptEnds(k) \/ AttemptFails(k) PROVE Kept
    <2>1. "down" \in {"down", "exit"} /\ faults \in 0..MaxFaults /\ MaxFaults \in Nat
      BY ClientsAssumption DEF ClientsAssumption, ClientInvariant, ClientsAgree, ClientTypeOK
    <2>2. Hangup(k, "down") /\ at[k] \in {"wait", "run"} /\ faults' \in 0..MaxFaults
      BY <1>3, <2>1 DEF AttemptEnds, AttemptFails, ServerHungUp
    <2> QED BY <2>1, <2>2, HangupKeepsClients
  <1>4. ASSUME NEW k \in Clients, Signal(k) \/ ShutDown(k) PROVE Kept
    BY <1>4, StopKeepsClients
  <1>5. ASSUME NEW c \in Conns, Handshake(c) \/ HandleClient(c), UNCHANGED clientVars PROVE Kept
    BY <1>5, ServerKeepsClients DEF clientVars
  <1>6. ASSUME Crash PROVE Kept
    BY <1>6, CrashKeepsClients
  <1>7. ASSUME UNCHANGED allVars PROVE Kept
    <2>1. UNCHANGED vars /\ UNCHANGED clientVars
      BY <1>7 DEF allVars
    <2>2. /\ TypeOK /\ ClientsTyped /\ Attached
          /\ IndexGiven /\ WantsAreMet /\ AnswersAreRight
      BY InvariantInParts
    <2>3. TypeOK' /\ IndexGiven' /\ WantsAreMet' /\ AnswersAreRight'
      BY <2>1, <2>2, ServerStays
    <2>4. ClientsTyped' /\ Attached'
      BY <2>1, <2>2 DEF clientVars, vars, regVars, ClientsTyped, Attached, Settled, Request
    <2>5. (TypeOK /\ ClientsTyped /\ Attached /\ IndexGiven /\ WantsAreMet /\ AnswersAreRight
              => ClientInvariant)'
      BY InvariantInParts, PTL
    <2> QED BY <2>1, <2>3, <2>4, <2>5 DEF clientVars
  <1> HIDE DEF Kept
  <1>8. Kept
    BY <1>1, <1>2, <1>3, <1>4, <1>5, <1>6, <1>7 DEF ClientNext, RunClient
  <1> QED BY <1>8 DEF Kept

\* Through lost connections, late answers, signals and restarts of the server: no two
\* clients use one connection, every RegOK tells the index its connection keeps, and
\* no client runs before it was told.
THEOREM ClientsStaySound == ClientSpec => []ClientInvariant
  <1>1. ClientInvariant /\ [ClientNext]_allVars => ClientInvariant'
    BY ClientStep
  <1> QED BY <1>1, ClientsStart, PTL DEF ClientSpec

\* Client and server agree on whose a connection is, on the request that is served on it
\* and on its index, for any number of clients, connections and faults.
THEOREM ClientsAndServerAgree == ClientSpec => []ClientsAgree
  <1>1. ClientInvariant => ClientsAgree
    BY DEF ClientInvariant
  <1> QED BY <1>1, ClientsStaySound, PTL

\* A client keeps the index it was first given, however often its connection is lost or
\* the server is restarted: the next registration names it, and the server gives no other.
THEOREM IndicesAreKept == ClientSpec => IndexIsKept
  <1>1. ClientInvariant /\ [ClientNext]_allVars =>
            [\A k \in Clients : actualIndex[k] >= 0 => actualIndex'[k] = actualIndex[k]]_allVars
    BY ClientStep
  <1> QED BY <1>1, ClientsStaySound, PTL DEF ClientSpec, IndexIsKept

\* What the server reads in the registration of a client that waits is what the client's
\* flags and the index it has come to ask for mean.
THEOREM ClientsAreUnderstood == ClientSpec => []RequestIsMeant
  <1>1. ClientInvariant => RequestIsMeant
    <2> SUFFICES ASSUME ClientInvariant, NEW k \in Clients
                 PROVE  actualIndex[k] \in MeantIndices
      BY DEF RequestIsMeant
    <2>1. actualIndex[k] \in Index \cup {-1}
      BY DEF ClientInvariant, ClientsAgree, ClientTypeOK
    <2> QED BY <2>1, RegistrationsAreMeant DEF MeantIndices
  <1> QED BY <1>1, ClientsStaySound, PTL

===============================================================================
