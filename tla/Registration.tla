----------------------------- MODULE Registration -----------------------------
(***************************************************************************)
(* What a client asks for: from its flags (clientConfig in                 *)
(* pkg/relay/runner.go) over the payload of the Register frame, fields     *)
(* between commas, to what the server makes of it (parseRegRequest in      *)
(* pkg/relay/server.go), and the mode the client then runs (mode.go).      *)
(*                                                                         *)
(* A payload is the sequence of its fields, words and numbers.  A path     *)
(* that contains a comma is left out, it is only shown on the console.     *)
(***************************************************************************)
EXTENDS Integers, Sequences

CONSTANTS
    Ports,      \* the ports that flags name
    Nets,       \* the networks that -l names
    NoNet       \* -l names no network

ASSUME PortsAssumption == Ports \subseteq Nat \ {0}

\* The flags of crflc.  0, FALSE and the empty list stand for a flag that is not given;
\* -l names a list of ports or a network.
FlagSet == [send : BOOLEAN, recv : BOOLEAN, udp : BOOLEAN, forward : Ports \cup {0},
            ports : UNION {[1..n -> Ports] : n \in 0..2}, net : Nets \cup {NoNet}]

\* What main lets through.
Accepted(f) ==
    /\ ~(f.send /\ f.recv)
    /\ f.net # NoNet => f.ports = <<>> /\ ~f.udp

ResolveRole(f) ==
    CASE f.send -> "file-sender"
      [] ~f.send /\ f.recv -> "file-receiver"
      [] ~f.send /\ ~f.recv /\ f.net # NoNet /\ f.forward = 0 -> "listener"
      [] ~f.send /\ ~f.recv /\ f.net = NoNet /\ f.forward > 0 /\ f.ports = <<>> -> "forwarder"
      [] ~f.send /\ ~f.recv /\ f.net = NoNet /\ f.forward = 0 /\ f.ports # <<>> -> "listener"
      [] OTHER -> "error"

-------------------------------------------------------------------------------

\* Mutant: behind the end of the list the index is counted from its start.
ResolvePortFromStart(spec, i) ==
    IF Len(spec) = 1 THEN spec[1] + i
    ELSE IF i < Len(spec) THEN spec[i + 1]
    ELSE spec[Len(spec)] + (i - Len(spec))

\* One port is the base of all; of a list, index i takes the i-th, and behind its end
\* the ports after the last.
ResolvePort(spec, i) ==
    IF Len(spec) = 1 THEN spec[1] + i
    ELSE IF i < Len(spec) THEN spec[i + 1]
    ELSE spec[Len(spec)] + (i - Len(spec) + 1)

\* ports[-1]: the client panics, see the README.
Panics(f, i) == ResolveRole(f) = "listener" /\ Len(f.ports) > 1 /\ i < 0

Word(w) == <<w, 0>>
Number(n) == <<"number", n>>

\* Mutant: a missing index leaves no field behind.
FormatRegPayloadShort(role, i, fields) ==
    <<Word(role)>> \o (IF i >= 0 THEN <<Number(i)>> ELSE <<>>) \o fields

FormatRegPayload(role, i, fields) ==
    <<Word(role), IF i >= 0 THEN Number(i) ELSE Word("")>> \o fields

PickProto(f) == Word(IF f.udp THEN "udp" ELSE "tcp")

BuildRegisterPayload(f, i) ==
    LET role == ResolveRole(f) IN
    CASE role = "file-sender" -> FormatRegPayload("listener", i, <<Word("file"), Word("path")>>)
      [] role = "file-receiver" -> FormatRegPayload("forwarder", i, <<Word("file"), Word("path")>>)
      [] role = "listener" /\ f.net # NoNet ->
             FormatRegPayload("listener", i, <<Word("tun"), Word(f.net)>>)
      [] role = "listener" /\ f.net = NoNet ->
             FormatRegPayload("listener", i, <<PickProto(f), Number(ResolvePort(f.ports, i))>>)
      [] role = "forwarder" -> FormatRegPayload("forwarder", i, <<PickProto(f), Number(f.forward)>>)

Field(p, n) == IF n <= Len(p) THEN p[n] ELSE Word("")

\* "tun" is looked for in the second field, where a short payload has it, and in the
\* third; without it they are the index and the mode.
ParseRegRequest(p) ==
    LET tunAt == {n \in {2, 3} : Field(p, n) = Word("tun")}
        short == 2 \in tunAt
    IN  [role |-> p[1][1],
         want |-> IF ~short /\ Field(p, 2)[1] = "number" THEN p[2][2] ELSE -1,
         mode |-> IF tunAt # {} THEN "tun" ELSE IF Len(p) > 2 THEN p[3][1] ELSE "tcp",
         net |-> IF tunAt = {} THEN NoNet ELSE Field(p, IF short THEN 3 ELSE 4)[1]]

\* The mode a client runs once it is registered.
NewClientMode(f) ==
    CASE ResolveRole(f) \in {"file-sender", "file-receiver"} -> "file"
      [] ResolveRole(f) = "listener" /\ f.net # NoNet -> "tun"
      [] OTHER -> PickProto(f)[1]

-------------------------------------------------------------------------------
(* Properties. *)

\* What a client with flags f means when it asks for the index i, -1 for none: the mode it
\* will run, the role that mode has, and its network.
Meaning(f, i) ==
    [role |-> IF ResolveRole(f) \in {"file-sender", "listener"} THEN "listener" ELSE "forwarder",
     want |-> i,
     mode |-> NewClientMode(f),
     net |-> IF NewClientMode(f) = "tun" THEN f.net ELSE NoNet]

\* What the server reads out of the positions of a payload is what the client means, for
\* all flags.
MeantAt(i) ==
    \A f \in FlagSet :
        Accepted(f) /\ ResolveRole(f) # "error" /\ ~Panics(f, i) =>
            ParseRegRequest(BuildRegisterPayload(f, i)) = Meaning(f, i)

Ascending(spec) == \A a, b \in 1..Len(spec) : a < b => spec[a] < spec[b]

\* Listeners that share a specification of ports, in order, want different ports at the
\* indices i and j.
PortsDiffer(i, j) ==
    \A f \in FlagSet : f.ports # <<>> /\ Ascending(f.ports) =>
        ResolvePort(f.ports, i) # ResolvePort(f.ports, j)

===============================================================================
