-------------------------------- MODULE MCRelay --------------------------------
(***************************************************************************)
(* Instances of RelayServer for TLC: the requests the clients choose from. *)
(***************************************************************************)
EXTENDS RelayAddresses, TLC

CONSTANTS NetA, NetB    \* two CIDRs, of different size

Listen(want, mode, n) == [auth |-> TRUE, role |-> "listener", want |-> want,
                          mode |-> mode, cidr |-> NoCidr, frames |-> n]
Forward(want, mode, n) == [Listen(want, mode, n) EXCEPT !.role = "forwarder"]
ListenTun(want, k, n) == [Listen(want, "tun", n) EXCEPT !.cidr = k]
WrongPassword == [Listen(-1, "tcp", 0) EXCEPT !.auth = FALSE]

\* Clients that name their index, of which one sends, and strangers at another index.
PairRequests == {Listen(0, "tcp", n) : n \in {0, 1, 3}} \cup {Listen(1, "tcp", 0)}
                \cup {Forward(0, "tcp", n) : n \in 0..2} \cup {Forward(1, "tcp", 0)}

\* TUN clients at two indices of a network, of another in which there is no room, and
\* of none.
TunRequests == {ListenTun(0, NetA, 1), ListenTun(1, NetA, 0), ListenTun(1, NetB, 0),
                ListenTun(0, NoCidr, 0)}

\* Indices left to the server.
AutomaticRequests == {Listen(-1, "tcp", 0), Forward(-1, "tcp", 0)}

\* A wrong password, and a TUN client of a server without -t.
TurnedAway == {WrongPassword, ListenTun(-1, NetA, 0)}

\* Clients of both roles.  The sender has two peers and sends three frames (a listener)
\* or two, or it has a peer and a stranger, or rivals of its own role, and sends one.
PairInit ==
    /\ Init
    /\ \A c \in Conns : req[c] \in PairRequests
    /\ \E c, d \in Conns : IsListener(c) /\ ~IsListener(d)
    /\ Cardinality({c \in Conns : req[c].frames > 0}) = 1
    /\ \A s \in Conns : req[s].frames > 0 =>
           LET rivals == {c \in Conns \ {s} : req[c].role = req[s].role}
               strangers == {c \in Conns : req[c].want = 1}
           IN  /\ strangers = {} \/ (rivals = {} /\ Cardinality(strangers) = 1)
               /\ req[s].frames = IF rivals # {} \/ strangers # {} THEN 1
                                  ELSE IF IsListener(s) THEN 3 ELSE 2

\* A listener and clients that do not get as far as a registration.
TurnedAwayInit ==
    /\ Init
    /\ \A c \in Conns : req[c] \in TurnedAway \cup {Listen(0, "tcp", 0)}
    /\ \E c \in Conns : req[c] \in TurnedAway

PairingRequests == PairRequests \cup TurnedAway
PairingSpec == (PairInit \/ TurnedAwayInit) /\ [][Next]_vars

\* TUN clients, not all of one kind.
TunInit ==
    /\ Init
    /\ \A c \in Conns : req[c] \in TunRequests
    /\ \E c, d \in Conns : req[c] # req[d]

\* Two clients of one role that leave the index to the server, and a third: one of the
\* other role that does the same, a listener of the other protocol, or a client with a
\* wrong password.
Thirds == AutomaticRequests \cup {Listen(0, "udp", 0), WrongPassword}
AutomaticInit ==
    /\ Init
    /\ \A c \in Conns : req[c] \in Thirds
    /\ \E r \in AutomaticRequests : Cardinality({c \in Conns : req[c] = r}) = 2

RegistrationRequests == TunRequests \cup Thirds
RegistrationSpec == (TunInit \/ AutomaticInit) /\ [][Next]_vars

\* A listener and its forwarder that only register.
SilentRequests == {Listen(0, "tcp", 0), Forward(0, "tcp", 0)}

MCCapacity == NetA :> 2 @@ NetB :> 1
MCCidrs == {NetA, NetB}

Symmetry == Permutations(Conns)

===============================================================================
