------------------------------ MODULE MCReconnect ------------------------------
(***************************************************************************)
(* An instance of ClientRunner for TLC: two clients, of which one listens. *)
(***************************************************************************)
EXTENDS ClientRunner, TLC

Listen(want) == [auth |-> TRUE, role |-> "listener", want |-> want,
                 mode |-> "tcp", cidr |-> NoCidr, frames |-> 0]
Forward(want) == [Listen(want) EXCEPT !.role = "forwarder"]

MCRequests == UNION {{Listen(i), Forward(i)} : i \in Index \cup {-1}}

\* -l 1 and -f 1.
NoFlags == [send |-> FALSE, recv |-> FALSE, udp |-> FALSE, forward |-> 0,
            ports |-> <<>>, net |-> NoNet]
MCConfigs == {[NoFlags EXCEPT !.ports = <<1>>], [NoFlags EXCEPT !.forward = 1]}

\* The first client listens, the other listens or forwards.
CONSTANT First
MCInit == ClientInit /\ Listens(First)
MCFairSpec == MCInit /\ [][ClientNext]_allVars /\ ClientFairness

MCWanted == {-1, 0}

MCCapacity == [k \in {} |-> 0]

===============================================================================
