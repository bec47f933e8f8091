------------------------------ MODULE MCServerProcess ------------------------------
(***************************************************************************)
(* An instance of ServerProcess for TLC: of two connections that differ    *)
(* only in their names, one order of their roles is enough.                *)
(***************************************************************************)
EXTENDS ServerProcess

CONSTANT First      \* the connection that is named first

InOrder ==
    /\ (\E c \in Conns : role[c] = "listener") => role[First] = "listener"
    /\ role[First] = "tun" => \A c \in Conns : role[c] = "tun"

MCInit == Init /\ InOrder

MCFairSpec == MCInit /\ [][Next]_vars /\ Fairness

====================================================================================
