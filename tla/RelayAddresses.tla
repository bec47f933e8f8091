---------------------------- MODULE RelayAddresses ----------------------------
(***************************************************************************)
(* The relay server and the arithmetic of its address pool: the host       *)
(* numbers under which TunContext keeps routes are the places of the       *)
(* clients' addresses (pkg/tun/ippool.go) in the network.                  *)
(***************************************************************************)
EXTENDS RelayProperties, IPPool

\* A network is one of those of IPPool, of which the largest has no prefix.
ASSUME NetworkAssumption == \A k \in Cidrs : Capacity[k] <= PowerOf2[2 * ByteBits] - 3

HostNumbers == [i \in Index |-> Offsets(i)]

\* Whatever network the pool is created for, each of its clients gets an address of that
\* network, its own and a usable one; and the host number a route is kept under
\* is the place of that address in the network.
AddressesAreRight ==
    cidr # NoCidr =>
        /\ PoolIsRight
        /\ \A i \in Index : indexToIP[i] # NoIP => HostNumbers[i] = {indexToIP[i]}

===============================================================================
