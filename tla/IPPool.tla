-------------------------------- MODULE IPPool --------------------------------
(***************************************************************************)
(* pkg/tun/ippool.go: the addresses of a TUN network.  An address is the   *)
(* sequence of its last two bytes, in which all arithmetic takes place;    *)
(* a network is its address and hostBits = bits - ones, the number of bits *)
(* behind the prefix.                                                      *)
(***************************************************************************)
EXTENDS Integers, Sequences

CONSTANT ByteBits   \* bits of a byte: 8 in Go, fewer for TLC

ASSUME ByteAssumption == ByteBits \in Nat \ {0}

\* 1 << n.
PowerOf2[n \in Nat] == IF n = 0 THEN 1 ELSE 2 * PowerOf2[n - 1]

ByteSize == PowerOf2[ByteBits]
Byte == 0..(ByteSize - 1)

\* Go's nil IP.
NoAddress == <<>>

\* Mutant: the carry is lost.
AddOneNoCarry(ip) == <<ip[1], (ip[2] + 1) % ByteSize>>

\* The last byte is incremented; if it wraps to 0 so is the one before.
AddOne(ip) ==
    LET low == (ip[2] + 1) % ByteSize IN
    <<IF low = 0 THEN (ip[1] + 1) % ByteSize ELSE ip[1], low>>

GatewayIP(net) == AddOne(net.address)

\* All addresses but that of the network, the broadcast address and the gateway.
PoolCapacity(net) ==
    LET totalHosts == PowerOf2[net.hostBits] - 2 IN
    IF totalHosts - 1 < 0 THEN 0 ELSE totalHosts - 1

\* The address after the gateway, and index more.
PoolClientIP(net, index) ==
    IF index < 0 \/ index >= PoolCapacity(net) THEN NoAddress
    ELSE LET after[n \in 0..(index + 1)] ==
                 IF n = 0 THEN GatewayIP(net) ELSE AddOne(after[n - 1])
         IN  after[index + 1]

-------------------------------------------------------------------------------

NumberOf(ip) == ip[1] * ByteSize + ip[2]

\* From a network of one address to one that needs both bytes, wherever it may start.
Networks ==
    {net \in [address : Byte \X Byte, hostBits : 0..(2 * ByteBits)] :
        NumberOf(net.address) % PowerOf2[net.hostBits] = 0}

\* Every client of a network has an address of its own in it, which is neither that of the
\* network, the broadcast address nor the gateway, no address is left unused, and there is
\* none for an index outside.
PoolIsRight ==
    \A net \in Networks :
        LET first == NumberOf(net.address)
            last == first + PowerOf2[net.hostBits] - 1
        IN  /\ {NumberOf(PoolClientIP(net, i)) : i \in 0..(PoolCapacity(net) - 1)}
                   = (first..last) \ {first, first + 1, last}
            /\ \A i \in {-1, PoolCapacity(net)} : PoolClientIP(net, i) = NoAddress

\* How far the address of a client is from that of its network, in any network.
Offsets(i) == {NumberOf(PoolClientIP(net, i)) - NumberOf(net.address) :
                   net \in {n \in Networks : i < PoolCapacity(n)}}

===============================================================================
