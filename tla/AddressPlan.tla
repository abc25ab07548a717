---------------------------- MODULE AddressPlan ----------------------------
(***************************************************************************)
(* The arithmetic on start_cidr.  An address is a number, and a network    *)
(* the record of its first address and of its size; netaddr is not in the  *)
(* repository (next(k) is the k-th network of the same size after it).     *)
(***************************************************************************)
EXTENDS Integers

Networks == [first : Nat, size : Nat \ {0}]

LastAddress(net) == net.first + net.size - 1
Addresses(net) == net.first..LastAddress(net)
NextNetwork(net, k) == [net EXCEPT !.first = @ + k * net.size]

\* The k-th of the networks that an iteration gives to its switches.
LswitchCidr(start, iteration, amount, k) ==
    NextNetwork(NextNetwork(start, iteration * amount), k)

\* _get_gw_ip.
GwIp(net, offset) == LastAddress(net) - offset

\* _create_switch_lports: whether the network is big enough, and the address
\* of port i.
BigEnough(net, amount, shift) == net.first + amount + shift \in Addresses(net)
PortIp(net, shift, i) == net.first + shift + i
=============================================================================
