------------------------------ MODULE Addresses ------------------------------
(***************************************************************************)
(* IPv4 addresses and masks as the sets of their bits, and the tests that  *)
(* Tool and AddressGroup make on them.  The bitwise operators of the code  *)
(* are the operators on sets: & is \cap, ~m is the rest of Bits, and two   *)
(* numbers whose exclusive or is 0 are equal.                              *)
(***************************************************************************)
EXTENDS Integers

CONSTANT Width  \* bits of an address: 32

ASSUME WidthAssumption == Width \in Nat \ {0}

\* Bit 0 is the lowest.
Bits == 0..(Width - 1)
Ip4  == SUBSET Bits

-----------------------------------------------------------------------------
(* The code                                                                *)

\* Mutant: the broadcast address of the network passes.
isValidGw4_Bcast(addr, mask, gw) ==
    /\ addr # {} /\ mask # {} /\ gw # {}
    /\ addr \ mask # {}
    /\ gw \ mask # {}
    /\ addr \ mask # gw \ mask
    /\ mask \cap addr = mask \cap gw

\* Tool::isValidGw4
isValidGw4(addr, mask, gw) ==
    /\ addr # {} /\ mask # {} /\ gw # {}
    /\ addr \ mask # {}             \* no valuable bits in addr
    /\ gw \ mask # {}               \* no valuable bits in gw
    /\ addr \ mask # gw \ mask      \* overlapped addr and gw
    /\ gw \ mask # Bits \ mask      \* gw is bcast address
    /\ mask \cap addr = mask \cap gw

\* Tool::isValidBcast4
isValidBcast4(addr, mask, bcast) ==
    /\ addr # {} /\ mask # {} /\ bcast # {}
    /\ addr \ mask # {}
    /\ bcast \ mask = Bits \ mask
    /\ mask \cap addr = mask \cap bcast

\* RcConf::getStrInetMaskFromPrefix, for the prefixes its callers let pass.
MaskFromPrefix(prefix) == {b \in Bits : b >= Width - prefix}
PrefixLengths == 1..Width

\* IPV4_MASK_HOST
HostMask == Bits

-----------------------------------------------------------------------------
(* What they are to mean                                                   *)

\* The addresses that agree with addr where the mask has bits.
Network(addr, mask) == {x \in Ip4 : x \cap mask = addr \cap mask}

NetworkAddr(addr, mask)   == addr \cap mask
BroadcastAddr(addr, mask) == (addr \cap mask) \cup (Bits \ mask)

\* What a neighbour of addr may have as its address.
Neighbours(addr, mask) ==
    Network(addr, mask) \ {addr, NetworkAddr(addr, mask), BroadcastAddr(addr, mask)}

=============================================================================
