------------------------------ MODULE Hardware ------------------------------
(***************************************************************************)
(* sample-tools/hardware.h, GetMacAddr on Linux: one address out of those  *)
(* of all interfaces that have an IPv4 address.  An address is a sequence  *)
(* of bytes of which the first stands for the vendor's prefix.             *)
(***************************************************************************)
EXTENDS Naturals, Sequences, FiniteSetsExt

CONSTANTS
  virtual_mac_prefix,
  IfLimit  \* ifc_len: SIOCGIFCONF returns no more interfaces

ASSUME LimitAssumption == IfLimit \in Nat

IsVirtual(mac) == Head(mac) \in virtual_mac_prefix

(* What a byte of retMac, an uint8_t, holds after the loop over the chosen *)
(* addresses of the list.                                                  *)
Sum(list, chosen, b) ==
  LET upTo[i \in 0..Len(list)] ==
        IF i = 0 THEN 0
        ELSE IF i \in chosen THEN (upTo[i-1] + list[i][b]) % 256
        ELSE upTo[i-1]
  IN upTo[Len(list)]

(* The first address sizes retMac; all have the same length.               *)
genMac(list, chosen) ==
  IF chosen = {} THEN << >> ELSE [b \in DOMAIN list[1] |-> Sum(list, chosen, b)]

(* Mutant: the first physical address instead of their sum. *)
GetMacAddr_FirstOnly(interfaces) ==
  LET ifr == SubSeq(interfaces, 1, IF Len(interfaces) < IfLimit THEN Len(interfaces) ELSE IfLimit)
      macList == {i \in DOMAIN ifr : ~IsVirtual(ifr[i])}
  IN genMac(ifr, IF macList # {} THEN {Min(macList)} ELSE DOMAIN ifr)

(* Without a physical address virtualList holds all of them.               *)
GetMacAddr(interfaces) ==
  LET ifr == SubSeq(interfaces, 1, IF Len(interfaces) < IfLimit THEN Len(interfaces) ELSE IfLimit)
      macList == {i \in DOMAIN ifr : ~IsVirtual(ifr[i])}
  IN genMac(ifr, IF macList # {} THEN macList ELSE DOMAIN ifr)
=============================================================================
