---------------------------- MODULE AddressLedger ----------------------------
(***************************************************************************)
(* What the provisioning of addresses promises, with no requests, etags or *)
(* retries: NICs take, change and give back addresses one at a time, and   *)
(* the ledger always says which VM an address belongs to.                  *)
(***************************************************************************)
CONSTANTS
  Macs, VMs, Addrs,
  NoAddr,     \* no address
  NoOne,      \* the owner of a free address, the VM of a NIC that is absent
  Other       \* the owner of the admin's addresses

VARIABLES
  vmOf,       \* the VM of each NIC
  addrOf,     \* the address of each NIC
  owner       \* the owner of each address

ledger == <<vmOf, addrOf, owner>>

\* The ledger is right: the addresses of VMs are exactly those their NICs hold.
Balanced ==
  /\ vmOf \in [Macs -> VMs \cup {NoOne}]
  /\ addrOf \in [Macs -> Addrs \cup {NoAddr}]
  /\ owner \in [Addrs -> VMs \cup {NoOne, Other}]
  /\ \A m \in Macs : vmOf[m] = NoOne => addrOf[m] = NoAddr
  /\ \A m \in Macs : addrOf[m] # NoAddr => owner[addrOf[m]] = vmOf[m]
  /\ \A m, n \in Macs : addrOf[m] = addrOf[n] /\ addrOf[m] # NoAddr => m = n
  /\ \A a \in Addrs : owner[a] \in VMs => \E m \in Macs : addrOf[m] = a

Init == Balanced

Available(a) == owner[a] \in {NoOne, Other}

\* NIC m, new or not, becomes one of v with address a; what it had is free.
Put(m, v, a) ==
  /\ a \in {NoAddr, addrOf[m]} \/ Available(a)
  /\ vmOf'   = [vmOf EXCEPT ![m] = v]
  /\ addrOf' = [addrOf EXCEPT ![m] = a]
  /\ owner'  = [x \in Addrs |-> IF x = a THEN v
                               ELSE IF x = addrOf[m] THEN NoOne ELSE owner[x]]

Remove(m) ==
  /\ vmOf[m] # NoOne
  /\ vmOf'   = [vmOf EXCEPT ![m] = NoOne]
  /\ addrOf' = [addrOf EXCEPT ![m] = NoAddr]
  /\ owner'  = [x \in Addrs |-> IF x = addrOf[m] THEN NoOne ELSE owner[x]]

Next == \E m \in Macs : \/ Remove(m)
                        \/ \E v \in VMs, a \in Addrs \cup {NoAddr} : Put(m, v, a)

Spec == Init /\ [][Next]_ledger
=============================================================================
