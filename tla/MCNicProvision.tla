--------------------------- MODULE MCNicProvision ---------------------------
(* Instances of NicProvision for TLC. *)
EXTENDS NicProvision, TLC

CONSTANTS v1, v2

Op(k, m, v, a, n, c) ==
  [kind |-> k, mac |-> m, vm |-> v, addr |-> a, next |-> n, cond |-> c]

CreateNext(v)      == Op("create", AnyMac, v, NoAddr, TRUE, FALSE)
CreateAt(m, v, a)  == Op("create", m, v, a, TRUE, FALSE)
CreateBare(m, v)   == Op("create", m, v, NoAddr, FALSE, FALSE)
MoveTo(m, a)       == Op("update", m, NoOne, a, FALSE, FALSE)
Rehome(m, v)       == Op("update", m, v, NoAddr, FALSE, FALSE)
JoinNetwork(m)     == Op("update", m, NoOne, NoAddr, TRUE, FALSE)
Delete(m, c)       == Op("delete", m, NoOne, NoAddr, FALSE, c)
PutIp(k, v, a)     == Op(k, AnyMac, v, a, FALSE, FALSE)

\* The range is 3 .. ProvMax; 1 is the gateway, and SubnetLast, next to the
\* range, the broadcast address.
NoNics  == [m \in Macs |-> [vm |-> NoOne, ip |-> NoAddr]]
NicAt(m, v, a) == [NoNics EXCEPT ![m] = [vm |-> v, ip |-> a]]

\* MAC 1 of VM v1 has address 3; or it has no address yet; or no NIC exists.
MCStartNics  == {NicAt(1, v1, 3), NicAt(1, v1, NoAddr)}
MCStartOther == {{1, SubnetLast}}

MCRaceOps ==
  {CreateNext(v1), CreateNext(v2), CreateAt(2, v2, 4), CreateAt(2, v1, 1),
   MoveTo(1, 4), Rehome(1, v2), JoinNetwork(1), Delete(1, TRUE)}

MCCreateOps == {CreateNext(v1), CreateNext(v2)}

\* With faults: requests of every kind.
MCFaultOps ==
  {CreateNext(v1), CreateAt(2, v2, 4), CreateBare(1, v1), MoveTo(1, 4), Rehome(1, v2),
   JoinNetwork(1), Delete(1, TRUE), Delete(1, FALSE),
   PutIp("free", NoOne, 3), PutIp("unassign", NoOne, 3), PutIp("assign", v2, 3),
   PutIp("assign", v2, 4), PutIp("reserve", NoOne, 3)}

MCEmptyNics == {NoNics}

Symmetry == Permutations(Requests)
=============================================================================
