------------------------------ MODULE MCFabrics ------------------------------
(* Instances of Fabrics for TLC. *)
EXTENDS Fabrics

CONSTANTS o1, o2, n1, n2, n3, r1, r2

Block(f, l) == [first |-> f, last |-> l]
Subnet(a, k) == [at |-> a, size |-> k]

\* Four and two subnets of the prefix, which has two addresses.
MCBlocks == <<Block(8, 15), Block(20, 23)>>

Op(op) == [op |-> op, owner |-> o1, vlan |-> 1, text |-> "a", name |-> n1, subnet |-> NoSubnet]
CreateVlan(o, k)    == [Op("createVlan") EXCEPT !.owner = o, !.vlan = k]
UpdateVlan1         == [Op("updateVlan") EXCEPT !.text = "b"]
DeleteVlan(k)       == [Op("deleteVlan") EXCEPT !.vlan = k]
CreateNet(k, n, s)  == [Op("createNet") EXCEPT !.vlan = k, !.name = n, !.subnet = s]
DeleteNet(k, n)     == [Op("deleteNet") EXCEPT !.vlan = k, !.name = n]

\* A block as a whole, and parts of it and of the other.
MCSubnets == {Subnet(8, 8), Subnet(10, 2), Subnet(12, 4), Subnet(20, 4), Subnet(22, 2)}

MCAsks == [r \in Reqs |->
  IF r = r1
  THEN {CreateVlan(o1, 1), CreateVlan(o2, 1), DeleteVlan(1), CreateNet(1, n1, NoSubnet),
        DeleteNet(1, n1)}
  ELSE {CreateVlan(o1, 2), UpdateVlan1, DeleteNet(1, n3)}
       \cup {CreateNet(1, n2, s) : s \in {Subnet(12, 4), Subnet(22, 2)}}
       \cup {CreateNet(1, n3, s) : s \in {Subnet(8, 8), Subnet(10, 2), Subnet(20, 4)}}]

\* A client's subnets may be smaller than the prefix.
SmallSubnets == {Subnet(8, 2), Subnet(11, 1), Subnet(12, 4)}
SmallAsks == [r \in Reqs |->
  {CreateVlan(o1, 1)} \cup {CreateNet(1, n, s) : n \in {n1, n2, n3},
                                                s \in SmallSubnets \cup {NoSubnet}}]
=============================================================================
