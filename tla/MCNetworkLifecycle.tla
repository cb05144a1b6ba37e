------------------------- MODULE MCNetworkLifecycle -------------------------
(* Instances of NetworkLifecycle for TLC. *)
EXTENDS NetworkLifecycle, TLC

CONSTANTS t1, t2, t3, n1, p1, m1, m2

Op(k) == [kind |-> k, tag |-> t1, to |-> t1, mtu |-> 0, net |-> n1, pool |-> p1,
          members |-> {n1}, nic |-> m1, gateway |-> FALSE]

CreateTag(t, m)     == [Op("createTag") EXCEPT !.to = t, !.mtu = m]
UpdateTag(t, to, m) == [Op("updateTag") EXCEPT !.tag = t, !.to = to, !.mtu = m]
DeleteTag(t)        == [Op("deleteTag") EXCEPT !.tag = t]
CreateNet(n, t, m)  == [Op("createNet") EXCEPT !.net = n, !.tag = t, !.mtu = m]
UpdateNet(n, m)     == [Op("updateNet") EXCEPT !.net = n, !.mtu = m]
DeleteNet(n)        == [Op("deleteNet") EXCEPT !.net = n]
DeleteFabricNet(n)  == [Op("deleteFabricNet") EXCEPT !.net = n]
CreatePool(S)       == [Op("createPool") EXCEPT !.members = S]
UpdatePool(S)       == [Op("updatePool") EXCEPT !.members = S]
DeletePool          == Op("deletePool")
CreateNic(m, n, g)  == [Op("createNic") EXCEPT !.nic = m, !.net = n, !.gateway = g]
DeleteNic(m)        == [Op("deleteNic") EXCEPT !.nic = m]

Small == CHOOSE m \in Mtus : \A k \in Mtus : m <= k
Large == CHOOSE m \in Mtus : \A k \in Mtus : k <= m

MCTagOps  == {CreateTag(t1, Large), UpdateTag(t1, t2, 0), UpdateTag(t2, t1, Small),
              UpdateTag(t1, t1, Small), DeleteTag(t1)}
MCNetOps  == {CreateNet(n1, t1, Large), UpdateNet(n1, Large), UpdateNet(n1, 0),
              DeleteNet(n1)}
MCPoolOps == {CreatePool({n1}), UpdatePool({n1}), DeletePool}
MCNicOps  == {CreateNic(m1, n1, TRUE), CreateNic(m2, n1, FALSE), DeleteNic(m1)}

MCSerialOps == MCTagOps \cup MCNetOps \cup MCPoolOps \cup MCNicOps
MCRenameOps == {CreateTag(t1, Large), CreateTag(t2, Small), UpdateTag(t1, t2, 0),
                UpdateTag(t1, t3, 0), UpdateTag(t2, t1, Small), UpdateTag(t1, t1, Small)}
\* The fabric endpoint makes the fewest checks of a network it deletes.
MCDeleteOps == {DeleteFabricNet(n1), UpdateNet(n1, Small), CreateNic(m1, n1, FALSE),
                CreateNic(m1, n1, TRUE), DeleteNic(m1), CreateNet(n1, t1, Small)}

MCOverlapOps == MCRenameOps \cup MCDeleteOps

Symmetry == Permutations(Requests)
=============================================================================
