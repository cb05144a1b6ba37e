------------------------------- MODULE Fabrics -------------------------------
(***************************************************************************)
(* Fabrics of accounts: the account's virtual network, its VLANs and the   *)
(* networks on them, one call to Moray at a time: lib/models/fabric.js,    *)
(* lib/models/vlan.js, the fabric endpoints, and what createNetwork does   *)
(* for a fabric until the network's row is put.  Subnets are given by the  *)
(* client or chosen by module SubnetAlloc.                                 *)
(*                                                                         *)
(* An etag stands for the content of its row.  The other writes of a       *)
(* network, and what else forbids to delete one, are in NetworkLifecycle.  *)
(***************************************************************************)
EXTENDS SubnetAlloc

CONSTANTS
  Owners, VlanIds, Texts,
  VnetIds,   \* virtual network ids, from which randomVnetID draws
  Names,     \* names of networks
  Subnets,   \* subnets that clients name
  Reqs,      \* requests at a time
  Asks       \* request -> what it may ask for

NoVnet == -1
NoVlan == [vnet |-> NoVnet, text |-> "none"]
NoNet  == [owner |-> "none", vlan |-> 0, vnet |-> NoVnet, subnet |-> NoSubnet]

Vlan == [vnet : VnetIds, text : Texts]

\* Without a subnet: subnet_alloc.
Ask == [op : {"createVlan", "updateVlan", "deleteVlan", "createNet", "deleteNet"},
        owner : Owners, vlan : VlanIds, text : Texts, name : Names,
        subnet : Subnets \cup {NoSubnet}]

ASSUME FabricVnets   == VnetIds \subseteq Nat /\ "none" \notin Owners \cup Texts
ASSUME FabricSubnets ==
  \A s \in Subnets : /\ s \in [at : Nat, size : Nat \ {0}]
                     /\ IsPrivate(s) /\ s.at % s.size = 0
                     /\ s.size % PrefixSize = 0 \/ PrefixSize % s.size = 0
ASSUME FabricAsks    == \A r \in Reqs : Asks[r] \subseteq Ask /\ Asks[r] # {}

VARIABLES
  fabrics, \* napi_fabrics: the virtual network of each owner
  vlans,   \* napi_fabric_vlans
  nets,    \* rows of napi_networks
  pc, ask, \* the call a request makes next, and what it asks for
  got,     \* the fabric or VLAN it has read
  pick,    \* the subnet of the network it creates
  overtaken \* history: requests during which others created or deleted, or that
            \* started among networks that overlap or are on no VLAN

vars == <<fabrics, vlans, nets, pc, ask, got, pick, overtaken>>

Calls == {"idle", "getFabric", "putVlan", "getVlan", "updateVlan", "listNets", "delVlan",
          "choose", "putNet", "delNet"}

NoAsk(r) == CHOOSE a \in Asks[r] : TRUE

\* All subnets that NAPI chooses: of the size of the prefix, in a block.
Chosen(s) == s.size = PrefixSize /\ s.at % s.size = 0 /\ IsPrivate(s)

TypeOK ==
  /\ fabrics \in [Owners -> VnetIds \cup {NoVnet}]
  /\ vlans \in [Owners -> [VlanIds -> Vlan \cup {NoVlan}]]
  /\ \A n \in Names : nets[n] # NoNet =>
       /\ nets[n].owner \in Owners /\ nets[n].vlan \in VlanIds /\ nets[n].vnet \in VnetIds
       /\ nets[n].subnet \in Subnets \/ Chosen(nets[n].subnet)
  /\ pc \in [Reqs -> Calls]
  /\ \A r \in Reqs :
       /\ ask[r] \in Asks[r]
       /\ got[r] \in Vlan \cup [vnet : VnetIds, text : {"none"}] \cup {NoVlan}
       /\ pc[r] \in {"updateVlan", "choose", "putNet"} => got[r] \in Vlan
       /\ pc[r] = "putNet" => pick[r] \in Subnets \/ Chosen(pick[r])
  /\ overtaken \subseteq {r \in Reqs : pc[r] # "idle"}

\* Subnets of one virtual network do not overlap, and networks have a VLAN.
Sound ==
  /\ \A m, n \in Names : /\ nets[m] # NoNet /\ nets[n] # NoNet /\ m # n
                         /\ nets[m].vnet = nets[n].vnet
                         => ~Overlap(nets[m].subnet, nets[n].subnet)
  /\ \A n \in Names : nets[n] # NoNet => vlans[nets[n].owner][nets[n].vlan] # NoVlan

Init ==
  /\ fabrics = [o \in Owners |-> NoVnet]
  /\ vlans = [o \in Owners |-> [k \in VlanIds |-> NoVlan]]
  /\ nets = [n \in Names |-> NoNet]
  /\ pc = [r \in Reqs |-> "idle"]
  /\ ask = [r \in Reqs |-> NoAsk(r)]
  /\ got = [r \in Reqs |-> NoVlan]
  /\ pick = [r \in Reqs |-> NoSubnet]
  /\ overtaken = {}
-----------------------------------------------------------------------------
Goes(r, call) == pc' = [pc EXCEPT ![r] = call]

\* The request is answered, and nothing of it is left.
Answers(r) ==
  /\ Goes(r, "idle")
  /\ ask' = [ask EXCEPT ![r] = NoAsk(r)]
  /\ got' = [got EXCEPT ![r] = NoVlan]
  /\ pick' = [pick EXCEPT ![r] = NoSubnet]

Ends(r)  == Answers(r) /\ overtaken' = overtaken \ {r}
Fails(r) == Ends(r) /\ UNCHANGED <<fabrics, vlans, nets>>

\* It ends with a network more or a VLAN less than others have seen.
Overtakes(r) ==
  Answers(r) /\ overtaken' = {s \in Reqs \ {r} : pc[s] # "idle"}

FirstCall(op) == CASE op = "createVlan" -> "getFabric"
                   [] op = "deleteVlan" -> "listNets"
                   [] OTHER -> "getVlan"

Start(r, a) ==
  /\ pc[r] = "idle"
  /\ Goes(r, FirstCall(a.op))
  /\ ask' = [ask EXCEPT ![r] = a]
  /\ overtaken' = IF Sound THEN overtaken ELSE overtaken \cup {r}
  /\ UNCHANGED <<fabrics, vlans, nets, got, pick>>
-----------------------------------------------------------------------------
(* VLANs.                                                                  *)

RowOf(r)   == vlans[ask[r].owner][ask[r].vlan]
SetRow(r, row) == vlans' = [vlans EXCEPT ![ask[r].owner][ask[r].vlan] = row]

\* The constructor takes 0 for no id, and makes up another.
Constructed(v) == IF v = 0 THEN VnetIds ELSE {v}

GetFabric(r) ==
  /\ pc[r] = "getFabric"
  /\ \E v \in Constructed(fabrics[ask[r].owner]) : got' = [got EXCEPT ![r].vnet = v]
  /\ Goes(r, "putVlan")
  /\ UNCHANGED <<fabrics, vlans, nets, ask, pick, overtaken>>

\* Mutant: the fabric is put whatever row there is.
MayPutAnyFabric(r, v) == \A o \in Owners \ {ask[r].owner} : fabrics[o] # v

\* A new fabric is put with etag null, and its id is unique in the bucket.
MayPutFabric(r, v) ==
  fabrics[ask[r].owner] = NoVnet /\ \A o \in Owners : fabrics[o] # v

\* createFabricVLAN: one batch for the VLAN and, if there was none, the fabric.
PutVlan(r) ==
  /\ pc[r] = "putVlan"
  /\ \E v \in IF got[r].vnet = NoVnet THEN VnetIds ELSE {got[r].vnet} :
       LET fits == RowOf(r) = NoVlan /\ (got[r].vnet = NoVnet => MayPutFabric(r, v))
       IN  IF fits
           THEN /\ SetRow(r, [vnet |-> v, text |-> ask[r].text])
                /\ fabrics' = IF got[r].vnet = NoVnet
                              THEN [fabrics EXCEPT ![ask[r].owner] = v] ELSE fabrics
                /\ Ends(r)
                /\ UNCHANGED nets
           ELSE Fails(r)

\* Mutant: a VLAN is taken to be there.
NeverMissing(r) == FALSE

Missing(r) == RowOf(r) = NoVlan

\* ensureVlanExists, getParentVLAN
GetVlan(r) ==
  /\ pc[r] = "getVlan"
  /\ IF Missing(r) THEN Fails(r)
     ELSE /\ got' = [got EXCEPT ![r] = RowOf(r)]
          /\ Goes(r, CASE ask[r].op = "updateVlan" -> "updateVlan"
                       [] ask[r].op = "createNet"  -> "choose"
                       [] ask[r].op = "deleteNet"  -> "delNet")
          /\ UNCHANGED <<fabrics, vlans, nets, ask, pick, overtaken>>

\* Mutant: the put has no etag.
AnyRow(r) == TRUE

Unchanged(r) == RowOf(r) = got[r]

UpdateVlan(r) ==
  /\ pc[r] = "updateVlan"
  /\ IF Unchanged(r)
     THEN SetRow(r, [got[r] EXCEPT !.text = ask[r].text]) /\ Ends(r)
          /\ UNCHANGED <<fabrics, nets>>
     ELSE Fails(r)

On(n, o, k) == nets[n].owner = o /\ nets[n].vlan = k

\* deleteFabricVLAN
ListNets(r) ==
  /\ pc[r] = "listNets"
  /\ IF \E n \in Names : On(n, ask[r].owner, ask[r].vlan) THEN Fails(r)
     ELSE /\ Goes(r, "delVlan")
          /\ UNCHANGED <<fabrics, vlans, nets, ask, got, pick, overtaken>>

DelVlan(r) ==
  /\ pc[r] = "delVlan"
  /\ IF Missing(r) THEN Fails(r)
     ELSE SetRow(r, NoVlan) /\ Overtakes(r) /\ UNCHANGED <<fabrics, nets>>
-----------------------------------------------------------------------------
(* Networks.                                                               *)

OnVnet(v) == {n \in Names : nets[n].vnet = v}

\* listFilteredNetworks: sorted by subnet.  Fewer than k of the networks come
\* before the k-th, and no more than the others after it.
Listed(v) ==
  LET before(s)   == {n \in OnVnet(v) : Before(nets[n].subnet, s)}
      upTo(s)     == {n \in OnVnet(v) : ~Before(s, nets[n].subnet)}
      isKth(s, k) == Cardinality(before(s)) < k /\ k <= Cardinality(upTo(s))
  IN  [k \in 1..Cardinality(OnVnet(v)) |->
         CHOOSE s \in {nets[n].subnet : n \in OnVnet(v)} : isKth(s, k)]

\* OVERLAP_FABRIC_NET_SQL finds none: a start inside the other subnet.
Free(s, v) ==
  \A n \in OnVnet(v) :
    LET t == nets[n].subnet
    IN  ~(t.at <= s.at /\ s.at <= LastOf(t)) /\ ~(s.at <= t.at /\ t.at <= LastOf(s))

Picks(r, s) ==
  /\ pick' = [pick EXCEPT ![r] = s]
  /\ Goes(r, "putNet")
  /\ UNCHANGED <<fabrics, vlans, nets, ask, got, overtaken>>

\* validateProvisionRange
Validate(r) ==
  LET s == ask[r].subnet
  IN  /\ pc[r] = "choose" /\ s # NoSubnet
      /\ IF Free(s, got[r].vnet) THEN Picks(r, s) ELSE Fails(r)

\* validateSubnetAutoAlloc, for which 0 is no vnet_id, and _allocateSubnet.
Allocate(r) ==
  LET list == Listed(got[r].vnet)
      s    == FirstAvailable(list)
  IN  /\ pc[r] = "choose" /\ ask[r].subnet = NoSubnet
      /\ \/ got[r].vnet # 0 /\ s # NoSubnet /\ Picks(r, s)
         \/ (got[r].vnet = 0 \/ s = NoSubnet \/ Breaks(list)) /\ Fails(r)

\* _createNet: the owner has no other network of the name.
PutNet(r) ==
  LET a == ask[r]
  IN  /\ pc[r] = "putNet"
      /\ IF nets[a.name] # NoNet THEN Fails(r)
         ELSE /\ nets' = [nets EXCEPT ![a.name] = [owner |-> a.owner, vlan |-> a.vlan,
                                         vnet |-> got[r].vnet, subnet |-> pick[r]]]
              /\ Overtakes(r)
              /\ UNCHANGED <<fabrics, vlans>>

DelNet(r) ==
  /\ pc[r] = "delNet"
  /\ IF nets[ask[r].name].owner # ask[r].owner THEN Fails(r)
     ELSE /\ nets' = [nets EXCEPT ![ask[r].name] = NoNet]
          /\ Ends(r)
          /\ UNCHANGED <<fabrics, vlans>>
-----------------------------------------------------------------------------
Next == \E r \in Reqs :
  \/ \E a \in Asks[r] : Start(r, a)
  \/ GetFabric(r) \/ PutVlan(r) \/ GetVlan(r) \/ UpdateVlan(r) \/ ListNets(r) \/ DelVlan(r)
  \/ Validate(r) \/ Allocate(r) \/ PutNet(r) \/ DelNet(r)

Spec == Init /\ [][Next]_vars
-----------------------------------------------------------------------------
(* Properties.                                                             *)

\* Each account has a virtual network of its own, which all its VLANs and
\* networks share (docs/index.md, CreateFabricVLAN), also when its first VLANs
\* are created at once, and when they are deleted and created again.
SharedVnet ==
  /\ \A o \in Owners, k \in VlanIds : vlans[o][k] # NoVlan => vlans[o][k].vnet = fabrics[o]
  /\ \A n \in Names : nets[n] # NoNet => nets[n].vnet = fabrics[nets[n].owner]
  /\ \A o, p \in Owners : o # p /\ fabrics[o] = fabrics[p] => fabrics[o] = NoVnet

\* Checks and writes are separate calls, so requests that overlap can create
\* overlapping subnets, or a network on a VLAN that is being deleted.  One that
\* is not overtaken by such a write never does, whatever deletes and updates
\* run at the same time and however its subnet was chosen.
SoundUnlessOvertaken ==
  [][\A r \in Reqs : pc'[r] # pc[r] /\ r \notin overtaken /\ Sound => Sound']_vars

\* SubnetsExhausted is answered only when no subnet of the prefix is free.
ExhaustedMeansFull ==
  [][\A r \in Reqs :
       /\ pc[r] = "choose" /\ pc'[r] = "idle" /\ ask[r].subnet = NoSubnet
       /\ got[r].vnet # 0 /\ Sound
       => \A i \in DOMAIN Blocks : \A a \in Blocks[i].first..Blocks[i].last :
            a % PrefixSize = 0 => ~Free(Cidr(a, PrefixSize), got[r].vnet)]_vars

\* A VLAN that was deleted is back only when it is created again: an update
\* that has read it before does not bring it back.
VlansStayDeleted ==
  [][\A r \in Reqs : pc[r] = "updateVlan" =>
       \A o \in Owners, k \in VlanIds :
         vlans[o][k] = NoVlan /\ vlans'[o][k] # NoVlan => pc'[r] = pc[r]]_vars

\* What subnet-streams.js says it finds: gaps between existing subnets, and in
\* them available subnets.
ChosenIsFree ==
  [][\A r \in Reqs : pc[r] = "choose" /\ pc'[r] = "putNet" /\ Sound
       => \A n \in OnVnet(got[r].vnet) : ~Overlap(pick'[r], nets[n].subnet)]_vars
=============================================================================
