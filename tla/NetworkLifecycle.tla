-------------------------- MODULE NetworkLifecycle --------------------------
(***************************************************************************)
(* NIC tags, networks, network pools and the NICs on the networks: rows of *)
(* four Moray buckets that refer to each other by name or uuid, and one IP *)
(* bucket for each network.  Moray knows nothing of the references: every  *)
(* request first reads what its change depends on, then writes.            *)
(*                                                                         *)
(* One action is one Moray round trip, and pc names the call a request     *)
(* makes next.  Requests are one shot and independent, unless Serial says  *)
(* that one starts only when no other is in progress; with MayStop one may *)
(* end between two calls (its process stops, or Moray returns an error).   *)
(***************************************************************************)
EXTENDS Integers, FiniteSets

CONSTANTS
  Requests,   \* identities of the API requests
  Tags,       \* names of NIC tags
  Mtus,       \* MTUs
  Nets, Pools, Nics,
  Admin,      \* what createNetwork's own IP records belong to
  Nobody,     \* no belongs_to_uuid
  Ops,        \* the operations a request may ask for
  Serial,     \* requests do not overlap
  MayStop     \* requests may end between two calls

Kinds == {"createTag", "updateTag", "deleteTag", "createNet", "updateNet",
          "deleteNet", "deleteFabricNet", "createPool", "updatePool",
          "deletePool", "createNic", "deleteNic"}

\* Fields a kind of request does not use have any value; mtu 0 is none given.
OpType == [ kind : Kinds, tag : Tags, to : Tags, mtu : Mtus \cup {0},
            net : Nets, pool : Pools, members : SUBSET Nets,
            nic : Nics, gateway : BOOLEAN ]

Renames(o) == o.kind = "updateTag" /\ o.to # o.tag

ASSUME LifeNumbers == Mtus \subseteq Nat \ {0}
ASSUME LifeNames ==
  /\ Admin \notin Nics /\ Nobody \notin Nics /\ Admin # Nobody
  /\ Tags \cap Requests = {}
  /\ Tags # {} /\ Mtus # {} /\ Nets # {}
\* What is created has an MTU, if only the default; a pool must have a network.
ASSUME LifeOps ==
  /\ Ops # {} /\ Ops \subseteq OpType
  /\ \A o \in Ops : o.kind \in {"createTag", "createNet"} => o.mtu # 0
  /\ \A o \in Ops : o.kind \in {"createPool", "updatePool"} => o.members # {}
ASSUME LifeModes == Serial \in BOOLEAN /\ MayStop \in BOOLEAN

VARIABLES
  \* the Moray buckets; etag 0: no such row
  tags,      \* napi_nic_tags
  nets,      \* napi_networks
  pools,     \* napi_network_pools
  nics,      \* napi_nics
  buckets,   \* napi_ips_<net>: there or not, with createNetwork's records or not
  gws,       \* the record of the gateway's address in it
  clock,     \* writes committed; an etag is the number of the write it is from
  gone,      \* history: networks whose deletion was committed
  \* the requests
  pc, op, result,
  tagSeen, netSeen, poolSeen, nicSeen, gwSeen,   \* rows as read
  under,     \* the tag whose MTU is compared
  left       \* members of a pool still to be read

rows  == <<tags, nets, pools, nics, buckets, gws, clock, gone>>
seen  == <<tagSeen, netSeen, poolSeen, nicSeen, gwSeen, under, left>>
vars  == <<rows, pc, op, result, seen>>

\* A tag's uuid is that of the request that created it, or of the start.
TagRow  == [uuid : Requests \cup Tags, mtu : Mtus, etag : Nat]
NetRow  == [tag : Tags, mtu : Mtus, etag : Nat]
PoolRow == [members : SUBSET Nets, etag : Nat]
NicRow  == [net : Nets, gateway : BOOLEAN, etag : Nat]
GwRow   == [holder : Nics \cup {Admin, Nobody}, etag : Nat]

NoTag  == [uuid |-> CHOOSE t \in Tags : TRUE, mtu |-> CHOOSE m \in Mtus : TRUE, etag |-> 0]
NoNet  == [tag |-> CHOOSE t \in Tags : TRUE, mtu |-> CHOOSE m \in Mtus : TRUE, etag |-> 0]
NoPool == [members |-> {}, etag |-> 0]
NoNic  == [net |-> CHOOSE n \in Nets : TRUE, gateway |-> FALSE, etag |-> 0]
NoGw   == [holder |-> Nobody, etag |-> 0]

TagThere(t) == tags[t].etag # 0
NetThere(n) == nets[n].etag # 0
-----------------------------------------------------------------------------
(* What references promise.                                                *)

NetsOf(t)  == {n \in Nets : NetThere(n) /\ nets[n].tag = t}
PoolsOf(n) == {p \in Pools : pools[p].etag # 0 /\ n \in pools[p].members}
NicsOf(n)  == {m \in Nics : nics[m].etag # 0 /\ nics[m].net = n}

\* The tag of a network exists and its MTU is at least the network's:
\* the checks of nicTagInUse, networkMTU and validateNicTagMTU.
NetsResolve ==
  \A n \in Nets : NetThere(n) => /\ TagThere(nets[n].tag)
                                 /\ nets[n].mtu <= tags[nets[n].tag].mtu

\* The networks of a pool exist; otherwise the pool can no longer be read, so
\* neither be updated nor deleted (getAllNetworks).
PoolsResolve == \A n \in Nets : PoolsOf(n) # {} => NetThere(n)

\* The network of a NIC exists and has its IP bucket; otherwise the NIC can no
\* longer be read, so not be deleted either (addIPtoNic).
NicsResolve ==
  \A n \in Nets : NicsOf(n) # {} => NetThere(n) /\ buckets[n] # "none"

\* Two NICs never have one gateway's address.
GatewayHeldOnce ==
  \A l, m \in Nics : /\ nics[l].etag # 0 /\ nics[m].etag # 0
                     /\ nics[l].gateway /\ nics[m].gateway
                     /\ nics[l].net = nics[m].net
                     => l = m

\* The record of a gateway's address names the NIC that has the address.
GatewayNamesHolder ==
  \A m \in Nics : nics[m].etag # 0 /\ nics[m].gateway => gws[nics[m].net].holder = m
-----------------------------------------------------------------------------
(* Any store in which references resolve and networks are complete.        *)

Init ==
  /\ tags \in [Tags -> {NoTag} \cup [uuid : Tags, mtu : Mtus, etag : {1}]]
  /\ \A t \in Tags : TagThere(t) => tags[t].uuid = t
  /\ nets \in [Nets -> {NoNet} \cup [tag : Tags, mtu : Mtus, etag : {1}]]
  /\ pools \in [Pools -> {NoPool} \cup [members : (SUBSET Nets) \ {{}}, etag : {1}]]
  /\ nics \in [Nics -> {NoNic} \cup [net : Nets, gateway : BOOLEAN, etag : {1}]]
  /\ buckets = [n \in Nets |-> IF NetThere(n) THEN "filled" ELSE "none"]
  /\ NetsResolve /\ PoolsResolve /\ NicsResolve /\ GatewayHeldOnce
  /\ gws = [n \in Nets |->
              IF ~NetThere(n) THEN NoGw
              ELSE [holder |-> IF \E m \in NicsOf(n) : nics[m].gateway
                               THEN CHOOSE m \in NicsOf(n) : nics[m].gateway
                               ELSE Admin,
                    etag |-> 1]]
  /\ clock = 1 /\ gone = {}
  /\ pc = [r \in Requests |-> "idle"]
  /\ op = [r \in Requests |-> CHOOSE o \in Ops : TRUE]   \* chosen at the start
  /\ result = [r \in Requests |-> "none"]
  /\ tagSeen = [r \in Requests |-> NoTag]
  /\ netSeen = [r \in Requests |-> NoNet]
  /\ poolSeen = [r \in Requests |-> NoPool]
  /\ nicSeen = [r \in Requests |-> NoNic]
  /\ gwSeen = [r \in Requests |-> NoGw]
  /\ under = [r \in Requests |-> op[r].tag]
  /\ left = [r \in Requests |-> op[r].members]

Goto(r, label) == pc' = [pc EXCEPT ![r] = label] /\ UNCHANGED result

Finish(r, res) == /\ pc' = [pc EXCEPT ![r] = "done"]
                  /\ result' = [result EXCEPT ![r] = res]

\* The request goes on to label if the check holds and is refused otherwise.
Check(r, holds, label) == IF holds THEN Goto(r, label) ELSE Finish(r, "refused")

InProgress(r) == pc[r] \notin {"idle", "done"}

-----------------------------------------------------------------------------
(* Reading and checking.                                                   *)

\* The first call of an operation.
GoFirst(r, o) ==
  \/ o.kind = "createTag" /\ Goto(r, "newName")
  \/ (Renames(o) \/ o.kind = "deleteTag") /\ Goto(r, "tagUnused")
  \/ o.kind = "updateTag" /\ ~Renames(o) /\ o.mtu # 0 /\ Goto(r, "tagMtu")
  \/ o.kind = "updateTag" /\ ~Renames(o) /\ o.mtu = 0 /\ Goto(r, "oldTag")
  \/ o.kind = "createNet" /\ Goto(r, "netTag")
  \/ o.kind \in {"updateNet", "deleteNet", "deleteFabricNet"} /\ Goto(r, "net")
  \/ o.kind = "createPool" /\ Goto(r, "newMembers")
  \/ o.kind \in {"updatePool", "deletePool"} /\ Goto(r, "pool")
  \/ o.kind = "createNic" /\ Goto(r, "nicNet")
  \/ o.kind = "deleteNic" /\ Goto(r, "nic")

Start(r) ==
  /\ pc[r] = "idle"
  /\ Serial => \A q \in Requests : ~InProgress(q)
  /\ \E o \in Ops :
       /\ op' = [op EXCEPT ![r] = o]
       /\ under' = [under EXCEPT ![r] = o.tag]
       /\ left' = [left EXCEPT ![r] = o.members]
       /\ GoFirst(r, o)
  /\ UNCHANGED <<rows, tagSeen, netSeen, poolSeen, nicSeen, gwSeen>>

\* Mutant: a tag in use may be renamed or deleted.
UnusedAlways(t) == TRUE

Unused(t) == NetsOf(t) = {}

\* The list of the networks of the tag that is to go (nicTagInUse).
TagUnused(r) ==
  /\ pc[r] = "tagUnused"
  /\ Check(r, Unused(op[r].tag),
           IF op[r].kind = "deleteTag" THEN "commit" ELSE "newName")
  /\ UNCHANGED <<rows, op, seen>>

\* GET of the tag that is to be (validateName, validNameChange).
NewName(r) ==
  /\ pc[r] = "newName"
  /\ Check(r, ~TagThere(op[r].to),
           IF op[r].kind = "createTag" THEN "commit"
           ELSE IF op[r].mtu # 0 THEN "tagMtu" ELSE "oldTag")
  /\ UNCHANGED <<rows, op, seen>>

\* The list of the networks a new MTU must support (networkMTU).
TagMtu(r) ==
  /\ pc[r] = "tagMtu"
  /\ Check(r, \A n \in NetsOf(op[r].tag) : nets[n].mtu <= op[r].mtu, "oldTag")
  /\ UNCHANGED <<rows, op, seen>>

\* _getOld
OldTag(r) ==
  /\ pc[r] = "oldTag"
  /\ Check(r, TagThere(op[r].tag), "commit")
  /\ tagSeen' = [tagSeen EXCEPT ![r] = tags[op[r].tag]]
  /\ UNCHANGED <<rows, op, netSeen, poolSeen, nicSeen, gwSeen, under, left>>

\* ensureNetworkExists, ensureFabricNetworkExists
ReadNet(r) ==
  /\ pc[r] = "net"
  /\ Check(r, NetThere(op[r].net),
           CASE op[r].kind = "updateNet" -> IF op[r].mtu # 0 THEN "netAgain" ELSE "commit"
             [] op[r].kind = "deleteNet" -> "netPools"
             [] op[r].kind = "deleteFabricNet" -> "netNics")
  /\ netSeen' = [netSeen EXCEPT ![r] = nets[op[r].net]]
  /\ UNCHANGED <<rows, op, tagSeen, poolSeen, nicSeen, gwSeen, under, left>>

\* An update of the MTU reads the network a second time to learn its tag.
ReadNetAgain(r) ==
  /\ pc[r] = "netAgain"
  /\ Check(r, NetThere(op[r].net), "netTag")
  /\ under' = [under EXCEPT ![r] = nets[op[r].net].tag]
  /\ UNCHANGED <<rows, op, tagSeen, netSeen, poolSeen, nicSeen, gwSeen, left>>

MtuFits(t, mtu) == mtu <= tags[t].mtu

\* validateNicTagMTU.  A creation has already read the tag once to see that it
\* exists; only this second GET decides.
ReadNetTag(r) ==
  /\ pc[r] = "netTag"
  /\ Check(r, TagThere(under[r]) /\ MtuFits(under[r], op[r].mtu), "commit")
  /\ UNCHANGED <<rows, op, seen>>

\* Mutant: the check is forgotten, as it is in the endpoint of fabric networks.
ListedPoolsNone(n) == {}

ListedPools(n) == PoolsOf(n)

\* ensureNetworkUnused, of the /networks endpoint only
ListPools(r) ==
  /\ pc[r] = "netPools"
  /\ Check(r, ListedPools(op[r].net) = {}, "netNics")
  /\ UNCHANGED <<rows, op, seen>>

\* Mutant: NICs on the gateway's address are not found.
NicsOfPlain(n) == {m \in NicsOf(n) : ~nics[m].gateway}

ListedNics(n) == NicsOf(n)

\* checkNetNICs
ListNics(r) ==
  /\ pc[r] = "netNics"
  /\ Check(r, ListedNics(op[r].net) = {}, "commit")
  /\ UNCHANGED <<rows, op, seen>>

\* ensurePoolExists: the pool, then its members in parallel.
ReadPool(r) ==
  /\ pc[r] = "pool"
  /\ Check(r, pools[op[r].pool].etag # 0, "oldMembers")
  /\ poolSeen' = [poolSeen EXCEPT ![r] = pools[op[r].pool]]
  /\ left' = [left EXCEPT ![r] = pools[op[r].pool].members]
  /\ UNCHANGED <<rows, op, tagSeen, netSeen, nicSeen, gwSeen, under>>

AfterMembers(r) ==
  IF pc[r] = "oldMembers" /\ op[r].kind = "updatePool" THEN "newMembers" ELSE "commit"

\* One GET of a member came back (getAllNetworks, _validateNetworks).
ReadMember(r) ==
  /\ pc[r] \in {"oldMembers", "newMembers"}
  /\ \E n \in left[r] :
       IF left[r] \ {n} # {}
       THEN /\ Check(r, NetThere(n), pc[r])
            /\ left' = [left EXCEPT ![r] = @ \ {n}]
       ELSE /\ Check(r, NetThere(n), AfterMembers(r))
            /\ left' = [left EXCEPT ![r] = op[r].members]
  /\ UNCHANGED <<rows, op, tagSeen, netSeen, poolSeen, nicSeen, gwSeen, under>>

\* ensureNicExists: the NIC, then its network and IP.
ReadNic(r) ==
  /\ pc[r] = "nic"
  /\ Check(r, nics[op[r].nic].etag # 0, "nicNet")
  /\ nicSeen' = [nicSeen EXCEPT ![r] = nics[op[r].nic]]
  /\ UNCHANGED <<rows, op, tagSeen, netSeen, poolSeen, gwSeen, under, left>>

\* The network of the NIC that is created or deleted.
NicNet(r)     == IF op[r].kind = "deleteNic" THEN nicSeen[r].net ELSE op[r].net
NicGateway(r) == IF op[r].kind = "deleteNic" THEN nicSeen[r].gateway ELSE op[r].gateway

ReadNicNet(r) ==
  /\ pc[r] = "nicNet"
  /\ Check(r, NetThere(NicNet(r)), "nicIp")
  /\ UNCHANGED <<rows, op, seen>>

\* Mutant: any record may be provisioned.
FreeToTakeAny(gw) == TRUE

\* IP.provisionable
FreeToTake(gw) == gw.holder \in {Admin, Nobody}

\* GET of the address.  Its bucket may be gone.  Of other addresses than the
\* gateway's, no two NICs here want the same one: their records are left out.
ReadNicIp(r) ==
  /\ pc[r] = "nicIp"
  /\ LET gw == gws[NicNet(r)]
     IN /\ Check(r, /\ buckets[NicNet(r)] # "none"
                    /\ NicGateway(r) => IF op[r].kind = "deleteNic"
                                        THEN gw.etag # 0 ELSE FreeToTake(gw),
                 "commit")
        /\ gwSeen' = [gwSeen EXCEPT ![r] = gw]
  /\ UNCHANGED <<rows, op, tagSeen, netSeen, poolSeen, nicSeen, under, left>>
-----------------------------------------------------------------------------
(* Writing.  A write that does not fit is refused by Moray.                *)

Write(r) == /\ pc[r] = "commit"
            /\ clock' = clock + 1
            /\ UNCHANGED <<op, seen>>

\* The put of a new tag has etag null.
TagCreateFits(r) == ~TagThere(op[r].to)

CommitCreateTag(r) ==
  /\ op[r].kind = "createTag" /\ Write(r) /\ TagCreateFits(r)
  /\ tags' = [tags EXCEPT ![op[r].to] =
                [uuid |-> r, mtu |-> op[r].mtu, etag |-> clock + 1]]
  /\ Finish(r, "ok")
  /\ UNCHANGED <<nets, pools, nics, buckets, gws, gone>>

\* Mutant: the bucket's index of uuids is not unique.
UuidFitsAlways(r) == TRUE

\* The unique index of uuids, once the old row is gone.
UuidFits(r) ==
  \A t \in Tags \ {op[r].tag} : TagThere(t) => tags[t].uuid # tagSeen[r].uuid

\* Mutant: the MTU is taken from the request even if it gives none.
NewMtuGiven(r) == op[r].mtu

NewMtu(r) == IF op[r].mtu # 0 THEN op[r].mtu ELSE tagSeen[r].mtu

\* A rename deletes the old row whatever it is now, and puts the new one with
\* etag null; without a rename the put has the etag of the row as read.
TagUpdateFits(r) ==
  IF Renames(op[r])
  THEN TagThere(op[r].tag) /\ ~TagThere(op[r].to) /\ UuidFits(r)
  ELSE tags[op[r].tag].etag = tagSeen[r].etag

CommitUpdateTag(r) ==
  /\ op[r].kind = "updateTag" /\ Write(r) /\ TagUpdateFits(r)
  /\ tags' = [tags EXCEPT
                ![op[r].tag] = NoTag,
                ![op[r].to]  = [uuid |-> tagSeen[r].uuid,
                                mtu  |-> NewMtu(r),
                                etag |-> clock + 1]]
  /\ Finish(r, "ok")
  /\ UNCHANGED <<nets, pools, nics, buckets, gws, gone>>

TagDeleteFits(r) == TagThere(op[r].tag)

CommitDeleteTag(r) ==
  /\ op[r].kind = "deleteTag" /\ Write(r) /\ TagDeleteFits(r)
  /\ tags' = [tags EXCEPT ![op[r].tag] = NoTag]
  /\ Finish(r, "ok")
  /\ UNCHANGED <<nets, pools, nics, buckets, gws, gone>>

NetCreateFits(r) == ~NetThere(op[r].net)

\* _createNet: the row alone.
CommitCreateNet(r) ==
  /\ op[r].kind = "createNet" /\ Write(r) /\ NetCreateFits(r)
  /\ nets' = [nets EXCEPT ![op[r].net] =
                [tag |-> op[r].tag, mtu |-> op[r].mtu, etag |-> clock + 1]]
  /\ Goto(r, "bucket")
  /\ UNCHANGED <<tags, pools, nics, buckets, gws, gone>>

\* initBucket leaves a bucket that exists as it is.
BucketMade(n) == IF buckets[n] = "none" THEN "empty" ELSE buckets[n]

\* _createIPbucket
MakeBucket(r) ==
  /\ pc[r] = "bucket"
  /\ buckets' = [buckets EXCEPT ![op[r].net] = BucketMade(op[r].net)]
  /\ Goto(r, "records")
  /\ UNCHANGED <<tags, nets, pools, nics, gws, clock, gone, op, seen>>

\* _createIPs: the gateway's record and the others, whatever is there.
FillBucket(r) ==
  /\ pc[r] = "records"
  /\ LET n == op[r].net
     IN IF buckets[n] = "none"
        THEN Finish(r, "error") /\ UNCHANGED <<buckets, gws, clock>>
        ELSE /\ clock' = clock + 1
             /\ buckets' = [buckets EXCEPT ![n] = "filled"]
             /\ gws' = [gws EXCEPT ![n] = [holder |-> Admin, etag |-> clock + 1]]
             /\ Finish(r, "ok")
  /\ UNCHANGED <<tags, nets, pools, nics, gone, op, seen>>

\* The whole row as first read, with the new MTU if one is given (or with other
\* fields changed), and no etag.
CommitUpdateNet(r) ==
  /\ op[r].kind = "updateNet" /\ Write(r)
  /\ nets' = [nets EXCEPT ![op[r].net] =
                [tag  |-> netSeen[r].tag,
                 mtu  |-> IF op[r].mtu # 0 THEN op[r].mtu ELSE netSeen[r].mtu,
                 etag |-> clock + 1]]
  /\ Finish(r, "ok")
  /\ UNCHANGED <<tags, pools, nics, buckets, gws, gone>>

DeletesNet(o) == o.kind \in {"deleteNet", "deleteFabricNet"}

NetDeleteFits(r) == nets[op[r].net].etag = netSeen[r].etag

\* deleteNet: the row alone.
CommitDeleteNet(r) ==
  /\ DeletesNet(op[r]) /\ Write(r) /\ NetDeleteFits(r)
  /\ nets' = [nets EXCEPT ![op[r].net] = NoNet]
  /\ gone' = gone \cup {op[r].net}
  /\ Goto(r, "dropBucket")
  /\ UNCHANGED <<tags, pools, nics, buckets, gws>>

\* Mutant: the bucket is left behind.
BucketKept(n) == buckets[n]

BucketDropped(n) == "none"

\* deleteNetBucket: a bucket that does not exist is no error.
DropBucket(r) ==
  /\ pc[r] = "dropBucket"
  /\ buckets' = [buckets EXCEPT ![op[r].net] = BucketDropped(op[r].net)]
  /\ gws' = [gws EXCEPT ![op[r].net] = NoGw]
  /\ Finish(r, "ok")
  /\ UNCHANGED <<tags, nets, pools, nics, clock, gone, op, seen>>

\* A pool that is created was not read, which leaves etag null.
PoolFits(r) == pools[op[r].pool].etag = poolSeen[r].etag

CommitPool(r) ==
  /\ op[r].kind \in {"createPool", "updatePool"} /\ Write(r) /\ PoolFits(r)
  /\ pools' = [pools EXCEPT ![op[r].pool] =
                 [members |-> op[r].members, etag |-> clock + 1]]
  /\ Finish(r, "ok")
  /\ UNCHANGED <<tags, nets, nics, buckets, gws, gone>>

CommitDeletePool(r) ==
  /\ op[r].kind = "deletePool" /\ Write(r) /\ PoolFits(r)
  /\ pools' = [pools EXCEPT ![op[r].pool] = NoPool]
  /\ Finish(r, "ok")
  /\ UNCHANGED <<tags, nets, nics, buckets, gws, gone>>

\* The batch of a new NIC: etag null for the NIC, the etag of the IP as read.
\* While it does not fit because the bucket is gone it is retried (nicAndIP);
\* when the retries run out the request fails.
NicCreateFits(r) ==
  /\ nics[op[r].nic].etag = 0
  /\ buckets[op[r].net] # "none"
  /\ op[r].gateway => gws[op[r].net].etag = gwSeen[r].etag

CommitCreateNic(r) ==
  /\ op[r].kind = "createNic" /\ Write(r) /\ NicCreateFits(r)
  /\ nics' = [nics EXCEPT ![op[r].nic] =
                [net |-> op[r].net, gateway |-> op[r].gateway, etag |-> clock + 1]]
  /\ gws' = IF op[r].gateway
            THEN [gws EXCEPT ![op[r].net] = [holder |-> op[r].nic, etag |-> clock + 1]]
            ELSE gws
  /\ Finish(r, "ok")
  /\ UNCHANGED <<tags, nets, pools, buckets, gone>>

\* delIP: the address is only freed if its record names the NIC's owner.
FreesGateway(r) == nicSeen[r].gateway /\ gwSeen[r].holder = op[r].nic

NicDeleteFits(r) ==
  /\ nics[op[r].nic].etag # 0
  /\ ~nicSeen[r].gateway => buckets[nicSeen[r].net] # "none"
  /\ FreesGateway(r) => /\ buckets[nicSeen[r].net] # "none"
                        /\ gws[nicSeen[r].net].etag = gwSeen[r].etag

CommitDeleteNic(r) ==
  /\ op[r].kind = "deleteNic" /\ Write(r) /\ NicDeleteFits(r)
  /\ nics' = [nics EXCEPT ![op[r].nic] = NoNic]
  /\ gws' = IF FreesGateway(r)
            THEN [gws EXCEPT ![nicSeen[r].net] = [holder |-> Nobody, etag |-> clock + 1]]
            ELSE gws
  /\ Finish(r, "ok")
  /\ UNCHANGED <<tags, nets, pools, buckets, gone>>

Fits(r) ==
  CASE op[r].kind = "createTag" -> TagCreateFits(r)
    [] op[r].kind = "updateTag" -> TagUpdateFits(r)
    [] op[r].kind = "deleteTag" -> TagDeleteFits(r)
    [] op[r].kind = "createNet" -> NetCreateFits(r)
    [] op[r].kind = "updateNet" -> TRUE
    [] DeletesNet(op[r]) -> NetDeleteFits(r)
    [] op[r].kind \in {"createPool", "updatePool", "deletePool"} -> PoolFits(r)
    [] op[r].kind = "createNic" -> NicCreateFits(r)
    [] op[r].kind = "deleteNic" -> NicDeleteFits(r)

Conflict(r) ==
  /\ pc[r] = "commit" /\ ~Fits(r)
  /\ Finish(r, "refused")
  /\ UNCHANGED <<rows, op, seen>>

\* The process stops, or Moray answers a call with an error.
Stop(r) ==
  /\ MayStop /\ InProgress(r)
  /\ Finish(r, "stopped")
  /\ UNCHANGED <<rows, op, seen>>
-----------------------------------------------------------------------------
Read(r) == \/ TagUnused(r) \/ NewName(r) \/ TagMtu(r) \/ OldTag(r)
           \/ ReadNet(r) \/ ReadNetAgain(r) \/ ReadNetTag(r)
           \/ ListPools(r) \/ ListNics(r) \/ ReadPool(r) \/ ReadMember(r)
           \/ ReadNic(r) \/ ReadNicNet(r) \/ ReadNicIp(r)

Commit(r) == \/ CommitCreateTag(r) \/ CommitUpdateTag(r) \/ CommitDeleteTag(r)
             \/ CommitCreateNet(r) \/ MakeBucket(r) \/ FillBucket(r)
             \/ CommitUpdateNet(r) \/ CommitDeleteNet(r) \/ DropBucket(r)
             \/ CommitPool(r) \/ CommitDeletePool(r)
             \/ CommitCreateNic(r) \/ CommitDeleteNic(r) \/ Conflict(r)

AllDone == (\A r \in Requests : pc[r] = "done") /\ UNCHANGED vars

Next == (\E r \in Requests : Start(r) \/ Read(r) \/ Commit(r) \/ Stop(r)) \/ AllDone

Spec == Init /\ [][Next]_vars
-----------------------------------------------------------------------------
(* Properties                                                              *)

Labels  == {"idle", "newName", "tagUnused", "tagMtu", "oldTag", "netTag", "net",
            "netAgain", "netPools", "netNics", "pool", "oldMembers", "newMembers",
            "nic", "nicNet", "nicIp", "commit", "bucket", "records", "dropBucket",
            "done"}
Results == {"none", "ok", "refused", "error", "stopped"}

\* Every variable has its type.
TypeOK ==
  /\ tags \in [Tags -> TagRow] /\ nets \in [Nets -> NetRow]
  /\ pools \in [Pools -> PoolRow] /\ nics \in [Nics -> NicRow]
  /\ buckets \in [Nets -> {"none", "empty", "filled"}]
  /\ gws \in [Nets -> GwRow] /\ clock \in Nat /\ gone \subseteq Nets
  /\ pc \in [Requests -> Labels] /\ op \in [Requests -> Ops]
  /\ result \in [Requests -> Results]
  /\ tagSeen \in [Requests -> TagRow] /\ netSeen \in [Requests -> NetRow]
  /\ poolSeen \in [Requests -> PoolRow] /\ nicSeen \in [Requests -> NicRow]
  /\ gwSeen \in [Requests -> GwRow]
  /\ under \in [Requests -> Tags] /\ left \in [Requests -> SUBSET Nets]

\* A creation or deletion of the network is under way, or was cut short.
Unsettled(n) ==
  \E r \in Requests :
    /\ op[r].net = n /\ (op[r].kind = "createNet" \/ DeletesNet(op[r]))
    /\ InProgress(r) \/ result[r] \in {"error", "stopped"}

\* A network has its bucket with all of createNetwork's records, and no bucket
\* is left without a network, unless a creation or deletion was cut short: the
\* row, the bucket and the records are written one after the other.
NetsAreWhole ==
  \A n \in Nets : ~Unsettled(n) =>
     buckets[n] = IF NetThere(n) THEN "filled" ELSE "none"

Uuids == {tags[t].uuid : t \in {s \in Tags : TagThere(s)}}

\* Creations, renames and changes of tags, however they race, lose no tag and
\* duplicate none: a rename deletes the old row without an etag, and it is the
\* unique index of uuids that stops it when the row is no longer its own.  (Not
\* with a deletion in between, which frees the uuid that the rename has read.)
TagsAreKept ==
  [][\/ \E r \in Requests : op[r].kind = "deleteTag" /\ pc[r] = "commit" /\ pc'[r] = "done"
     \/ /\ Uuids \subseteq Uuids'
        /\ \A s, t \in Tags : TagThere(s)' /\ TagThere(t)' /\ tags'[s].uuid = tags'[t].uuid
                              => s = t]_vars

\* After the deletion of a network has been answered no NIC is put on it, even
\* by a request that read the network before: its IP bucket is gone.  Only a
\* creation with the same uuid brings the bucket back.
NoNicAfterDelete ==
  [][\A m \in Nics, r \in Requests :
       /\ nics[m].etag = 0 /\ nics'[m].etag # 0
       /\ DeletesNet(op[r]) /\ op[r].net = nics'[m].net /\ result[r] = "ok"
       => \E q \in Requests : /\ op[q].kind = "createNet" /\ op[q].net = nics'[m].net
                              /\ pc[q] # "idle"]_vars
-----------------------------------------------------------------------------
(* What a request that runs alone knows between two calls.                 *)

Alone == Serial => \A p, q \in Requests : InProgress(p) /\ InProgress(q) => p = q

At(r, kinds, labels) == op[r].kind \in kinds /\ pc[r] \in labels

\* The operations that make a call.
KindFacts(r) ==
  /\ pc[r] = "tagUnused" => Renames(op[r]) \/ op[r].kind = "deleteTag"
  /\ pc[r] = "newName" => Renames(op[r]) \/ op[r].kind = "createTag"
  /\ pc[r] \in {"tagMtu", "oldTag"} => op[r].kind = "updateTag"
  /\ pc[r] = "netTag" => op[r].kind \in {"createNet", "updateNet"} /\ op[r].mtu # 0
  /\ pc[r] = "net" => op[r].kind \in {"updateNet", "deleteNet"}
  /\ pc[r] = "netAgain" => op[r].kind = "updateNet" /\ op[r].mtu # 0
  /\ pc[r] \in {"netPools", "netNics", "dropBucket"} => op[r].kind = "deleteNet"
  /\ pc[r] = "newMembers" => op[r].kind \in {"createPool", "updatePool"}
  /\ pc[r] \in {"pool", "oldMembers"} => op[r].kind \in {"updatePool", "deletePool"}
  /\ pc[r] \in {"nicNet", "nicIp"} => op[r].kind \in {"createNic", "deleteNic"}
  /\ pc[r] = "nic" => op[r].kind = "deleteNic"

TagFacts(r) ==
  /\ /\ Renames(op[r]) \/ op[r].kind = "deleteTag"
     /\ pc[r] \in {"newName", "tagMtu", "oldTag", "commit"}
     => Unused(op[r].tag)
  /\ At(r, {"updateTag"}, {"oldTag", "commit"}) /\ op[r].mtu # 0
     => \A n \in NetsOf(op[r].tag) : nets[n].mtu <= op[r].mtu
  /\ At(r, {"updateTag"}, {"commit"}) => TagThere(op[r].tag) /\ tagSeen[r] = tags[op[r].tag]

NetFacts(r) ==
  /\ At(r, {"createNet"}, {"netTag", "commit"}) => under[r] = op[r].tag
  /\ At(r, {"updateNet"}, {"netAgain", "netTag", "commit"})
     => NetThere(op[r].net) /\ netSeen[r] = nets[op[r].net]
  /\ At(r, {"updateNet"}, {"netTag", "commit"}) /\ op[r].mtu # 0
     => under[r] = nets[op[r].net].tag
  /\ At(r, {"createNet", "updateNet"}, {"commit"}) /\ op[r].mtu # 0
     => TagThere(under[r]) /\ MtuFits(under[r], op[r].mtu)
  /\ At(r, {"deleteNet"}, {"netNics", "commit", "dropBucket"}) => PoolsOf(op[r].net) = {}
  /\ At(r, {"deleteNet"}, {"commit", "dropBucket"}) => NicsOf(op[r].net) = {}

PoolFacts(r) ==
  /\ At(r, {"createPool", "updatePool"}, {"newMembers"})
     => \A n \in op[r].members \ left[r] : NetThere(n)
  /\ At(r, {"createPool", "updatePool"}, {"commit"})
     => \A n \in op[r].members : NetThere(n)

NicFacts(r) == At(r, {"createNic"}, {"nicIp", "commit"}) => NetThere(op[r].net)

Facts(r) == KindFacts(r) /\ TagFacts(r) /\ NetFacts(r) /\ PoolFacts(r) /\ NicFacts(r)

\* The inductive invariant when requests do not overlap, whether or not they
\* are cut short: what a request has checked still holds when it writes.
LifeInv ==
  /\ TypeOK /\ NetsResolve /\ PoolsResolve /\ NicsResolve
  /\ Alone /\ \A r \in Requests : Facts(r)
=============================================================================
