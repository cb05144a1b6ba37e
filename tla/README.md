# A verification project for NAPI (sdc-napi)

NAPI is the Networking API of Triton: it keeps networks, NIC tags, pools,
fabrics, aggregations, IP addresses and NICs in Moray buckets, and hands out
addresses and MACs to NICs. Several napi processes, and many requests in each,
work on one Moray at once. There are no locks: a request reads rows one by one,
decides, and commits one batch guarded by the etags of what it read.

The modules here are TLA+ translations of that code, model-checked with TLC on
small instances; their main theorems are proved with TLAPS for every instance.

## Inventory of the system

| Part | State it keeps | Operations | Hard behaviour | What makes it correct |
|---|---|---|---|---|
| NICs (`lib/models/nic`) | rows of `napi_nics`, one lock order for all batches; per request: the NIC and IP read, the MAC chosen, the counts of attempts | POST, PUT, DELETE of a NIC | races between requests; retry after conflicts, errors and lost replies; unconditional deletes | no address on two NICs, none lost, never-used addresses first, an answer to every request |
| IP addresses (`lib/models/ip`) | rows of `napi_ips_<network>`; `ProvisionInfo` of a request (queue, tries) | selection by gap, then by freed record; PUT of an IP (free, unassign, assign, reserve) | selection from stale lists; admin overrides of NICs' addresses | a subnet is full only when it is; the record names the NIC's owner |
| Networks (`lib/models/network.js`) | rows of `napi_networks`, one IP bucket each, placeholders around the provision range | create (row, bucket, records, one after the other), update, delete | partial failures, check-then-act against NICs, pools and tags, updates without etag | the range keeps its placeholders, referential integrity |
| Pools (`lib/models/network-pool.js`, `lib/util/intersect.js`) | rows of `napi_network_pools` | create, update, delete; provisioning over a pool | deletion of a member network; full networks and intersections | a member exists; a pool is full only if every network is |
| NIC tags (`lib/models/nic-tag.js`) | rows of `napi_nic_tags` | create, rename, MTU, delete | check-then-act against networks | a network's tag exists, its MTU fits |
| Fabrics, VLANs, portolan (`lib/models/fabric.js`, `vlan.js`, `nic/obj.js`) | `napi_vlans`, portolan buckets, `gateway_provisioned` | VLAN create, update, delete; overlay mappings and vl2/vl3 events of a NIC's batch | events must be those of the batch that won | overlay mappings agree with the NICs |
| Aggregations (`lib/models/aggregation.js`) | `napi_aggregations` | create, update, delete | several reads of NICs before a put; overlapping updates | the links are NICs of one server, no update undoes another |
| Startup (`lib/napi.js`, `lib/init.js`) | the state of the process | moray, buckets, migrations, publisher, initial data, running, stopping | failure and retry in each state | only legal transitions, serving only when ready |
| Migration (`lib/migrate.js`) | versions of records and buckets | batches of old records | restart in the middle, requests meanwhile | all records reach the version, no update is lost |
| Subnet allocation (`lib/util/autoalloc.js`, `subnet-streams.js`) | none (pure, over a sorted stream) | next free subnet in the private blocks | different prefixes, borders of blocks; two requests allocate at once | the result overlaps nothing, exhausted only when full |
| Changefeed (in the models) | the publisher's bucket | publish after the commit | a stop between the two | consumers learn of each change |

Parts interact through Moray only, and by calls inside one process: a NIC
request calls the network, pool and IP models for validation, `nicAndIP` runs
the provisioners, and `commitBatch` sorts and sends the batch. PUT of a network
rewrites the row and the placeholders that `ip/provision.js` searches between.

`PROJECT.json` lists the components with what is modelled of each, and under
`hazards` what can go wrong, at its line, with the property that would notice. A
hazard without a property is one that the code does not exclude (then its note
says which property fails, and the findings below how to see it) or one in the plan.

## Plan

Done:

1. `NicProvision`: NICs and addresses of one network, with `AddressLedger` as
   its abstract specification, and their proofs.
2. `NetworkRange`: moving the provision range, and its proofs.
3. `NetworkLifecycle`: networks with their NIC tags, pools and NICs; the
   non-atomic creation and deletion, with crashes; check-then-act everywhere.
4. `Migration` and `NapiStartup`, composed: the state machine of `napi.js`, the
   batches of `migrate.js`, the initial data of `init.js`, crash and restart,
   and their proofs.
5. `BatchLocks`: row locks in the order a batch takes them, with the update by
   filter of a primary NIC; one primary NIC per VM, and which deadlocks there are.
6. `SubnetAlloc`, a pure algorithm, and `Fabrics`, which uses it.
7. `Aggregations`, with the changefeed and its consumer.
8. Proofs of the properties of all seven modules, but for liveness.

To do, in this order:

9. `PoolProvision`: `NetworkPoolProvision`, intersections, full networks.
10. Overlay mappings, vl2/vl3 events and `gateway_provisioned` in the batches of
    `NicProvision`, as far as the batches of portolan can be known from here.
11. `NicProvision` with a range that moves (composition of 1 and 2).

## Modules

### NicProvision

Models `lib/models/nic` and `lib/models/ip` for one logical network. One action
is one Moray round trip together with the code between its reply and the next
call. A request goes `idle -> readNic -> readOld -> readIp -> choose -> mac ->
commit -> done`, leaving out the reads its kind does not make.

| Variables | Code |
|---|---|
| `nics`, `ips` | the buckets `napi_nics` and `napi_ips_<network>`; an absent row has etag 0, which is napi's `etag: null` |
| `clock` | batches committed; Moray's etag and `_mtime` of a row are the number of the batch that wrote it |
| `op`, `pc`, `result` | the HTTP request, where it is, its answer |
| `nicSeen`, `old` | `req.nic` / `opts.existingNic` and its IP, two separate reads |
| `pick` | `validated._ip` or the IP a provisioner selected, with the etag it will commit |
| `queue`, `noGap`, `tries` | `ProvisionInfo` |
| `mac`, `macTries`, `retries`, `err` | `validated.mac`, `opts.macTries`, `retries` and `opts.err` of `nicAndIP` |
| `touched`, `commits` | history for the properties: addresses that were written without regard to the NIC holding them (PUT of the IP, unconditional delete), batches per request |

Actions: `Start`, `ReadNic`, `ReadOld`, `ReadIp` (endpoint and validation);
`KeepIp`, `IpTaken`, `OutOfTries`, `NextQueued`, `FindGap`, `NoGap`, `FindFreed`,
`SubnetFull` (the provisioners); `MacSupplied`, `RandomMac` (`nicFn`);
`CommitNic`, `ConflictNic`, `FailNic`, `LoseNic` (`commitBatch` and the retry of
`nicAndIP`); `CommitDelete`, `FailDelete`; `CommitIp`, `FailIp`.

Assumed of Moray: a batch is atomic, checks each etag it carries, and its error
names the first entry that conflicts; the gap query, which has `LIMIT 1` without
an order, returns the first gap (the window function sorts the rows). When the
IP bucket holds numbers the query does not cap the length of a gap: take
`GapLength` as large as the range.

`AddressLedger` is what it all promises: NICs take, change and return addresses
one at a time, and an address belongs to a VM exactly while a NIC of it holds it.

### NetworkRange

Models `provisionRangeUpdates` and `updateNetwork`: the placeholder of each end
that moves is read, then its new place (the two ends interleave freely), then
one batch is committed. A record is `absent`, `blank` (a placeholder, or an
address that was freed: no code can tell them apart) or `held`. NICs `Take` and
`GiveBack` addresses in between, inside the range or not. A batch that both
creates and deletes one record is taken as refused. Constant `Jumps` says whether
a range may move past its own end, one past the other (see the findings).

### NetworkLifecycle

Models the requests on NIC tags, networks, pools and NICs as far as they refer
to one another: a network names its tag and must respect its MTU, a pool lists
networks, a NIC is on a network, and each network has an IP bucket. Moray checks
none of this. Each read, list, write, and bucket operation is an action; the
program counter is the call a request makes next.

| Variables | Code |
|---|---|
| `tags`, `nets`, `pools`, `nics` | the rows of the four buckets, with etag 0 for an absent row |
| `buckets`, `gws` | `napi_ips_<network>`: absent, just made, or with the records of `_createIPs`; and in it the record of the gateway's address |
| `tagSeen`, `netSeen`, `poolSeen`, `nicSeen`, `gwSeen` | `rec` in `_getOld`, `req._network`, `existingPool`, `existingNic` and its IP |
| `under` | the tag whose MTU `validateNicTagMTU` compares |
| `left` | the members of a pool whose GET has not come back |
| `gone`, `clock` | history; the number of writes, from which etags are made |

A creation of a network is `ReadNetTag`, `CommitCreateNet`, `MakeBucket`,
`FillBucket`; its deletion `ReadNet`, `ListPools` (not in the fabric endpoint),
`ListNics`, `CommitDeleteNet`, `DropBucket`. A rename of a tag is `TagUnused`,
`NewName`, possibly `TagMtu`, `OldTag`, `CommitUpdateTag`. Pools read their old
members, then their new ones, in any order. `Conflict` is a write that Moray
refuses, and with `MayStop` a request may end before any call (`Stop`).

Abstractions. NICs have one address, the gateway's or another; how addresses are
chosen is `NicProvision`'s subject, so two NICs here never want the same other
address and those have no record. A VM has one NIC. A NIC's batch on a bucket
that is gone is retried until the retries run out: the request either commits
once the bucket is back, or is refused. A batch's delete of a row that is absent
is refused. A request that reuses a network's uuid is possible (the uuid may be
given). Updates of a network give an MTU, or (MTU 0) change only other fields.

### Migration and NapiStartup

`Migration` models `lib/migrate.js`: for each bucket in turn `updateBucket` (get,
then put), `reindex` until a call processes nothing, and `updateRecords`, which lists
a page of rows of another version and puts them in one batch with their etags,
again and again until nothing is listed. `NapiStartup` composes it with the state
machine of `lib/napi.js`, `models.init` and `lib/init.js`. Several instances do all
of this on one store, and one that runs serves requests, which write rows.

| Variables | Code |
|---|---|
| `store`, `rows` | the buckets with their schema, and their rows: version, whether the columns the schema added are filled, content, etag |
| `mig` | where a migration is: bucket, call, and the rows of the page it has listed |
| `phase` | the state of the machine; `down` when there is no process |
| `init`, `load` | what `initBucket` has done of each bucket, `loadInitialData` of each tag and network |
| `tags`, `nets` | the initial tags, and which of the three writes of `createNetwork` are done of each initial network |
| `faults` | bound: calls that fail, commit and lose their reply, and stops, which are requested or crashes |

A row that is not indexed has no value in a new column, and the search for rows of
an older version finds it (`Unmigrated`): that and the retry on a conflict are what
makes two concurrent migrations, and one interrupted anywhere, end well. The
state `init.migration` that a failed migration asks for does not exist, and
`state_failed` asserts an error that a failed publisher stored under another name:
both are the end of the process here (`MigrationsFailed`, `StartPublisher`). SMF
starts it again. Buckets without a version are left out, and the connection to
Moray once made is taken to reconnect by itself.

### BatchLocks

Models a NIC's batch inside the database: `commitBatch` sorts the entries, and each
takes the lock of its row, to be kept until the batch ends. The entry of a primary NIC
is followed by an update by filter of all other NICs of its owner, which locks
them in whatever order it finds them (`FindOthers`, `TakeOther`) and looks again at a
row for which it had to wait. `Entries` is the batch as sorted: the entry with k others
before it comes at place k + 1, by counting and not by an algorithm for sorting. The database ends a deadlock by aborting one of its
batches (`Detect`), and `nicAndIP` builds its batch again from the NIC it read
(`Retry`). `stale` holds the requests whose NIC has changed since: it stands for the etags.

Assumed: read committed isolation, a row that is inserted is locked but not
seen by others until the commit, and that Moray runs the entries of a batch in order.

### Aggregations

Models `lib/models/aggregation.js` and its endpoint. A request reads the
aggregation (`Get`), then each NIC it names in any order (`ReadNic`), puts or deletes
the row, and publishes (`Publish`). NIC requests change owners meanwhile
(`MoveNic`), and a consumer reads the aggregation whose id an event has (`Deliver`). An
aggregation's id is made of the server's and a name; a row stays under the key
it was created with, while events and answers name the id of its present owner.
`unheard` is the history of announcements that were lost. Etags are contents
here: a row that has become the same again passes for unchanged, which only
allows more.

### SubnetAlloc and Fabrics

`SubnetAlloc` holds `lib/util/autoalloc.js` and the two streams of
`subnet-streams.js` as operators: an address is a number, and a subnet its first
address and its size. `FirstAvailable` is what `createNetwork` reads from the stream.

`Fabrics` models the VLAN and network endpoints of fabrics: `GetFabric` and `PutVlan`
(which makes the fabric with the first VLAN, in one batch), `GetVlan`,
`UpdateVlan`, `ListNets` and `DelVlan`, and for networks `Validate` or `Allocate`, then
`PutNet`, or `DelNet`. What follows in a creation or deletion, and the checks for NICs
and pools, are `NetworkLifecycle`'s. `Listed` is the sorted list of subnets the stream
reads. `overtaken` is the history of requests during which another one added a
network or removed a VLAN, and of those that started when such a race had already
left an overlap: the streams walk a list of subnets that they take to be disjoint, and
may choose one in use otherwise.

### Modules for the checks and proofs

The `MC` modules name the requests and records of the instances.
`NicProvision_proofs`, `NicLedger_proofs`, `NetworkRange_proofs`,
`NetworkLifecycle_proofs`, `NapiStartup_proofs`, `Aggregations_proofs`,
`BatchLocks_proofs` and `Fabrics_proofs` hold the proofs. Operators called "Mutant" in
the models are slips a programmer could make (a missing etag, a limit off by one); nothing
uses them, they are there to confirm that a property fails with the slip.

## Runs

| Run | Shows | Bounds |
|---|---|---|
| `NicRace` | creates (any or given address and MAC), moves, owner changes, joins and conditional deletes race: `UniqueAddresses`, `NicsOwnTheirAddresses`, `NoLeakedAddress`, `FullMeansFull`, `GapsBeforeFreed`, `DeleteFreesAddress`, and each batch is a step of `AddressLedger` | 3 requests, 2 addresses in the range, 3 MACs, 2 VMs |
| `NicFaults` | requests of every kind, with unconditional deletes, PUTs of IPs, and batches that fail, or commit and lose their reply: the proofs' invariant `IInv` (which includes the types and the invariants of `NicRace`), no request on a NIC frees an address that is not its NIC's by then (`FreesItsOwn`), and every started request is answered | 2 requests, 1 retry, no symmetry |
| `NicCompete` | creates that race for exactly as many addresses are all served | 3 requests, 3 addresses, 3 MACs |
| `RangeMoves` | the range keeps its placeholders, the search misses no address, records in the range stay | 1 update at a time, repeatedly; subnet of 5 addresses |
| `RangeHeld` | finding: a placeholder's address is taken by a NIC and its record deleted | 1 update |
| `LifeSerial` | requests that do not overlap, each cut short anywhere: tags, networks, pools and NICs refer to what exists, the gateway's record names its holder, only an unfinished creation or deletion leaves a network without its bucket or a bucket without its network | 2 requests in a row, 2 tags, 2 MTUs, 1 network, 1 pool, 2 NICs, from every consistent store |
| `LifeOverlap` | requests overlap: creations, renames and MTU changes of tags lose no tag and duplicate none; no NIC comes onto a network after its deletion, also through the fabric endpoint, was answered, unless it is created again | 3 requests, 3 tags, 1 MTU, 1 network, 1 NIC |
| `Startup` | instances start, migrate, load, fail, crash and restart side by side: none serves before all rows are migrated and the initial data is there (`ReadyMeansMigrated`, `ReadyMeansLoaded`), no migration changes a record's content or undoes a delete, and each instance runs in the end | 2 instances, 2 buckets, 2 rows each, pages of 1, 1 initial network, 1 fault, 2 writes of a row by requests |
| `Aggr` | overlapping creates, updates and deletes: no update undoes another one or a delete, and what a consumer knows is right or about to be put right, but for announcements that were lost | 2 requests, repeatedly; 2 servers, 3 NICs of which 1 moves, 1 fault |
| `Locks` | batches that swap addresses or make NICs of one VM primary: only two batches for primary NICs of one VM deadlock, the VM keeps one primary NIC, all requests end | 3 requests, repeatedly; 3 NICs, 2 VMs |
| `Fabrics` | VLANs and networks come and go: one virtual network per account, no overlap of subnets and no network without VLAN by a request that was not overtaken, `SubnetsExhausted` only when no subnet is free, deleted VLANs stay deleted | 2 requests, repeatedly; 2 accounts, 2 VLANs, 3 networks, 2 blocks with 4 and 2 subnets of the prefix |
| `SubnetFits` | finding: the allocated subnet overlaps one that is smaller than the prefix | 1 request, 1 account |

Why these bounds are enough. A range of two addresses with three requests is
the smallest in which a request finds its queue stale, its second choice taken
too, and the range full; the third request can free an address meanwhile. Three
MACs let two creates collide and the search wrap around past the last one. The
limits on attempts (100, 50 and 150 in the code) are 1 or 2 so that they
are reached; the theorems hold for any value of them. `NicCompete` has limits
above the number of competitors, as the code does. Requests are one shot:
`NicRace` starts from a NIC with an address and from one without. Requests
are interchangeable, hence the symmetry; `NicFaults` checks liveness and uses
none. It also has the actions that the constants of `NicRace` leave out: faults,
unconditional deletes, PUTs of an IP.

`LifeSerial` starts from every store in which references resolve, so one request is
already an inductive step; the second meets what a stopped one left behind, and
the proofs cover any number. Overlapping requests break references (see below),
which is why `LifeOverlap` asks only what the code does guarantee then. Three tags
and three requests are needed for a rename whose old row was renamed and made
again: there only the unique index of uuids helps. Two MTUs are the least and the
greatest; one network suffices as no check compares two.

`Startup` starts from every store of an older napi. Pages of one row, with two rows,
make a bucket take two batches, and two instances the pages overlap; one fault is
a lost reply, a failed call or a crash at any place, and what it leaves is what the
other instance or the restarted one meets; the proofs cover any number. In `Locks`
no request is retried more than once (`NicRetries` 0), which is when a conflict
or deadlock ends it. `Fabrics` has client subnets of one, two and four times the
prefix, at borders of blocks and inside them: with three networks there are two gaps.
The addresses are renumbered, so that the blocks keep an end that is not next
to the beginning of the following block.

Fairness. `NicFaults` assumes weak fairness of each started request's next
step: node runs a callback that is due, and the Moray client calls back with a
result or an error. Nothing is assumed of requests that are not started, nor
that a batch ever succeeds: the counts of attempts alone make the request end.
`Startup` assumes weak fairness of what an instance does by itself: calls come
back with a result or an error, timers fire, SMF restarts a process that is gone;
nothing about the requests it serves, stops or crashes, which the number of
faults bounds. `Locks` assumes strong fairness of each request's steps: a
row for which a batch waits is locked and free again and again while others run,
and the database serves those that wait in the order they came.

## Findings

* `RangeHeld`: a PUT of a network deletes the old placeholder of its range without an
  etag (the one it means to send, `oldRec.params._etag`, is never set), and with
  it the record of a NIC that took the address meanwhile.
* `SubnetFits`: a subnet allocated after a gap may overlap an existing one that is
  smaller than the prefix and begins inside it. Nothing notices: the overlap query
  is for subnets that were given.

What the properties assume of the requests is stated by constants and by the
requests the instances name. Each assumption is needed; changing it in a .cfg or
an `MC` module shows a counterexample. Most are known limits of the design.

* `Delete(1, FALSE)` added to `MCRaceOps`: an unconditional delete carries no etag
  (`nic/obj.js:341`) and may remove a NIC that has just been given an address, which then
  belongs to a VM without a NIC (`DeleteFreesAddress`, which docs/index.md:1317 promises).
* `FreesItsOwn` is about addresses that are freed. A NIC whose address a PUT of the IP has
  given to another VM still names it, and an update that keeps the address writes the
  record with the NIC's own VM again: `nic/update.js:251-255` looks only at addresses that
  are new to the NIC. With `ips'[a].belongs # ips[a].belongs` for the last conjunct
  of its hypothesis the property fails in `NicFaults`.
* A create whose batch commits and whose reply is lost is retried as if nothing was
  written (`nic/provision.js:691-699`): one POST then leaves two NICs, and the client
  learns of the second only. `NicFaults` runs through these states, in which its
  properties hold.
* `Jumps = TRUE` in `RangeMoves.cfg`: a range that moves right past its own end loses
  a placeholder that the search needs (`Anchored`; `ip/provision.js:121-127`), as one
  half of `provisionRangeUpdates` deletes what the other half counts on.
* `Updates` with two members in `RangeMoves.cfg`: two PUTs of a network, and the
  range of one meets the placeholders of the other (`Anchored` fails).
* `DeleteFabricNet(n1)` for `DeleteNet(n1)` in the requests of `LifeSerial`: the fabric
  endpoint does not look at pools, as `endpoints/networks/index.js:32` does; the pool
  can then be neither read nor changed nor deleted (`PoolsResolve`).
* `Serial = FALSE` in `LifeSerial.cfg`: a check reads rows that the write it
  protects does not depend on. A tag's MTU is lowered while a network is created
  (`NetsResolve`), a NIC is created while its network is deleted (`NicsResolve`;
  such a NIC can no longer be read or deleted), a pool while a network of it is
  (`PoolsResolve`), an update, whose put has no etag, brings back the row of a
  network that was deleted after it was read (`NetsAreWhole`), and a NIC that takes
  the gateway's address before `createNetwork` writes its record loses it
  (`GatewayNamesHolder`).
* `DeleteTag(t1)` added to `MCRenameOps`: a tag is deleted and made anew after a
  rename has read it; the rename then removes the new tag and puts the deleted
  one under the new name (`TagsAreKept`).
* A second request of `Locks` that brings a new primary NIC to v1: the two inserts do
  not see each other, and the VM has two primary NICs (`OnePrimaryNic`;
  docs/index.md:1203). The deadlocks that remain, between two primary NICs of one VM,
  are those the comment at `nic/common.js:44-46` means to exclude; a retry ends them.
* An update that gives an aggregation links of another server keeps the key of the
  first: `Update(s1, {m2}, "off", TRUE)` does so in `Aggr`, and a create for the
  second server under the same name then makes two aggregations of one owner
  and name (`util/constants.js:20` has the message for it). A DELETE with If-Match
  is checked at the read only, and `aggregation.js:541` deletes whatever is there.
* A failed migration is not retried, although `napi.js:357` says so: the process
  ends, and SMF starts it again. `EventuallyRuns` holds because it does.
* An instance takes an initial network of which only the row was written for loaded:
  `ReadyMeansLoaded` says that the row exists, not that the network has addresses.
* `0` added to `VnetIds` of `Fabrics.cfg`: the constructor of a fabric takes vnet id 0
  for none and makes up another at each read, so that VLANs of one account get different
  ids (`SharedVnet`; docs/index.md:736).
* `SoundUnlessOvertaken` excludes requests that were overtaken: two creations that
  both checked or allocated a subnet before either put its row overlap, and a
  VLAN is deleted under a network that is being created.
* When an account's first two VLANs are created at once, the batch of the second is
  refused as if its own VLAN existed (`models/vlan.js:244`).

## Proofs

Everything is proved from the assumptions the modules state on their constants
(order of the addresses, distinct owners, positive limits, well-formed requests,
an initial store with no address on two NICs).

`NicProvision_proofs` proves `Spec => []IInv` and from it `TypeOK`,
`UniqueAddresses`, `NicsOwnTheirAddresses` and `NoLeakedAddress`. None of the
three is inductive: each needs the others (`AddressesAgree`), and all need to
know what a request in progress believes. The heart of `IInv` is
that an etag determines its row: a snapshot whose etag is still that of the row
tells the truth about it (`TrueSnap`, `SeenNicIsTrue`), since every commit gives
what it writes a new number and no number comes from the future
(`StoreIsClean`). `PickIsAllowed` says an address is only wanted if it was
available when read, or is the NIC's own, and `Progress` how far each kind of
request gets. With these, a batch whose etags fit acts as if all its rows had been
read at the instant of the commit, and keeps `AddressesAgree`. There is one lemma
per action, and one for all the actions that only change the request.

From `IInv` follows `FreesItsOwn` too (`NobodyElsesFreed`), for any number of PUTs and
requests: a batch that frees an address carries the etag of its record, so the record still
names the owner that was compared with the NIC's, and the etag of the NIC, which
therefore still has the address. An unconditional delete lacks the second.

The same module proves `FullMeansFull` (`FullIsFull`) and `GapsBeforeFreed`
(`GapsGoFirst`), without further hypotheses. A request searches gaps at one moment and
freed records at another, so what it found must stay true meanwhile: no batch
removes a record, hence a range that was used up remains so. `GapInv` adds to
`IInv` the records beside the range, between which the query sees every gap (`Anchors`:
the first unused address, if there is one, is the end of a gap), and for each
request that it looks among records only when all of the range had one
(`SearchInv`). TLC checked `GapInv` on the instances of `NicRace` and `NicFaults` first.

`CompetitorsServed` states `CompetitorsFindAddresses` for any number of creates
(`Competition`): as many addresses are free at the start as there are creates, Moray does not
fail, `IpRetries` is at least their number, and `NicRetries` exceeds it by
`MacRetries` + 1; with the limits of the code, up to 99 creates at once. `RaceInv` counts:
of the addresses a request has tried, all but the one it tries now were taken, each by
another request that was served (`TriedAre`), so `tries` is bounded by the number served;
`retries` by that, by the MACs tried, by the one search without a gap, and by
one more attempt with the stale address, which `runProvisions` keeps after that search
because its error is no conflict. An address is left for each request that is not
served (`Shares`), so the range is never found full.

`NicLedger_proofs` proves `Spec => ImplementsLedger` if no PUT of an IP overrides a
NIC and every delete is conditional (`NoOverride`): `touched` is then always
empty and each commit maps to one `Put` or `Remove`, every other step to a stutter.
Under the same hypothesis it proves `DeleteFreesAddress`: the etag of the NIC's
row makes the two reads before a delete one.

`NetworkRange_proofs` proves, for one update at a time that does not jump
(`OneUpdate`), that the placeholders stay (`AlwaysAnchored`), that the gap search
therefore finds the lowest unused address (`SearchIsComplete`), and that no record
inside the range is removed (`RecordsStay`). The invariant `RangeInv` adds that
the update's view of the range is current and that for each end it has dealt
with, the new placeholder exists or is in the batch. A range that jumps past its
own end must be excluded, as said above.

`NetworkLifecycle_proofs` proves, for requests that do not overlap and no deletion
through the fabric endpoint (`OneAtATime`), that the tag of each network exists
and allows its MTU, that the networks of each pool exist, and that the network
of each NIC exists with its bucket, wherever requests are cut short. None of these is
inductive: a write is right because of what was read some calls earlier. `LifeInv`
therefore adds, for each kind of request and each call (`TagFacts`, `NetFacts`,
`PoolFacts`, `NicFacts`), what the reads so far have established, and that at most
one request is in progress, which is what keeps it true. The three
references need each other's facts too: dropping a bucket is harmless because no
NIC was found before the row was deleted, and a request that starts after a stop
between row and bucket can put no NIC there, for it does not find the row.

`HomeInv` adds what `GatewayNamesHolder` and `NetsAreWhole` need under the same
hypothesis. A network is `Settled`: whole, or a request is between two of its
three writes (`Midway`), or one ended there (`CutShort`). While it is midway its creator
knows that no NIC is on it, so that its records overwrite nobody's; and a NIC's request
that comes to its write knows that the gateway's record is as it has read it.

Three theorems of the module hold however requests overlap. `TypeCorrect` needs
which call an operation can make (`CallInv`). `NoNicAfterDelete`: a network whose
deletion was answered has no bucket, and as only `MakeBucket` makes one, some creation of
the same network has started; a NIC's batch needs the bucket (`DeletedInv`).
`TagsAreKept`, if no tag is deleted (`TagsStay`): each uuid is at one name, and at the
moment of its write an update knows that the tag it has read is still somewhere, and
unchanged if the etag is (`TagsInv`). The unique index then tells where: a rename that
fits moves the tag it has read. With a deletion this fails, as said above.

`NapiStartup_proofs` proves, for any number of instances, buckets, rows, page sizes
and faults, that an instance that runs finds all buckets migrated
(`ServesMigrated`) and all initial data (`ServesLoaded`), and that a migration keeps
what records say (`RecordsKept`). `StartInv` has three parts beside the types.
`Progress`: the buckets before the one an instance migrates, and all of them once it
has finished, are `Ready`; it stays true because nothing any instance does makes
a ready bucket unready (`ReadyStays`, over `StepKeeps`): a schema that is current is never
put back, and requests write rows of the current version. `Listings`: a row
whose etag is still the listed one has the listed content, since etags only
grow. `Loadings`: tags and networks an instance has found or made exist. The last
theorem follows from `Listings` for the one call that writes rows of a page, and
from the shape of the others.

`Aggregations_proofs` proves all properties of `Aggr`, and that the links of an
aggregation are NICs of its server unless moved since (`LinksTogether`), for any number of
requests, servers, NICs and faults: a request knows the owner each NIC had when it was read, all
of them one server; what it puts carries the etag of the row it read; and a
consumer is wrong about an aggregation only while some request has an event of it to
publish, an event is on its way, or one was lost.

`BatchLocks_proofs` proves the types (every row a batch holds is of an entry it has run or
of a NIC it takes the flag from, and no two batches hold one), `DeadlocksArePrimaries`
and `OnePrimaryNic`. A batch that holds rows waits for a row after all of them, unless
it waits for a NIC of its VM to take the flag from. Suppose batches wait for one another:
of the rows awaited that are not NICs, each is held by a batch that waits for
a later one, and as they are finitely many, there are none (`LastRow`). So all wait for NICs,
hold NICs, and are batches for primary NICs; as no NIC can be found by two VMs
(`NicsStay`), one that is waited for is of the VM of both. The order of a batch is its rows' ranks, the number of rows before
each, so that no induction over sequences is needed. The hypotheses: `NicsStay` (no NIC
changes hands between two VMs whose primary NIC is asked for), and for the second
`UpdatesStay` and `OneCreator` (updates leave NICs in their VM; one request at a time
creates NICs of a VM, as two inserts do not find each other). `FlagInv` says of
two batches of one VM that have both looked that one has found the other's NIC
(`Pairs`), which then waits for the other's row and sees its result.

`Fabrics_proofs` proves all properties of `Fabrics` for any accounts, blocks, prefix and
subnets. `VlansStayDeleted` follows from the etag. `SharedVnet` needs that what a request
has read is the account's virtual network, if that has one (`ReadsShared`), and that
0 is no id (`randomVnetID` draws it once in 2^24; see the findings). The allocation is
proved for blocks that are aligned and disjoint, over a list that is disjoint and sorted
(`Listed`, by counting the subnets before each): every step of the streams from a
subnet ends in the gap after it, if there is one, or at the next subnet, and never
leaves a free place behind. Hence `ChoicesAreFree`, `ExhaustionIsReal`, and with what an
unovertaken request still knows at its write (`SoundInv`: `Checked`, `Clear`) also
`ChecksSuffice`. All three assume `LargeSubnets`: no client names a subnet
smaller than the prefix. `SubnetFits` is the counterexample without it.

Model-checked only, out of the prover's reach: liveness (`EveryRequestAnswered`,
`EventuallyRuns`, `EveryBatchEnds`). Every other property of a passing run is stated by a
theorem. `LifeInv`, `HomeInv`, `GapInv`, `RaceInv` and the other inductive invariants are no
properties of the runs, `IInv` excepted; TLC checked each on the instance of its run, where the
hypotheses of the theorems hold too.

## Not modelled

The `reserved` parameter of NIC requests, and PUTs of an IP that combine fields;
fields that guard nothing (antispoof, state, model, nic_tag lists); validation of
formats; listing, search, ping and the command line tools, which keep no state. In
`NetworkRange`, updates of the gateway and the resolvers, and the overlap check of
ranges against other networks. In `NetworkLifecycle`, owners and families of pools
and names of networks. In `Fabrics`, the names of networks are their keys, and a
network does not leave its VLAN. Overlay mappings and vl2/vl3 events, whose batches
come from the portolan library, which is not in this repository; `gateway_provisioned`;
the changefeed of NICs, networks and tags. Provisioning over pools, and a range
that moves while NICs are provisioned, are in the plan.
