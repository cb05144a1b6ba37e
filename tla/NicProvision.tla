---------------------------- MODULE NicProvision ----------------------------
(***************************************************************************)
(* NICs and the IP addresses they hold on one logical network.             *)
(*                                                                         *)
(* Several API requests (POST, PUT and DELETE of a NIC, PUT of an IP) run  *)
(* concurrently, in one napi process or in several, against the Moray      *)
(* buckets napi_nics and napi_ips_<network>.  A request reads rows one at  *)
(* a time, decides from what it read, and commits everything it writes as  *)
(* one Moray batch, guarded by the etags of the rows it read.  A batch     *)
(* that loses a race is retried with other addresses (nicAndIP).           *)
(*                                                                         *)
(* One action is one Moray round trip with the code that runs between its  *)
(* reply and the next one.  A request is one shot: it starts in "idle" and *)
(* ends in "done" with a result.                                           *)
(***************************************************************************)
EXTENDS Integers, Sequences, FiniteSets

CONSTANTS
  Requests,      \* identities of the API requests
  VMs,           \* values of belongs_to_uuid that NICs carry
  NoOne,         \* no belongs_to_uuid
  Other,         \* the admin's "other" records (gateways, resolvers)
  SubnetFirst,   \* first address of the subnet, at least 1
  ProvMin,       \* provision_start_ip
  ProvMax,       \* provision_end_ip
  SubnetLast,    \* last address of the subnet
  MaxMac,        \* MAC addresses are 1 .. MaxMac (all under one OUI)
  GapLength,     \* IP_PROVISION_GAP_LENGTH
  FreedLimit,    \* the limit on freed records fetched at once
  IpRetries,     \* IP_PROVISION_RETRIES
  MacRetries,    \* MAC_RETRIES
  NicRetries,    \* NIC_PROVISION_RETRIES
  Ops,           \* the operations a request may ask for
  Faults,        \* subset of {"error", "lost"}: what Moray may do to a batch
  StartNics,     \* possible initial NICs: [Macs -> [vm, ip]], vm = NoOne: none
  StartOther     \* possible initial sets of addresses with an "other" record

NoAddr == 0
Addrs     == SubnetFirst .. SubnetLast
ProvRange == ProvMin .. ProvMax
Macs      == 1 .. MaxMac
AnyMac    == 0          \* op.mac of a create that leaves the MAC to napi

OpType ==
  [ kind : {"create", "update", "delete", "free", "unassign", "assign",
            "reserve"},
    mac  : Macs \cup {AnyMac},
    vm   : VMs \cup {NoOne},          \* belongs_to_uuid in the request
    addr : Addrs \cup {NoAddr},       \* ip in the request
    next : BOOLEAN,                   \* network_uuid without ip
    cond : BOOLEAN ]                  \* an If-Match header came with it

IpPut == {"free", "unassign", "assign", "reserve"}

WellFormed(o) ==
  /\ o.kind \in IpPut => o.addr # NoAddr
  /\ o.kind \in {"create", "assign"} => o.vm # NoOne
  /\ o.kind \in {"update", "delete"} => o.mac # AnyMac
  /\ o.kind = "delete" => o.addr = NoAddr /\ ~o.next

NicStart == [vm : VMs \cup {NoOne}, ip : Addrs \cup {NoAddr}]

ASSUME SubnetAssumption ==
  /\ SubnetFirst \in Nat \ {0} /\ ProvMin \in Nat /\ ProvMax \in Nat
  /\ SubnetLast \in Nat /\ MaxMac \in Nat
  /\ SubnetFirst < ProvMin /\ ProvMin <= ProvMax /\ ProvMax < SubnetLast
ASSUME OwnersAssumption == NoOne \notin VMs /\ Other \notin VMs /\ NoOne # Other
ASSUME LimitsAssumption ==
  /\ GapLength \in Nat \ {0} /\ FreedLimit \in Nat \ {0}
  /\ IpRetries \in Nat /\ MacRetries \in Nat /\ NicRetries \in Nat
ASSUME OpsAssumption == Ops \subseteq OpType /\ \A o \in Ops : WellFormed(o)
\* The store starts with no address held by two NICs.
ASSUME StartAssumption ==
  \A s \in StartNics :
    /\ s \in [Macs -> NicStart]
    /\ \A m \in Macs : s[m].vm = NoOne => s[m].ip = NoAddr
    /\ \A m, n \in Macs : s[m].ip = s[n].ip /\ s[m].ip # NoAddr => m = n

VARIABLES
  \* the Moray buckets; a row that is absent has etag 0 (etag null)
  nics,        \* napi_nics: [Macs -> NicRow]
  ips,         \* napi_ips_<network>: [Addrs -> IpRow]
  clock,       \* committed batches; a row's etag and _mtime is the batch that wrote it
  \* history, read by properties only
  touched,     \* addresses written without regard to the NIC that holds them
  commits,     \* batches each request has committed
  \* the requests
  pc, op, result,
  nicSeen,     \* existingNic, as read (NoNic for a create)
  old,         \* the IP of existingNic, as read
  pick,        \* the IP the request wants, as read or as selected
  queue, noGap, tries,      \* ProvisionInfo
  mac, macTries,            \* validated.mac, opts.macTries
  retries, err              \* of nicAndIP

store  == <<nics, ips, clock, touched, commits>>
search == <<queue, noGap, tries>>
seen   == <<nicSeen, old>>
chosen == <<mac, macTries>>
loop   == <<retries, err>>
vars   == <<store, pc, op, result, seen, pick, search, chosen, loop>>

NicRow == [vm : VMs \cup {NoOne}, ip : Addrs \cup {NoAddr}, etag : Nat]
IpRow  == [belongs : VMs \cup {NoOne, Other}, reserved : BOOLEAN, etag : Nat]
IpSnap == [addr : Addrs \cup {NoAddr}, belongs : VMs \cup {NoOne, Other},
           reserved : BOOLEAN, etag : Nat]

NoNic  == [vm |-> NoOne, ip |-> NoAddr, etag |-> 0]
NoIp   == [belongs |-> NoOne, reserved |-> FALSE, etag |-> 0]

\* An address with no row, as a request sees it.
Unused(a) == [addr |-> a, belongs |-> NoOne, reserved |-> FALSE, etag |-> 0]
NoSnap    == Unused(NoAddr)

Snap(a) == [addr |-> a, belongs |-> ips[a].belongs,
            reserved |-> ips[a].reserved, etag |-> ips[a].etag]

Present(a)       == ips[a].etag # 0

\* Mutant: any record that exists may be provisioned.
ProvisionableAny(s) == TRUE

\* IP.provisionable
Provisionable(s) == s.belongs \in {NoOne, Other}

Freed(a)         == Present(a) /\ ips[a].belongs = NoOne /\ ~ips[a].reserved

(***************************************************************************)
(* A network as createNetwork leaves it (placeholders on both sides of the *)
(* range, records of the admin's own addresses), with some NICs on it.     *)
(***************************************************************************)
StartIps(s, others) ==
  [a \in Addrs |->
     IF \E m \in Macs : s[m].vm # NoOne /\ s[m].ip = a
       THEN [belongs  |-> s[CHOOSE m \in Macs : s[m].vm # NoOne /\ s[m].ip = a].vm,
             reserved |-> FALSE, etag |-> 1]
     ELSE IF a \in others
       THEN [belongs |-> Other, reserved |-> TRUE, etag |-> 1]
     ELSE IF a \in {ProvMin - 1, ProvMax + 1}
       THEN [belongs |-> NoOne, reserved |-> FALSE, etag |-> 1]
     ELSE NoIp]

Init ==
  /\ \E s \in StartNics, others \in StartOther :
       /\ nics = [m \in Macs |-> IF s[m].vm = NoOne THEN NoNic
                                 ELSE [vm |-> s[m].vm, ip |-> s[m].ip, etag |-> 1]]
       /\ ips = StartIps(s, others)
  /\ clock = 1
  /\ touched = {}
  /\ commits = [r \in Requests |-> 0]
  /\ pc = [r \in Requests |-> "idle"]
  /\ op \in [Requests -> Ops]
  /\ result = [r \in Requests |-> "none"]
  /\ nicSeen = [r \in Requests |-> NoNic]
  /\ old = [r \in Requests |-> NoSnap]
  /\ pick = [r \in Requests |-> NoSnap]
  /\ queue = [r \in Requests |-> <<>>]
  /\ noGap = [r \in Requests |-> FALSE]
  /\ tries = [r \in Requests |-> 0]
  /\ mac = [r \in Requests |-> op[r].mac]
  /\ macTries = [r \in Requests |-> 0]
  /\ retries = [r \in Requests |-> 0]
  /\ err = [r \in Requests |-> "none"]

Goto(r, label) == pc' = [pc EXCEPT ![r] = label] /\ UNCHANGED result

Finish(r, res) == /\ pc' = [pc EXCEPT ![r] = "done"]
                  /\ result' = [result EXCEPT ![r] = res]

-----------------------------------------------------------------------------
(* Reading: the endpoint's ensure... handlers and the models' validation.  *)

Start(r) ==
  /\ pc[r] = "idle"
  /\ Goto(r, IF op[r].kind \in {"update", "delete"} THEN "readNic"
             ELSE IF op[r].addr # NoAddr THEN "readIp" ELSE "choose")
  /\ UNCHANGED <<store, op, seen, pick, search, chosen, loop>>

AfterNic(r) == IF op[r].kind = "delete" THEN "commit"
               ELSE IF op[r].addr # NoAddr THEN "readIp" ELSE "choose"

\* GET of the NIC row.  With If-Match, the etag the client sent may not match.
ReadNic(r) ==
  /\ pc[r] = "readNic"
  /\ LET row == nics[op[r].mac]
     IN \/ row.etag = 0 /\ Finish(r, "notFound") /\ UNCHANGED nicSeen
        \/ op[r].cond /\ row.etag # 0 /\ Finish(r, "precondition") /\ UNCHANGED nicSeen
        \/ /\ row.etag # 0
           /\ nicSeen' = [nicSeen EXCEPT ![r] = row]
           /\ Goto(r, IF row.ip = NoAddr THEN AfterNic(r) ELSE "readOld")
  /\ UNCHANGED <<store, op, old, pick, search, chosen, loop>>

\* GET of the IP row of the NIC just read: a second round trip (addIPtoNic).
\* An update that names no ip keeps this one (copyParams).
ReadOld(r) ==
  /\ pc[r] = "readOld"
  /\ LET s == Snap(nicSeen[r].ip)
     IN /\ old' = [old EXCEPT ![r] = s]
        /\ pick' = IF op[r].kind = "update" /\ op[r].addr = NoAddr
                   THEN [pick EXCEPT ![r] = s] ELSE pick
  /\ Goto(r, AfterNic(r))
  /\ UNCHANGED <<store, op, nicSeen, search, chosen, loop>>

\* GET of the address the request names.
ReadIp(r) ==
  /\ pc[r] = "readIp"
  /\ LET s == Snap(op[r].addr)
     IN \/ /\ op[r].kind \notin IpPut
           /\ op[r].addr # nicSeen[r].ip /\ ~Provisionable(s)
           /\ Finish(r, "used")
           /\ UNCHANGED pick
        \/ /\ \/ op[r].kind \in IpPut
              \/ op[r].addr = nicSeen[r].ip
              \/ Provisionable(s)
           /\ pick' = [pick EXCEPT ![r] = s]
           /\ Goto(r, IF op[r].kind \in IpPut THEN "commit" ELSE "choose")
  /\ UNCHANGED <<store, op, seen, search, chosen, loop>>

-----------------------------------------------------------------------------
(* Selecting the address and the MAC of one attempt (runProvisions, nicFn). *)

\* A NetworkProvision rather than an IPProvision: no address named or kept.
OnNetwork(r) == op[r].next /\ op[r].addr = NoAddr /\ nicSeen[r].ip = NoAddr

NeedsIp(r) == OnNetwork(r) /\ (pick[r].addr = NoAddr \/ err[r] = "ip")

AfterChoice(r) == IF op[r].kind = "create" THEN "mac" ELSE "commit"

\* Mutant: failed attempts are not counted.
RetryForever(r, e) ==
  err' = [err EXCEPT ![r] = e] /\ Goto(r, "choose") /\ UNCHANGED retries

\* An attempt failed with e and does not say stop.
Retry(r, e) ==
  IF retries[r] > NicRetries
  THEN Finish(r, "error") /\ UNCHANGED loop
  ELSE /\ retries' = [retries EXCEPT ![r] = @ + 1]
       /\ err' = [err EXCEPT ![r] = e]
       /\ Goto(r, "choose")

KeepIp(r) ==
  /\ pc[r] = "choose"
  /\ ~NeedsIp(r) /\ err[r] # "ip"
  /\ Goto(r, AfterChoice(r))
  /\ UNCHANGED <<store, op, seen, pick, search, chosen, loop>>

IpTaken(r) ==
  /\ pc[r] = "choose"
  /\ ~OnNetwork(r) /\ err[r] = "ip"
  /\ Finish(r, "ipExists")
  /\ UNCHANGED <<store, op, seen, pick, search, chosen, loop>>

OutOfTries(r) ==
  /\ pc[r] = "choose" /\ NeedsIp(r)
  /\ tries[r] > IpRetries
  /\ Finish(r, "full")
  /\ UNCHANGED <<store, op, seen, pick, search, chosen, loop>>

\* ProvisionInfo.shift: take the head of q, keep the rest.
Shift(r, q) ==
  /\ pick'  = [pick EXCEPT ![r] = Head(q)]
  /\ queue' = [queue EXCEPT ![r] = Tail(q)]
  /\ tries' = [tries EXCEPT ![r] = @ + 1]
  /\ Goto(r, AfterChoice(r))

NextQueued(r) ==
  /\ pc[r] = "choose" /\ NeedsIp(r)
  /\ tries[r] <= IpRetries /\ queue[r] # <<>>
  /\ Shift(r, queue[r])
  /\ UNCHANGED <<store, op, seen, noGap, chosen, loop>>

Searching(r) == /\ pc[r] = "choose" /\ NeedsIp(r)
                /\ tries[r] <= IpRetries /\ queue[r] = <<>>

\* Mutant: the rows next to the range are left out of the query.
GapStartsInRange ==
  {a \in ProvRange : /\ ~Present(a) /\ Present(a - 1) /\ a - 1 \in ProvRange
                     /\ \E b \in (a + 1) .. ProvMax : Present(b)}

\* The SQL over the rows of ProvMin-1 .. ProvMax+1 ordered by address: a gap
\* starts after a row and ends before the next one, so it needs both.
GapStarts ==
  {a \in ProvRange : /\ ~Present(a) /\ Present(a - 1)
                     /\ \E b \in (a + 1) .. (ProvMax + 1) : Present(b)}

\* The first gap has start a, and n of its addresses are fetched.
IsFirstGap(a, n) ==
  /\ a \in GapStarts
  /\ \A b \in GapStarts : a <= b
  /\ a + n - 1 <= ProvMax
  /\ \A i \in 0 .. (n - 1) : ~Present(a + i)
  /\ n = GapLength \/ Present(a + n)

FindGap(r) ==
  /\ Searching(r) /\ ~noGap[r]
  /\ \E a \in ProvRange, n \in 1 .. GapLength :
       /\ IsFirstGap(a, n)
       /\ Shift(r, [i \in 1 .. n |-> Unused(a + i - 1)])
  /\ UNCHANGED <<store, op, seen, noGap, chosen, loop>>

NoGap(r) ==
  /\ Searching(r) /\ ~noGap[r]
  /\ GapStarts = {}
  /\ noGap' = [noGap EXCEPT ![r] = TRUE]
  /\ tries' = [tries EXCEPT ![r] = @ + 1]
  /\ Retry(r, "other")
  /\ UNCHANGED <<store, op, seen, pick, queue, chosen>>

FreedInRange == {a \in ProvRange : Freed(a)}

\* The freed rows, least recently written first, up to FreedLimit of them.
\* Rows of one batch have one _mtime and come in either order.
IsFreedQueue(q) ==
  LET listed == {q[i].addr : i \in DOMAIN q}
  IN /\ \A i, j \in DOMAIN q :
          i < j => q[i].addr # q[j].addr /\ q[i].etag <= q[j].etag
     /\ \A a \in FreedInRange \ listed :
          Len(q) = FreedLimit /\ \A i \in DOMAIN q : q[i].etag <= ips[a].etag

FreedQueues ==
  {q \in UNION {[1 .. n -> {Snap(a) : a \in FreedInRange}] : n \in 1 .. FreedLimit} :
     IsFreedQueue(q)}

FindFreed(r) ==
  /\ Searching(r) /\ noGap[r]
  /\ FreedInRange # {}
  /\ \E q \in FreedQueues : Shift(r, q)
  /\ UNCHANGED <<store, op, seen, noGap, chosen, loop>>

SubnetFull(r) ==
  /\ Searching(r) /\ noGap[r]
  /\ FreedInRange = {}
  /\ Finish(r, "full")
  /\ UNCHANGED <<store, op, seen, pick, search, chosen, loop>>

MacSupplied(r) ==
  /\ pc[r] = "mac" /\ op[r].mac # AnyMac
  /\ IF err[r] = "nic" THEN Finish(r, "dupMac") ELSE Goto(r, "commit")
  /\ UNCHANGED <<store, op, seen, pick, search, chosen, loop>>

\* The first MAC is random; then the next one is tried, and past the last one
\* the search starts again from a random one.
NextMacs(r) ==
  IF mac[r] = AnyMac \/ mac[r] + 1 > MaxMac THEN Macs ELSE {mac[r] + 1}

\* Keep the MAC unless it was the one that conflicted.
RandomMac(r) ==
  /\ pc[r] = "mac" /\ op[r].mac = AnyMac
  /\ \/ mac[r] # AnyMac /\ err[r] # "nic" /\ Goto(r, "commit") /\ UNCHANGED chosen
     \/ /\ mac[r] = AnyMac \/ err[r] = "nic"
        /\ \/ macTries[r] > MacRetries /\ Finish(r, "noMacs") /\ UNCHANGED chosen
           \/ /\ macTries[r] <= MacRetries
              /\ macTries' = [macTries EXCEPT ![r] = @ + 1]
              /\ \E m \in NextMacs(r) : mac' = [mac EXCEPT ![r] = m]
              /\ Goto(r, "commit")
  /\ UNCHANGED <<store, op, seen, pick, search, loop>>

-----------------------------------------------------------------------------
(* Committing the batch of a create or an update.                          *)

Writes(r) == pc[r] = "commit" /\ op[r].kind \in {"create", "update"}

NewVm(r) == IF op[r].vm # NoOne THEN op[r].vm ELSE nicSeen[r].vm

\* Mutant: an update that moves to another address forgets the old one.
ReleasesOnDelete(r) == /\ op[r].kind = "delete" /\ old[r].addr # NoAddr
                       /\ old[r].belongs = nicSeen[r].vm

\* Mutant: the address is freed whoever it belongs to by now.
ReleasesAnyones(r) == /\ old[r].addr # NoAddr
                      /\ op[r].kind = "update" => pick[r].addr # old[r].addr

\* The old address leaves the NIC, and still belongs to the NIC's VM.
Releases(r) == /\ old[r].addr # NoAddr
               /\ op[r].kind = "update" => pick[r].addr # old[r].addr
               /\ old[r].belongs = nicSeen[r].vm

\* Mutant: the NIC is written without its etag.
NicFitsAlways(r) == TRUE

NicFits(r)  == nics[mac[r]].etag = nicSeen[r].etag
PickFits(r) == pick[r].addr # NoAddr => ips[pick[r].addr].etag = pick[r].etag
OldFits(r)  == Releases(r) => ips[old[r].addr].etag = old[r].etag

\* Mutant: a conditional delete has no etag either.
DeleteFitsBlind(r) == nics[mac[r]].etag # 0 /\ OldFits(r)

\* Mutant: a conflict on the address is not recognised as one.
ConflictBlind(r) == IF ~NicFits(r) THEN "nic" ELSE "other"

\* The batch is sorted: napi_nics first, then the addresses in key order; the
\* first entry that conflicts is the one the error names.
Conflict(r) ==
  IF ~NicFits(r) THEN "nic"
  ELSE IF ~PickFits(r) /\ (OldFits(r) \/ pick[r].addr < old[r].addr) THEN "ip"
  ELSE "other"

\* unassignBatch: the record stays, and so does reserved.
Unassigned(s) == [belongs |-> NoOne, reserved |-> s.reserved, etag |-> clock + 1]

WriteNicAndIp(r) ==
  /\ clock' = clock + 1
  /\ nics' = [nics EXCEPT ![mac[r]] =
                [vm |-> NewVm(r), ip |-> pick[r].addr, etag |-> clock + 1]]
  /\ ips' = [a \in Addrs |->
               IF a = pick[r].addr
                 THEN [belongs |-> NewVm(r), reserved |-> pick[r].reserved,
                       etag |-> clock + 1]
               ELSE IF Releases(r) /\ a = old[r].addr THEN Unassigned(old[r])
               ELSE ips[a]]
  /\ commits' = [commits EXCEPT ![r] = @ + 1]
  /\ UNCHANGED touched

\* Mutant: the address is written without an etag.
BatchFitsNoPick(r) == NicFits(r) /\ OldFits(r)

BatchFits(r) == NicFits(r) /\ PickFits(r) /\ OldFits(r)

CommitNic(r) ==
  /\ Writes(r) /\ BatchFits(r)
  /\ WriteNicAndIp(r)
  /\ Finish(r, "ok")
  /\ UNCHANGED <<op, seen, pick, search, chosen, loop>>

ConflictNic(r) ==
  /\ Writes(r) /\ ~BatchFits(r)
  /\ Retry(r, Conflict(r))
  /\ UNCHANGED <<store, op, seen, pick, search, chosen>>

\* Moray cannot be reached, or Postgres fails: nothing is written.
FailNic(r) ==
  /\ Writes(r) /\ "error" \in Faults
  /\ Retry(r, "other")
  /\ UNCHANGED <<store, op, seen, pick, search, chosen>>

\* The batch is committed, and its reply is lost.
LoseNic(r) ==
  /\ Writes(r) /\ "lost" \in Faults /\ BatchFits(r)
  /\ WriteNicAndIp(r)
  /\ Retry(r, "other")
  /\ UNCHANGED <<op, seen, pick, search, chosen>>

-----------------------------------------------------------------------------
(* Deleting a NIC.  Only a conditional request checks the NIC's etag.      *)

\* A single commit is not retried: a lost reply is answered as an error.
Answer(r) == \/ Finish(r, "ok")
             \/ "lost" \in Faults /\ Finish(r, "error")

DeleteFits(r) == /\ nics[mac[r]].etag # 0
                 /\ op[r].cond => NicFits(r)
                 /\ OldFits(r)

\* The NIC is the first entry of the batch, so its absence is noticed first.
RefusedDelete(r) == IF nics[mac[r]].etag = 0 THEN "notFound" ELSE "conflict"

CommitDelete(r) ==
  /\ pc[r] = "commit" /\ op[r].kind = "delete" /\ DeleteFits(r)
  /\ clock' = clock + 1
  /\ nics' = [nics EXCEPT ![mac[r]] = NoNic]
  /\ ips' = IF Releases(r) THEN [ips EXCEPT ![old[r].addr] = Unassigned(old[r])]
            ELSE ips
  /\ touched' = IF NicFits(r) THEN touched
                ELSE touched \cup ({nics[mac[r]].ip, old[r].addr} \ {NoAddr})
  /\ commits' = [commits EXCEPT ![r] = @ + 1]
  /\ Answer(r)
  /\ UNCHANGED <<op, seen, pick, search, chosen, loop>>

FailDelete(r) ==
  /\ pc[r] = "commit" /\ op[r].kind = "delete"
  /\ \/ ~DeleteFits(r) /\ Finish(r, RefusedDelete(r))
     \/ "error" \in Faults /\ Finish(r, "error")
  /\ UNCHANGED <<store, op, seen, pick, search, chosen, loop>>

-----------------------------------------------------------------------------
(* PUT of an IP: deleteIP, updateIP, or createIP when it had no row.       *)

PutRow(r) ==
  LET k == op[r].kind
  IN [ belongs  |-> IF k = "assign" THEN op[r].vm
                    ELSE IF k = "reserve" THEN pick[r].belongs ELSE NoOne,
       reserved |-> k = "reserve" \/ (k # "free" /\ pick[r].reserved),
       etag     |-> clock + 1 ]

CommitIp(r) ==
  /\ pc[r] = "commit" /\ op[r].kind \in IpPut /\ PickFits(r)
  /\ clock' = clock + 1
  /\ ips' = [ips EXCEPT ![op[r].addr] = PutRow(r)]
  /\ touched' = IF op[r].kind = "reserve" THEN touched ELSE touched \cup {op[r].addr}
  /\ commits' = [commits EXCEPT ![r] = @ + 1]
  /\ Answer(r)
  /\ UNCHANGED <<nics, op, seen, pick, search, chosen, loop>>

FailIp(r) ==
  /\ pc[r] = "commit" /\ op[r].kind \in IpPut
  /\ \/ ~PickFits(r) /\ Finish(r, "conflict")
     \/ "error" \in Faults /\ Finish(r, "error")
  /\ UNCHANGED <<store, op, seen, pick, search, chosen, loop>>

-----------------------------------------------------------------------------
Choose(r) == \/ KeepIp(r) \/ IpTaken(r) \/ OutOfTries(r) \/ NextQueued(r)
             \/ FindGap(r) \/ NoGap(r) \/ FindFreed(r) \/ SubnetFull(r)

Commit(r) == \/ CommitNic(r) \/ ConflictNic(r) \/ FailNic(r) \/ LoseNic(r)
             \/ CommitDelete(r) \/ FailDelete(r) \/ CommitIp(r) \/ FailIp(r)

\* What the process that runs the request does on its own.
Step(r) == \/ ReadNic(r) \/ ReadOld(r) \/ ReadIp(r)
           \/ Choose(r) \/ MacSupplied(r) \/ RandomMac(r) \/ Commit(r)

AllDone == (\A r \in Requests : pc[r] = "done") /\ UNCHANGED vars

Next == (\E r \in Requests : Start(r) \/ Step(r)) \/ AllDone

Spec == Init /\ [][Next]_vars

\* Node runs every callback that is due and Moray answers every call, so a
\* request that has started keeps going.  Requests need not be sent.
FairSpec == Spec /\ \A r \in Requests : WF_vars(Step(r))
-----------------------------------------------------------------------------
(* Properties                                                              *)

Labels  == {"idle", "readNic", "readOld", "readIp", "choose", "mac", "commit", "done"}
Results == {"none", "ok", "used", "ipExists", "dupMac", "full", "noMacs",
            "notFound", "precondition", "conflict", "error"}

\* Every variable has its type, and no etag is from the future.
TypeOK ==
  /\ nics \in [Macs -> NicRow] /\ ips \in [Addrs -> IpRow]
  /\ clock \in Nat /\ touched \subseteq Addrs
  /\ commits \in [Requests -> Nat]
  /\ pc \in [Requests -> Labels] /\ result \in [Requests -> Results]
  /\ op \in [Requests -> Ops]
  /\ nicSeen \in [Requests -> NicRow] /\ old \in [Requests -> IpSnap]
  /\ pick \in [Requests -> IpSnap] /\ queue \in [Requests -> Seq(IpSnap)]
  /\ noGap \in [Requests -> BOOLEAN] /\ tries \in [Requests -> Nat]
  /\ mac \in [Requests -> Macs \cup {AnyMac}] /\ macTries \in [Requests -> Nat]
  /\ retries \in [Requests -> Nat]
  /\ err \in [Requests -> {"none", "nic", "ip", "other"}]

\* Two NICs never hold one address, whatever the requests race for, unless a
\* PUT of the IP or an unconditional delete overrode the NIC that held it.
UniqueAddresses ==
  \A m, n \in Macs :
    m # n /\ nics[m].ip = nics[n].ip /\ nics[m].ip # NoAddr
      => nics[m].ip \in touched

\* The record of an address a NIC holds belongs to that NIC's VM: the address
\* is not up for provisioning, and deleting the NIC will free it.
NicsOwnTheirAddresses ==
  \A m \in Macs :
    nics[m].etag # 0 /\ nics[m].ip \notin touched \cup {NoAddr}
      => ips[nics[m].ip].belongs = nics[m].vm

\* An address that belongs to a VM is held by a NIC of it: none is lost to
\* provisioning because the request that took it failed, moved or lost a race.
NoLeakedAddress ==
  \A a \in Addrs \ touched :
    ips[a].belongs \in VMs =>
      \E m \in Macs : nics[m].ip = a /\ nics[m].vm = ips[a].belongs

Free(a) == ~Present(a) \/ Freed(a)

\* A request is told that the subnet is full only when no address of the range
\* is free at that moment, though it looked for gaps and for freed addresses at
\* different times; or it has lost IpRetries races.
FullMeansFull ==
  [][\A r \in Requests :
       result'[r] = "full" /\ result[r] # "full"
         => tries[r] > IpRetries \/ \A a \in ProvRange : ~Free(a)]_vars

\* Never-used addresses go first: a freed address is given out only when the
\* whole range has been used (ip/provision.js, "IP provisioning process").
GapsBeforeFreed ==
  [][\A r \in Requests :
       /\ commits'[r] # commits[r] /\ OnNetwork(r)
       /\ op[r].kind \in {"create", "update"} /\ Present(pick[r].addr)
       => \A a \in ProvRange : Present(a)]_vars

\* A conditional delete that succeeds frees the address the NIC has at that
\* moment (docs/index.md, DeleteNic), though the request read the NIC and its
\* address earlier, in two calls, and updates give it others meanwhile.
DeleteFreesAddress ==
  [][\A m \in Macs :
       nics[m].etag # 0 /\ nics'[m].etag = 0 /\ nics[m].ip # NoAddr
         => ips'[nics[m].ip].belongs = NoOne]_vars

\* A request on a NIC frees no address but the one that NIC has at that moment,
\* and only if the address is its VM's: a PUT of the IP may have given it away
\* at any time before, also between the reads of the NIC and of the address.
\* (Unconditional deletes do not notice that their NIC has changed.)
FreesItsOwn ==
  [][\A r \in Requests, a \in Addrs :
       /\ commits'[r] # commits[r] /\ op[r].kind \notin IpPut
       /\ op[r].kind = "delete" => op[r].cond
       /\ ips[a].belongs \in VMs /\ ips'[a].belongs = NoOne
       => nics[mac[r]].ip = a /\ nics[mac[r]].vm = ips[a].belongs]_vars

\* Every request that is started is answered, however often it loses.
EveryRequestAnswered ==
  \A r \in Requests : pc[r] # "idle" ~> pc[r] = "done"

\* With as many addresses as requests, creates that compete are never refused
\* for lack of an address nor for too many attempts: losing a race for an
\* address or a MAC costs an attempt, and the limits outlast the competitors.
CompetitorsFindAddresses ==
  \A r \in Requests : result[r] \notin {"full", "error", "ipExists"}

\* Every batch does to the store what one request alone would do to it at that
\* moment, though it was put together from rows read one at a time, earlier.
Ledger == INSTANCE AddressLedger
            WITH vmOf   <- [m \in Macs |-> nics[m].vm],
                 addrOf <- [m \in Macs |-> nics[m].ip],
                 owner  <- [a \in Addrs |-> ips[a].belongs]

ImplementsLedger == Ledger!Spec

-----------------------------------------------------------------------------
(* The inductive invariant behind the safety properties.                   *)

\* Etags are in the past, and an absent row is blank.
StoreIsClean ==
  /\ \A m \in Macs :
       /\ nics[m].etag <= clock
       /\ nics[m].etag = 0 => nics[m] = NoNic
       /\ nics[m].etag # 0 => nics[m].vm \in VMs
  /\ \A a \in Addrs :
       /\ ips[a].etag <= clock
       /\ ips[a].etag = 0 => ips[a].belongs = NoOne

\* What a snapshot says is still so as long as its etag is.
TrueSnap(s) ==
  /\ s.etag <= clock
  /\ s.addr # NoAddr /\ s.etag = ips[s.addr].etag => s.belongs = ips[s.addr].belongs

\* How far each kind of request gets, and what it has read by then.
Progress(r) ==
  /\ pc[r] = "readNic" => op[r].kind \in {"update", "delete"}
  /\ pc[r] = "readOld" => op[r].kind \in {"update", "delete"} /\ nicSeen[r].ip # NoAddr
  /\ pc[r] = "readIp" => op[r].addr # NoAddr
  /\ pc[r] = "choose" => op[r].kind \in {"create", "update"}
  /\ pc[r] = "mac" => op[r].kind = "create"
  /\ op[r].mac # AnyMac => mac[r] = op[r].mac
  /\ op[r].kind \notin {"update", "delete"} => nicSeen[r] = NoNic
  /\ pc[r] = "commit" /\ op[r].kind \notin IpPut => mac[r] \in Macs
  /\ pc[r] \in {"idle", "readNic"} => nicSeen[r] = NoNic
  /\ op[r].kind \in {"update", "delete"} /\ pc[r] \notin {"idle", "readNic", "done"}
       => nicSeen[r].etag # 0
  /\ pc[r] \in {"idle", "readNic", "readOld"} => old[r] = NoSnap
  /\ pc[r] \notin {"idle", "readNic", "readOld"} => old[r].addr = nicSeen[r].ip
  /\ op[r].kind = "update" /\ pc[r] \in {"choose", "commit"} /\ nicSeen[r].ip # NoAddr
       => pick[r].addr # NoAddr
  /\ op[r].kind \in IpPut /\ pc[r] = "commit" => pick[r].addr = op[r].addr

\* An unchanged NIC row is the row read; the address read after it is its own.
SeenNicIsTrue(r) ==
  /\ nicSeen[r].etag <= clock
  /\ nicSeen[r].etag = 0 => nicSeen[r] = NoNic
  /\ nicSeen[r].etag # 0 =>
       /\ nicSeen[r].vm \in VMs
       /\ nics[mac[r]].etag = nicSeen[r].etag => nics[mac[r]] = nicSeen[r]
  /\ old[r].addr \notin touched \cup {NoAddr} /\ nics[mac[r]].etag = nicSeen[r].etag
       => old[r].belongs = nicSeen[r].vm

\* An address is wanted because it was available, or is the NIC's own.
PickIsAllowed(r) ==
  /\ op[r].kind \notin IpPut /\ pick[r].addr # NoAddr
       => Provisionable(pick[r]) \/ pick[r].addr = nicSeen[r].ip
  /\ \A i \in DOMAIN queue[r] :
       TrueSnap(queue[r][i]) /\ queue[r][i].belongs = NoOne

RequestInv(r) == /\ Progress(r) /\ SeenNicIsTrue(r) /\ PickIsAllowed(r)
                 /\ TrueSnap(old[r]) /\ TrueSnap(pick[r])

AddressesAgree == UniqueAddresses /\ NicsOwnTheirAddresses /\ NoLeakedAddress

\* The inductive invariant: the store is clean and its two buckets agree, and
\* what every request has read of them is true as long as its etags are current.
IInv == TypeOK /\ StoreIsClean /\ AddressesAgree /\ \A r \in Requests : RequestInv(r)
=============================================================================
