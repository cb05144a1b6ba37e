------------------------ MODULE NicProvision_proofs ------------------------
(***************************************************************************)
(* Proofs about NicProvision, for every set of requests, NICs, addresses   *)
(* and operations, and every value of the limits.                          *)
(***************************************************************************)
EXTENDS NicProvision, FiniteSetTheorems, WellFoundedInduction, TLAPS

\* The addresses are positive numbers, and the range and its neighbours are
\* addresses.
LEMMA AddrFacts ==
  /\ Addrs \subseteq Nat /\ NoAddr \notin Addrs /\ ProvRange \subseteq Addrs
  /\ AnyMac \notin Macs /\ Macs \subseteq Nat
  /\ \A a \in ProvRange, n \in Nat \ {0} :
       a + n - 1 <= ProvMax => \A i \in 1 .. n : a + i - 1 \in Addrs
  BY SubnetAssumption DEF Addrs, ProvRange, NoAddr, Macs, AnyMac

\* A function on an initial segment of the numbers is a sequence.
LEMMA FunctionsAreSequences ==
  ASSUME NEW S, NEW n \in Nat, NEW q \in [1 .. n -> S]
  PROVE  q \in Seq(S) /\ Len(q) = n /\ DOMAIN q = 1 .. n
  OBVIOUS

\* Shifting a non-empty queue of snapshots.
LEMMA ShiftFacts ==
  ASSUME NEW S, NEW q \in Seq(S), q # <<>>
  PROVE  /\ Head(q) \in S /\ Head(q) = q[1] /\ 1 \in DOMAIN q
         /\ Tail(q) \in Seq(S)
         /\ \A i \in DOMAIN Tail(q) : i + 1 \in DOMAIN q /\ Tail(q)[i] = q[i + 1]
  OBVIOUS

LEMMA SnapType ==
  ASSUME TypeOK, NEW a \in Addrs
  PROVE  Snap(a) \in IpSnap
  BY DEF TypeOK, Snap, IpSnap, IpRow

\* What the operations of the requests are.
LEMMA OpFacts ==
  ASSUME TypeOK, NEW r \in Requests
  PROVE  op[r] \in OpType /\ WellFormed(op[r])
  BY OpsAssumption DEF TypeOK

LEMMA Constants ==
  /\ NoNic \in NicRow /\ NoSnap \in IpSnap /\ NoIp \in IpRow
  /\ \A a \in Addrs : Unused(a) \in IpSnap
  BY DEF NoNic, NicRow, NoSnap, Unused, IpSnap, NoIp, IpRow

-----------------------------------------------------------------------------
(* Type correctness.                                                       *)

LEMMA InitType == Init => TypeOK
<1> SUFFICES ASSUME Init PROVE TypeOK
  OBVIOUS
<1> USE Constants
<1>1. PICK s \in StartNics, others \in StartOther :
        /\ nics = [m \in Macs |-> IF s[m].vm = NoOne THEN NoNic
                                  ELSE [vm |-> s[m].vm, ip |-> s[m].ip, etag |-> 1]]
        /\ ips = StartIps(s, others)
  BY DEF Init
<1>2. s \in [Macs -> NicStart]
  BY StartAssumption
<1>3. nics \in [Macs -> NicRow]
  BY <1>1, <1>2 DEF NicStart, NicRow
<1>4. ips \in [Addrs -> IpRow]
  <2>1. ASSUME NEW a \in Addrs, \E m \in Macs : s[m].vm # NoOne /\ s[m].ip = a
        PROVE  s[CHOOSE m \in Macs : s[m].vm # NoOne /\ s[m].ip = a].vm \in VMs \cup {NoOne}
    BY <2>1, <1>2 DEF NicStart
  <2> QED
    BY <1>1, <2>1 DEF StartIps, IpRow
<1>5. mac \in [Requests -> Macs \cup {AnyMac}]
  <2> op \in [Requests -> OpType]
    BY OpsAssumption DEF Init
  <2> QED
    BY DEF Init, OpType
<1> QED
  BY <1>3, <1>4, <1>5 DEF Init, TypeOK, Labels, Results

\* The variables an action that moves a request on may write.
LEMMA GotoType ==
  ASSUME TypeOK, NEW r \in Requests, NEW l \in Labels, Goto(r, l)
  PROVE  pc' \in [Requests -> Labels] /\ result' \in [Requests -> Results]
  BY DEF TypeOK, Goto

LEMMA FinishType ==
  ASSUME TypeOK, NEW r \in Requests, NEW x \in Results, Finish(r, x)
  PROVE  pc' \in [Requests -> Labels] /\ result' \in [Requests -> Results]
  BY DEF TypeOK, Finish, Labels

LEMMA RetryType ==
  ASSUME TypeOK, NEW r \in Requests, NEW e \in {"none", "nic", "ip", "other"}, Retry(r, e)
  PROVE  /\ pc' \in [Requests -> Labels] /\ result' \in [Requests -> Results]
         /\ retries' \in [Requests -> Nat]
         /\ err' \in [Requests -> {"none", "nic", "ip", "other"}]
<1>1. CASE retries[r] > NicRetries
  BY <1>1, FinishType DEF TypeOK, Retry, loop, Results
<1>2. CASE ~(retries[r] > NicRetries)
  <2>1. Goto(r, "choose") /\ "choose" \in Labels
    BY <1>2 DEF Retry, Labels
  <2>2. pc' \in [Requests -> Labels] /\ result' \in [Requests -> Results]
    BY <2>1, GotoType
  <2>3. retries' \in [Requests -> Nat]
    <3>1. retries[r] + 1 \in Nat
      BY DEF TypeOK
    <3> QED
      BY <1>2, <3>1 DEF TypeOK, Retry
  <2>4. err' \in [Requests -> {"none", "nic", "ip", "other"}]
    BY <1>2 DEF TypeOK, Retry
  <2> QED
    BY <2>2, <2>3, <2>4
<1> QED
  BY <1>1, <1>2

LEMMA ShiftType ==
  ASSUME TypeOK, NEW r \in Requests, NEW q \in Seq(IpSnap), q # <<>>, Shift(r, q)
  PROVE  /\ pc' \in [Requests -> Labels] /\ result' \in [Requests -> Results]
         /\ pick' \in [Requests -> IpSnap] /\ queue' \in [Requests -> Seq(IpSnap)]
         /\ tries' \in [Requests -> Nat]
  BY ShiftFacts DEF TypeOK, Shift, Goto, AfterChoice, Labels

\* The queues a search may return hold snapshots, and are not empty.
LEMMA GapQueue ==
  ASSUME NEW a \in ProvRange, NEW n \in 1 .. GapLength, IsFirstGap(a, n),
         NEW q, q = [i \in 1 .. n |-> Unused(a + i - 1)]
  PROVE  q \in Seq(IpSnap) /\ q # <<>>
<1>1. n \in Nat \ {0}
  BY LimitsAssumption
<1>2. \A i \in 1 .. n : a + i - 1 \in Addrs
  BY <1>1, AddrFacts DEF IsFirstGap
<1>3. q \in [1 .. n -> IpSnap]
  BY <1>2, Constants
<1> QED
  BY <1>1, <1>3, FunctionsAreSequences

LEMMA FreedQueue ==
  ASSUME TypeOK, NEW q \in FreedQueues
  PROVE  /\ q \in Seq(IpSnap) /\ q # <<>>
         /\ \A i \in DOMAIN q : \E a \in FreedInRange : q[i] = Snap(a)
<1>1. PICK n \in 1 .. FreedLimit : q \in [1 .. n -> {Snap(a) : a \in FreedInRange}]
  BY DEF FreedQueues
<1>2. n \in Nat \ {0}
  BY LimitsAssumption
<1>3. FreedInRange \subseteq Addrs
  BY AddrFacts DEF FreedInRange
<1>4. {Snap(a) : a \in FreedInRange} \subseteq IpSnap
  BY <1>3, SnapType
<1>5. q \in [1 .. n -> IpSnap]
  BY <1>1, <1>4
<1> QED
  BY <1>1, <1>2, <1>5, FunctionsAreSequences

LEMMA WriteType ==
  ASSUME TypeOK, NEW r \in Requests, Writes(r), mac[r] \in Macs, WriteNicAndIp(r)
  PROVE  /\ nics' \in [Macs -> NicRow] /\ ips' \in [Addrs -> IpRow]
         /\ clock' \in Nat /\ touched' \subseteq Addrs
         /\ commits' \in [Requests -> Nat]
<1>1. NewVm(r) \in VMs \cup {NoOne}
  BY OpFacts DEF TypeOK, NewVm, NicRow, OpType
<1>2. [vm |-> NewVm(r), ip |-> pick[r].addr, etag |-> clock + 1] \in NicRow
  BY <1>1 DEF TypeOK, NicRow, IpSnap
<1>3. [belongs |-> NewVm(r), reserved |-> pick[r].reserved, etag |-> clock + 1] \in IpRow
  BY <1>1 DEF TypeOK, IpSnap, IpRow
<1>4. Unassigned(old[r]) \in IpRow
  BY DEF TypeOK, Unassigned, IpSnap, IpRow
<1> QED
  BY <1>2, <1>3, <1>4 DEF TypeOK, WriteNicAndIp

\* A request that is where Progress says it may be keeps the types.
LEMMA TypeStep ==
  ASSUME TypeOK, NEW r \in Requests, Progress(r), Start(r) \/ Step(r)
  PROVE  TypeOK'
<1> USE DEF store, search, seen, chosen, loop
<1>1. CASE Start(r)
  BY <1>1, GotoType DEF Start, TypeOK, Labels
<1>2. CASE ReadNic(r)
  <2>1. nics[op[r].mac] \in NicRow
    BY <1>2, OpFacts DEF ReadNic, TypeOK, Progress, WellFormed, OpType
  <2>2. pc' \in [Requests -> Labels] /\ result' \in [Requests -> Results]
    BY <1>2, GotoType, FinishType DEF ReadNic, Labels, Results, AfterNic
  <2>3. nicSeen' \in [Requests -> NicRow]
    BY <1>2, <2>1 DEF ReadNic, TypeOK
  <2> QED
    BY <1>2, <2>2, <2>3 DEF ReadNic, TypeOK
<1>3. CASE ReadOld(r)
  <2>1. Snap(nicSeen[r].ip) \in IpSnap
    BY <1>3, SnapType DEF ReadOld, TypeOK, Progress, NicRow
  <2>2. pc' \in [Requests -> Labels] /\ result' \in [Requests -> Results]
    BY <1>3, GotoType DEF ReadOld, Labels, AfterNic
  <2> QED
    BY <1>3, <2>1, <2>2 DEF ReadOld, TypeOK
<1>4. CASE ReadIp(r)
  <2>1. Snap(op[r].addr) \in IpSnap
    BY <1>4, SnapType, OpFacts DEF ReadIp, TypeOK, Progress, OpType
  <2>2. pc' \in [Requests -> Labels] /\ result' \in [Requests -> Results]
    BY <1>4, GotoType, FinishType DEF ReadIp, Labels, Results
  <2> QED
    BY <1>4, <2>1, <2>2 DEF ReadIp, TypeOK
<1>5. CASE KeepIp(r) \/ IpTaken(r) \/ OutOfTries(r) \/ SubnetFull(r)
  <2>1. pc' \in [Requests -> Labels] /\ result' \in [Requests -> Results]
    BY <1>5, GotoType, FinishType
       DEF KeepIp, IpTaken, OutOfTries, SubnetFull, AfterChoice, Labels, Results
  <2> QED
    BY <1>5, <2>1 DEF KeepIp, IpTaken, OutOfTries, SubnetFull, TypeOK
<1>6. CASE NextQueued(r)
  <2>1. queue[r] \in Seq(IpSnap) /\ queue[r] # <<>> /\ Shift(r, queue[r])
    BY <1>6 DEF NextQueued, TypeOK
  <2> QED
    BY <1>6, <2>1, ShiftType DEF NextQueued, TypeOK
<1>7. CASE FindGap(r)
  <2>1. PICK q \in Seq(IpSnap) : q # <<>> /\ Shift(r, q)
    BY <1>7, GapQueue DEF FindGap
  <2> QED
    BY <1>7, <2>1, ShiftType DEF FindGap, TypeOK
<1>8. CASE NoGap(r)
  <2>1. Retry(r, "other")
    BY <1>8 DEF NoGap
  <2>2. noGap' \in [Requests -> BOOLEAN]
    BY <1>8 DEF NoGap, TypeOK
  <2>3. tries' \in [Requests -> Nat]
    BY <1>8 DEF NoGap, TypeOK
  <2> QED
    BY <1>8, <2>1, <2>2, <2>3, RetryType DEF NoGap, TypeOK
<1>9. CASE FindFreed(r)
  <2>1. PICK q \in Seq(IpSnap) : q # <<>> /\ Shift(r, q)
    BY <1>9, FreedQueue DEF FindFreed
  <2> QED
    BY <1>9, <2>1, ShiftType DEF FindFreed, TypeOK
<1>10. CASE MacSupplied(r)
  <2>1. pc' \in [Requests -> Labels] /\ result' \in [Requests -> Results]
    BY <1>10, GotoType, FinishType DEF MacSupplied, Labels, Results
  <2> QED
    BY <1>10, <2>1 DEF MacSupplied, TypeOK
<1>11. CASE RandomMac(r)
  <2>1. pc' \in [Requests -> Labels] /\ result' \in [Requests -> Results]
    BY <1>11, GotoType, FinishType DEF RandomMac, Labels, Results
  <2>2. mac' \in [Requests -> Macs \cup {AnyMac}]
    <3>1. mac[r] # AnyMac /\ ~(mac[r] + 1 > MaxMac) => mac[r] + 1 \in Macs
      BY SubnetAssumption DEF TypeOK, Macs, AnyMac
    <3>2. CASE mac' = mac
      BY <3>2 DEF TypeOK
    <3>3. CASE \E m \in Macs : mac' = [mac EXCEPT ![r] = m]
      BY <3>3 DEF TypeOK
    <3> QED
      BY <1>11, <3>1, <3>2, <3>3 DEF RandomMac, NextMacs
  <2>3. macTries' \in [Requests -> Nat]
    <3>1. macTries[r] + 1 \in Nat
      BY DEF TypeOK
    <3> QED
      BY <1>11, <3>1 DEF RandomMac, TypeOK
  <2> QED
    BY <1>11, <2>1, <2>2, <2>3 DEF RandomMac, TypeOK
<1>12. CASE CommitNic(r)
  <2>1. mac[r] \in Macs
    BY <1>12 DEF CommitNic, Writes, Progress, IpPut
  <2>2. pc' \in [Requests -> Labels] /\ result' \in [Requests -> Results]
    BY <1>12, FinishType DEF CommitNic, Results
  <2> QED
    BY <1>12, <2>1, <2>2, WriteType DEF CommitNic, TypeOK
<1>13. CASE ConflictNic(r) \/ FailNic(r)
  <2>1. PICK e \in {"none", "nic", "ip", "other"} : Retry(r, e)
    BY <1>13 DEF ConflictNic, FailNic, Conflict
  <2> QED
    BY <1>13, <2>1, RetryType DEF ConflictNic, FailNic, TypeOK
<1>14. CASE LoseNic(r)
  <2>1. mac[r] \in Macs
    BY <1>14 DEF LoseNic, Writes, Progress, IpPut
  <2>2. Retry(r, "other")
    BY <1>14 DEF LoseNic
  <2> QED
    BY <1>14, <2>1, <2>2, WriteType, RetryType DEF LoseNic, TypeOK
<1>15. CASE CommitDelete(r)
  <2>1. mac[r] \in Macs
    BY <1>15 DEF CommitDelete, Progress, IpPut
  <2>2. pc' \in [Requests -> Labels] /\ result' \in [Requests -> Results]
    BY <1>15, FinishType DEF CommitDelete, Answer, Results
  <2>3. Unassigned(old[r]) \in IpRow
    BY DEF TypeOK, Unassigned, IpSnap, IpRow
  <2>4. ips' \in [Addrs -> IpRow] /\ nics' \in [Macs -> NicRow]
    BY <1>15, <2>1, <2>3, Constants DEF CommitDelete, TypeOK
  <2>5. touched' \subseteq Addrs
    BY <1>15, <2>1 DEF CommitDelete, TypeOK, NicRow, IpSnap
  <2>6. clock' \in Nat /\ commits' \in [Requests -> Nat]
    BY <1>15 DEF CommitDelete, TypeOK
  <2> QED
    BY <1>15, <2>2, <2>4, <2>5, <2>6 DEF CommitDelete, TypeOK
<1>16. CASE CommitIp(r)
  <2>1. op[r].addr \in Addrs
    BY <1>16, OpFacts DEF CommitIp, WellFormed, OpType
  <2>2. PutRow(r) \in IpRow
    <3>1. op[r].vm \in VMs \cup {NoOne} /\ pick[r] \in IpSnap /\ clock + 1 \in Nat
      BY OpFacts DEF OpType, TypeOK
    <3>2. (op[r].kind = "reserve" \/ (op[r].kind # "free" /\ pick[r].reserved)) \in BOOLEAN
      OBVIOUS
    <3> QED
      BY <3>1, <3>2, Zenon DEF PutRow, IpRow, IpSnap
  <2>3. pc' \in [Requests -> Labels] /\ result' \in [Requests -> Results]
    BY <1>16, FinishType DEF CommitIp, Answer, Results
  <2>4. ips' \in [Addrs -> IpRow] /\ touched' \subseteq Addrs
    BY <1>16, <2>1, <2>2 DEF CommitIp, TypeOK
  <2>5. clock' \in Nat /\ commits' \in [Requests -> Nat]
    BY <1>16 DEF CommitIp, TypeOK
  <2> QED
    BY <1>16, <2>3, <2>4, <2>5 DEF CommitIp, TypeOK
<1>17. CASE FailDelete(r) \/ FailIp(r)
  <2>1. pc' \in [Requests -> Labels] /\ result' \in [Requests -> Results]
    BY <1>17, FinishType DEF FailDelete, FailIp, RefusedDelete, Results
  <2> QED
    BY <1>17, <2>1 DEF FailDelete, FailIp, TypeOK
<1> QED
  BY <1>1, <1>2, <1>3, <1>4, <1>5, <1>6, <1>7, <1>8, <1>9, <1>10, <1>11,
     <1>12, <1>13, <1>14, <1>15, <1>16, <1>17 DEF Step, Choose, Commit

-----------------------------------------------------------------------------
(* How a step changes the store: every row it writes gets a new etag.      *)

StoreStep ==
  /\ clock <= clock' /\ touched \subseteq touched'
  /\ \A m \in Macs : \/ nics'[m] = nics[m] \/ nics'[m] = NoNic
                     \/ clock < clock' /\ nics'[m].etag = clock'
  /\ \A a \in Addrs : ips'[a] = ips[a] \/ (clock < clock' /\ ips'[a].etag = clock')

LEMMA UnchangedIsStoreStep ==
  ASSUME TypeOK, UNCHANGED <<nics, ips, clock, touched>>
  PROVE  StoreStep
  BY DEF TypeOK, StoreStep

LEMMA WriteIsStoreStep ==
  ASSUME TypeOK, NEW r \in Requests, mac[r] \in Macs, WriteNicAndIp(r)
  PROVE  StoreStep
<1>1. clock < clock' /\ clock' = clock + 1 /\ touched' = touched
  BY DEF WriteNicAndIp, TypeOK
<1>2. ASSUME NEW m \in Macs
      PROVE  nics'[m] = nics[m] \/ nics'[m].etag = clock'
  BY <1>1 DEF WriteNicAndIp, TypeOK
<1>3. ASSUME NEW a \in Addrs
      PROVE  ips'[a] = ips[a] \/ ips'[a].etag = clock'
  BY <1>1 DEF WriteNicAndIp, Unassigned, TypeOK
<1> QED
  BY <1>1, <1>2, <1>3 DEF StoreStep, TypeOK

LEMMA DeleteIsStoreStep ==
  ASSUME TypeOK, NEW r \in Requests, mac[r] \in Macs, CommitDelete(r)
  PROVE  StoreStep
<1>1. clock < clock' /\ clock' = clock + 1 /\ touched \subseteq touched'
  BY DEF CommitDelete, TypeOK
<1>2. ASSUME NEW m \in Macs
      PROVE  nics'[m] = nics[m] \/ nics'[m] = NoNic
  BY DEF CommitDelete, TypeOK
<1>3. ASSUME NEW a \in Addrs
      PROVE  ips'[a] = ips[a] \/ ips'[a].etag = clock'
  BY <1>1 DEF CommitDelete, Unassigned, TypeOK
<1> QED
  BY <1>1, <1>2, <1>3 DEF StoreStep, TypeOK

LEMMA PutIsStoreStep ==
  ASSUME TypeOK, NEW r \in Requests, CommitIp(r)
  PROVE  StoreStep
<1>1. clock < clock' /\ clock' = clock + 1 /\ touched \subseteq touched' /\ nics' = nics
  BY DEF CommitIp, TypeOK
<1>2. ASSUME NEW a \in Addrs
      PROVE  ips'[a] = ips[a] \/ ips'[a].etag = clock'
  BY <1>1 DEF CommitIp, PutRow, TypeOK
<1> QED
  BY <1>1, <1>2 DEF StoreStep, TypeOK

-----------------------------------------------------------------------------
(* What a request has read stays true as long as the etags are current.    *)

LEMMA SnapStays ==
  ASSUME TypeOK, TypeOK', StoreStep, NEW s \in IpSnap, TrueSnap(s)
  PROVE  TrueSnap(s)'
<1>1. s.etag <= clock'
  BY DEF TrueSnap, StoreStep, TypeOK, IpSnap
<1>2. ASSUME s.addr # NoAddr, s.etag = ips'[s.addr].etag
      PROVE  s.belongs = ips'[s.addr].belongs
  <2>1. s.addr \in Addrs
    BY <1>2 DEF IpSnap
  <2>2. ips'[s.addr] = ips[s.addr]
    BY <1>2, <2>1 DEF StoreStep, TrueSnap, TypeOK, IpSnap
  <2> QED
    BY <1>2, <2>2 DEF TrueSnap
<1> QED
  BY <1>1, <1>2 DEF TrueSnap

\* A request that read the row of a NIC is an update or a delete of that NIC.
LEMMA SeenFacts ==
  ASSUME TypeOK, NEW q \in Requests, RequestInv(q), nicSeen[q] # NoNic
  PROVE  /\ op[q].kind \in {"update", "delete"}
         /\ mac[q] = op[q].mac /\ mac[q] \in Macs /\ nicSeen[q].etag # 0
<1>1. op[q].kind \in {"update", "delete"}
  BY DEF RequestInv, Progress
<1>2. mac[q] = op[q].mac
  BY <1>1, OpFacts DEF RequestInv, Progress, WellFormed
<1> QED
  BY <1>1, <1>2, OpFacts DEF RequestInv, SeenNicIsTrue, WellFormed, OpType

\* An address is remembered as the NIC's own only if the NIC row was read.
LEMMA OldFacts ==
  ASSUME TypeOK, NEW q \in Requests, RequestInv(q), old[q].addr # NoAddr
  PROVE  nicSeen[q] # NoNic /\ old[q].addr = nicSeen[q].ip
  BY DEF RequestInv, Progress, NoNic, NoSnap, Unused

LEMMA SeenStays ==
  ASSUME TypeOK, TypeOK', StoreStep, NEW q \in Requests, RequestInv(q),
         op' = op, nicSeen'[q] = nicSeen[q], old'[q] = old[q], mac'[q] = mac[q]
  PROVE  SeenNicIsTrue(q)'
<1>1. nicSeen'[q].etag <= clock'
  BY DEF RequestInv, SeenNicIsTrue, StoreStep, TypeOK, NicRow
<1>2. ASSUME nicSeen[q] # NoNic, nics'[mac[q]].etag = nicSeen[q].etag
      PROVE  nics'[mac[q]] = nics[mac[q]]
  <2>1. mac[q] \in Macs /\ nicSeen[q].etag # 0
    BY <1>2, SeenFacts
  <2>2. nicSeen[q].etag <= clock /\ nicSeen[q].etag \in Nat
    BY DEF RequestInv, SeenNicIsTrue, TypeOK, NicRow
  <2>3. nics'[mac[q]] # NoNic
    BY <1>2, <2>1 DEF NoNic
  <2>4. ~(clock < clock' /\ nics'[mac[q]].etag = clock')
    BY <1>2, <2>2 DEF TypeOK
  <2> QED
    BY <2>1, <2>3, <2>4 DEF StoreStep
<1>3. ASSUME nicSeen'[q].etag # 0
      PROVE  /\ nicSeen'[q].vm \in VMs
             /\ nics'[mac'[q]].etag = nicSeen'[q].etag => nics'[mac'[q]] = nicSeen'[q]
  BY <1>2, <1>3 DEF RequestInv, SeenNicIsTrue, NoNic
<1>4. ASSUME old'[q].addr \notin touched' \cup {NoAddr}, nics'[mac'[q]].etag = nicSeen'[q].etag
      PROVE  old'[q].belongs = nicSeen'[q].vm
  <2>1. nicSeen[q] # NoNic
    BY <1>4, OldFacts
  <2>2. old[q].addr \notin touched
    BY <1>4 DEF StoreStep
  <2> QED
    BY <1>2, <1>4, <2>1, <2>2 DEF RequestInv, SeenNicIsTrue
<1>5. nicSeen'[q].etag = 0 => nicSeen'[q] = NoNic
  BY DEF RequestInv, SeenNicIsTrue
<1> QED
  BY <1>1, <1>3, <1>4, <1>5 DEF SeenNicIsTrue

LEMMA PickStays ==
  ASSUME TypeOK, TypeOK', StoreStep, NEW q \in Requests, RequestInv(q), op' = op,
         nicSeen'[q] = nicSeen[q], old'[q] = old[q], pick'[q] = pick[q],
         queue'[q] = queue[q]
  PROVE  PickIsAllowed(q)' /\ TrueSnap(old[q])' /\ TrueSnap(pick[q])'
<1>1. old[q] \in IpSnap /\ pick[q] \in IpSnap
  BY DEF TypeOK
<1>2. TrueSnap(old[q])' /\ TrueSnap(pick[q])'
  BY <1>1, SnapStays DEF RequestInv, TrueSnap
<1>3. ASSUME NEW i \in DOMAIN queue[q]
      PROVE  TrueSnap(queue[q][i])' /\ queue'[q][i].belongs = NoOne
  <2>1. queue[q][i] \in IpSnap
    BY DEF TypeOK
  <2>2. TrueSnap(queue[q][i]) /\ queue[q][i].belongs = NoOne
    BY DEF RequestInv, PickIsAllowed
  <2> QED
    BY <2>1, <2>2, SnapStays DEF TrueSnap
<1> QED
  BY <1>2, <1>3 DEF RequestInv, PickIsAllowed, Provisionable

\* A step of another request leaves the invariant of q alone.
LEMMA OthersStay ==
  ASSUME TypeOK, TypeOK', StoreStep, NEW q \in Requests, RequestInv(q), op' = op,
         pc'[q] = pc[q], nicSeen'[q] = nicSeen[q], old'[q] = old[q],
         pick'[q] = pick[q], queue'[q] = queue[q], mac'[q] = mac[q]
  PROVE  RequestInv(q)'
<1>1. Progress(q)'
  BY DEF RequestInv, Progress
<1> QED
  BY <1>1, SeenStays, PickStays DEF RequestInv

\* A request that only moves on, when it may be there.
LEMMA MovesOn ==
  ASSUME TypeOK, TypeOK', StoreStep, NEW r \in Requests, RequestInv(r), op' = op,
         UNCHANGED <<nicSeen, old, pick, queue, mac>>, Progress(r)'
  PROVE  RequestInv(r)'
  BY SeenStays, PickStays DEF RequestInv

\* An action of r writes only r's own variables.
LEMMA OwnVariables ==
  ASSUME TypeOK, NEW r \in Requests, Start(r) \/ Step(r)
  PROVE  /\ op' = op
         /\ \A q \in Requests \ {r} :
              /\ pc'[q] = pc[q] /\ nicSeen'[q] = nicSeen[q] /\ old'[q] = old[q]
              /\ pick'[q] = pick[q] /\ queue'[q] = queue[q] /\ mac'[q] = mac[q]
<1> USE DEF TypeOK, Goto, Finish, Retry, Shift, store, search, seen, chosen, loop
<1>1. CASE Start(r)
  BY <1>1 DEF Start
<1>2. CASE ReadNic(r)
  BY <1>2 DEF ReadNic
<1>3. CASE ReadOld(r)
  BY <1>3 DEF ReadOld
<1>4. CASE ReadIp(r)
  BY <1>4 DEF ReadIp
<1>5. CASE KeepIp(r) \/ IpTaken(r) \/ OutOfTries(r) \/ SubnetFull(r)
  BY <1>5 DEF KeepIp, IpTaken, OutOfTries, SubnetFull
<1>6. CASE NextQueued(r) \/ FindGap(r) \/ FindFreed(r)
  BY <1>6 DEF NextQueued, FindGap, FindFreed
<1>7. CASE NoGap(r) \/ ConflictNic(r) \/ FailNic(r) \/ LoseNic(r)
  BY <1>7 DEF NoGap, ConflictNic, FailNic, LoseNic
<1>8. CASE MacSupplied(r) \/ RandomMac(r)
  BY <1>8 DEF MacSupplied, RandomMac
<1>9. CASE CommitNic(r) \/ CommitDelete(r) \/ CommitIp(r)
  BY <1>9 DEF CommitNic, CommitDelete, CommitIp, Answer
<1>10. CASE FailDelete(r) \/ FailIp(r)
  BY <1>10 DEF FailDelete, FailIp
<1> QED
  BY <1>1, <1>2, <1>3, <1>4, <1>5, <1>6, <1>7, <1>8, <1>9, <1>10 DEF Step, Choose, Commit

-----------------------------------------------------------------------------
(* The request that takes the step keeps its own invariant.                *)

LEMMA FinishProgress ==
  ASSUME TypeOK, NEW r \in Requests, Progress(r), pc[r] # "readOld",
         pc'[r] = "done", op' = op, UNCHANGED <<nicSeen, old, pick, mac>>
  PROVE  Progress(r)'
  BY DEF Progress, NoNic, NoSnap, Unused, IpPut

LEMMA RetryProgress ==
  ASSUME TypeOK, NEW r \in Requests, Progress(r), pc[r] \in {"choose", "commit"},
         op[r].kind \in {"create", "update"}, op' = op, NEW e, Retry(r, e),
         UNCHANGED <<nicSeen, old, pick, mac>>
  PROVE  Progress(r)'
<1>1. pc'[r] \in {"choose", "done"}
  BY DEF Retry, Finish, Goto, TypeOK
<1> QED
  BY <1>1 DEF Progress, IpPut

\* Leaving the choice of the address, for the MAC or for the commit.
LEMMA ChosenProgress ==
  ASSUME TypeOK, NEW r \in Requests, RequestInv(r), pc[r] = "choose",
         Goto(r, AfterChoice(r)), op' = op, UNCHANGED <<nicSeen, old, mac>>,
         nicSeen[r].ip # NoAddr => pick' = pick
  PROVE  Progress(r)'
<1>1. op[r].kind \in {"create", "update"}
  BY DEF RequestInv, Progress
<1>2. CASE op[r].kind = "create"
  <2>1. pc'[r] = "mac"
    BY <1>2 DEF Goto, AfterChoice, TypeOK
  <2> QED
    BY <1>2, <2>1 DEF RequestInv, Progress, IpPut
<1>3. CASE op[r].kind = "update"
  <2>1. pc'[r] = "commit"
    BY <1>3 DEF Goto, AfterChoice, TypeOK
  <2>2. mac[r] \in Macs
    BY <1>3, SeenFacts DEF RequestInv, Progress, NoNic
  <2> QED
    BY <1>3, <2>1, <2>2 DEF RequestInv, Progress, IpPut
<1> QED
  BY <1>1, <1>2, <1>3

LEMMA ShiftInv ==
  ASSUME TypeOK, TypeOK', StoreStep, NEW r \in Requests, RequestInv(r),
         pc[r] = "choose", NeedsIp(r), NEW q \in Seq(IpSnap), q # <<>>,
         \A i \in DOMAIN q : TrueSnap(q[i]) /\ q[i].belongs = NoOne,
         Shift(r, q), op' = op, UNCHANGED <<seen, mac>>
  PROVE  RequestInv(r)'
<1>1. nicSeen' = nicSeen /\ old' = old
  BY DEF seen
<1>2. pick'[r] = Head(q) /\ queue'[r] = Tail(q)
  BY DEF Shift, TypeOK
<1>3. ASSUME NEW i \in DOMAIN q
      PROVE  TrueSnap(q[i])'
  BY SnapStays DEF TrueSnap
<1>4. Head(q) = q[1] /\ 1 \in DOMAIN q
      /\ \A i \in DOMAIN Tail(q) : i + 1 \in DOMAIN q /\ Tail(q)[i] = q[i + 1]
  BY ShiftFacts
<1>5. TrueSnap(pick[r])'
  BY <1>2, <1>3, <1>4 DEF TrueSnap
<1>6. PickIsAllowed(r)'
  BY <1>2, <1>3, <1>4 DEF PickIsAllowed, Provisionable, TrueSnap
<1>7. TrueSnap(old[r])'
  BY <1>1, SnapStays DEF RequestInv, TypeOK, TrueSnap
<1>8. Progress(r)'
  BY <1>1, ChosenProgress DEF Shift, NeedsIp, OnNetwork
<1> QED
  BY <1>1, <1>5, <1>6, <1>7, <1>8, SeenStays DEF RequestInv

LEMMA StepIsStoreStep ==
  ASSUME TypeOK, NEW r \in Requests, Progress(r), Start(r) \/ Step(r)
  PROVE  StoreStep
<1>1. CASE CommitNic(r) \/ LoseNic(r)
  BY <1>1, WriteIsStoreStep DEF CommitNic, LoseNic, Writes, Progress, IpPut
<1>2. CASE CommitDelete(r)
  BY <1>2, DeleteIsStoreStep DEF CommitDelete, Progress, IpPut
<1>3. CASE CommitIp(r)
  BY <1>3, PutIsStoreStep
<1>4. CASE ~(CommitNic(r) \/ LoseNic(r) \/ CommitDelete(r) \/ CommitIp(r))
  <2>1. UNCHANGED store
    BY <1>4 DEF Start, Step, ReadNic, ReadOld, ReadIp, Choose, KeepIp, IpTaken,
                OutOfTries, NextQueued, FindGap, NoGap, FindFreed, SubnetFull,
                MacSupplied, RandomMac, Commit, ConflictNic, FailNic, FailDelete, FailIp
  <2> QED
    BY <2>1, UnchangedIsStoreStep DEF store
<1> QED
  BY <1>1, <1>2, <1>3, <1>4

LEMMA OwnInv ==
  ASSUME IInv, TypeOK', StoreStep, NEW r \in Requests, Start(r) \/ Step(r)
  PROVE  RequestInv(r)'
<1> USE DEF store, search, seen, chosen, loop
<1>a. TypeOK /\ RequestInv(r) /\ Progress(r) /\ StoreIsClean /\ op' = op
  BY OwnVariables DEF IInv, RequestInv
<1>b. WellFormed(op[r]) /\ op[r] \in OpType
  BY OpFacts DEF IInv
<1>1. CASE Start(r)
  <2>1. UNCHANGED <<nicSeen, old, pick, queue, mac>> /\ pc[r] = "idle"
    BY <1>1 DEF Start
  <2>2. pc'[r] = (IF op[r].kind \in {"update", "delete"} THEN "readNic"
                  ELSE IF op[r].addr # NoAddr THEN "readIp" ELSE "choose")
    BY <1>1, <1>a DEF Start, Goto, TypeOK
  <2>3. Progress(r)'
    BY <2>1, <2>2, <1>a, <1>b DEF Progress, WellFormed, OpType, IpPut, NoNic, NoSnap, Unused
  <2> QED
    BY <1>a, <2>1, <2>3, MovesOn
<1>2. CASE ReadNic(r)
  <2>1. pc[r] = "readNic" /\ op[r].kind \in {"update", "delete"} /\ nicSeen[r] = NoNic
        /\ old[r] = NoSnap /\ mac[r] = op[r].mac /\ mac[r] \in Macs
        /\ UNCHANGED <<old, pick, queue, mac, store>>
    BY <1>2, <1>a, <1>b DEF ReadNic, Progress, WellFormed, OpType
  <2>2. CASE nicSeen' = nicSeen
    <3>1. pc'[r] = "done"
      BY <1>2, <1>a, <2>1, <2>2 DEF ReadNic, Finish, TypeOK, NicRow, NoNic
    <3> QED
      BY <1>a, <2>1, <2>2, <3>1, FinishProgress, MovesOn
  <2>3. CASE /\ nics[mac[r]].etag # 0
             /\ nicSeen' = [nicSeen EXCEPT ![r] = nics[mac[r]]]
             /\ Goto(r, IF nics[mac[r]].ip = NoAddr THEN AfterNic(r) ELSE "readOld")
    <3>1. nicSeen'[r] = nics[mac[r]] /\ nics[mac[r]].etag <= clock
          /\ nics[mac[r]].vm \in VMs
          /\ pc'[r] = IF nics[mac[r]].ip = NoAddr THEN AfterNic(r) ELSE "readOld"
      BY <1>a, <2>1, <2>3 DEF Goto, TypeOK, StoreIsClean
    <3>2. SeenNicIsTrue(r)'
      BY <2>1, <2>3, <3>1 DEF SeenNicIsTrue, NoSnap, Unused
    <3>3. PickIsAllowed(r)' /\ TrueSnap(old[r])' /\ TrueSnap(pick[r])'
      BY <1>a, <2>1 DEF RequestInv, PickIsAllowed, Provisionable, TrueSnap, NoNic
    <3>4. Progress(r)'
      BY <1>a, <1>b, <2>1, <2>3, <3>1
         DEF Progress, AfterNic, IpPut, NoSnap, Unused, WellFormed
    <3> QED
      BY <3>2, <3>3, <3>4 DEF RequestInv
  <2> QED
    BY <1>2, <2>1, <2>2, <2>3 DEF ReadNic
<1>3. CASE ReadOld(r)
  <2>1. op[r].kind \in {"update", "delete"} /\ nicSeen[r].ip # NoAddr
        /\ mac[r] = op[r].mac /\ mac[r] \in Macs /\ nicSeen[r].etag # 0
        /\ nicSeen[r].ip \in Addrs
    BY <1>3, <1>a, <1>b DEF ReadOld, Progress, WellFormed, OpType, TypeOK, NicRow
  <2>2. UNCHANGED <<nicSeen, queue, mac, store>> /\ op' = op
        /\ old'[r] = Snap(nicSeen[r].ip) /\ pc'[r] = AfterNic(r)
        /\ pick'[r] = IF op[r].kind = "update" /\ op[r].addr = NoAddr
                      THEN Snap(nicSeen[r].ip) ELSE pick[r]
    BY <1>3, <1>a DEF ReadOld, Goto, TypeOK
  <2>3. old'[r].belongs = ips[nicSeen[r].ip].belongs /\ old'[r].addr = nicSeen[r].ip
    BY <2>2 DEF Snap
  <2>4. TrueSnap(Snap(nicSeen[r].ip))
    BY <1>a, <2>1 DEF TrueSnap, Snap, StoreIsClean
  <2>5. TrueSnap(old[r])' /\ TrueSnap(pick[r])'
    BY <1>a, <2>2, <2>4 DEF TrueSnap, RequestInv
  <2>6. SeenNicIsTrue(r)'
    <3>1. ASSUME old'[r].addr \notin touched \cup {NoAddr}, nics[mac[r]].etag = nicSeen[r].etag
          PROVE  old'[r].belongs = nicSeen[r].vm
      <4>1. nics[mac[r]] = nicSeen[r] /\ nics[mac[r]].etag # 0
        BY <1>a, <2>1, <3>1 DEF RequestInv, SeenNicIsTrue
      <4>2. NicsOwnTheirAddresses
        BY DEF IInv, AddressesAgree
      <4> QED
        BY <2>1, <2>3, <3>1, <4>1, <4>2 DEF NicsOwnTheirAddresses
    <3> QED
      BY <1>a, <2>1, <2>2, <3>1 DEF SeenNicIsTrue, RequestInv
  <2>7. PickIsAllowed(r)'
    BY <1>a, <2>2 DEF PickIsAllowed, RequestInv, Provisionable, TrueSnap, Snap
  <2>8. Progress(r)'
    BY <1>3, <1>a, <1>b, <2>1, <2>2, <2>3
       DEF ReadOld, Progress, AfterNic, IpPut, WellFormed, Snap
  <2> QED
    BY <2>5, <2>6, <2>7, <2>8 DEF RequestInv
<1>4. CASE ReadIp(r)
  <2>1. op[r].addr \in Addrs /\ op[r].addr # NoAddr /\ pc[r] = "readIp"
        /\ UNCHANGED <<nicSeen, old, queue, mac, store>>
    BY <1>4, <1>a, <1>b DEF ReadIp, Progress, OpType
  <2>2. CASE pc'[r] = "done" /\ pick' = pick
    BY <1>a, <2>1, <2>2, FinishProgress, MovesOn
  <2>3. CASE /\ pick' = [pick EXCEPT ![r] = Snap(op[r].addr)]
             /\ op[r].kind \in IpPut \/ op[r].addr = nicSeen[r].ip
                \/ Provisionable(Snap(op[r].addr))
             /\ pc'[r] = IF op[r].kind \in IpPut THEN "commit" ELSE "choose"
    <3>1. pick'[r] = Snap(op[r].addr) /\ pick'[r].addr = op[r].addr
      BY <1>a, <2>3 DEF TypeOK, Snap
    <3>2. TrueSnap(pick[r])'
      BY <1>a, <2>1, <3>1 DEF TrueSnap, Snap, StoreIsClean
    <3>3. TrueSnap(old[r])' /\ SeenNicIsTrue(r)'
      BY <1>a, <2>1 DEF TrueSnap, RequestInv, SeenNicIsTrue
    <3>4. PickIsAllowed(r)'
      BY <1>a, <2>1, <2>3, <3>1 DEF PickIsAllowed, RequestInv, Provisionable, TrueSnap
    <3>5. Progress(r)'
      BY <1>a, <1>b, <2>1, <2>3, <3>1
         DEF Progress, IpPut, OpType, WellFormed
    <3> QED
      BY <3>2, <3>3, <3>4, <3>5 DEF RequestInv
  <2> QED
    BY <1>4, <1>a, <2>2, <2>3 DEF ReadIp, Finish, Goto, TypeOK
<1>5. CASE KeepIp(r)
  <2>1. Progress(r)'
    BY <1>5, <1>a, ChosenProgress DEF KeepIp
  <2> QED
    BY <1>5, <1>a, <2>1, MovesOn DEF KeepIp
<1>6. CASE IpTaken(r) \/ OutOfTries(r) \/ SubnetFull(r)
  <2>1. pc[r] = "choose" /\ pc'[r] = "done"
        /\ UNCHANGED <<nicSeen, old, pick, queue, mac>>
    BY <1>6, <1>a DEF IpTaken, OutOfTries, SubnetFull, Searching, Finish, TypeOK
  <2> QED
    BY <1>a, <2>1, FinishProgress, MovesOn
<1>7. CASE NextQueued(r)
  <2>1. queue[r] \in Seq(IpSnap)
        /\ \A i \in DOMAIN queue[r] : TrueSnap(queue[r][i]) /\ queue[r][i].belongs = NoOne
    BY <1>a DEF TypeOK, RequestInv, PickIsAllowed
  <2> QED
    BY <1>7, <1>a, <2>1, ShiftInv DEF NextQueued
<1>8. CASE FindGap(r)
  <2>1. PICK a \in ProvRange, n \in 1 .. GapLength :
          IsFirstGap(a, n) /\ Shift(r, [i \in 1 .. n |-> Unused(a + i - 1)])
    BY <1>8 DEF FindGap
  <2> DEFINE q == [i \in 1 .. n |-> Unused(a + i - 1)]
  <2>2. q \in Seq(IpSnap) /\ q # <<>>
    BY <2>1, GapQueue
  <2>3. ASSUME NEW i \in DOMAIN q
        PROVE  TrueSnap(q[i]) /\ q[i].belongs = NoOne
    <3>1. i \in 1 .. n /\ q[i] = Unused(a + i - 1) /\ n \in Nat \ {0}
      BY <2>3, LimitsAssumption
    <3>2. a + i - 1 \in Addrs
      BY <2>1, <3>1, AddrFacts DEF IsFirstGap
    <3>3. ips[a + i - 1].etag = 0 => ips[a + i - 1].belongs = NoOne
      BY <1>a, <3>2 DEF StoreIsClean
    <3> HIDE DEF q
    <3> QED
      BY <1>a, <3>1, <3>3 DEF TrueSnap, Unused, TypeOK
  <2> HIDE DEF q
  <2>4. Shift(r, q)
    BY <2>1 DEF q
  <2> QED
    BY <1>8, <1>a, <2>2, <2>3, <2>4, ShiftInv DEF FindGap, Searching
<1>9. CASE FindFreed(r)
  <2>1. PICK q \in FreedQueues : Shift(r, q)
    BY <1>9 DEF FindFreed
  <2>2. q \in Seq(IpSnap) /\ q # <<>>
        /\ \A i \in DOMAIN q : \E a \in FreedInRange : q[i] = Snap(a)
    BY <1>a, FreedQueue
  <2>3. ASSUME NEW i \in DOMAIN q
        PROVE  TrueSnap(q[i]) /\ q[i].belongs = NoOne
    <3>1. PICK a \in FreedInRange : q[i] = Snap(a)
      BY <2>2, <2>3
    <3> QED
      BY <1>a, <3>1, AddrFacts DEF FreedInRange, Freed, Snap, TrueSnap, StoreIsClean
  <2> QED
    BY <1>9, <1>a, <2>1, <2>2, <2>3, ShiftInv DEF FindFreed, Searching
<1>10. CASE NoGap(r) \/ ConflictNic(r) \/ FailNic(r) \/ LoseNic(r)
  <2>1. op[r].kind \in {"create", "update"} /\ pc[r] \in {"choose", "commit"}
        /\ UNCHANGED <<nicSeen, old, pick, queue, mac>>
    BY <1>10, <1>a DEF NoGap, Searching, ConflictNic, FailNic, LoseNic, Writes, Progress
  <2>2. \E e : Retry(r, e)
    BY <1>10 DEF NoGap, ConflictNic, FailNic, LoseNic
  <2> QED
    BY <1>a, <2>1, <2>2, RetryProgress, MovesOn
<1>11. CASE MacSupplied(r)
  <2>1. pc[r] = "mac" /\ pc'[r] \in {"commit", "done"} /\ mac[r] \in Macs
        /\ UNCHANGED <<nicSeen, old, pick, queue, mac>>
    BY <1>11, <1>a, <1>b DEF MacSupplied, Progress, Goto, Finish, TypeOK
  <2>2. Progress(r)'
    BY <1>a, <2>1 DEF Progress, IpPut
  <2> QED
    BY <1>a, <2>1, <2>2, MovesOn
<1>12. CASE RandomMac(r)
  <2>1. pc[r] = "mac" /\ op[r].kind = "create" /\ op[r].mac = AnyMac
        /\ nicSeen[r] = NoNic /\ old[r].addr = NoAddr
        /\ UNCHANGED <<nicSeen, old, pick, queue, store>>
    BY <1>12, <1>a DEF RandomMac, Progress, NoNic
  <2>2. pc'[r] \in {"commit", "done"}
    BY <1>12, <1>a DEF RandomMac, Goto, Finish, TypeOK
  <2>3. pc'[r] = "commit" => mac'[r] # AnyMac
    BY <1>12, <1>a, AddrFacts DEF RandomMac, NextMacs, Goto, Finish, TypeOK, Macs, AnyMac
  <2>4. mac'[r] \in Macs \cup {AnyMac}
    BY DEF TypeOK
  <2>5. Progress(r)'
    BY <1>a, <2>1, <2>2, <2>3, <2>4 DEF Progress, IpPut
  <2>6. SeenNicIsTrue(r)'
    BY <1>a, <2>1 DEF SeenNicIsTrue, RequestInv, NoNic
  <2> QED
    BY <1>a, <2>1, <2>5, <2>6, PickStays DEF RequestInv
<1>13. CASE CommitNic(r) \/ CommitDelete(r) \/ CommitIp(r) \/ FailDelete(r) \/ FailIp(r)
  <2>1. pc[r] = "commit" /\ pc'[r] = "done"
        /\ UNCHANGED <<nicSeen, old, pick, queue, mac>>
    BY <1>13, <1>a DEF CommitNic, Writes, CommitDelete, CommitIp, FailDelete, FailIp,
                       Answer, Finish, TypeOK
  <2> QED
    BY <1>a, <2>1, FinishProgress, MovesOn
<1> QED
  BY <1>1, <1>2, <1>3, <1>4, <1>5, <1>6, <1>7, <1>8, <1>9, <1>10, <1>11, <1>12, <1>13
     DEF Step, Choose, Commit

-----------------------------------------------------------------------------
(* The two buckets keep agreeing.                                          *)

LEMMA InitInv == Init => IInv
<1> SUFFICES ASSUME Init PROVE IInv
  OBVIOUS
<1>1. TypeOK
  BY InitType
<1>2. PICK s \in StartNics, others \in StartOther :
        /\ nics = [m \in Macs |-> IF s[m].vm = NoOne THEN NoNic
                                  ELSE [vm |-> s[m].vm, ip |-> s[m].ip, etag |-> 1]]
        /\ ips = StartIps(s, others)
  BY DEF Init
<1>3. /\ s \in [Macs -> NicStart]
      /\ \A m \in Macs : s[m].vm = NoOne => s[m].ip = NoAddr
      /\ \A m, n \in Macs : s[m].ip = s[n].ip /\ s[m].ip # NoAddr => m = n
  BY StartAssumption
<1>4. \A m \in Macs : /\ nics[m].ip = s[m].ip
                      /\ nics[m].etag # 0 => nics[m].vm = s[m].vm /\ s[m].vm # NoOne
                      /\ nics[m].etag = 0 => nics[m] = NoNic
                      /\ s[m].vm # NoOne => nics[m].vm = s[m].vm
                      /\ nics[m].etag \in {0, 1}
  BY <1>2, <1>3 DEF NoNic
<1>5. ASSUME NEW m \in Macs, s[m].vm # NoOne, s[m].ip \in Addrs
      PROVE  ips[s[m].ip].belongs = s[m].vm
  <2>1. (CHOOSE n \in Macs : s[n].vm # NoOne /\ s[n].ip = s[m].ip) = m
    BY <1>3, <1>5, AddrFacts
  <2> QED
    BY <1>2, <1>5, <2>1 DEF StartIps
<1>6. ASSUME NEW a \in Addrs
      PROVE  /\ ips[a].etag \in {0, 1}
             /\ ips[a].etag = 0 => ips[a].belongs = NoOne
             /\ ips[a].belongs \in VMs => \E m \in Macs : s[m].vm # NoOne /\ s[m].ip = a
  BY <1>2, <1>6, OwnersAssumption DEF StartIps, NoIp
<1>7. StoreIsClean
  BY <1>1, <1>3, <1>4, <1>6 DEF StoreIsClean, Init, TypeOK, NicStart
<1>8. AddressesAgree
  <2>1. UniqueAddresses
    BY <1>3, <1>4 DEF UniqueAddresses
  <2>2. NicsOwnTheirAddresses
    BY <1>3, <1>4, <1>5 DEF NicsOwnTheirAddresses, NicStart
  <2>3. NoLeakedAddress
    BY <1>4, <1>5, <1>6 DEF NoLeakedAddress
  <2> QED
    BY <2>1, <2>2, <2>3 DEF AddressesAgree
<1>9. ASSUME NEW r \in Requests
      PROVE  RequestInv(r)
  <2>1. pc[r] = "idle" /\ nicSeen[r] = NoNic /\ old[r] = NoSnap /\ pick[r] = NoSnap
        /\ queue[r] = <<>> /\ mac[r] = op[r].mac /\ clock = 1
    BY DEF Init
  <2>2. TrueSnap(old[r]) /\ TrueSnap(pick[r])
    BY <2>1 DEF TrueSnap, NoSnap, Unused
  <2> QED
    BY <2>1, <2>2 DEF RequestInv, Progress, SeenNicIsTrue, PickIsAllowed, NoNic,
                      NoSnap, Unused
<1> QED
  BY <1>1, <1>7, <1>8, <1>9 DEF IInv

\* A NIC row that still has the etag that was read is the row that was read.
LEMMA FittingNic ==
  ASSUME IInv, NEW r \in Requests, mac[r] \in Macs, NicFits(r)
  PROVE  nics[mac[r]] = nicSeen[r]
  BY DEF IInv, NicFits, StoreIsClean, RequestInv, SeenNicIsTrue

LEMMA WriteFacts ==
  ASSUME IInv, NEW r \in Requests, Writes(r)
  PROVE  mac[r] \in Macs /\ NewVm(r) \in VMs
<1>1. op[r] \in OpType /\ WellFormed(op[r]) /\ RequestInv(r) /\ TypeOK
  BY OpFacts DEF IInv
<1>2. mac[r] \in Macs
  BY <1>1 DEF Writes, RequestInv, Progress, IpPut
<1>3. CASE op[r].kind = "create"
  BY <1>1, <1>2, <1>3 DEF NewVm, WellFormed, OpType
<1>4. CASE op[r].kind = "update"
  <2>1. nicSeen[r].vm \in VMs
    BY <1>1, <1>4 DEF Writes, RequestInv, Progress, SeenNicIsTrue
  <2> QED
    BY <1>1, <1>2, <2>1 DEF NewVm, OpType
<1> QED
  BY <1>2, <1>3, <1>4 DEF Writes

\* The address a fitting batch takes is held by no other NIC.
LEMMA PickIsUnheld ==
  ASSUME IInv, NEW r \in Requests, Writes(r), BatchFits(r), NEW m \in Macs,
         m # mac[r], nics[m].ip = pick[r].addr, pick[r].addr # NoAddr
  PROVE  pick[r].addr \in touched
<1> SUFFICES ASSUME pick[r].addr \notin touched PROVE FALSE
  OBVIOUS
<1>1. mac[r] \in Macs /\ nics[mac[r]] = nicSeen[r]
  BY WriteFacts, FittingNic DEF BatchFits
<1>2. nics[m].etag # 0 /\ nics[m].vm \in VMs
  BY DEF IInv, StoreIsClean, NoNic
<1>3. ips[pick[r].addr].belongs = nics[m].vm
  BY <1>2 DEF IInv, AddressesAgree, NicsOwnTheirAddresses
<1>4. pick[r].belongs = nics[m].vm
  BY <1>3 DEF IInv, RequestInv, TrueSnap, BatchFits, PickFits
<1>5. ~Provisionable(pick[r])
  BY <1>2, <1>4, OwnersAssumption DEF Provisionable
<1>6. pick[r].addr = nics[mac[r]].ip
  BY <1>1, <1>5 DEF IInv, RequestInv, PickIsAllowed, Writes, IpPut
<1> QED
  BY <1>1, <1>6 DEF IInv, AddressesAgree, UniqueAddresses

\* The address a NIC row had when it was read is remembered at the commit.
LEMMA OldIsOwn ==
  ASSUME IInv, NEW r \in Requests, pc[r] = "commit", mac[r] \in Macs, NicFits(r)
  PROVE  /\ old[r].addr = nics[mac[r]].ip
         /\ old[r].addr \notin touched \cup {NoAddr} => old[r].belongs = nicSeen[r].vm
<1>1. nics[mac[r]] = nicSeen[r]
  BY FittingNic
<1> QED
  BY <1>1 DEF IInv, RequestInv, Progress, SeenNicIsTrue, NicFits

LEMMA WriteAgrees ==
  ASSUME IInv, NEW r \in Requests, Writes(r), BatchFits(r), WriteNicAndIp(r)
  PROVE  AddressesAgree' /\ StoreIsClean'
<1> DEFINE M == mac[r]
           A == pick[r].addr
           O == old[r].addr
           V == NewVm(r)
<1>1. TypeOK /\ M \in Macs /\ V \in VMs /\ AddressesAgree /\ StoreIsClean
  BY WriteFacts DEF IInv
<1>2. /\ nics[M] = nicSeen[r] /\ O = nics[M].ip
      /\ O \notin touched \cup {NoAddr} => old[r].belongs = nicSeen[r].vm
  BY <1>1, FittingNic, OldIsOwn DEF BatchFits, Writes
<1>3. /\ nics'[M] = [vm |-> V, ip |-> A, etag |-> clock + 1]
      /\ \A m \in Macs \ {M} : nics'[m] = nics[m]
      /\ touched' = touched /\ clock' = clock + 1
  BY <1>1 DEF WriteNicAndIp, TypeOK
<1>4. /\ A # NoAddr => A \in Addrs /\ ips'[A].belongs = V /\ ips'[A].etag = clock + 1
      /\ \A a \in Addrs \ {A} :
           IF Releases(r) /\ a = O
           THEN ips'[a].belongs = NoOne /\ ips'[a].etag = clock + 1
           ELSE ips'[a] = ips[a]
  BY <1>1 DEF WriteNicAndIp, Unassigned, TypeOK, IpSnap
<1>5. \A m \in Macs \ {M} : nics[m].ip = A /\ A # NoAddr => A \in touched
  BY PickIsUnheld
<1> HIDE DEF M, A, O, V
<1>6. UniqueAddresses'
  BY <1>1, <1>3, <1>5 DEF AddressesAgree, UniqueAddresses
<1>7. NicsOwnTheirAddresses'
  <2> SUFFICES ASSUME NEW m \in Macs, nics'[m].etag # 0,
                      nics'[m].ip \notin touched' \cup {NoAddr}
               PROVE  ips'[nics'[m].ip].belongs = nics'[m].vm
    BY DEF NicsOwnTheirAddresses
  <2>1. CASE m = M
    BY <1>3, <1>4, <2>1
  <2>2. CASE m # M
    <3>1. nics'[m] = nics[m] /\ nics[m].ip \in Addrs /\ nics[m].ip # A
      BY <1>1, <1>3, <1>5, <2>2 DEF TypeOK, NicRow
    <3>2. nics[m].ip # O
      BY <1>1, <1>2, <1>3, <2>2, <3>1 DEF AddressesAgree, UniqueAddresses
    <3> QED
      BY <1>1, <1>3, <1>4, <3>1, <3>2 DEF AddressesAgree, NicsOwnTheirAddresses
  <2> QED
    BY <2>1, <2>2
<1>8. NoLeakedAddress'
  <2> SUFFICES ASSUME NEW a \in Addrs, a \notin touched', ips'[a].belongs \in VMs
               PROVE  \E m \in Macs : nics'[m].ip = a /\ nics'[m].vm = ips'[a].belongs
    BY DEF NoLeakedAddress
  <2>1. CASE a = A
    BY <1>1, <1>3, <1>4, <2>1, AddrFacts
  <2>2. CASE a # A
    <3>1. ~(Releases(r) /\ a = O) /\ ips'[a] = ips[a]
      BY <1>4, <2>2, OwnersAssumption
    <3>2. PICK m \in Macs : nics[m].ip = a /\ nics[m].vm = ips[a].belongs
      BY <1>1, <1>3, <3>1 DEF AddressesAgree, NoLeakedAddress
    <3>3. m # M
      <4> SUFFICES ASSUME m = M PROVE FALSE
        OBVIOUS
      <4>1. a = O /\ O \notin touched \cup {NoAddr} /\ A # O
        BY <1>2, <1>3, <2>2, <3>2, AddrFacts
      <4> QED
        BY <1>2, <3>1, <4>1 DEF Releases, A, O
    <3> QED
      BY <1>3, <3>1, <3>2, <3>3
  <2> QED
    BY <2>1, <2>2
<1>9. StoreIsClean'
  <2>1. clock \in Nat /\ nics \in [Macs -> NicRow] /\ ips \in [Addrs -> IpRow]
    BY <1>1 DEF TypeOK
  <2>2. ASSUME NEW m \in Macs
        PROVE  /\ nics'[m].etag <= clock'
               /\ nics'[m].etag = 0 => nics'[m] = NoNic
               /\ nics'[m].etag # 0 => nics'[m].vm \in VMs
    BY <1>1, <1>3, <2>1 DEF StoreIsClean, NicRow
  <2>3. ASSUME NEW a \in Addrs
        PROVE  /\ ips'[a].etag <= clock'
               /\ ips'[a].etag = 0 => ips'[a].belongs = NoOne
    BY <1>1, <1>3, <1>4, <2>1, AddrFacts DEF StoreIsClean, IpRow
  <2> QED
    BY <2>2, <2>3 DEF StoreIsClean
<1> QED
  BY <1>6, <1>7, <1>8, <1>9 DEF AddressesAgree

LEMMA DeleteAgrees ==
  ASSUME IInv, NEW r \in Requests, CommitDelete(r)
  PROVE  AddressesAgree' /\ StoreIsClean'
<1> DEFINE M == mac[r]
           O == old[r].addr
<1>1. /\ TypeOK /\ M \in Macs /\ AddressesAgree /\ StoreIsClean
      /\ op[r].kind = "delete" /\ pc[r] = "commit"
  BY DEF CommitDelete, IInv, RequestInv, Progress, IpPut
<1>2. NicFits(r) => /\ nics[M] = nicSeen[r] /\ O = nics[M].ip
                    /\ O \notin touched \cup {NoAddr} => old[r].belongs = nicSeen[r].vm
  BY <1>1, FittingNic, OldIsOwn
<1>3. /\ nics'[M] = NoNic /\ clock' = clock + 1
      /\ \A m \in Macs \ {M} : nics'[m] = nics[m]
      /\ IF NicFits(r) THEN touched' = touched
         ELSE touched' = touched \cup ({nics[M].ip, O} \ {NoAddr})
  BY <1>1 DEF CommitDelete, TypeOK
<1>4. \A a \in Addrs :
        IF Releases(r) /\ a = O
        THEN ips'[a].belongs = NoOne /\ ips'[a].etag = clock + 1
        ELSE ips'[a] = ips[a]
  BY <1>1 DEF CommitDelete, Unassigned, TypeOK
<1>5. Releases(r) <=> O # NoAddr /\ old[r].belongs = nicSeen[r].vm
  BY <1>1 DEF Releases
<1> HIDE DEF M, O
<1>6. UniqueAddresses'
  BY <1>1, <1>3 DEF AddressesAgree, UniqueAddresses, NoNic
<1>7. NicsOwnTheirAddresses'
  <2> SUFFICES ASSUME NEW m \in Macs, nics'[m].etag # 0,
                      nics'[m].ip \notin touched' \cup {NoAddr}
               PROVE  ips'[nics'[m].ip].belongs = nics'[m].vm
    BY DEF NicsOwnTheirAddresses
  <2>1. m # M /\ nics'[m] = nics[m] /\ nics[m].ip \in Addrs /\ nics[m].ip \notin touched
    BY <1>1, <1>3 DEF NoNic, TypeOK, NicRow
  <2>2. nics[m].ip # O
    BY <1>1, <1>2, <1>3, <2>1, AddrFacts DEF AddressesAgree, UniqueAddresses
  <2> QED
    BY <1>1, <1>4, <2>1, <2>2, AddrFacts DEF AddressesAgree, NicsOwnTheirAddresses
<1>8. NoLeakedAddress'
  <2> SUFFICES ASSUME NEW a \in Addrs, a \notin touched', ips'[a].belongs \in VMs
               PROVE  \E m \in Macs : nics'[m].ip = a /\ nics'[m].vm = ips'[a].belongs
    BY DEF NoLeakedAddress
  <2>1. ~(Releases(r) /\ a = O) /\ ips'[a] = ips[a] /\ a \notin touched /\ a # NoAddr
    BY <1>3, <1>4, OwnersAssumption, AddrFacts
  <2>2. PICK m \in Macs : nics[m].ip = a /\ nics[m].vm = ips[a].belongs
    BY <1>1, <2>1 DEF AddressesAgree, NoLeakedAddress
  <2>3. m # M
    BY <1>2, <1>3, <1>5, <2>1, <2>2
  <2> QED
    BY <1>3, <2>1, <2>2, <2>3
<1>9. StoreIsClean'
  <2>1. clock \in Nat /\ nics \in [Macs -> NicRow] /\ ips \in [Addrs -> IpRow]
    BY <1>1 DEF TypeOK
  <2>2. ASSUME NEW m \in Macs
        PROVE  /\ nics'[m].etag <= clock'
               /\ nics'[m].etag = 0 => nics'[m] = NoNic
               /\ nics'[m].etag # 0 => nics'[m].vm \in VMs
    BY <1>1, <1>3, <2>1 DEF StoreIsClean, NicRow, NoNic
  <2>3. ASSUME NEW a \in Addrs
        PROVE  /\ ips'[a].etag <= clock'
               /\ ips'[a].etag = 0 => ips'[a].belongs = NoOne
    BY <1>1, <1>3, <1>4, <2>1 DEF StoreIsClean, IpRow
  <2> QED
    BY <2>2, <2>3 DEF StoreIsClean
<1> QED
  BY <1>6, <1>7, <1>8, <1>9 DEF AddressesAgree

LEMMA PutAgrees ==
  ASSUME IInv, NEW r \in Requests, CommitIp(r)
  PROVE  AddressesAgree' /\ StoreIsClean'
<1> DEFINE A == op[r].addr
<1>1. TypeOK /\ AddressesAgree /\ StoreIsClean /\ A \in Addrs /\ pick[r].addr = A
  BY OpFacts DEF CommitIp, IInv, RequestInv, Progress, WellFormed, OpType
<1>2. /\ nics' = nics /\ clock' = clock + 1 /\ clock \in Nat
      /\ \A a \in Addrs \ {A} : ips'[a] = ips[a]
      /\ ips'[A].etag = clock + 1
      /\ touched \subseteq touched'
  BY <1>1 DEF CommitIp, PutRow, TypeOK
<1>3. A \in touched' \/ ips'[A].belongs = ips[A].belongs
  <2>1. CASE op[r].kind # "reserve"
    BY <2>1 DEF CommitIp
  <2>2. CASE op[r].kind = "reserve"
    <3>1. ips'[A].belongs = pick[r].belongs
      BY <1>1, <2>2 DEF CommitIp, PutRow, TypeOK
    <3>2. pick[r].belongs = ips[A].belongs
      BY <1>1, AddrFacts DEF CommitIp, PickFits, IInv, RequestInv, TrueSnap
    <3> QED
      BY <3>1, <3>2
  <2> QED
    BY <2>1, <2>2
<1> HIDE DEF A
<1>4. UniqueAddresses'
  BY <1>1, <1>2 DEF AddressesAgree, UniqueAddresses
<1>5. NicsOwnTheirAddresses'
  <2> SUFFICES ASSUME NEW m \in Macs, nics[m].etag # 0, nics[m].ip \notin touched' \cup {NoAddr}
               PROVE  ips'[nics[m].ip].belongs = nics[m].vm
    BY <1>2 DEF NicsOwnTheirAddresses
  <2>1. nics[m].ip \in Addrs /\ nics[m].ip \notin touched
    BY <1>1, <1>2 DEF TypeOK, NicRow
  <2> QED
    BY <1>1, <1>2, <1>3, <2>1 DEF AddressesAgree, NicsOwnTheirAddresses
<1>6. NoLeakedAddress'
  BY <1>1, <1>2, <1>3 DEF AddressesAgree, NoLeakedAddress
<1>7. StoreIsClean'
  <2>1. nics \in [Macs -> NicRow] /\ ips \in [Addrs -> IpRow]
    BY <1>1 DEF TypeOK
  <2>2. ASSUME NEW m \in Macs
        PROVE  nics[m].etag <= clock'
    BY <1>1, <1>2, <2>1 DEF StoreIsClean, NicRow
  <2>3. ASSUME NEW a \in Addrs
        PROVE  /\ ips'[a].etag <= clock'
               /\ ips'[a].etag = 0 => ips'[a].belongs = NoOne
    BY <1>1, <1>2, <2>1 DEF StoreIsClean, IpRow
  <2> QED
    BY <1>1, <1>2, <2>2, <2>3 DEF StoreIsClean
<1> QED
  BY <1>4, <1>5, <1>6, <1>7 DEF AddressesAgree

\* A step that writes nothing keeps what concerns the store alone.
LEMMA UnchangedAgrees ==
  ASSUME IInv, UNCHANGED store
  PROVE  AddressesAgree' /\ StoreIsClean'
  BY DEF IInv, store, AddressesAgree, UniqueAddresses, NicsOwnTheirAddresses,
         NoLeakedAddress, StoreIsClean

LEMMA StepAgrees ==
  ASSUME IInv, NEW r \in Requests, Start(r) \/ Step(r)
  PROVE  AddressesAgree' /\ StoreIsClean'
<1>1. CASE CommitNic(r) \/ LoseNic(r)
  BY <1>1, WriteAgrees DEF CommitNic, LoseNic
<1>2. CASE CommitDelete(r)
  BY <1>2, DeleteAgrees
<1>3. CASE CommitIp(r)
  BY <1>3, PutAgrees
<1>4. CASE ~(CommitNic(r) \/ LoseNic(r) \/ CommitDelete(r) \/ CommitIp(r))
  <2>1. UNCHANGED store
    BY <1>4 DEF Start, Step, ReadNic, ReadOld, ReadIp, Choose, KeepIp, IpTaken,
                OutOfTries, NextQueued, FindGap, NoGap, FindFreed, SubnetFull,
                MacSupplied, RandomMac, Commit, ConflictNic, FailNic, FailDelete, FailIp
  <2> QED
    BY <2>1, UnchangedAgrees
<1> QED
  BY <1>1, <1>2, <1>3, <1>4

-----------------------------------------------------------------------------
(* The theorems.                                                           *)

LEMMA StepInv == IInv /\ [Next]_vars => IInv'
<1> SUFFICES ASSUME IInv, [Next]_vars PROVE IInv'
  OBVIOUS
<1>1. ASSUME NEW r \in Requests, Start(r) \/ Step(r)
      PROVE  IInv'
  <2>1. TypeOK /\ Progress(r) /\ \A q \in Requests : RequestInv(q)
    BY DEF IInv, RequestInv
  <2>2. TypeOK'
    BY <1>1, <2>1, TypeStep
  <2>3. StoreStep
    BY <1>1, <2>1, StepIsStoreStep
  <2>4. RequestInv(r)'
    BY <1>1, <2>2, <2>3, OwnInv
  <2>5. ASSUME NEW q \in Requests, q # r
        PROVE  RequestInv(q)'
    BY <1>1, <2>1, <2>2, <2>3, <2>5, OwnVariables, OthersStay
  <2> QED
    BY <1>1, <2>2, <2>4, <2>5, StepAgrees DEF IInv
<1>2. CASE UNCHANGED vars
  BY <1>2 DEF vars, store, search, seen, chosen, loop, IInv, TypeOK, StoreIsClean,
              AddressesAgree, UniqueAddresses, NicsOwnTheirAddresses, NoLeakedAddress,
              RequestInv, Progress, SeenNicIsTrue, PickIsAllowed, TrueSnap
<1> QED
  BY <1>1, <1>2 DEF Next, AllDone

\* The invariant holds in every reachable state of every instance.
THEOREM Invariant == Spec => []IInv
  BY InitInv, StepInv, PTL DEF Spec

\* Every variable keeps its type, whatever the requests do.
THEOREM TypeCorrect == Spec => []TypeOK
<1>1. IInv => TypeOK
  BY DEF IInv
<1> QED
  BY <1>1, Invariant, PTL

\* No two NICs hold one address unless one of them was overridden.
THEOREM AddressesUnique == Spec => []UniqueAddresses
<1>1. IInv => UniqueAddresses
  BY DEF IInv, AddressesAgree
<1> QED
  BY <1>1, Invariant, PTL

\* The record of an address names the VM of the NIC that holds it.
THEOREM AddressesOwned == Spec => []NicsOwnTheirAddresses
<1>1. IInv => NicsOwnTheirAddresses
  BY DEF IInv, AddressesAgree
<1> QED
  BY <1>1, Invariant, PTL

\* No address stays with a VM that has no NIC for it.
THEOREM NothingLeaks == Spec => []NoLeakedAddress
<1>1. IInv => NoLeakedAddress
  BY DEF IInv, AddressesAgree
<1> QED
  BY <1>1, Invariant, PTL

\* A batch that frees an address frees that of its request's NIC.
LEMMA FreedIsOld ==
  ASSUME IInv, NEW r \in Requests, NEW a \in Addrs,
         \/ Writes(r) /\ WriteNicAndIp(r)
         \/ CommitDelete(r),
         ips[a].belongs \in VMs, ips'[a].belongs = NoOne
  PROVE  Releases(r) /\ a = old[r].addr
<1>1. TypeOK /\ NoOne \notin VMs
  BY OwnersAssumption DEF IInv
<1>2. CASE Writes(r) /\ WriteNicAndIp(r)
  BY <1>1, <1>2, WriteFacts DEF WriteNicAndIp
<1>3. CASE CommitDelete(r)
  BY <1>1, <1>3 DEF CommitDelete, TypeOK
<1> QED
  BY <1>2, <1>3

\* A request on a NIC frees only the address its NIC has when the batch commits, and only
\* while that is its VM's, whatever PUTs of the IP have given away between the reads:
\* the etag of the NIC ties the address to it, the etag of the address its owner.
THEOREM NobodyElsesFreed == Spec => FreesItsOwn
<1>1. IInv /\ [Next]_vars =>
        [\A r \in Requests, a \in Addrs :
           /\ commits'[r] # commits[r] /\ op[r].kind \notin IpPut
           /\ op[r].kind = "delete" => op[r].cond
           /\ ips[a].belongs \in VMs /\ ips'[a].belongs = NoOne
           => nics[mac[r]].ip = a /\ nics[mac[r]].vm = ips[a].belongs]_vars
  <2> SUFFICES ASSUME IInv, Next, NEW r \in Requests, NEW a \in Addrs,
                      commits'[r] # commits[r], op[r].kind \notin IpPut,
                      op[r].kind = "delete" => op[r].cond,
                      ips[a].belongs \in VMs, ips'[a].belongs = NoOne
               PROVE  nics[mac[r]].ip = a /\ nics[mac[r]].vm = ips[a].belongs
    BY DEF vars, store
  <2>1. PICK q \in Requests : Start(q) \/ Step(q)
    BY DEF Next, AllDone, vars, store
  <2>2. CommitNic(q) \/ LoseNic(q) \/ CommitDelete(q) \/ CommitIp(q)
    BY <2>1 DEF Start, Step, ReadNic, ReadOld, ReadIp, Choose, KeepIp, IpTaken, OutOfTries, NextQueued,
                FindGap, NoGap, FindFreed, SubnetFull, MacSupplied, RandomMac, Commit,
                ConflictNic, FailNic, FailDelete, FailIp, store
  <2>3. q = r
    BY <2>2 DEF CommitNic, LoseNic, WriteNicAndIp, CommitDelete, CommitIp, IInv, TypeOK
  <2>4. \/ Writes(r) /\ BatchFits(r) /\ WriteNicAndIp(r)
        \/ CommitDelete(r)
    BY <2>2, <2>3 DEF CommitNic, LoseNic, CommitIp
  <2>5. Releases(r) /\ a = old[r].addr
    BY <2>4, FreedIsOld
  <2>6. NicFits(r) /\ OldFits(r) /\ pc[r] = "commit"
    BY <2>4 DEF BatchFits, Writes, CommitDelete, DeleteFits
  <2>7. mac[r] \in Macs
    BY <2>6 DEF IInv, RequestInv, Progress
  <2>8. nics[mac[r]] = nicSeen[r] /\ old[r].addr = nics[mac[r]].ip
    BY <2>6, <2>7, FittingNic, OldIsOwn
  <2>9. old[r].belongs = ips[a].belongs
    BY <2>5, <2>6 DEF IInv, RequestInv, TrueSnap, OldFits, Releases
  <2> QED
    BY <2>5, <2>8, <2>9 DEF Releases
<1> QED
  BY <1>1, Invariant, PTL DEF Spec, FreesItsOwn
-----------------------------------------------------------------------------
(* The search for an address: what a request has found stays found, since  *)
(* no record is ever removed.                                              *)

Anchors   == Present(ProvMin - 1) /\ Present(ProvMax + 1)
RangeUsed == \A a \in ProvRange : Present(a)

\* What a request has of its search: records are looked for when no gap was left.
SearchInv(r) ==
  /\ noGap[r] => RangeUsed
  /\ \A i \in DOMAIN queue[r] :
       queue[r][i].addr # NoAddr /\ (queue[r][i].etag # 0 => noGap[r])
  /\ OnNetwork(r) /\ pick[r].etag # 0 => noGap[r]
  /\ OnNetwork(r) /\ pc[r] \in {"mac", "commit"} /\ op[r].kind \in {"create", "update"}
       => pick[r].addr # NoAddr

GapInv == IInv /\ Anchors /\ \A r \in Requests : SearchInv(r)

LEMMA FirstUnused ==
  ASSUME NEW a \in ProvRange, ~Present(a)
  PROVE  \E b \in ProvRange : ~Present(b) /\ \A c \in ProvRange : c < b => Present(c)
<1> DEFINE S == {b \in ProvRange : ~Present(b)}
<1>1. S \subseteq Nat /\ a \in S
  BY AddrFacts
<1> HIDE DEF S
<1>2. PICK b \in S : \A c \in S : ~(<<c, b>> \in OpToRel(<, Nat))
  BY <1>1, NatLessThanWellFounded, WFMin, Zenon
<1>3. \A c \in S : ~(c < b)
  BY <1>1, <1>2 DEF OpToRel
<1> QED
  BY <1>3 DEF S

\* With a record on each side of the range, a gap is seen wherever there is one.
LEMMA NoGapIsUsed ==
  ASSUME Anchors, GapStarts = {}
  PROVE  RangeUsed
<1> SUFFICES ASSUME NEW x \in ProvRange, ~Present(x) PROVE FALSE
  BY DEF RangeUsed
<1>1. PICK a \in ProvRange : ~Present(a) /\ \A c \in ProvRange : c < a => Present(c)
  BY FirstUnused
<1>2. a \in Nat /\ a - 1 \in Int /\ ProvMax \in Nat /\ ProvMin \in Nat /\ ProvMin <= a /\ a <= ProvMax
  BY SubnetAssumption DEF ProvRange
<1>3. Present(a - 1)
  <2>1. CASE a = ProvMin
    BY <2>1 DEF Anchors
  <2>2. CASE a # ProvMin
    <3>1. a - 1 \in ProvRange /\ a - 1 < a
      BY <1>2, <2>2 DEF ProvRange
    <3> QED
      BY <1>1, <3>1
  <2> QED
    BY <2>1, <2>2
<1>4. ProvMax + 1 \in (a + 1) .. (ProvMax + 1) /\ Present(ProvMax + 1)
  BY <1>2 DEF Anchors
<1>5. a \in GapStarts
  BY <1>1, <1>3, <1>4 DEF GapStarts
<1> QED
  BY <1>5

LEMMA RecordsRemain ==
  ASSUME TypeOK, TypeOK', StoreStep, NEW a \in Addrs, Present(a)
  PROVE  Present(a)'
<1>1. clock \in Nat /\ clock' \in Nat
  BY DEF TypeOK
<1>2. ips'[a] = ips[a] \/ (clock < clock' /\ ips'[a].etag = clock')
  BY DEF StoreStep
<1>3. clock < clock' => clock' # 0
  BY <1>1
<1> QED
  BY <1>2, <1>3 DEF Present

LEMMA RangeRemains ==
  ASSUME TypeOK, TypeOK', StoreStep
  PROVE  (Anchors => Anchors') /\ (RangeUsed => RangeUsed')
<1>1. ProvMin - 1 \in Addrs /\ ProvMax + 1 \in Addrs /\ ProvRange \subseteq Addrs
  BY SubnetAssumption DEF Addrs, ProvRange
<1> QED
  BY <1>1, RecordsRemain DEF Anchors, RangeUsed

\* Only a search that sees no gap says so, and no step takes it back.
LEMMA OwnNoGap ==
  ASSUME TypeOK, NEW r \in Requests, Start(r) \/ Step(r)
  PROVE  /\ \A q \in Requests \ {r} : noGap'[q] = noGap[q]
         /\ noGap[r] => noGap'[r]
         /\ ~NoGap(r) => noGap' = noGap
<1>1. ~NoGap(r) => noGap' = noGap
  BY DEF Start, Step, ReadNic, ReadOld, ReadIp, Choose, KeepIp, IpTaken, OutOfTries, NextQueued,
         FindGap, FindFreed, SubnetFull, MacSupplied, RandomMac, Commit, CommitNic, ConflictNic,
         FailNic, LoseNic, CommitDelete, FailDelete, CommitIp, FailIp, search
<1>2. NoGap(r) => noGap' = [noGap EXCEPT ![r] = TRUE]
  BY DEF NoGap
<1> QED
  BY <1>1, <1>2 DEF TypeOK

\* A step that keeps what the request has found.
LEMMA SearchKeeps ==
  ASSUME GapInv, NEW r \in Requests, SearchInv(r), noGap[r] => noGap'[r],
         noGap'[r] => RangeUsed', op' = op, pick'[r] = pick[r], queue'[r] = queue[r],
         OnNetwork(r)' => OnNetwork(r),
         OnNetwork(r) /\ pc'[r] \in {"mac", "commit"} /\ op[r].kind \in {"create", "update"}
           => pick[r].addr # NoAddr
  PROVE  SearchInv(r)'
  BY DEF SearchInv

\* A step that takes the next candidate of a queue.
LEMMA SearchShifts ==
  ASSUME IInv, NEW r \in Requests, NEW q \in Seq(IpSnap), q # <<>>, Shift(r, q),
         noGap' = noGap, noGap[r] => RangeUsed',
         \A i \in DOMAIN q : q[i].addr # NoAddr /\ (q[i].etag # 0 => noGap[r])
  PROVE  SearchInv(r)'
<1>1. /\ Head(q) = q[1] /\ 1 \in DOMAIN q
      /\ \A i \in DOMAIN Tail(q) : i + 1 \in DOMAIN q /\ Tail(q)[i] = q[i + 1]
  BY ShiftFacts
<1>2. pick'[r] = q[1] /\ queue'[r] = Tail(q)
  BY <1>1 DEF Shift, IInv, TypeOK
<1>3. \A i \in DOMAIN queue'[r] :
        queue'[r][i].addr # NoAddr /\ (queue'[r][i].etag # 0 => noGap'[r])
  BY <1>1, <1>2
<1>4. pick'[r].addr # NoAddr /\ (pick'[r].etag # 0 => noGap'[r])
  BY <1>1, <1>2
<1> QED
  BY <1>3, <1>4 DEF SearchInv

LEMMA OwnSearch ==
  ASSUME GapInv, TypeOK', RangeUsed => RangeUsed', NEW r \in Requests, Start(r) \/ Step(r)
  PROVE  SearchInv(r)'
<1>1. /\ TypeOK /\ RequestInv(r) /\ Progress(r) /\ SearchInv(r) /\ op' = op /\ op[r] \in OpType
      /\ WellFormed(op[r])
  BY OwnVariables, OpFacts DEF GapInv, IInv, RequestInv
<1>2. noGap[r] => noGap'[r] /\ RangeUsed'
  BY <1>1, OwnNoGap DEF SearchInv
<1>3. CASE Start(r)
  <2>1. UNCHANGED <<nicSeen, pick, queue, noGap>> /\ pc'[r] \notin {"mac", "commit"}
    BY <1>1, <1>3 DEF Start, Goto, TypeOK, seen, search
  <2> QED
    BY <1>1, <1>2, <2>1, SearchKeeps DEF OnNetwork
<1>4. CASE ReadNic(r)
  <2>1. nicSeen[r].ip = NoAddr /\ UNCHANGED <<pick, queue, noGap>>
    BY <1>1, <1>4 DEF ReadNic, Progress, NoNic, search
  <2>2. /\ op[r].kind \in {"create", "update"} => pc'[r] \notin {"mac", "commit"}
        /\ OnNetwork(r)' => OnNetwork(r)
    <3>1. CASE nicSeen' = nicSeen /\ pc'[r] = "done"
      BY <1>1, <3>1 DEF OnNetwork
    <3>2. CASE /\ nicSeen' = [nicSeen EXCEPT ![r] = nics[op[r].mac]]
               /\ pc'[r] = IF nics[op[r].mac].ip = NoAddr THEN AfterNic(r) ELSE "readOld"
      BY <1>1, <2>1, <3>2 DEF OnNetwork, AfterNic
    <3> QED
      BY <1>1, <1>4, <3>1, <3>2 DEF ReadNic, Goto, Finish, TypeOK
  <2> QED
    BY <1>1, <1>2, <2>1, <2>2, SearchKeeps
<1>5. CASE ReadOld(r)
  <2>1. nicSeen[r].ip # NoAddr /\ UNCHANGED <<nicSeen, queue, noGap>>
    BY <1>1, <1>5 DEF ReadOld, Progress, search
  <2> QED
    BY <1>1, <1>2, <2>1 DEF SearchInv, OnNetwork
<1>6. CASE ReadIp(r)
  <2>1. op[r].addr # NoAddr /\ UNCHANGED <<nicSeen, queue, noGap>>
    BY <1>1, <1>6 DEF ReadIp, Progress, search, seen
  <2> QED
    BY <1>1, <1>2, <2>1 DEF SearchInv, OnNetwork
<1>7. CASE KeepIp(r)
  <2>1. UNCHANGED <<nicSeen, pick, queue, noGap>> /\ (OnNetwork(r) => pick[r].addr # NoAddr)
    BY <1>7 DEF KeepIp, NeedsIp, seen, search
  <2> QED
    BY <1>1, <1>2, <2>1, SearchKeeps DEF OnNetwork
<1>8. CASE IpTaken(r) \/ OutOfTries(r) \/ SubnetFull(r) \/ FailDelete(r) \/ FailIp(r)
  <2>1. UNCHANGED <<nicSeen, pick, queue, noGap>> /\ pc'[r] = "done"
    BY <1>1, <1>8
       DEF IpTaken, OutOfTries, SubnetFull, FailDelete, FailIp, Finish, TypeOK, seen, search
  <2> QED
    BY <1>1, <1>2, <2>1, SearchKeeps DEF OnNetwork
<1>9. CASE NextQueued(r)
  <2>1. Shift(r, queue[r]) /\ queue[r] \in Seq(IpSnap) /\ queue[r] # <<>> /\ noGap' = noGap
    BY <1>1, <1>9 DEF NextQueued, TypeOK
  <2> QED
    BY <1>1, <1>2, <2>1, SearchShifts DEF SearchInv, GapInv
<1>10. CASE FindGap(r)
  <2>1. PICK a \in ProvRange, n \in 1 .. GapLength :
          IsFirstGap(a, n) /\ Shift(r, [i \in 1 .. n |-> Unused(a + i - 1)])
    BY <1>10 DEF FindGap
  <2> DEFINE q == [i \in 1 .. n |-> Unused(a + i - 1)]
  <2>2. q \in Seq(IpSnap) /\ q # <<>>
    BY <2>1, GapQueue
  <2>3. \A i \in DOMAIN q : q[i].addr # NoAddr /\ q[i].etag = 0
    <3>1. n \in Nat \ {0} /\ a + n - 1 <= ProvMax
      BY <2>1, LimitsAssumption DEF IsFirstGap
    <3>2. \A i \in 1 .. n : a + i - 1 \in Addrs
      BY <3>1, AddrFacts
    <3> QED
      BY <3>2, AddrFacts DEF Unused
  <2>4. noGap' = noGap /\ Shift(r, q)
    BY <1>10, <2>1 DEF FindGap
  <2> HIDE DEF q
  <2> QED
    BY <1>2, <2>2, <2>3, <2>4, SearchShifts DEF GapInv
<1>11. CASE NoGap(r)
  <2>1. RangeUsed /\ UNCHANGED <<nicSeen, pick, queue>>
    BY <1>11, NoGapIsUsed DEF NoGap, GapInv, seen
  <2>2. pc'[r] \notin {"mac", "commit"} /\ noGap'[r]
    BY <1>1, <1>11 DEF NoGap, Retry, Finish, Goto, TypeOK
  <2> QED
    BY <1>1, <2>1, <2>2, SearchKeeps DEF OnNetwork
<1>12. CASE FindFreed(r)
  <2>1. PICK q \in FreedQueues : Shift(r, q)
    BY <1>12 DEF FindFreed
  <2>2. q \in Seq(IpSnap) /\ q # <<>> /\ \A i \in DOMAIN q : \E a \in FreedInRange : q[i] = Snap(a)
    BY <1>1, FreedQueue
  <2>3. \A i \in DOMAIN q : q[i].addr # NoAddr
    BY <2>2, AddrFacts DEF FreedInRange, Snap
  <2>4. noGap' = noGap /\ noGap[r]
    BY <1>12 DEF FindFreed
  <2> QED
    BY <1>2, <2>1, <2>2, <2>3, <2>4, SearchShifts DEF GapInv
<1>13. CASE MacSupplied(r) \/ RandomMac(r)
  <2>1. UNCHANGED <<nicSeen, pick, queue, noGap>> /\ pc[r] = "mac"
    BY <1>13 DEF MacSupplied, RandomMac, seen, search
  <2> QED
    BY <1>1, <1>2, <2>1, SearchKeeps DEF OnNetwork, SearchInv, Progress
<1>14. CASE CommitNic(r) \/ ConflictNic(r) \/ FailNic(r) \/ LoseNic(r)
  <2>1. UNCHANGED <<nicSeen, pick, queue, noGap>> /\ pc'[r] \notin {"mac", "commit"}
    BY <1>1, <1>14
       DEF CommitNic, ConflictNic, FailNic, LoseNic, Retry, Finish, Goto, TypeOK, seen, search
  <2> QED
    BY <1>1, <1>2, <2>1, SearchKeeps DEF OnNetwork
<1>15. CASE CommitDelete(r) \/ CommitIp(r)
  <2>1. UNCHANGED <<nicSeen, pick, queue, noGap>> /\ pc'[r] = "done"
    BY <1>1, <1>15 DEF CommitDelete, CommitIp, Answer, Finish, TypeOK, seen, search
  <2> QED
    BY <1>1, <1>2, <2>1, SearchKeeps DEF OnNetwork
<1> QED
  BY <1>3, <1>4, <1>5, <1>6, <1>7, <1>8, <1>9, <1>10, <1>11, <1>12, <1>13, <1>14, <1>15
     DEF Step, Choose, Commit

\* Other requests keep theirs, since no record is removed.
LEMMA OtherSearch ==
  ASSUME GapInv, RangeUsed => RangeUsed', NEW r \in Requests, Start(r) \/ Step(r),
         NEW q \in Requests \ {r}
  PROVE  SearchInv(q)'
<1>1. /\ op' = op /\ pc'[q] = pc[q] /\ nicSeen'[q] = nicSeen[q]
      /\ pick'[q] = pick[q] /\ queue'[q] = queue[q] /\ noGap'[q] = noGap[q]
  BY OwnVariables, OwnNoGap DEF GapInv, IInv
<1> QED
  BY <1>1 DEF GapInv, SearchInv, OnNetwork

LEMMA GapStep == GapInv /\ [Next]_vars => GapInv'
<1> SUFFICES ASSUME GapInv, [Next]_vars PROVE GapInv'
  OBVIOUS
<1>1. IInv'
  BY StepInv DEF GapInv
<1>2. ASSUME NEW r \in Requests, Start(r) \/ Step(r)
      PROVE  GapInv'
  <2>1. TypeOK /\ TypeOK' /\ Progress(r)
    BY <1>1 DEF GapInv, IInv, RequestInv
  <2>2. (Anchors => Anchors') /\ (RangeUsed => RangeUsed')
    BY <1>2, <2>1, StepIsStoreStep, RangeRemains
  <2>3. \A q \in Requests : SearchInv(q)'
    BY <1>2, <2>1, <2>2, OwnSearch, OtherSearch
  <2> QED
    BY <1>1, <2>2, <2>3 DEF GapInv
<1>3. CASE UNCHANGED vars
  <2>1. Anchors' /\ \A q \in Requests : SearchInv(q)'
    BY <1>3 DEF GapInv, Anchors, SearchInv, RangeUsed, Present, OnNetwork, vars, store, seen, search
  <2> QED
    BY <1>1, <2>1 DEF GapInv
<1> QED
  BY <1>2, <1>3 DEF Next, AllDone

LEMMA InitGap == Init => GapInv
<1> SUFFICES ASSUME Init PROVE GapInv
  OBVIOUS
<1>1. ASSUME NEW a \in {ProvMin - 1, ProvMax + 1} PROVE Present(a)
  <2>1. PICK s \in StartNics, others \in StartOther : ips = StartIps(s, others)
    BY DEF Init
  <2>2. a \in Addrs
    BY SubnetAssumption DEF Addrs
  <2>3. ips[a].etag = 1
    BY <2>1, <2>2 DEF StartIps
  <2> QED
    BY <2>3 DEF Present
<1>2. Anchors
  BY <1>1 DEF Anchors
<1>3. \A r \in Requests : SearchInv(r)
  BY DEF Init, SearchInv, NoSnap, Unused
<1> QED
  BY <1>2, <1>3, InitInv DEF GapInv

LEMMA GapInvariant == Spec => []GapInv
<1> QED
  BY InitGap, GapStep, PTL DEF Spec

\* A request that answers "full" has looked twice, for gaps (nextGapIPsOnNetwork) and
\* later for freed addresses (nextFreedIPsonNetwork), and still no address of the range
\* is free when it answers, or it has used up its tries: what had no gap never has one.
THEOREM FullIsFull == Spec => FullMeansFull
<1>1. GapInv /\ [Next]_vars =>
        [\A r \in Requests :
           result'[r] = "full" /\ result[r] # "full"
             => tries[r] > IpRetries \/ \A a \in ProvRange : ~Free(a)]_vars
  <2> SUFFICES ASSUME GapInv, Next, NEW r \in Requests,
                      result'[r] = "full", result[r] # "full"
               PROVE  tries[r] > IpRetries \/ \A a \in ProvRange : ~Free(a)
    BY DEF vars
  <2>1. PICK q \in Requests : Start(q) \/ Step(q)
    BY DEF Next, AllDone, vars
  <2>2. q = r
    <3> USE DEF TypeOK, Goto, Finish, Retry, Shift
    <3>1. TypeOK
      BY DEF GapInv, IInv
    <3> QED
      BY <2>1, <3>1
         DEF Start, Step, ReadNic, ReadOld, ReadIp, Choose, KeepIp, IpTaken, OutOfTries, NextQueued,
             FindGap, NoGap, FindFreed, SubnetFull, MacSupplied, RandomMac, Commit, CommitNic,
             ConflictNic, FailNic, LoseNic, CommitDelete, FailDelete, CommitIp, FailIp, Answer
  <2>3. OutOfTries(r) \/ SubnetFull(r)
    <3> USE DEF TypeOK, Goto, Finish, Retry, Shift
    <3>1. TypeOK
      BY DEF GapInv, IInv
    <3> QED
      BY <2>1, <2>2, <3>1
         DEF Start, Step, ReadNic, ReadOld, ReadIp, Choose, KeepIp, IpTaken, NextQueued,
             FindGap, NoGap, FindFreed, MacSupplied, RandomMac, Commit, CommitNic,
             ConflictNic, FailNic, LoseNic, CommitDelete, FailDelete, CommitIp, FailIp, Answer,
             RefusedDelete
  <2>4. CASE OutOfTries(r)
    BY <2>4 DEF OutOfTries
  <2>5. CASE SubnetFull(r)
    <3>1. noGap[r] /\ FreedInRange = {}
      BY <2>5 DEF SubnetFull
    <3>2. RangeUsed
      BY <3>1 DEF GapInv, SearchInv
    <3> QED
      BY <3>1, <3>2 DEF RangeUsed, FreedInRange, Free
  <2> QED
    BY <2>3, <2>4, <2>5
<1> QED
  BY <1>1, GapInvariant, PTL DEF Spec, FullMeansFull

\* An address that was used before is only given out, to a request that leaves the choice
\* to napi, once every address of the range has a record: a candidate that had one
\* was found after the request saw no gap, whenever it commits and however often
\* it lost a race in between.
THEOREM GapsGoFirst == Spec => GapsBeforeFreed
<1>1. GapInv /\ [Next]_vars =>
        [\A r \in Requests :
           /\ commits'[r] # commits[r] /\ OnNetwork(r)
           /\ op[r].kind \in {"create", "update"} /\ Present(pick[r].addr)
           => \A a \in ProvRange : Present(a)]_vars
  <2> SUFFICES ASSUME GapInv, Next, NEW r \in Requests,
                      commits'[r] # commits[r], OnNetwork(r),
                      op[r].kind \in {"create", "update"}, Present(pick[r].addr)
               PROVE  RangeUsed
    BY DEF vars, store, RangeUsed
  <2>1. PICK q \in Requests : Start(q) \/ Step(q)
    BY DEF Next, AllDone, vars, store
  <2>2. CommitNic(q) \/ LoseNic(q) \/ CommitDelete(q) \/ CommitIp(q)
    BY <2>1 DEF Start, Step, ReadNic, ReadOld, ReadIp, Choose, KeepIp, IpTaken, OutOfTries, NextQueued,
                FindGap, NoGap, FindFreed, SubnetFull, MacSupplied, RandomMac, Commit,
                ConflictNic, FailNic, FailDelete, FailIp, store
  <2>3. q = r
    BY <2>2 DEF CommitNic, LoseNic, WriteNicAndIp, CommitDelete, CommitIp, GapInv, IInv, TypeOK
  <2>4. Writes(r) /\ BatchFits(r)
    BY <2>2, <2>3 DEF CommitNic, LoseNic, CommitDelete, CommitIp, IpPut
  <2>5. pick[r].addr # NoAddr
    BY <2>4 DEF GapInv, SearchInv, Writes
  <2>6. pick[r].etag # 0
    BY <2>4, <2>5 DEF BatchFits, PickFits, Present
  <2> QED
    BY <2>6 DEF GapInv, SearchInv
<1> QED
  BY <1>1, GapInvariant, PTL DEF Spec, GapsBeforeFreed
-----------------------------------------------------------------------------
(* Creates that compete for the addresses of a network.                    *)

\* Addresses of the range with no NIC and no record of the admin's at the start.
StartFree(s, others) ==
  {a \in ProvRange \ others : \A m \in Macs : s[m].vm = NoOne \/ s[m].ip # a}

\* Creates that leave the address to napi, no more of them than there are addresses, and
\* no failure of Moray.  A request loses an attempt for each address that another
\* one takes, for each MAC it tries, for a search that sees no gap, and for the stale
\* address it tries once more after that: runProvisions keeps the last address, as the
\* error of that attempt is not a conflict.
Competition ==
  /\ IsFiniteSet(Requests) /\ Faults = {}
  /\ \A o \in Ops : o.kind = "create" /\ o.next /\ o.addr = NoAddr
  /\ \A s \in StartNics, others \in StartOther :
       Cardinality(Requests) <= Cardinality(StartFree(s, others))
  /\ Cardinality(Requests) <= IpRetries
  /\ MacRetries + Cardinality(Requests) + 1 <= NicRetries

Served   == {q \in Requests : result[q] = "ok"}
Taken    == {pick[q].addr : q \in Served}
FreeNow  == {a \in ProvRange : Free(a)}
Stale(s) == s.addr # NoAddr /\ ips[s.addr].etag # s.etag

\* The request has no address to try.
Lost(r) == pick[r].addr = NoAddr \/ (pc[r] = "choose" /\ err[r] = "ip")

\* T are the addresses the request has tried: all are taken, but for the one it tries now.
TriedAre(r, T) ==
  /\ tries[r] = Cardinality(T) + (IF noGap[r] THEN 1 ELSE 0)
  /\ T \ {pick[r].addr} \subseteq Taken
  /\ IF pick[r].addr = NoAddr THEN T = {} ELSE pick[r].addr \in T
  /\ Lost(r) => T \subseteq Taken
  /\ \A i \in DOMAIN queue[r] :
       /\ queue[r][i].addr \notin T
       /\ \A j \in DOMAIN queue[r] : i # j => queue[r][i].addr # queue[r][j].addr

\* Attempts that MACs have cost the request: one for each it has tried, but for the one
\* it has now; a MAC the client gave costs one, and then the request.
MacBound(r) == IF op[r].mac = AnyMac THEN macTries[r] ELSE 1
MacCost(r) ==
  IF mac[r] = AnyMac \/ (pc[r] \in {"choose", "mac"} /\ err[r] = "nic")
  THEN MacBound(r) ELSE MacBound(r) - 1

\* A request that has not ended: what it has found stale was taken, and each attempt it
\* has lost has its cause.
Racing(r) ==
  /\ result[r] = "none"
  /\ pc[r] = "idle" => pick[r].addr = NoAddr
  /\ pick[r].addr = NoAddr => pc[r] \in {"idle", "choose"} /\ err[r] \in {"none", "other"}
  /\ macTries[r] <= MacRetries + 1
  /\ Stale(pick[r]) => pick[r].addr \in Taken
  /\ \A i \in DOMAIN queue[r] : Stale(queue[r][i]) => queue[r][i].addr \in Taken
  /\ \E T \in SUBSET Addrs : TriedAre(r, T)
  /\ retries[r] <= MacCost(r) + tries[r] + (IF noGap[r] THEN 1 ELSE 0)
                   - (IF Lost(r) THEN 0 ELSE 1)

Race(r) == IF pc[r] = "done" THEN result[r] \in {"ok", "dupMac", "noMacs"} ELSE Racing(r)

\* What was given out is a NIC's, and an address is left for each request to be served.
Shares ==
  /\ \A q \in Served : pick[q].addr \in Addrs /\ ips[pick[q].addr].belongs \in VMs
  /\ Cardinality(Requests \ Served) <= Cardinality(FreeNow)

RaceInv == GapInv /\ Shares /\ \A r \in Requests : Race(r)

\* What the requests of a competition are.
LEMMA RequestIs ==
  ASSUME Competition, GapInv, NEW r \in Requests
  PROVE  /\ TypeOK /\ Progress(r) /\ op[r].kind = "create" /\ op[r].vm \in VMs
         /\ nicSeen[r] = NoNic /\ OnNetwork(r) /\ ~Releases(r)
<1>1. TypeOK /\ Progress(r)
  BY DEF GapInv, IInv, RequestInv
<1>2. op[r].kind = "create" /\ op[r].next /\ op[r].addr = NoAddr /\ op[r].vm \in VMs
  BY <1>1, OpFacts DEF Competition, TypeOK, OpType, WellFormed
<1>3. nicSeen[r] = NoNic /\ old[r].addr = NoAddr
  BY <1>1, <1>2 DEF Progress, NoNic, NoSnap, Unused
<1> QED
  BY <1>1, <1>2, <1>3 DEF OnNetwork, Releases, NoNic

LEMMA StepsAre ==
  ASSUME Competition, GapInv, NEW r \in Requests, Start(r) \/ Step(r)
  PROVE  \/ Start(r) \/ KeepIp(r) \/ OutOfTries(r) \/ NextQueued(r) \/ FindGap(r) \/ NoGap(r)
         \/ FindFreed(r) \/ SubnetFull(r) \/ MacSupplied(r) \/ RandomMac(r) \/ CommitNic(r)
         \/ ConflictNic(r)
<1>1. /\ Progress(r) /\ op[r].kind = "create" /\ OnNetwork(r) /\ op[r].addr = NoAddr
  BY RequestIs DEF OnNetwork
<1>2. ~ReadNic(r) /\ ~ReadOld(r) /\ ~ReadIp(r)
  BY <1>1 DEF ReadNic, ReadOld, ReadIp, Progress
<1>3. ~IpTaken(r) /\ ~CommitDelete(r) /\ ~FailDelete(r) /\ ~CommitIp(r) /\ ~FailIp(r)
  BY <1>1 DEF IpTaken, CommitDelete, FailDelete, CommitIp, FailIp, IpPut
<1>4. ~FailNic(r) /\ ~LoseNic(r)
  BY DEF FailNic, LoseNic, Competition
<1> QED
  BY <1>2, <1>3, <1>4 DEF Step, Choose, Commit

LEMMA OwnCounts ==
  ASSUME Competition, GapInv, NEW r \in Requests, Start(r) \/ Step(r), NEW q \in Requests \ {r}
  PROVE  /\ result'[q] = result[q] /\ noGap'[q] = noGap[q] /\ tries'[q] = tries[q]
         /\ macTries'[q] = macTries[q] /\ retries'[q] = retries[q] /\ err'[q] = err[q]
<1> USE DEF TypeOK, Goto, Finish, Retry, Shift, store, search, seen, chosen, loop
<1>1. TypeOK
  BY RequestIs
<1>2. CASE Start(r) \/ KeepIp(r) \/ OutOfTries(r) \/ SubnetFull(r)
  BY <1>1, <1>2 DEF Start, KeepIp, OutOfTries, SubnetFull
<1>3. CASE NextQueued(r) \/ FindGap(r) \/ FindFreed(r)
  BY <1>1, <1>3 DEF NextQueued, FindGap, FindFreed
<1>4. CASE NoGap(r) \/ CommitNic(r) \/ ConflictNic(r)
  BY <1>1, <1>4 DEF NoGap, CommitNic, ConflictNic
<1>5. CASE MacSupplied(r) \/ RandomMac(r)
  BY <1>1, <1>5 DEF MacSupplied, RandomMac
<1> QED
  BY <1>2, <1>3, <1>4, <1>5, StepsAre

\* No more addresses are taken than requests are served, and a request that is not
\* served leaves the others one fewer.
LEMMA TakenAre ==
  ASSUME Competition, NEW r \in Requests \ Served
  PROVE  /\ IsFiniteSet(Taken) /\ Cardinality(Taken) \in Nat /\ Cardinality(Requests) \in Nat
         /\ Cardinality(Taken) + 1 <= Cardinality(Requests)
<1>1. IsFiniteSet(Requests) /\ Cardinality(Requests) \in Nat
  BY FS_CardinalityType DEF Competition
<1>2. /\ IsFiniteSet(Requests \ {r})
      /\ Cardinality(Requests \ {r}) = Cardinality(Requests) - 1
  BY <1>1, FS_RemoveElement
<1>3. Served \in SUBSET (Requests \ {r})
  BY DEF Served
<1>4. IsFiniteSet(Served) /\ Cardinality(Served) <= Cardinality(Requests \ {r})
  BY <1>2, <1>3, FS_Subset
<1> DEFINE f == [q \in Served |-> pick[q].addr]
<1>5. f \in Surjection(Served, Taken)
  BY DEF Surjection, Taken
<1>6. IsFiniteSet(Taken) /\ Cardinality(Taken) <= Cardinality(Served)
  BY <1>4, <1>5, FS_Surjection
<1>7. Cardinality(Taken) \in Nat /\ Cardinality(Served) \in Nat
  BY <1>4, <1>6, FS_CardinalityType
<1> QED
  BY <1>1, <1>2, <1>4, <1>6, <1>7

\* Hence what a request has tried is bounded.
LEMMA TriedFew ==
  ASSUME Competition, NEW r \in Requests \ Served, NEW T \in SUBSET Addrs, TriedAre(r, T)
  PROVE  /\ IsFiniteSet(T) /\ Cardinality(T) \in Nat /\ Cardinality(Requests) \in Nat
         /\ Cardinality(T) <= Cardinality(Requests)
         /\ T \subseteq Taken => Cardinality(T) + 1 <= Cardinality(Requests)
<1>1. /\ IsFiniteSet(Taken) /\ Cardinality(Taken) \in Nat /\ Cardinality(Requests) \in Nat
      /\ Cardinality(Taken) + 1 <= Cardinality(Requests)
  BY TakenAre
<1> DEFINE U == Taken \cup {pick[r].addr}
<1>2. IsFiniteSet(U) /\ Cardinality(U) \in {Cardinality(Taken), Cardinality(Taken) + 1}
  BY <1>1, FS_AddElement, Zenon
<1>3. T \in SUBSET U
  BY DEF TriedAre
<1>4. IsFiniteSet(T) /\ Cardinality(T) <= Cardinality(U)
  BY <1>2, <1>3, FS_Subset
<1>5. Cardinality(T) \in Nat
  BY <1>4, FS_CardinalityType
<1>6. T \subseteq Taken => Cardinality(T) <= Cardinality(Taken)
  BY <1>1, FS_Subset
<1> HIDE DEF U
<1> QED
  BY <1>1, <1>2, <1>4, <1>5, <1>6

LEMMA TakenIsHeld ==
  ASSUME RaceInv, NEW a \in Taken
  PROVE  a \in Addrs /\ ~Free(a)
<1>1. a \in Addrs /\ ips[a].belongs \in VMs
  BY DEF RaceInv, Shares, Taken
<1>2. ips[a].belongs # NoOne
  BY <1>1, OwnersAssumption
<1> QED
  BY <1>1, <1>2 DEF Free, Freed, Present, RaceInv, GapInv, IInv, StoreIsClean

-----------------------------------------------------------------------------
\* What a request has found stays stale only if taken, whoever writes.
LEMMA StaleRemains ==
  ASSUME NEW s \in IpSnap, Taken \subseteq Taken',
         \A a \in Addrs : ips'[a] = ips[a] \/ a \in Taken',
         Stale(s) => s.addr \in Taken
  PROVE  Stale(s)' => s.addr \in Taken'
  BY DEF Stale, IpSnap

\* A request stays in the race while others move.
LEMMA OtherRaces ==
  ASSUME Competition, RaceInv, NEW r \in Requests, Start(r) \/ Step(r), NEW q \in Requests \ {r},
         Taken \subseteq Taken', \A a \in Addrs : ips'[a] = ips[a] \/ a \in Taken'
  PROVE  Race(q)'
<1>1. TypeOK /\ Race(q) /\ GapInv
  BY DEF RaceInv, GapInv, IInv
<1>2. /\ op' = op /\ pc'[q] = pc[q] /\ pick'[q] = pick[q] /\ queue'[q] = queue[q]
      /\ mac'[q] = mac[q] /\ result'[q] = result[q] /\ noGap'[q] = noGap[q] /\ tries'[q] = tries[q]
      /\ macTries'[q] = macTries[q] /\ retries'[q] = retries[q] /\ err'[q] = err[q]
  BY <1>1, OwnVariables, OwnCounts
<1>3. CASE pc[q] = "done"
  BY <1>1, <1>2, <1>3 DEF Race
<1>4. CASE pc[q] # "done"
  <2>1. Racing(q)
    BY <1>1, <1>4 DEF Race
  <2>2. pick[q] \in IpSnap /\ \A i \in DOMAIN queue[q] : queue[q][i] \in IpSnap
    BY <1>1 DEF TypeOK
  <2>3. Stale(pick[q])' => pick'[q].addr \in Taken'
    <3>1. Stale(pick[q]) => pick[q].addr \in Taken
      BY <2>1 DEF Racing
    <3> QED
      BY <1>2, <2>2, <3>1, StaleRemains DEF Stale
  <2>4. ASSUME NEW i \in DOMAIN queue[q]
        PROVE  Stale(queue[q][i])' => queue[q][i].addr \in Taken'
    <3>1. Stale(queue[q][i]) => queue[q][i].addr \in Taken
      BY <2>1 DEF Racing
    <3> QED
      BY <1>2, <2>2, <3>1, StaleRemains DEF Stale
  <2>5. PICK T \in SUBSET Addrs : TriedAre(q, T)
    BY <2>1 DEF Racing
  <2>6. Lost(q)' = Lost(q) /\ MacCost(q)' = MacCost(q)
    BY <1>2 DEF Lost, MacCost, MacBound
  <2>7. TriedAre(q, T)'
    BY <1>2, <2>5, <2>6 DEF TriedAre
  <2>8. Racing(q)'
    BY <1>2, <2>1, <2>3, <2>4, <2>6, <2>7 DEF Racing, Stale
  <2> QED
    BY <1>2, <1>4, <2>8 DEF Race
<1> QED
  BY <1>3, <1>4

\* A step that serves nobody leaves the store and the shares alone.
LEMMA NoneServed ==
  ASSUME Competition, RaceInv, NEW r \in Requests, Start(r) \/ Step(r), ~CommitNic(r)
  PROVE  UNCHANGED <<nics, ips, clock>> /\ pc[r] # "done" /\ result'[r] # "ok" /\ Served' = Served
         /\ Taken' = Taken /\ Shares'
<1> USE DEF TypeOK, Goto, Finish, Retry, Shift, Searching, store, search, seen, chosen, loop
<1>1. TypeOK /\ GapInv /\ Race(r)
  BY DEF RaceInv, GapInv, IInv
<1>2. /\ UNCHANGED <<nics, ips, clock>> /\ pc[r] # "done"
      /\ result'[r] \in {result[r], "full", "error", "dupMac", "noMacs"}
  <2>1. CASE Start(r) \/ KeepIp(r) \/ OutOfTries(r) \/ SubnetFull(r)
    BY <1>1, <2>1 DEF Start, KeepIp, OutOfTries, SubnetFull
  <2>2. CASE NextQueued(r) \/ FindGap(r) \/ FindFreed(r)
    BY <1>1, <2>2 DEF NextQueued, FindGap, FindFreed
  <2>3. CASE NoGap(r) \/ ConflictNic(r)
    BY <1>1, <2>3 DEF NoGap, ConflictNic, Writes
  <2>4. CASE MacSupplied(r) \/ RandomMac(r)
    BY <1>1, <2>4 DEF MacSupplied, RandomMac
  <2> QED
    BY <1>1, <2>1, <2>2, <2>3, <2>4, StepsAre
<1>3. result[r] = "none" /\ result'[r] # "ok"
  BY <1>1, <1>2 DEF Race, Racing
<1>4. \A q \in Requests \ {r} : result'[q] = result[q] /\ pick'[q] = pick[q]
  BY <1>1, OwnVariables, OwnCounts
<1>5. Served' = Served
  BY <1>3, <1>4 DEF Served
<1>6. r \notin Served
  BY <1>3 DEF Served
<1>7. \A q \in Served : pick'[q] = pick[q]
  BY <1>4, <1>6 DEF Served
<1>8. Taken' = Taken
  BY <1>5, <1>7 DEF Taken
<1>9. FreeNow' = FreeNow
  BY <1>2 DEF FreeNow, Free, Freed, Present
<1>10. Shares'
  BY <1>2, <1>5, <1>7, <1>9 DEF RaceInv, Shares
<1> QED
  BY <1>2, <1>3, <1>5, <1>8, <1>10

\* A batch serves one request and takes one address.
LEMMA OneServed ==
  ASSUME Competition, RaceInv, NEW r \in Requests, CommitNic(r)
  PROVE  /\ Taken \subseteq Taken' /\ \A a \in Addrs : ips'[a] = ips[a] \/ a \in Taken'
         /\ Race(r)' /\ Shares'
<1>1. /\ TypeOK /\ GapInv /\ Race(r) /\ op[r].vm \in VMs /\ op[r].kind = "create" /\ ~Releases(r)
  BY RequestIs DEF RaceInv
<1>2. pc[r] = "commit" /\ pick' = pick /\ pc'[r] = "done" /\ result'[r] = "ok"
      /\ \A q \in Requests \ {r} : result'[q] = result[q]
  BY <1>1 DEF CommitNic, Writes, Finish, TypeOK
<1>3. r \notin Served /\ pick[r].addr \in Addrs
  BY <1>1, <1>2 DEF Race, Racing, Served, TypeOK, IpSnap
<1>4. Served' = Served \cup {r}
  BY <1>2 DEF Served
<1>5. Taken' = Taken \cup {pick[r].addr}
  BY <1>2, <1>4 DEF Taken
<1>6. \A a \in Addrs : IF a = pick[r].addr THEN ips'[a].belongs \in VMs ELSE ips'[a] = ips[a]
  BY <1>1, OwnersAssumption DEF CommitNic, WriteNicAndIp, NewVm
<1>7. \A q \in Served' : pick'[q].addr \in Addrs /\ ips'[pick'[q].addr].belongs \in VMs
  BY <1>2, <1>3, <1>4, <1>6 DEF RaceInv, Shares
<1>8. Cardinality(Requests \ Served') <= Cardinality(FreeNow')
  <2>1. IsFiniteSet(Requests \ Served) /\ r \in Requests \ Served
    BY <1>3, FS_Subset DEF Competition
  <2>2. (Requests \ Served) \ {r} = Requests \ Served'
    BY <1>4
  <2>3. Cardinality(Requests \ Served') = Cardinality(Requests \ Served) - 1
    BY <2>1, <2>2, FS_RemoveElement
  <2>4. IsFiniteSet(FreeNow) /\ IsFiniteSet(FreeNow')
    <3>1. IsFiniteSet(ProvRange)
      BY FS_Interval, SubnetAssumption DEF ProvRange
    <3>2. FreeNow \in SUBSET ProvRange /\ FreeNow' \in SUBSET ProvRange
      BY DEF FreeNow
    <3> QED
      BY <3>1, <3>2, FS_Subset
  <2>5. FreeNow \ {pick[r].addr} \in SUBSET FreeNow'
    BY <1>6, AddrFacts DEF FreeNow, Free, Freed, Present
  <2>6. Cardinality(FreeNow \ {pick[r].addr}) \in {Cardinality(FreeNow), Cardinality(FreeNow) - 1}
    BY <2>4, FS_RemoveElement, Zenon
  <2>7. Cardinality(FreeNow \ {pick[r].addr}) <= Cardinality(FreeNow')
    BY <2>4, <2>5, FS_Subset
  <2>8. /\ Cardinality(FreeNow) \in Nat /\ Cardinality(FreeNow') \in Nat
        /\ Cardinality(Requests \ Served) \in Nat
    BY <2>1, <2>4, FS_CardinalityType
  <2>9. Cardinality(Requests \ Served) <= Cardinality(FreeNow)
    BY DEF RaceInv, Shares
  <2> QED
    BY <2>3, <2>6, <2>7, <2>8, <2>9
<1> QED
  BY <1>2, <1>5, <1>6, <1>7, <1>8 DEF Race, Shares

-----------------------------------------------------------------------------
(* The request that takes the step stays in the race.                      *)

\* Where a request that has not ended is.
LEMMA RacingIs ==
  ASSUME Competition, RaceInv, NEW r \in Requests, pc[r] # "done"
  PROVE  /\ TypeOK /\ Progress(r) /\ Racing(r) /\ r \in Requests \ Served
         /\ op[r].kind = "create" /\ OnNetwork(r) /\ ~Releases(r) /\ nicSeen[r] = NoNic
         /\ NeedsIp(r) /\ pc[r] = "choose" <=> Lost(r) /\ pc[r] = "choose"
         /\ tries[r] \in Nat /\ retries[r] \in Nat /\ macTries[r] \in Nat /\ noGap[r] \in BOOLEAN
         /\ err[r] \in {"none", "nic", "ip", "other"} /\ pick[r] \in IpSnap
         /\ MacBound(r) \in Nat /\ MacBound(r) <= MacRetries + 1 /\ MacRetries \in Nat
         /\ MacCost(r) \in {MacBound(r), MacBound(r) - 1}
<1>1. /\ TypeOK /\ Progress(r) /\ op[r].kind = "create" /\ OnNetwork(r) /\ ~Releases(r)
      /\ nicSeen[r] = NoNic
  BY RequestIs DEF RaceInv
<1>2. Racing(r)
  BY DEF RaceInv, Race
<1>3. r \in Requests \ Served
  BY <1>2 DEF Racing, Served
<1>4. NeedsIp(r) /\ pc[r] = "choose" <=> Lost(r) /\ pc[r] = "choose"
  BY <1>1 DEF NeedsIp, Lost
<1>5. /\ tries[r] \in Nat /\ retries[r] \in Nat /\ macTries[r] \in Nat /\ noGap[r] \in BOOLEAN
      /\ err[r] \in {"none", "nic", "ip", "other"} /\ pick[r] \in IpSnap
  BY <1>1 DEF TypeOK
<1>6. macTries[r] <= MacRetries + 1 /\ MacRetries \in Nat
  BY <1>2, LimitsAssumption DEF Racing
<1>7. MacBound(r) \in Nat /\ MacBound(r) <= MacRetries + 1
  BY <1>5, <1>6 DEF MacBound
<1>8. MacCost(r) \in {MacBound(r), MacBound(r) - 1}
  BY DEF MacCost
<1> QED
  BY <1>1, <1>2, <1>3, <1>4, <1>5, <1>6, <1>7, <1>8

\* An attempt that fails is always followed by another one.
LEMMA AttemptsLeft ==
  ASSUME Competition, RaceInv, NEW r \in Requests,
         pc[r] = "commit" \/ (pc[r] = "choose" /\ Lost(r) /\ ~noGap[r])
  PROVE  ~(retries[r] > NicRetries)
<1>1. PICK T \in SUBSET Addrs : TriedAre(r, T)
  BY RacingIs DEF Racing
<1>2. /\ Cardinality(T) \in Nat /\ Cardinality(Requests) \in Nat
      /\ Cardinality(T) <= Cardinality(Requests)
      /\ T \subseteq Taken => Cardinality(T) + 1 <= Cardinality(Requests)
  BY <1>1, RacingIs, TriedFew
<1>3. /\ MacCost(r) \in Int /\ MacCost(r) <= MacRetries + 1
      /\ MacRetries \in Nat /\ NicRetries \in Nat /\ retries[r] \in Nat /\ MacRetries + Cardinality(Requests) + 1 <= NicRetries
  BY RacingIs, LimitsAssumption DEF Competition
<1>4. retries[r] <= MacCost(r) + tries[r] + (IF noGap[r] THEN 1 ELSE 0)
                    - (IF Lost(r) THEN 0 ELSE 1)
  BY RacingIs DEF Racing
<1>5. tries[r] = Cardinality(T) + (IF noGap[r] THEN 1 ELSE 0) /\ (Lost(r) => T \subseteq Taken)
  BY <1>1 DEF TriedAre
<1>6. CASE Lost(r) /\ ~noGap[r]
  BY <1>2, <1>3, <1>4, <1>5, <1>6
<1>7. CASE pc[r] = "commit"
  <2>1. MacCost(r) <= MacRetries
    <3>1. mac[r] # AnyMac
      BY RacingIs, <1>7, AddrFacts DEF Progress, IpPut
    <3> QED
      BY RacingIs, <1>7, <3>1 DEF MacCost
  <2>2. ~Lost(r)
    BY RacingIs, <1>7 DEF Lost, Racing
  <2> QED
    BY <1>2, <1>3, <1>4, <1>5, <2>1, <2>2
<1> QED
  BY <1>6, <1>7

\* A step that keeps what the request has tried.
LEMMA SameTried ==
  ASSUME NEW r \in Requests, NEW T, TriedAre(r, T), Taken' = Taken,
         pick'[r] = pick[r], queue'[r] = queue[r],
         tries'[r] - (IF noGap'[r] THEN 1 ELSE 0) = tries[r] - (IF noGap[r] THEN 1 ELSE 0),
         tries[r] \in Nat, tries'[r] \in Nat, Cardinality(T) \in Nat, Lost(r)' => T \subseteq Taken
  PROVE  TriedAre(r, T)'
<1>1. tries'[r] = Cardinality(T) + (IF noGap'[r] THEN 1 ELSE 0)
  BY DEF TriedAre
<1> QED
  BY <1>1 DEF TriedAre

\* The request takes the next address of a queue.
LEMMA ShiftRaces ==
  ASSUME Competition, RaceInv, NEW r \in Requests, pc[r] = "choose", NeedsIp(r),
         NEW q \in Seq(IpSnap), q # <<>>, Shift(r, q), noGap' = noGap, UNCHANGED <<op, ips>>,
         UNCHANGED <<chosen, loop>>, Taken' = Taken,
         NEW T \in SUBSET Addrs, TriedAre(r, T),
         \A i \in DOMAIN q : /\ q[i].addr \in Addrs \ T /\ (Stale(q[i]) => q[i].addr \in Taken)
                             /\ \A j \in DOMAIN q : i # j => q[i].addr # q[j].addr
  PROVE  Race(r)'
<1>1. /\ Head(q) = q[1] /\ 1 \in DOMAIN q /\ Tail(q) \in Seq(IpSnap)
      /\ \A i \in DOMAIN Tail(q) : i + 1 \in DOMAIN q /\ Tail(q)[i] = q[i + 1] /\ i \in Nat \ {0}
  BY ShiftFacts
<1>2. /\ TypeOK /\ Racing(r) /\ op[r].kind = "create" /\ Lost(r) /\ tries[r] \in Nat
      /\ retries[r] \in Nat /\ MacCost(r) \in Int /\ r \in Requests \ Served
  BY RacingIs
<1>3. /\ pick'[r] = q[1] /\ queue'[r] = Tail(q) /\ tries'[r] = tries[r] + 1
      /\ pc'[r] = "mac" /\ result'[r] = result[r]
  BY <1>1, <1>2 DEF Shift, Goto, AfterChoice, TypeOK
<1>4. /\ mac' = mac /\ macTries' = macTries /\ retries' = retries /\ err' = err
  BY DEF chosen, loop
<1>5. q[1].addr \in Addrs \ T /\ q[1].addr # NoAddr
  BY <1>1, AddrFacts
<1>6. ~Lost(r)'
  BY <1>3, <1>5 DEF Lost
<1>7. MacCost(r)' = MacCost(r)
  <2>1. err[r] # "nic"
    BY <1>2 DEF Lost, Racing
  <2> QED
    BY <1>3, <1>4, <2>1 DEF MacCost, MacBound
<1> DEFINE U == T \cup {q[1].addr}
<1>8. IsFiniteSet(T) /\ T \subseteq Taken /\ Cardinality(T) \in Nat
  BY <1>2, TriedFew DEF TriedAre
<1>9. Cardinality(U) = Cardinality(T) + 1
  BY <1>5, <1>8, FS_AddElement
<1>10. \A i \in DOMAIN queue'[r] :
        /\ queue'[r][i].addr \notin U
        /\ \A j \in DOMAIN queue'[r] : i # j => queue'[r][i].addr # queue'[r][j].addr
  <2>1. ASSUME NEW i \in DOMAIN Tail(q)
        PROVE  i + 1 \in DOMAIN q /\ Tail(q)[i] = q[i + 1] /\ i + 1 # 1
               /\ \A j \in DOMAIN Tail(q) : i # j => i + 1 # j + 1
    BY <1>1
  <2>2. ASSUME NEW i \in DOMAIN Tail(q), NEW j \in DOMAIN Tail(q), i # j
        PROVE  Tail(q)[i].addr # Tail(q)[j].addr
    BY <2>1, <2>2
  <2>3. ASSUME NEW i \in DOMAIN Tail(q) PROVE Tail(q)[i].addr \notin U
    BY <1>1, <2>1
  <2> QED
    BY <1>3, <2>2, <2>3
<1>11. TriedAre(r, U)'
  <2>1. tries'[r] = Cardinality(U) + (IF noGap'[r] THEN 1 ELSE 0)
    BY <1>2, <1>3, <1>8, <1>9 DEF TriedAre
  <2>2. U \ {pick'[r].addr} \subseteq Taken' /\ pick'[r].addr \in U
    BY <1>3, <1>8
  <2> QED
    BY <1>3, <1>5, <1>6, <1>10, <2>1, <2>2 DEF TriedAre
<1>12. U \in SUBSET Addrs
  BY <1>5
<1> HIDE DEF U
<1>13. retries'[r] <= MacCost(r)' + tries'[r] + (IF noGap'[r] THEN 1 ELSE 0) - 1
  BY <1>2, <1>3, <1>4, <1>7 DEF Racing
<1>14. Stale(pick[r])' => pick'[r].addr \in Taken'
  BY <1>1, <1>3 DEF Stale
<1>15. \A i \in DOMAIN queue'[r] : Stale(queue[r][i])' => queue'[r][i].addr \in Taken'
  BY <1>1, <1>3 DEF Stale
<1>16. Racing(r)'
  BY <1>2, <1>3, <1>4, <1>5, <1>6, <1>11, <1>12, <1>13, <1>14, <1>15 DEF Racing
<1> QED
  BY <1>3, <1>16 DEF Race

\* The queues of both searches hold addresses nobody has, each once.
LEMMA GapRaces ==
  ASSUME Competition, RaceInv, NEW r \in Requests, FindGap(r)
  PROVE  Race(r)'
<1>1. PICK a \in ProvRange, n \in 1 .. GapLength :
        IsFirstGap(a, n) /\ Shift(r, [i \in 1 .. n |-> Unused(a + i - 1)])
  BY DEF FindGap
<1> DEFINE q == [i \in 1 .. n |-> Unused(a + i - 1)]
<1>2. /\ pc[r] = "choose" /\ NeedsIp(r) /\ noGap' = noGap /\ ~CommitNic(r) /\ Step(r)
      /\ UNCHANGED <<op, ips>> /\ UNCHANGED <<chosen, loop>>
  BY DEF FindGap, Searching, CommitNic, Writes, store, Step, Choose
<1>3. Taken' = Taken
  BY <1>2, NoneServed
<1>4. PICK T \in SUBSET Addrs : TriedAre(r, T)
  BY <1>2, RacingIs DEF Racing
<1>5. T \subseteq Taken
  BY <1>2, <1>4, RacingIs DEF TriedAre
<1>6. q \in Seq(IpSnap) /\ q # <<>>
  BY <1>1, GapQueue
<1>7. /\ n \in Nat \ {0} /\ a \in Nat /\ a + n - 1 <= ProvMax
      /\ \A i \in 0 .. (n - 1) : ~Present(a + i)
  BY <1>1, LimitsAssumption, AddrFacts DEF IsFirstGap
<1>8. ASSUME NEW i \in 1 .. n
      PROVE  /\ q[i].addr = a + i - 1 /\ q[i].addr \in Addrs /\ ~Present(q[i].addr) /\ ~Stale(q[i])
  <2>1. a + i - 1 \in Addrs /\ i - 1 \in 0 .. (n - 1) /\ a + (i - 1) = a + i - 1
    BY <1>7, AddrFacts
  <2>2. ips[a + i - 1].etag = 0
    BY <1>7, <2>1 DEF Present
  <2> QED
    BY <2>1, <2>2 DEF Unused, Stale, Present
<1>9. ASSUME NEW i \in DOMAIN q
      PROVE  /\ q[i].addr \in Addrs \ T /\ (Stale(q[i]) => q[i].addr \in Taken)
             /\ \A j \in DOMAIN q : i # j => q[i].addr # q[j].addr
  <2>1. q[i].addr \notin T
    BY <1>5, <1>8, TakenIsHeld DEF Free
  <2>2. \A j \in 1 .. n : i # j => a + i - 1 # a + j - 1
    BY <1>7
  <2> QED
    BY <1>8, <2>1, <2>2
<1> HIDE DEF q
<1>10. Shift(r, q)
  BY <1>1 DEF q
<1> QED
  BY <1>2, <1>3, <1>4, <1>6, <1>9, <1>10, ShiftRaces

LEMMA FreedRaces ==
  ASSUME Competition, RaceInv, NEW r \in Requests, FindFreed(r)
  PROVE  Race(r)'
<1>1. PICK q \in FreedQueues : Shift(r, q)
  BY DEF FindFreed
<1>2. /\ pc[r] = "choose" /\ NeedsIp(r) /\ noGap' = noGap /\ ~CommitNic(r) /\ Step(r)
      /\ UNCHANGED <<op, ips>> /\ UNCHANGED <<chosen, loop>>
  BY DEF FindFreed, Searching, CommitNic, Writes, store, Step, Choose
<1>3. Taken' = Taken
  BY <1>2, NoneServed
<1>4. PICK T \in SUBSET Addrs : TriedAre(r, T)
  BY <1>2, RacingIs DEF Racing
<1>5. T \subseteq Taken
  BY <1>2, <1>4, RacingIs DEF TriedAre
<1>6. q \in Seq(IpSnap) /\ q # <<>> /\ \A i \in DOMAIN q : \E a \in FreedInRange : q[i] = Snap(a)
  BY <1>2, RacingIs, FreedQueue
<1>7. \A i, j \in DOMAIN q : i # j => q[i].addr # q[j].addr
  <2>1. DOMAIN q \subseteq Nat /\ \A i, j \in DOMAIN q : i < j => q[i].addr # q[j].addr
    BY <1>6 DEF FreedQueues, IsFreedQueue
  <2> QED
    BY <2>1
<1>8. ASSUME NEW i \in DOMAIN q
      PROVE  q[i].addr \in Addrs \ T /\ ~Stale(q[i])
  <2>1. PICK a \in FreedInRange : q[i] = Snap(a)
    BY <1>6
  <2>2. a \in Addrs /\ Freed(a) /\ q[i].addr = a /\ q[i].etag = ips[a].etag
    BY <2>1, AddrFacts DEF FreedInRange, Snap
  <2> QED
    BY <1>5, <2>2, TakenIsHeld DEF Free, Stale
<1> QED
  BY <1>1, <1>2, <1>3, <1>4, <1>6, <1>7, <1>8, ShiftRaces

LEMMA QueueRaces ==
  ASSUME Competition, RaceInv, NEW r \in Requests, NextQueued(r)
  PROVE  Race(r)'
<1>1. /\ pc[r] = "choose" /\ NeedsIp(r) /\ noGap' = noGap /\ ~CommitNic(r) /\ Step(r)
      /\ UNCHANGED <<op, ips>> /\ UNCHANGED <<chosen, loop>>
      /\ queue[r] # <<>> /\ Shift(r, queue[r])
  BY DEF NextQueued, CommitNic, Writes, store, Step, Choose
<1>2. Taken' = Taken
  BY <1>1, NoneServed
<1>3. PICK T \in SUBSET Addrs : TriedAre(r, T)
  BY <1>1, RacingIs DEF Racing
<1>4. queue[r] \in Seq(IpSnap) /\ SearchInv(r) /\ Racing(r)
  BY <1>1, RacingIs DEF RaceInv, GapInv, TypeOK
<1>5. \A i \in DOMAIN queue[r] : queue[r][i].addr \in Addrs
  <2>1. \A i \in DOMAIN queue[r] : queue[r][i] \in IpSnap
    BY <1>4
  <2> QED
    BY <1>4, <2>1 DEF SearchInv, IpSnap
<1>6. ASSUME NEW i \in DOMAIN queue[r]
      PROVE  /\ queue[r][i].addr \in Addrs \ T
             /\ Stale(queue[r][i]) => queue[r][i].addr \in Taken
             /\ \A j \in DOMAIN queue[r] : i # j => queue[r][i].addr # queue[r][j].addr
  BY <1>3, <1>4, <1>5 DEF TriedAre, Racing
<1> QED
  BY <1>1, <1>2, <1>3, <1>4, <1>6, ShiftRaces

\* No gap is left: an attempt is lost, and the next search is for freed addresses.
LEMMA NoGapRaces ==
  ASSUME Competition, RaceInv, NEW r \in Requests, NoGap(r)
  PROVE  Race(r)'
<1>1. /\ pc[r] = "choose" /\ NeedsIp(r) /\ ~noGap[r] /\ ~CommitNic(r) /\ Step(r)
      /\ UNCHANGED <<op, ips, pick, queue, mac, macTries>>
  BY DEF NoGap, Searching, CommitNic, Writes, store, Step, Choose, chosen
<1>2. /\ TypeOK /\ Racing(r) /\ Lost(r) /\ tries[r] \in Nat /\ retries[r] \in Nat
      /\ MacCost(r) \in Int /\ r \in Requests \ Served
  BY <1>1, RacingIs
<1>3. ~(retries[r] > NicRetries)
  BY <1>1, <1>2, AttemptsLeft
<1>4. /\ pc'[r] = "choose" /\ result'[r] = result[r] /\ noGap'[r] = TRUE /\ tries'[r] = tries[r] + 1
      /\ retries'[r] = retries[r] + 1 /\ err'[r] = "other"
  BY <1>1, <1>2, <1>3 DEF NoGap, Retry, Goto, TypeOK
<1>5. PICK T \in SUBSET Addrs : TriedAre(r, T)
  BY <1>2 DEF Racing
<1>6. Cardinality(T) \in Nat /\ T \subseteq Taken
  BY <1>2, <1>5, TriedFew DEF TriedAre
<1>7. Taken' = Taken
  BY <1>1, NoneServed
<1>8. TriedAre(r, T)'
  BY <1>1, <1>2, <1>4, <1>5, <1>6, <1>7, SameTried
<1>9. MacCost(r)' = MacCost(r)
  BY <1>1, <1>2, <1>4 DEF MacCost, MacBound, Lost, Racing
<1>10. Lost(r)' <=> pick[r].addr = NoAddr
  BY <1>1, <1>4 DEF Lost
<1>11. retries'[r] <= MacCost(r)' + tries'[r] + (IF noGap'[r] THEN 1 ELSE 0)
                      - (IF Lost(r)' THEN 0 ELSE 1)
  BY <1>1, <1>2, <1>4, <1>9 DEF Racing
<1>12. Racing(r)'
  BY <1>1, <1>2, <1>4, <1>7, <1>8, <1>11 DEF Racing, Stale
<1> QED
  BY <1>4, <1>12 DEF Race

\* The request moves on, keeps its address and its attempts, and may take another MAC.
LEMMA MovesRace ==
  ASSUME Competition, RaceInv, NEW r \in Requests, pc[r] \in {"idle", "choose", "mac"},
         UNCHANGED <<op, ips, pick, queue, noGap, tries, retries, err>>, Taken' = Taken,
         result'[r] = result[r], pc'[r] \in {"choose", "mac", "commit"},
         pick[r].addr = NoAddr => pc'[r] = "choose", Lost(r)' = Lost(r),
         MacCost(r)' = MacCost(r), macTries'[r] <= MacRetries + 1
  PROVE  Race(r)'
<1>1. Racing(r) /\ tries[r] \in Nat /\ r \in Requests \ Served
  BY RacingIs
<1>2. PICK T \in SUBSET Addrs : TriedAre(r, T)
  BY <1>1 DEF Racing
<1>3. TriedAre(r, T)'
  BY <1>2 DEF TriedAre
<1>4. Racing(r)'
  BY <1>1, <1>3 DEF Racing, Stale
<1> QED
  BY <1>4 DEF Race

LEMMA FirstRaces ==
  ASSUME Competition, RaceInv, NEW r \in Requests, Start(r) \/ KeepIp(r)
  PROVE  Race(r)'
<1>1. /\ UNCHANGED <<op, ips, pick, queue, noGap, tries, retries, err, mac, macTries>>
      /\ pc[r] \in {"idle", "choose"} /\ ~CommitNic(r) /\ (Start(r) \/ Step(r))
  BY DEF Start, KeepIp, CommitNic, Writes, store, Step, Choose, search, chosen, loop
<1>2. Taken' = Taken
  BY <1>1, NoneServed
<1>3. /\ TypeOK /\ Racing(r) /\ op[r].kind = "create" /\ OnNetwork(r)
      /\ macTries[r] <= MacRetries + 1
  BY <1>1, RacingIs DEF Racing
<1>4. CASE Start(r)
  <2>1. pc[r] = "idle" /\ pc'[r] = "choose" /\ result'[r] = result[r]
    BY <1>3, <1>4 DEF Start, Goto, TypeOK, OnNetwork
  <2>2. Lost(r)' = Lost(r) /\ MacCost(r)' = MacCost(r)
    BY <1>1, <1>3, <2>1 DEF Lost, Racing, MacCost, MacBound
  <2> QED
    BY <1>1, <1>2, <1>3, <2>1, <2>2, MovesRace
<1>5. CASE KeepIp(r)
  <2>1. /\ pc[r] = "choose" /\ pc'[r] = "mac" /\ result'[r] = result[r] /\ err[r] # "ip"
        /\ pick[r].addr # NoAddr
    BY <1>3, <1>5 DEF KeepIp, NeedsIp, Goto, AfterChoice, TypeOK
  <2>2. Lost(r)' = Lost(r) /\ MacCost(r)' = MacCost(r)
    BY <1>1, <2>1 DEF Lost, MacCost, MacBound
  <2> QED
    BY <1>1, <1>2, <1>3, <2>1, <2>2, MovesRace
<1> QED
  BY <1>4, <1>5

LEMMA MacRaces ==
  ASSUME Competition, RaceInv, NEW r \in Requests, MacSupplied(r) \/ RandomMac(r)
  PROVE  Race(r)'
<1>1. /\ UNCHANGED <<op, ips, pick, queue, noGap, tries, retries, err>>
      /\ pc[r] = "mac" /\ ~CommitNic(r) /\ Step(r)
  BY DEF MacSupplied, RandomMac, CommitNic, Writes, store, Step, search, loop
<1>2. Taken' = Taken
  BY <1>1, NoneServed
<1>3. /\ TypeOK /\ Racing(r) /\ Progress(r) /\ macTries[r] <= MacRetries + 1
      /\ macTries[r] \in Nat /\ MacRetries \in Nat /\ pick[r].addr # NoAddr
  BY <1>1, RacingIs DEF Racing
<1>4. CASE pc'[r] = "done" /\ result'[r] \in {"dupMac", "noMacs"}
  BY <1>4 DEF Race
<1>5. CASE /\ mac' = mac /\ macTries' = macTries /\ err[r] # "nic" /\ mac[r] # AnyMac
           /\ pc'[r] = "commit" /\ result'[r] = result[r]
  <2>1. Lost(r)' = Lost(r) /\ MacCost(r)' = MacCost(r)
    BY <1>1, <1>3, <1>5 DEF Lost, MacCost, MacBound
  <2> QED
    BY <1>1, <1>2, <1>3, <1>5, <2>1, MovesRace
<1>6. CASE /\ op[r].mac = AnyMac /\ (mac[r] = AnyMac \/ err[r] = "nic") /\ mac'[r] # AnyMac
           /\ macTries[r] <= MacRetries /\ macTries'[r] = macTries[r] + 1
           /\ pc'[r] = "commit" /\ result'[r] = result[r]
  <2>1. Lost(r)' = Lost(r) /\ MacCost(r)' = MacCost(r) /\ macTries'[r] <= MacRetries + 1
    BY <1>1, <1>3, <1>6 DEF Lost, MacCost, MacBound
  <2> QED
    BY <1>1, <1>2, <1>3, <1>6, <2>1, MovesRace
<1>7. CASE MacSupplied(r)
  <2>1. mac[r] # AnyMac /\ UNCHANGED <<mac, macTries>>
    BY <1>3, <1>7 DEF MacSupplied, Progress, chosen
  <2> QED
    BY <1>3, <1>4, <1>5, <1>7, <2>1 DEF MacSupplied, Finish, Goto, TypeOK
<1>8. CASE RandomMac(r)
  <2>1. op[r].mac = AnyMac
    BY <1>8 DEF RandomMac
  <2>2. CASE mac[r] # AnyMac /\ err[r] # "nic" /\ Goto(r, "commit") /\ UNCHANGED chosen
    BY <1>3, <1>5, <2>2 DEF Goto, TypeOK, chosen
  <2>3. CASE Finish(r, "noMacs")
    BY <1>3, <1>4, <2>3 DEF Finish, TypeOK
  <2>4. CASE /\ macTries[r] <= MacRetries /\ (mac[r] = AnyMac \/ err[r] = "nic")
             /\ macTries' = [macTries EXCEPT ![r] = @ + 1]
             /\ \E m \in NextMacs(r) : mac' = [mac EXCEPT ![r] = m]
             /\ Goto(r, "commit")
    <3>1. PICK m \in NextMacs(r) : mac' = [mac EXCEPT ![r] = m]
      BY <2>4
    <3>2. m # AnyMac
      <4>1. mac[r] \in Macs \cup {AnyMac}
        BY <1>3 DEF TypeOK
      <4> QED
        BY <3>1, <4>1, AddrFacts DEF NextMacs, Macs, AnyMac
    <3> QED
      BY <1>3, <1>6, <2>1, <2>4, <3>1, <3>2 DEF Goto, TypeOK
  <2> QED
    BY <1>8, <2>2, <2>3, <2>4 DEF RandomMac
<1> QED
  BY <1>7, <1>8

\* An attempt that loses its address or its MAC has lost it to a request that is served.
LEMMA ConflictRaces ==
  ASSUME Competition, RaceInv, NEW r \in Requests, ConflictNic(r)
  PROVE  Race(r)'
<1>1. /\ pc[r] = "commit" /\ ~BatchFits(r) /\ ~CommitNic(r) /\ Step(r)
      /\ UNCHANGED <<op, ips, pick, queue, noGap, tries, mac, macTries>>
  BY DEF ConflictNic, CommitNic, Writes, store, Step, Commit, search, chosen
<1>2. /\ TypeOK /\ Racing(r) /\ Progress(r) /\ op[r].kind = "create" /\ ~Releases(r)
      /\ tries[r] \in Nat /\ retries[r] \in Nat /\ MacCost(r) \in Int /\ MacBound(r) \in Nat
      /\ r \in Requests \ Served
  BY <1>1, RacingIs
<1>3. ~(retries[r] > NicRetries)
  BY <1>1, AttemptsLeft
<1>4. /\ pc'[r] = "choose" /\ result'[r] = result[r] /\ retries'[r] = retries[r] + 1
      /\ err'[r] = Conflict(r)
  <2>1. Conflict(r) \in {"nic", "ip", "other"}
    BY DEF Conflict
  <2> QED
    BY <1>2, <1>3, <2>1 DEF ConflictNic, Retry, Goto, TypeOK
<1>5. Taken' = Taken
  BY <1>1, NoneServed
<1>6. PICK T \in SUBSET Addrs : TriedAre(r, T)
  BY <1>2 DEF Racing
<1>7. Cardinality(T) \in Nat
  BY <1>2, <1>6, TriedFew
<1>8. mac[r] # AnyMac /\ pick[r].addr # NoAddr /\ ~Lost(r)
  BY <1>1, <1>2, AddrFacts DEF Progress, IpPut, Racing, Lost
<1>9. MacCost(r) = MacBound(r) - 1 /\ MacBound(r)' = MacBound(r)
  BY <1>1, <1>8 DEF MacCost, MacBound
<1>10. CASE Conflict(r) = "nic"
  <2>1. ~Lost(r)' /\ MacCost(r)' = MacBound(r)
    BY <1>1, <1>4, <1>8, <1>9, <1>10 DEF Lost, MacCost
  <2>2. TriedAre(r, T)'
    BY <1>1, <1>2, <1>5, <1>6, <1>7, <2>1, SameTried
  <2>3. retries'[r] <= MacCost(r)' + tries'[r] + (IF noGap'[r] THEN 1 ELSE 0) - 1
    BY <1>1, <1>2, <1>4, <1>8, <1>9, <2>1 DEF Racing
  <2>4. Racing(r)'
    BY <1>1, <1>2, <1>4, <1>5, <1>8, <2>1, <2>2, <2>3 DEF Racing, Stale
  <2> QED
    BY <1>4, <2>4 DEF Race
<1>11. CASE Conflict(r) = "ip"
  <2>1. Stale(pick[r])
    BY <1>11 DEF Conflict, PickFits, Stale
  <2>2. T \subseteq Taken
    BY <1>2, <1>6, <2>1 DEF Racing, TriedAre
  <2>3. Lost(r)' /\ MacCost(r)' = MacBound(r) - 1
    BY <1>1, <1>4, <1>8, <1>9, <1>11 DEF Lost, MacCost
  <2>4. TriedAre(r, T)'
    BY <1>1, <1>2, <1>5, <1>6, <1>7, <2>2, SameTried
  <2>5. retries'[r] <= MacCost(r)' + tries'[r] + (IF noGap'[r] THEN 1 ELSE 0) - 0
    BY <1>1, <1>2, <1>4, <1>8, <1>9, <2>3 DEF Racing
  <2>6. Racing(r)'
    BY <1>1, <1>2, <1>4, <1>5, <1>8, <2>3, <2>4, <2>5 DEF Racing, Stale
  <2> QED
    BY <1>4, <2>6 DEF Race
<1>12. Conflict(r) \in {"nic", "ip"}
  BY <1>1, <1>2 DEF Conflict, BatchFits, OldFits
<1> QED
  BY <1>10, <1>11, <1>12

\* Nobody who has not been served runs out of tries.
LEMMA TriesLeft ==
  ASSUME Competition, RaceInv, NEW r \in Requests
  PROVE  ~OutOfTries(r)
<1> SUFFICES ASSUME OutOfTries(r) PROVE FALSE
  OBVIOUS
<1>1. pc[r] = "choose" /\ NeedsIp(r) /\ tries[r] > IpRetries
  BY DEF OutOfTries
<1>2. Racing(r) /\ Lost(r) /\ r \in Requests \ Served
  BY <1>1, RacingIs
<1>3. PICK T \in SUBSET Addrs : TriedAre(r, T)
  BY <1>2 DEF Racing
<1>4. /\ Cardinality(T) \in Nat /\ Cardinality(Requests) \in Nat
      /\ Cardinality(T) + 1 <= Cardinality(Requests)
  BY <1>2, <1>3, TriedFew DEF TriedAre
<1>5. tries[r] = Cardinality(T) + (IF noGap[r] THEN 1 ELSE 0) /\ Cardinality(Requests) <= IpRetries
  BY <1>3 DEF TriedAre, Competition
<1> QED
  BY <1>1, <1>4, <1>5, LimitsAssumption

\* Nor does it find the range full.
LEMMA RoomLeft ==
  ASSUME Competition, RaceInv, NEW r \in Requests
  PROVE  ~SubnetFull(r)
<1> SUFFICES ASSUME SubnetFull(r) PROVE FALSE
  OBVIOUS
<1>1. pc[r] = "choose" /\ noGap[r] /\ FreedInRange = {}
  BY DEF SubnetFull, Searching
<1>2. RangeUsed
  BY <1>1 DEF RaceInv, GapInv, SearchInv
<1>3. FreeNow = {}
  BY <1>1, <1>2 DEF RangeUsed, FreedInRange, FreeNow, Free
<1>4. IsFiniteSet(Requests \ Served) /\ r \in Requests \ Served
  BY <1>1, RacingIs, FS_Subset DEF Competition
<1>5. Cardinality(Requests \ Served) \in Nat /\ Cardinality(Requests \ Served) # 0
  BY <1>4, FS_CardinalityType, FS_EmptySet
<1>6. Cardinality(Requests \ Served) <= 0
  BY <1>3, FS_EmptySet DEF RaceInv, Shares
<1> QED
  BY <1>5, <1>6

LEMMA RaceStep == Competition /\ RaceInv /\ [Next]_vars => RaceInv'
<1> SUFFICES ASSUME Competition, RaceInv, [Next]_vars PROVE RaceInv'
  OBVIOUS
<1>1. GapInv'
  BY GapStep DEF RaceInv
<1>2. ASSUME NEW r \in Requests, Start(r) \/ Step(r)
      PROVE  RaceInv'
  <2>1. Race(r)'
    BY <1>2, StepsAre, TriesLeft, RoomLeft, FirstRaces, QueueRaces, GapRaces, NoGapRaces,
       FreedRaces, MacRaces, OneServed, ConflictRaces DEF RaceInv
  <2>2. /\ Taken \subseteq Taken' /\ Shares'
        /\ \A a \in Addrs : ips'[a] = ips[a] \/ a \in Taken'
    <3>1. CASE CommitNic(r)
      BY <3>1, OneServed
    <3>2. CASE ~CommitNic(r)
      BY <1>2, <3>2, NoneServed
    <3> QED
      BY <3>1, <3>2
  <2>3. \A q \in Requests \ {r} : Race(q)'
    BY <1>2, <2>2, OtherRaces
  <2> QED
    BY <1>1, <2>1, <2>2, <2>3 DEF RaceInv
<1>3. CASE UNCHANGED vars
  <2>1. UNCHANGED <<ips, pc, op, result, pick, queue, noGap, tries, mac, macTries, retries, err>>
    BY <1>3 DEF vars, store, search, chosen, loop
  <2>2. Served' = Served /\ Taken' = Taken /\ FreeNow' = FreeNow
    BY <2>1 DEF Served, Taken, FreeNow, Free, Freed, Present
  <2>3. Shares'
    BY <2>1, <2>2 DEF RaceInv, Shares
  <2>4. ASSUME NEW r \in Requests PROVE Race(r)'
    <3>1. \A T : TriedAre(r, T)' = TriedAre(r, T)
      BY <2>1, <2>2 DEF TriedAre, Lost
    <3>2. Race(r)
      BY DEF RaceInv
    <3> QED
      BY <2>1, <2>2, <3>1, <3>2 DEF Race, Racing, Stale, Lost, MacCost, MacBound
  <2> QED
    BY <1>1, <2>3, <2>4 DEF RaceInv
<1> QED
  BY <1>2, <1>3 DEF Next, AllDone

LEMMA InitRace == Competition /\ Init => RaceInv
<1> SUFFICES ASSUME Competition, Init PROVE RaceInv
  OBVIOUS
<1>1. GapInv /\ TypeOK
  BY InitGap DEF GapInv, IInv
<1>2. Served = {} /\ Taken = {}
  BY DEF Init, Served, Taken
<1>3. Shares
  <2>1. PICK s \in StartNics, others \in StartOther : ips = StartIps(s, others)
    BY DEF Init
  <2>2. StartFree(s, others) \in SUBSET FreeNow
    <3>1. ASSUME NEW a \in StartFree(s, others) PROVE a \in FreeNow
      <4>1. /\ a \in ProvRange /\ a \notin others /\ a \in Addrs
            /\ ~(\E m \in Macs : s[m].vm # NoOne /\ s[m].ip = a)
        BY AddrFacts DEF StartFree
      <4>2. a \notin {ProvMin - 1, ProvMax + 1}
        BY <4>1, SubnetAssumption DEF ProvRange
      <4>3. ips[a] = NoIp
        BY <2>1, <4>1, <4>2 DEF StartIps
      <4> QED
        BY <4>1, <4>3 DEF FreeNow, Free, Present, NoIp
    <3> QED
      BY <3>1
  <2>3. IsFiniteSet(FreeNow)
    <3>1. IsFiniteSet(ProvRange) /\ FreeNow \in SUBSET ProvRange
      BY FS_Interval, SubnetAssumption DEF ProvRange, FreeNow
    <3> QED
      BY <3>1, FS_Subset
  <2>4. /\ IsFiniteSet(StartFree(s, others))
        /\ Cardinality(StartFree(s, others)) <= Cardinality(FreeNow)
    BY <2>2, <2>3, FS_Subset
  <2>5. Cardinality(Requests) <= Cardinality(StartFree(s, others))
    BY DEF Competition
  <2>6. /\ Cardinality(Requests) \in Nat /\ Cardinality(FreeNow) \in Nat
        /\ Cardinality(StartFree(s, others)) \in Nat
    BY <2>3, <2>4, FS_CardinalityType DEF Competition
  <2>7. Requests \ Served = Requests
    BY <1>2
  <2> QED
    BY <1>2, <2>4, <2>5, <2>6, <2>7 DEF Shares
<1>4. ASSUME NEW r \in Requests PROVE Race(r)
  <2>1. /\ pc[r] = "idle" /\ result[r] = "none" /\ pick[r] = NoSnap /\ queue[r] = <<>>
        /\ ~noGap[r] /\ tries[r] = 0 /\ mac[r] = op[r].mac /\ macTries[r] = 0
        /\ retries[r] = 0 /\ err[r] = "none"
    BY DEF Init
  <2>2. pick[r].addr = NoAddr /\ ~Stale(pick[r]) /\ Lost(r)
    BY <2>1 DEF NoSnap, Unused, Stale, Lost
  <2>3. TriedAre(r, {})
    BY <2>1, <2>2, FS_EmptySet DEF TriedAre
  <2>4. MacCost(r) = 0
    BY <2>1 DEF MacCost, MacBound
  <2>5. Racing(r)
    BY <2>1, <2>2, <2>3, <2>4, LimitsAssumption DEF Racing
  <2> QED
    BY <2>1, <2>5 DEF Race
<1> QED
  BY <1>1, <1>3, <1>4 DEF RaceInv

\* Creates that compete for the addresses of a network all get past the choice of one, if
\* there are as many addresses and the limits of nicAndIP and NetworkProvision exceed
\* their number: each attempt a request loses is lost to a request that was served,
\* to a search that found no gap, or to a MAC.
THEOREM CompetitorsServed == ASSUME Competition PROVE Spec => []CompetitorsFindAddresses
<1>1. Init => RaceInv
  BY InitRace
<1>2. RaceInv /\ [Next]_vars => RaceInv'
  BY RaceStep
<1>3. RaceInv => CompetitorsFindAddresses
  BY DEF RaceInv, Race, Racing, CompetitorsFindAddresses
<1> QED
  BY <1>1, <1>2, <1>3, PTL DEF Spec
=============================================================================
