------------------------- MODULE NicLedger_proofs -------------------------
(***************************************************************************)
(* The requests, with their reads, etags, conflicts and retries, implement *)
(* the AddressLedger: as long as no operation overrides the NIC that holds *)
(* an address, every batch is one step of the ledger or none.              *)
(***************************************************************************)
EXTENDS NicProvision_proofs

\* No PUT of an IP changes whose it is, and every delete is conditional.
NoOverride ==
  \A o \in Ops : /\ o.kind \notin {"free", "unassign", "assign"}
                 /\ o.kind = "delete" => o.cond

Untouched == touched = {}

\* Then no address is ever written without regard to the NIC that holds it.
LEMMA NothingTouched ==
  ASSUME NoOverride
  PROVE  Spec => []Untouched
<1>1. Init => Untouched
  BY DEF Init, Untouched
<1>2. IInv /\ Untouched /\ [Next]_vars => Untouched'
  <2> SUFFICES ASSUME IInv, Untouched, [Next]_vars, touched' # touched
               PROVE  FALSE
    BY DEF Untouched
  <2>1. PICK r \in Requests : CommitDelete(r) \/ CommitIp(r)
    BY DEF Next, AllDone, Start, Step, ReadNic, ReadOld, ReadIp, Choose, KeepIp,
           IpTaken, OutOfTries, NextQueued, FindGap, NoGap, FindFreed, SubnetFull,
           MacSupplied, RandomMac, Commit, CommitNic, ConflictNic, FailNic, LoseNic,
           WriteNicAndIp, FailDelete, FailIp, store, vars
  <2>2. op[r].kind \notin {"free", "unassign", "assign"}
        /\ (op[r].kind = "delete" => op[r].cond)
    BY DEF IInv, TypeOK, NoOverride
  <2> QED
    BY <2>1, <2>2 DEF CommitDelete, DeleteFits, CommitIp, IpPut
<1> QED
  BY <1>1, <1>2, Invariant, PTL DEF Spec

LEMMA InitBalanced == IInv /\ Untouched => Ledger!Balanced
<1> SUFFICES ASSUME IInv, Untouched PROVE Ledger!Balanced
  OBVIOUS
<1>1. nics \in [Macs -> NicRow] /\ ips \in [Addrs -> IpRow]
  BY DEF IInv, TypeOK
<1>2. \A m \in Macs : /\ nics[m].vm = NoOne => nics[m] = NoNic
                      /\ nics[m].ip # NoAddr => nics[m].etag # 0
  BY OwnersAssumption DEF IInv, StoreIsClean, NoNic
<1>3. \A m \in Macs : nics[m].ip # NoAddr => ips[nics[m].ip].belongs = nics[m].vm
  BY <1>2 DEF IInv, AddressesAgree, NicsOwnTheirAddresses, Untouched
<1>4. \A m, n \in Macs : nics[m].ip = nics[n].ip /\ nics[m].ip # NoAddr => m = n
  BY DEF IInv, AddressesAgree, UniqueAddresses, Untouched
<1>5. \A a \in Addrs : ips[a].belongs \in VMs => \E m \in Macs : nics[m].ip = a
  BY DEF IInv, AddressesAgree, NoLeakedAddress, Untouched
<1> QED
  BY <1>1, <1>2, <1>3, <1>4, <1>5 DEF Ledger!Balanced, NicRow, IpRow, NoNic

\* The batch of a create or an update.
LEMMA WriteIsPut ==
  ASSUME IInv, Untouched, NEW r \in Requests, Writes(r), BatchFits(r), WriteNicAndIp(r)
  PROVE  Ledger!Next
<1> DEFINE M == mac[r]
           A == pick[r].addr
           O == old[r].addr
           V == NewVm(r)
<1>1. TypeOK /\ M \in Macs /\ V \in VMs /\ A \in Addrs \cup {NoAddr}
  BY WriteFacts DEF IInv, TypeOK, IpSnap
<1>2. /\ nics[M] = nicSeen[r] /\ O = nics[M].ip
      /\ O # NoAddr => old[r].belongs = nicSeen[r].vm
  BY <1>1, FittingNic, OldIsOwn DEF Untouched, BatchFits, Writes
<1>3. A \in {NoAddr, nics[M].ip} \/ ips[A].belongs \in {NoOne, Other}
  BY <1>1, <1>2 DEF IInv, RequestInv, PickIsAllowed, Provisionable, TrueSnap, BatchFits,
                    PickFits, Writes, IpPut
<1>4. \A x \in Addrs :
        ips'[x].belongs = IF x = A THEN V ELSE IF x = O THEN NoOne ELSE ips[x].belongs
  BY <1>1, <1>2, AddrFacts DEF WriteNicAndIp, Releases, Unassigned, TypeOK
<1>5. \A m \in Macs : /\ nics'[m].vm = IF m = M THEN V ELSE nics[m].vm
                      /\ nics'[m].ip = IF m = M THEN A ELSE nics[m].ip
  BY <1>1 DEF WriteNicAndIp, TypeOK
<1> HIDE DEF M, A, O, V
<1>6. PICK m \in Macs, v \in VMs, a \in Addrs \cup {NoAddr} : m = M /\ v = V /\ a = A
  BY <1>1
<1>7. Ledger!Put(m, v, a)
  BY <1>1, <1>2, <1>3, <1>4, <1>5, <1>6 DEF Ledger!Put, Ledger!Available
<1> QED
  BY <1>7 DEF Ledger!Next

\* The batch of a conditional delete.
LEMMA DeleteIsRemove ==
  ASSUME IInv, Untouched, NEW r \in Requests, CommitDelete(r), op[r].cond
  PROVE  Ledger!Next
<1> DEFINE M == mac[r]
           O == old[r].addr
<1>1. TypeOK /\ M \in Macs /\ NicFits(r) /\ nics[M].vm # NoOne
  BY OwnersAssumption
     DEF CommitDelete, DeleteFits, IInv, RequestInv, Progress, IpPut, StoreIsClean
<1>2. /\ nics[M] = nicSeen[r] /\ O = nics[M].ip
      /\ O # NoAddr => old[r].belongs = nicSeen[r].vm
  BY <1>1, FittingNic, OldIsOwn DEF Untouched, CommitDelete
<1>3. \A x \in Addrs : ips'[x].belongs = IF x = O THEN NoOne ELSE ips[x].belongs
  BY <1>1, <1>2, AddrFacts DEF CommitDelete, Releases, Unassigned, TypeOK
<1>4. \A m \in Macs : /\ nics'[m].vm = IF m = M THEN NoOne ELSE nics[m].vm
                      /\ nics'[m].ip = IF m = M THEN NoAddr ELSE nics[m].ip
  BY <1>1 DEF CommitDelete, NoNic, TypeOK
<1> HIDE DEF M, O
<1>5. PICK m \in Macs : m = M
  BY <1>1
<1>6. Ledger!Remove(m)
  BY <1>1, <1>2, <1>3, <1>4, <1>5 DEF Ledger!Remove
<1> QED
  BY <1>6 DEF Ledger!Next

\* Reserving an address does not change whose it is.
LEMMA ReserveIsStutter ==
  ASSUME IInv, NEW r \in Requests, CommitIp(r), op[r].kind = "reserve"
  PROVE  UNCHANGED Ledger!ledger
<1>1. pick[r].addr = op[r].addr /\ op[r].addr \in Addrs /\ TypeOK
  BY OpFacts DEF CommitIp, IInv, RequestInv, Progress, WellFormed, OpType
<1>2. pick[r].belongs = ips[op[r].addr].belongs
  BY <1>1, AddrFacts DEF CommitIp, PickFits, IInv, RequestInv, TrueSnap
<1>3. \A a \in Addrs : ips'[a].belongs = ips[a].belongs
  BY <1>1, <1>2 DEF CommitIp, PutRow, TypeOK
<1> QED
  BY <1>3 DEF CommitIp, Ledger!ledger

\* Every batch of an API that never overrides does to the NICs and their
\* addresses what one request alone would have done at that moment.
THEOREM RequestsImplementLedger ==
  ASSUME NoOverride
  PROVE  Spec => ImplementsLedger
<1>1. IInv /\ Untouched /\ [Next]_vars => [Ledger!Next]_(Ledger!ledger)
  <2> SUFFICES ASSUME IInv, Untouched, [Next]_vars
               PROVE  Ledger!Next \/ UNCHANGED Ledger!ledger
    OBVIOUS
  <2>1. ASSUME NEW r \in Requests, Start(r) \/ Step(r)
        PROVE  Ledger!Next \/ UNCHANGED Ledger!ledger
    <3>1. op[r].kind \notin {"free", "unassign", "assign"}
          /\ (op[r].kind = "delete" => op[r].cond)
      BY DEF IInv, TypeOK, NoOverride
    <3>2. CASE CommitNic(r) \/ LoseNic(r)
      BY <3>2, WriteIsPut DEF CommitNic, LoseNic
    <3>3. CASE CommitDelete(r)
      BY <3>1, <3>3, DeleteIsRemove DEF CommitDelete
    <3>4. CASE CommitIp(r)
      BY <3>1, <3>4, ReserveIsStutter DEF CommitIp, IpPut
    <3>5. CASE ~(CommitNic(r) \/ LoseNic(r) \/ CommitDelete(r) \/ CommitIp(r))
      <4>1. UNCHANGED <<nics, ips>>
        BY <2>1, <3>5
           DEF Start, Step, ReadNic, ReadOld, ReadIp, Choose, KeepIp, IpTaken,
               OutOfTries, NextQueued, FindGap, NoGap, FindFreed, SubnetFull,
               MacSupplied, RandomMac, Commit, ConflictNic, FailNic, FailDelete,
               FailIp, store
      <4> QED
        BY <4>1 DEF Ledger!ledger
    <3> QED
      BY <3>2, <3>3, <3>4, <3>5
  <2>2. CASE UNCHANGED vars
    BY <2>2 DEF vars, store, Ledger!ledger
  <2> QED
    BY <2>1, <2>2 DEF Next, AllDone
<1>2. IInv /\ Untouched => Ledger!Init
  BY InitBalanced DEF Ledger!Init
<1> QED
  BY <1>1, <1>2, Invariant, NothingTouched, PTL DEF Spec, ImplementsLedger, Ledger!Spec

\* Only a delete removes a NIC's row.
LEMMA OnlyDeletes ==
  ASSUME IInv, NEW r \in Requests, Start(r) \/ Step(r), NEW m \in Macs,
         nics[m].etag # 0, nics'[m].etag = 0
  PROVE  CommitDelete(r) /\ m = mac[r]
<1>1. TypeOK /\ nics' # nics
  BY DEF IInv
<1>2. CommitNic(r) \/ LoseNic(r) \/ CommitDelete(r)
  BY <1>1 DEF Start, Step, ReadNic, ReadOld, ReadIp, Choose, KeepIp, IpTaken, OutOfTries, NextQueued,
              FindGap, NoGap, FindFreed, SubnetFull, MacSupplied, RandomMac, Commit, ConflictNic,
              FailNic, FailDelete, CommitIp, FailIp, store
<1>3. ~WriteNicAndIp(r)
  <2>1. clock \in Nat /\ nics \in [Macs -> NicRow]
    BY <1>1 DEF TypeOK
  <2>2. WriteNicAndIp(r) => nics'[m] = nics[m] \/ nics'[m].etag = clock + 1
    BY <2>1 DEF WriteNicAndIp
  <2>3. clock + 1 # 0
    BY <2>1
  <2> QED
    BY <2>2, <2>3
<1>4. CommitDelete(r)
  BY <1>2, <1>3 DEF CommitNic, LoseNic
<1> QED
  BY <1>1, <1>4 DEF CommitDelete, TypeOK

\* A conditional delete frees the address the NIC has when the delete commits, though it
\* read the NIC and the record of its address in two earlier calls: if an update
\* gave the NIC another address in between, the NIC's etag is no longer the one read.
THEOREM DeletesFree ==
  ASSUME NoOverride
  PROVE  Spec => DeleteFreesAddress
<1>1. IInv /\ Untouched /\ [Next]_vars =>
        [\A m \in Macs :
           nics[m].etag # 0 /\ nics'[m].etag = 0 /\ nics[m].ip # NoAddr
             => ips'[nics[m].ip].belongs = NoOne]_vars
  <2> SUFFICES ASSUME IInv, Untouched, Next, NEW m \in Macs,
                      nics[m].etag # 0, nics'[m].etag = 0, nics[m].ip # NoAddr
               PROVE  ips'[nics[m].ip].belongs = NoOne
    BY DEF vars, store
  <2>1. PICK r \in Requests : Start(r) \/ Step(r)
    BY DEF Next, AllDone, vars, store
  <2>2. CommitDelete(r) /\ m = mac[r] /\ TypeOK
    BY <2>1, OnlyDeletes DEF IInv
  <2>3. NicFits(r) /\ pc[r] = "commit"
    BY <2>2 DEF CommitDelete, DeleteFits, NoOverride, TypeOK
  <2>4. nics[m] = nicSeen[r] /\ old[r].addr = nics[m].ip /\ old[r].belongs = nicSeen[r].vm
    BY <2>2, <2>3, FittingNic, OldIsOwn DEF Untouched
  <2>5. Releases(r) /\ old[r].addr \in Addrs
    BY <2>2, <2>4 DEF Releases, CommitDelete, TypeOK, IpSnap
  <2>6. ips' = [ips EXCEPT ![old[r].addr] = Unassigned(old[r])]
    BY <2>2, <2>5 DEF CommitDelete
  <2>7. ips'[nics[m].ip] = Unassigned(old[r])
    BY <2>2, <2>4, <2>5, <2>6 DEF TypeOK
  <2> QED
    BY <2>7 DEF Unassigned
<1> QED
  BY <1>1, Invariant, NothingTouched, PTL DEF Spec, DeleteFreesAddress
=============================================================================
