----------------------- MODULE NetworkLifecycle_proofs -----------------------
(***************************************************************************)
(* Proofs about NetworkLifecycle.                                          *)
(*                                                                         *)
(* If requests do not overlap and no fabric network is deleted, references *)
(* between the buckets resolve, networks are whole and the records of      *)
(* gateways name their NICs, wherever a request is cut short: LifeInv and  *)
(* HomeInv.  However requests overlap, a deleted network gets no NIC, and  *)
(* without deletions no tag is lost: DeletedInv and TagsInv.               *)
(***************************************************************************)
EXTENDS NetworkLifecycle, TLAPS

\* One request at a time, and none for the endpoint that forgets the pools.
OneAtATime == Serial /\ \A o \in Ops : o.kind # "deleteFabricNet"

\* Every reference between the buckets resolves.
References == NetsResolve /\ PoolsResolve /\ NicsResolve

\* The values of an absent row are rows.
LEMMA Defaults ==
  /\ NoTag \in TagRow /\ NoNet \in NetRow /\ NoPool \in PoolRow
  /\ NoNic \in NicRow /\ NoGw \in GwRow
  BY LifeNames DEF NoTag, NoNet, NoPool, NoNic, NoGw, TagRow, NetRow, PoolRow,
                   NicRow, GwRow

\* The fields of an operation.
LEMMA OpFacts ==
  ASSUME NEW o \in Ops
  PROVE  /\ o \in OpType
         /\ o.kind \in Kinds /\ o.tag \in Tags /\ o.to \in Tags
         /\ o.mtu \in Mtus \cup {0} /\ o.net \in Nets /\ o.pool \in Pools
         /\ o.members \in SUBSET Nets /\ o.nic \in Nics /\ o.gateway \in BOOLEAN
         /\ o.kind \in {"createTag", "createNet"} => o.mtu \in Mtus
  BY LifeOps DEF OpType

\* A step of one request, made when no other is in progress, leaves the others
\* with nothing to know.
LEMMA OthersQuiet ==
  ASSUME LifeInv, OneAtATime, NEW r \in Requests, NEW label,
         pc' = [pc EXCEPT ![r] = label],
         \A q \in Requests : q # r => ~InProgress(q)
  PROVE  Alone' /\ \A q \in Requests : q # r => Facts(q)'
<1> USE DEF LifeInv, TypeOK
<1>1. \A q \in Requests : q # r => pc'[q] = pc[q] /\ pc[q] \in {"idle", "done"}
  BY DEF InProgress
<1>2. Alone'
  BY <1>1 DEF Alone, InProgress
<1>3. ASSUME NEW q \in Requests, q # r
      PROVE  Facts(q)'
  BY <1>1, <1>3 DEF Facts, KindFacts, TagFacts, NetFacts, PoolFacts, NicFacts, At
<1> QED BY <1>2, <1>3

\* With one request at a time, the others are quiet while one is in progress.
LEMMA OnlyOne ==
  ASSUME LifeInv, OneAtATime, NEW r \in Requests, InProgress(r)
  PROVE  \A q \in Requests : q # r => ~InProgress(q)
  BY DEF LifeInv, Alone, OneAtATime

-----------------------------------------------------------------------------
(* The actions, one lemma each: types, references, and what the request     *)
(* itself knows afterwards.                                                 *)

\* A request that starts knows nothing.
LEMMA StartStep ==
  ASSUME LifeInv, OneAtATime, NEW r \in Requests, Start(r)
  PROVE  TypeOK' /\ References' /\ Alone' /\ \A q \in Requests : Facts(q)'
<1> USE DEF LifeInv, TypeOK
<1>1. PICK o \in Ops : /\ op' = [op EXCEPT ![r] = o]
                       /\ under' = [under EXCEPT ![r] = o.tag]
                       /\ left' = [left EXCEPT ![r] = o.members]
                       /\ GoFirst(r, o)
  BY DEF Start
<1> DEFINE Begins(label) ==
             /\ (Renames(o) \/ o.kind = "deleteTag") <=> label = "tagUnused"
             /\ label = "newName" <=> o.kind = "createTag"
             /\ label \in {"tagMtu", "oldTag"} => o.kind = "updateTag"
             /\ label = "oldTag" => o.mtu = 0
             /\ label = "netTag" => o.kind = "createNet" /\ o.mtu # 0
             /\ (label = "net") <=> o.kind \in {"updateNet", "deleteNet", "deleteFabricNet"}
             /\ label = "newMembers" => o.kind = "createPool"
             /\ label = "pool" => o.kind \in {"updatePool", "deletePool"}
             /\ label = "nicNet" => o.kind = "createNic"
             /\ label = "nic" => o.kind = "deleteNic"
<1>a. /\ o.kind = "createTag" => Begins("newName")
      /\ Renames(o) \/ o.kind = "deleteTag" => Begins("tagUnused")
      /\ o.kind = "updateTag" /\ ~Renames(o) => Begins("tagMtu")
      /\ o.kind = "updateTag" /\ ~Renames(o) /\ o.mtu = 0 => Begins("oldTag")
      /\ o.kind = "createNet" => Begins("netTag")
      /\ o.kind \in {"updateNet", "deleteNet", "deleteFabricNet"} => Begins("net")
      /\ o.kind = "createPool" => Begins("newMembers")
      /\ o.kind \in {"updatePool", "deletePool"} => Begins("pool")
      /\ o.kind = "createNic" => Begins("nicNet")
      /\ o.kind = "deleteNic" => Begins("nic")
  BY LifeOps DEF Renames
<1>2. PICK label \in {"newName", "tagUnused", "tagMtu", "oldTag", "netTag", "net",
                      "newMembers", "pool", "nicNet", "nic"} :
        Goto(r, label) /\ Begins(label)
  <2> HIDE DEF Begins
  <2> QED BY <1>1, <1>a DEF GoFirst
<1>3. TypeOK'
  <2>1. pc' \in [Requests -> Labels] /\ result' \in [Requests -> Results]
    BY <1>2 DEF Goto, Labels
  <2>2. op' \in [Requests -> Ops] /\ under' \in [Requests -> Tags]
        /\ left' \in [Requests -> SUBSET Nets]
    BY <1>1, OpFacts
  <2> QED BY <2>1, <2>2 DEF Start, rows
<1>4. References'
  BY DEF Start, rows, References, NetsResolve, PoolsResolve, NicsResolve, NetThere,
         TagThere, PoolsOf, NicsOf
<1>5. op'[r] = o /\ pc'[r] = label /\ left'[r] = o.members /\ under'[r] = o.tag
      /\ op'[r].kind # "deleteFabricNet"
  BY <1>1, <1>2 DEF Goto, OneAtATime
<1>6. TagFacts(r)' /\ KindFacts(r)'
  BY <1>2, <1>5 DEF TagFacts, KindFacts, At, Renames, Labels
<1>7. NetFacts(r)'
  BY <1>2, <1>5 DEF NetFacts, At, Labels
<1>8. PoolFacts(r)' /\ NicFacts(r)'
  BY <1>2, <1>5 DEF PoolFacts, NicFacts, At, Labels
<1>9. Alone' /\ \A q \in Requests : q # r => Facts(q)'
  <2>1. \A q \in Requests : q # r => ~InProgress(q)
    BY DEF Start, OneAtATime
  <2>2. pc' = [pc EXCEPT ![r] = label]
    BY <1>2 DEF Goto
  <2> QED BY <2>1, <2>2, OthersQuiet
<1> QED BY <1>3, <1>4, <1>6, <1>7, <1>8, <1>9 DEF Facts

\* What a call that only reads leaves alone, and where it may lead.
LEMMA ReadShape ==
  ASSUME LifeInv, OneAtATime, NEW r \in Requests, InProgress(r),
         NEW holds, NEW label \in Labels, Check(r, holds, label),
         rows' = rows, op' = op
  PROVE  /\ pc' \in [Requests -> Labels] /\ result' \in [Requests -> Results]
         /\ References' /\ Alone' /\ \A q \in Requests : q # r => Facts(q)'
         /\ (holds /\ pc'[r] = label) \/ pc'[r] = "done"
<1> USE DEF LifeInv, TypeOK
<1>1. /\ pc' \in [Requests -> Labels] /\ result' \in [Requests -> Results]
      /\ (holds /\ pc'[r] = label) \/ pc'[r] = "done"
  BY DEF Check, Goto, Finish, Labels, Results
<1>2. References'
  BY DEF rows, References, NetsResolve, PoolsResolve, NicsResolve, NetThere,
         TagThere, PoolsOf, NicsOf
<1>3. PICK next : pc' = [pc EXCEPT ![r] = next]
  BY DEF Check, Goto, Finish
<1>4. Alone' /\ \A q \in Requests : q # r => Facts(q)'
  BY <1>3, OnlyOne, OthersQuiet
<1> QED BY <1>1, <1>2, <1>4

\* A request that has ended knows nothing.
LEMMA DoneFacts ==
  ASSUME NEW r \in Requests, pc'[r] = "done"
  PROVE  Facts(r)'
  BY DEF Facts, KindFacts, TagFacts, NetFacts, PoolFacts, NicFacts, At

\* What each action must keep.
Kept == TypeOK' /\ References' /\ Alone' /\ \A q \in Requests : Facts(q)'

\* No network has the tag that is to go.
LEMMA TagUnusedStep ==
  ASSUME LifeInv, OneAtATime, NEW r \in Requests, TagUnused(r)
  PROVE  Kept
<1> DEFINE label == IF op[r].kind = "deleteTag" THEN "commit" ELSE "newName"
<1> USE DEF LifeInv, TypeOK
<1>1. /\ pc' \in [Requests -> Labels] /\ result' \in [Requests -> Results]
      /\ References' /\ Alone' /\ \A q \in Requests : q # r => Facts(q)'
      /\ (Unused(op[r].tag) /\ pc'[r] = label) \/ pc'[r] = "done"
  <2>1. InProgress(r) /\ label \in Labels
    BY DEF TagUnused, InProgress, Labels
  <2> QED BY <2>1, ReadShape DEF TagUnused
<1>2. TypeOK'
  BY <1>1 DEF TagUnused, rows, seen
<1>3. ASSUME Unused(op[r].tag), pc'[r] = label
      PROVE  Facts(r)'
  <2>1. TagFacts(r)' /\ NetFacts(r)'
    BY <1>3 DEF TagUnused, TagFacts, NetFacts, Facts, KindFacts, Renames, At, rows,
       seen,
                Unused, NetsOf, NetThere
  <2>2. PoolFacts(r)' /\ NicFacts(r)' /\ KindFacts(r)'
    BY <1>3 DEF TagUnused, PoolFacts, NicFacts, Facts, KindFacts, Renames, At, rows,
       seen
  <2> QED BY <2>1, <2>2 DEF Facts
<1> QED BY <1>1, <1>2, <1>3, DoneFacts DEF Kept

-----------------------------------------------------------------------------
(* Calls that read, one lemma each. *)

\* A create knows nothing new, a rename still knows its tag unused.
LEMMA NewNameStep ==
  ASSUME LifeInv, OneAtATime, NEW r \in Requests, NewName(r)
  PROVE  Kept
<1> DEFINE holds == ~TagThere(op[r].to)
           label == IF op[r].kind = "createTag" THEN "commit"
                    ELSE IF op[r].mtu # 0 THEN "tagMtu" ELSE "oldTag"
<1> USE DEF LifeInv, TypeOK
<1>1. /\ pc' \in [Requests -> Labels] /\ result' \in [Requests -> Results]
      /\ References' /\ Alone' /\ \A q \in Requests : q # r => Facts(q)'
      /\ (holds /\ pc'[r] = label) \/ pc'[r] = "done"
  <2>1. InProgress(r) /\ label \in Labels
    BY DEF NewName, InProgress, Labels
  <2> QED BY <2>1, ReadShape DEF NewName
<1>2. TypeOK'
  BY <1>1, OpFacts DEF NewName, rows, seen
<1>3. ASSUME holds, pc'[r] = label
      PROVE  Facts(r)'
  <2>1. TagFacts(r)'
    BY <1>3, OpFacts DEF Facts, KindFacts, Renames, NewName, TagFacts, At, rows, seen,
       Unused, NetsOf, NetThere
  <2>2. NetFacts(r)'
    BY <1>3 DEF Facts, KindFacts, Renames, NewName, NetFacts, At, rows, seen, NetThere
  <2>3. PoolFacts(r)' /\ NicFacts(r)' /\ KindFacts(r)'
    BY <1>3 DEF Facts, KindFacts, Renames, NewName, PoolFacts, NicFacts, At, rows, seen,
       NetThere
  <2> QED BY <2>1, <2>2, <2>3 DEF Facts
<1> QED BY <1>1, <1>2, <1>3, DoneFacts DEF Kept

\* The networks of the tag have MTUs that suit the new one.
LEMMA TagMtuStep ==
  ASSUME LifeInv, OneAtATime, NEW r \in Requests, TagMtu(r)
  PROVE  Kept
<1> DEFINE holds == \A n \in NetsOf(op[r].tag) : nets[n].mtu <= op[r].mtu
           label == "oldTag"
<1> USE DEF LifeInv, TypeOK
<1>1. /\ pc' \in [Requests -> Labels] /\ result' \in [Requests -> Results]
      /\ References' /\ Alone' /\ \A q \in Requests : q # r => Facts(q)'
      /\ (holds /\ pc'[r] = label) \/ pc'[r] = "done"
  <2>1. InProgress(r) /\ label \in Labels
    BY DEF TagMtu, InProgress, Labels
  <2> QED BY <2>1, ReadShape DEF TagMtu
<1>2. TypeOK'
  BY <1>1, OpFacts DEF TagMtu, rows, seen
<1>3. ASSUME holds, pc'[r] = label
      PROVE  Facts(r)'
  <2>1. TagFacts(r)'
    BY <1>3, OpFacts DEF Facts, KindFacts, Renames, TagMtu, TagFacts, At, rows, seen,
       Unused, NetsOf, NetThere
  <2>2. NetFacts(r)'
    BY <1>3 DEF Facts, KindFacts, Renames, TagMtu, NetFacts, At, rows, seen, NetThere
  <2>3. PoolFacts(r)' /\ NicFacts(r)' /\ KindFacts(r)'
    BY <1>3 DEF Facts, KindFacts, Renames, TagMtu, PoolFacts, NicFacts, At, rows, seen,
       NetThere
  <2> QED BY <2>1, <2>2, <2>3 DEF Facts
<1> QED BY <1>1, <1>2, <1>3, DoneFacts DEF Kept

\* The row of the tag as read is the row there is.
LEMMA OldTagStep ==
  ASSUME LifeInv, OneAtATime, NEW r \in Requests, OldTag(r)
  PROVE  Kept
<1> DEFINE holds == TagThere(op[r].tag)
           label == "commit"
<1> USE DEF LifeInv, TypeOK
<1>1. /\ pc' \in [Requests -> Labels] /\ result' \in [Requests -> Results]
      /\ References' /\ Alone' /\ \A q \in Requests : q # r => Facts(q)'
      /\ (holds /\ pc'[r] = label) \/ pc'[r] = "done"
  <2>1. InProgress(r) /\ label \in Labels
    BY DEF OldTag, InProgress, Labels
  <2> QED BY <2>1, ReadShape DEF OldTag
<1>2. TypeOK'
  BY <1>1, OpFacts DEF OldTag, rows, seen
<1>3. ASSUME holds, pc'[r] = label
      PROVE  Facts(r)'
  <2>1. TagFacts(r)'
    BY <1>3, OpFacts DEF Facts, KindFacts, Renames, OldTag, TagFacts, At, rows, seen,
       Unused, NetsOf, NetThere, TagThere
  <2>2. NetFacts(r)'
    BY <1>3 DEF Facts, KindFacts, Renames, OldTag, NetFacts, At, rows, seen, NetThere,
       TagThere
  <2>3. PoolFacts(r)' /\ NicFacts(r)' /\ KindFacts(r)'
    BY <1>3 DEF Facts, KindFacts, Renames, OldTag, PoolFacts, NicFacts, At, rows, seen,
       NetThere
  <2> QED BY <2>1, <2>2, <2>3 DEF Facts
<1> QED BY <1>1, <1>2, <1>3, DoneFacts DEF Kept

\* An update knows the row of its network.
LEMMA ReadNetStep ==
  ASSUME LifeInv, OneAtATime, NEW r \in Requests, ReadNet(r)
  PROVE  Kept
<1> DEFINE holds == NetThere(op[r].net)
           label == CASE op[r].kind = "updateNet"
                           -> IF op[r].mtu # 0 THEN "netAgain" ELSE "commit"
                      [] op[r].kind = "deleteNet" -> "netPools"
                      [] op[r].kind = "deleteFabricNet" -> "netNics"
<1> USE DEF LifeInv, TypeOK
<1>1. /\ pc' \in [Requests -> Labels] /\ result' \in [Requests -> Results]
      /\ References' /\ Alone' /\ \A q \in Requests : q # r => Facts(q)'
      /\ (holds /\ pc'[r] = label) \/ pc'[r] = "done"
  <2>1. InProgress(r) /\ label \in Labels
    BY DEF ReadNet, InProgress, Labels, Facts, KindFacts
  <2> QED BY <2>1, ReadShape DEF ReadNet
<1>2. TypeOK'
  BY <1>1, OpFacts DEF ReadNet, rows, seen
<1>3. ASSUME holds, pc'[r] = label
      PROVE  Facts(r)'
  <2>1. TagFacts(r)'
    BY <1>3, OpFacts DEF Facts, KindFacts, Renames, ReadNet, TagFacts, At, rows, seen,
       NetThere
  <2>2. NetFacts(r)'
    BY <1>3 DEF Facts, KindFacts, Renames, ReadNet, NetFacts, OneAtATime, At, rows,
       seen, NetThere
  <2>3. PoolFacts(r)' /\ NicFacts(r)' /\ KindFacts(r)'
    BY <1>3 DEF Facts, KindFacts, Renames, ReadNet, PoolFacts, NicFacts, At, rows, seen,
       NetThere
  <2> QED BY <2>1, <2>2, <2>3 DEF Facts
<1> QED BY <1>1, <1>2, <1>3, DoneFacts DEF Kept

\* An update knows the tag of its network.
LEMMA ReadNetAgainStep ==
  ASSUME LifeInv, OneAtATime, NEW r \in Requests, ReadNetAgain(r)
  PROVE  Kept
<1> DEFINE holds == NetThere(op[r].net)
           label == "netTag"
<1> USE DEF LifeInv, TypeOK
<1>1. /\ pc' \in [Requests -> Labels] /\ result' \in [Requests -> Results]
      /\ References' /\ Alone' /\ \A q \in Requests : q # r => Facts(q)'
      /\ (holds /\ pc'[r] = label) \/ pc'[r] = "done"
  <2>1. InProgress(r) /\ label \in Labels
    BY DEF ReadNetAgain, InProgress, Labels
  <2> QED BY <2>1, ReadShape DEF ReadNetAgain
<1>2. TypeOK'
  BY <1>1, OpFacts DEF ReadNetAgain, rows, seen, NetRow
<1>3. ASSUME holds, pc'[r] = label
      PROVE  Facts(r)'
  <2>1. TagFacts(r)'
    BY <1>3, OpFacts DEF Facts, KindFacts, Renames, ReadNetAgain, TagFacts, At, rows,
       seen, NetThere
  <2>2. NetFacts(r)'
    BY <1>3 DEF Facts, KindFacts, Renames, ReadNetAgain, NetFacts, At, rows, seen,
       NetThere
  <2>3. PoolFacts(r)' /\ NicFacts(r)' /\ KindFacts(r)'
    BY <1>3 DEF Facts, KindFacts, Renames, ReadNetAgain, PoolFacts, NicFacts, At, rows,
       seen, NetThere
  <2> QED BY <2>1, <2>2, <2>3 DEF Facts
<1> QED BY <1>1, <1>2, <1>3, DoneFacts DEF Kept

\* The tag is there and its MTU suffices.
LEMMA ReadNetTagStep ==
  ASSUME LifeInv, OneAtATime, NEW r \in Requests, ReadNetTag(r)
  PROVE  Kept
<1> DEFINE holds == TagThere(under[r]) /\ MtuFits(under[r], op[r].mtu)
           label == "commit"
<1> USE DEF LifeInv, TypeOK
<1>1. /\ pc' \in [Requests -> Labels] /\ result' \in [Requests -> Results]
      /\ References' /\ Alone' /\ \A q \in Requests : q # r => Facts(q)'
      /\ (holds /\ pc'[r] = label) \/ pc'[r] = "done"
  <2>1. InProgress(r) /\ label \in Labels
    BY DEF ReadNetTag, InProgress, Labels
  <2> QED BY <2>1, ReadShape DEF ReadNetTag
<1>2. TypeOK'
  BY <1>1, OpFacts DEF ReadNetTag, rows, seen
<1>3. ASSUME holds, pc'[r] = label
      PROVE  Facts(r)'
  <2>1. TagFacts(r)'
    BY <1>3, OpFacts DEF Facts, KindFacts, Renames, ReadNetTag, TagFacts, At, rows,
       seen, NetThere, TagThere
  <2>2. NetFacts(r)'
    BY <1>3 DEF Facts, KindFacts, Renames, ReadNetTag, NetFacts, At, rows, seen,
       NetThere, TagThere, MtuFits
  <2>3. PoolFacts(r)' /\ NicFacts(r)' /\ KindFacts(r)'
    BY <1>3 DEF Facts, KindFacts, Renames, ReadNetTag, PoolFacts, NicFacts, At, rows,
       seen, NetThere
  <2> QED BY <2>1, <2>2, <2>3 DEF Facts
<1> QED BY <1>1, <1>2, <1>3, DoneFacts DEF Kept

\* No pool has the network that is to go.
LEMMA ListPoolsStep ==
  ASSUME LifeInv, OneAtATime, NEW r \in Requests, ListPools(r)
  PROVE  Kept
<1> DEFINE holds == ListedPools(op[r].net) = {}
           label == "netNics"
<1> USE DEF LifeInv, TypeOK
<1>1. /\ pc' \in [Requests -> Labels] /\ result' \in [Requests -> Results]
      /\ References' /\ Alone' /\ \A q \in Requests : q # r => Facts(q)'
      /\ (holds /\ pc'[r] = label) \/ pc'[r] = "done"
  <2>1. InProgress(r) /\ label \in Labels
    BY DEF ListPools, InProgress, Labels
  <2> QED BY <2>1, ReadShape DEF ListPools
<1>2. TypeOK'
  BY <1>1, OpFacts DEF ListPools, rows, seen
<1>3. ASSUME holds, pc'[r] = label
      PROVE  Facts(r)'
  <2>1. TagFacts(r)'
    BY <1>3, OpFacts DEF Facts, KindFacts, Renames, ListPools, TagFacts, At, rows, seen,
       NetThere
  <2>2. NetFacts(r)'
    BY <1>3 DEF Facts, KindFacts, Renames, ListPools, NetFacts, At, rows, seen,
       NetThere, ListedPools, PoolsOf
  <2>3. PoolFacts(r)' /\ NicFacts(r)' /\ KindFacts(r)'
    BY <1>3 DEF Facts, KindFacts, Renames, ListPools, PoolFacts, NicFacts, At, rows,
       seen, NetThere
  <2> QED BY <2>1, <2>2, <2>3 DEF Facts
<1> QED BY <1>1, <1>2, <1>3, DoneFacts DEF Kept

\* No NIC is on the network that is to go.
LEMMA ListNicsStep ==
  ASSUME LifeInv, OneAtATime, NEW r \in Requests, ListNics(r)
  PROVE  Kept
<1> DEFINE holds == ListedNics(op[r].net) = {}
           label == "commit"
<1> USE DEF LifeInv, TypeOK
<1>1. /\ pc' \in [Requests -> Labels] /\ result' \in [Requests -> Results]
      /\ References' /\ Alone' /\ \A q \in Requests : q # r => Facts(q)'
      /\ (holds /\ pc'[r] = label) \/ pc'[r] = "done"
  <2>1. InProgress(r) /\ label \in Labels
    BY DEF ListNics, InProgress, Labels
  <2> QED BY <2>1, ReadShape DEF ListNics
<1>2. TypeOK'
  BY <1>1, OpFacts DEF ListNics, rows, seen
<1>3. ASSUME holds, pc'[r] = label
      PROVE  Facts(r)'
  <2>1. TagFacts(r)'
    BY <1>3, OpFacts DEF Facts, KindFacts, Renames, ListNics, TagFacts, At, rows, seen,
       NetThere
  <2>2. NetFacts(r)'
    BY <1>3 DEF Facts, KindFacts, Renames, ListNics, NetFacts, At, rows, seen, NetThere,
       ListedNics, NicsOf, PoolsOf
  <2>3. PoolFacts(r)' /\ NicFacts(r)' /\ KindFacts(r)'
    BY <1>3 DEF Facts, KindFacts, Renames, ListNics, PoolFacts, NicFacts, At, rows,
       seen, NetThere
  <2> QED BY <2>1, <2>2, <2>3 DEF Facts
<1> QED BY <1>1, <1>2, <1>3, DoneFacts DEF Kept

\* All the members of the pool are still to be read.
LEMMA ReadPoolStep ==
  ASSUME LifeInv, OneAtATime, NEW r \in Requests, ReadPool(r)
  PROVE  Kept
<1> DEFINE holds == pools[op[r].pool].etag # 0
           label == "oldMembers"
<1> USE DEF LifeInv, TypeOK
<1>1. /\ pc' \in [Requests -> Labels] /\ result' \in [Requests -> Results]
      /\ References' /\ Alone' /\ \A q \in Requests : q # r => Facts(q)'
      /\ (holds /\ pc'[r] = label) \/ pc'[r] = "done"
  <2>1. InProgress(r) /\ label \in Labels
    BY DEF ReadPool, InProgress, Labels
  <2> QED BY <2>1, ReadShape DEF ReadPool
<1>2. TypeOK'
  BY <1>1, OpFacts DEF ReadPool, rows, seen, PoolRow
<1>3. ASSUME holds, pc'[r] = label
      PROVE  Facts(r)'
  <2>1. TagFacts(r)'
    BY <1>3, OpFacts DEF Facts, KindFacts, Renames, ReadPool, TagFacts, At, rows, seen
  <2>2. NetFacts(r)'
    BY <1>3 DEF Facts, KindFacts, Renames, ReadPool, NetFacts, At, rows, seen
  <2>3. PoolFacts(r)' /\ NicFacts(r)' /\ KindFacts(r)'
    BY <1>3 DEF Facts, KindFacts, Renames, ReadPool, PoolFacts, NicFacts, At, rows, seen
  <2> QED BY <2>1, <2>2, <2>3 DEF Facts
<1> QED BY <1>1, <1>2, <1>3, DoneFacts DEF Kept

\* The NIC was read: nothing to know of networks yet.
LEMMA ReadNicStep ==
  ASSUME LifeInv, OneAtATime, NEW r \in Requests, ReadNic(r)
  PROVE  Kept
<1> DEFINE holds == nics[op[r].nic].etag # 0
           label == "nicNet"
<1> USE DEF LifeInv, TypeOK
<1>1. /\ pc' \in [Requests -> Labels] /\ result' \in [Requests -> Results]
      /\ References' /\ Alone' /\ \A q \in Requests : q # r => Facts(q)'
      /\ (holds /\ pc'[r] = label) \/ pc'[r] = "done"
  <2>1. InProgress(r) /\ label \in Labels
    BY DEF ReadNic, InProgress, Labels
  <2> QED BY <2>1, ReadShape DEF ReadNic
<1>2. TypeOK'
  BY <1>1, OpFacts DEF ReadNic, rows, seen
<1>3. ASSUME holds, pc'[r] = label
      PROVE  Facts(r)'
  <2>1. TagFacts(r)'
    BY <1>3, OpFacts DEF Facts, KindFacts, Renames, ReadNic, TagFacts, At, rows, seen
  <2>2. NetFacts(r)'
    BY <1>3 DEF Facts, KindFacts, Renames, ReadNic, NetFacts, At, rows, seen
  <2>3. PoolFacts(r)' /\ NicFacts(r)' /\ KindFacts(r)'
    BY <1>3 DEF Facts, KindFacts, Renames, ReadNic, PoolFacts, NicFacts, At, rows, seen
  <2> QED BY <2>1, <2>2, <2>3 DEF Facts
<1> QED BY <1>1, <1>2, <1>3, DoneFacts DEF Kept

\* The network of the new NIC exists.
LEMMA ReadNicNetStep ==
  ASSUME LifeInv, OneAtATime, NEW r \in Requests, ReadNicNet(r)
  PROVE  Kept
<1> DEFINE holds == NetThere(NicNet(r))
           label == "nicIp"
<1> USE DEF LifeInv, TypeOK
<1>1. /\ pc' \in [Requests -> Labels] /\ result' \in [Requests -> Results]
      /\ References' /\ Alone' /\ \A q \in Requests : q # r => Facts(q)'
      /\ (holds /\ pc'[r] = label) \/ pc'[r] = "done"
  <2>1. InProgress(r) /\ label \in Labels
    BY DEF ReadNicNet, InProgress, Labels
  <2> QED BY <2>1, ReadShape DEF ReadNicNet
<1>2. TypeOK'
  BY <1>1, OpFacts DEF ReadNicNet, rows, seen
<1>3. ASSUME holds, pc'[r] = label
      PROVE  Facts(r)'
  <2>1. TagFacts(r)'
    BY <1>3, OpFacts DEF Facts, KindFacts, Renames, ReadNicNet, TagFacts, At, rows,
       seen, NetThere
  <2>2. NetFacts(r)'
    BY <1>3 DEF Facts, KindFacts, Renames, ReadNicNet, NetFacts, At, rows, seen,
       NetThere
  <2>3. PoolFacts(r)' /\ NicFacts(r)' /\ KindFacts(r)'
    BY <1>3 DEF Facts, KindFacts, Renames, ReadNicNet, PoolFacts, NicFacts, At, rows,
       seen, NicNet, NetThere
  <2> QED BY <2>1, <2>2, <2>3 DEF Facts
<1> QED BY <1>1, <1>2, <1>3, DoneFacts DEF Kept

\* The network of the new NIC still exists.
LEMMA ReadNicIpStep ==
  ASSUME LifeInv, OneAtATime, NEW r \in Requests, ReadNicIp(r)
  PROVE  Kept
<1> DEFINE holds == /\ buckets[NicNet(r)] # "none"
                    /\ NicGateway(r) => IF op[r].kind = "deleteNic"
                                        THEN gws[NicNet(r)].etag # 0
                                        ELSE FreeToTake(gws[NicNet(r)])
           label == "commit"
<1> USE DEF LifeInv, TypeOK
<1>1. /\ pc' \in [Requests -> Labels] /\ result' \in [Requests -> Results]
      /\ References' /\ Alone' /\ \A q \in Requests : q # r => Facts(q)'
      /\ (holds /\ pc'[r] = label) \/ pc'[r] = "done"
  <2>1. InProgress(r) /\ label \in Labels
    BY DEF ReadNicIp, InProgress, Labels
  <2> QED BY <2>1, ReadShape DEF ReadNicIp
<1>2. TypeOK'
  BY <1>1, OpFacts DEF ReadNicIp, rows, seen, NicNet, NicRow
<1>3. ASSUME holds, pc'[r] = label
      PROVE  Facts(r)'
  <2>1. TagFacts(r)'
    BY <1>3, OpFacts DEF Facts, KindFacts, Renames, ReadNicIp, TagFacts, At, rows, seen,
       NetThere
  <2>2. NetFacts(r)'
    BY <1>3 DEF Facts, KindFacts, Renames, ReadNicIp, NetFacts, At, rows, seen, NetThere
  <2>3. PoolFacts(r)' /\ NicFacts(r)' /\ KindFacts(r)'
    BY <1>3 DEF Facts, KindFacts, Renames, ReadNicIp, PoolFacts, NicFacts, At, rows,
       seen, NicNet, NetThere
  <2> QED BY <2>1, <2>2, <2>3 DEF Facts
<1> QED BY <1>1, <1>2, <1>3, DoneFacts DEF Kept

\* The members read so far exist.
LEMMA ReadMemberStep ==
  ASSUME LifeInv, OneAtATime, NEW r \in Requests, ReadMember(r)
  PROVE  Kept
<1> USE DEF LifeInv, TypeOK
<1>1. PICK n \in left[r] :
        \/ left[r] \ {n} # {} /\ Check(r, NetThere(n), pc[r])
           /\ left' = [left EXCEPT ![r] = @ \ {n}]
        \/ left[r] \ {n} = {} /\ Check(r, NetThere(n), AfterMembers(r))
           /\ left' = [left EXCEPT ![r] = op[r].members]
  BY DEF ReadMember
<1> DEFINE label == IF left[r] \ {n} # {} THEN pc[r] ELSE AfterMembers(r)
<1>2. /\ pc' \in [Requests -> Labels] /\ result' \in [Requests -> Results]
      /\ References' /\ Alone' /\ \A q \in Requests : q # r => Facts(q)'
      /\ (NetThere(n) /\ pc'[r] = label) \/ pc'[r] = "done"
  <2>1. InProgress(r) /\ label \in Labels
    BY DEF ReadMember, InProgress, Labels, AfterMembers
  <2>2. Check(r, NetThere(n), label)
    BY <1>1
  <2> QED BY <2>1, <2>2, ReadShape DEF ReadMember
<1>3. TypeOK'
  BY <1>1, <1>2, OpFacts DEF ReadMember, rows
<1>4. ASSUME NetThere(n), pc'[r] = label
      PROVE  Facts(r)'
  <2>1. op' = op /\ nets' = nets /\ pc[r] \in {"oldMembers", "newMembers"}
        /\ op[r].kind \in {"createPool", "updatePool", "deletePool"}
    BY DEF ReadMember, rows, Facts, KindFacts
  <2>2. PoolFacts(r)'
    BY <1>1, <1>4, <2>1 DEF Facts, KindFacts, PoolFacts, AfterMembers, At, NetThere
  <2>3. KindFacts(r)' /\ TagFacts(r)' /\ NetFacts(r)' /\ NicFacts(r)'
    BY <1>4, <2>1 DEF Facts, KindFacts, TagFacts, NetFacts, NicFacts, AfterMembers, At,
                      Renames
  <2> QED BY <2>2, <2>3 DEF Facts
<1> QED BY <1>2, <1>3, <1>4, DoneFacts DEF Kept
-----------------------------------------------------------------------------
(* Calls that write, one lemma each.                                       *)

\* The request ends, and no other is in progress.
LEMMA EndShape ==
  ASSUME LifeInv, OneAtATime, NEW r \in Requests, InProgress(r),
         NEW res \in Results, Finish(r, res)
  PROVE  /\ pc' \in [Requests -> Labels] /\ result' \in [Requests -> Results]
         /\ Alone' /\ \A q \in Requests : Facts(q)'
<1> USE DEF LifeInv, TypeOK
<1>1. /\ pc' \in [Requests -> Labels] /\ result' \in [Requests -> Results]
      /\ pc'[r] = "done" /\ pc' = [pc EXCEPT ![r] = "done"]
  BY DEF Finish, Labels
<1>2. Alone' /\ \A q \in Requests : q # r => Facts(q)'
  BY <1>1, OnlyOne, OthersQuiet
<1> QED BY <1>1, <1>2, DoneFacts

\* The request goes on, and no other is in progress.
LEMMA GoShape ==
  ASSUME LifeInv, OneAtATime, NEW r \in Requests, InProgress(r),
         NEW label \in Labels, Goto(r, label)
  PROVE  /\ pc' \in [Requests -> Labels] /\ result' \in [Requests -> Results]
         /\ Alone' /\ \A q \in Requests : q # r => Facts(q)'
         /\ pc'[r] = label
<1> USE DEF LifeInv, TypeOK
<1>1. pc' = [pc EXCEPT ![r] = label] /\ result' = result
  BY DEF Goto
<1>2. Alone' /\ \A q \in Requests : q # r => Facts(q)'
  BY <1>1, OnlyOne, OthersQuiet
<1> QED BY <1>1, <1>2

\* A new tag replaces none, so networks keep theirs.
LEMMA CommitCreateTagStep ==
  ASSUME LifeInv, OneAtATime, NEW r \in Requests, CommitCreateTag(r)
  PROVE  Kept
<1> USE DEF LifeInv, TypeOK
<1>1. InProgress(r)
  BY DEF CommitCreateTag, Write, InProgress
<1>2. /\ pc' \in [Requests -> Labels] /\ result' \in [Requests -> Results]
      /\ Alone' /\ \A q \in Requests : Facts(q)'
  BY <1>1, EndShape DEF CommitCreateTag, Results
<1>3. TypeOK'
  BY <1>2, OpFacts, Defaults DEF CommitCreateTag, Write, seen, TagRow
<1>4. NetsResolve'
  BY OpFacts, LifeNumbers DEF CommitCreateTag, Write, NetsResolve, NetThere, TagThere,
     NetRow, TagCreateFits
<1>5. PoolsResolve'
  BY OpFacts DEF CommitCreateTag, Write, PoolsResolve, PoolsOf, NetThere
<1>6. NicsResolve'
  BY OpFacts DEF CommitCreateTag, Write, NicsResolve, NicsOf, NetThere
<1> QED BY <1>2, <1>3, <1>4, <1>5, <1>6 DEF Kept, References

\* A renamed tag has no networks, a changed MTU suits them all.
LEMMA CommitUpdateTagStep ==
  ASSUME LifeInv, OneAtATime, NEW r \in Requests, CommitUpdateTag(r)
  PROVE  Kept
<1> USE DEF LifeInv, TypeOK
<1>1. InProgress(r)
  BY DEF CommitUpdateTag, Write, InProgress
<1>2. /\ pc' \in [Requests -> Labels] /\ result' \in [Requests -> Results]
      /\ Alone' /\ \A q \in Requests : Facts(q)'
  BY <1>1, EndShape DEF CommitUpdateTag, Results
<1>3. TypeOK'
  BY <1>2, OpFacts, Defaults DEF CommitUpdateTag, Write, seen, TagRow, NewMtu
<1>4. NetsResolve'
  <2>1. nets' = nets /\ TagFacts(r) /\ pc[r] = "commit" /\ op[r].kind = "updateTag"
        /\ TagUpdateFits(r) /\ clock + 1 # 0
    BY DEF CommitUpdateTag, Write, Facts
  <2>2. op[r].tag \in Tags /\ op[r].to \in Tags
    BY OpFacts
  <2>3. ASSUME NEW n \in Nets, NetThere(n)
        PROVE  TagThere(nets[n].tag)' /\ nets[n].mtu <= tags'[nets[n].tag].mtu
    <3> DEFINE t == nets[n].tag
    <3>1. t \in Tags /\ TagThere(t) /\ nets[n].mtu <= tags[t].mtu
      BY <2>3 DEF NetsResolve, NetRow
    <3>2. CASE Renames(op[r])
      <4>1. t # op[r].tag
        BY <2>1, <2>3, <3>2 DEF TagFacts, Unused, NetsOf
      <4>2. t # op[r].to
        BY <2>1, <3>1, <3>2 DEF TagUpdateFits
      <4>3. tags'[t] = tags[t]
        BY <3>1, <4>1, <4>2 DEF CommitUpdateTag
      <4> QED BY <2>1, <3>1, <4>3 DEF TagThere
    <3>3. CASE ~Renames(op[r])
      <4>1. op[r].to = op[r].tag
        BY <2>1, <3>3 DEF Renames
      <4>2. CASE t = op[r].tag
        <5>1. /\ tags'[t].mtu = NewMtu(r) /\ tags'[t].etag = clock + 1
          BY <2>2, <4>1, <4>2 DEF CommitUpdateTag
        <5>2. nets[n].mtu <= NewMtu(r)
          BY <2>1, <2>3, <3>1, <4>2 DEF NewMtu, TagFacts, At, NetsOf
        <5> QED BY <2>1, <5>1, <5>2 DEF TagThere
      <4>3. CASE t # op[r].tag
        <5>1. tags'[t] = tags[t]
          BY <3>1, <4>1, <4>3 DEF CommitUpdateTag
        <5> QED BY <2>1, <3>1, <5>1 DEF TagThere
      <4> QED BY <4>2, <4>3
    <3> QED BY <3>2, <3>3
  <2> QED BY <2>1, <2>3 DEF NetsResolve, NetThere
<1>5. PoolsResolve'
  BY OpFacts DEF CommitUpdateTag, Write, PoolsResolve, PoolsOf, NetThere
<1>6. NicsResolve'
  BY OpFacts DEF CommitUpdateTag, Write, NicsResolve, NicsOf, NetThere
<1> QED BY <1>2, <1>3, <1>4, <1>5, <1>6 DEF Kept, References

\* A deleted tag has no networks.
LEMMA CommitDeleteTagStep ==
  ASSUME LifeInv, OneAtATime, NEW r \in Requests, CommitDeleteTag(r)
  PROVE  Kept
<1> USE DEF LifeInv, TypeOK
<1>1. InProgress(r)
  BY DEF CommitDeleteTag, Write, InProgress
<1>2. /\ pc' \in [Requests -> Labels] /\ result' \in [Requests -> Results]
      /\ Alone' /\ \A q \in Requests : Facts(q)'
  BY <1>1, EndShape DEF CommitDeleteTag, Results
<1>3. TypeOK'
  BY <1>2, OpFacts, Defaults DEF CommitDeleteTag, Write, seen, TagRow
<1>4. NetsResolve'
  BY OpFacts, LifeNumbers DEF CommitDeleteTag, Write, NetsResolve, NetThere, TagThere,
     NetRow, TagDeleteFits, Facts, TagFacts, At, Renames, Unused, NetsOf
<1>5. PoolsResolve'
  BY OpFacts DEF CommitDeleteTag, Write, PoolsResolve, PoolsOf, NetThere
<1>6. NicsResolve'
  BY OpFacts DEF CommitDeleteTag, Write, NicsResolve, NicsOf, NetThere
<1> QED BY <1>2, <1>3, <1>4, <1>5, <1>6 DEF Kept, References

\* The tag of a new network is there, and nothing refers to it yet.
LEMMA CommitCreateNetStep ==
  ASSUME LifeInv, OneAtATime, NEW r \in Requests, CommitCreateNet(r)
  PROVE  Kept
<1> USE DEF LifeInv, TypeOK
<1>1. InProgress(r)
  BY DEF CommitCreateNet, Write, InProgress
<1>2. /\ pc' \in [Requests -> Labels] /\ result' \in [Requests -> Results]
      /\ Alone' /\ \A q \in Requests : q # r => Facts(q)'
      /\ pc'[r] = "bucket"
  BY <1>1, GoShape DEF CommitCreateNet, Labels
<1>3. TypeOK'
  BY <1>2, OpFacts, Defaults DEF CommitCreateNet, Write, seen, NetRow
<1>4. NetsResolve'
  BY OpFacts, LifeNumbers DEF CommitCreateNet, Write, NetsResolve, NetThere, TagThere,
     NetRow, TagRow, NetCreateFits, Facts, NetFacts, At, MtuFits
<1>5. PoolsResolve'
  BY OpFacts DEF CommitCreateNet, Write, PoolsResolve, PoolsOf, NetThere
<1>6. NicsResolve'
  BY OpFacts DEF CommitCreateNet, Write, NicsResolve, NicsOf, NetThere, NetCreateFits
<1>7. Facts(r)'
  BY <1>2 DEF CommitCreateNet, Write, seen, Facts, KindFacts, TagFacts, NetFacts,
     PoolFacts,
              NicFacts, At, NetThere, NicsOf, PoolsOf
<1> QED BY <1>2, <1>3, <1>4, <1>5, <1>6, <1>7 DEF Kept, References

\* A bucket more breaks nothing.
LEMMA MakeBucketStep ==
  ASSUME LifeInv, OneAtATime, NEW r \in Requests, MakeBucket(r)
  PROVE  Kept
<1> USE DEF LifeInv, TypeOK
<1>1. InProgress(r)
  BY DEF MakeBucket, Write, InProgress
<1>2. /\ pc' \in [Requests -> Labels] /\ result' \in [Requests -> Results]
      /\ Alone' /\ \A q \in Requests : q # r => Facts(q)'
      /\ pc'[r] = "records"
  BY <1>1, GoShape DEF MakeBucket, Labels
<1>3. TypeOK'
  BY <1>2, OpFacts, Defaults DEF MakeBucket, Write, seen, BucketMade
<1>4. NetsResolve'
  BY OpFacts, LifeNumbers DEF MakeBucket, Write, NetsResolve, NetThere, TagThere
<1>5. PoolsResolve'
  BY OpFacts DEF MakeBucket, Write, PoolsResolve, PoolsOf, NetThere
<1>6. NicsResolve'
  BY OpFacts DEF MakeBucket, Write, NicsResolve, NicsOf, NetThere, BucketMade
<1>7. Facts(r)'
  BY <1>2 DEF MakeBucket, Write, seen, Facts, KindFacts, TagFacts, NetFacts, PoolFacts,
              NicFacts, At, NetThere, NicsOf, PoolsOf
<1> QED BY <1>2, <1>3, <1>4, <1>5, <1>6, <1>7 DEF Kept, References

\* Records in a bucket that exists break nothing.
LEMMA FillBucketStep ==
  ASSUME LifeInv, OneAtATime, NEW r \in Requests, FillBucket(r)
  PROVE  Kept
<1> USE DEF LifeInv, TypeOK
<1>1. InProgress(r)
  BY DEF FillBucket, Write, InProgress
<1>2. /\ pc' \in [Requests -> Labels] /\ result' \in [Requests -> Results]
      /\ Alone' /\ \A q \in Requests : Facts(q)'
  <2>1. PICK res \in Results : Finish(r, res)
    BY DEF FillBucket, Results
  <2> QED BY <1>1, <2>1, EndShape
<1>3. TypeOK'
  <2>1. CASE buckets[op[r].net] = "none"
    BY <1>2, <2>1 DEF FillBucket, seen
  <2>2. CASE buckets[op[r].net] # "none"
    <3>1. [holder |-> Admin, etag |-> clock + 1] \in GwRow /\ clock + 1 \in Nat
      BY DEF GwRow
    <3>2. /\ gws' \in [Nets -> GwRow] /\ clock' \in Nat
          /\ buckets' \in [Nets -> {"none", "empty", "filled"}]
      BY <2>2, <3>1 DEF FillBucket
    <3> QED BY <1>2, <3>2 DEF FillBucket, seen
  <2> QED BY <2>1, <2>2
<1>4. NetsResolve'
  BY OpFacts, LifeNumbers DEF FillBucket, Write, NetsResolve, NetThere, TagThere
<1>5. PoolsResolve'
  BY OpFacts DEF FillBucket, Write, PoolsResolve, PoolsOf, NetThere
<1>6. NicsResolve'
  BY OpFacts DEF FillBucket, Write, NicsResolve, NicsOf, NetThere
<1> QED BY <1>2, <1>3, <1>4, <1>5, <1>6 DEF Kept, References

\* The row that is put back is the one there was, with an MTU that fits.
LEMMA CommitUpdateNetStep ==
  ASSUME LifeInv, OneAtATime, NEW r \in Requests, CommitUpdateNet(r)
  PROVE  Kept
<1> USE DEF LifeInv, TypeOK
<1>1. InProgress(r)
  BY DEF CommitUpdateNet, Write, InProgress
<1>2. /\ pc' \in [Requests -> Labels] /\ result' \in [Requests -> Results]
      /\ Alone' /\ \A q \in Requests : Facts(q)'
  BY <1>1, EndShape DEF CommitUpdateNet, Results
<1>3. TypeOK'
  BY <1>2, OpFacts, Defaults DEF CommitUpdateNet, Write, seen, NetRow
<1>4. NetsResolve'
  BY OpFacts, LifeNumbers DEF CommitUpdateNet, Write, NetsResolve, NetThere, TagThere,
     NetRow, TagRow, Facts, NetFacts, At, MtuFits
<1>5. PoolsResolve'
  BY OpFacts DEF CommitUpdateNet, Write, PoolsResolve, PoolsOf, NetThere
<1>6. NicsResolve'
  BY OpFacts DEF CommitUpdateNet, Write, NicsResolve, NicsOf, NetThere, Facts, NetFacts,
     At
<1> QED BY <1>2, <1>3, <1>4, <1>5, <1>6 DEF Kept, References

\* No pool and no NIC refers to the network that goes.
LEMMA CommitDeleteNetStep ==
  ASSUME LifeInv, OneAtATime, NEW r \in Requests, CommitDeleteNet(r)
  PROVE  Kept
<1> USE DEF LifeInv, TypeOK
<1>1. InProgress(r)
  BY DEF CommitDeleteNet, Write, InProgress
<1>2. /\ pc' \in [Requests -> Labels] /\ result' \in [Requests -> Results]
      /\ Alone' /\ \A q \in Requests : q # r => Facts(q)'
      /\ pc'[r] = "dropBucket"
  BY <1>1, GoShape DEF CommitDeleteNet, Labels
<1>3. TypeOK'
  BY <1>2, OpFacts, Defaults DEF CommitDeleteNet, Write, seen, NetRow
<1>4. NetsResolve'
  BY OpFacts, LifeNumbers DEF CommitDeleteNet, Write, NetsResolve, NetThere, TagThere,
     NoNet
<1>5. PoolsResolve'
  BY OpFacts DEF CommitDeleteNet, Write, PoolsResolve, PoolsOf, NetThere, Facts,
     NetFacts, At, OneAtATime, DeletesNet
<1>6. NicsResolve'
  BY OpFacts DEF CommitDeleteNet, Write, NicsResolve, NicsOf, NetThere, Facts, NetFacts,
     At, OneAtATime, DeletesNet
<1>7. Facts(r)'
  BY <1>2 DEF CommitDeleteNet, Write, seen, Facts, KindFacts, TagFacts, NetFacts,
     PoolFacts,
              NicFacts, At, NetThere, NicsOf, PoolsOf, OneAtATime, DeletesNet
<1> QED BY <1>2, <1>3, <1>4, <1>5, <1>6, <1>7 DEF Kept, References

\* No NIC is on the network whose bucket goes.
LEMMA DropBucketStep ==
  ASSUME LifeInv, OneAtATime, NEW r \in Requests, DropBucket(r)
  PROVE  Kept
<1> USE DEF LifeInv, TypeOK
<1>1. InProgress(r)
  BY DEF DropBucket, Write, InProgress
<1>2. /\ pc' \in [Requests -> Labels] /\ result' \in [Requests -> Results]
      /\ Alone' /\ \A q \in Requests : Facts(q)'
  BY <1>1, EndShape DEF DropBucket, Results
<1>3. TypeOK'
  BY <1>2, OpFacts, Defaults DEF DropBucket, Write, seen, BucketDropped
<1>4. NetsResolve'
  BY OpFacts, LifeNumbers DEF DropBucket, Write, NetsResolve, NetThere, TagThere
<1>5. PoolsResolve'
  BY OpFacts DEF DropBucket, Write, PoolsResolve, PoolsOf, NetThere
<1>6. NicsResolve'
  BY OpFacts DEF DropBucket, Write, NicsResolve, NicsOf, NetThere, BucketDropped, Facts,
     NetFacts, KindFacts, At
<1> QED BY <1>2, <1>3, <1>4, <1>5, <1>6 DEF Kept, References

\* All members of the pool that is written exist.
LEMMA CommitPoolStep ==
  ASSUME LifeInv, OneAtATime, NEW r \in Requests, CommitPool(r)
  PROVE  Kept
<1> USE DEF LifeInv, TypeOK
<1>1. InProgress(r)
  BY DEF CommitPool, Write, InProgress
<1>2. /\ pc' \in [Requests -> Labels] /\ result' \in [Requests -> Results]
      /\ Alone' /\ \A q \in Requests : Facts(q)'
  BY <1>1, EndShape DEF CommitPool, Results
<1>3. TypeOK'
  BY <1>2, OpFacts, Defaults DEF CommitPool, Write, seen, PoolRow
<1>4. NetsResolve'
  BY OpFacts, LifeNumbers DEF CommitPool, Write, NetsResolve, NetThere, TagThere
<1>5. PoolsResolve'
  BY OpFacts DEF CommitPool, Write, PoolsResolve, PoolsOf, NetThere, Facts, PoolFacts,
     At
<1>6. NicsResolve'
  BY OpFacts DEF CommitPool, Write, NicsResolve, NicsOf, NetThere
<1> QED BY <1>2, <1>3, <1>4, <1>5, <1>6 DEF Kept, References

\* A pool less breaks nothing.
LEMMA CommitDeletePoolStep ==
  ASSUME LifeInv, OneAtATime, NEW r \in Requests, CommitDeletePool(r)
  PROVE  Kept
<1> USE DEF LifeInv, TypeOK
<1>1. InProgress(r)
  BY DEF CommitDeletePool, Write, InProgress
<1>2. /\ pc' \in [Requests -> Labels] /\ result' \in [Requests -> Results]
      /\ Alone' /\ \A q \in Requests : Facts(q)'
  BY <1>1, EndShape DEF CommitDeletePool, Results
<1>3. TypeOK'
  BY <1>2, OpFacts, Defaults DEF CommitDeletePool, Write, seen, PoolRow
<1>4. NetsResolve'
  BY OpFacts, LifeNumbers DEF CommitDeletePool, Write, NetsResolve, NetThere, TagThere
<1>5. PoolsResolve'
  BY OpFacts DEF CommitDeletePool, Write, PoolsResolve, PoolsOf, NetThere, NoPool,
     PoolRow
<1>6. NicsResolve'
  BY OpFacts DEF CommitDeletePool, Write, NicsResolve, NicsOf, NetThere
<1> QED BY <1>2, <1>3, <1>4, <1>5, <1>6 DEF Kept, References

\* The network of the new NIC exists, and has its bucket.
LEMMA CommitCreateNicStep ==
  ASSUME LifeInv, OneAtATime, NEW r \in Requests, CommitCreateNic(r)
  PROVE  Kept
<1> USE DEF LifeInv, TypeOK
<1>1. InProgress(r)
  BY DEF CommitCreateNic, Write, InProgress
<1>2. /\ pc' \in [Requests -> Labels] /\ result' \in [Requests -> Results]
      /\ Alone' /\ \A q \in Requests : Facts(q)'
  BY <1>1, EndShape DEF CommitCreateNic, Results
<1>3. TypeOK'
  BY <1>2, OpFacts, Defaults DEF CommitCreateNic, Write, seen, NicRow, GwRow
<1>4. NetsResolve'
  BY OpFacts, LifeNumbers DEF CommitCreateNic, Write, NetsResolve, NetThere, TagThere
<1>5. PoolsResolve'
  BY OpFacts DEF CommitCreateNic, Write, PoolsResolve, PoolsOf, NetThere
<1>6. NicsResolve'
  BY OpFacts DEF CommitCreateNic, Write, NicsResolve, NicsOf, NetThere, NicRow,
     NicCreateFits, Facts, NicFacts, At
<1> QED BY <1>2, <1>3, <1>4, <1>5, <1>6 DEF Kept, References

\* A NIC less breaks nothing.
LEMMA CommitDeleteNicStep ==
  ASSUME LifeInv, OneAtATime, NEW r \in Requests, CommitDeleteNic(r)
  PROVE  Kept
<1> USE DEF LifeInv, TypeOK
<1>1. InProgress(r)
  BY DEF CommitDeleteNic, Write, InProgress
<1>2. /\ pc' \in [Requests -> Labels] /\ result' \in [Requests -> Results]
      /\ Alone' /\ \A q \in Requests : Facts(q)'
  BY <1>1, EndShape DEF CommitDeleteNic, Results
<1>3. TypeOK'
  BY <1>2, OpFacts, Defaults DEF CommitDeleteNic, Write, seen, NicRow, GwRow
<1>4. NetsResolve'
  BY OpFacts, LifeNumbers DEF CommitDeleteNic, Write, NetsResolve, NetThere, TagThere
<1>5. PoolsResolve'
  BY OpFacts DEF CommitDeleteNic, Write, PoolsResolve, PoolsOf, NetThere
<1>6. NicsResolve'
  BY OpFacts DEF CommitDeleteNic, Write, NicsResolve, NicsOf, NetThere, NoNic, NicRow
<1> QED BY <1>2, <1>3, <1>4, <1>5, <1>6 DEF Kept, References

\* A write that Moray refuses breaks nothing.
LEMMA ConflictStep ==
  ASSUME LifeInv, OneAtATime, NEW r \in Requests, Conflict(r)
  PROVE  Kept
<1> USE DEF LifeInv, TypeOK
<1>1. /\ pc' \in [Requests -> Labels] /\ result' \in [Requests -> Results]
      /\ Alone' /\ \A q \in Requests : Facts(q)'
  BY EndShape DEF Conflict, InProgress, Results
<1>2. TypeOK' /\ References'
  BY <1>1 DEF Conflict, rows, seen, References, NetsResolve, PoolsResolve, NicsResolve,
              NetThere, TagThere, PoolsOf, NicsOf
<1> QED BY <1>1, <1>2 DEF Kept

\* Wherever a request is cut short, what it wrote so far breaks nothing.
LEMMA StopStep ==
  ASSUME LifeInv, OneAtATime, NEW r \in Requests, Stop(r)
  PROVE  Kept
<1> USE DEF LifeInv, TypeOK
<1>1. /\ pc' \in [Requests -> Labels] /\ result' \in [Requests -> Results]
      /\ Alone' /\ \A q \in Requests : Facts(q)'
  BY EndShape DEF Stop, Results
<1>2. TypeOK' /\ References'
  BY <1>1 DEF Stop, rows, seen, References, NetsResolve, PoolsResolve, NicsResolve,
              NetThere, TagThere, PoolsOf, NicsOf
<1> QED BY <1>1, <1>2 DEF Kept

\* The invariant reads nothing but vars.
LEMMA StutterStep ==
  ASSUME LifeInv, UNCHANGED vars
  PROVE  LifeInv'
<1>1. TypeOK'
  BY DEF vars, rows, seen, LifeInv, TypeOK
<1>2. NetsResolve' /\ PoolsResolve' /\ NicsResolve' /\ Alone'
  BY DEF vars, rows, LifeInv, NetsResolve, PoolsResolve, NicsResolve, NetThere,
     TagThere,
         PoolsOf, NicsOf, Alone, InProgress
<1>3. ASSUME NEW r \in Requests
      PROVE  Facts(r)'
  <2> USE DEF vars, rows, seen, LifeInv, Facts, At
  <2>1. KindFacts(r)'
    BY DEF KindFacts, Renames
  <2>2. TagFacts(r)'
    BY DEF TagFacts, Renames, Unused, NetsOf, NetThere, TagThere
  <2>3. NetFacts(r)'
    BY DEF NetFacts, NetThere, TagThere, MtuFits, PoolsOf, NicsOf
  <2>4. PoolFacts(r)' /\ NicFacts(r)'
    BY DEF PoolFacts, NicFacts, NetThere
  <2> QED BY <2>1, <2>2, <2>3, <2>4
<1> QED BY <1>1, <1>2, <1>3 DEF LifeInv
-----------------------------------------------------------------------------
\* The initial stores are those in which references resolve.
LEMMA InitInv ==
  ASSUME Init
  PROVE  LifeInv
<1> USE DEF Init
<1>2. (CHOOSE o \in Ops : TRUE) \in Ops
  BY LifeOps
<1>3. TypeOK
  <2>1. /\ tags \in [Tags -> TagRow] /\ nets \in [Nets -> NetRow]
        /\ pools \in [Pools -> PoolRow] /\ nics \in [Nics -> NicRow]
    BY Defaults DEF TagRow, NetRow, PoolRow, NicRow
  <2>2. gws \in [Nets -> GwRow]
    <3>1. ASSUME NEW n \in Nets
          PROVE  (CHOOSE m \in NicsOf(n) : nics[m].gateway) \in Nics
                 \/ ~\E m \in NicsOf(n) : nics[m].gateway
      BY DEF NicsOf
    <3> QED BY <3>1, Defaults DEF GwRow
  <2>3. /\ op \in [Requests -> Ops] /\ under \in [Requests -> Tags]
        /\ left \in [Requests -> SUBSET Nets]
    BY <1>2, OpFacts
  <2> QED BY <2>1, <2>2, <2>3, Defaults DEF TypeOK, Labels, Results
<1>4. Alone /\ \A r \in Requests : Facts(r)
  BY DEF Alone, InProgress, Facts, KindFacts, TagFacts, NetFacts, PoolFacts, NicFacts,
     At
<1> QED BY <1>3, <1>4 DEF LifeInv

\* Every step keeps the invariant.
LEMMA NextInv ==
  ASSUME LifeInv, OneAtATime, [Next]_vars
  PROVE  LifeInv'
<1>1. CASE UNCHANGED vars
  BY <1>1, StutterStep
<1>2. ASSUME NEW r \in Requests, Read(r)
      PROVE  Kept
  BY <1>2, TagUnusedStep, NewNameStep, TagMtuStep, OldTagStep, ReadNetStep,
     ReadNetAgainStep, ReadNetTagStep, ListPoolsStep, ListNicsStep, ReadPoolStep,
     ReadMemberStep, ReadNicStep, ReadNicNetStep, ReadNicIpStep DEF Read
<1>3. ASSUME NEW r \in Requests, Commit(r)
      PROVE  Kept
  BY <1>3, CommitCreateTagStep, CommitUpdateTagStep, CommitDeleteTagStep,
     CommitCreateNetStep, MakeBucketStep, FillBucketStep, CommitUpdateNetStep,
     CommitDeleteNetStep, DropBucketStep, CommitPoolStep, CommitDeletePoolStep,
     CommitCreateNicStep, CommitDeleteNicStep, ConflictStep DEF Commit
<1>4. ASSUME NEW r \in Requests, Start(r)
      PROVE  Kept
  BY <1>4, StartStep DEF Kept
<1>5. Kept => LifeInv'
  BY DEF Kept, References, LifeInv
<1> QED BY <1>1, <1>2, <1>3, <1>4, <1>5, StopStep DEF Next, AllDone

\* What a request has checked still holds when it writes, if requests do not
\* overlap: the invariant that the theorems below rest on.
THEOREM LifeInvariant ==
  ASSUME OneAtATime
  PROVE  Spec => []LifeInv
<1>1. Init => LifeInv
  BY InitInv
<1>2. LifeInv /\ [Next]_vars => LifeInv'
  BY NextInv
<1> QED BY <1>1, <1>2, PTL DEF Spec

\* The tag of every network exists and its MTU covers the network's, wherever
\* createNetwork, updateNetwork, updateNicTag or deleteNicTag was cut short.
THEOREM NetsAlwaysResolve ==
  ASSUME OneAtATime
  PROVE  Spec => []NetsResolve
<1>1. LifeInv => NetsResolve
  BY DEF LifeInv
<1> QED BY <1>1, LifeInvariant, PTL

\* Every network of a pool exists, as long as the check of the /networks
\* endpoint is not bypassed by that of fabric networks.
THEOREM PoolsAlwaysResolve ==
  ASSUME OneAtATime
  PROVE  Spec => []PoolsResolve
<1>1. LifeInv => PoolsResolve
  BY DEF LifeInv
<1> QED BY <1>1, LifeInvariant, PTL

\* Every NIC's network exists and has its IP bucket, so every NIC can be read
\* and deleted, even if a deletion of a network stops after the row is gone.
THEOREM NicsAlwaysResolve ==
  ASSUME OneAtATime
  PROVE  Spec => []NicsResolve
<1>1. LifeInv => NicsResolve
  BY DEF LifeInv
<1> QED BY <1>1, LifeInvariant, PTL
-----------------------------------------------------------------------------
(* What holds however requests overlap.                                    *)

\* A request that has a result has ended; only deletions of a network drop a
\* bucket, and only creations of one make and fill it.
CallFacts(r) ==
  /\ result[r] # "none" => pc[r] = "done"
  /\ pc[r] = "net" => op[r].kind = "updateNet" \/ DeletesNet(op[r])
  /\ pc[r] = "dropBucket" => DeletesNet(op[r])
  /\ pc[r] \in {"bucket", "records"} => op[r].kind = "createNet"

CallInv == TypeOK /\ \A r \in Requests : CallFacts(r)

\* Labels at which CallFacts says nothing of the operation.
Plain == Labels \ {"idle", "net", "bucket", "records", "dropBucket"}

\* A request in progress goes on to a call that its operation makes.
LEMMA GoesOn ==
  ASSUME CallInv, NEW r \in Requests, InProgress(r), op' = op,
         NEW label \in Labels, Goto(r, label),
         label = "dropBucket" => DeletesNet(op[r]),
         label \in {"bucket", "records"} => op[r].kind = "createNet",
         label # "net"
  PROVE  /\ pc' \in [Requests -> Labels] /\ result' \in [Requests -> Results]
         /\ \A q \in Requests : CallFacts(q)'
<1> USE DEF CallInv, TypeOK
<1>1. pc' = [pc EXCEPT ![r] = label] /\ result' = result
  BY DEF Goto
<1>2. ASSUME NEW q \in Requests
      PROVE  CallFacts(q)'
  <2>1. CASE q = r
    <3>1. result'[q] = "none" /\ pc'[q] = label
      BY <1>1, <2>1 DEF InProgress, CallFacts
    <3> QED BY <2>1, <3>1 DEF CallFacts, DeletesNet
  <2>2. CASE q # r
    BY <1>1, <2>2 DEF CallFacts, DeletesNet
  <2> QED BY <2>1, <2>2
<1> QED BY <1>1, <1>2

\* A request ends.
LEMMA Ends ==
  ASSUME CallInv, NEW r \in Requests, op' = op, NEW res \in Results, Finish(r, res)
  PROVE  /\ pc' \in [Requests -> Labels] /\ result' \in [Requests -> Results]
         /\ \A q \in Requests : CallFacts(q)'
<1> USE DEF CallInv, TypeOK
<1>1. pc' = [pc EXCEPT ![r] = "done"] /\ result' = [result EXCEPT ![r] = res]
  BY DEF Finish
<1> QED BY <1>1 DEF CallFacts, DeletesNet, Labels

\* The call that follows a check is one that the operation makes.
LEMMA Checks ==
  ASSUME CallInv, NEW r \in Requests, InProgress(r), op' = op,
         NEW holds, NEW label \in Plain, Check(r, holds, label)
  PROVE  /\ pc' \in [Requests -> Labels] /\ result' \in [Requests -> Results]
         /\ \A q \in Requests : CallFacts(q)'
<1>1. CASE holds
  <2>1. Goto(r, label) /\ label \in Labels
    BY <1>1 DEF Check, Plain
  <2> QED BY <2>1, GoesOn DEF Plain
<1>2. CASE ~holds
  <2>1. Finish(r, "refused")
    BY <1>2 DEF Check
  <2> QED BY <2>1, Ends DEF Results
<1> QED BY <1>1, <1>2

\* A call that only reads ends in a check.
LEMMA ReadChecks ==
  ASSUME CallInv, NEW r \in Requests, Read(r)
  PROVE  /\ pc' \in [Requests -> Labels] /\ result' \in [Requests -> Results]
         /\ \A q \in Requests : CallFacts(q)'
         /\ InProgress(r) /\ rows' = rows /\ op' = op
<1> USE DEF CallInv, TypeOK, InProgress, Labels, Plain
<1>1. CASE TagUnused(r)
  <2>1. PICK label \in Plain : Check(r, Unused(op[r].tag), label)
    BY <1>1 DEF TagUnused
  <2> QED BY <1>1, <2>1, Checks DEF TagUnused
<1>2. CASE NewName(r)
  <2>1. PICK label \in Plain : Check(r, ~TagThere(op[r].to), label)
    BY <1>2 DEF NewName
  <2> QED BY <1>2, <2>1, Checks DEF NewName
<1>3. CASE TagMtu(r)
  <2>1. Check(r, \A n \in NetsOf(op[r].tag) : nets[n].mtu <= op[r].mtu, "oldTag")
    BY <1>3 DEF TagMtu
  <2> QED BY <1>3, <2>1, Checks DEF TagMtu
<1>4. CASE OldTag(r)
  BY <1>4, Checks DEF OldTag
<1>5. CASE ReadNet(r)
  <2>1. PICK label \in Plain : Check(r, NetThere(op[r].net), label)
    BY <1>5 DEF ReadNet, CallFacts, DeletesNet
  <2> QED BY <1>5, <2>1, Checks DEF ReadNet
<1>6. CASE ReadNetAgain(r)
  BY <1>6, Checks DEF ReadNetAgain
<1>7. CASE ReadNetTag(r)
  BY <1>7, Checks DEF ReadNetTag
<1>8. CASE ListPools(r)
  BY <1>8, Checks DEF ListPools
<1>9. CASE ListNics(r)
  BY <1>9, Checks DEF ListNics
<1>10. CASE ReadPool(r)
  BY <1>10, Checks DEF ReadPool
<1>11. CASE ReadMember(r)
  <2>1. PICK n \in left[r], label \in Plain : Check(r, NetThere(n), label)
    BY <1>11 DEF ReadMember, AfterMembers
  <2> QED BY <1>11, <2>1, Checks DEF ReadMember
<1>12. CASE ReadNic(r)
  BY <1>12, Checks DEF ReadNic
<1>13. CASE ReadNicNet(r)
  BY <1>13, Checks DEF ReadNicNet
<1>14. CASE ReadNicIp(r)
  <2>1. PICK holds : Check(r, holds, "commit")
    BY <1>14 DEF ReadNicIp
  <2> QED BY <1>14, <2>1, Checks DEF ReadNicIp
<1> QED BY <1>1, <1>2, <1>3, <1>4, <1>5, <1>6, <1>7, <1>8, <1>9, <1>10, <1>11, <1>12,
           <1>13, <1>14 DEF Read

\* A call that only reads keeps the types.
LEMMA ReadTypes ==
  ASSUME CallInv, NEW r \in Requests, Read(r)
  PROVE  CallInv'
<1> USE DEF CallInv, TypeOK
<1>1. /\ pc' \in [Requests -> Labels] /\ result' \in [Requests -> Results]
      /\ \A q \in Requests : CallFacts(q)'
      /\ rows' = rows /\ op' = op
  BY ReadChecks
<1>2. /\ tagSeen' \in [Requests -> TagRow] /\ netSeen' \in [Requests -> NetRow]
      /\ poolSeen' \in [Requests -> PoolRow] /\ nicSeen' \in [Requests -> NicRow]
  BY OpFacts DEF Read, TagUnused, NewName, TagMtu, OldTag, ReadNet, ReadNetAgain,
     ReadNetTag, ListPools, ListNics, ReadPool, ReadMember, ReadNic, ReadNicNet, ReadNicIp,
     seen
<1>3. gwSeen' \in [Requests -> GwRow]
  <2>1. CASE ReadNicIp(r)
    <3>1. NicNet(r) \in Nets
      BY OpFacts DEF NicNet, NicRow
    <3> QED BY <2>1, <3>1 DEF ReadNicIp
  <2>2. CASE ~ReadNicIp(r)
    BY <2>2 DEF Read, TagUnused, NewName, TagMtu, OldTag, ReadNet, ReadNetAgain,
       ReadNetTag, ListPools, ListNics, ReadPool, ReadMember, ReadNic, ReadNicNet, seen
  <2> QED BY <2>1, <2>2
<1>4. under' \in [Requests -> Tags]
  BY OpFacts DEF Read, TagUnused, NewName, TagMtu, OldTag, ReadNet, ReadNetAgain,
     ReadNetTag, ListPools, ListNics, ReadPool, ReadMember, ReadNic, ReadNicNet, ReadNicIp,
     seen, NetRow
<1>5. left' \in [Requests -> SUBSET Nets]
  <2>1. CASE ReadMember(r)
    <3>1. PICK S \in SUBSET Nets : left' = [left EXCEPT ![r] = S]
      <4>1. PICK n \in left[r] : \/ left' = [left EXCEPT ![r] = left[r] \ {n}]
                               \/ left' = [left EXCEPT ![r] = op[r].members]
        BY <2>1 DEF ReadMember
      <4>2. left[r] \ {n} \in SUBSET Nets /\ op[r].members \in SUBSET Nets
        BY OpFacts
      <4> QED BY <4>1, <4>2
    <3> QED BY <3>1
  <2>2. CASE ReadPool(r)
    <3>1. pools[op[r].pool].members \in SUBSET Nets
      BY OpFacts DEF PoolRow
    <3> QED BY <2>2, <3>1 DEF ReadPool
  <2>3. CASE ~ReadMember(r) /\ ~ReadPool(r)
    BY <2>3 DEF Read, TagUnused, NewName, TagMtu, OldTag, ReadNet, ReadNetAgain,
       ReadNetTag, ListPools, ListNics, ReadNic, ReadNicNet, ReadNicIp, seen
  <2> QED BY <2>1, <2>2, <2>3
<1> QED BY <1>1, <1>2, <1>3, <1>4, <1>5 DEF rows

\* A write, or the end of a request, keeps the types.
LEMMA CommitTypes ==
  ASSUME CallInv, NEW r \in Requests, Commit(r) \/ Stop(r)
  PROVE  /\ CallInv' /\ op' = op
         /\ DeletesNet(op[r]) /\ result'[r] = "ok" => buckets'[op[r].net] = "none"
         /\ \A q \in Requests : q # r => result'[q] = result[q] /\ pc'[q] = pc[q]
<1> USE DEF CallInv, TypeOK
<1>0. /\ InProgress(r) /\ op' = op /\ tagSeen' = tagSeen /\ netSeen' = netSeen
      /\ poolSeen' = poolSeen /\ nicSeen' = nicSeen /\ gwSeen' = gwSeen
      /\ under' = under /\ left' = left
  BY DEF Commit, Stop, InProgress, Write, CommitCreateTag, CommitUpdateTag, CommitDeleteTag,
         CommitCreateNet, MakeBucket, FillBucket, CommitUpdateNet, CommitDeleteNet,
         DropBucket, CommitPool, CommitDeletePool, CommitCreateNic, CommitDeleteNic,
         Conflict, seen
<1>1. \/ \E res \in Results : Finish(r, res)
      \/ \E label \in {"bucket", "records", "dropBucket"} :
           /\ Goto(r, label)
           /\ label = "dropBucket" => DeletesNet(op[r])
           /\ label # "dropBucket" => op[r].kind = "createNet"
  BY DEF Commit, Stop, Write, CommitCreateTag, CommitUpdateTag, CommitDeleteTag,
         CommitCreateNet, MakeBucket, FillBucket, CommitUpdateNet, CommitDeleteNet,
         DropBucket, CommitPool, CommitDeletePool, CommitCreateNic, CommitDeleteNic,
         Conflict, Results, CallFacts
<1>2. /\ pc' \in [Requests -> Labels] /\ result' \in [Requests -> Results]
      /\ \A q \in Requests : CallFacts(q)'
  <2>1. CASE \E res \in Results : Finish(r, res)
    BY <1>0, <2>1, Ends
  <2>2. ASSUME NEW label \in {"bucket", "records", "dropBucket"}, Goto(r, label),
               label = "dropBucket" => DeletesNet(op[r]),
               label # "dropBucket" => op[r].kind = "createNet"
        PROVE  /\ pc' \in [Requests -> Labels] /\ result' \in [Requests -> Results]
               /\ \A q \in Requests : CallFacts(q)'
    BY <1>0, <2>2, GoesOn DEF Labels
  <2> QED BY <1>1, <2>1, <2>2
<1>3. clock' \in Nat /\ clock + 1 \in Nat
  BY DEF Commit, Stop, Write, CommitCreateTag, CommitUpdateTag, CommitDeleteTag,
         CommitCreateNet, MakeBucket, FillBucket, CommitUpdateNet, CommitDeleteNet,
         DropBucket, CommitPool, CommitDeletePool, CommitCreateNic, CommitDeleteNic,
         Conflict, rows
<1>4. tags' \in [Tags -> TagRow]
  <2>1. CASE CommitUpdateTag(r)
    <3>1. [uuid |-> tagSeen[r].uuid, mtu |-> NewMtu(r), etag |-> clock + 1] \in TagRow
      BY <1>3, OpFacts DEF NewMtu, TagRow
    <3> QED BY <2>1, <3>1, Defaults DEF CommitUpdateTag
  <2>2. CASE CommitCreateTag(r)
    <3>1. [uuid |-> r, mtu |-> op[r].mtu, etag |-> clock + 1] \in TagRow
      BY <1>3, <2>2, OpFacts, LifeOps DEF CommitCreateTag, TagRow
    <3> QED BY <2>2, <3>1 DEF CommitCreateTag
  <2>3. CASE CommitDeleteTag(r)
    BY <2>3, Defaults DEF CommitDeleteTag
  <2>4. CASE ~CommitUpdateTag(r) /\ ~CommitCreateTag(r) /\ ~CommitDeleteTag(r)
    BY <2>4 DEF Commit, Stop, CommitCreateNet, MakeBucket, FillBucket, CommitUpdateNet,
         CommitDeleteNet, DropBucket, CommitPool, CommitDeletePool, CommitCreateNic,
         CommitDeleteNic, Conflict, rows
  <2> QED BY <2>1, <2>2, <2>3, <2>4
<1>5. nets' \in [Nets -> NetRow] /\ gone' \subseteq Nets
  <2>1. CASE CommitCreateNet(r)
    <3>1. [tag |-> op[r].tag, mtu |-> op[r].mtu, etag |-> clock + 1] \in NetRow
      BY <1>3, <2>1, OpFacts, LifeOps DEF CommitCreateNet, NetRow
    <3> QED BY <2>1, <3>1 DEF CommitCreateNet
  <2>2. CASE CommitUpdateNet(r)
    <3>1. [tag |-> netSeen[r].tag, etag |-> clock + 1,
           mtu |-> IF op[r].mtu # 0 THEN op[r].mtu ELSE netSeen[r].mtu] \in NetRow
      BY <1>3, OpFacts DEF NetRow
    <3> QED BY <2>2, <3>1 DEF CommitUpdateNet
  <2>3. CASE CommitDeleteNet(r)
    BY <2>3, Defaults, OpFacts DEF CommitDeleteNet
  <2>4. CASE ~CommitCreateNet(r) /\ ~CommitUpdateNet(r) /\ ~CommitDeleteNet(r)
    BY <2>4 DEF Commit, Stop, CommitCreateTag, CommitUpdateTag, CommitDeleteTag, MakeBucket,
         FillBucket, DropBucket, CommitPool, CommitDeletePool, CommitCreateNic,
         CommitDeleteNic, Conflict, rows
  <2> QED BY <2>1, <2>2, <2>3, <2>4
<1>6. pools' \in [Pools -> PoolRow]
  <2>1. CASE CommitPool(r)
    <3>1. [members |-> op[r].members, etag |-> clock + 1] \in PoolRow
      BY <1>3, OpFacts DEF PoolRow
    <3> QED BY <2>1, <3>1 DEF CommitPool
  <2>2. CASE CommitDeletePool(r)
    BY <2>2, Defaults DEF CommitDeletePool
  <2>3. CASE ~CommitPool(r) /\ ~CommitDeletePool(r)
    BY <2>3 DEF Commit, Stop, CommitCreateTag, CommitUpdateTag, CommitDeleteTag,
         CommitCreateNet, MakeBucket, FillBucket, CommitUpdateNet, CommitDeleteNet,
         DropBucket, CommitCreateNic, CommitDeleteNic, Conflict, rows
  <2> QED BY <2>1, <2>2, <2>3
<1>7. nics' \in [Nics -> NicRow]
  <2>1. CASE CommitCreateNic(r)
    <3>1. [net |-> op[r].net, gateway |-> op[r].gateway, etag |-> clock + 1] \in NicRow
      BY <1>3, OpFacts DEF NicRow
    <3> QED BY <2>1, <3>1 DEF CommitCreateNic
  <2>2. CASE CommitDeleteNic(r)
    BY <2>2, Defaults DEF CommitDeleteNic
  <2>3. CASE ~CommitCreateNic(r) /\ ~CommitDeleteNic(r)
    BY <2>3 DEF Commit, Stop, CommitCreateTag, CommitUpdateTag, CommitDeleteTag,
         CommitCreateNet, MakeBucket, FillBucket, CommitUpdateNet, CommitDeleteNet,
         DropBucket, CommitPool, CommitDeletePool, Conflict, rows
  <2> QED BY <2>1, <2>2, <2>3
<1>8. buckets' \in [Nets -> {"none", "empty", "filled"}]
  BY DEF Commit, Stop, CommitCreateTag, CommitUpdateTag, CommitDeleteTag,
         CommitCreateNet, MakeBucket, FillBucket, CommitUpdateNet, CommitDeleteNet,
         DropBucket, CommitPool, CommitDeletePool, CommitCreateNic, CommitDeleteNic,
         Conflict, rows, BucketMade, BucketDropped
<1>9. gws' \in [Nets -> GwRow]
  <2>1. /\ [holder |-> Admin, etag |-> clock + 1] \in GwRow
        /\ [holder |-> Nobody, etag |-> clock + 1] \in GwRow
        /\ [holder |-> op[r].nic, etag |-> clock + 1] \in GwRow
    BY <1>3, OpFacts DEF GwRow
  <2>2. CASE FillBucket(r)
    BY <2>1, <2>2 DEF FillBucket
  <2>3. CASE DropBucket(r)
    BY <2>3, Defaults DEF DropBucket
  <2>4. CASE CommitCreateNic(r)
    BY <2>1, <2>4 DEF CommitCreateNic
  <2>5. CASE CommitDeleteNic(r)
    BY <2>1, <2>5 DEF CommitDeleteNic
  <2>6. CASE ~FillBucket(r) /\ ~DropBucket(r) /\ ~CommitCreateNic(r) /\ ~CommitDeleteNic(r)
    BY <2>6 DEF Commit, Stop, CommitCreateTag, CommitUpdateTag, CommitDeleteTag,
         CommitCreateNet, MakeBucket, CommitUpdateNet, CommitDeleteNet, CommitPool,
         CommitDeletePool, Conflict, rows
  <2> QED BY <2>2, <2>3, <2>4, <2>5, <2>6
<1>10. CallInv'
  BY <1>0, <1>2, <1>3, <1>4, <1>5, <1>6, <1>7, <1>8, <1>9
<1>11. DeletesNet(op[r]) /\ result'[r] = "ok" => buckets'[op[r].net] = "none"
  <2>1. result[r] = "none"
    BY <1>0 DEF CallFacts, InProgress
  <2>2. CASE DropBucket(r)
    BY <2>2, OpFacts DEF DropBucket, BucketDropped
  <2>3. CASE ~DropBucket(r)
    BY <2>1, <2>3 DEF Commit, Stop, DeletesNet, Write, CommitCreateTag, CommitUpdateTag,
       CommitDeleteTag, CommitCreateNet, MakeBucket, FillBucket, CommitUpdateNet,
       CommitDeleteNet, CommitPool, CommitDeletePool, CommitCreateNic, CommitDeleteNic,
       Conflict, Finish, Goto, CallFacts
  <2> QED BY <2>2, <2>3
<1>12. \A q \in Requests : q # r => result'[q] = result[q] /\ pc'[q] = pc[q]
  BY <1>1 DEF Finish, Goto
<1> QED BY <1>0, <1>10, <1>11, <1>12

\* A request that starts makes a first call that its operation has.
LEMMA StartTypes ==
  ASSUME CallInv, NEW r \in Requests, Start(r)
  PROVE  /\ CallInv' /\ rows' = rows /\ result' = result
         /\ pc[r] = "idle" /\ pc'[r] # "idle" /\ pc'[r] # "done" /\ result[r] = "none"
         /\ pc'[r] # "commit"
         /\ \A q \in Requests : q # r => op'[q] = op[q] /\ pc'[q] = pc[q]
<1> USE DEF CallInv, TypeOK
<1>1. PICK o \in Ops : /\ op' = [op EXCEPT ![r] = o]
                       /\ under' = [under EXCEPT ![r] = o.tag]
                       /\ left' = [left EXCEPT ![r] = o.members]
                       /\ GoFirst(r, o)
  BY DEF Start
<1>2. PICK label \in {"newName", "tagUnused", "tagMtu", "oldTag", "netTag", "net",
                      "newMembers", "pool", "nicNet", "nic"} :
        /\ Goto(r, label)
        /\ label = "net" => o.kind \in {"updateNet", "deleteNet", "deleteFabricNet"}
  BY <1>1 DEF GoFirst
<1>3. pc[r] = "idle" /\ result[r] = "none"
  BY DEF Start, CallFacts
<1>4. pc' = [pc EXCEPT ![r] = label] /\ result' = result
  BY <1>2 DEF Goto
<1>5. \A q \in Requests : CallFacts(q)'
  BY <1>1, <1>2, <1>3, <1>4 DEF CallFacts, DeletesNet
<1>6. TypeOK'
  <2>1. op' \in [Requests -> Ops] /\ under' \in [Requests -> Tags]
        /\ left' \in [Requests -> SUBSET Nets]
    BY <1>1, OpFacts
  <2>2. pc' \in [Requests -> Labels]
    BY <1>4 DEF Labels
  <2> QED BY <1>4, <2>1, <2>2 DEF Start, rows
<1> QED BY <1>1, <1>3, <1>4, <1>5, <1>6 DEF Start

\* No step breaks the types.
LEMMA CallNext ==
  ASSUME CallInv, [Next]_vars
  PROVE  CallInv'
<1>1. CASE UNCHANGED vars
  BY <1>1 DEF CallInv, TypeOK, CallFacts, vars, rows, seen, DeletesNet
<1> QED BY <1>1, StartTypes, ReadTypes, CommitTypes DEF Next, AllDone

LEMMA CallInit ==
  ASSUME Init
  PROVE  CallInv
<1>1. TypeOK
  BY InitInv DEF LifeInv
<1>2. \A r \in Requests : CallFacts(r)
  BY DEF Init, CallFacts
<1> QED BY <1>1, <1>2 DEF CallInv

\* Rows, requests and what requests have read keep their types, however
\* requests overlap, fabric networks are deleted and requests are cut short.
THEOREM TypeCorrect == Spec => []TypeOK
<1>1. CallInv => TypeOK
  BY DEF CallInv
<1> QED BY <1>1, CallInit, CallNext, PTL DEF Spec
-----------------------------------------------------------------------------
(* A deleted network stays without a bucket until it is created again.     *)

CreatedAgain(n) ==
  \E q \in Requests : op[q].kind = "createNet" /\ op[q].net = n /\ pc[q] # "idle"

BucketGone ==
  \A r \in Requests :
    DeletesNet(op[r]) /\ result[r] = "ok"
      => buckets[op[r].net] = "none" \/ CreatedAgain(op[r].net)

DeletedInv == CallInv /\ BucketGone

\* Who creates a network again is known from its start on.
LEMMA CreatedStays ==
  ASSUME CallInv, [Next]_vars, NEW n, CreatedAgain(n)
  PROVE  CreatedAgain(n)'
<1> USE DEF CallInv, TypeOK
<1>1. PICK q \in Requests : op[q].kind = "createNet" /\ op[q].net = n /\ pc[q] # "idle"
  BY DEF CreatedAgain
<1>2. CASE UNCHANGED vars
  BY <1>1, <1>2 DEF CreatedAgain, vars
<1>3. ASSUME NEW r \in Requests, Start(r)
      PROVE  op'[q] = op[q] /\ pc'[q] # "idle"
  BY <1>1, <1>3, StartTypes
<1>4. ASSUME NEW r \in Requests, Read(r)
      PROVE  op'[q] = op[q] /\ pc'[q] # "idle"
  <2>1. op' = op
    BY <1>4, ReadChecks
  <2>2. PICK label : pc' = [pc EXCEPT ![r] = label] /\ label # "idle"
    BY <1>4 DEF Read, TagUnused, NewName, TagMtu, OldTag, ReadNet, ReadNetAgain,
       ReadNetTag, ListPools, ListNics, ReadPool, ReadMember, ReadNic, ReadNicNet, ReadNicIp,
       Check, Goto, Finish, AfterMembers, CallFacts, DeletesNet
  <2> QED BY <1>1, <2>1, <2>2
<1>5. ASSUME NEW r \in Requests, Commit(r) \/ Stop(r)
      PROVE  op'[q] = op[q] /\ pc'[q] # "idle"
  <2>1. op' = op /\ \A p \in Requests : p # r => pc'[p] = pc[p]
    BY <1>5, CommitTypes
  <2>2. pc'[r] # "idle"
    BY <1>5 DEF Commit, Stop, Write, CommitCreateTag, CommitUpdateTag, CommitDeleteTag,
       CommitCreateNet, MakeBucket, FillBucket, CommitUpdateNet, CommitDeleteNet,
       DropBucket, CommitPool, CommitDeletePool, CommitCreateNic, CommitDeleteNic,
       Conflict, Goto, Finish
  <2> QED BY <1>1, <2>1, <2>2
<1> QED BY <1>1, <1>2, <1>3, <1>4, <1>5 DEF Next, AllDone, CreatedAgain

\* Only MakeBucket brings a bucket back, for a request that creates its network.
LEMMA BucketsComeBack ==
  ASSUME CallInv, NEW r \in Requests, Commit(r) \/ Stop(r), NEW n \in Nets,
         buckets[n] = "none"
  PROVE  buckets'[n] = "none" \/ CreatedAgain(n)
<1> USE DEF CallInv, TypeOK
<1>1. CASE MakeBucket(r)
  BY <1>1, OpFacts DEF MakeBucket, CreatedAgain, CallFacts
<1>2. CASE ~MakeBucket(r)
  BY <1>2, OpFacts DEF Commit, Stop, CommitCreateTag, CommitUpdateTag, CommitDeleteTag,
     CommitCreateNet, FillBucket, CommitUpdateNet, CommitDeleteNet, DropBucket, CommitPool,
     CommitDeletePool, CommitCreateNic, CommitDeleteNic, Conflict, rows, BucketDropped
<1> QED BY <1>1, <1>2

LEMMA DeletedNext ==
  ASSUME DeletedInv, [Next]_vars
  PROVE  DeletedInv'
<1> USE DEF DeletedInv
<1>1. CallInv'
  BY CallNext
<1>2. ASSUME NEW q \in Requests, (DeletesNet(op[q]) /\ result[q] = "ok")'
      PROVE  (buckets[op[q].net] = "none" \/ CreatedAgain(op[q].net))'
  <2> USE DEF CallInv, TypeOK
  <2>0. op[q].net \in Nets
    BY OpFacts
  <2>1. CASE UNCHANGED vars
    BY <1>2, <2>1 DEF vars, rows, BucketGone, DeletesNet, CreatedAgain
  <2>2. ASSUME NEW r \in Requests, Start(r)
        PROVE  (buckets[op[q].net] = "none" \/ CreatedAgain(op[q].net))'
    <3>1. q # r /\ op'[q] = op[q] /\ result'[q] = result[q] /\ buckets' = buckets
      BY <1>2, <2>2, StartTypes DEF rows
    <3>2. buckets[op[q].net] = "none" \/ CreatedAgain(op[q].net)
      BY <1>2, <3>1 DEF BucketGone, DeletesNet
    <3> QED BY <3>1, <3>2, CreatedStays
  <2>3. ASSUME NEW r \in Requests, Read(r)
        PROVE  (buckets[op[q].net] = "none" \/ CreatedAgain(op[q].net))'
    <3>1. op' = op /\ buckets' = buckets
      BY <2>3, ReadChecks DEF rows
    <3>2. result'[q] = result[q]
      <4>1. PICK label : result' = result \/ result' = [result EXCEPT ![r] = "refused"]
        BY <2>3 DEF Read, TagUnused, NewName, TagMtu, OldTag, ReadNet, ReadNetAgain,
           ReadNetTag, ListPools, ListNics, ReadPool, ReadMember, ReadNic, ReadNicNet,
           ReadNicIp, Check, Goto, Finish
      <4> QED BY <1>2, <4>1
    <3>3. buckets[op[q].net] = "none" \/ CreatedAgain(op[q].net)
      BY <1>2, <3>1, <3>2 DEF BucketGone, DeletesNet
    <3> QED BY <3>1, <3>3, CreatedStays
  <2>4. ASSUME NEW r \in Requests, Commit(r) \/ Stop(r)
        PROVE  (buckets[op[q].net] = "none" \/ CreatedAgain(op[q].net))'
    <3>1. /\ op' = op /\ DeletesNet(op[q])
          /\ q = r => buckets'[op[q].net] = "none"
          /\ q # r => result[q] = "ok"
      BY <1>2, <2>4, CommitTypes DEF DeletesNet
    <3>2. CASE q # r
      <4>1. buckets[op[q].net] = "none" \/ CreatedAgain(op[q].net)
        BY <3>1, <3>2 DEF BucketGone
      <4>2. buckets'[op[q].net] = "none" \/ CreatedAgain(op[q].net)
        BY <2>0, <2>4, <4>1, BucketsComeBack
      <4> QED BY <3>1, <4>2, CreatedStays
    <3> QED BY <3>1, <3>2
  <2> QED BY <2>1, <2>2, <2>3, <2>4 DEF Next, AllDone
<1> QED BY <1>1, <1>2 DEF BucketGone

\* A NIC is put on a network by a batch that names its bucket.
LEMMA NewNicsHaveBuckets ==
  ASSUME CallInv, Next, NEW m \in Nics, nics[m].etag = 0, nics'[m].etag # 0
  PROVE  buckets[nics'[m].net] # "none"
<1>1. ASSUME NEW q \in Requests, Start(q)
      PROVE  FALSE
  <2>1. rows' = rows
    BY <1>1, StartTypes
  <2> QED BY <2>1 DEF rows
<1>2. ASSUME NEW q \in Requests, Read(q)
      PROVE  FALSE
  <2>1. rows' = rows
    BY <1>2, ReadChecks
  <2> QED BY <2>1 DEF rows
<1>3. ASSUME NEW q \in Requests, Commit(q) \/ Stop(q)
      PROVE  CommitCreateNic(q)
  <2>1. ASSUME CommitDeleteNic(q)
        PROVE  nics'[m].etag = 0
    BY <2>1 DEF CommitDeleteNic, NoNic, CallInv, TypeOK
  <2>2. ASSUME ~CommitCreateNic(q), ~CommitDeleteNic(q)
        PROVE  nics' = nics
    BY <1>3, <2>2 DEF Commit, Stop, CommitCreateTag, CommitUpdateTag, CommitDeleteTag,
       CommitCreateNet, MakeBucket, FillBucket, CommitUpdateNet, CommitDeleteNet,
       DropBucket, CommitPool, CommitDeletePool, Conflict, rows
  <2> QED BY <2>1, <2>2
<1>4. PICK q \in Requests : CommitCreateNic(q)
  <2>1. ~UNCHANGED vars
    BY DEF vars, rows
  <2> QED BY <1>1, <1>2, <1>3, <2>1 DEF Next, AllDone
<1>5. m = op[q].nic /\ nics'[m].net = op[q].net
  BY <1>4 DEF CommitCreateNic, CallInv, TypeOK
<1> QED BY <1>4, <1>5 DEF CommitCreateNic, NicCreateFits

\* After the deletion of a network has been answered no NIC is put on it, even
\* by a request that read the network before, however requests overlap: its
\* batch names a bucket that is gone, and only a creation of the same network
\* makes that bucket again.
THEOREM DeletedNetsGetNoNics == Spec => NoNicAfterDelete
<1>1. DeletedInv /\ [Next]_vars =>
        [\A m \in Nics, r \in Requests :
           /\ nics[m].etag = 0 /\ nics'[m].etag # 0
           /\ DeletesNet(op[r]) /\ op[r].net = nics'[m].net /\ result[r] = "ok"
           => \E q \in Requests : /\ op[q].kind = "createNet" /\ op[q].net = nics'[m].net
                                  /\ pc[q] # "idle"]_vars
  <2> SUFFICES ASSUME DeletedInv, Next, NEW m \in Nics, NEW r \in Requests,
                      nics[m].etag = 0, nics'[m].etag # 0,
                      DeletesNet(op[r]), op[r].net = nics'[m].net, result[r] = "ok"
               PROVE  \E q \in Requests : /\ op[q].kind = "createNet"
                                          /\ op[q].net = nics'[m].net /\ pc[q] # "idle"
    OBVIOUS
  <2>1. buckets[op[r].net] # "none"
    BY NewNicsHaveBuckets DEF DeletedInv
  <2>2. CreatedAgain(op[r].net)
    BY <2>1 DEF DeletedInv, BucketGone
  <2> QED BY <2>2 DEF CreatedAgain
<1>2. Init => DeletedInv
  <2>1. Init => BucketGone
    BY DEF Init, BucketGone
  <2> QED BY <2>1, CallInit DEF DeletedInv
<1>3. DeletedInv /\ [Next]_vars => DeletedInv'
  BY DeletedNext
<1> QED BY <1>1, <1>2, <1>3, PTL DEF Spec, NoNicAfterDelete
-----------------------------------------------------------------------------
(* Tags are neither lost nor duplicated.                                   *)

\* No request deletes a tag: a deletion frees a uuid that a rename under way
\* has read, which then takes the place of a new tag of the old name.
TagsStay == \A o \in Ops : o.kind # "deleteTag"

\* A tag's uuid is from the start or of a creation that has ended.
UuidsKnown ==
  \A t \in Tags : TagThere(t) /\ tags[t].uuid \in Requests
                    => /\ op[tags[t].uuid].kind = "createTag"
                       /\ pc[tags[t].uuid] = "done"

UuidsUnique ==
  \A s, t \in Tags : TagThere(s) /\ TagThere(t) /\ tags[s].uuid = tags[t].uuid => s = t

\* The tag that an update has read still exists, under its name or another, and
\* its etag tells whether the row is as it was.
SeenKnown(r) ==
  At(r, {"updateTag"}, {"commit"}) =>
    /\ tagSeen[r].uuid \in Uuids
    /\ tagSeen[r].etag # 0 /\ tagSeen[r].etag <= clock
    /\ tags[op[r].tag].etag = tagSeen[r].etag => tags[op[r].tag] = tagSeen[r]

\* The calls of an update of a tag: only OldTag leads to its write.
UpdateCalls(r) ==
  op[r].kind = "updateTag"
    => pc[r] \in {"idle", "tagUnused", "newName", "tagMtu", "oldTag", "commit", "done"}

TagsInv ==
  /\ CallInv /\ UuidsKnown /\ UuidsUnique
  /\ \A t \in Tags : tags[t].etag <= clock
  /\ \A r \in Requests : SeenKnown(r) /\ UpdateCalls(r)

\* What a write to the tags must do for them to be kept.
KeepsTags ==
  /\ Uuids \subseteq Uuids' /\ UuidsUnique'
  /\ \A t \in Tags : tags'[t] = tags[t] \/ tags'[t].etag \in {0, clock'}

\* A new tag has the uuid of its request, which no tag has yet.
LEMMA CreateKeeps ==
  ASSUME TagsInv, NEW r \in Requests, CommitCreateTag(r)
  PROVE  KeepsTags /\ UuidsKnown' /\ clock' = clock + 1
<1> USE DEF TagsInv, CallInv, TypeOK, KeepsTags, TagThere
<1>1. /\ tags' = [tags EXCEPT ![op[r].to] =
                    [uuid |-> r, mtu |-> op[r].mtu, etag |-> clock + 1]]
      /\ tags[op[r].to].etag = 0 /\ pc[r] = "commit" /\ op[r].kind = "createTag"
      /\ pc' = [pc EXCEPT ![r] = "done"] /\ op' = op /\ clock' = clock + 1
      /\ op[r].to \in Tags
  BY OpFacts DEF CommitCreateTag, Write, TagCreateFits, Finish
<1>2. \A t \in Tags : TagThere(t) => tags[t].uuid # r
  BY <1>1 DEF UuidsKnown
<1>3. \A t \in Tags : IF t = op[r].to
                      THEN tags'[t].uuid = r /\ tags'[t].etag = clock + 1
                      ELSE tags'[t] = tags[t]
  BY <1>1
<1>4. clock + 1 # 0
  OBVIOUS
<1>5. Uuids \subseteq Uuids'
  BY <1>1, <1>3 DEF Uuids
<1>6. UuidsUnique'
  BY <1>2, <1>3, <1>4 DEF UuidsUnique
<1>7. UuidsKnown'
  <2> SUFFICES ASSUME NEW t \in Tags, tags'[t].etag # 0, tags'[t].uuid \in Requests
               PROVE  op'[tags'[t].uuid].kind = "createTag" /\ pc'[tags'[t].uuid] = "done"
    BY DEF UuidsKnown
  <2>1. CASE t = op[r].to
    BY <1>1, <1>3, <2>1
  <2>2. CASE t # op[r].to
    BY <1>1, <1>3, <2>2 DEF UuidsKnown
  <2> QED BY <2>1, <2>2
<1> QED BY <1>1, <1>3, <1>5, <1>6, <1>7

\* A rename that the unique index lets through moves the tag that it has read; a
\* change whose etag fits changes that tag where it is.
LEMMA UpdateKeeps ==
  ASSUME TagsInv, NEW r \in Requests, CommitUpdateTag(r)
  PROVE  KeepsTags /\ UuidsKnown' /\ clock' = clock + 1
<1> USE DEF TagsInv, CallInv, TypeOK, TagThere
<1>1. /\ tags' = [tags EXCEPT ![op[r].tag] = NoTag,
                              ![op[r].to]  = [uuid |-> tagSeen[r].uuid, mtu  |-> NewMtu(r),
                                              etag |-> clock + 1]]
      /\ pc[r] = "commit" /\ op[r].kind = "updateTag" /\ TagUpdateFits(r)
      /\ pc' = [pc EXCEPT ![r] = "done"] /\ op' = op /\ clock' = clock + 1
      /\ op[r].to \in Tags /\ op[r].tag \in Tags
  BY OpFacts DEF CommitUpdateTag, Write, Finish
<1>2. SeenKnown(r) /\ At(r, {"updateTag"}, {"commit"})
  BY <1>1 DEF At
<1>3. /\ tags[op[r].tag].etag # 0 /\ tags[op[r].tag].uuid = tagSeen[r].uuid
      /\ op[r].to # op[r].tag => tags[op[r].to].etag = 0
  <2>1. CASE Renames(op[r])
    <3>1. /\ tags[op[r].tag].etag # 0 /\ tags[op[r].to].etag = 0
          /\ \A t \in Tags \ {op[r].tag} : TagThere(t) => tags[t].uuid # tagSeen[r].uuid
      BY <1>1, <2>1 DEF TagUpdateFits, UuidFits
    <3>2. PICK t \in Tags : TagThere(t) /\ tags[t].uuid = tagSeen[r].uuid
      BY <1>2 DEF SeenKnown, Uuids
    <3>3. t = op[r].tag
      BY <3>1, <3>2
    <3> QED BY <3>1, <3>2, <3>3
  <2>2. CASE ~Renames(op[r])
    <3>1. tags[op[r].tag].etag = tagSeen[r].etag /\ op[r].to = op[r].tag
      BY <1>1, <2>2 DEF TagUpdateFits, Renames
    <3> QED BY <1>2, <3>1 DEF SeenKnown
  <2> QED BY <2>1, <2>2
<1>4. /\ tags'[op[r].to].uuid = tagSeen[r].uuid /\ tags'[op[r].to].etag = clock + 1
      /\ op[r].tag # op[r].to => tags'[op[r].tag].etag = 0
      /\ \A t \in Tags : t # op[r].to /\ t # op[r].tag => tags'[t] = tags[t]
  BY <1>1 DEF NoTag
<1>5. clock + 1 # 0 /\ clock + 1 \in Nat
  OBVIOUS
<1>6. Uuids \subseteq Uuids'
  <2> SUFFICES ASSUME NEW t \in Tags, TagThere(t)
               PROVE  \E s \in Tags : tags'[s].etag # 0 /\ tags'[s].uuid = tags[t].uuid
    BY DEF Uuids
  <2>1. CASE t = op[r].tag
    BY <1>1, <1>3, <1>4, <1>5, <2>1
  <2>2. CASE t # op[r].tag
    BY <1>3, <1>4, <2>2
  <2> QED BY <2>1, <2>2
<1>7. UuidsUnique'
  <2> SUFFICES ASSUME NEW s \in Tags, NEW t \in Tags, tags'[s].etag # 0, tags'[t].etag # 0,
                      tags'[s].uuid = tags'[t].uuid
               PROVE  s = t
    BY DEF UuidsUnique
  <2>1. \A u \in Tags : u # op[r].to /\ tags'[u].etag # 0
                          => tags'[u].uuid # tags[op[r].tag].uuid
    BY <1>1, <1>3, <1>4 DEF UuidsUnique
  <2>2. CASE s # op[r].to /\ t # op[r].to
    <3>1. tags'[s] = tags[s] /\ tags'[t] = tags[t]
      BY <1>4, <2>2
    <3> QED BY <3>1 DEF UuidsUnique
  <2> QED BY <1>3, <1>4, <2>1, <2>2
<1>8. UuidsKnown'
  <2> SUFFICES ASSUME NEW t \in Tags, tags'[t].etag # 0, tags'[t].uuid \in Requests
               PROVE  op'[tags'[t].uuid].kind = "createTag" /\ pc'[tags'[t].uuid] = "done"
    BY DEF UuidsKnown
  <2>1. PICK u \in Tags : TagThere(u) /\ tags[u].uuid = tags'[t].uuid
    BY <1>1, <1>3, <1>4
  <2>2. op[tags[u].uuid].kind = "createTag" /\ pc[tags[u].uuid] = "done"
    BY <2>1 DEF UuidsKnown
  <2> QED BY <1>1, <2>1, <2>2
<1>9. \A t \in Tags : tags'[t] = tags[t] \/ tags'[t].etag \in {0, clock'}
  BY <1>1, <1>4
<1> QED BY <1>1, <1>6, <1>7, <1>8, <1>9 DEF KeepsTags

\* A write that fits leaves what the others have read of tags true.
LEMMA SeenStays ==
  ASSUME TagsInv, KeepsTags, clock' = clock + 1, NEW q \in Requests, SeenKnown(q),
         op' = op, tagSeen' = tagSeen, pc'[q] = pc[q]
  PROVE  SeenKnown(q)'
<1> USE DEF TagsInv, CallInv, TypeOK
<1> SUFFICES ASSUME At(q, {"updateTag"}, {"commit"})
             PROVE  /\ tagSeen[q].uuid \in Uuids'
                    /\ tagSeen[q].etag # 0 /\ tagSeen[q].etag <= clock'
                    /\ tags'[op[q].tag].etag = tagSeen[q].etag
                         => tags'[op[q].tag] = tagSeen[q]
  BY DEF SeenKnown, At
<1>1. /\ tagSeen[q].uuid \in Uuids /\ tagSeen[q].etag # 0 /\ tagSeen[q].etag <= clock
      /\ tags[op[q].tag].etag = tagSeen[q].etag => tags[op[q].tag] = tagSeen[q]
      /\ tagSeen[q].etag \in Nat /\ op[q].tag \in Tags
  BY OpFacts DEF SeenKnown, TagRow
<1>2. tagSeen[q].etag <= clock' /\ tagSeen[q].etag # clock'
  BY <1>1
<1> QED BY <1>1, <1>2 DEF KeepsTags

\* A step that writes no tag and in which r does not come to write one.
LEMMA TagsAlone ==
  ASSUME TagsInv, CallInv', tags' = tags, clock' \in {clock, clock + 1}, NEW r \in Requests,
         pc[r] # "done", SeenKnown(r)', UpdateCalls(r)',
         \A q \in Requests : q # r => /\ pc'[q] = pc[q] /\ op'[q] = op[q]
                                      /\ tagSeen'[q] = tagSeen[q],
         op'[r] = op[r] \/ pc[r] = "idle"
  PROVE  TagsInv'
<1> USE DEF TagsInv, CallInv, TypeOK
<1>1. Uuids' = Uuids /\ UuidsUnique' /\ \A t \in Tags : TagThere(t)' <=> TagThere(t)
  BY DEF Uuids, UuidsUnique, TagThere
<1>2. UuidsKnown'
  <2> SUFFICES ASSUME NEW t \in Tags, TagThere(t), tags[t].uuid \in Requests
               PROVE  op'[tags[t].uuid].kind = "createTag" /\ pc'[tags[t].uuid] = "done"
    BY <1>1 DEF UuidsKnown
  <2>1. op[tags[t].uuid].kind = "createTag" /\ pc[tags[t].uuid] = "done"
    BY DEF UuidsKnown
  <2>2. tags[t].uuid # r
    BY <2>1
  <2> QED BY <2>1, <2>2
<1>3. \A t \in Tags : tags'[t].etag <= clock'
  <2> SUFFICES ASSUME NEW t \in Tags PROVE tags[t].etag <= clock'
    OBVIOUS
  <2>1. tags[t].etag \in Nat
    BY DEF TagRow
  <2> QED BY <2>1
<1>4. ASSUME NEW q \in Requests, q # r
      PROVE  SeenKnown(q)' /\ UpdateCalls(q)'
  <2>1. pc'[q] = pc[q] /\ op'[q] = op[q] /\ tagSeen'[q] = tagSeen[q]
    BY <1>4
  <2>2. SeenKnown(q) /\ UpdateCalls(q) /\ tagSeen[q].etag \in Nat
    BY DEF TagRow
  <2>3. tagSeen[q].etag <= clock => tagSeen[q].etag <= clock'
    BY <2>2
  <2> QED BY <1>1, <2>1, <2>2, <2>3 DEF SeenKnown, UpdateCalls, At
<1> QED BY <1>1, <1>2, <1>3, <1>4

\* What a call that only reads does to its own request.
LEMMA ReadOwn ==
  ASSUME CallInv, NEW r \in Requests, Read(r)
  PROVE  /\ \E label : pc' = [pc EXCEPT ![r] = label]
         /\ OldTag(r) \/ tagSeen' = tagSeen
         /\ tagSeen' = [tagSeen EXCEPT ![r] = tagSeen'[r]]
<1> USE DEF CallInv, TypeOK
<1>1. \E label : pc' = [pc EXCEPT ![r] = label]
  BY DEF Read, TagUnused, NewName, TagMtu, OldTag, ReadNet, ReadNetAgain,
     ReadNetTag, ListPools, ListNics, ReadPool, ReadMember, ReadNic, ReadNicNet, ReadNicIp,
     Check, Goto, Finish
<1>2. OldTag(r) \/ tagSeen' = tagSeen
  BY DEF Read, TagUnused, NewName, TagMtu, ReadNet, ReadNetAgain, ReadNetTag, ListPools,
     ListNics, ReadPool, ReadMember, ReadNic, ReadNicNet, ReadNicIp, seen
<1> QED BY <1>1, <1>2 DEF OldTag

\* An update comes to its write with the row of its tag as it is.
LEMMA ReadTags ==
  ASSUME TagsInv, NEW r \in Requests, Read(r)
  PROVE  TagsInv'
<1> USE DEF TagsInv
<1>1. CallInv' /\ InProgress(r) /\ tags' = tags /\ clock' = clock /\ op' = op
  BY ReadTypes, ReadChecks DEF rows
<1>2. \A q \in Requests : q # r => pc'[q] = pc[q] /\ tagSeen'[q] = tagSeen[q]
  BY ReadOwn DEF CallInv, TypeOK
<1>3. CASE op[r].kind # "updateTag"
  <2>1. SeenKnown(r)' /\ UpdateCalls(r)'
    BY <1>1, <1>3 DEF SeenKnown, UpdateCalls, At
  <2> QED BY <1>1, <1>2, <2>1, TagsAlone DEF InProgress
<1>4. CASE op[r].kind = "updateTag" /\ OldTag(r)
  <2> USE DEF CallInv, TypeOK
  <2>1. /\ tagSeen'[r] = tags[op[r].tag] /\ op[r].tag \in Tags
        /\ pc'[r] = "done" \/ (pc'[r] = "commit" /\ TagThere(op[r].tag))
    BY <1>4, OpFacts DEF OldTag, Check, Goto, Finish
  <2>2. TagThere(op[r].tag) => tags[op[r].tag].uuid \in Uuids
    BY <2>1 DEF Uuids
  <2>3. SeenKnown(r)' /\ UpdateCalls(r)'
    <3>1. Uuids' = Uuids
      BY <1>1 DEF Uuids, TagThere
    <3> QED BY <1>1, <2>1, <2>2, <3>1 DEF SeenKnown, UpdateCalls, At, TagThere
  <2> HIDE DEF CallInv, TypeOK
  <2> QED BY <1>1, <1>2, <2>3, TagsAlone DEF InProgress
<1>5. CASE op[r].kind = "updateTag" /\ ~OldTag(r)
  <2>1. TagUnused(r) \/ NewName(r) \/ TagMtu(r)
    BY <1>5, <1>1 DEF Read, UpdateCalls, InProgress, TagUnused, NewName, TagMtu, ReadNet,
       ReadNetAgain, ReadNetTag, ListPools, ListNics, ReadPool, ReadMember, ReadNic,
       ReadNicNet, ReadNicIp
  <2>2. pc'[r] \in {"newName", "tagMtu", "oldTag", "done"}
    BY <1>5, <2>1 DEF TagUnused, NewName, TagMtu, Check, Goto, Finish, CallInv, TypeOK
  <2>3. SeenKnown(r)' /\ UpdateCalls(r)'
    BY <2>2 DEF SeenKnown, UpdateCalls, At
  <2> QED BY <1>1, <1>2, <2>3, TagsAlone DEF InProgress
<1> QED BY <1>3, <1>4, <1>5

\* Writes to the tags keep them; other writes do not touch them.
LEMMA CommitTags ==
  ASSUME TagsInv, TagsStay, NEW r \in Requests, Commit(r) \/ Stop(r)
  PROVE  TagsInv' /\ (Uuids \subseteq Uuids' /\ UuidsUnique')
<1> USE DEF TagsInv
<1>1. /\ CallInv' /\ op' = op
      /\ \A q \in Requests : q # r => pc'[q] = pc[q]
  BY CommitTypes
<1>2. tagSeen' = tagSeen /\ pc[r] # "done" /\ ~CommitDeleteTag(r)
  <2>1. op[r].kind # "deleteTag"
    BY DEF TagsStay, CallInv, TypeOK
  <2> QED BY <2>1 DEF Commit, Stop, InProgress, Write, CommitCreateTag, CommitUpdateTag,
         CommitDeleteTag, CommitCreateNet, MakeBucket, FillBucket, CommitUpdateNet,
         CommitDeleteNet, DropBucket, CommitPool, CommitDeletePool, CommitCreateNic,
         CommitDeleteNic, Conflict, seen
<1>3. SeenKnown(r)' /\ UpdateCalls(r)'
  <2>1. pc'[r] = "done" \/ (pc'[r] # "commit" /\ op[r].kind # "updateTag")
    BY DEF Commit, Stop, Write, CommitCreateTag, CommitUpdateTag, CommitDeleteTag,
       CommitCreateNet, MakeBucket, FillBucket, CommitUpdateNet, CommitDeleteNet,
       DropBucket, CommitPool, CommitDeletePool, CommitCreateNic, CommitDeleteNic,
       Conflict, Goto, Finish, CallInv, CallFacts, TypeOK, DeletesNet
  <2> QED BY <1>1, <2>1 DEF SeenKnown, UpdateCalls, At
<1>4. CASE CommitCreateTag(r) \/ CommitUpdateTag(r)
  <2>1. KeepsTags /\ UuidsKnown' /\ clock' = clock + 1
    BY <1>4, CreateKeeps, UpdateKeeps
  <2>2. \A q \in Requests : SeenKnown(q)' /\ UpdateCalls(q)'
    <3>1. ASSUME NEW q \in Requests, q # r
          PROVE  SeenKnown(q)' /\ UpdateCalls(q)'
      BY <1>1, <1>2, <2>1, <3>1, SeenStays DEF UpdateCalls
    <3> QED BY <1>3, <3>1
  <2>3. \A t \in Tags : tags'[t].etag <= clock'
    <3> SUFFICES ASSUME NEW t \in Tags PROVE tags'[t].etag <= clock'
      OBVIOUS
    <3>1. tags'[t] = tags[t] \/ tags'[t].etag \in {0, clock'}
      BY <2>1 DEF KeepsTags
    <3>2. tags[t].etag \in Nat /\ tags[t].etag <= clock /\ clock \in Nat
      BY DEF CallInv, TypeOK, TagRow
    <3> QED BY <2>1, <3>1, <3>2
  <2> QED BY <1>1, <2>1, <2>2, <2>3 DEF KeepsTags
<1>5. CASE ~CommitCreateTag(r) /\ ~CommitUpdateTag(r)
  <2>1. tags' = tags /\ clock' \in {clock, clock + 1}
    BY <1>2, <1>5 DEF Commit, Stop, Write, CommitCreateNet, MakeBucket, FillBucket,
       CommitUpdateNet, CommitDeleteNet, DropBucket, CommitPool, CommitDeletePool,
       CommitCreateNic, CommitDeleteNic, Conflict, rows
  <2>2. TagsInv'
    BY <1>1, <1>2, <1>3, <2>1, TagsAlone
  <2>3. Uuids' = Uuids
    BY <2>1 DEF Uuids, TagThere
  <2> QED BY <2>2, <2>3
<1> QED BY <1>4, <1>5

\* Every step keeps the tags, unless it deletes one.
LEMMA TagsNext ==
  ASSUME TagsInv, TagsStay, [Next]_vars
  PROVE  TagsInv' /\ (Uuids \subseteq Uuids' /\ UuidsUnique')
<1>1. CASE UNCHANGED vars
  <2>1. CallInv'
    BY CallNext DEF TagsInv
  <2>2. /\ tags' = tags /\ clock' = clock /\ pc' = pc /\ op' = op /\ tagSeen' = tagSeen
    BY <1>1 DEF vars, rows, seen
  <2>3. Uuids' = Uuids /\ UuidsUnique' /\ UuidsKnown'
    BY <2>2 DEF TagsInv, Uuids, UuidsUnique, UuidsKnown, TagThere
  <2>4. \A r \in Requests : SeenKnown(r)' /\ UpdateCalls(r)'
    BY <2>2, <2>3 DEF TagsInv, SeenKnown, UpdateCalls, At
  <2>5. \A t \in Tags : tags'[t].etag <= clock'
    BY <2>2 DEF TagsInv
  <2> QED BY <2>1, <2>3, <2>4, <2>5 DEF TagsInv
<1>2. ASSUME NEW r \in Requests, Start(r)
      PROVE  TagsInv' /\ (Uuids \subseteq Uuids' /\ UuidsUnique')
  <2>1. /\ CallInv' /\ tags' = tags /\ clock' = clock /\ pc[r] = "idle" /\ pc'[r] # "commit"
        /\ \A q \in Requests : q # r => op'[q] = op[q] /\ pc'[q] = pc[q]
    BY <1>2, StartTypes DEF TagsInv, rows
  <2>2. tagSeen' = tagSeen
    BY <1>2 DEF Start
  <2>3. UpdateCalls(r)' /\ SeenKnown(r)'
    <3>1. op'[r].kind = "updateTag" => pc'[r] \in {"tagUnused", "tagMtu", "oldTag"}
      BY <1>2 DEF Start, GoFirst, Goto, TagsInv, CallInv, TypeOK, Renames
    <3> QED BY <2>1, <3>1 DEF UpdateCalls, SeenKnown, At
  <2>4. TagsInv'
    BY <2>1, <2>2, <2>3, TagsAlone
  <2>5. Uuids' = Uuids
    BY <2>1 DEF Uuids, TagThere
  <2> QED BY <2>4, <2>5 DEF TagsInv
<1>3. ASSUME NEW r \in Requests, Read(r)
      PROVE  TagsInv' /\ (Uuids \subseteq Uuids' /\ UuidsUnique')
  <2>1. TagsInv' /\ tags' = tags
    BY <1>3, ReadTags, ReadChecks DEF TagsInv, rows
  <2>2. Uuids' = Uuids
    BY <2>1 DEF Uuids, TagThere
  <2> QED BY <2>1, <2>2 DEF TagsInv
<1> QED BY <1>1, <1>2, <1>3, CommitTags DEF Next, AllDone

LEMMA TagsInit ==
  ASSUME Init
  PROVE  TagsInv
<1>1. CallInv
  BY CallInit
<1>2. \A t \in Tags : /\ TagThere(t) => tags[t].uuid = t
                      /\ tags[t].etag \in {0, 1}
  BY DEF Init, NoTag
<1>3. UuidsUnique /\ UuidsKnown
  BY <1>2, LifeNames DEF UuidsUnique, UuidsKnown
<1>4. \A t \in Tags : tags[t].etag <= clock
  BY <1>2 DEF Init
<1>5. \A r \in Requests : SeenKnown(r) /\ UpdateCalls(r)
  BY DEF Init, SeenKnown, UpdateCalls, At
<1> QED BY <1>1, <1>3, <1>4, <1>5 DEF TagsInv

\* Creations, renames and changes of tags, however they race and wherever they
\* are cut short, lose no tag and duplicate none, if none is deleted: although a
\* rename deletes the old row without an etag, the unique index of uuids and the
\* etags together let it move only the tag that it has read.
THEOREM TagsNeverLost ==
  ASSUME TagsStay
  PROVE  Spec => TagsAreKept
<1>1. TagsInv /\ [Next]_vars =>
        [\/ \E r \in Requests : op[r].kind = "deleteTag" /\ pc[r] = "commit" /\ pc'[r] = "done"
         \/ /\ Uuids \subseteq Uuids'
            /\ \A s, t \in Tags : TagThere(s)' /\ TagThere(t)' /\ tags'[s].uuid = tags'[t].uuid
                                  => s = t]_vars
  BY TagsNext DEF UuidsUnique
<1>2. Init => TagsInv
  BY TagsInit
<1>3. TagsInv /\ [Next]_vars => TagsInv'
  BY TagsNext
<1> QED BY <1>1, <1>2, <1>3, PTL DEF Spec, TagsAreKept
-----------------------------------------------------------------------------
(* Networks are whole and gateways' records name their NICs, if requests do *)
(* not overlap.                                                             *)

\* The creation or deletion of the network was cut short.
CutShort(n) ==
  \E r \in Requests : /\ op[r].net = n /\ (op[r].kind = "createNet" \/ DeletesNet(op[r]))
                      /\ result[r] \in {"error", "stopped"}

\* A request has written some of what it writes of the network.
HalfWritten == {"bucket", "records", "dropBucket"}
Midway(n) == \E r \in Requests : op[r].net = n /\ pc[r] \in HalfWritten

Whole(n) == buckets[n] = IF NetThere(n) THEN "filled" ELSE "none"

\* What a request that runs alone knows of the network and the record it writes.
HomeFacts(r) ==
  /\ pc[r] \in {"bucket", "records"} => NetThere(op[r].net) /\ NicsOf(op[r].net) = {}
  /\ pc[r] = "dropBucket" => ~NetThere(op[r].net)
  /\ At(r, {"createNic"}, {"commit"}) /\ op[r].gateway => FreeToTake(gws[op[r].net])
  /\ At(r, {"deleteNic"}, {"commit"}) => gwSeen[r] = gws[nicSeen[r].net]

Settled(n) == CutShort(n) \/ Midway(n) \/ Whole(n)

HomeInv ==
  /\ LifeInv /\ CallInv /\ GatewayNamesHolder
  /\ \A n \in Nets : Settled(n)
  /\ \A r \in Requests : HomeFacts(r)

\* The step is of a request in progress, the only one.
Moves(r) ==
  /\ InProgress(r) /\ op' = op
  /\ \A q \in Requests : q # r => pc'[q] = pc[q] /\ result'[q] = result[q]

\* The others are idle or done, and know nothing.
LEMMA OthersHome ==
  ASSUME HomeInv, OneAtATime, NEW r \in Requests, Moves(r)
  PROVE  \A q \in Requests : q # r => HomeFacts(q)' /\ pc[q] \notin HalfWritten
<1>1. \A q \in Requests : q # r => pc'[q] = pc[q] /\ pc[q] \in {"idle", "done"}
  BY OnlyOne DEF HomeInv, Moves, InProgress
<1> QED BY <1>1 DEF HomeFacts, At, HalfWritten

\* A network that the step does not touch is settled as before, unless the step
\* ends what was halfway.
LEMMA Untouched ==
  ASSUME HomeInv, OneAtATime, NEW r \in Requests, Moves(r), NEW n \in Nets,
         buckets'[n] = buckets[n], NetThere(n)' <=> NetThere(n),
         op[r].net = n /\ pc[r] \in HalfWritten => CutShort(n)' \/ Midway(n)'
  PROVE  Settled(n)'
<1>1. CASE CutShort(n)
  <2>1. PICK q \in Requests : /\ op[q].net = n
                              /\ op[q].kind = "createNet" \/ DeletesNet(op[q])
                              /\ result[q] \in {"error", "stopped"}
    BY <1>1 DEF CutShort
  <2>2. q # r
    BY <2>1 DEF HomeInv, CallInv, CallFacts, Moves, InProgress
  <2> QED BY <2>1, <2>2 DEF Moves, Settled, CutShort, DeletesNet
<1>2. CASE Midway(n)
  BY <1>2, OthersHome DEF Midway, Settled
<1>3. CASE Whole(n)
  BY <1>3 DEF Whole, Settled
<1> QED BY <1>1, <1>2, <1>3 DEF HomeInv, Settled

\* The types of a request's operation.
LEMMA OpOf ==
  ASSUME HomeInv, NEW r \in Requests
  PROVE  /\ op[r] \in Ops /\ op[r].net \in Nets /\ op[r].nic \in Nics
         /\ op[r].gateway \in BOOLEAN
         /\ result[r] # "none" => pc[r] = "done"
  BY OpFacts DEF HomeInv, CallInv, CallFacts, TypeOK

\* What the actions must keep, besides LifeInv and CallInv.
HomeKept ==
  /\ GatewayNamesHolder' /\ \A n \in Nets : Settled(n)'
  /\ \A r \in Requests : HomeFacts(r)'

\* A request that starts has written nothing.
LEMMA StartHome ==
  ASSUME HomeInv, OneAtATime, NEW r \in Requests, Start(r)
  PROVE  HomeKept
<1>1. /\ rows' = rows /\ result' = result /\ pc[r] = "idle" /\ result[r] = "none"
      /\ pc'[r] # "commit"
      /\ \A q \in Requests : q # r => op'[q] = op[q] /\ pc'[q] = pc[q]
  BY StartTypes DEF HomeInv
<1>2. \A q \in Requests : ~InProgress(q)
  BY DEF Start, OneAtATime
<1>3. pc'[r] \notin HalfWritten
  BY DEF Start, GoFirst, Goto, HalfWritten, HomeInv, CallInv, TypeOK
<1>4. GatewayNamesHolder'
  BY <1>1 DEF rows, GatewayNamesHolder, HomeInv
<1>5. \A q \in Requests : HomeFacts(q)'
  BY <1>1, <1>2, <1>3 DEF HomeFacts, At, HalfWritten, InProgress
<1>6. ASSUME NEW n \in Nets
      PROVE  Settled(n)'
  <2>1. ~Midway(n)
    BY <1>2 DEF Midway, HalfWritten, InProgress
  <2>2. CASE CutShort(n)
    <3>1. PICK q \in Requests : /\ op[q].net = n
                                /\ op[q].kind = "createNet" \/ DeletesNet(op[q])
                                /\ result[q] \in {"error", "stopped"}
      BY <2>2 DEF CutShort
    <3>2. q # r
      BY <1>1, <3>1
    <3> QED BY <1>1, <3>1, <3>2 DEF Settled, CutShort, DeletesNet
  <2>3. CASE Whole(n)
    BY <1>1, <2>3 DEF Settled, Whole, rows, NetThere
  <2> QED BY <2>1, <2>2, <2>3 DEF HomeInv, Settled
<1> QED BY <1>4, <1>5, <1>6 DEF HomeKept

\* Only the check of the address leads a NIC's request to its write.
LEMMA ReadHome ==
  ASSUME HomeInv, OneAtATime, NEW r \in Requests, Read(r)
  PROVE  HomeKept
<1>1. InProgress(r) /\ rows' = rows /\ op' = op
  BY ReadChecks DEF HomeInv
<1>2. \A q \in Requests : q # r => pc'[q] = pc[q] /\ result'[q] = result[q]
  BY DEF Read, TagUnused, NewName, TagMtu, OldTag, ReadNet, ReadNetAgain, ReadNetTag,
     ListPools, ListNics, ReadPool, ReadMember, ReadNic, ReadNicNet, ReadNicIp, Check,
     Goto, Finish, HomeInv, CallInv, TypeOK
<1>3. Moves(r)
  BY <1>1, <1>2 DEF Moves
<1>4. pc[r] \notin HalfWritten
  BY DEF Read, TagUnused, NewName, TagMtu, OldTag, ReadNet, ReadNetAgain, ReadNetTag,
     ListPools, ListNics, ReadPool, ReadMember, ReadNic, ReadNicNet, ReadNicIp, HalfWritten
<1>5. GatewayNamesHolder'
  BY <1>1 DEF rows, GatewayNamesHolder, HomeInv
<1>6. \A n \in Nets : Settled(n)'
  BY <1>1, <1>3, <1>4, Untouched DEF rows, NetThere
<1>7. HomeFacts(r)'
  <2> USE DEF HomeInv, CallInv, TypeOK
  <2>1. pc'[r] \notin HalfWritten
    BY DEF Read, TagUnused, NewName, TagMtu, OldTag, ReadNet, ReadNetAgain, ReadNetTag,
       ListPools, ListNics, ReadPool, ReadMember, ReadNic, ReadNicNet, ReadNicIp, Check,
       Goto, Finish, AfterMembers, HalfWritten, CallFacts, DeletesNet
  <2>2. CASE ReadNicIp(r)
    <3>1. /\ gwSeen'[r] = gws[NicNet(r)] /\ nicSeen' = nicSeen
          /\ pc'[r] = "commit" /\ NicGateway(r) /\ op[r].kind # "deleteNic"
               => FreeToTake(gws[NicNet(r)])
      BY <2>2 DEF ReadNicIp, Check, Goto, Finish
    <3> QED BY <1>1, <2>1, <3>1 DEF HomeFacts, At, NicNet, NicGateway, HalfWritten, rows
  <2>3. CASE ~ReadNicIp(r)
    <3>1. op[r].kind \in {"createNic", "deleteNic"} => pc'[r] # "commit"
      BY <2>3, <1>1 DEF Read, TagUnused, NewName, TagMtu, OldTag, ReadNet, ReadNetAgain,
         ReadNetTag, ListPools, ListNics, ReadPool, ReadMember, ReadNic, ReadNicNet, Check,
         Goto, Finish, AfterMembers, LifeInv, Facts, KindFacts, Renames
    <3> QED BY <1>1, <2>1, <3>1 DEF HomeFacts, At, HalfWritten
  <2> QED BY <2>2, <2>3
<1> QED BY <1>3, <1>5, <1>6, <1>7, OthersHome DEF HomeKept

\* Every write is of a request in progress.
LEMMA CommitMoves ==
  ASSUME HomeInv, NEW r \in Requests, Commit(r) \/ Stop(r)
  PROVE  Moves(r) /\ gwSeen' = gwSeen /\ nicSeen' = nicSeen
<1>1. op' = op /\ \A q \in Requests : q # r => pc'[q] = pc[q] /\ result'[q] = result[q]
  BY CommitTypes DEF HomeInv
<1>2. InProgress(r) /\ gwSeen' = gwSeen /\ nicSeen' = nicSeen
  BY DEF Commit, Stop, InProgress, Write, CommitCreateTag, CommitUpdateTag, CommitDeleteTag,
         CommitCreateNet, MakeBucket, FillBucket, CommitUpdateNet, CommitDeleteNet,
         DropBucket, CommitPool, CommitDeletePool, CommitCreateNic, CommitDeleteNic,
         Conflict, seen
<1> QED BY <1>1, <1>2 DEF Moves

\* A request that has ended knows nothing.
LEMMA EndedHome ==
  ASSUME HomeInv, OneAtATime, NEW r \in Requests, Moves(r), pc'[r] = "done"
  PROVE  \A q \in Requests : HomeFacts(q)'
<1>1. HomeFacts(r)'
  BY DEF HomeFacts, At
<1> QED BY <1>1, OthersHome

\* Writes to tags and pools, and writes that Moray refuses, touch no home; nor
\* does the new row of a network that is there.
LEMMA ElsewhereHome ==
  ASSUME HomeInv, OneAtATime, NEW r \in Requests,
         \/ CommitCreateTag(r) \/ CommitUpdateTag(r) \/ CommitDeleteTag(r)
         \/ CommitUpdateNet(r) \/ CommitPool(r) \/ CommitDeletePool(r) \/ Conflict(r)
  PROVE  HomeKept
<1>1. Moves(r)
  BY CommitMoves DEF Commit
<1>2. /\ buckets' = buckets /\ gws' = gws /\ nics' = nics
      /\ pc[r] = "commit" /\ pc'[r] = "done"
  BY DEF CommitCreateTag, CommitUpdateTag, CommitDeleteTag, CommitUpdateNet, CommitPool,
     CommitDeletePool, Conflict, Write, rows, Finish, HomeInv, CallInv, TypeOK
<1>3. ASSUME NEW n \in Nets
      PROVE  NetThere(n)' <=> NetThere(n)
  <2>1. CASE CommitUpdateNet(r)
    <3>1. NetThere(op[r].net) /\ op[r].net \in Nets
      BY <2>1, OpOf DEF CommitUpdateNet, Write, HomeInv, LifeInv, Facts, NetFacts, At
    <3>2. clock + 1 # 0
      BY DEF HomeInv, CallInv, TypeOK
    <3> QED BY <2>1, <3>1, <3>2 DEF CommitUpdateNet, NetThere, HomeInv, CallInv, TypeOK
  <2>2. CASE ~CommitUpdateNet(r)
    BY <2>2 DEF CommitCreateTag, CommitUpdateTag, CommitDeleteTag, CommitPool,
       CommitDeletePool, Conflict, rows, NetThere
  <2> QED BY <2>1, <2>2
<1>4. \A n \in Nets : Settled(n)'
  BY <1>1, <1>2, <1>3, Untouched DEF HalfWritten
<1>5. GatewayNamesHolder'
  BY <1>2 DEF HomeInv, GatewayNamesHolder
<1> QED BY <1>1, <1>2, <1>4, <1>5, EndedHome DEF HomeKept

\* What is left halfway by a request that is cut short is known to be so.
LEMMA StopHome ==
  ASSUME HomeInv, OneAtATime, NEW r \in Requests, Stop(r)
  PROVE  HomeKept
<1>1. Moves(r)
  BY CommitMoves
<1>2. rows' = rows /\ pc'[r] = "done" /\ result'[r] = "stopped"
  BY DEF Stop, Finish, HomeInv, CallInv, TypeOK
<1>3. ASSUME NEW n \in Nets
      PROVE  Settled(n)'
  <2>1. op[r].net = n /\ pc[r] \in HalfWritten => CutShort(n)'
    BY <1>1, <1>2 DEF CutShort, HalfWritten, HomeInv, CallInv, CallFacts, Moves, DeletesNet
  <2> QED BY <1>1, <1>2, <2>1, Untouched DEF rows, NetThere
<1>4. GatewayNamesHolder'
  BY <1>2 DEF rows, HomeInv, GatewayNamesHolder
<1> QED BY <1>1, <1>2, <1>3, <1>4, EndedHome DEF HomeKept

\* The network that is created is halfway, and no NIC is on it.
LEMMA CreateNetHome ==
  ASSUME HomeInv, OneAtATime, NEW r \in Requests, CommitCreateNet(r)
  PROVE  HomeKept
<1>0. PICK n0 \in Nets : n0 = op[r].net
  BY OpOf
<1> USE <1>0
<1>1. Moves(r)
  BY CommitMoves DEF Commit
<1>2. /\ buckets' = buckets /\ gws' = gws /\ nics' = nics
      /\ pc[r] = "commit" /\ pc'[r] = "bucket" /\ ~NetThere(n0)
  BY DEF CommitCreateNet, Write, Goto, HomeInv, CallInv, TypeOK, NetCreateFits
<1>3. NetThere(n0)' /\ \A n \in Nets : n # n0 => (NetThere(n)' <=> NetThere(n))
  BY DEF CommitCreateNet, NetThere, HomeInv, CallInv, TypeOK
<1>4. \A n \in Nets : Settled(n)'
  <2>1. Midway(n0)'
    BY <1>1, <1>2 DEF Midway, HalfWritten, Moves
  <2>2. \A n \in Nets : n # n0 => Settled(n)'
    BY <1>1, <1>2, <1>3, Untouched
  <2> QED BY <2>1, <2>2 DEF Settled
<1>5. GatewayNamesHolder'
  BY <1>2 DEF HomeInv, GatewayNamesHolder
<1>6. HomeFacts(r)'
  <2>1. NicsOf(n0)' = {}
    BY <1>2 DEF HomeInv, LifeInv, NicsResolve, NicsOf
  <2> QED BY <1>1, <1>2, <1>3, <2>1 DEF HomeFacts, At, Moves
<1> QED BY <1>1, <1>4, <1>5, <1>6, OthersHome DEF HomeKept

\* The network stays halfway.
LEMMA MakeBucketHome ==
  ASSUME HomeInv, OneAtATime, NEW r \in Requests, MakeBucket(r)
  PROVE  HomeKept
<1>0. PICK n0 \in Nets : n0 = op[r].net
  BY OpOf
<1> USE <1>0
<1>1. Moves(r)
  BY CommitMoves DEF Commit
<1>2. /\ nets' = nets /\ gws' = gws /\ nics' = nics
      /\ pc[r] = "bucket" /\ pc'[r] = "records"
      /\ \A n \in Nets : n # n0 => buckets'[n] = buckets[n]
  BY DEF MakeBucket, Goto, HomeInv, CallInv, TypeOK
<1>3. \A n \in Nets : Settled(n)'
  <2>1. Midway(n0)'
    BY <1>1, <1>2 DEF Midway, HalfWritten, Moves
  <2>2. \A n \in Nets : n # n0 => Settled(n)'
    BY <1>1, <1>2, Untouched DEF NetThere
  <2> QED BY <2>1, <2>2 DEF Settled
<1>4. GatewayNamesHolder'
  BY <1>2 DEF HomeInv, GatewayNamesHolder
<1>5. HomeFacts(r)'
  BY <1>1, <1>2 DEF HomeInv, HomeFacts, At, Moves, NetThere, NicsOf
<1> QED BY <1>1, <1>3, <1>4, <1>5, OthersHome DEF HomeKept

\* The records are put in a bucket that no NIC uses yet, and complete it.
LEMMA FillBucketHome ==
  ASSUME HomeInv, OneAtATime, NEW r \in Requests, FillBucket(r)
  PROVE  HomeKept
<1> USE DEF HomeInv, CallInv, TypeOK
<1>0. PICK n0 \in Nets : n0 = op[r].net
  BY OpOf
<1> USE <1>0
<1>1. Moves(r)
  BY CommitMoves DEF Commit
<1>2. /\ nets' = nets /\ nics' = nics /\ pc[r] = "records" /\ pc'[r] = "done"
      /\ \A n \in Nets : n # n0 => buckets'[n] = buckets[n] /\ gws'[n] = gws[n]
      /\ buckets[n0] = "none" => result'[r] = "error" /\ gws' = gws
      /\ buckets[n0] # "none" => buckets'[n0] = "filled"
  BY DEF FillBucket, Finish
<1>3. n0 \in Nets /\ NetThere(n0) /\ NicsOf(n0) = {} /\ op[r].kind = "createNet"
  BY <1>2, OpOf DEF HomeFacts, CallFacts
<1>4. \A n \in Nets : Settled(n)'
  <2>1. buckets[n0] = "none" => CutShort(n0)'
    BY <1>1, <1>2, <1>3 DEF CutShort, Moves
  <2>2. buckets[n0] # "none" => Whole(n0)'
    BY <1>2, <1>3 DEF Whole, NetThere
  <2>3. \A n \in Nets : n # n0 => Settled(n)'
    BY <1>1, <1>2, Untouched DEF NetThere
  <2> QED BY <2>1, <2>2, <2>3 DEF Settled
<1>5. GatewayNamesHolder'
  <2> SUFFICES ASSUME NEW m \in Nics, nics[m].etag # 0, nics[m].gateway
               PROVE  gws'[nics[m].net].holder = m
    BY <1>2 DEF GatewayNamesHolder
  <2>1. nics[m].net # n0 /\ nics[m].net \in Nets
    BY <1>3 DEF NicsOf, NicRow
  <2> QED BY <1>2, <2>1 DEF GatewayNamesHolder
<1> QED BY <1>1, <1>2, <1>4, <1>5, EndedHome DEF HomeKept

\* The network that is deleted is halfway.
LEMMA DeleteNetHome ==
  ASSUME HomeInv, OneAtATime, NEW r \in Requests, CommitDeleteNet(r)
  PROVE  HomeKept
<1>0. PICK n0 \in Nets : n0 = op[r].net
  BY OpOf
<1> USE <1>0
<1>1. Moves(r)
  BY CommitMoves DEF Commit
<1>2. /\ buckets' = buckets /\ gws' = gws /\ nics' = nics
      /\ pc[r] = "commit" /\ pc'[r] = "dropBucket"
  BY DEF CommitDeleteNet, Write, Goto, HomeInv, CallInv, TypeOK
<1>3. ~NetThere(n0)' /\ \A n \in Nets : n # n0 => (NetThere(n)' <=> NetThere(n))
  BY DEF CommitDeleteNet, NetThere, NoNet, HomeInv, CallInv, TypeOK
<1>4. \A n \in Nets : Settled(n)'
  <2>1. Midway(n0)'
    BY <1>1, <1>2 DEF Midway, HalfWritten, Moves
  <2>2. \A n \in Nets : n # n0 => Settled(n)'
    BY <1>1, <1>2, <1>3, Untouched
  <2> QED BY <2>1, <2>2 DEF Settled
<1>5. GatewayNamesHolder'
  BY <1>2 DEF HomeInv, GatewayNamesHolder
<1>6. HomeFacts(r)'
  BY <1>1, <1>2, <1>3 DEF HomeFacts, At, Moves
<1> QED BY <1>1, <1>4, <1>5, <1>6, OthersHome DEF HomeKept

\* No NIC is on the network whose bucket goes.
LEMMA DropBucketHome ==
  ASSUME HomeInv, OneAtATime, NEW r \in Requests, DropBucket(r)
  PROVE  HomeKept
<1> USE DEF HomeInv, CallInv, TypeOK
<1>0. PICK n0 \in Nets : n0 = op[r].net
  BY OpOf
<1> USE <1>0
<1>1. Moves(r)
  BY CommitMoves DEF Commit
<1>2. n0 \in Nets /\ op[r].kind = "deleteNet"
  BY OpOf DEF DropBucket, LifeInv, Facts, KindFacts
<1>3. /\ nets' = nets /\ nics' = nics /\ pc[r] = "dropBucket" /\ pc'[r] = "done"
      /\ \A n \in Nets : n # n0 => buckets'[n] = buckets[n] /\ gws'[n] = gws[n]
      /\ buckets'[n0] = "none"
  BY <1>2 DEF DropBucket, Finish, BucketDropped
<1>4. ~NetThere(n0) /\ NicsOf(n0) = {}
  BY <1>2, <1>3 DEF HomeFacts, LifeInv, Facts, NetFacts, At
<1>5. \A n \in Nets : Settled(n)'
  <2>1. Whole(n0)'
    BY <1>3, <1>4 DEF Whole, NetThere
  <2>2. \A n \in Nets : n # n0 => Settled(n)'
    BY <1>1, <1>3, Untouched DEF NetThere
  <2> QED BY <2>1, <2>2 DEF Settled
<1>6. GatewayNamesHolder'
  <2> SUFFICES ASSUME NEW m \in Nics, nics[m].etag # 0, nics[m].gateway
               PROVE  gws'[nics[m].net].holder = m
    BY <1>3 DEF GatewayNamesHolder
  <2>1. nics[m].net # n0 /\ nics[m].net \in Nets
    BY <1>4 DEF NicsOf, NicRow
  <2> QED BY <1>3, <2>1 DEF GatewayNamesHolder
<1> QED BY <1>1, <1>3, <1>5, <1>6, EndedHome DEF HomeKept

\* The gateway's record was free when it was read, so no other NIC has the
\* gateway's address.
LEMMA CreateNicHome ==
  ASSUME HomeInv, OneAtATime, NEW r \in Requests, CommitCreateNic(r)
  PROVE  HomeKept
<1> USE DEF HomeInv, CallInv, TypeOK
<1>0. PICK n0 \in Nets, m0 \in Nics : n0 = op[r].net /\ m0 = op[r].nic
  BY OpOf
<1> USE <1>0
<1>1. Moves(r)
  BY CommitMoves DEF Commit
<1>2. /\ nets' = nets /\ buckets' = buckets /\ pc[r] = "commit" /\ pc'[r] = "done"
      /\ nics' = [nics EXCEPT ![m0] =
                    [net |-> n0, gateway |-> op[r].gateway, etag |-> clock + 1]]
      /\ gws' = IF op[r].gateway
                THEN [gws EXCEPT ![n0] = [holder |-> m0, etag |-> clock + 1]] ELSE gws
      /\ op[r].kind = "createNic"
  BY DEF CommitCreateNic, Write, Finish
<1>3. op[r].gateway \in BOOLEAN
  BY OpOf
<1>4. \A n \in Nets : Settled(n)'
  BY <1>1, <1>2, Untouched DEF NetThere, HalfWritten
<1>5. GatewayNamesHolder'
  <2> SUFFICES ASSUME NEW m \in Nics, nics'[m].etag # 0, nics'[m].gateway
               PROVE  gws'[nics'[m].net].holder = m
    BY DEF GatewayNamesHolder
  <2>1. CASE m = m0
    <3>1. nics'[m].net = n0 /\ op[r].gateway
      BY <1>2, <1>3, <2>1
    <3> QED BY <1>2, <1>3, <2>1, <3>1
  <2>2. CASE m # m0
    <3>1. /\ nics'[m] = nics[m] /\ gws[nics[m].net].holder = m /\ nics[m].net \in Nets
      BY <1>2, <2>2 DEF GatewayNamesHolder, NicRow
    <3>2. op[r].gateway => nics[m].net # n0
      <4>1. op[r].gateway => gws[n0].holder \in {Admin, Nobody}
        BY <1>2 DEF HomeFacts, At, FreeToTake
      <4> QED BY <3>1, <4>1, LifeNames
    <3> QED BY <1>2, <3>1, <3>2
  <2> QED BY <2>1, <2>2
<1> QED BY <1>1, <1>2, <1>4, <1>5, EndedHome DEF HomeKept

\* A record is only freed if it names the NIC that goes.
LEMMA DeleteNicHome ==
  ASSUME HomeInv, OneAtATime, NEW r \in Requests, CommitDeleteNic(r)
  PROVE  HomeKept
<1> USE DEF HomeInv, CallInv, TypeOK
<1>0. PICK n0 \in Nets, m0 \in Nics : n0 = nicSeen[r].net /\ m0 = op[r].nic
  BY OpOf DEF NicRow
<1> USE <1>0
<1>1. Moves(r)
  BY CommitMoves DEF Commit
<1>2. /\ nets' = nets /\ buckets' = buckets /\ pc[r] = "commit" /\ pc'[r] = "done"
      /\ nics' = [nics EXCEPT ![m0] = NoNic]
      /\ gws' = IF FreesGateway(r)
                THEN [gws EXCEPT ![n0] = [holder |-> Nobody, etag |-> clock + 1]] ELSE gws
      /\ op[r].kind = "deleteNic"
  BY DEF CommitDeleteNic, Write, Finish
<1>3. \A n \in Nets : Settled(n)'
  BY <1>1, <1>2, Untouched DEF NetThere, HalfWritten
<1>4. GatewayNamesHolder'
  <2> SUFFICES ASSUME NEW m \in Nics, nics'[m].etag # 0, nics'[m].gateway
               PROVE  gws'[nics'[m].net].holder = m
    BY DEF GatewayNamesHolder
  <2>1. m # m0
    BY <1>2 DEF NoNic
  <2>2. /\ nics'[m] = nics[m] /\ gws[nics[m].net].holder = m /\ nics[m].net \in Nets
    BY <1>2, <2>1 DEF GatewayNamesHolder, NicRow
  <2>3. FreesGateway(r) => nics[m].net # n0
    <3>1. FreesGateway(r) => gws[n0].holder = m0
      BY <1>2 DEF FreesGateway, HomeFacts, At
    <3> QED BY <2>1, <2>2, <3>1
  <2> QED BY <1>2, <2>2, <2>3
<1> QED BY <1>1, <1>2, <1>3, <1>4, EndedHome DEF HomeKept

LEMMA HomeNext ==
  ASSUME HomeInv, OneAtATime, [Next]_vars
  PROVE  HomeInv'
<1>1. LifeInv' /\ CallInv'
  BY NextInv, CallNext DEF HomeInv
<1>2. CASE UNCHANGED vars
  <2>1. GatewayNamesHolder' /\ \A r \in Requests : HomeFacts(r)'
    BY <1>2 DEF vars, rows, seen, HomeInv, GatewayNamesHolder, HomeFacts, At, NetThere, NicsOf
  <2>2. \A n \in Nets : Settled(n)'
    BY <1>2 DEF vars, rows, HomeInv, Settled, CutShort, Midway, Whole, NetThere, DeletesNet
  <2> QED BY <1>1, <2>1, <2>2 DEF HomeInv
<1>3. ASSUME NEW r \in Requests, Commit(r)
      PROVE  HomeKept
  BY <1>3, ElsewhereHome, CreateNetHome, MakeBucketHome, FillBucketHome, DeleteNetHome,
     DropBucketHome, CreateNicHome, DeleteNicHome DEF Commit
<1>4. HomeKept => HomeInv'
  BY <1>1 DEF HomeKept, HomeInv
<1> QED BY <1>2, <1>3, <1>4, StartHome, ReadHome, StopHome DEF Next, AllDone

LEMMA HomeInit ==
  ASSUME Init
  PROVE  HomeInv
<1>1. LifeInv /\ CallInv
  BY InitInv, CallInit
<1>2. GatewayNamesHolder
  <2> SUFFICES ASSUME NEW m \in Nics, nics[m].etag # 0, nics[m].gateway
               PROVE  gws[nics[m].net].holder = m
    BY DEF GatewayNamesHolder
  <2>1. nics[m].net \in Nets /\ m \in NicsOf(nics[m].net)
    BY <1>1 DEF LifeInv, TypeOK, NicRow, NicsOf
  <2>2. NetThere(nics[m].net)
    BY <1>1, <2>1 DEF LifeInv, NicsResolve
  <2>3. \A k \in NicsOf(nics[m].net) : nics[k].gateway => k = m
    BY <2>1 DEF Init, GatewayHeldOnce, NicsOf
  <2>4. (CHOOSE k \in NicsOf(nics[m].net) : nics[k].gateway) = m
    BY <2>1, <2>3
  <2> QED BY <2>1, <2>2, <2>4 DEF Init
<1>3. \A n \in Nets : Settled(n)
  BY DEF Init, Settled, Whole
<1>4. \A r \in Requests : HomeFacts(r)
  BY DEF Init, HomeFacts, At
<1> QED BY <1>1, <1>2, <1>3, <1>4 DEF HomeInv

\* The invariant of networks' homes, for requests that do not overlap.
THEOREM HomeInvariant ==
  ASSUME OneAtATime
  PROVE  Spec => []HomeInv
<1>1. Init => HomeInv
  BY HomeInit
<1>2. HomeInv /\ [Next]_vars => HomeInv'
  BY HomeNext
<1> QED BY <1>1, <1>2, PTL DEF Spec

\* The record of a gateway's address names the NIC that has the address, through
\* any sequence of creations and deletions of NICs and networks that do not
\* overlap, each of which may be cut short: createNetwork puts its records over
\* whatever is there, and a deletion of a NIC frees what it finds.
THEOREM GatewaysNamed ==
  ASSUME OneAtATime
  PROVE  Spec => []GatewayNamesHolder
<1>1. HomeInv => GatewayNamesHolder
  BY DEF HomeInv
<1> QED BY <1>1, HomeInvariant, PTL

\* A network has its bucket with all of createNetwork's records, and there is no
\* bucket without a network, unless a creation or deletion of that network was
\* cut short or is under way.
THEOREM NetsStayWhole ==
  ASSUME OneAtATime
  PROVE  Spec => []NetsAreWhole
<1>1. ASSUME HomeInv, NEW n \in Nets, ~Unsettled(n)
      PROVE  Whole(n)
  <2>1. ~CutShort(n)
    BY <1>1 DEF CutShort, Unsettled
  <2>2. ~Midway(n)
    <3> SUFFICES ASSUME NEW r \in Requests, op[r].net = n, pc[r] \in HalfWritten
                 PROVE  FALSE
      BY DEF Midway
    <3>1. op[r].kind = "createNet" \/ DeletesNet(op[r])
      BY <1>1 DEF HomeInv, CallInv, CallFacts, HalfWritten
    <3>2. InProgress(r)
      BY DEF InProgress, HalfWritten
    <3> QED BY <1>1, <3>1, <3>2 DEF Unsettled
  <2> QED BY <1>1, <2>1, <2>2 DEF HomeInv, Settled
<1>2. HomeInv => NetsAreWhole
  BY <1>1 DEF NetsAreWhole, Whole
<1> QED BY <1>2, HomeInvariant, PTL
=============================================================================
