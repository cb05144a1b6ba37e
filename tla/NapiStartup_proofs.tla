------------------------- MODULE NapiStartup_proofs -------------------------
(***************************************************************************)
(* Whatever the buckets, the rows, the limits and the number of instances: *)
(* an instance serves requests only over migrated buckets and loaded data, *)
(* and no migration changes or brings back a record.                       *)
(***************************************************************************)
EXTENDS NapiStartup, TLAPS, SequenceTheorems

\* A bucket an instance need not look at again.
Ready(b) == store[b] = "current" /\ Unmigrated(b) = {}

\* Where an instance is, this is behind it.
Prog(p) ==
  /\ phase[p] = "init.migrations" =>
       /\ \A i \in 1..(mig[p].at - 1) : Ready(Models[i])
       /\ mig[p].step \in {"reindex", "list", "batch"} => store[BucketOf(p)] = "current"
       /\ mig[p].step = "done" => \A b \in Buckets : Ready(b)
  /\ phase[p] \in {"init.publisher", "init.loadInitialData", "running"} =>
       \A b \in Buckets : Ready(b)

Progress == \A p \in Procs : Prog(p)

\* A listed row that still has its etag still says the same.
Listing(p) ==
  \A r \in mig[p].recs :
    /\ r.etag <= rows[BucketOf(p)][r.key].etag
    /\ r.etag = rows[BucketOf(p)][r.key].etag => r.val = rows[BucketOf(p)][r.key].val

Listings == \A p \in Procs : Listing(p)

\* What an instance has found or created is there.
Found(p) ==
  /\ \A x \in Loads :
       load[p][x] \in {"listNet", "createNet", "createIPbucket", "createIPs"} => x \in tags
  /\ \A x \in Loads : load[p][x] = "done" => x \in tags
  /\ \A n \in InitNets :
       load[p][n] \in {"createIPbucket", "createIPs", "done"} => nets[n] # "none"
  /\ phase[p] = "running" => tags = Loads /\ \A n \in InitNets : nets[n] # "none"

Loadings == \A p \in Procs : Found(p)

StartInv == TypeOK /\ Progress /\ Listings /\ Loadings
-----------------------------------------------------------------------------
LEMMA ModelsAre == /\ Len(Models) \in Nat \ {0}
                   /\ \A i \in 1..Len(Models) : Models[i] \in Buckets
<1>1. Models \in Seq(Buckets) /\ Models # <<>>
  BY MigrationModels
<1> QED
  BY <1>1, EmptySeq DEF Buckets

LEMMA BucketIs == ASSUME TypeOK, NEW p \in Procs PROVE BucketOf(p) \in Buckets
  BY ModelsAre DEF TypeOK, MigrationTypeOK, MigType, BucketOf
-----------------------------------------------------------------------------
(* Types.                                                                  *)

LEMMA RowTypes == NoRow \in Row /\ StoredRows \subseteq Row
<1>1. (CHOOSE x \in Vals : TRUE) \in Vals
  BY MigrationVals
<1>2. NoRow \in Row
  BY <1>1 DEF NoRow, Row
<1>3. NoRow.val \in Vals /\ 0 \in 0..1 /\ 1 \in 0..1
  BY <1>2 DEF Row
<1>4. Stored(0, TRUE) \in Row
  BY <1>3 DEF Stored, Row
<1>5. Stored(0, FALSE) \in Row
  BY <1>3 DEF Stored, Row
<1>6. Stored(1, TRUE) \in Row
  BY <1>3 DEF Stored, Row
<1> QED
  BY <1>2, <1>4, <1>5, <1>6 DEF StoredRows

LEMMA InitTypes == Init => TypeOK
<1> SUFFICES ASSUME Init PROVE TypeOK
  OBVIOUS
<1>1. MigrationTypeOK
  <2>1. store \in [Buckets -> {"missing", "old", "current"}]
    BY StartupBound DEF Init
  <2>2. rows \in [Buckets -> [Keys -> Row]]
    BY RowTypes DEF Init
  <2>3. mig \in [Procs -> MigType]
    BY ModelsAre DEF Init, NoMig, MigType, MigSteps
  <2>4. faults \in 0..MaxFaults
    BY MigrationLimits DEF Init
  <2> QED
    BY <2>1, <2>2, <2>3, <2>4 DEF MigrationTypeOK
<1> QED
  BY <1>1 DEF Init, TypeOK, NoInit, NoLoad, Phases, InitSteps, LoadSteps, NetStages

LEMMA FaultTypes == ASSUME TypeOK, UNCHANGED faults \/ Fault PROVE faults' \in 0..MaxFaults
  BY MigrationLimits DEF TypeOK, MigrationTypeOK, Fault

LEMMA GoesTypes ==
  ASSUME TypeOK, NEW p \in Procs, NEW step \in MigSteps, Goes(p, step)
  PROVE  mig' \in [Procs -> MigType]
  BY DEF TypeOK, MigrationTypeOK, Goes, MigType

LEMMA ExitTypes ==
  ASSUME TypeOK, NEW p \in Procs, NEW from, Exit(p, from), UNCHANGED <<store, rows, tags, nets>>,
         UNCHANGED faults \/ Fault
  PROVE  TypeOK'
<1>1. NoMig \in MigType /\ NoInit \in [Buckets -> InitSteps] /\ NoLoad \in [Loads -> LoadSteps]
  BY ModelsAre DEF NoMig, MigType, MigSteps, NoInit, InitSteps, NoLoad, LoadSteps
<1>2. MigrationTypeOK'
  BY <1>1, FaultTypes DEF Exit, TypeOK, MigrationTypeOK
<1> QED
  BY <1>1, <1>2 DEF Exit, Enter, TypeOK, Phases

LEMMA RowIndexed == ASSUME NEW r \in Row, NEW i \in BOOLEAN
                    PROVE  [r EXCEPT !.indexed = i] \in Row
  BY DEF Row

LEMMA MigratedTypes ==
  ASSUME TypeOK, NEW p \in Procs
  PROVE  Migrated(BucketOf(p), mig[p].recs) \in [Keys -> Row]
<1> DEFINE b == BucketOf(p)  recs == mig[p].recs
<1>1. b \in Buckets /\ recs \subseteq Listed
  BY BucketIs DEF TypeOK, MigrationTypeOK, MigType
<1> SUFFICES ASSUME NEW k \in Keys PROVE Migrated(b, recs)[k] \in Row
  BY DEF Migrated
<1>2. rows[b][k] \in Row /\ rows[b][k].etag + 1 \in Nat
  BY <1>1 DEF TypeOK, MigrationTypeOK, Row
<1>3. CASE \E r \in recs : r.key = k
  <2> DEFINE r == CHOOSE s \in recs : s.key = k
  <2>1. r \in recs
    BY <1>3
  <2>2. r.val \in Vals
    BY <1>1, <2>1 DEF Listed
  <2>3. [there |-> TRUE, v |-> 1, indexed |-> TRUE, val |-> r.val,
         etag |-> rows[b][k].etag + 1] \in Row
    BY <1>2, <2>2 DEF Row
  <2> QED
    BY <1>3, <2>3 DEF Migrated
<1>4. CASE ~ \E r \in recs : r.key = k
  BY <1>2, <1>4 DEF Migrated
<1> QED
  BY <1>3, <1>4

LEMMA MigrationTypes ==
  ASSUME TypeOK, NEW p \in Procs, MigrationStep(p)
  PROVE  MigrationTypeOK'
<1> DEFINE b == BucketOf(p)
<1>0. b \in Buckets /\ faults \in 0..MaxFaults /\ MigrationTypeOK
  BY BucketIs DEF TypeOK, MigrationTypeOK
<1>1. CASE GetBucket(p)
  <2>1. mig' \in [Procs -> MigType]
    BY <1>1, GoesTypes DEF GetBucket, Replied, MigSteps
  <2> QED
    BY <1>0, <1>1, <2>1, FaultTypes DEF GetBucket, Replied, MigrationTypeOK
<1>2. CASE UpdateBucket(p)
  <2>1. mig' \in [Procs -> MigType]
    BY <1>2, GoesTypes DEF UpdateBucket, Replied, MigSteps
  <2>2. Reschemed(b) \in [Buckets -> [Keys -> Row]]
    <3>1. \A k \in Keys : [rows[b][k] EXCEPT !.indexed = ~rows[b][k].there] \in Row
      <4> SUFFICES ASSUME NEW k \in Keys
                   PROVE [rows[b][k] EXCEPT !.indexed = ~rows[b][k].there] \in Row
        OBVIOUS
      <4>1. (~rows[b][k].there) \in BOOLEAN
        OBVIOUS
      <4>2. rows[b][k] \in Row
        BY <1>0 DEF MigrationTypeOK
      <4> QED
        BY <4>1, <4>2, RowIndexed
    <3> QED
      BY <1>0, <3>1 DEF MigrationTypeOK, Reschemed
  <2>3. store' \in [Buckets -> {"missing", "old", "current"}]
    BY <1>0, <1>2 DEF UpdateBucket, MigrationTypeOK
  <2>4. rows' \in [Buckets -> [Keys -> Row]]
    BY <1>0, <1>2, <2>2 DEF UpdateBucket, MigrationTypeOK
  <2>5. faults' \in 0..MaxFaults
    BY <1>2, FaultTypes DEF UpdateBucket, Replied
  <2> QED
    BY <2>1, <2>3, <2>4, <2>5 DEF MigrationTypeOK
<1>3. CASE Reindex(p)
  <2>1. mig' \in [Procs -> MigType]
    BY <1>3, GoesTypes DEF Reindex, Replied, MigSteps
  <2>2. \A k \in Keys : [rows[b][k] EXCEPT !.indexed = TRUE] \in Row
    BY <1>0, RowIndexed DEF MigrationTypeOK
  <2>3. rows' \in [Buckets -> [Keys -> Row]]
    <3>1. CASE UNCHANGED rows
      BY <1>0, <3>1 DEF MigrationTypeOK
    <3>2. CASE \E P \in Pages(Unindexed(b), ReindexLimit) :
              rows' = [rows EXCEPT ![b] =
                   [k \in Keys |-> IF k \in P THEN [rows[b][k] EXCEPT !.indexed = TRUE]
                                   ELSE rows[b][k]]]
      BY <1>0, <2>2, <3>2 DEF MigrationTypeOK
    <3> QED
      BY <1>3, <3>1, <3>2 DEF Reindex
  <2>4. faults' \in 0..MaxFaults
    BY <1>3, FaultTypes DEF Reindex, Replied
  <2> QED
    BY <1>0, <1>3, <2>1, <2>3, <2>4 DEF Reindex, MigrationTypeOK
<1>4. CASE ListUnmigrated(p)
  <2>1. NextBucket(p) => mig' \in [Procs -> MigType]
    <3>1. mig[p].at < Len(Models) => mig[p].at + 1 \in 1..Len(Models)
      BY <1>0, ModelsAre DEF MigrationTypeOK, MigType
    <3> QED
      BY <1>0, <3>1, GoesTypes DEF NextBucket, MigrationTypeOK, MigType, MigSteps
  <2>2. ASSUME NEW P \in Pages(Unmigrated(b), ListLimit)
        PROVE  {[key |-> k, val |-> rows[b][k].val, etag |-> rows[b][k].etag] : k \in P}
                 \subseteq Listed
    <3>1. P \subseteq Keys
      BY <2>2 DEF Pages, Unmigrated
    <3> QED
      BY <1>0, <3>1 DEF Listed, MigrationTypeOK, Row
  <2>3. mig' \in [Procs -> MigType]
    BY <1>0, <1>4, <2>1, <2>2, GoesTypes DEF ListUnmigrated, MigrationTypeOK, MigType, MigSteps
  <2> QED
    BY <1>0, <1>4, <2>3, FaultTypes DEF ListUnmigrated, MigrationTypeOK
<1>5. CASE PutBatch(p)
  <2>1. mig' \in [Procs -> MigType]
    BY <1>5, GoesTypes DEF PutBatch, Replied, AfterBatch, MigSteps
  <2>2. rows' \in [Buckets -> [Keys -> Row]]
    BY <1>0, <1>5, MigratedTypes DEF PutBatch, MigrationTypeOK
  <2>3. faults' \in 0..MaxFaults
    BY <1>5, FaultTypes DEF PutBatch, Replied, AfterBatch
  <2> QED
    BY <1>0, <1>5, <2>1, <2>2, <2>3 DEF PutBatch, MigrationTypeOK
<1> QED
  BY <1>1, <1>2, <1>3, <1>4, <1>5 DEF MigrationStep

LEMMA LoadTypes ==
  ASSUME TypeOK, NEW p \in Procs, NEW x \in Loads, NEW step \in LoadSteps, Loaded(p, x, step)
  PROVE  load' \in [Procs -> [Loads -> LoadSteps]]
  BY DEF TypeOK, Loaded

LEMMA WriteTypes ==
  ASSUME TypeOK, NEW p \in Procs, NEW n \in InitNets, NEW from \in NetStages,
         NEW stage \in NetStages, NEW step \in LoadSteps, Write(p, n, from, stage, step)
  PROVE  TypeOK'
<1>1. n \in Loads /\ "error" \in LoadSteps
  BY DEF Loads, LoadSteps
<1>2. load' \in [Procs -> [Loads -> LoadSteps]]
  BY <1>1, LoadTypes DEF Write, LoadReplied
<1>3. faults' \in 0..MaxFaults
  BY FaultTypes DEF Write, LoadReplied
<1>4. nets' \in [InitNets -> NetStages]
  BY DEF TypeOK, Write
<1> QED
  BY <1>2, <1>3, <1>4 DEF Write, TypeOK, MigrationTypeOK

LEMMA StepTypes == ASSUME TypeOK, [Next]_vars PROVE TypeOK'
<1>1. CASE UNCHANGED vars
  BY <1>1 DEF vars, migVars, TypeOK, MigrationTypeOK
<1> SUFFICES ASSUME NEW p \in Procs, Step(p) \/ ServeAny(p) \/ Stop(p) \/ Crash(p)
             PROVE  TypeOK'
  BY <1>1 DEF Next
<1>2. CASE Restart(p)
  BY <1>2 DEF Restart, Enter, TypeOK, MigrationTypeOK, migVars, Phases
<1>3. CASE ConnectMoray(p)
  BY <1>3, FaultTypes DEF ConnectMoray, Enter, TypeOK, MigrationTypeOK, Phases
<1>4. CASE \E b \in Buckets : InitGet(p, b)
  <2>1. PICK b \in Buckets : InitGet(p, b)
    BY <1>4
  <2>2. \E step \in InitSteps : Reach(p, b, step)
    BY <2>1 DEF InitGet, InitSteps
  <2>3. init' \in [Procs -> [Buckets -> InitSteps]]
    BY <2>2 DEF Reach, TypeOK
  <2>4. faults' \in 0..MaxFaults
    BY <2>1, FaultTypes DEF InitGet
  <2> QED
    BY <2>1, <2>3, <2>4 DEF InitGet, TypeOK, MigrationTypeOK
<1>5. CASE \E b \in Buckets : InitCreate(p, b)
  <2>1. PICK b \in Buckets : InitCreate(p, b)
    BY <1>5
  <2>2. init' \in [Procs -> [Buckets -> InitSteps]]
    <3>1. \E step \in InitSteps : Reach(p, b, step)
      BY <2>1 DEF InitCreate, InitSteps
    <3> QED
      BY <3>1 DEF Reach, TypeOK
  <2>3. store' \in [Buckets -> {"missing", "old", "current"}]
    BY <2>1 DEF InitCreate, TypeOK, MigrationTypeOK
  <2>4. faults' \in 0..MaxFaults
    BY <2>1, FaultTypes DEF InitCreate
  <2> QED
    BY <2>1, <2>2, <2>3, <2>4 DEF InitCreate, TypeOK, MigrationTypeOK
<1>6. CASE BucketsReady(p)
  <2>1. mig' \in [Procs -> MigType]
    BY <1>6, ModelsAre DEF BucketsReady, StartMigration, NoMig, MigType, MigSteps, TypeOK, MigrationTypeOK
  <2> QED
    BY <1>6, <2>1 DEF BucketsReady, Enter, TypeOK, MigrationTypeOK, Phases
<1>7. CASE BucketsRetry(p)
  BY <1>7 DEF BucketsRetry, NoInit, InitSteps, TypeOK, MigrationTypeOK, migVars
<1>8. CASE Migrate(p)
  BY <1>8, MigrationTypes DEF Migrate, TypeOK
<1>9. CASE MigrationsComplete(p)
  BY <1>9 DEF MigrationsComplete, Enter, TypeOK, MigrationTypeOK, migVars, Phases
<1>10. CASE MigrationsFailed(p)
  BY <1>10, ExitTypes DEF MigrationsFailed
<1>11. CASE StartPublisher(p)
  <2>1. CASE Exit(p, "init.publisher") /\ Fault
    BY <1>11, <2>1, ExitTypes DEF StartPublisher
  <2>2. CASE Enter(p, "init.publisher", "init.loadInitialData") /\ UNCHANGED <<mig, faults, init, load>>
    BY <1>11, <2>2 DEF StartPublisher, Enter, TypeOK, MigrationTypeOK, Phases
  <2> QED
    BY <1>11, <2>1, <2>2 DEF StartPublisher
<1>12. CASE Failed(p)
  BY <1>12, ExitTypes DEF Failed
<1>13. CASE Stopped(p)
  BY <1>13, ExitTypes DEF Stopped
<1>14. CASE \E x \in Loads : LoadGetTag(p, x) \/ LoadCreateTag(p, x)
  <2>1. PICK x \in Loads : LoadGetTag(p, x) \/ LoadCreateTag(p, x)
    BY <1>14
  <2>2. load' \in [Procs -> [Loads -> LoadSteps]]
    BY <2>1, LoadTypes DEF LoadGetTag, LoadCreateTag, LoadReplied, AfterTag, LoadSteps
  <2>3. faults' \in 0..MaxFaults
    BY <2>1, FaultTypes DEF LoadGetTag, LoadCreateTag, LoadReplied
  <2> QED
    BY <2>1, <2>2, <2>3 DEF LoadGetTag, LoadCreateTag, TypeOK, MigrationTypeOK
<1>15. CASE \E n \in InitNets : LoadListNet(p, n)
  <2>1. PICK n \in InitNets : LoadListNet(p, n)
    BY <1>15
  <2>2. load' \in [Procs -> [Loads -> LoadSteps]]
    BY <2>1, LoadTypes DEF LoadListNet, LoadReplied, LoadSteps, Loads
  <2>3. faults' \in 0..MaxFaults
    BY <2>1, FaultTypes DEF LoadListNet, LoadReplied
  <2> QED
    BY <2>1, <2>2, <2>3 DEF LoadListNet, TypeOK, MigrationTypeOK
<1>16. CASE \E n \in InitNets : \/ LoadCreateNet(p, n) \/ LoadCreateBucket(p, n)
                                \/ LoadCreateIPs(p, n)
  BY <1>16, WriteTypes
     DEF LoadCreateNet, LoadCreateBucket, LoadCreateIPs, NetStages, LoadSteps
<1>17. CASE LoadComplete(p)
  BY <1>17 DEF LoadComplete, AllLoaded, Enter, TypeOK, MigrationTypeOK, migVars, Phases
<1>18. CASE LoadRetry(p)
  BY <1>18 DEF LoadRetry, LoadsFailed, NoLoad, LoadSteps, TypeOK, MigrationTypeOK, migVars
<1>19. CASE ServeAny(p)
  <2>1. PICK b \in Buckets, k \in Keys, x \in Vals, there \in BOOLEAN : Serve(p, b, k, x, there)
    BY <1>19 DEF ServeAny
  <2>2. rows[b][k].etag + 1 \in Nat
    BY DEF TypeOK, MigrationTypeOK, Row
  <2>3. [there |-> there, v |-> 1, indexed |-> TRUE, val |-> x,
         etag |-> rows[b][k].etag + 1] \in Row
    BY <2>2 DEF Row
  <2> QED
    BY <2>1, <2>3 DEF Serve, TypeOK, MigrationTypeOK
<1>20. CASE Stop(p)
  BY <1>20, FaultTypes DEF Stop, Enter, TypeOK, MigrationTypeOK, Phases
<1>21. CASE Crash(p)
  BY <1>21, ExitTypes DEF Crash
<1> QED
  BY <1>2, <1>3, <1>4, <1>5, <1>6, <1>7, <1>8, <1>9, <1>10, <1>11, <1>12, <1>13, <1>14,
     <1>15, <1>16, <1>17, <1>18, <1>19, <1>20, <1>21 DEF Step, LoadStep
-----------------------------------------------------------------------------
(* A bucket that is ready stays so, whoever does what.                     *)

\* What may become of a row in a bucket that has our schema.
Better(r, s) == \/ s = r
                \/ s.v = 1 /\ s.indexed
                \/ s.there = r.there /\ s.v = r.v /\ s.indexed

Keeps(b) == store[b] = "current" =>
              store'[b] = "current" /\ \A k \in Keys : Better(rows[b][k], rows'[b][k])

LEMMA ReadyStays == ASSUME TypeOK, TypeOK', NEW b \in Buckets, Keeps(b), Ready(b) PROVE Ready(b)'
<1>1. store'[b] = "current" /\ \A k \in Keys : Better(rows[b][k], rows'[b][k])
  BY DEF Ready, Keeps
<1>2. ASSUME NEW k \in Keys, rows'[b][k].there PROVE rows'[b][k].v # 0 /\ rows'[b][k].indexed
  BY <1>1, <1>2 DEF Better, Ready, Unmigrated
<1> QED
  BY <1>1, <1>2 DEF Ready, Unmigrated

LEMMA MigrationKeeps ==
  ASSUME TypeOK, NEW p \in Procs, MigrationStep(p), NEW b \in Buckets
  PROVE  Keeps(b)
<1> SUFFICES ASSUME store[b] = "current"
             PROVE  store'[b] = "current" /\ \A k \in Keys : Better(rows[b][k], rows'[b][k])
  BY DEF Keeps
<1> DEFINE a == BucketOf(p)
<1>0. /\ a \in Buckets /\ store \in [Buckets -> {"missing", "old", "current"}]
      /\ rows \in [Buckets -> [Keys -> Row]]
  BY BucketIs DEF TypeOK, MigrationTypeOK
<1>1. CASE UNCHANGED <<store, rows>>
  BY <1>1 DEF Better
<1>2. CASE GetBucket(p) \/ ListUnmigrated(p)
  BY <1>1, <1>2 DEF GetBucket, ListUnmigrated
<1>3. CASE UpdateBucket(p)
  <2>1. CASE a = b
    BY <1>0, <1>3, <2>1 DEF UpdateBucket, Reschemed, Better
  <2>2. CASE a # b
    BY <1>0, <1>3, <2>2 DEF UpdateBucket, Reschemed, Better
  <2> QED
    BY <2>1, <2>2
<1>4. CASE Reindex(p)
  <2>1. CASE UNCHANGED rows
    BY <1>1, <1>4, <2>1 DEF Reindex
  <2>2. CASE \E P \in Pages(Unindexed(a), ReindexLimit) :
              rows' = [rows EXCEPT ![a] =
                   [k \in Keys |-> IF k \in P THEN [rows[a][k] EXCEPT !.indexed = TRUE]
                                   ELSE rows[a][k]]]
    <3>1. ASSUME NEW k \in Keys PROVE Better(rows[b][k], rows'[b][k])
      <4>1. PICK P \in Pages(Unindexed(a), ReindexLimit) :
              rows' = [rows EXCEPT ![a] =
                   [l \in Keys |-> IF l \in P THEN [rows[a][l] EXCEPT !.indexed = TRUE]
                                   ELSE rows[a][l]]]
        BY <2>2
      <4>2. \/ rows'[b][k] = rows[b][k]
            \/ a = b /\ rows'[b][k] = [rows[b][k] EXCEPT !.indexed = TRUE]
        BY <1>0, <4>1
      <4>3. rows[b][k] \in Row
        BY <1>0
      <4> QED
        BY <4>2, <4>3 DEF Better, Row
    <3> QED
      BY <1>4, <3>1 DEF Reindex
  <2> QED
    BY <1>4, <2>1, <2>2 DEF Reindex
<1>5. CASE PutBatch(p)
  <2>1. \A k \in Keys : \/ rows'[b][k] = rows[b][k]
                        \/ rows'[b][k].v = 1 /\ rows'[b][k].indexed
    BY <1>0, <1>5 DEF PutBatch, Migrated
  <2> QED
    BY <1>5, <2>1 DEF PutBatch, Better
<1> QED
  BY <1>2, <1>3, <1>4, <1>5 DEF MigrationStep

LEMMA StepKeeps == ASSUME TypeOK, [Next]_vars, NEW b \in Buckets PROVE Keeps(b)
<1>1. CASE UNCHANGED <<store, rows>>
  BY <1>1 DEF Keeps, Better
<1> SUFFICES ASSUME NEW p \in Procs, Step(p) \/ ServeAny(p) \/ Stop(p) \/ Crash(p)
             PROVE  Keeps(b)
  BY <1>1 DEF Next, vars, migVars
<1>2. CASE Migrate(p)
  BY <1>2, MigrationKeeps DEF Migrate
<1>3. CASE \E a \in Buckets : InitCreate(p, a)
  <2>1. rows' = rows /\ (store[b] = "current" => store'[b] = "current")
    BY <1>3 DEF InitCreate, TypeOK, MigrationTypeOK
  <2> QED
    BY <2>1 DEF Keeps, Better
<1>4. CASE ServeAny(p)
  <2>1. PICK a \in Buckets, k \in Keys, x \in Vals, there \in BOOLEAN : Serve(p, a, k, x, there)
    BY <1>4 DEF ServeAny
  <2>2. \A l \in Keys : \/ rows'[b][l] = rows[b][l]
                        \/ rows'[b][l].v = 1 /\ rows'[b][l].indexed
    BY <2>1 DEF Serve, TypeOK, MigrationTypeOK
  <2> QED
    BY <2>1, <2>2 DEF Serve, Keeps, Better
<1>5. CASE LoadStep(p)
  BY <1>1, <1>5 DEF LoadStep, LoadGetTag, LoadCreateTag, LoadListNet, LoadCreateNet,
     LoadCreateBucket, LoadCreateIPs, Write, LoadComplete, LoadRetry, migVars
<1>6. CASE \/ Restart(p) \/ ConnectMoray(p) \/ BucketsReady(p) \/ BucketsRetry(p)
           \/ (\E a \in Buckets : InitGet(p, a))
           \/ MigrationsComplete(p) \/ MigrationsFailed(p) \/ StartPublisher(p)
           \/ Failed(p) \/ Stopped(p) \/ Stop(p) \/ Crash(p)
  BY <1>1, <1>6 DEF Restart, ConnectMoray, BucketsReady, BucketsRetry, InitGet,
     MigrationsComplete, MigrationsFailed, StartPublisher, Failed, Stopped, Stop, Crash, migVars
<1> QED
  BY <1>2, <1>3, <1>4, <1>5, <1>6 DEF Step
-----------------------------------------------------------------------------
(* Migration before service.                                               *)

LEMMA SameProgress ==
  ASSUME TypeOK, TypeOK', [Next]_vars, NEW q \in Procs, Prog(q),
         phase'[q] = phase[q], mig'[q] = mig[q]
  PROVE  Prog(q)'
<1>1. \A b \in Buckets : (Ready(b) => Ready(b)') /\ (store[b] = "current" => store'[b] = "current")
  BY StepKeeps, ReadyStays DEF Keeps
<1>2. BucketOf(q)' = BucketOf(q) /\ BucketOf(q) \in Buckets
  BY BucketIs DEF BucketOf
<1>3. \A i \in 1..(mig[q].at - 1) : Models[i] \in Buckets
  BY ModelsAre DEF TypeOK, MigrationTypeOK, MigType
<1> QED
  BY <1>1, <1>2, <1>3 DEF Prog

\* A step of the migration leaves behind only buckets that are ready.
LEMMA MigrationProgress ==
  ASSUME TypeOK, TypeOK', NEW p \in Procs, Migrate(p), Prog(p), [Next]_vars
  PROVE  Prog(p)'
<1>0. PICK b \in Buckets : b = BucketOf(p)
  BY BucketIs
<1>1. \A c \in Buckets : (Ready(c) => Ready(c)') /\ (store[c] = "current" => store'[c] = "current")
  BY StepKeeps, ReadyStays DEF Keeps
<1>2. /\ phase[p] = "init.migrations" /\ phase'[p] = "init.migrations"
      /\ b \in Buckets /\ b = Models[mig[p].at] /\ BucketOf(p) = b
      /\ mig \in [Procs -> MigType] /\ mig[p].at \in 1..Len(Models)
      /\ store \in [Buckets -> {"missing", "old", "current"}]
  BY <1>0 DEF Migrate, TypeOK, MigrationTypeOK, MigType, BucketOf
<1>3. \A i \in 1..(mig[p].at - 1) : Models[i] \in Buckets /\ Ready(Models[i])'
  BY <1>1, <1>2, ModelsAre DEF Prog
<1>4. ASSUME mig'[p].at = mig[p].at,
             mig'[p].step \in {"reindex", "list", "batch"} => store'[b] = "current",
             mig'[p].step # "done"
      PROVE  Prog(p)'
  <2>1. BucketOf(p)' = b
    BY <1>2, <1>4 DEF BucketOf
  <2> QED
    BY <1>2, <1>3, <1>4, <2>1 DEF Prog
<1>5. CASE GetBucket(p)
  <2>1. mig'[p].at = mig[p].at /\ store' = store
    BY <1>2, <1>5 DEF GetBucket, Replied, Goes, MigType
  <2>2. mig'[p].step = (IF store[b] = "current" THEN "reindex" ELSE "updateBucket")
        \/ mig'[p].step = "error"
    BY <1>2, <1>5 DEF GetBucket, Replied, Goes, MigType
  <2> QED
    BY <1>4, <2>1, <2>2
<1>6. CASE UpdateBucket(p)
  <2>1. mig'[p].at = mig[p].at /\ mig'[p].step \in {"reindex", "error"}
    BY <1>2, <1>6 DEF UpdateBucket, Replied, Goes, MigType
  <2>2. mig'[p].step = "reindex" => store'[b] = "current"
    BY <1>2, <1>6 DEF UpdateBucket, Goes, MigType
  <2> QED
    BY <1>4, <2>1, <2>2
<1>7. CASE Reindex(p)
  <2>1. mig'[p].at = mig[p].at /\ mig'[p].step \in {"reindex", "list", "error"}
    <3>1. Goes(p, "reindex") \/ Goes(p, "list") \/ Goes(p, "error")
      BY <1>7 DEF Reindex, Replied
    <3> QED
      BY <1>2, <3>1 DEF Goes, MigType
  <2>2. store'[b] = "current"
    BY <1>1, <1>2, <1>7 DEF Reindex, At, Prog
  <2> QED
    BY <1>4, <2>1, <2>2
<1>8. CASE PutBatch(p)
  <2>1. mig'[p].at = mig[p].at /\ mig'[p].step \in {"list", "error"}
    BY <1>2, <1>8 DEF PutBatch, Replied, AfterBatch, Goes, MigType
  <2>2. store'[b] = "current"
    BY <1>1, <1>2, <1>8 DEF PutBatch, AfterBatch, At, Prog
  <2> QED
    BY <1>4, <2>1, <2>2
<1>9. CASE ListUnmigrated(p)
  <2>1. store[b] = "current" /\ store'[b] = "current"
    BY <1>1, <1>2, <1>9 DEF ListUnmigrated, At, Prog
  <2>2. CASE Unmigrated(b) = {} /\ NextBucket(p)
    <3>1. Ready(b)'
      <4>1. Ready(b)
        BY <2>1, <2>2 DEF Ready
      <4> QED
        BY <1>1, <1>2, <4>1
    <3>2. CASE mig[p].at < Len(Models)
      <4>1. mig'[p].at = mig[p].at + 1 /\ mig'[p].step = "getBucket"
        BY <1>2, <2>2, <3>2 DEF NextBucket
      <4>2. \A i \in 1..(mig'[p].at - 1) : Ready(Models[i])'
        BY <1>2, <1>3, <3>1, <4>1
      <4> QED
        BY <1>2, <4>1, <4>2 DEF Prog
    <3>3. CASE ~(mig[p].at < Len(Models))
      <4>1. mig'[p].at = mig[p].at /\ mig'[p].step = "done"
        BY <1>2, <2>2, <3>3 DEF NextBucket, Goes, MigType
      <4>2. mig[p].at = Len(Models)
        BY <1>2, <3>3, ModelsAre
      <4>3. \A c \in Buckets : Ready(c)'
        <5> SUFFICES ASSUME NEW c \in Buckets PROVE Ready(c)'
          OBVIOUS
        <5>1. PICK i \in 1..Len(Models) : c = Models[i]
          BY DEF Buckets
        <5>2. i \in 1..(mig[p].at - 1) \/ i = mig[p].at
          BY <4>2, <5>1, ModelsAre
        <5> QED
          BY <1>2, <1>3, <3>1, <5>1, <5>2
      <4> QED
        BY <1>2, <1>3, <4>1, <4>3 DEF Prog
    <3> QED
      BY <3>2, <3>3
  <2>3. CASE mig'[p].at = mig[p].at /\ mig'[p].step \in {"batch", "error"}
    BY <1>4, <2>1, <2>3
  <2>4. \/ Unmigrated(b) = {} /\ NextBucket(p)
        \/ mig'[p].at = mig[p].at /\ mig'[p].step \in {"batch", "error"}
    BY <1>2, <1>9 DEF ListUnmigrated, Goes, MigType
  <2> QED
    BY <2>2, <2>3, <2>4
<1> QED
  BY <1>5, <1>6, <1>7, <1>8, <1>9 DEF Migrate, MigrationStep

LEMMA StepProgress == ASSUME TypeOK, TypeOK', Progress, [Next]_vars PROVE Progress'
<1>1. CASE UNCHANGED vars
  BY <1>1, SameProgress DEF Progress, vars, migVars
<1> SUFFICES ASSUME NEW p \in Procs, Step(p) \/ ServeAny(p) \/ Stop(p) \/ Crash(p)
             PROVE  Progress'
  BY <1>1 DEF Next
<1>0. Prog(p) /\ phase \in [Procs -> Phases] /\ mig \in [Procs -> MigType]
  BY DEF Progress, TypeOK, MigrationTypeOK
<1>2. ASSUME Prog(p)', \A q \in Procs \ {p} : phase'[q] = phase[q] /\ mig'[q] = mig[q]
      PROVE  Progress'
  BY <1>2, SameProgress DEF Progress
<1>3. CASE phase' = phase /\ mig' = mig
  BY <1>3, SameProgress DEF Progress
<1>4. CASE Migrate(p)
  <2>1. \A q \in Procs \ {p} : phase'[q] = phase[q] /\ mig'[q] = mig[q]
    BY <1>0, <1>4 DEF Migrate, MigrationStep, GetBucket, UpdateBucket, Reindex, ListUnmigrated,
       PutBatch, Replied, AfterBatch, Goes, NextBucket
  <2> QED
    BY <1>0, <1>2, <1>4, <2>1, MigrationProgress
<1>5. ASSUME NEW from, Exit(p, from) PROVE Progress'
  <2>1. phase'[p] = "down" /\ \A q \in Procs \ {p} : phase'[q] = phase[q] /\ mig'[q] = mig[q]
    BY <1>0, <1>5 DEF Exit, Enter
  <2> QED
    BY <1>2, <2>1 DEF Prog
<1>6. ASSUME NEW from, NEW to \in {"init.moray", "init.buckets", "stopping", "failed"},
             Enter(p, from, to), mig' = mig
      PROVE  Progress'
  <2>1. phase'[p] = to /\ \A q \in Procs \ {p} : phase'[q] = phase[q] /\ mig'[q] = mig[q]
    BY <1>0, <1>6 DEF Enter
  <2> QED
    BY <1>2, <2>1 DEF Prog
<1>7. ASSUME NEW to \in {"init.publisher", "init.loadInitialData", "running"}, NEW from,
             Enter(p, from, to), mig' = mig, \A b \in Buckets : Ready(b)
      PROVE  Progress'
  <2>1. phase'[p] = to /\ \A q \in Procs \ {p} : phase'[q] = phase[q] /\ mig'[q] = mig[q]
    BY <1>0, <1>7 DEF Enter
  <2>2. \A b \in Buckets : Ready(b)'
    BY <1>7, StepKeeps, ReadyStays
  <2> QED
    BY <1>2, <2>1, <2>2 DEF Prog
<1>8. CASE Restart(p) \/ ConnectMoray(p) \/ Stop(p)
  BY <1>6, <1>8 DEF Restart, ConnectMoray, Stop, migVars
<1>9. CASE BucketsReady(p)
  <2>1. mig'[p] = [NoMig EXCEPT !.step = "getBucket"] /\ phase'[p] = "init.migrations"
    BY <1>0, <1>9 DEF BucketsReady, StartMigration, Enter
  <2>2. \A q \in Procs \ {p} : phase'[q] = phase[q] /\ mig'[q] = mig[q]
    BY <1>0, <1>9 DEF BucketsReady, StartMigration, Enter
  <2>3. mig'[p].at = 1 /\ mig'[p].step = "getBucket"
    BY <2>1 DEF NoMig
  <2> QED
    BY <1>2, <2>1, <2>2, <2>3 DEF Prog
<1>10. CASE MigrationsComplete(p)
  BY <1>0, <1>7, <1>10 DEF MigrationsComplete, Enter, At, Prog, migVars
<1>11. CASE StartPublisher(p)
  BY <1>0, <1>5, <1>7, <1>11 DEF StartPublisher, Enter, Prog
<1>12. CASE LoadComplete(p)
  BY <1>0, <1>7, <1>12 DEF LoadComplete, AllLoaded, Enter, Prog, migVars
<1>13. CASE MigrationsFailed(p) \/ Failed(p) \/ Stopped(p) \/ Crash(p)
  BY <1>5, <1>13 DEF MigrationsFailed, Failed, Stopped, Crash
<1>14. CASE \/ (\E b \in Buckets : InitGet(p, b) \/ InitCreate(p, b)) \/ BucketsRetry(p)
            \/ ServeAny(p)
  BY <1>3, <1>14 DEF InitGet, InitCreate, BucketsRetry, ServeAny, Serve, migVars
<1>15. CASE LoadStep(p)
  BY <1>3, <1>12, <1>15 DEF LoadStep, LoadGetTag, LoadCreateTag, LoadListNet, LoadCreateNet,
     LoadCreateBucket, LoadCreateIPs, Write, LoadRetry, migVars
<1> QED
  BY <1>4, <1>8, <1>9, <1>10, <1>11, <1>13, <1>14, <1>15 DEF Step
-----------------------------------------------------------------------------
(* Listed rows.                                                            *)

\* A write gives a row a new etag; without one it says what it said.
Grows(r, s) == r.etag <= s.etag /\ (r.etag = s.etag => r.val = s.val)

\* To update a schema or to reindex only changes what is indexed.
LEMMA OnlyIndexes ==
  ASSUME TypeOK, NEW b \in Buckets, NEW k \in Keys,
         NEW p \in Procs, UpdateBucket(p) \/ Reindex(p)
  PROVE  \/ rows'[b][k] = rows[b][k]
         \/ \E i \in BOOLEAN : rows'[b][k] = [rows[b][k] EXCEPT !.indexed = i]
<1>0. rows \in [Buckets -> [Keys -> Row]]
  BY DEF TypeOK, MigrationTypeOK
\* A new function for the rows of a.
<1>1. ASSUME NEW R, rows' = [rows EXCEPT ![BucketOf(p)] = R],
             \/ R[k] = rows[BucketOf(p)][k]
             \/ \E i \in BOOLEAN : R[k] = [rows[BucketOf(p)][k] EXCEPT !.indexed = i]
      PROVE  \/ rows'[b][k] = rows[b][k]
             \/ \E i \in BOOLEAN : rows'[b][k] = [rows[b][k] EXCEPT !.indexed = i]
  <2>1. CASE b = BucketOf(p)
    <3>1. rows'[b] = R
      BY <1>0, <1>1, <2>1
    <3> QED
      BY <1>1, <2>1, <3>1
  <2>2. CASE b # BucketOf(p)
    BY <1>0, <1>1, <2>2
  <2> QED
    BY <2>1, <2>2
<1>2. CASE UNCHANGED rows
  BY <1>2
<1>3. CASE UpdateBucket(p)
  <2> DEFINE N == [j \in Keys |-> ~rows[BucketOf(p)][j].there]
             R == [j \in Keys |-> [rows[BucketOf(p)][j] EXCEPT !.indexed = ~rows[BucketOf(p)][j].there]]
  <2>1. N[k] \in BOOLEAN
    BY Zenon
  <2>2. rows' = rows \/ rows' = [rows EXCEPT ![BucketOf(p)] = R]
    BY <1>3 DEF UpdateBucket, Reschemed
  <2>3. R[k] = [rows[BucketOf(p)][k] EXCEPT !.indexed = N[k]]
    BY Zenon
  <2> HIDE DEF N, R
  <2> QED
    BY <1>1, <1>2, <2>1, <2>2, <2>3
<1>4. CASE Reindex(p)
  <2>1. CASE \E P \in Pages(Unindexed(BucketOf(p)), ReindexLimit) :
               rows' = [rows EXCEPT ![BucketOf(p)] =
                 [j \in Keys |-> IF j \in P THEN [rows[BucketOf(p)][j] EXCEPT !.indexed = TRUE]
                                  ELSE rows[BucketOf(p)][j]]]
    <3>0. PICK P \in Pages(Unindexed(BucketOf(p)), ReindexLimit) :
               rows' = [rows EXCEPT ![BucketOf(p)] =
                 [j \in Keys |-> IF j \in P THEN [rows[BucketOf(p)][j] EXCEPT !.indexed = TRUE]
                                  ELSE rows[BucketOf(p)][j]]]
      BY <2>1
    <3> DEFINE R == [j \in Keys |-> IF j \in P THEN [rows[BucketOf(p)][j] EXCEPT !.indexed = TRUE]
                                    ELSE rows[BucketOf(p)][j]]
    <3>1. R[k] = rows[BucketOf(p)][k] \/ R[k] = [rows[BucketOf(p)][k] EXCEPT !.indexed = TRUE]
      OBVIOUS
    <3>2. rows' = [rows EXCEPT ![BucketOf(p)] = R]
      BY <3>0
    <3> HIDE DEF R
    <3> QED
      BY <1>1, <3>1, <3>2
  <2> QED
    BY <1>2, <1>4, <2>1 DEF Reindex
<1> QED
  BY <1>3, <1>4

LEMMA RowsGrow ==
  ASSUME TypeOK, [Next]_vars, NEW b \in Buckets, NEW k \in Keys
  PROVE  Grows(rows[b][k], rows'[b][k])
<1>0. /\ rows \in [Buckets -> [Keys -> Row]] /\ rows[b][k] \in Row
      /\ rows[b][k].etag \in Nat
  BY DEF TypeOK, MigrationTypeOK, Row
<1>1. CASE rows'[b][k] = rows[b][k]
  BY <1>0, <1>1 DEF Grows
<1>2. ASSUME NEW i \in BOOLEAN, rows'[b][k] = [rows[b][k] EXCEPT !.indexed = i]
      PROVE  Grows(rows[b][k], rows'[b][k])
  BY <1>0, <1>2 DEF Grows, Row
<1>3. ASSUME rows'[b][k].etag = rows[b][k].etag + 1 PROVE Grows(rows[b][k], rows'[b][k])
  BY <1>0, <1>3 DEF Grows
<1> SUFFICES ASSUME NEW p \in Procs, Step(p) \/ ServeAny(p) \/ Stop(p) \/ Crash(p)
             PROVE  Grows(rows[b][k], rows'[b][k])
  BY <1>1 DEF Next, vars, migVars
<1>4. CASE Migrate(p)
  <2>1. PICK a \in Buckets : a = BucketOf(p)
    BY BucketIs
  <2>2. CASE UNCHANGED rows
    BY <1>1, <2>2
  <2>3. CASE UpdateBucket(p) \/ Reindex(p)
    BY <1>1, <1>2, <2>3, OnlyIndexes
  <2>5. CASE PutBatch(p)
    <3>1. rows'[b][k] = rows[b][k] \/ rows'[b][k].etag = rows[b][k].etag + 1
      BY <1>0, <2>1, <2>5 DEF PutBatch, Migrated
    <3> QED
      BY <1>1, <1>3, <3>1
  <2> QED
    BY <1>4, <2>2, <2>3, <2>5 DEF Migrate, MigrationStep, GetBucket, ListUnmigrated
<1>5. CASE ServeAny(p)
  <2>1. PICK a \in Buckets, l \in Keys, x \in Vals, there \in BOOLEAN : Serve(p, a, l, x, there)
    BY <1>5 DEF ServeAny
  <2>2. rows'[b][k] = rows[b][k] \/ rows'[b][k].etag = rows[b][k].etag + 1
    BY <1>0, <2>1 DEF Serve
  <2> QED
    BY <1>1, <1>3, <2>2
<1>6. CASE LoadStep(p)
  BY <1>1, <1>6 DEF LoadStep, LoadGetTag, LoadCreateTag, LoadListNet, LoadCreateNet,
     LoadCreateBucket, LoadCreateIPs, Write, LoadComplete, LoadRetry, migVars
<1>7. CASE \/ Restart(p) \/ ConnectMoray(p) \/ BucketsReady(p) \/ BucketsRetry(p)
           \/ (\E a \in Buckets : InitGet(p, a) \/ InitCreate(p, a))
           \/ MigrationsComplete(p) \/ MigrationsFailed(p) \/ StartPublisher(p)
           \/ Failed(p) \/ Stopped(p) \/ Stop(p) \/ Crash(p)
  BY <1>1, <1>7 DEF Restart, ConnectMoray, BucketsReady, BucketsRetry, InitGet, InitCreate,
     MigrationsComplete, MigrationsFailed, StartPublisher, Failed, Stopped, Stop, Crash, migVars
<1> QED
  BY <1>4, <1>5, <1>6, <1>7 DEF Step

LEMMA SameListing ==
  ASSUME TypeOK, TypeOK', [Next]_vars, NEW q \in Procs, Listing(q), mig'[q] = mig[q]
  PROVE  Listing(q)'
<1>1. PICK b \in Buckets : b = BucketOf(q)
  BY BucketIs
<1>2. BucketOf(q)' = b
  BY <1>1 DEF BucketOf
<1> SUFFICES ASSUME NEW r \in mig[q].recs
             PROVE  /\ r.etag <= rows'[b][r.key].etag
                    /\ r.etag = rows'[b][r.key].etag => r.val = rows'[b][r.key].val
  BY <1>2 DEF Listing
<1>3. r.key \in Keys /\ r.etag \in Nat
  BY DEF TypeOK, MigrationTypeOK, MigType, Listed
<1>4. Grows(rows[b][r.key], rows'[b][r.key])
  BY <1>3, RowsGrow
<1>5. rows[b][r.key].etag \in Nat /\ rows'[b][r.key].etag \in Nat
  BY <1>3 DEF TypeOK, MigrationTypeOK, Row
<1> QED
  BY <1>1, <1>3, <1>4, <1>5 DEF Grows, Listing

LEMMA StepListings == ASSUME TypeOK, TypeOK', Listings, [Next]_vars PROVE Listings'
<1>1. CASE mig' = mig
  BY <1>1, SameListing DEF Listings
<1> SUFFICES ASSUME NEW p \in Procs, Step(p) \/ ServeAny(p) \/ Stop(p) \/ Crash(p)
             PROVE  Listings'
  BY <1>1 DEF Next, vars, migVars
<1>0. mig \in [Procs -> MigType]
  BY DEF TypeOK, MigrationTypeOK
<1>2. ASSUME Listing(p)', \A q \in Procs \ {p} : mig'[q] = mig[q] PROVE Listings'
  BY <1>2, SameListing DEF Listings
<1>3. ASSUME mig'[p].recs = {}, \A q \in Procs \ {p} : mig'[q] = mig[q] PROVE Listings'
  BY <1>2, <1>3 DEF Listing
<1>4. ASSUME NEW from, Exit(p, from) PROVE Listings'
  BY <1>0, <1>3, <1>4 DEF Exit, NoMig
<1>5. ASSUME NEW step, Goes(p, step) PROVE Listings'
  BY <1>0, <1>3, <1>5 DEF Goes, MigType
<1>6. CASE Migrate(p)
  <2>1. CASE GetBucket(p) \/ UpdateBucket(p) \/ Reindex(p) \/ PutBatch(p)
    BY <1>5, <2>1 DEF GetBucket, UpdateBucket, Reindex, PutBatch, Replied, AfterBatch
  <2>2. CASE ListUnmigrated(p)
    <3>1. PICK b \in Buckets : b = BucketOf(p)
      BY BucketIs
    <3>2. CASE NextBucket(p)
      <4>1. CASE Goes(p, "done")
        BY <1>5, <4>1
      <4>2. CASE mig' = [mig EXCEPT ![p] = [at |-> mig[p].at + 1, step |-> "getBucket",
                                             recs |-> {}]]
        <5>1. mig'[p].recs = {} /\ \A q \in Procs \ {p} : mig'[q] = mig[q]
          BY <1>0, <4>2
        <5> QED
          BY <1>3, <5>1
      <4> QED
        BY <3>2, <4>1, <4>2 DEF NextBucket
    <3>3. ASSUME NEW P \in Pages(Unmigrated(b), ListLimit),
                 rows' = rows,
                 mig' = [mig EXCEPT ![p].step = "batch",
                   ![p].recs = {[key |-> k, val |-> rows[b][k].val,
                                 etag |-> rows[b][k].etag] : k \in P}]
          PROVE  Listings'
      <4>1. mig'[p].recs = {[key |-> k, val |-> rows[b][k].val,
                             etag |-> rows[b][k].etag] : k \in P}
            /\ mig'[p].at = mig[p].at /\ \A q \in Procs \ {p} : mig'[q] = mig[q]
        BY <1>0, <3>3 DEF MigType
      <4>2. BucketOf(p)' = b
        BY <3>1, <4>1 DEF BucketOf
      <4>3. P \subseteq Keys
        BY DEF Pages, Unmigrated
      <4>4. \A k \in Keys : rows[b][k].etag \in Nat
        BY DEF TypeOK, MigrationTypeOK, Row
      <4>5. Listing(p)'
        <5> SUFFICES ASSUME NEW r \in mig'[p].recs
                     PROVE  /\ r.etag <= rows[b][r.key].etag
                            /\ r.etag = rows[b][r.key].etag => r.val = rows[b][r.key].val
          BY <3>3, <4>2 DEF Listing
        <5>1. PICK k \in P : r = [key |-> k, val |-> rows[b][k].val,
                                  etag |-> rows[b][k].etag]
          BY <4>1
        <5>2. r.key = k /\ r.val = rows[b][k].val /\ r.etag = rows[b][k].etag
          BY <5>1
        <5> QED
          BY <4>3, <4>4, <5>2
      <4> QED
        BY <1>2, <4>1, <4>5
    <3> QED
      BY <1>5, <2>2, <3>1, <3>2, <3>3 DEF ListUnmigrated
  <2> QED
    BY <1>6, <2>1, <2>2 DEF Migrate, MigrationStep
<1>7. CASE BucketsReady(p)
  BY <1>0, <1>3, <1>7 DEF BucketsReady, StartMigration, NoMig
<1>8. CASE MigrationsFailed(p) \/ Failed(p) \/ Stopped(p) \/ Crash(p) \/ StartPublisher(p)
  BY <1>1, <1>4, <1>8 DEF MigrationsFailed, Failed, Stopped, Crash, StartPublisher
<1>9. CASE \/ Restart(p) \/ ConnectMoray(p) \/ BucketsRetry(p) \/ MigrationsComplete(p)
           \/ (\E b \in Buckets : InitGet(p, b) \/ InitCreate(p, b))
           \/ ServeAny(p) \/ Stop(p)
  BY <1>1, <1>9 DEF Restart, ConnectMoray, BucketsRetry, MigrationsComplete, InitGet,
     InitCreate, ServeAny, Serve, Stop, migVars
<1>10. CASE LoadStep(p)
  BY <1>1, <1>10 DEF LoadStep, LoadGetTag, LoadCreateTag, LoadListNet, LoadCreateNet,
     LoadCreateBucket, LoadCreateIPs, Write, LoadComplete, LoadRetry, migVars
<1> QED
  BY <1>6, <1>7, <1>8, <1>9, <1>10 DEF Step
-----------------------------------------------------------------------------
(* Initial tags and networks.                                              *)

LEMMA StepFound == ASSUME TypeOK, TypeOK', Loadings, [Next]_vars PROVE Loadings'
<1>0. /\ load \in [Procs -> [Loads -> LoadSteps]] /\ phase \in [Procs -> Phases]
      /\ nets \in [InitNets -> NetStages] /\ InitNets \subseteq Loads
  BY DEF TypeOK, Loads
\* What exists stays; only one that loads needs a closer look.
<1>1. ASSUME NEW q \in Procs, load'[q] = load[q], tags \subseteq tags',
             \A n \in InitNets : nets[n] # "none" => nets'[n] # "none",
             phase'[q] = "running" => phase[q] = "running"
      PROVE  Found(q)'
  <2>1. Found(q)
    BY DEF Loadings
  <2>2. tags' \subseteq Loads
    BY DEF TypeOK
  <2> QED
    BY <1>1, <2>1, <2>2 DEF Found
<1>2. CASE load' = load /\ tags' = tags /\ nets' = nets
           /\ \A q \in Procs : phase'[q] = "running" => phase[q] = "running"
  BY <1>1, <1>2 DEF Loadings
<1>3. CASE UNCHANGED vars
  BY <1>2, <1>3 DEF vars
<1> SUFFICES ASSUME NEW p \in Procs, Step(p) \/ ServeAny(p) \/ Stop(p) \/ Crash(p)
             PROVE  Loadings'
  BY <1>3 DEF Next
\* p loads x; the other instances are where they were.
<1>4. ASSUME NEW x \in Loads, NEW step, Loaded(p, x, step), phase' = phase,
             phase[p] # "running", tags \subseteq tags',
             \A n \in InitNets : nets[n] # "none" => nets'[n] # "none",
             step \in {"listNet", "createNet", "createIPbucket", "createIPs", "done"}
                => x \in tags',
             x \in InitNets /\ step \in {"createIPbucket", "createIPs", "done"}
                => nets'[x] # "none"
      PROVE  Loadings'
  <2>1. load'[p][x] = step /\ (\A y \in Loads \ {x} : load'[p][y] = load[p][y])
        /\ \A q \in Procs \ {p} : load'[q] = load[q]
    BY <1>0, <1>4 DEF Loaded
  <2>2. Found(p)
    BY DEF Loadings
  <2>3. Found(p)'
    <3>1. \A y \in Loads : load'[p][y] \in
             {"listNet", "createNet", "createIPbucket", "createIPs", "done"} => y \in tags'
      BY <1>4, <2>1, <2>2 DEF Found
    <3>2. \A n \in InitNets : load'[p][n] \in
             {"createIPbucket", "createIPs", "done"} => nets'[n] # "none"
      BY <1>0, <1>4, <2>1, <2>2 DEF Found
    <3> QED
      BY <1>4, <3>1, <3>2 DEF Found
  <2> QED
    BY <1>1, <1>4, <2>1, <2>3 DEF Loadings
<1>5. ASSUME NEW from, Exit(p, from), tags' = tags, nets' = nets PROVE Loadings'
  <2>1. phase'[p] = "down" /\ (\A x \in Loads : load'[p][x] = "getTag")
        /\ \A q \in Procs \ {p} : load'[q] = load[q] /\ phase'[q] = phase[q]
    BY <1>0, <1>5 DEF Exit, Enter, NoLoad
  <2>2. Found(p)'
    BY <1>0, <2>1 DEF Found
  <2> QED
    BY <1>1, <1>5, <2>1, <2>2 DEF Loadings
<1>6. ASSUME NEW from, NEW to, Enter(p, from, to), to # "running"
      PROVE  \A q \in Procs : phase'[q] = "running" => phase[q] = "running"
  BY <1>0, <1>6 DEF Enter
<1>7. CASE Restart(p) \/ ConnectMoray(p) \/ BucketsReady(p) \/ MigrationsComplete(p)
           \/ Stop(p)
  BY <1>2, <1>6, <1>7 DEF Restart, ConnectMoray, BucketsReady, MigrationsComplete, Stop, migVars
<1>8. CASE StartPublisher(p)
  BY <1>2, <1>5, <1>6, <1>8 DEF StartPublisher
<1>9. CASE MigrationsFailed(p) \/ Failed(p) \/ Stopped(p) \/ Crash(p)
  BY <1>5, <1>9 DEF MigrationsFailed, Failed, Stopped, Crash
<1>10. CASE \/ (\E b \in Buckets : InitGet(p, b) \/ InitCreate(p, b)) \/ BucketsRetry(p)
            \/ Migrate(p) \/ ServeAny(p)
  BY <1>2, <1>10 DEF InitGet, InitCreate, BucketsRetry, Migrate, ServeAny, Serve, migVars
<1>11. CASE LoadComplete(p)
  <2>1. Found(p)
    BY DEF Loadings
  <2>2. tags = Loads /\ \A n \in InitNets : nets[n] # "none"
    BY <1>0, <1>11, <2>1 DEF LoadComplete, AllLoaded, Found, TypeOK
  <2>3. load' = load /\ tags' = tags /\ nets' = nets
    BY <1>11 DEF LoadComplete, AllLoaded
  <2>4. Found(p)'
    BY <2>1, <2>2, <2>3 DEF Found
  <2>5. \A q \in Procs \ {p} : phase'[q] = phase[q]
    BY <1>0, <1>11 DEF LoadComplete, Enter
  <2> QED
    BY <1>1, <2>3, <2>4, <2>5 DEF Loadings
<1>12. CASE LoadRetry(p)
  <2>1. (\A x \in Loads : load'[p][x] = "getTag") /\ phase' = phase /\ tags' = tags
        /\ nets' = nets /\ phase[p] # "running"
        /\ \A q \in Procs \ {p} : load'[q] = load[q]
    BY <1>0, <1>12 DEF LoadRetry, NoLoad
  <2>2. Found(p)'
    BY <1>0, <2>1 DEF Found
  <2> QED
    BY <1>1, <2>1, <2>2 DEF Loadings
<1>13. ASSUME NEW x \in Loads, LoadGetTag(p, x) \/ LoadCreateTag(p, x) PROVE Loadings'
  <2>1. phase' = phase /\ nets' = nets /\ phase[p] # "running" /\ tags \subseteq tags'
    BY <1>13 DEF LoadGetTag, LoadCreateTag, Loading
  <2>2. CASE x = Overlay
    BY <1>4, <1>13, <2>1, <2>2, StartupNames
       DEF LoadGetTag, LoadCreateTag, LoadReplied, AfterTag
  <2>3. CASE x # Overlay
    BY <1>4, <1>13, <2>1, <2>3 DEF LoadGetTag, LoadCreateTag, LoadReplied, AfterTag
  <2> QED
    BY <2>2, <2>3
<1>14. ASSUME NEW n \in InitNets, NEW from \in NetStages, NEW stage \in {"row", "bucket", "whole"},
              NEW step \in {"createIPbucket", "createIPs", "done"}, Write(p, n, from, stage, step),
              n \in tags, phase[p] # "running"
       PROVE  Loadings'
  <2>1. phase' = phase /\ tags' = tags
        /\ \A m \in InitNets : nets[m] # "none" => nets'[m] # "none"
    BY <1>0, <1>14 DEF Write
  <2>2. CASE Loaded(p, n, "error")
    BY <1>0, <1>4, <1>14, <2>1, <2>2
  <2>3. CASE nets' = [nets EXCEPT ![n] = stage] /\ Loaded(p, n, step)
    <3>1. nets'[n] # "none"
      BY <1>0, <1>14, <2>3
    <3> QED
      BY <1>0, <1>4, <1>14, <2>1, <2>3, <3>1
  <2> QED
    BY <1>14, <2>2, <2>3 DEF Write, LoadReplied
<1>15. ASSUME NEW n \in InitNets,
              \/ LoadListNet(p, n) \/ LoadCreateNet(p, n)
              \/ LoadCreateBucket(p, n) \/ LoadCreateIPs(p, n)
       PROVE  Loadings'
  <2>1. n \in tags /\ phase[p] # "running"
    BY <1>0, <1>15 DEF LoadListNet, LoadCreateNet, LoadCreateBucket, LoadCreateIPs, Loading,
       Loadings, Found
  <2>2. CASE LoadListNet(p, n)
    <3>1. phase' = phase /\ tags' = tags /\ nets' = nets
      BY <2>2 DEF LoadListNet
    <3>2. PICK step \in {"createNet", "done", "error"} :
             Loaded(p, n, step) /\ (step = "done" => nets[n] # "none")
      BY <2>2 DEF LoadListNet, LoadReplied
    <3> QED
      BY <1>0, <1>4, <2>1, <3>1, <3>2
  <2>3. CASE LoadCreateNet(p, n) \/ LoadCreateBucket(p, n) \/ LoadCreateIPs(p, n)
    BY <1>14, <2>1, <2>3 DEF LoadCreateNet, LoadCreateBucket, LoadCreateIPs, NetStages
  <2> QED
    BY <1>15, <2>2, <2>3
<1> QED
  BY <1>7, <1>8, <1>9, <1>10, <1>11, <1>12, <1>13, <1>15 DEF Step, LoadStep
-----------------------------------------------------------------------------
(* Theorems.                                                               *)

LEMMA InitInv == Init => StartInv
<1> SUFFICES ASSUME Init PROVE StartInv
  OBVIOUS
<1>1. TypeOK
  BY InitTypes
<1>2. Progress
  BY DEF Init, Progress, Prog
<1>3. Listings
  BY DEF Init, Listings, Listing, NoMig
<1>4. Loadings
  BY DEF Init, Loadings, Found, NoLoad, Loads
<1> QED
  BY <1>1, <1>2, <1>3, <1>4 DEF StartInv

LEMMA StepInv == StartInv /\ [Next]_vars => StartInv'
  BY StepTypes, StepProgress, StepListings, StepFound DEF StartInv

LEMMA StartInvariant == Spec => []StartInv
<1> QED
  BY InitInv, StepInv, PTL DEF Spec

\* The variables of the process, the buckets and the migration keep their types.
THEOREM StartupTypes == Spec => []TypeOK
<1>1. StartInv => TypeOK
  BY DEF StartInv
<1> QED
  BY <1>1, StartInvariant, PTL

\* However many instances start, stop and migrate at once, one that serves has
\* every bucket at the schema and every row at the version of the code.
THEOREM ServesMigrated == Spec => []ReadyMeansMigrated
<1>1. StartInv => ReadyMeansMigrated
  BY DEF StartInv, Progress, Prog, Ready, ReadyMeansMigrated
<1> QED
  BY <1>1, StartInvariant, PTL

\* One that serves has its initial tags and a row for each initial network.
THEOREM ServesLoaded == Spec => []ReadyMeansLoaded
<1>1. StartInv => ReadyMeansLoaded
  BY DEF StartInv, Loadings, Found, ReadyMeansLoaded
<1> QED
  BY <1>1, StartInvariant, PTL

\* What a row says and whether it is there, a migration step leaves alone.
LEMMA MigrationKeepsRow ==
  ASSUME StartInv, NEW p \in Procs, Migrate(p), NEW b \in Buckets, NEW k \in Keys
  PROVE  rows'[b][k].val = rows[b][k].val /\ rows'[b][k].there = rows[b][k].there
<1>0. rows \in [Buckets -> [Keys -> Row]] /\ rows[b][k] \in Row
  BY DEF StartInv, TypeOK, MigrationTypeOK
<1>1. PICK a \in Buckets : a = BucketOf(p)
  BY BucketIs DEF StartInv
<1>2. CASE rows'[b][k] = rows[b][k]
  BY <1>2
<1>3. ASSUME NEW i, rows'[b][k] = [rows[b][k] EXCEPT !.indexed = i]
      PROVE  rows'[b][k].val = rows[b][k].val /\ rows'[b][k].there = rows[b][k].there
  BY <1>0, <1>3 DEF Row
<1>4. CASE UNCHANGED rows
  BY <1>2, <1>4
<1>5. CASE UpdateBucket(p) \/ Reindex(p)
  BY <1>2, <1>3, <1>5, OnlyIndexes DEF StartInv
<1>7. CASE PutBatch(p)
  <2>1. CASE UNCHANGED rows
    BY <1>4, <2>1
  <2>2. CASE Current(a, mig[p].recs) /\ rows' = [rows EXCEPT ![a] = Migrated(a, mig[p].recs)]
    <3>1. CASE b = a /\ \E r \in mig[p].recs : r.key = k
      <4>1. PICK r \in mig[p].recs :
              r = (CHOOSE s \in mig[p].recs : s.key = k) /\ r.key = k
        BY <3>1
      <4>2. rows[b][k].there /\ r.etag = rows[b][k].etag
        BY <2>2, <3>1, <4>1 DEF Current
      <4>3. r.val = rows[b][k].val
        BY <1>1, <3>1, <4>1, <4>2 DEF StartInv, Listings, Listing
      <4>4. rows'[b][k] = Migrated(a, mig[p].recs)[k]
        BY <1>0, <2>2, <3>1
      <4>5. rows'[b][k].val = r.val /\ rows'[b][k].there = TRUE
        BY <3>1, <4>1, <4>4 DEF Migrated
      <4> QED
        BY <1>0, <4>2, <4>3, <4>5 DEF Row
    <3>2. CASE b # a \/ ~\E r \in mig[p].recs : r.key = k
      BY <1>0, <1>2, <2>2, <3>2 DEF Migrated
    <3> QED
      BY <3>1, <3>2
  <2> QED
    BY <1>1, <1>7, <2>1, <2>2 DEF PutBatch
<1> QED
  BY <1>4, <1>5, <1>7 DEF Migrate, MigrationStep, GetBucket, ListUnmigrated

\* Migrating while requests of another instance write the same rows, a
\* migration overwrites none of them and brings no deleted row back.
THEOREM RecordsKept == Spec => MigrationKeepsRecords
<1>1. StartInv /\ [Next]_vars =>
        [(\E p \in Procs : Migrate(p)) =>
           \A b \in Buckets, k \in Keys : /\ rows'[b][k].val = rows[b][k].val
                                          /\ rows'[b][k].there = rows[b][k].there]_vars
  BY MigrationKeepsRow
<1> QED
  BY <1>1, StartInvariant, PTL DEF Spec, MigrationKeepsRecords
=============================================================================
