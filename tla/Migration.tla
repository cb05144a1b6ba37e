----------------------------- MODULE Migration -----------------------------
(***************************************************************************)
(* How an instance of napi brings the records of its versioned buckets to  *)
(* the version of its code: lib/migrate.js, one call to Moray at a time.   *)
(* For each bucket in turn the schema is updated, the rows are reindexed   *)
(* and rows of an older version are written anew in batches, each put with *)
(* the etag of the row as listed.  Another instance that already serves    *)
(* requests may write the same rows meanwhile, and any call may fail or    *)
(* lose its reply.                                                         *)
(*                                                                         *)
(* The module has no Next of its own: NapiStartup composes its actions.    *)
(***************************************************************************)
EXTENDS Integers, Sequences, FiniteSets

CONSTANTS
  Procs,        \* instances of napi
  Models,       \* the versioned buckets of models.models, in their order
  Keys,         \* keys of rows
  Vals,         \* what rows hold, besides their version
  ListLimit,    \* rows of one page of listObjs
  ReindexLimit, \* count of reindexObjects
  MaxFaults     \* bound: calls that fail or lose their reply, and stops

Buckets == {Models[i] : i \in 1..Len(Models)}

ASSUME MigrationModels == Models \in Seq(Buckets) /\ Models # <<>>
ASSUME MigrationVals == Vals # {}
ASSUME MigrationLimits ==
  ListLimit \in Nat \ {0} /\ ReindexLimit \in Nat \ {0} /\ MaxFaults \in Nat

VARIABLES
  store,   \* bucket -> not there, at the schema of an older napi, or at ours
  rows,    \* bucket -> key -> row
  mig,     \* instance -> where its migration is
  faults   \* faults so far

migVars == <<store, rows, mig, faults>>

\* v 1: the version this code writes; 0: any older one, or none.  A row that
\* is not indexed has no value yet in the columns the new schema added.
Row == [there : BOOLEAN, v : 0..1, indexed : BOOLEAN, val : Vals, etag : Nat]

MigSteps == {"idle", "getBucket", "updateBucket", "reindex", "list", "batch",
             "done", "error"}

\* A row as listed, with its etag.
Listed == [key : Keys, val : Vals, etag : Nat]

MigType == [at : 1..Len(Models), step : MigSteps, recs : SUBSET Listed]
NoMig   == [at |-> 1, step |-> "idle", recs |-> {}]

MigrationTypeOK ==
  /\ store \in [Buckets -> {"missing", "old", "current"}]
  /\ rows \in [Buckets -> [Keys -> Row]]
  /\ mig \in [Procs -> MigType]
  /\ faults \in 0..MaxFaults
-----------------------------------------------------------------------------
Fault == faults < MaxFaults /\ faults' = faults + 1

At(p, step)   == mig[p].step = step
BucketOf(p)   == Models[mig[p].at]
Goes(p, step) == mig' = [mig EXCEPT ![p].step = step, ![p].recs = {}]

\* The reply to a call: the next step, or an error that ends the migration.
Replied(p, step) == \/ Goes(p, step) /\ UNCHANGED faults
                    \/ Goes(p, "error") /\ Fault

\* Rows a page may hold: all that fit, any of them if they do not.
Pages(S, limit) == {P \in SUBSET S : /\ Cardinality(P) <= limit
                                     /\ P = {} => S = {}}

Unindexed(b) == {k \in Keys : rows[b][k].there /\ ~rows[b][k].indexed}

\* What (|(!(v=*))(v<=...)) finds: it looks at the column, which a row that is
\* not indexed does not have.
Unmigrated(b) ==
  {k \in Keys : rows[b][k].there /\ (rows[b][k].v = 0 \/ ~rows[b][k].indexed)}
-----------------------------------------------------------------------------
StartMigration(p) == mig' = [mig EXCEPT ![p] = [NoMig EXCEPT !.step = "getBucket"]]

GetBucket(p) ==
  /\ At(p, "getBucket")
  /\ Replied(p, IF store[BucketOf(p)] = "current" THEN "reindex" ELSE "updateBucket")
  /\ UNCHANGED <<store, rows>>

\* The columns a new schema adds are empty until the rows are reindexed; to
\* put the schema a bucket already has adds none.
Reschemed(b) ==
  IF store[b] = "current" THEN rows
  ELSE [rows EXCEPT ![b] = [k \in Keys |-> [rows[b][k] EXCEPT !.indexed = ~rows[b][k].there]]]

UpdateBucket(p) ==
  LET b == BucketOf(p)
  IN  /\ At(p, "updateBucket")
      /\ \/ /\ store' = [store EXCEPT ![b] = "current"]
            /\ rows' = Reschemed(b)
            /\ Replied(p, "reindex")
         \/ Goes(p, "error") /\ Fault /\ UNCHANGED <<store, rows>>

\* Repeated until a call processes no row.
Reindex(p) ==
  LET b == BucketOf(p)
  IN  /\ At(p, "reindex")
      /\ \/ \E P \in Pages(Unindexed(b), ReindexLimit) :
              /\ rows' = [rows EXCEPT ![b] =
                   [k \in Keys |-> IF k \in P THEN [rows[b][k] EXCEPT !.indexed = TRUE]
                                   ELSE rows[b][k]]]
              /\ Replied(p, IF P = {} THEN "list" ELSE "reindex")
         \/ Goes(p, "error") /\ Fault /\ UNCHANGED rows
      /\ UNCHANGED store

\* Mutant: one bucket too many.
NextBucketTooFar(p) ==
  IF mig[p].at <= Len(Models)
  THEN mig' = [mig EXCEPT ![p] = [at |-> @.at + 1, step |-> "getBucket", recs |-> {}]]
  ELSE Goes(p, "done")

\* After the last batch of a bucket comes the next bucket.
NextBucket(p) ==
  IF mig[p].at < Len(Models)
  THEN mig' = [mig EXCEPT ![p] = [at |-> @.at + 1, step |-> "getBucket", recs |-> {}]]
  ELSE Goes(p, "done")

ListUnmigrated(p) ==
  LET b == BucketOf(p)
  IN  /\ At(p, "list")
      /\ \/ Unmigrated(b) = {} /\ NextBucket(p) /\ UNCHANGED faults
         \/ \E P \in Pages(Unmigrated(b), ListLimit) :
              /\ P # {}
              /\ mig' = [mig EXCEPT ![p].step = "batch",
                   ![p].recs = {[key |-> k, val |-> rows[b][k].val,
                                 etag |-> rows[b][k].etag] : k \in P}]
              /\ UNCHANGED faults
         \/ Goes(p, "error") /\ Fault
      /\ UNCHANGED <<store, rows>>

\* Mutant: the batch has no etags.
AnyRows(b, recs) == TRUE

\* The batch of a page is all or nothing: every row still as listed.
Current(b, recs) == \A r \in recs : rows[b][r.key].there /\ rows[b][r.key].etag = r.etag

\* What the constructor and raw() make of a listed row.
Migrated(b, recs) ==
  [k \in Keys |->
     IF \E r \in recs : r.key = k
     THEN [there |-> TRUE, v |-> 1, indexed |-> TRUE,
           val |-> (CHOOSE r \in recs : r.key = k).val, etag |-> rows[b][k].etag + 1]
     ELSE rows[b][k]]

\* Mutant: a page that was written is taken for the last.
AfterPage(p) == IF mig[p].at < Len(Models) THEN "reindex" ELSE "done"

\* What a page left over is listed next.
AfterBatch(p) == "list"

\* On a conflict the rows are listed again.
PutBatch(p) ==
  LET b == BucketOf(p)
  IN  /\ At(p, "batch")
      /\ \/ /\ Current(b, mig[p].recs)
            /\ rows' = [rows EXCEPT ![b] = Migrated(b, mig[p].recs)]
            /\ Replied(p, AfterBatch(p))
         \/ ~Current(b, mig[p].recs) /\ Goes(p, "list") /\ UNCHANGED <<rows, faults>>
         \/ Goes(p, "error") /\ Fault /\ UNCHANGED rows
      /\ UNCHANGED store

MigrationStep(p) ==
  \/ GetBucket(p) \/ UpdateBucket(p) \/ Reindex(p)
  \/ ListUnmigrated(p) \/ PutBatch(p)
=============================================================================
