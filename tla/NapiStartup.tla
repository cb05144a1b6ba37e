---------------------------- MODULE NapiStartup ----------------------------
(***************************************************************************)
(* Instances of napi from their start to serving requests: the state       *)
(* machine of lib/napi.js, the buckets of models.init, the migration of    *)
(* their rows (module Migration) and the NIC tags and networks of the      *)
(* configuration file, lib/init.js.  An instance may stop between any two  *)
(* calls to Moray and is then started again by SMF; a second instance may  *)
(* do the same at the same time, or serve requests already.                *)
(***************************************************************************)
EXTENDS Migration

CONSTANTS
  InitNets,   \* initialNetworks of the configuration, each with a tag of its name
  Overlay,    \* OVERLAY_TAG
  StartSchemas, \* schemas of buckets at the start
  Served,     \* bound: keys of rows that requests write
  MaxEtag     \* bound: a row is no longer written by requests from this etag on

Loads == InitNets \cup {Overlay}
ASSUME StartupNames == Overlay \notin InitNets
ASSUME StartupBound == MaxEtag \in Nat /\ StartSchemas \subseteq {"missing", "old", "current"}

VARIABLES
  phase,   \* instance -> state of the machine, or down: no process
  init,    \* instance -> bucket -> what models.init has done for it
  load,    \* instance -> what loadInitialData has done for each tag or network
  tags,    \* napi_nic_tags: the initial tags that exist
  nets     \* initial network -> which of its three writes are done

vars == <<migVars, phase, init, load, tags, nets>>

Phases == {"down", "init.moray", "init.buckets", "init.migrations", "init.publisher",
           "init.loadInitialData", "running", "stopping", "failed"}

InitSteps == {"get", "create", "done", "error"}
LoadSteps == {"getTag", "createTag", "listNet", "createNet", "createIPbucket",
              "createIPs", "done", "error"}
NetStages == {"none", "row", "bucket", "whole"}

TypeOK ==
  /\ MigrationTypeOK
  /\ phase \in [Procs -> Phases]
  /\ init \in [Procs -> [Buckets -> InitSteps]]
  /\ load \in [Procs -> [Loads -> LoadSteps]]
  /\ tags \subseteq Loads
  /\ nets \in [InitNets -> NetStages]

\* Rows a bucket may hold at the start.  One at the current schema may have
\* been left half way through its migration.
NoRow == [there |-> FALSE, v |-> 1, indexed |-> TRUE, val |-> CHOOSE x \in Vals : TRUE, etag |-> 0]
Stored(v, indexed) ==
  [there |-> TRUE, v |-> v, indexed |-> indexed, val |-> NoRow.val, etag |-> 0]
StoredRows == {Stored(0, TRUE), Stored(0, FALSE), Stored(1, TRUE)}

StartRows(schema) ==
  {NoRow} \cup {r \in StoredRows : \/ schema = "current"
                                   \/ schema = "old" /\ r = Stored(0, TRUE)}

NoInit == [b \in Buckets |-> "get"]
NoLoad == [x \in Loads |-> "getTag"]

\* Any store an older or this napi left behind, complete or stopped half way.
Init ==
  /\ store \in [Buckets -> StartSchemas]
  /\ rows \in [Buckets -> [Keys -> {NoRow} \cup StoredRows]]
  /\ \A b \in Buckets, k \in Keys : rows[b][k] \in StartRows(store[b])
  /\ mig = [p \in Procs |-> NoMig]
  /\ faults = 0
  /\ phase = [p \in Procs |-> "down"]
  /\ init = [p \in Procs |-> NoInit]
  /\ load = [p \in Procs |-> NoLoad]
  /\ tags = {}
  /\ nets = [n \in InitNets |-> "none"]
-----------------------------------------------------------------------------
(* The state machine.                                                      *)

Enter(p, from, to) == phase[p] = from /\ phase' = [phase EXCEPT ![p] = to]

\* The process is gone, with what it had read.
Exit(p, from) ==
  /\ Enter(p, from, "down")
  /\ mig' = [mig EXCEPT ![p] = NoMig]
  /\ init' = [init EXCEPT ![p] = NoInit]
  /\ load' = [load EXCEPT ![p] = NoLoad]

\* SMF starts the process again; it listens and asserts its start at once.
Restart(p) ==
  /\ Enter(p, "down", "init.moray")
  /\ UNCHANGED <<migVars, init, load, tags, nets>>

ConnectMoray(p) ==
  /\ \/ Enter(p, "init.moray", "init.buckets") /\ UNCHANGED faults
     \/ Enter(p, "init.moray", "failed") /\ Fault
  /\ UNCHANGED <<store, rows, mig, init, load, tags, nets>>

Reach(p, b, step) == init' = [init EXCEPT ![p][b] = step]

\* initBucket, for all buckets at once.
InitGet(p, b) ==
  /\ phase[p] = "init.buckets" /\ init[p][b] = "get"
  /\ \/ Reach(p, b, IF store[b] = "missing" THEN "create" ELSE "done") /\ UNCHANGED faults
     \/ Reach(p, b, "error") /\ Fault
  /\ UNCHANGED <<store, rows, mig, phase, load, tags, nets>>

\* A new bucket has the current version, since there is nothing to migrate.
InitCreate(p, b) ==
  /\ phase[p] = "init.buckets" /\ init[p][b] = "create"
  /\ \/ /\ store[b] = "missing"
        /\ store' = [store EXCEPT ![b] = "current"]
        /\ \/ Reach(p, b, "done") /\ UNCHANGED faults
           \/ Reach(p, b, "error") /\ Fault
     \/ store[b] # "missing" /\ Reach(p, b, "error") /\ UNCHANGED <<store, faults>>
     \/ Reach(p, b, "error") /\ Fault /\ UNCHANGED store
  /\ UNCHANGED <<rows, mig, phase, load, tags, nets>>

InitEnded(p) == \A b \in Buckets : init[p][b] \in {"done", "error"}

BucketsReady(p) ==
  /\ \A b \in Buckets : init[p][b] = "done"
  /\ Enter(p, "init.buckets", "init.migrations")
  /\ StartMigration(p)
  /\ UNCHANGED <<store, rows, faults, init, load, tags, nets>>

\* gotoStateTimeout(INIT_RETRY_DELAY, 'init.buckets')
BucketsRetry(p) ==
  /\ phase[p] = "init.buckets" /\ InitEnded(p)
  /\ \E b \in Buckets : init[p][b] = "error"
  /\ init' = [init EXCEPT ![p] = NoInit]
  /\ UNCHANGED <<migVars, phase, load, tags, nets>>

Migrate(p) ==
  /\ phase[p] = "init.migrations"
  /\ MigrationStep(p)
  /\ UNCHANGED <<phase, init, load, tags, nets>>

MigrationsComplete(p) ==
  /\ At(p, "done")
  /\ Enter(p, "init.migrations", "init.publisher")
  /\ UNCHANGED <<migVars, init, load, tags, nets>>

\* The machine is sent to init.migration, which is not one of its states, nor
\* a valid transition: the process throws and is gone.
MigrationsFailed(p) ==
  /\ At(p, "error")
  /\ Exit(p, "init.migrations")
  /\ UNCHANGED <<store, rows, faults, tags, nets>>

\* state_failed asserts lastErr, which the publisher's failure does not set:
\* the process throws on the way there.
StartPublisher(p) ==
  /\ \/ Enter(p, "init.publisher", "init.loadInitialData") /\ UNCHANGED <<mig, faults, init, load>>
     \/ Exit(p, "init.publisher") /\ Fault
  /\ UNCHANGED <<store, rows, tags, nets>>

\* Everything is closed, and the error is emitted to no listener.
Failed(p) ==
  /\ Exit(p, "failed")
  /\ UNCHANGED <<store, rows, faults, tags, nets>>

Stop(p) ==
  /\ Enter(p, "running", "stopping") /\ Fault
  /\ UNCHANGED <<store, rows, mig, init, load, tags, nets>>

\* Once stopped nothing keeps the process.
Stopped(p) ==
  /\ Exit(p, "stopping")
  /\ UNCHANGED <<store, rows, faults, tags, nets>>

\* The process ends anywhere.
Crash(p) ==
  /\ phase[p] # "down" /\ Exit(p, phase[p])
  /\ Fault
  /\ UNCHANGED <<store, rows, tags, nets>>
-----------------------------------------------------------------------------
(* Initial tags and networks.                                              *)

\* The overlay tag comes first, then the networks all at once.
Loading(p, x, step) ==
  /\ phase[p] = "init.loadInitialData" /\ load[p][x] = step
  /\ x = Overlay \/ load[p][Overlay] = "done"

Loaded(p, x, step) == load' = [load EXCEPT ![p][x] = step]

LoadReplied(p, x, step) == \/ Loaded(p, x, step) /\ UNCHANGED faults
                           \/ Loaded(p, x, "error") /\ Fault

AfterTag(x) == IF x = Overlay THEN "done" ELSE "listNet"

LoadGetTag(p, x) ==
  /\ Loading(p, x, "getTag")
  /\ LoadReplied(p, x, IF x \in tags THEN AfterTag(x) ELSE "createTag")
  /\ UNCHANGED <<store, rows, mig, phase, init, tags, nets>>

LoadCreateTag(p, x) ==
  /\ Loading(p, x, "createTag")
  /\ \/ x \notin tags /\ tags' = tags \cup {x} /\ LoadReplied(p, x, AfterTag(x))
     \/ x \in tags /\ Loaded(p, x, "error") /\ UNCHANGED <<tags, faults>>
     \/ Loaded(p, x, "error") /\ Fault /\ UNCHANGED tags
  /\ UNCHANGED <<store, rows, mig, phase, init, nets>>

\* A network that is listed is left as it is.
LoadListNet(p, n) ==
  /\ Loading(p, n, "listNet")
  /\ LoadReplied(p, n, IF nets[n] = "none" THEN "createNet" ELSE "done")
  /\ UNCHANGED <<store, rows, mig, phase, init, tags, nets>>

\* The three writes of createNetwork; the first is put with etag null under a
\* unique name.
Write(p, n, from, stage, step) ==
  /\ \/ /\ nets[n] = from
        /\ nets' = [nets EXCEPT ![n] = stage]
        /\ LoadReplied(p, n, step)
     \/ nets[n] # from /\ Loaded(p, n, "error") /\ UNCHANGED <<nets, faults>>
     \/ Loaded(p, n, "error") /\ Fault /\ UNCHANGED nets
  /\ UNCHANGED <<store, rows, mig, phase, init, tags>>

LoadCreateNet(p, n) ==
  Loading(p, n, "createNet") /\ Write(p, n, "none", "row", "createIPbucket")
LoadCreateBucket(p, n) ==
  Loading(p, n, "createIPbucket") /\ Write(p, n, "row", "bucket", "createIPs")
LoadCreateIPs(p, n) ==
  Loading(p, n, "createIPs") /\ Write(p, n, "bucket", "whole", "done")

\* Mutant: a tag or network that failed counts as loaded.
EndedLoads(p) == \A x \in Loads : load[p][x] \in {"done", "error"}

AllLoaded(p) == \A x \in Loads : load[p][x] = "done"

LoadComplete(p) ==
  /\ AllLoaded(p)
  /\ Enter(p, "init.loadInitialData", "running")
  /\ UNCHANGED <<migVars, init, load, tags, nets>>

\* Mutant: a failure to load the overlay tag is not answered.
NetsFailed(p) ==
  /\ \A x \in Loads : load[p][x] \in {"done", "error"}
  /\ \E x \in Loads : load[p][x] = "error"

LoadsFailed(p) ==
  \/ load[p][Overlay] = "error"
  \/ /\ \A x \in Loads : load[p][x] \in {"done", "error"}
     /\ \E x \in Loads : load[p][x] = "error"

\* All of it again after ten seconds.
LoadRetry(p) ==
  /\ phase[p] = "init.loadInitialData"
  /\ LoadsFailed(p)
  /\ load' = [load EXCEPT ![p] = NoLoad]
  /\ UNCHANGED <<migVars, phase, init, tags, nets>>
-----------------------------------------------------------------------------
(* Requests: none is served before the instance runs (checkServices).      *)

Serve(p, b, k, val, there) ==
  /\ phase[p] = "running"
  /\ k \in Served /\ rows[b][k].etag < MaxEtag
  /\ there \/ (rows[b][k].there /\ val = rows[b][k].val)
  /\ rows' = [rows EXCEPT ![b][k] = [there |-> there, v |-> 1, indexed |-> TRUE,
                                     val |-> val, etag |-> @.etag + 1]]
  /\ UNCHANGED <<store, mig, faults, phase, init, load, tags, nets>>
-----------------------------------------------------------------------------
LoadStep(p) ==
  \/ \E x \in Loads : LoadGetTag(p, x) \/ LoadCreateTag(p, x)
  \/ \E n \in InitNets : \/ LoadListNet(p, n) \/ LoadCreateNet(p, n)
                         \/ LoadCreateBucket(p, n) \/ LoadCreateIPs(p, n)
  \/ LoadComplete(p) \/ LoadRetry(p)

\* What an instance does by itself, once SMF starts it.
Step(p) ==
  \/ Restart(p) \/ ConnectMoray(p)
  \/ \E b \in Buckets : InitGet(p, b) \/ InitCreate(p, b)
  \/ BucketsReady(p) \/ BucketsRetry(p)
  \/ Migrate(p) \/ MigrationsComplete(p) \/ MigrationsFailed(p)
  \/ StartPublisher(p) \/ Failed(p) \/ Stopped(p)
  \/ LoadStep(p)

ServeAny(p) == \E b \in Buckets, k \in Keys, val \in Vals, there \in BOOLEAN :
                 Serve(p, b, k, val, there)

Next == \E p \in Procs : Step(p) \/ ServeAny(p) \/ Stop(p) \/ Crash(p)

Spec == Init /\ [][Next]_vars

\* Replies come or the call fails, timers fire, and SMF restarts a process.
FairSpec == Spec /\ \A p \in Procs : WF_vars(Step(p))
-----------------------------------------------------------------------------
(* Properties.                                                             *)

\* While any instance serves requests every bucket has our schema, and every
\* row our version and values in all columns: no search by an indexed field
\* misses a row.  Two instances migrate at once, and any of them may have
\* stopped between two calls.
ReadyMeansMigrated ==
  \A p \in Procs : phase[p] = "running" =>
    \A b \in Buckets : store[b] = "current" /\ Unmigrated(b) = {}

\* Instances that serve have found or created every initial tag and network,
\* whoever of the two created it.
ReadyMeansLoaded ==
  \A p \in Procs : phase[p] = "running" =>
    tags = Loads /\ \A n \in InitNets : nets[n] # "none"

\* A migration changes what a row is stored as, never what it says; it does
\* not bring back a row that a request deleted.
MigrationKeepsRecords ==
  [][(\E p \in Procs : Migrate(p)) =>
       \A b \in Buckets, k \in Keys : /\ rows'[b][k].val = rows[b][k].val
                                      /\ rows'[b][k].there = rows[b][k].there]_vars

\* However calls fail and processes end, once that stops each instance runs
\* again and again: the wrong state after a failed migration and the wrong
\* field after a failed publisher cost a restart, not the service.
EventuallyRuns == \A p \in Procs : []<>(phase[p] = "running")
=============================================================================
