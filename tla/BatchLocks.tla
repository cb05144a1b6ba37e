----------------------------- MODULE BatchLocks -----------------------------
(***************************************************************************)
(* Batches of NIC requests inside the database: commitBatch sorts the      *)
(* entries, Moray runs them one after the other in a transaction, and each *)
(* entry locks its row until the transaction ends.  The batch of a primary *)
(* NIC has an entry without a key: it takes the flag from the other NICs   *)
(* of the owner, whichever these are when the entry runs.  The database    *)
(* ends a deadlock by aborting one of its batches, and nicAndIP retries.   *)
(*                                                                         *)
(* A row that is inserted counts as locked; the others see it after the    *)
(* commit (READ COMMITTED).                                                *)
(***************************************************************************)
EXTENDS Naturals, Sequences, FiniteSets

CONSTANTS
  Reqs,       \* requests
  Asks,       \* request -> what it may ask for
  Vms,        \* owners of NICs
  Macs,       \* keys of napi_nics
  StartNics,  \* the NICs there are at the start
  NicRetries  \* NIC_PROVISION_RETRIES

\* Where the names of the buckets are in the alphabet.
NicBucket == 3
NetBucket == 2
IpBuckets == {0, 1}

RowsOf(buckets) == [bucket : buckets, key : Nat]
NicRow(m) == [bucket |-> NicBucket, key |-> m]

NoVm == "none"
NoNic == [vm |-> NoVm, primary |-> FALSE]
Nic  == [vm : Vms, primary : BOOLEAN] \cup {NoNic}

\* ips: the entries of addresses, in the order they are added; net: that of the
\* network, if the address is a fabric's gateway.  An update that does not say
\* whether the NIC is primary leaves it as it was.
Ask == [op : {"create", "update", "delete"}, mac : Macs, vm : Vms,
        primary : {"yes", "no", "keep"}, ips : Seq(RowsOf(IpBuckets)),
        net : Seq(RowsOf({NetBucket}))]

ASSUME LockMacs == Macs \subseteq Nat /\ NoVm \notin Vms
ASSUME LockAsks == /\ IsFiniteSet(Reqs)
                   /\ \A r \in Reqs :
                        /\ Asks[r] \subseteq Ask /\ Asks[r] # {}
                        /\ \A a \in Asks[r] : a.op = "update" \/ a.primary # "keep"
ASSUME LockStart == /\ StartNics \in [Macs -> Nic] /\ NicRetries \in Nat
                    /\ \A m, n \in Macs : (/\ StartNics[m].primary /\ StartNics[n].primary
                                           /\ StartNics[m].vm = StartNics[n].vm) => m = n

VARIABLES
  nics,    \* napi_nics, committed
  ask,     \* what a request asks for
  seen,    \* its NIC as read: existingNic
  stale,   \* requests whose NIC has another etag than when it was read
  tries,   \* retries of a request
  at,      \* the entry of the batch to run next; 0: no request
  held,    \* rows that a batch has locked
  wait,    \* the row a batch waits for, if any
  scanned, \* whether the entry of a primary NIC has looked for the others
  found,   \* other NICs of the owner that it still has to lock
  taken    \* and those it takes the flag from

batch == <<at, held, wait, scanned, found, taken>>
vars == <<nics, ask, seen, stale, tries, batch>>

NoAsk(r)   == CHOOSE a \in Asks[r] : TRUE
Running(r) == at[r] > 0

Init ==
  /\ nics = StartNics
  /\ ask = [r \in Reqs |-> NoAsk(r)]
  /\ seen = [r \in Reqs |-> NoNic]
  /\ stale = {}
  /\ tries = [r \in Reqs |-> 0]
  /\ at = [r \in Reqs |-> 0]
  /\ held = [r \in Reqs |-> {}]
  /\ wait = [r \in Reqs |-> {}]
  /\ scanned = {}
  /\ found = [r \in Reqs |-> {}]
  /\ taken = [r \in Reqs |-> {}]
-----------------------------------------------------------------------------
\* The rows of the entries that have a key.
RowsIn(a) == {a.ips[i] : i \in DOMAIN a.ips} \cup {NicRow(a.mac)}
             \cup {a.net[i] : i \in DOMAIN a.net}

\* compareRequests: buckets in descending order, then keys in ascending order.
Before(x, y) == x.bucket > y.bucket \/ (x.bucket = y.bucket /\ x.key < y.key)

AllAsks == UNION {Asks[r] : r \in Reqs}

\* Mutant: the batch is sent as the request builds it.
AsBuilt == [a \in AllAsks |-> a.ips \o <<NicRow(a.mac)>> \o a.net]

\* nbatch, sorted: the k-th entry has k - 1 others before it.  The entry without
\* a key stays behind that of the NIC.
Rank(rows, x) == Cardinality({y \in rows : Before(y, x)})
Sorted(rows)  == [k \in 1..Cardinality(rows) |-> CHOOSE x \in rows : Rank(rows, x) = k - 1]
Entries       == [a \in AllAsks |-> Sorted(RowsIn(a))]

IsPrimary(r) ==
  /\ ask[r].op # "delete"
  /\ ask[r].primary = "yes" \/ (ask[r].primary = "keep" /\ seen[r].primary)

TypeOK ==
  /\ nics \in [Macs -> Nic]
  /\ seen \in [Reqs -> Nic]
  /\ stale \subseteq Reqs /\ scanned \subseteq Reqs
  /\ \A r \in Reqs :
       /\ ask[r] \in Asks[r]
       /\ tries[r] \in 0..(NicRetries + 1)
       /\ at[r] \in 0..(Len(Entries[ask[r]]) + 1)
       /\ held[r] = {Entries[ask[r]][i] : i \in 1..(at[r] - 1)}
                    \cup {NicRow(m) : m \in taken[r]}
       /\ Cardinality(wait[r]) <= 1 /\ wait[r] \cap held[r] = {}
       /\ found[r] \cup taken[r] # {} => r \in scanned
  /\ \A r, s \in Reqs : r # s => held[r] \cap held[s] = {}
-----------------------------------------------------------------------------
(* A request and the attempts of its batch.                                *)

\* Mutant: the NICs the flag is taken from are kept for the next attempt.
LeavesTaken(r, pos) ==
  /\ at' = [at EXCEPT ![r] = pos]
  /\ held' = [held EXCEPT ![r] = {}]
  /\ wait' = [wait EXCEPT ![r] = {}]
  /\ scanned' = scanned \ {r}
  /\ found' = [found EXCEPT ![r] = {}]
  /\ UNCHANGED taken

\* The transaction of an attempt is over.
Leaves(r, pos) ==
  /\ at' = [at EXCEPT ![r] = pos]
  /\ held' = [held EXCEPT ![r] = {}]
  /\ wait' = [wait EXCEPT ![r] = {}]
  /\ scanned' = scanned \ {r}
  /\ found' = [found EXCEPT ![r] = {}]
  /\ taken' = [taken EXCEPT ![r] = {}]

Ends(r) ==
  /\ Leaves(r, 0)
  /\ ask' = [ask EXCEPT ![r] = NoAsk(r)]
  /\ seen' = [seen EXCEPT ![r] = NoNic]
  /\ tries' = [tries EXCEPT ![r] = 0]

\* Only requests that go on remember what they read.
Forget(reqs) == stale' = {r \in reqs : at'[r] > 0}

\* Mutant: failed attempts are not counted.
RetryForever(r) == Leaves(r, 1) /\ UNCHANGED <<ask, seen, tries>>

\* nicAndIP builds the batch anew, of the NIC it read; a delete is not retried.
Retry(r) ==
  IF ask[r].op = "delete" \/ tries[r] > NicRetries
  THEN Ends(r)
  ELSE /\ Leaves(r, 1)
       /\ tries' = [tries EXCEPT ![r] = @ + 1]
       /\ UNCHANGED <<ask, seen>>

Start(r, a) ==
  /\ ~Running(r)
  /\ a.op # "create" => nics[a.mac] # NoNic
  /\ ask' = [ask EXCEPT ![r] = a]
  /\ seen' = [seen EXCEPT ![r] = nics[a.mac]]
  /\ at' = [at EXCEPT ![r] = 1]
  /\ UNCHANGED <<nics, stale, tries, held, wait, scanned, found, taken>>
-----------------------------------------------------------------------------
(* Entries of a batch.                                                     *)

\* After the entry of a primary NIC comes the one without a key.
Filters(r) == IsPrimary(r) /\ at[r] = 2

NextRow(r) == Entries[ask[r]][at[r]]

\* The rows a batch may lock next: the other NICs come in no known order.
Wants(r) ==
  IF ~Running(r) THEN {}
  ELSE IF wait[r] # {} THEN wait[r]
  ELSE IF found[r] # {} THEN {NicRow(m) : m \in found[r]}
  ELSE IF at[r] > Len(Entries[ask[r]]) \/ (Filters(r) /\ r \notin scanned) THEN {}
  ELSE {NextRow(r)}

Free(row) == \A s \in Reqs : row \notin held[s]

WaitFor(r, row) ==
  /\ row \in Wants(r) /\ ~Free(row) /\ wait[r] = {}
  /\ wait' = [wait EXCEPT ![r] = {row}]
  /\ UNCHANGED <<nics, ask, seen, stale, tries, at, held, scanned, found, taken>>

\* The etag of the NIC's entry: null, that of the NIC as read, or none.
Fits(r) == CASE ask[r].op = "create" -> nics[ask[r].mac] = NoNic
             [] ask[r].op = "update" -> r \notin stale
             [] ask[r].op = "delete" -> nics[ask[r].mac] # NoNic

Locks(r, row) == /\ held' = [held EXCEPT ![r] = @ \cup {row}]
                 /\ wait' = [wait EXCEPT ![r] = {}]

RunEntry(r) ==
  /\ found[r] = {} /\ \E row \in Wants(r) : Free(row) /\ Locks(r, row)
  /\ at[r] = 1 => Fits(r)
  /\ at' = [at EXCEPT ![r] = @ + 1]
  /\ UNCHANGED <<nics, ask, seen, stale, tries, scanned, found, taken>>

\* A MAC that was given and is taken ends a create, a NIC that is gone ends a
\* delete; an update tries again with the NIC it read.
Conflict(r) ==
  /\ at[r] = 1 /\ ~Fits(r) /\ Free(NextRow(r))
  /\ IF ask[r].op = "update" THEN Retry(r) ELSE Ends(r)
  /\ UNCHANGED nics /\ Forget(stale)

\* The rows that match when the entry runs: other NICs of the owner.
FindOthers(r) ==
  /\ Filters(r) /\ r \notin scanned
  /\ scanned' = scanned \cup {r}
  /\ found' = [found EXCEPT ![r] = {m \in Macs : nics[m].vm = ask[r].vm} \ {ask[r].mac}]
  /\ UNCHANGED <<nics, ask, seen, stale, tries, at, held, wait, taken>>

\* A row that had to be waited for is looked at again.
TakeOther(r, m) ==
  /\ m \in found[r] /\ NicRow(m) \in Wants(r) /\ Free(NicRow(m))
  /\ found' = [found EXCEPT ![r] = @ \ {m}]
  /\ IF nics[m].vm = ask[r].vm
     THEN Locks(r, NicRow(m)) /\ taken' = [taken EXCEPT ![r] = @ \cup {m}]
     ELSE wait' = [wait EXCEPT ![r] = {}] /\ UNCHANGED <<held, taken>>
  /\ UNCHANGED <<nics, ask, seen, stale, tries, at, scanned>>

\* Mutant: the flag is not taken from the others.
NewNicsOnlyOwn(r) ==
  [m \in Macs |->
     IF m = ask[r].mac
     THEN IF ask[r].op = "delete" THEN NoNic
          ELSE [vm |-> ask[r].vm, primary |-> IsPrimary(r)]
     ELSE nics[m]]

NewNics(r) ==
  [m \in Macs |->
     IF m = ask[r].mac
     THEN IF ask[r].op = "delete" THEN NoNic
          ELSE [vm |-> ask[r].vm, primary |-> IsPrimary(r)]
     ELSE IF m \in taken[r] THEN [vm |-> nics[m].vm, primary |-> FALSE]
     ELSE nics[m]]

Commit(r) ==
  /\ Running(r) /\ at[r] > Len(Entries[ask[r]]) /\ Wants(r) = {}
  /\ Filters(r) => r \in scanned
  /\ nics' = NewNics(r)
  /\ Ends(r)
  /\ Forget(stale \cup {s \in Reqs : ask[s].mac \in taken[r] \cup {ask[r].mac}})

\* Requests that all wait for one another.
Deadlocked(S) ==
  /\ S # {}
  /\ \A r \in S : wait[r] # {} /\ \E s \in S : wait[r] \subseteq held[s]

\* 'deadlock detected'
Detect(r) ==
  /\ \E S \in SUBSET Reqs : /\ r \in S /\ Deadlocked(S)
                           /\ \A T \in SUBSET S : Deadlocked(T) => T = S
  /\ Retry(r)
  /\ UNCHANGED nics /\ Forget(stale)
-----------------------------------------------------------------------------
Step(r) ==
  \/ \E m \in Macs : TakeOther(r, m)
  \/ \E row \in Wants(r) : WaitFor(r, row)
  \/ RunEntry(r) \/ Conflict(r) \/ FindOthers(r) \/ Commit(r) \/ Detect(r)

Next == \E r \in Reqs : Step(r) \/ \E a \in Asks[r] : Start(r, a)

Spec == Init /\ [][Next]_vars

\* The database runs the batches it has, and does not pass over for ever a batch
\* that waits for a row; a request that starts may not come.
FairSpec == Spec /\ \A r \in Reqs : SF_vars(Step(r))
-----------------------------------------------------------------------------
(* Properties.                                                             *)

\* Two batches deadlock only if two of them are for primary NICs of one VM:
\* the order of all other entries rules it out, whatever addresses NICs swap.
DeadlocksArePrimaries ==
  \A S \in SUBSET Reqs : Deadlocked(S) =>
    \E r, s \in S : r # s /\ IsPrimary(r) /\ IsPrimary(s) /\ ask[r].vm = ask[s].vm

\* 'A VM can only have one primary NIC': requests that change which NIC is
\* primary race.
OnePrimaryNic ==
  \A m, n \in Macs : nics[m].primary /\ nics[n].primary /\ nics[m].vm = nics[n].vm
                     => m = n

\* Deadlocks and conflicts end: each request that starts is answered.
EveryBatchEnds == \A r \in Reqs : Running(r) ~> ~Running(r)
=============================================================================
