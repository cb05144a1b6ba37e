---------------------------- MODULE NetworkRange ----------------------------
(***************************************************************************)
(* Moving the provision range of a network.                                *)
(*                                                                         *)
(* The search for a never-used address relies on two records, one on each  *)
(* side of the range (PS and PE in ip/provision.js).  A PUT of the network *)
(* that moves an end of the range replaces that end's record: it reads the *)
(* network, then for each end that moves the old record and the new one,   *)
(* in parallel, and commits one batch.  Meanwhile NICs take and give back  *)
(* addresses, named ones outside the range too.  One action is one Moray   *)
(* round trip.                                                             *)
(***************************************************************************)
EXTENDS Integers, FiniteSets

CONSTANTS
  Updates,      \* PUTs of the network in progress at once
  First, Last,  \* the addresses just outside the ones a range may use
  Jumps         \* may a range move right past its own end?

Addrs == First .. Last
Hosts == (First + 1) .. (Last - 1)
Sides == {"start", "end"}

ASSUME BoundsAssumption == First \in Nat /\ Last \in Nat /\ First + 2 < Last
ASSUME JumpsAssumption == Jumps \in BOOLEAN

VARIABLES
  range,    \* provision_start_ip and provision_end_ip of the network row
  rows,     \* records of the IP bucket: absent, blank (a marker, or an address
            \* that was freed: they look the same), or held (reserved or owned)
  pc,       \* of an update: idle, or moving until its batch is sent
  seen,     \* the range as the update read it
  want,     \* the range it asks for
  stage,    \* of each end: read the old record, read the new one, done
  drop, put \* records to delete and markers to create, as read

vars == <<range, rows, pc, seen, want, stage, drop, put>>

Ranges == {w \in [Sides -> Hosts] : w["start"] < w["end"]}

\* Mutant: the ends of the range themselves are the markers.
MarkerInside(w, s) == w[s]

\* The marker of end s of range w.
Marker(w, s) == IF s = "start" THEN w[s] - 1 ELSE w[s] + 1

Init ==
  /\ range \in Ranges
  /\ rows = [a \in Addrs |->
               IF \E s \in Sides : a = Marker(range, s) THEN "blank" ELSE "absent"]
  /\ pc = [u \in Updates |-> "idle"]
  /\ seen = [u \in Updates |-> range]
  /\ want = [u \in Updates |-> range]
  /\ stage = [u \in Updates |-> [s \in Sides |-> "done"]]
  /\ drop = [u \in Updates |-> {}]
  /\ put = [u \in Updates |-> {}]

\* The new marker of one end is the old marker of the other.
JumpsPast(v, w) ==
  \/ w["start"] # v["start"] /\ Marker(w, "start") = Marker(v, "end")
  \/ w["end"] # v["end"] /\ Marker(w, "end") = Marker(v, "start")

\* ensureNetworkExists, and the validation of the ends in the request.
Load(u) ==
  /\ pc[u] = "idle"
  /\ \E w \in Ranges :
       /\ Jumps \/ ~JumpsPast(range, w)
       /\ want' = [want EXCEPT ![u] = w]
       /\ stage' = [stage EXCEPT ![u] =
                      [s \in Sides |-> IF w[s] # range[s] THEN "old" ELSE "done"]]
  /\ seen' = [seen EXCEPT ![u] = range]
  /\ pc' = [pc EXCEPT ![u] = "moving"]
  /\ drop' = [drop EXCEPT ![u] = {}]
  /\ put' = [put EXCEPT ![u] = {}]
  /\ UNCHANGED <<range, rows>>

Refused(u) == pc' = [pc EXCEPT ![u] = "idle"] /\ UNCHANGED <<range, rows>>

\* GET of the old marker: 404 refuses the update; a blank record will go.
ReadBefore(u, s) ==
  /\ pc[u] = "moving" /\ stage[u][s] = "old"
  /\ LET a == Marker(seen[u], s)
     IN IF rows[a] = "absent"
        THEN Refused(u) /\ UNCHANGED <<stage, drop>>
        ELSE /\ drop' = IF rows[a] = "blank"
                        THEN [drop EXCEPT ![u] = @ \cup {a}] ELSE drop
             /\ stage' = [stage EXCEPT ![u][s] = "new"]
             /\ UNCHANGED <<pc, range, rows>>
  /\ UNCHANGED <<seen, want, put>>

\* Mutant: the new marker is only created when an old one was deleted.
MissingMarkerAfterDrop(u, a) == rows[a] = "absent" /\ drop[u] # {}

MissingMarker(u, a) == rows[a] = "absent"

\* GET of the new marker: it is created when there is no such record.
ReadAfter(u, s) ==
  /\ pc[u] = "moving" /\ stage[u][s] = "new"
  /\ LET a == Marker(want[u], s)
     IN put' = IF MissingMarker(u, a) THEN [put EXCEPT ![u] = @ \cup {a}] ELSE put
  /\ stage' = [stage EXCEPT ![u][s] = "done"]
  /\ UNCHANGED <<range, rows, pc, seen, want, drop>>

Ready(u) == pc[u] = "moving" /\ \A s \in Sides : stage[u][s] = "done"

\* A deleted record must be there, though in any state: params._etag is not
\* set.  A created one must not (etag null).
BatchFits(u) == /\ \A a \in drop[u] : rows[a] # "absent"
                /\ \A a \in put[u] : rows[a] = "absent"

\* The network row is put without an etag.
CommitRange(u) ==
  /\ Ready(u) /\ BatchFits(u)
  /\ range' = want[u]
  /\ rows' = [a \in Addrs |-> IF a \in put[u] THEN "blank"
                              ELSE IF a \in drop[u] THEN "absent" ELSE rows[a]]
  /\ pc' = [pc EXCEPT ![u] = "idle"]
  /\ UNCHANGED <<seen, want, stage, drop, put>>

RefuseRange(u) ==
  /\ Ready(u) /\ ~BatchFits(u)
  /\ Refused(u)
  /\ UNCHANGED <<seen, want, stage, drop, put>>

\* A NIC takes an address, and gives it back (NicProvision has the details).
Take(a) ==
  /\ rows[a] # "held"
  /\ rows' = [rows EXCEPT ![a] = "held"]
  /\ UNCHANGED <<range, pc, seen, want, stage, drop, put>>

GiveBack(a) ==
  /\ rows[a] = "held"
  /\ rows' = [rows EXCEPT ![a] = "blank"]
  /\ UNCHANGED <<range, pc, seen, want, stage, drop, put>>

\* Mutant: the search does not look at the record after the range.
GapStartsShort ==
  {a \in range["start"] .. range["end"] :
     /\ rows[a] = "absent" /\ rows[a - 1] # "absent"
     /\ \E b \in (a + 1) .. range["end"] : rows[b] # "absent"}

\* Where the search finds a gap: after a record, before another one.
GapStarts ==
  {a \in range["start"] .. range["end"] :
     /\ rows[a] = "absent" /\ rows[a - 1] # "absent"
     /\ \E b \in (a + 1) .. (range["end"] + 1) : rows[b] # "absent"}

Next == \/ \E u \in Updates : \/ Load(u) \/ CommitRange(u) \/ RefuseRange(u)
                              \/ \E s \in Sides : ReadBefore(u, s) \/ ReadAfter(u, s)
        \/ \E a \in Hosts : Take(a) \/ GiveBack(a)

Spec == Init /\ [][Next]_vars
-----------------------------------------------------------------------------
(* Properties                                                              *)

TypeOK ==
  /\ range \in Ranges
  /\ rows \in [Addrs -> {"absent", "blank", "held"}]
  /\ pc \in [Updates -> {"idle", "moving"}]
  /\ seen \in [Updates -> Ranges] /\ want \in [Updates -> Ranges]
  /\ stage \in [Updates -> [Sides -> {"old", "new", "done"}]]
  /\ drop \in [Updates -> SUBSET Addrs] /\ put \in [Updates -> SUBSET Addrs]

\* The two records next to the range exist, whatever the network has been
\* through ("placed on either side of the provision range", ip/provision.js).
Anchored == \A s \in Sides : rows[Marker(range, s)] # "absent"

\* As long as an address of the range was never used, the search finds one,
\* the lowest: a subnet is not reported full, nor a freed address given out.
LowestUnusedIsFound ==
  LET unused == {a \in range["start"] .. range["end"] : rows[a] = "absent"}
  IN unused # {} => \E a \in GapStarts : \A b \in unused : a <= b

\* An update deletes markers only: the record of an address that somebody holds
\* stays (the comment on "just a placeholder record" in provisionRangeUpdates).
OnlyMarkersDeleted ==
  [][\A a \in Addrs : rows[a] = "held" => rows'[a] # "absent"]_vars

\* An address of the range never returns to having no record, or it would be
\* handed out before addresses that were never used.
RangeRecordsStay ==
  [][\A a \in range["start"] .. range["end"] :
       rows[a] # "absent" => rows'[a] # "absent"]_vars

-----------------------------------------------------------------------------
(* The inductive invariant behind Anchored, for one update at a time.      *)

\* What an update in progress has decided still fits the network.
InProgress(u) ==
  pc[u] = "moving" =>
    /\ seen[u] = range
    /\ ~JumpsPast(seen[u], want[u])
    /\ \A s \in Sides : stage[u][s] # "done" => want[u][s] # seen[u][s]
    /\ \A a \in drop[u] : \E s \in Sides : a = Marker(seen[u], s) /\ want[u][s] # seen[u][s]
    /\ \A s \in Sides :
         stage[u][s] = "done" /\ want[u][s] # seen[u][s]
           => Marker(want[u], s) \in put[u] \/ rows[Marker(want[u], s)] # "absent"

RangeInv == TypeOK /\ Anchored /\ \A u \in Updates : InProgress(u)
=============================================================================
