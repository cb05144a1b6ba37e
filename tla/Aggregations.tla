---------------------------- MODULE Aggregations ----------------------------
(***************************************************************************)
(* Link aggregations: lib/models/aggregation.js with the endpoint before   *)
(* it, one call to Moray at a time.  A request reads the row it is about,  *)
(* then the NICs it names, in parallel, puts the row with what it read as  *)
(* its etag, and at last publishes an event.  NIC requests, which know     *)
(* nothing of aggregations, change the owners of NICs meanwhile, and a     *)
(* consumer of the changefeed reads the aggregation an event names.        *)
(*                                                                         *)
(* An etag stands for the content of its row.                              *)
(***************************************************************************)
EXTENDS Naturals

CONSTANTS
  Reqs,        \* requests at a time
  Asks,        \* what clients ask for
  Servers,     \* owners of type server
  Others,      \* other owners
  Names,       \* names of aggregations
  Macs,        \* NICs
  MovableNics, \* NICs that NIC requests change
  StartNics,   \* owner of each NIC at the start
  MaxFaults    \* bound: calls that fail or lose their reply, and stops

Gone   == "gone"
Owners == Servers \cup Others \cup {Gone}
Modes  == {"off", "active"}
Ids    == Servers \X Names

Row  == [owner : Servers, macs : (SUBSET Macs) \ {{}}, lacp : Modes]
None == [owner |-> Gone, macs |-> {}, lacp |-> "none"]

\* No macs or "none" for the mode: not given.  Of a create's id only the name
\* is the client's.  One that matches is for the version the client saw.
Ask == [op : {"create", "update", "delete"}, id : Ids, macs : SUBSET Macs,
        lacp : Modes \cup {"none"}, match : BOOLEAN]
NoAsk == CHOOSE a \in Asks : TRUE

ASSUME AggrOwners == Gone \notin Servers \cup Others /\ Servers \cap Others = {}
ASSUME AggrAsks == /\ Asks \subseteq Ask /\ Asks # {}
                   /\ \A a \in Asks : a.op = "create" => a.macs # {} /\ ~a.match
ASSUME AggrStart == /\ StartNics \in [Macs -> Owners]
                    /\ MovableNics \subseteq Macs /\ MaxFaults \in Nat

VARIABLES
  nics,    \* owner of each NIC
  aggrs,   \* napi_aggregations
  pc, ask, \* the call a request makes next, and what it asks for
  want,    \* the version the client names
  read,    \* the row as read: existingAggr
  seen,    \* owners of the NICs that have been read
  feed,    \* ids of events not delivered yet
  view,    \* what the consumer of the changefeed knows
  unheard, \* history: ids with a change that was not announced
  faults

vars == <<nics, aggrs, pc, ask, want, read, seen, feed, view, unheard, faults>>

Calls == {"idle", "get", "macs", "put", "del", "publish"}

\* What the changefeed tells of: existence and the LACP mode.
Shown(row) == row.lacp

Unread == [m \in {} |-> Gone]

TypeOK ==
  /\ nics \in [Macs -> Owners]
  /\ aggrs \in [Ids -> Row \cup {None}]
  /\ pc \in [Reqs -> Calls]
  /\ ask \in [Reqs -> Asks]
  /\ want \in [Reqs -> Row \cup {None}]
  /\ read \in [Reqs -> Row \cup {None}]
  /\ \A r \in Reqs : /\ DOMAIN seen[r] \subseteq ask[r].macs
                     /\ \A m \in DOMAIN seen[r] : seen[r][m] \in Owners
                     /\ pc[r] = "put" =>
                          /\ DOMAIN seen[r] = ask[r].macs
                          /\ \A m \in ask[r].macs : seen[r][m] \in Servers
                          /\ ask[r].op = "update" => read[r] # None
  /\ feed \subseteq Ids
  /\ view \in [Ids -> Modes \cup {"none"}]
  /\ unheard \subseteq Ids
  /\ faults \in 0..MaxFaults

Init ==
  /\ nics = StartNics
  /\ aggrs = [i \in Ids |-> None]
  /\ pc = [r \in Reqs |-> "idle"]
  /\ ask = [r \in Reqs |-> NoAsk]
  /\ want = [r \in Reqs |-> None]
  /\ read = [r \in Reqs |-> None]
  /\ seen = [r \in Reqs |-> Unread]
  /\ feed = {}
  /\ view = [i \in Ids |-> "none"]
  /\ unheard = {}
  /\ faults = 0
-----------------------------------------------------------------------------
Fault == faults < MaxFaults /\ faults' = faults + 1
Goes(r, call) == pc' = [pc EXCEPT ![r] = call]

\* The request is over, and nothing of it is left.
Ends(r) ==
  /\ Goes(r, "idle")
  /\ ask' = [ask EXCEPT ![r] = NoAsk]
  /\ want' = [want EXCEPT ![r] = None]
  /\ read' = [read EXCEPT ![r] = None]
  /\ seen' = [seen EXCEPT ![r] = Unread]

Start(r, a) ==
  /\ pc[r] = "idle"
  /\ ask' = [ask EXCEPT ![r] = a]
  /\ Goes(r, IF a.op = "create" THEN "macs" ELSE "get")
  /\ want' = [want EXCEPT ![r] = IF a.match THEN aggrs[a.id] ELSE None]
  /\ UNCHANGED <<nics, aggrs, read, seen, feed, view, unheard, faults>>

\* ensureAggrExists and conditionalRequest
Get(r) ==
  LET a == ask[r]
      row == aggrs[a.id]
  IN  /\ pc[r] = "get"
      /\ IF row = None \/ (a.match /\ row # want[r])
         THEN Ends(r)
         ELSE /\ read' = [read EXCEPT ![r] = row]
              /\ Goes(r, IF a.op = "delete" THEN "del"
                         ELSE IF a.macs = {} THEN "put" ELSE "macs")
              /\ UNCHANGED <<ask, want, seen>>
      /\ UNCHANGED <<nics, aggrs, feed, view, unheard, faults>>

\* Mutant: a NIC that is not found is passed over.
OneServerOfFound(owners) == \E s \in Servers : owners \subseteq {s, Gone}

\* NICs that exist and belong to one and the same server.
OneServer(owners) == \E s \in Servers : owners = {s}

\* validateMACs: the replies come in any order, and the last is looked at with
\* all the others.
ReadNic(r, m) ==
  LET now == [x \in DOMAIN seen[r] \cup {m} |-> IF x = m THEN nics[m] ELSE seen[r][x]]
  IN  /\ pc[r] = "macs" /\ m \in ask[r].macs \ DOMAIN seen[r]
      /\ IF DOMAIN now = ask[r].macs /\ ~OneServer({now[x] : x \in ask[r].macs})
         THEN Ends(r)
         ELSE /\ seen' = [seen EXCEPT ![r] = now]
              /\ Goes(r, IF DOMAIN now = ask[r].macs THEN "put" ELSE "macs")
              /\ UNCHANGED <<ask, want, read>>
      /\ UNCHANGED <<nics, aggrs, feed, view, unheard, faults>>

\* nicObjs[0].params.belongs_to_uuid
OwnerSeen(r) == seen[r][CHOOSE m \in ask[r].macs : TRUE]

\* createAggr and updateObj: the fields given replace those of the row read.
NewRow(r) ==
  LET a == ask[r]
  IN  [owner |-> IF a.macs = {} THEN read[r].owner ELSE OwnerSeen(r),
       macs  |-> IF a.macs = {} THEN read[r].macs ELSE a.macs,
       lacp  |-> IF a.lacp # "none" THEN a.lacp
                 ELSE IF a.op = "create" THEN "off" ELSE read[r].lacp]

\* The constructor makes the id from the owner and the name; a row keeps the
\* key it was created under.
NewId(r) == <<NewRow(r).owner, ask[r].id[2]>>
Key(r)   == IF ask[r].op = "create" THEN NewId(r) ELSE ask[r].id

\* Mutant: the put of an update has no etag.
FreshIfNew(r) == ask[r].op = "create" => aggrs[Key(r)] = None

\* A create has no etag to give: its row must not be there.
Fresh(r) == aggrs[Key(r)] = IF ask[r].op = "create" THEN None ELSE read[r]

\* Which id an event would name, if the request publishes one.
Announced(r) == IF ask[r].op = "delete" THEN ask[r].id ELSE NewId(r)

\* Mutant: an update is not announced.
PublishesNew(r) == ask[r].op # "update"

Publishes(r) == ask[r].op # "update" \/ ask[r].lacp # "none"

\* Nobody is told of a mode under an id the row does not have.
Untold(r) == IF Publishes(r) /\ Announced(r) # Key(r) THEN {Key(r)} ELSE {}

PutRow(r) ==
  /\ pc[r] = "put"
  /\ \/ /\ Fresh(r)
        /\ aggrs' = [aggrs EXCEPT ![Key(r)] = NewRow(r)]
        /\ \/ /\ IF Publishes(r) THEN Goes(r, "publish") /\ UNCHANGED <<ask, want, read, seen>>
                                 ELSE Ends(r)
              /\ unheard' = unheard \cup Untold(r)
              /\ UNCHANGED faults
           \/ /\ Ends(r) /\ Fault
              /\ unheard' = IF Publishes(r) THEN unheard \cup {Key(r)} ELSE unheard
     \/ ~Fresh(r) /\ Ends(r) /\ UNCHANGED <<aggrs, unheard, faults>>
     \/ Ends(r) /\ Fault /\ UNCHANGED <<aggrs, unheard>>
  /\ UNCHANGED <<nics, feed, view>>

\* delObj: by key, whatever the row has become.
DeleteRow(r) ==
  LET i == ask[r].id
  IN  /\ pc[r] = "del"
      /\ \/ /\ aggrs[i] # None
            /\ aggrs' = [aggrs EXCEPT ![i] = None]
            /\ \/ Goes(r, "publish") /\ UNCHANGED <<ask, want, read, seen, unheard, faults>>
               \/ Ends(r) /\ Fault /\ unheard' = unheard \cup {i}
         \/ aggrs[i] = None /\ Ends(r) /\ UNCHANGED <<aggrs, unheard, faults>>
         \/ Ends(r) /\ Fault /\ UNCHANGED <<aggrs, unheard>>
      /\ UNCHANGED <<nics, feed, view>>

\* A failure to publish is logged, ignored or answered, and never repeated.
Publish(r) ==
  /\ pc[r] = "publish"
  /\ Ends(r)
  /\ \/ feed' = feed \cup {Announced(r)} /\ UNCHANGED <<unheard, faults>>
     \/ unheard' = unheard \cup {Announced(r)} /\ Fault /\ UNCHANGED feed
  /\ UNCHANGED <<nics, aggrs, view>>

\* The process ends between two calls.
Stop(r) ==
  /\ pc[r] # "idle"
  /\ Ends(r) /\ Fault
  /\ unheard' = IF pc[r] = "publish" THEN unheard \cup {Announced(r)} ELSE unheard
  /\ UNCHANGED <<nics, aggrs, feed, view>>
-----------------------------------------------------------------------------
\* POST, PUT and DELETE of a NIC, none of which looks at aggregations.
MoveNic(m, o) ==
  /\ m \in MovableNics /\ nics[m] # o
  /\ nics' = [nics EXCEPT ![m] = o]
  /\ UNCHANGED <<aggrs, pc, ask, want, read, seen, feed, view, unheard, faults>>

\* The consumer gets an event and asks for the aggregation it names.
Deliver(i) ==
  /\ i \in feed
  /\ feed' = feed \ {i}
  /\ unheard' = unheard \ {i}
  /\ view' = [view EXCEPT ![i] = Shown(aggrs[i])]
  /\ UNCHANGED <<nics, aggrs, pc, ask, want, read, seen, faults>>
-----------------------------------------------------------------------------
Next ==
  \/ \E r \in Reqs :
       \/ \E a \in Asks : Start(r, a)
       \/ \E m \in Macs : ReadNic(r, m)
       \/ Get(r) \/ PutRow(r) \/ DeleteRow(r) \/ Publish(r) \/ Stop(r)
  \/ \E m \in Macs, o \in Owners : MoveNic(m, o)
  \/ \E i \in Ids : Deliver(i)

Spec == Init /\ [][Next]_vars
-----------------------------------------------------------------------------
(* Properties.                                                             *)

\* The links of an aggregation are NICs of the server it names, unless NIC
\* requests have moved them since: updates that change the links, the owner or
\* only the mode may overlap in any order.
LinksTogether ==
  \A i \in Ids : \A m \in aggrs[i].macs \ MovableNics : nics[m] = aggrs[i].owner

\* A put of an update, when it takes effect, leaves the fields it was not given
\* as they are then, not as they were when it read them: no update undoes
\* another, and none brings back a deleted aggregation.  With If-Match it
\* replaces the version that the client named.
Updates(r) == pc[r] = "put" /\ ask[r].op = "update" /\ aggrs' # aggrs /\ pc'[r] # "put"

UpdateKeepsTheRest ==
  [][\A r \in Reqs : Updates(r) =>
       LET old == aggrs[ask[r].id]
           new == aggrs'[ask[r].id]
       IN  /\ old # None
           /\ ask[r].macs = {} => new.macs = old.macs /\ new.owner = old.owner
           /\ ask[r].lacp = "none" => new.lacp = old.lacp
           /\ ask[r].match => old = want[r]]_vars

\* What a consumer knows of an aggregation is what the row says, or it will be
\* told: an event is on its way or about to be published.  The exceptions are
\* the announcements that were lost.
ConsumersCatchUp ==
  \A i \in Ids : view[i] # Shown(aggrs[i]) =>
    \/ i \in feed \cup unheard
    \/ \E r \in Reqs : pc[r] = "publish" /\ Announced(r) = i
=============================================================================
