------------------------ MODULE Aggregations_proofs ------------------------
(***************************************************************************)
(* Whatever the requests, the NICs and the failures: links stay together,  *)
(* an update undoes no other, and no change of what consumers are shown is *)
(* dropped unless its announcement was lost.                               *)
(***************************************************************************)
EXTENDS Aggregations, TLAPS

\* What a request has gathered by the call it makes next.  An answered request
\* keeps it until the event is out, for the event names the row it put.
Gathered(r) ==
  /\ DOMAIN seen[r] = ask[r].macs
  /\ ask[r].macs # {} => \E s \in Servers : \A m \in ask[r].macs : seen[r][m] = s
  /\ ask[r].op = "update" => read[r] # None

Kept(r) == ask[r].op = "update" => read[r] # None /\ (ask[r].match => read[r] = want[r])

\* Where a request is, and what it has read.
Place(r) ==
  /\ pc[r] \in {"idle", "get"} => DOMAIN seen[r] = {}
  /\ pc[r] = "get" => ask[r].op # "create"
  /\ pc[r] \in {"macs", "put"} => ask[r].op # "delete" /\ Kept(r)
  /\ pc[r] = "macs" => ask[r].macs # {}
  /\ pc[r] = "del" => ask[r].op = "delete"
  /\ pc[r] \in {"put", "publish"} /\ ask[r].op # "delete" => Gathered(r)

Places == \A r \in Reqs : Place(r)

\* The table of what was seen: a function with a value for each request.
Tables == seen = [r \in Reqs |-> seen[r]]

\* What a request holds of NICs that nobody moves is so.
Held(r) ==
  /\ \A m \in (DOMAIN seen[r]) \ MovableNics : seen[r][m] = nics[m]
  /\ \A m \in read[r].macs \ MovableNics : nics[m] = read[r].owner

Holdings == \A r \in Reqs : Held(r)

AggrInv == TypeOK /\ Tables /\ Places
LinkInv == AggrInv /\ LinksTogether /\ Holdings
-----------------------------------------------------------------------------
(* Types and places.                                                       *)

LEMMA NoneIsNoRow == None \notin Row
  BY AggrOwners DEF None, Row

LEMMA NoAskIs == NoAsk \in Asks
  BY AggrAsks DEF NoAsk

LEMMA AskIs ==
  ASSUME TypeOK, NEW r \in Reqs
  PROVE  /\ ask[r] \in Asks /\ ask[r].op \in {"create", "update", "delete"}
         /\ ask[r].id \in Ids /\ ask[r].id[2] \in Names /\ ask[r].macs \subseteq Macs
         /\ ask[r].lacp \in Modes \cup {"none"} /\ ask[r].match \in BOOLEAN
         /\ ask[r].op = "create" => ask[r].macs # {} /\ ~ask[r].match
<1>1. ask[r] \in Asks /\ ask[r] \in Ask
  BY AggrAsks DEF TypeOK
<1> QED
  BY <1>1, AggrAsks DEF Ask, Ids

LEMMA OwnerIs ==
  ASSUME TypeOK, NEW r \in Reqs, Gathered(r), ask[r].macs # {}
  PROVE  /\ OwnerSeen(r) \in Servers
         /\ \A m \in ask[r].macs : seen[r][m] = OwnerSeen(r)
<1>1. (CHOOSE m \in ask[r].macs : TRUE) \in ask[r].macs
  OBVIOUS
<1> QED
  BY <1>1 DEF Gathered, OwnerSeen

\* The row to put is a row, and its id is one.
LEMMA NewRowIs ==
  ASSUME TypeOK, NEW r \in Reqs, Gathered(r), ask[r].op # "delete"
  PROVE  NewRow(r) \in Row /\ NewId(r) \in Ids /\ Key(r) \in Ids /\ Announced(r) \in Ids
<1>1. ask[r].op = "update" => read[r] \in Row
  BY DEF TypeOK, Gathered
<1>2. ask[r].macs = {} => read[r] \in Row
  BY <1>1, AskIs
<1>3. NewRow(r).owner \in Servers
  BY <1>2, OwnerIs DEF NewRow, Row
<1>4. NewRow(r).macs \in (SUBSET Macs) \ {{}}
  BY <1>2, AskIs DEF NewRow, Row
<1>5. NewRow(r).lacp \in Modes
  BY <1>1, AskIs DEF NewRow, Row, Modes
<1>6. NewRow(r) \in Row
  BY <1>3, <1>4, <1>5 DEF NewRow, Row
<1>7. NewId(r) \in Ids
  BY <1>3, AskIs DEF NewId, Ids
<1> QED
  BY <1>6, <1>7, AskIs DEF Key, Announced

LEMMA AnnouncedIs ==
  ASSUME TypeOK, Places, NEW r \in Reqs, pc[r] = "publish"
  PROVE  Announced(r) \in Ids
<1>1. CASE ask[r].op = "delete"
  BY <1>1, AskIs DEF Announced
<1>2. CASE ask[r].op # "delete"
  BY <1>2, NewRowIs DEF Places, Place
<1> QED
  BY <1>1, <1>2

LEMMA FaultIs == ASSUME TypeOK, Fault \/ UNCHANGED faults PROVE faults' \in 0..MaxFaults
  BY AggrStart DEF TypeOK, Fault

\* A request that no step touches stays where it is.
LEMMA Untouched ==
  ASSUME NEW q \in Reqs, Place(q), pc'[q] = pc[q], ask'[q] = ask[q], want'[q] = want[q],
         read'[q] = read[q], seen'[q] = seen[q]
  PROVE  Place(q)'
  BY DEF Place, Kept, Gathered

LEMMA InitInv == Init => AggrInv
<1>1. Init => TypeOK
  BY NoAskIs, AggrStart DEF Init, TypeOK, Calls, Unread
<1>2. Init => Tables /\ Places
  BY DEF Init, Tables, Places, Place, Unread
<1> QED
  BY <1>1, <1>2 DEF AggrInv

\* However a request ends.
LEMMA EndsInv ==
  ASSUME AggrInv, NEW r \in Reqs, Ends(r), Fault \/ UNCHANGED faults,
         nics' \in [Macs -> Owners], aggrs' \in [Ids -> Row \cup {None}],
         feed' \subseteq Ids, view' \in [Ids -> Modes \cup {"none"}], unheard' \subseteq Ids
  PROVE  AggrInv'
<1> USE DEF AggrInv
<1>1. /\ pc' \in [Reqs -> Calls] /\ ask' \in [Reqs -> Asks]
      /\ want' \in [Reqs -> Row \cup {None}] /\ read' \in [Reqs -> Row \cup {None}]
  BY NoAskIs DEF TypeOK, Ends, Goes, Calls
<1>2. Tables' /\ seen'[r] = Unread /\ pc'[r] = "idle"
  BY DEF Tables, TypeOK, Ends, Goes
<1>3. ASSUME NEW q \in Reqs \ {r}
      PROVE  /\ pc'[q] = pc[q] /\ ask'[q] = ask[q] /\ want'[q] = want[q]
             /\ read'[q] = read[q] /\ seen'[q] = seen[q]
  BY DEF Tables, TypeOK, Ends, Goes
<1>4. Places'
  <2>1. Place(r)'
    BY <1>2 DEF Place, Unread
  <2> QED
    BY <2>1, <1>3, Untouched DEF Places
<1>5. TypeOK'
  BY <1>1, <1>2, <1>3, FaultIs DEF TypeOK, Unread
<1> QED
  BY <1>2, <1>4, <1>5

LEMMA StartStep ==
  ASSUME AggrInv, NEW r \in Reqs, NEW a \in Asks, Start(r, a)
  PROVE  AggrInv'
<1> USE DEF AggrInv
<1>0. DOMAIN seen[r] = {} /\ seen' = seen
  BY DEF Start, Places, Place
<1>1. a \in Ask /\ (a.op = "create" => a.macs # {} /\ ~a.match)
  BY AggrAsks
<1>2. /\ pc' \in [Reqs -> Calls] /\ ask' \in [Reqs -> Asks] /\ want' \in [Reqs -> Row \cup {None}]
  BY <1>1 DEF TypeOK, Start, Goes, Calls, Ask
<1>3. /\ ask'[r] = a /\ pc'[r] = IF a.op = "create" THEN "macs" ELSE "get"
  BY DEF TypeOK, Start, Goes
<1>4. TypeOK'
  BY <1>0, <1>2, <1>3 DEF TypeOK, Start, Goes
<1>5. ASSUME NEW q \in Reqs PROVE Place(q)'
  <2>1. CASE q = r
    BY <1>0, <1>1, <1>3, <2>1 DEF Place, Kept, Ask
  <2>2. CASE q # r
    BY <2>2, Untouched DEF Start, Goes, Places, TypeOK
  <2> QED
    BY <2>1, <2>2
<1> QED
  BY <1>4, <1>5 DEF Tables, Places, Start

LEMMA GetStep ==
  ASSUME AggrInv, NEW r \in Reqs, Get(r)
  PROVE  AggrInv'
<1> USE DEF AggrInv
<1> DEFINE row == aggrs[ask[r].id]
<1>1. CASE Ends(r)
  BY <1>1, EndsInv DEF Get, TypeOK
<1>2. CASE ~Ends(r)
  <2>1. /\ row # None /\ (ask[r].match => row = want[r])
        /\ read' = [read EXCEPT ![r] = row] /\ UNCHANGED <<ask, want, seen>>
        /\ Goes(r, IF ask[r].op = "delete" THEN "del"
                   ELSE IF ask[r].macs = {} THEN "put" ELSE "macs")
    BY <1>2 DEF Get
  <2>2. row \in Row \cup {None} /\ DOMAIN seen[r] = {} /\ ask[r].op # "create"
    BY AskIs DEF TypeOK, Get, Places, Place
  <2>3. /\ pc' \in [Reqs -> Calls] /\ read' \in [Reqs -> Row \cup {None}] /\ read'[r] = row
        /\ pc'[r] = IF ask[r].op = "delete" THEN "del"
                    ELSE IF ask[r].macs = {} THEN "put" ELSE "macs"
    BY <2>1, <2>2 DEF TypeOK, Goes, Calls
  <2>4. ASSUME NEW q \in Reqs PROVE Place(q)'
    <3>1. CASE q = r
      BY <2>1, <2>2, <2>3, <3>1, AskIs DEF Place, Kept, Gathered
    <3>2. CASE q # r
      BY <2>1, <3>2, Untouched DEF Goes, Places, TypeOK
    <3> QED
      BY <3>1, <3>2
  <2>5. \A q \in Reqs : q # r => pc'[q] = pc[q] /\ read'[q] = read[q]
    BY <2>1 DEF Goes, TypeOK
  <2>6. TypeOK'
    <3>1. ASSUME NEW q \in Reqs
          PROVE  /\ DOMAIN seen'[q] \subseteq ask'[q].macs
                 /\ \A x \in DOMAIN seen'[q] : seen'[q][x] \in Owners
                 /\ pc'[q] = "put" =>
                      /\ DOMAIN seen'[q] = ask'[q].macs
                      /\ \A x \in ask'[q].macs : seen'[q][x] \in Servers
                      /\ ask'[q].op = "update" => read'[q] # None
      <4>1. CASE q = r
        BY <2>1, <2>2, <2>3, <4>1
      <4>2. CASE q # r
        BY <2>1, <2>5, <4>2 DEF TypeOK
      <4> QED
        BY <4>1, <4>2
    <3> QED
      BY <2>1, <2>3, <3>1 DEF TypeOK, Get
  <2> QED
    BY <2>1, <2>4, <2>6 DEF Tables, Places
<1> QED
  BY <1>1, <1>2

LEMMA ReadNicStep ==
  ASSUME AggrInv, NEW r \in Reqs, NEW m \in Macs, ReadNic(r, m)
  PROVE  AggrInv'
<1> USE DEF AggrInv
<1> DEFINE now == [x \in DOMAIN seen[r] \cup {m} |-> IF x = m THEN nics[m] ELSE seen[r][x]]
<1>1. CASE Ends(r)
  BY <1>1, EndsInv DEF ReadNic, TypeOK
<1>2. CASE ~Ends(r)
  <2>1. /\ pc[r] = "macs" /\ m \in ask[r].macs
        /\ seen' = [seen EXCEPT ![r] = now] /\ UNCHANGED <<ask, want, read>>
        /\ Goes(r, IF DOMAIN now = ask[r].macs THEN "put" ELSE "macs")
        /\ DOMAIN now = ask[r].macs => OneServer({now[x] : x \in ask[r].macs})
    BY <1>2 DEF ReadNic
  <2>2. /\ DOMAIN now \subseteq ask[r].macs
        /\ \A x \in DOMAIN now : now[x] \in Owners
    BY <2>1 DEF TypeOK
  <2>3. /\ pc' \in [Reqs -> Calls] /\ Tables' /\ seen'[r] = now
        /\ pc'[r] = IF DOMAIN now = ask[r].macs THEN "put" ELSE "macs"
    BY <2>1 DEF TypeOK, Goes, Calls, Tables
  <2>4. ASSUME pc'[r] = "put"
        PROVE  DOMAIN now = ask[r].macs /\ \E s \in Servers : \A x \in ask[r].macs : now[x] = s
    <3>1. DOMAIN now = ask[r].macs
      BY <2>3, <2>4
    <3>2. PICK s \in Servers : {now[x] : x \in ask[r].macs} = {s}
      BY <2>1, <3>1 DEF OneServer
    <3> HIDE DEF now
    <3>3. \A x \in ask[r].macs : now[x] \in {s}
      BY <3>2
    <3> QED
      BY <3>1, <3>3
  <2>5. \A q \in Reqs : q # r => pc'[q] = pc[q] /\ seen'[q] = seen[q]
    BY <2>1 DEF Goes, TypeOK, Tables
  <2>6. ask[r].op # "delete" /\ Kept(r) /\ ask[r].macs # {}
    BY <2>1 DEF Places, Place
  <2>7. ASSUME NEW q \in Reqs PROVE Place(q)'
    <3>1. CASE q = r
      <4>1. pc'[r] \in {"put", "macs"} /\ ask' = ask /\ read' = read /\ want' = want
        BY <2>1, <2>3
      <4> HIDE DEF now
      <4> QED
        BY <2>3, <2>4, <2>6, <3>1, <4>1 DEF Place, Kept, Gathered
    <3>2. CASE q # r
      BY <2>1, <2>5, <3>2, Untouched DEF Places
    <3> QED
      BY <3>1, <3>2
  <2>8. TypeOK'
    <3>1. ASSUME NEW q \in Reqs
          PROVE  /\ DOMAIN seen'[q] \subseteq ask'[q].macs
                 /\ \A x \in DOMAIN seen'[q] : seen'[q][x] \in Owners
                 /\ pc'[q] = "put" =>
                      /\ DOMAIN seen'[q] = ask'[q].macs
                      /\ \A x \in ask'[q].macs : seen'[q][x] \in Servers
                      /\ ask'[q].op = "update" => read'[q] # None
      <4> HIDE DEF now
      <4>1. CASE q = r
        BY <2>1, <2>2, <2>3, <2>4, <2>6, <4>1 DEF Kept
      <4>2. CASE q # r
        BY <2>1, <2>5, <4>2 DEF TypeOK
      <4> QED
        BY <4>1, <4>2
    <3> QED
      BY <2>1, <2>3, <3>1 DEF TypeOK, ReadNic
  <2> QED
    BY <2>3, <2>7, <2>8 DEF Places
<1> QED
  BY <1>1, <1>2

\* A step that lets a request go on to publish.
LEMMA PublishInv ==
  ASSUME AggrInv, NEW r \in Reqs, Goes(r, "publish"), UNCHANGED <<nics, ask, want, read, seen, feed, view>>,
         ask[r].op # "delete" => Gathered(r),
         aggrs' \in [Ids -> Row \cup {None}], unheard' \subseteq Ids, UNCHANGED faults
  PROVE  AggrInv'
<1> USE DEF AggrInv
<1>1. pc' \in [Reqs -> Calls] /\ pc'[r] = "publish" /\ \A q \in Reqs : q # r => pc'[q] = pc[q]
  BY DEF TypeOK, Goes, Calls
<1>2. ASSUME NEW q \in Reqs PROVE Place(q)'
  <2>1. CASE q = r
    BY <1>1, <2>1 DEF Place, Gathered
  <2>2. CASE q # r
    BY <1>1, <2>2, Untouched DEF Places
  <2> QED
    BY <2>1, <2>2
<1>3. TypeOK'
  BY <1>1 DEF TypeOK
<1> QED
  BY <1>2, <1>3 DEF Tables, Places

LEMMA PutStep ==
  ASSUME AggrInv, NEW r \in Reqs, PutRow(r)
  PROVE  AggrInv'
<1> USE DEF AggrInv
<1>1. /\ pc[r] = "put" /\ Gathered(r) /\ ask[r].op # "delete"
      /\ NewRow(r) \in Row /\ Key(r) \in Ids
  BY NewRowIs DEF PutRow, Places, Place
<1>2. /\ aggrs' \in [Ids -> Row \cup {None}] /\ UNCHANGED <<nics, feed, view>>
      /\ unheard' \subseteq Ids
  <2>1. Untold(r) \subseteq Ids
    BY <1>1 DEF Untold
  <2> QED
    BY <1>1, <2>1 DEF PutRow, TypeOK
<1>3. CASE Ends(r)
  <2>1. Fault \/ UNCHANGED faults
    BY DEF PutRow
  <2> QED
    BY <1>2, <1>3, <2>1, EndsInv DEF TypeOK
<1>4. CASE ~Ends(r)
  BY <1>1, <1>2, <1>4, PublishInv DEF PutRow
<1> QED
  BY <1>3, <1>4

LEMMA DeleteStep ==
  ASSUME AggrInv, NEW r \in Reqs, DeleteRow(r)
  PROVE  AggrInv'
<1> USE DEF AggrInv
<1>1. ask[r].op = "delete" /\ ask[r].id \in Ids
  BY AskIs DEF DeleteRow, Places, Place
<1>2. /\ aggrs' \in [Ids -> Row \cup {None}] /\ UNCHANGED <<nics, feed, view>>
      /\ unheard' \subseteq Ids
  BY <1>1 DEF DeleteRow, TypeOK
<1>3. CASE Ends(r)
  <2>1. Fault \/ UNCHANGED faults
    BY DEF DeleteRow
  <2> QED
    BY <1>2, <1>3, <2>1, EndsInv DEF TypeOK
<1>4. CASE ~Ends(r)
  BY <1>1, <1>2, <1>4, PublishInv DEF DeleteRow
<1> QED
  BY <1>3, <1>4

LEMMA LastSteps ==
  ASSUME AggrInv, NEW r \in Reqs, Publish(r) \/ Stop(r)
  PROVE  AggrInv'
<1> USE DEF AggrInv
<1>1. pc[r] = "publish" => Announced(r) \in Ids
  BY AnnouncedIs
<1>2. /\ feed' \subseteq Ids /\ unheard' \subseteq Ids /\ UNCHANGED <<nics, aggrs, view>>
      /\ Ends(r) /\ (Fault \/ UNCHANGED faults)
  BY <1>1 DEF Publish, Stop, TypeOK
<1> QED
  BY <1>2, EndsInv DEF TypeOK

LEMMA OutsideSteps ==
  ASSUME AggrInv,
         \/ \E m \in Macs, o \in Owners : MoveNic(m, o)
         \/ \E i \in Ids : Deliver(i)
  PROVE  AggrInv'
<1> USE DEF AggrInv
<1>1. UNCHANGED <<aggrs, pc, ask, want, read, seen, faults>>
  BY DEF MoveNic, Deliver
<1>2. nics' \in [Macs -> Owners] /\ feed' \subseteq Ids /\ unheard' \subseteq Ids
  BY DEF MoveNic, Deliver, TypeOK
<1>3. view' \in [Ids -> Modes \cup {"none"}]
  <2>1. \A i \in Ids : Shown(aggrs[i]) \in Modes \cup {"none"}
    BY DEF TypeOK, Shown, Row, None
  <2> QED
    BY <2>1 DEF MoveNic, Deliver, TypeOK
<1>4. TypeOK' /\ Tables'
  BY <1>1, <1>2, <1>3 DEF TypeOK, Tables
<1>5. Places'
  BY <1>1, Untouched DEF Places
<1> QED
  BY <1>4, <1>5

LEMMA StepInv == AggrInv /\ [Next]_vars => AggrInv'
<1> SUFFICES ASSUME AggrInv, [Next]_vars PROVE AggrInv'
  OBVIOUS
<1>1. CASE UNCHANGED vars
  <2>1. TypeOK' /\ Tables'
    BY <1>1 DEF AggrInv, TypeOK, Tables, vars
  <2>2. Places'
    BY <1>1, Untouched DEF AggrInv, Places, vars
  <2> QED
    BY <2>1, <2>2 DEF AggrInv
<1>2. CASE Next
  <2>1. ASSUME NEW r \in Reqs, \E a \in Asks : Start(r, a) PROVE AggrInv'
    BY <2>1, StartStep
  <2>2. ASSUME NEW r \in Reqs, \E m \in Macs : ReadNic(r, m) PROVE AggrInv'
    BY <2>2, ReadNicStep
  <2>3. ASSUME NEW r \in Reqs, Get(r) \/ PutRow(r) \/ DeleteRow(r) \/ Publish(r) \/ Stop(r)
        PROVE  AggrInv'
    BY <2>3, GetStep, PutStep, DeleteStep, LastSteps
  <2> QED
    BY <1>2, <2>1, <2>2, <2>3, OutsideSteps DEF Next
<1> QED
  BY <1>1, <1>2

LEMMA AggrInvariant == Spec => []AggrInv
<1> QED
  BY InitInv, StepInv, PTL DEF Spec

\* Every variable of lib/models/aggregation.js's requests keeps its type: what
\* is put is a whole row, and what is announced an id, whatever the update gave.
THEOREM TypeCorrect == Spec => []TypeOK
<1>1. AggrInv => TypeOK
  BY DEF AggrInv
<1> QED
  BY <1>1, AggrInvariant, PTL
-----------------------------------------------------------------------------
(* Links.  What a request holds of NICs that nobody moves stays so, and what  *)
(* it puts agrees with it.                                                    *)

LEMMA UntouchedHeld ==
  ASSUME NEW q \in Reqs, Held(q), read'[q] = read[q], seen'[q] = seen[q],
         \A m \in Macs \ MovableNics : nics'[m] = nics[m],
         DOMAIN seen[q] \subseteq Macs, read[q].macs \subseteq Macs
  PROVE  Held(q)'
  BY DEF Held

LEMMA EndedHeld ==
  ASSUME AggrInv, Holdings, NEW r \in Reqs, Ends(r), UNCHANGED nics
  PROVE  Holdings'
<1> SUFFICES ASSUME NEW q \in Reqs PROVE Held(q)'
  BY DEF Holdings
<1>1. CASE q = r
  <2>1. read'[r] = None /\ seen'[r] = Unread
    BY DEF Ends, AggrInv, TypeOK, Tables
  <2> QED
    BY <1>1, <2>1 DEF Held, None, Unread
<1>2. CASE q # r
  <2>1. read'[q] = read[q] /\ seen'[q] = seen[q]
    BY <1>2 DEF Ends, AggrInv, TypeOK, Tables
  <2> QED
    BY <2>1 DEF Held, Holdings
<1> QED
  BY <1>1, <1>2

LEMMA SameHeld == ASSUME Holdings, UNCHANGED <<nics, read, seen>> PROVE Holdings'
  BY DEF Holdings, Held

\* The links of the row to put are where it says they are.
LEMMA NewRowTogether ==
  ASSUME LinkInv, NEW r \in Reqs, Gathered(r)
  PROVE  \A m \in NewRow(r).macs \ MovableNics : nics[m] = NewRow(r).owner
<1>1. CASE ask[r].macs = {}
  BY <1>1 DEF LinkInv, Holdings, Held, NewRow
<1>2. CASE ask[r].macs # {}
  <2>1. \A m \in ask[r].macs : seen[r][m] = OwnerSeen(r)
    BY <1>2, OwnerIs DEF LinkInv, AggrInv
  <2>2. \A m \in ask[r].macs \ MovableNics : seen[r][m] = nics[m]
    BY DEF LinkInv, Holdings, Held, Gathered
  <2>3. NewRow(r).macs = ask[r].macs /\ NewRow(r).owner = OwnerSeen(r)
    BY <1>2 DEF NewRow
  <2> QED
    BY <2>1, <2>2, <2>3
<1> QED
  BY <1>1, <1>2

LEMMA InitLinks == Init => LinkInv
<1>1. Init => LinksTogether
  BY DEF Init, LinksTogether, None
<1>2. Init => Holdings
  <2>1. None.macs = {} /\ DOMAIN Unread = {}
    BY DEF None, Unread
  <2>2. ASSUME Init, NEW r \in Reqs PROVE read[r] = None /\ seen[r] = Unread
    BY <2>2 DEF Init
  <2> QED
    BY <2>1, <2>2 DEF Holdings, Held
<1> QED
  BY <1>1, <1>2, InitInv DEF LinkInv

LEMMA RequestLinks ==
  ASSUME LinkInv, NEW r \in Reqs,
         \/ \E a \in Asks : Start(r, a)
         \/ \E m \in Macs : ReadNic(r, m)
         \/ Get(r) \/ PutRow(r) \/ DeleteRow(r) \/ Publish(r) \/ Stop(r)
  PROVE  LinksTogether' /\ Holdings'
<1>1. ASSUME NEW a \in Asks, Start(r, a) PROVE LinksTogether' /\ Holdings'
  BY <1>1, SameHeld DEF LinkInv, LinksTogether, Start
<1>2. ASSUME NEW m \in Macs, ReadNic(r, m) PROVE LinksTogether' /\ Holdings'
  <2>1. LinksTogether' /\ UNCHANGED nics
    BY <1>2 DEF LinkInv, LinksTogether, ReadNic
  <2>2. CASE Ends(r)
    BY <2>1, <2>2, EndedHeld DEF LinkInv
  <2>3. CASE ~Ends(r)
    <3> DEFINE now == [x \in DOMAIN seen[r] \cup {m} |-> IF x = m THEN nics[m] ELSE seen[r][x]]
    <3>1. seen' = [seen EXCEPT ![r] = now] /\ UNCHANGED <<nics, read>>
      BY <1>2, <2>3 DEF ReadNic
    <3>2. \A x \in (DOMAIN now) \ MovableNics : now[x] = nics[x]
      BY DEF LinkInv, Holdings, Held
    <3> HIDE DEF now
    <3>3. seen'[r] = now /\ \A q \in Reqs : q # r => seen'[q] = seen[q]
      BY <3>1 DEF LinkInv, AggrInv, Tables
    <3>4. Holdings'
      BY <3>1, <3>2, <3>3 DEF LinkInv, Holdings, Held
    <3> QED
      BY <2>1, <3>4
  <2> QED
    BY <2>2, <2>3
<1>3. ASSUME Get(r) PROVE LinksTogether' /\ Holdings'
  <2>1. LinksTogether' /\ UNCHANGED nics
    BY <1>3 DEF LinkInv, LinksTogether, Get
  <2>2. CASE Ends(r)
    BY <2>1, <2>2, EndedHeld DEF LinkInv
  <2>3. CASE ~Ends(r)
    <3> DEFINE row == aggrs[ask[r].id]
    <3>1. read' = [read EXCEPT ![r] = row] /\ UNCHANGED <<nics, seen>>
      BY <1>3, <2>3 DEF Get
    <3>2. \A m \in row.macs \ MovableNics : nics[m] = row.owner
      BY AskIs DEF LinkInv, AggrInv, LinksTogether
    <3>3. read'[r] = row /\ \A q \in Reqs : q # r => read'[q] = read[q]
      BY <3>1 DEF LinkInv, AggrInv, TypeOK
    <3> HIDE DEF row
    <3>4. Holdings'
      BY <3>1, <3>2, <3>3 DEF LinkInv, Holdings, Held
    <3> QED
      BY <2>1, <3>4
  <2> QED
    BY <2>2, <2>3
<1>4. ASSUME PutRow(r) PROVE LinksTogether' /\ Holdings'
  <2>1. Holdings'
    <3>1. Ends(r) \/ UNCHANGED <<read, seen>>
      BY <1>4 DEF PutRow
    <3> QED
      BY <1>4, <3>1, EndedHeld, SameHeld DEF PutRow, LinkInv
  <2>2. LinksTogether'
    <3>1. \A m \in NewRow(r).macs \ MovableNics : nics[m] = NewRow(r).owner
      BY <1>4, NewRowTogether DEF PutRow, LinkInv, AggrInv, Places, Place
    <3>2. /\ UNCHANGED nics
          /\ \A i \in Ids : aggrs'[i] = aggrs[i] \/ aggrs'[i] = NewRow(r)
      BY <1>4 DEF PutRow, LinkInv, AggrInv, TypeOK
    <3> QED
      BY <3>1, <3>2 DEF LinksTogether, LinkInv
  <2> QED
    BY <2>1, <2>2
<1>5. ASSUME DeleteRow(r) PROVE LinksTogether' /\ Holdings'
  <2>1. Holdings'
    <3>1. Ends(r) \/ UNCHANGED <<read, seen>>
      BY <1>5 DEF DeleteRow
    <3> QED
      BY <1>5, <3>1, EndedHeld, SameHeld DEF DeleteRow, LinkInv
  <2>2. UNCHANGED nics /\ \A i \in Ids : aggrs'[i] = aggrs[i] \/ aggrs'[i] = None
    BY <1>5 DEF DeleteRow, LinkInv, AggrInv, TypeOK
  <2>3. LinksTogether'
    BY <2>2 DEF LinksTogether, LinkInv, None
  <2> QED
    BY <2>1, <2>3
<1>6. ASSUME Publish(r) \/ Stop(r) PROVE LinksTogether' /\ Holdings'
  BY <1>6, EndedHeld DEF Publish, Stop, LinkInv, LinksTogether
<1> QED
  BY <1>1, <1>2, <1>3, <1>4, <1>5, <1>6

LEMMA OutsideLinks ==
  ASSUME LinkInv,
         \/ \E m \in Macs, o \in Owners : MoveNic(m, o)
         \/ \E i \in Ids : Deliver(i)
  PROVE  LinksTogether' /\ Holdings'
<1>1. UNCHANGED <<aggrs, read, seen>> /\ \A m \in Macs \ MovableNics : nics'[m] = nics[m]
  BY DEF MoveNic, Deliver, LinkInv, AggrInv, TypeOK
<1>2. ASSUME NEW row \in Row \cup {None} PROVE row.macs \subseteq Macs
  BY DEF Row, None
<1>3. LinksTogether'
  <2>1. \A i \in Ids : aggrs[i].macs \subseteq Macs
    BY <1>2 DEF LinkInv, AggrInv, TypeOK
  <2> QED
    BY <1>1, <2>1 DEF LinkInv, LinksTogether
<1>4. ASSUME NEW q \in Reqs PROVE Held(q)'
  <2>1. DOMAIN seen[q] \subseteq Macs /\ read[q].macs \subseteq Macs
    BY <1>2, AskIs DEF LinkInv, AggrInv, TypeOK
  <2> QED
    BY <1>1, <2>1, UntouchedHeld DEF LinkInv, Holdings
<1> QED
  BY <1>3, <1>4 DEF Holdings

LEMMA LinkInvariant == Spec => []LinkInv
<1>1. LinkInv /\ [Next]_vars => LinkInv'
  <2> SUFFICES ASSUME LinkInv, [Next]_vars PROVE LinkInv'
    OBVIOUS
  <2>1. AggrInv'
    BY StepInv DEF LinkInv
  <2>2. CASE UNCHANGED vars
    BY <2>1, <2>2, SameHeld DEF vars, LinkInv, LinksTogether
  <2>3. CASE Next
    BY <2>1, <2>3, RequestLinks, OutsideLinks DEF Next, LinkInv
  <2> QED
    BY <2>2, <2>3
<1> QED
  BY <1>1, InitLinks, PTL DEF Spec

\* In every reachable state the links of an aggregation that no NIC request has
\* moved are NICs of the server it names, in whatever order creates and updates
\* of its links, its owner and its mode overlap.
THEOREM LinksStayTogether == Spec => []LinksTogether
<1>1. LinkInv => LinksTogether
  BY DEF LinkInv
<1> QED
  BY <1>1, LinkInvariant, PTL
-----------------------------------------------------------------------------
(* Updates.                                                                *)

\* Only a put or a delete of a row changes one, and it takes its request on.
LEMMA WhoWrites ==
  ASSUME AggrInv, Next, aggrs' # aggrs
  PROVE  \E r \in Reqs : /\ PutRow(r) \/ DeleteRow(r)
                         /\ \A q \in Reqs : q # r => pc'[q] = pc[q]
<1>1. PICK r \in Reqs : PutRow(r) \/ DeleteRow(r)
  BY DEF Next, Start, ReadNic, Get, Publish, Stop, MoveNic, Deliver
<1>2. \A q \in Reqs : q # r => pc'[q] = pc[q]
  BY <1>1 DEF PutRow, DeleteRow, Ends, Goes, AggrInv, TypeOK
<1> QED
  BY <1>1, <1>2

\* A put of an update takes effect only over the row as the request read it, the
\* one that If-Match names: it gives back no field another request has changed
\* since, and it never brings back a row that a delete took.
THEOREM UpdatesKeepTheRest == Spec => UpdateKeepsTheRest
<1> DEFINE Keeps(r) ==
      LET old == aggrs[ask[r].id]
          new == aggrs'[ask[r].id]
      IN  /\ old # None
          /\ ask[r].macs = {} => new.macs = old.macs /\ new.owner = old.owner
          /\ ask[r].lacp = "none" => new.lacp = old.lacp
          /\ ask[r].match => old = want[r]
<1>1. ASSUME AggrInv, [Next]_vars, NEW r \in Reqs, Updates(r)
      PROVE  Keeps(r)
  <2>1. aggrs' # aggrs /\ pc[r] = "put" /\ pc'[r] # "put" /\ ask[r].op = "update"
    BY <1>1 DEF Updates
  <2>2. Next
    BY <1>1, <2>1 DEF vars
  <2>3. PutRow(r)
    BY <1>1, <2>1, <2>2, WhoWrites DEF DeleteRow
  <2>4. Key(r) = ask[r].id /\ ask[r].id \in Ids
    BY <1>1, <2>1, AskIs DEF Key, AggrInv
  <2>5. aggrs[ask[r].id] = read[r] /\ aggrs'[ask[r].id] = NewRow(r)
    BY <1>1, <2>1, <2>3, <2>4 DEF PutRow, Fresh, AggrInv, TypeOK
  <2>6. read[r] # None /\ (ask[r].match => read[r] = want[r])
    BY <1>1, <2>1 DEF AggrInv, Places, Place, Kept
  <2> QED
    BY <2>1, <2>5, <2>6 DEF NewRow
<1>2. AggrInv /\ [Next]_vars => [\A r \in Reqs : Updates(r) => Keeps(r)]_vars
  BY <1>1
<1> QED
  BY <1>2, AggrInvariant, PTL DEF Spec, UpdateKeepsTheRest
-----------------------------------------------------------------------------
(* The changefeed.                                                         *)

\* An event is on its way, lost, or about to be published.
Told(i) ==
  \/ i \in feed \cup unheard
  \/ \E r \in Reqs : pc[r] = "publish" /\ Announced(r) = i

\* What a request announces hangs on what it asks and has read alone.
LEMMA SameAnnounced ==
  ASSUME NEW q \in Reqs, ask'[q] = ask[q], read'[q] = read[q], seen'[q] = seen[q]
  PROVE  Announced(q)' = Announced(q)
<1>1. OwnerSeen(q)' = OwnerSeen(q)
  BY DEF OwnerSeen
<1>2. NewRow(q)'.owner = NewRow(q).owner
  BY <1>1 DEF NewRow
<1> QED
  BY <1>2 DEF Announced, NewId

\* A step that takes one request on leaves what the others are to announce.
LEMMA StillTold ==
  ASSUME AggrInv, NEW r \in Reqs, pc[r] # "publish",
         \A q \in Reqs : q # r => /\ pc'[q] = pc[q] /\ ask'[q] = ask[q]
                                 /\ read'[q] = read[q] /\ seen'[q] = seen[q],
         feed \subseteq feed', unheard \subseteq unheard',
         NEW i \in Ids, Told(i)
  PROVE  Told(i)'
<1>1. CASE i \in feed \cup unheard
  BY <1>1 DEF Told
<1>2. ASSUME NEW q \in Reqs, pc[q] = "publish", Announced(q) = i PROVE Told(i)'
  <2>1. q # r
    BY <1>2
  <2>2. pc'[q] = "publish" /\ Announced(q)' = Announced(q)
    BY <1>2, <2>1, SameAnnounced
  <2> QED
    BY <1>2, <2>2 DEF Told
<1> QED
  BY <1>1, <1>2 DEF Told

LEMMA EndsOthers ==
  ASSUME AggrInv, NEW r \in Reqs, Ends(r)
  PROVE  \A q \in Reqs : q # r => /\ pc'[q] = pc[q] /\ ask'[q] = ask[q]
                                 /\ read'[q] = read[q] /\ seen'[q] = seen[q]
  BY DEF Ends, Goes, AggrInv, TypeOK, Tables

LEMMA PutTells ==
  ASSUME AggrInv, ConsumersCatchUp, NEW r \in Reqs, PutRow(r)
  PROVE  ConsumersCatchUp'
<1> SUFFICES ASSUME NEW i \in Ids, view'[i] # Shown(aggrs'[i]) PROVE Told(i)'
  BY DEF ConsumersCatchUp, Told
<1>1. /\ pc[r] = "put" /\ Gathered(r) /\ ask[r].op # "delete" /\ UNCHANGED <<feed, view>>
      /\ unheard \subseteq unheard'
  BY DEF PutRow, AggrInv, Places, Place
<1>2. \A q \in Reqs : q # r => /\ pc'[q] = pc[q] /\ ask'[q] = ask[q]
                             /\ read'[q] = read[q] /\ seen'[q] = seen[q]
  <2>1. CASE Ends(r)
    BY <2>1, EndsOthers
  <2>2. CASE ~Ends(r)
    BY <2>2 DEF PutRow, Goes, AggrInv, TypeOK
  <2> QED
    BY <2>1, <2>2
<1>3. CASE view[i] # Shown(aggrs[i])
  BY <1>1, <1>2, <1>3, StillTold DEF ConsumersCatchUp, Told
<1>4. CASE view[i] = Shown(aggrs[i])
  <2>1. i = Key(r) /\ Fresh(r) /\ aggrs'[i] = NewRow(r)
    BY <1>1, <1>4 DEF PutRow, AggrInv, TypeOK
  <2>2. Publishes(r)
    <3> SUFFICES ASSUME ~Publishes(r) PROVE FALSE
      OBVIOUS
    <3>1. ask[r].op = "update" /\ ask[r].lacp = "none"
      BY DEF Publishes
    <3>2. NewRow(r).lacp = read[r].lacp /\ aggrs[i] = read[r]
      BY <2>1, <3>1 DEF NewRow, Fresh
    <3> QED
      BY <1>1, <1>4, <2>1, <3>2 DEF Shown
  <2>3. CASE Key(r) \in unheard'
    BY <2>1, <2>3 DEF Told
  <2>4. CASE Key(r) \notin unheard'
    <3>1. aggrs' # aggrs
      BY <1>1, <1>4
    <3>2. Goes(r, "publish") /\ UNCHANGED <<ask, read, seen>> /\ Untold(r) \subseteq unheard'
      BY <2>2, <2>4, <3>1 DEF PutRow
    <3>3. Announced(r) = Key(r)
      BY <2>2, <2>4, <3>2 DEF Untold
    <3>4. pc'[r] = "publish" /\ Announced(r)' = Announced(r)
      BY <3>2, SameAnnounced DEF Goes, AggrInv, TypeOK
    <3> QED
      BY <2>1, <3>3, <3>4 DEF Told
  <2> QED
    BY <2>3, <2>4
<1> QED
  BY <1>3, <1>4

LEMMA DeleteTells ==
  ASSUME AggrInv, ConsumersCatchUp, NEW r \in Reqs, DeleteRow(r)
  PROVE  ConsumersCatchUp'
<1> SUFFICES ASSUME NEW i \in Ids, view'[i] # Shown(aggrs'[i]) PROVE Told(i)'
  BY DEF ConsumersCatchUp, Told
<1>1. /\ pc[r] = "del" /\ ask[r].op = "delete" /\ UNCHANGED <<feed, view>>
      /\ unheard \subseteq unheard'
  BY DEF DeleteRow, AggrInv, Places, Place
<1>2. \A q \in Reqs : q # r => /\ pc'[q] = pc[q] /\ ask'[q] = ask[q]
                             /\ read'[q] = read[q] /\ seen'[q] = seen[q]
  <2>1. CASE Ends(r)
    BY <2>1, EndsOthers
  <2>2. CASE ~Ends(r)
    BY <2>2 DEF DeleteRow, Goes, AggrInv, TypeOK
  <2> QED
    BY <2>1, <2>2
<1>3. CASE view[i] # Shown(aggrs[i])
  BY <1>1, <1>2, <1>3, StillTold DEF ConsumersCatchUp, Told
<1>4. CASE view[i] = Shown(aggrs[i])
  <2>1. i = ask[r].id /\ aggrs' # aggrs
    BY <1>1, <1>4 DEF DeleteRow, AggrInv, TypeOK
  <2>2. CASE i \in unheard'
    BY <2>2 DEF Told
  <2>3. CASE i \notin unheard'
    <3>1. Goes(r, "publish") /\ UNCHANGED <<ask, read, seen>>
      BY <2>1, <2>3 DEF DeleteRow
    <3>2. pc'[r] = "publish" /\ Announced(r)' = i
      BY <1>1, <2>1, <3>1 DEF Goes, AggrInv, TypeOK, Announced
    <3> QED
      BY <3>2 DEF Told
  <2> QED
    BY <2>2, <2>3
<1> QED
  BY <1>3, <1>4

LEMMA EndTells ==
  ASSUME AggrInv, ConsumersCatchUp, NEW r \in Reqs, Publish(r) \/ Stop(r)
  PROVE  ConsumersCatchUp'
<1> SUFFICES ASSUME NEW i \in Ids, view'[i] # Shown(aggrs'[i]) PROVE Told(i)'
  BY DEF ConsumersCatchUp, Told
<1>1. /\ Ends(r) /\ feed \subseteq feed' /\ unheard \subseteq unheard' /\ UNCHANGED <<aggrs, view>>
      /\ pc[r] = "publish" => Announced(r) \in feed' \cup unheard'
  BY DEF Publish, Stop
<1>2. Told(i)
  BY <1>1 DEF ConsumersCatchUp, Told
<1>3. CASE i \in feed \cup unheard
  BY <1>1, <1>3 DEF Told
<1>4. ASSUME NEW q \in Reqs, pc[q] = "publish", Announced(q) = i PROVE Told(i)'
  <2>1. CASE q = r
    BY <1>1, <1>4, <2>1 DEF Told
  <2>2. CASE q # r
    <3>1. pc'[q] = "publish" /\ Announced(q)' = Announced(q)
      BY <1>1, <1>4, <2>2, EndsOthers, SameAnnounced
    <3> QED
      BY <1>4, <3>1 DEF Told
  <2> QED
    BY <2>1, <2>2
<1> QED
  BY <1>2, <1>3, <1>4 DEF Told

\* A step before the put, of any request.
LEMMA EarlyTells ==
  ASSUME AggrInv, ConsumersCatchUp, NEW r \in Reqs,
         \/ \E a \in Asks : Start(r, a)
         \/ \E m \in Macs : ReadNic(r, m)
         \/ Get(r)
  PROVE  ConsumersCatchUp'
<1> SUFFICES ASSUME NEW i \in Ids, view'[i] # Shown(aggrs'[i]) PROVE Told(i)'
  BY DEF ConsumersCatchUp, Told
<1>1. pc[r] # "publish" /\ UNCHANGED <<aggrs, feed, view, unheard>>
  BY DEF Start, ReadNic, Get
<1>2. \A q \in Reqs : q # r => /\ pc'[q] = pc[q] /\ ask'[q] = ask[q]
                             /\ read'[q] = read[q] /\ seen'[q] = seen[q]
  <2>1. CASE Ends(r)
    BY <2>1, EndsOthers
  <2>2. CASE ~Ends(r)
    BY <2>2 DEF Start, ReadNic, Get, Goes, AggrInv, TypeOK, Tables
  <2> QED
    BY <2>1, <2>2
<1> QED
  BY <1>1, <1>2, StillTold DEF ConsumersCatchUp, Told

LEMMA OutsideTells ==
  ASSUME AggrInv, ConsumersCatchUp,
         \/ \E m \in Macs, o \in Owners : MoveNic(m, o)
         \/ \E j \in Ids : Deliver(j)
         \/ UNCHANGED vars
  PROVE  ConsumersCatchUp'
<1> SUFFICES ASSUME NEW i \in Ids, view'[i] # Shown(aggrs'[i]) PROVE Told(i)'
  BY DEF ConsumersCatchUp, Told
<1>1. UNCHANGED <<aggrs, pc, ask, read, seen>>
  BY DEF MoveNic, Deliver, vars
<1>2. /\ view[i] # Shown(aggrs[i])
      /\ i \in feed \cup unheard => i \in feed' \cup unheard'
  BY <1>1 DEF MoveNic, Deliver, vars, AggrInv, TypeOK
<1>3. Told(i)
  BY <1>2 DEF ConsumersCatchUp, Told
<1>4. ASSUME NEW q \in Reqs, pc[q] = "publish", Announced(q) = i PROVE Told(i)'
  <2>1. pc'[q] = "publish" /\ Announced(q)' = i
    BY <1>1, <1>4, SameAnnounced
  <2> QED
    BY <2>1 DEF Told
<1> QED
  BY <1>2, <1>3, <1>4 DEF Told

\* In every reachable state a consumer of the changefeed knows of each aggregation
\* what its row says, or is to be told: the event is on its way or its request is
\* still to publish it, unless the announcement was lost or made under another id.
THEOREM ConsumersLearn == Spec => []ConsumersCatchUp
<1>1. Init => ConsumersCatchUp
  BY DEF Init, ConsumersCatchUp, Shown, None
<1>2. AggrInv /\ ConsumersCatchUp /\ [Next]_vars => ConsumersCatchUp'
  <2> SUFFICES ASSUME AggrInv, ConsumersCatchUp, [Next]_vars PROVE ConsumersCatchUp'
    OBVIOUS
  <2>1. ASSUME NEW r \in Reqs,
               \/ \E a \in Asks : Start(r, a)
               \/ \E m \in Macs : ReadNic(r, m)
               \/ Get(r) \/ PutRow(r) \/ DeleteRow(r) \/ Publish(r) \/ Stop(r)
        PROVE  ConsumersCatchUp'
    BY <2>1, EarlyTells, PutTells, DeleteTells, EndTells
  <2> QED
    BY <2>1, OutsideTells DEF Next
<1> QED
  BY <1>1, <1>2, AggrInvariant, PTL DEF Spec
=============================================================================
