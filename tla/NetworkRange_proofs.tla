------------------------ MODULE NetworkRange_proofs ------------------------
(***************************************************************************)
(* Proofs about NetworkRange, for every subnet: with one update at a time, *)
(* and no range that moves right past its own end, the range keeps its     *)
(* markers, and so the search for an unused address is complete.           *)
(***************************************************************************)
EXTENDS NetworkRange, TLAPS, WellFoundedInduction

OneUpdate == ~Jumps /\ \A u, v \in Updates : u = v

LEMMA RangeFacts ==
  ASSUME NEW w \in Ranges, NEW s \in Sides
  PROVE  /\ w["start"] \in Nat /\ w["end"] \in Nat /\ w["start"] < w["end"]
         /\ First < w["start"] /\ w["end"] < Last
         /\ Marker(w, s) \in Addrs /\ Marker(w, s) \in Nat
         /\ Marker(w, "start") = w["start"] - 1 /\ Marker(w, "end") = w["end"] + 1
  BY BoundsAssumption DEF Ranges, Sides, Hosts, Addrs, Marker

LEMMA RangeInit == Init => RangeInv
<1> SUFFICES ASSUME Init PROVE RangeInv
  OBVIOUS
<1>1. TypeOK
  BY DEF Init, TypeOK
<1>2. Anchored
  BY RangeFacts DEF Init, Anchored
<1>3. \A u \in Updates : InProgress(u)
  BY DEF Init, InProgress
<1> QED
  BY <1>1, <1>2, <1>3 DEF RangeInv

\* A step that keeps the range and every record keeps Anchored.
LEMMA AnchorsStay ==
  ASSUME TypeOK, Anchored, range' = range,
         \A a \in Addrs : rows[a] # "absent" => rows'[a] # "absent"
  PROVE  Anchored'
  BY RangeFacts DEF Anchored, TypeOK

\* So does it keep what an update that does not move has decided.
LEMMA DecisionsStay ==
  ASSUME TypeOK, NEW u \in Updates, InProgress(u), range' = range,
         pc'[u] = pc[u] \/ pc'[u] = "idle",
         UNCHANGED <<seen, want, stage, drop, put>>,
         \A a \in Addrs : rows[a] # "absent" => rows'[a] # "absent"
  PROVE  InProgress(u)'
  BY RangeFacts DEF InProgress, TypeOK

LEMMA LoadKeeps ==
  ASSUME RangeInv, OneUpdate, NEW u \in Updates, Load(u)
  PROVE  RangeInv'
<1>1. TypeOK'
  BY DEF Load, RangeInv, TypeOK
<1>2. Anchored'
  BY DEF Load, RangeInv, Anchored
<1>3. ASSUME NEW v \in Updates PROVE InProgress(v)'
  <2>1. v = u /\ ~Jumps
    BY DEF OneUpdate
  <2>2. PICK w \in Ranges :
          /\ ~JumpsPast(range, w)
          /\ want'[u] = w /\ seen'[u] = range
          /\ stage'[u] = [s \in Sides |-> IF w[s] # range[s] THEN "old" ELSE "done"]
    BY <2>1 DEF Load, RangeInv, TypeOK
  <2>3. drop'[u] = {} /\ put'[u] = {} /\ range' = range
    BY DEF Load, RangeInv, TypeOK
  <2>4. ~JumpsPast(seen[u], want[u])'
    BY <2>2 DEF JumpsPast
  <2> QED
    BY <2>1, <2>2, <2>3, <2>4 DEF InProgress
<1> QED
  BY <1>1, <1>2, <1>3 DEF RangeInv

LEMMA ReadBeforeKeeps ==
  ASSUME RangeInv, OneUpdate, NEW u \in Updates, NEW s \in Sides, ReadBefore(u, s)
  PROVE  RangeInv'
<1> DEFINE a == Marker(seen[u], s)
<1>1. TypeOK /\ Anchored /\ InProgress(u) /\ pc[u] = "moving" /\ stage[u][s] = "old"
      /\ a \in Addrs
  BY RangeFacts DEF RangeInv, ReadBefore, TypeOK
<1>2. range' = range /\ rows' = rows /\ seen' = seen /\ want' = want /\ put' = put
  BY DEF ReadBefore, Refused
<1>3. CASE pc' = [pc EXCEPT ![u] = "idle"] /\ stage' = stage /\ drop' = drop
  <2>1. TypeOK'
    BY <1>1, <1>2, <1>3 DEF TypeOK
  <2>2. \A v \in Updates : InProgress(v)'
    BY <1>1, <1>2, <1>3, DecisionsStay DEF RangeInv, TypeOK
  <2> QED
    BY <1>1, <1>2, <2>1, <2>2, AnchorsStay DEF RangeInv
<1>4. CASE /\ drop' = IF rows[a] = "blank" THEN [drop EXCEPT ![u] = @ \cup {a}] ELSE drop
           /\ stage' = [stage EXCEPT ![u][s] = "new"] /\ pc' = pc
  <2>1. TypeOK'
    BY <1>1, <1>2, <1>4 DEF TypeOK
  <2>2. ASSUME NEW v \in Updates PROVE InProgress(v)'
    <3>1. v = u
      BY DEF OneUpdate
    <3>2. drop'[u] \subseteq drop[u] \cup {a}
      BY <1>1, <1>4 DEF TypeOK
    <3>3. stage'[u] = [stage[u] EXCEPT ![s] = "new"]
      BY <1>1, <1>4 DEF TypeOK
    <3>4. want[u][s] # seen[u][s]
      BY <1>1 DEF InProgress
    <3>5. \A t \in Sides : (stage'[u][t] = "done") = (stage[u][t] = "done")
      BY <1>1, <3>3 DEF TypeOK
    <3> QED
      BY <1>1, <1>2, <1>4, <3>1, <3>2, <3>4, <3>5 DEF InProgress
  <2> QED
    BY <1>1, <1>2, <2>1, <2>2, AnchorsStay DEF RangeInv
<1> QED
  BY <1>3, <1>4 DEF ReadBefore, Refused
LEMMA ReadAfterKeeps ==
  ASSUME RangeInv, OneUpdate, NEW u \in Updates, NEW s \in Sides, ReadAfter(u, s)
  PROVE  RangeInv'
<1> DEFINE a == Marker(want[u], s)
<1>1. TypeOK /\ Anchored /\ InProgress(u) /\ pc[u] = "moving" /\ stage[u][s] = "new"
      /\ a \in Addrs
  BY RangeFacts DEF RangeInv, ReadAfter, TypeOK
<1>2. /\ range' = range /\ rows' = rows /\ pc' = pc
      /\ seen' = seen /\ want' = want /\ drop' = drop
  BY DEF ReadAfter
<1>3. put' = IF rows[a] = "absent" THEN [put EXCEPT ![u] = @ \cup {a}] ELSE put
  BY DEF ReadAfter, MissingMarker
<1>4. stage' = [stage EXCEPT ![u][s] = "done"]
  BY DEF ReadAfter
<1>5. TypeOK'
  BY <1>1, <1>2, <1>3, <1>4 DEF TypeOK
<1>6. ASSUME NEW v \in Updates PROVE InProgress(v)'
  <2>1. v = u
    BY DEF OneUpdate
  <2>2. put[u] \subseteq put'[u] /\ put'[u] \subseteq put[u] \cup {a}
    BY <1>1, <1>3 DEF TypeOK
  <2>3. a \in put'[u] \/ rows[a] # "absent"
    BY <1>1, <1>3 DEF TypeOK
  <2>4. want[u][s] # seen[u][s]
    BY <1>1 DEF InProgress
  <2>5. \A t \in Sides \ {s} : stage'[u][t] = stage[u][t]
    BY <1>1, <1>4 DEF TypeOK
  <2>6. \A t \in Sides : stage'[u][t] # "done" => stage[u][t] # "done"
    BY <1>1, <1>4 DEF TypeOK
  <2> QED
    BY <1>1, <1>2, <2>1, <2>2, <2>3, <2>4, <2>5, <2>6 DEF InProgress
<1> QED
  BY <1>1, <1>2, <1>5, <1>6, AnchorsStay DEF RangeInv

\* The batch takes each old marker that moves, and leaves the new one: in the
\* batch, or there already and, by ~JumpsPast, not in drop.
LEMMA CommitKeeps ==
  ASSUME RangeInv, OneUpdate, NEW u \in Updates, CommitRange(u)
  PROVE  RangeInv'
<1>1. TypeOK /\ Anchored /\ InProgress(u) /\ pc[u] = "moving"
      /\ \A s \in Sides : stage[u][s] = "done"
  BY DEF RangeInv, CommitRange, Ready
<1>2. TypeOK'
  BY <1>1 DEF CommitRange, TypeOK
<1>3. ASSUME NEW v \in Updates PROVE InProgress(v)'
  BY <1>1 DEF OneUpdate, CommitRange, TypeOK, InProgress
<1>4. ASSUME NEW s \in Sides PROVE rows'[Marker(want[u], s)] # "absent"
  <2> DEFINE a == Marker(want[u], s)
  <2>1. /\ seen[u] = range /\ seen[u] \in Ranges /\ want[u] \in Ranges
        /\ ~JumpsPast(seen[u], want[u]) /\ a \in Addrs
    BY <1>1, RangeFacts DEF InProgress, TypeOK
  <2>2. a \in put[u] \/ rows[a] # "absent"
    <3>1. CASE want[u][s] = seen[u][s]
      BY <1>1, <2>1, <3>1 DEF Anchored, Marker
    <3>2. CASE want[u][s] # seen[u][s]
      BY <1>1, <3>2 DEF InProgress
    <3> QED
      BY <3>1, <3>2
  <2>3. a \notin drop[u]
    <3> SUFFICES ASSUME a \in drop[u] PROVE FALSE
      OBVIOUS
    <3>1. PICK t \in Sides : a = Marker(seen[u], t) /\ want[u][t] # seen[u][t]
      BY <1>1 DEF InProgress
    <3>2. CASE s = t
      BY <2>1, <3>1, <3>2, RangeFacts DEF Sides
    <3>3. CASE s # t /\ want[u][s] # seen[u][s]
      BY <2>1, <3>1, <3>3 DEF Sides, JumpsPast
    <3>4. CASE s # t /\ want[u][s] = seen[u][s]
      BY <2>1, <3>1, <3>4, RangeFacts DEF Sides
    <3> QED
      BY <3>2, <3>3, <3>4
  <2> QED
    BY <2>1, <2>2, <2>3 DEF CommitRange
<1> QED
  BY <1>2, <1>3, <1>4 DEF RangeInv, Anchored, CommitRange

LEMMA RefuseKeeps ==
  ASSUME RangeInv, NEW u \in Updates, RefuseRange(u)
  PROVE  RangeInv'
<1>1. TypeOK'
  BY DEF RangeInv, RefuseRange, Refused, TypeOK
<1>2. ASSUME NEW v \in Updates PROVE InProgress(v)'
  <2>1. pc'[v] = pc[v] \/ pc'[v] = "idle"
    BY DEF RangeInv, RefuseRange, Refused, TypeOK
  <2> QED
    BY <2>1, DecisionsStay DEF RangeInv, RefuseRange, Refused
<1> QED
  BY <1>1, <1>2, AnchorsStay DEF RangeInv, RefuseRange, Refused

LEMMA UseKeeps ==
  ASSUME RangeInv, NEW a \in Hosts, Take(a) \/ GiveBack(a)
  PROVE  RangeInv'
<1>1. a \in Addrs
  BY BoundsAssumption DEF Hosts, Addrs
<1>2. TypeOK'
  BY <1>1 DEF RangeInv, Take, GiveBack, TypeOK
<1>3. /\ range' = range /\ pc' = pc /\ UNCHANGED <<seen, want, stage, drop, put>>
      /\ \A b \in Addrs : rows[b] # "absent" => rows'[b] # "absent"
  BY <1>1 DEF RangeInv, Take, GiveBack, TypeOK
<1>4. \A v \in Updates : InProgress(v)'
  BY <1>3, DecisionsStay DEF RangeInv
<1> QED
  BY <1>2, <1>3, <1>4, AnchorsStay DEF RangeInv

\* RangeInv is inductive.
LEMMA RangeStep == ASSUME RangeInv, OneUpdate, [Next]_vars PROVE RangeInv'
<1>1. CASE UNCHANGED vars
  BY <1>1 DEF RangeInv, TypeOK, Anchored, InProgress, vars
<1>2. CASE Next
  BY <1>2, LoadKeeps, ReadBeforeKeeps, ReadAfterKeeps, CommitKeeps, RefuseKeeps, UseKeeps
     DEF Next
<1> QED
  BY <1>1, <1>2

\* The strengthened invariant holds of every network, for one update at a time
\* that does not move the range right past its own end.
THEOREM RangeInvariant == ASSUME OneUpdate PROVE Spec => []RangeInv
<1>1. RangeInv /\ [Next]_vars => RangeInv'
  BY RangeStep
<1> QED
  BY <1>1, RangeInit, PTL DEF Spec

\* The records next to the range are there at all times.
THEOREM AlwaysAnchored == ASSUME OneUpdate PROVE Spec => []Anchored
<1>1. RangeInv => Anchored
  BY DEF RangeInv
<1> QED
  BY <1>1, RangeInvariant, PTL

\* A set of naturals with a member has a least one.
LEMMA LeastNat ==
  ASSUME NEW T, T \subseteq Nat, NEW x \in T
  PROVE  \E y \in T : \A z \in T : y <= z
<1>1. PICK y \in T : \A z \in T : ~(<<z, y>> \in OpToRel(<, Nat))
  BY NatLessThanWellFounded, WFMin, Zenon
<1>2. \A z \in T : ~(z < y)
  BY <1>1 DEF OpToRel
<1>3. \A z \in T : z \in Nat
  OBVIOUS
<1> QED
  BY <1>2, <1>3

\* Between two anchors, the lowest unused address starts a gap.
LEMMA AnchorsSuffice == TypeOK /\ Anchored => LowestUnusedIsFound
<1> DEFINE unused == {a \in range["start"] .. range["end"] : rows[a] = "absent"}
<1> SUFFICES ASSUME TypeOK, Anchored, NEW x \in unused
             PROVE  \E a \in GapStarts : \A b \in unused : a <= b
  BY DEF LowestUnusedIsFound
<1>1. /\ range["start"] \in Nat /\ range["end"] \in Nat
      /\ rows[range["start"] - 1] # "absent" /\ rows[range["end"] + 1] # "absent"
  BY RangeFacts DEF TypeOK, Anchored, Sides
<1>2. unused \subseteq Nat
  BY <1>1
<1>3. PICK a \in unused : \A b \in unused : a <= b
  BY <1>2, LeastNat
<1>4. a - 1 \notin unused
  BY <1>2, <1>3
<1>5. rows[a - 1] # "absent"
  BY <1>1, <1>3, <1>4
<1>6. a \in GapStarts
  BY <1>1, <1>3, <1>5 DEF GapStarts
<1> QED
  BY <1>3, <1>6

\* The search for an unused address never misses one: a subnet is reported full,
\* or a freed address reused, only when every address of the range was used.
THEOREM SearchIsComplete == ASSUME OneUpdate PROVE Spec => []LowestUnusedIsFound
<1>1. RangeInv => LowestUnusedIsFound
  BY AnchorsSuffice DEF RangeInv
<1> QED
  BY <1>1, RangeInvariant, PTL
\* No update takes the record of an address inside the range away: only the two
\* markers, which lie outside, are ever deleted.
THEOREM RecordsStay == ASSUME OneUpdate PROVE Spec => RangeRecordsStay
<1> DEFINE Stay == \A a \in range["start"] .. range["end"] :
                     rows[a] # "absent" => rows'[a] # "absent"
<1>1. ASSUME RangeInv, [Next]_vars PROVE Stay
  <2> SUFFICES ASSUME NEW a \in range["start"] .. range["end"], rows[a] # "absent"
               PROVE  rows'[a] # "absent"
    OBVIOUS
  <2>1. TypeOK /\ a \in Addrs
    <3>1. TypeOK /\ range \in Ranges /\ "start" \in Sides
      BY <1>1 DEF RangeInv, TypeOK, Sides
    <3> QED
      BY <3>1, RangeFacts, BoundsAssumption DEF Addrs
  <2>2. CASE \E u \in Updates : CommitRange(u)
    <3>1. PICK u \in Updates : CommitRange(u)
      BY <2>2
    <3>2. pc[u] = "moving" /\ InProgress(u)
      BY <1>1, <3>1 DEF RangeInv, CommitRange, Ready
    <3>3. \A s \in Sides : a # Marker(range, s)
      BY <2>1, RangeFacts DEF TypeOK, Sides
    <3>4. a \notin drop[u]
      BY <3>2, <3>3 DEF InProgress
    <3> QED
      BY <2>1, <3>1, <3>4 DEF CommitRange
  <2>3. CASE \E b \in Hosts : Take(b) \/ GiveBack(b)
    BY <2>1, <2>3 DEF Take, GiveBack, TypeOK
  <2>4. CASE rows' = rows
    BY <2>4
  <2>5. \A u \in Updates : Load(u) \/ RefuseRange(u) => rows' = rows
    BY DEF Load, RefuseRange, Refused
  <2>6. \A u \in Updates, s \in Sides : ReadBefore(u, s) \/ ReadAfter(u, s) => rows' = rows
    BY DEF ReadBefore, ReadAfter, Refused
  <2>7. CASE Next
    BY <2>2, <2>3, <2>4, <2>5, <2>6, <2>7 DEF Next
  <2> QED
    BY <1>1, <2>4, <2>7 DEF vars
<1> QED
  BY <1>1, RangeInvariant, PTL DEF Spec, RangeRecordsStay
=============================================================================
