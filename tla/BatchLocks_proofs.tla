------------------------- MODULE BatchLocks_proofs -------------------------
(***************************************************************************)
(* Whatever the requests, their batches and the retries: batches deadlock  *)
(* only over the primary flag of one VM, and races for the flag leave one  *)
(* NIC with it.                                                            *)
(***************************************************************************)
EXTENDS BatchLocks, TLAPS, FiniteSetTheorems

AnyRow == RowsOf(IpBuckets \cup {NetBucket, NicBucket})

\* What a batch that waits for nothing yet may lock next.
Options(r) ==
  IF found[r] # {} THEN {NicRow(m) : m \in found[r]}
  ELSE IF at[r] > Len(Entries[ask[r]]) \/ (Filters(r) /\ r \notin scanned) THEN {}
  ELSE {NextRow(r)}

\* How far a batch is: it looks for other NICs after its own, and goes on to
\* the other entries when it has them all.
BatchOf(r) ==
  /\ at[r] <= 1 => r \notin scanned
  /\ at[r] = 0 => wait[r] = {}
  /\ r \in scanned => IsPrimary(r)
  /\ at[r] >= 3 /\ IsPrimary(r) => r \in scanned
  /\ found[r] # {} => at[r] = 2
  /\ found[r] \subseteq Macs \ ({ask[r].mac} \cup taken[r])
  /\ taken[r] \subseteq Macs \ {ask[r].mac}
  /\ wait[r] # {} => \E row \in Options(r) : wait[r] = {row}

Batches == \A r \in Reqs : BatchOf(r)

\* The tables are functions of the requests.
Tables ==
  /\ ask = [r \in Reqs |-> ask[r]] /\ tries = [r \in Reqs |-> tries[r]]
  /\ at = [r \in Reqs |-> at[r]] /\ held = [r \in Reqs |-> held[r]]
  /\ wait = [r \in Reqs |-> wait[r]] /\ found = [r \in Reqs |-> found[r]]
  /\ taken = [r \in Reqs |-> taken[r]]

LockInv == TypeOK /\ Tables /\ Batches

\* What TypeOK says of one request, and of two.
Typed(r) ==
  /\ ask[r] \in Asks[r]
  /\ tries[r] \in 0..(NicRetries + 1)
  /\ at[r] \in 0..(Len(Entries[ask[r]]) + 1)
  /\ held[r] = {Entries[ask[r]][i] : i \in 1..(at[r] - 1)}
               \cup {NicRow(m) : m \in taken[r]}
  /\ Cardinality(wait[r]) <= 1 /\ wait[r] \cap held[r] = {}
  /\ found[r] \cup taken[r] # {} => r \in scanned

Apart == \A r, s \in Reqs : r # s => held[r] \cap held[s] = {}
-----------------------------------------------------------------------------
(* Sorting: compareRequests is a strict order, and so the k-th entry is     *)
(* there, alone, and after those before it.                                *)

LEMMA BeforeIsAnOrder ==
  /\ \A x \in AnyRow : ~Before(x, x)
  /\ \A x, y \in AnyRow : x # y => Before(x, y) \/ Before(y, x)
  /\ \A x, y, z \in AnyRow : Before(x, y) /\ Before(y, z) => Before(x, z)
<1>1. ASSUME NEW x \in AnyRow
      PROVE  x.bucket \in Nat /\ x.key \in Nat /\ x = [bucket |-> x.bucket, key |-> x.key]
  BY DEF AnyRow, RowsOf, IpBuckets, NetBucket, NicBucket
<1>2. \A x, y \in AnyRow : x.bucket = y.bucket /\ x.key = y.key => x = y
  BY <1>1
<1> QED
  BY <1>1, <1>2 DEF Before

LEMMA RankGrows ==
  ASSUME NEW rows \in SUBSET AnyRow, IsFiniteSet(rows),
         NEW x \in rows, NEW y \in rows, Before(x, y)
  PROVE  /\ Rank(rows, x) \in Nat /\ Rank(rows, y) \in Nat
         /\ Rank(rows, x) < Rank(rows, y)
<1> DEFINE X == {z \in rows : Before(z, x)}  Y == {z \in rows : Before(z, y)}
<1>1. IsFiniteSet(Y) /\ X \subseteq Y /\ x \in Y /\ x \notin X
  <2>1. IsFiniteSet(Y)
    BY FS_Subset
  <2> QED
    BY <2>1, BeforeIsAnOrder
<1>2. IsFiniteSet(X) /\ Cardinality(X) <= Cardinality(Y) /\ Cardinality(X) # Cardinality(Y)
  BY <1>1, FS_Subset
<1>3. Cardinality(X) \in Nat /\ Cardinality(Y) \in Nat
  BY <1>1, <1>2, FS_CardinalityType
<1> QED
  BY <1>2, <1>3 DEF Rank

LEMMA RankIs ==
  ASSUME NEW rows \in SUBSET AnyRow, IsFiniteSet(rows), NEW x \in rows
  PROVE  Rank(rows, x) \in 0..(Cardinality(rows) - 1)
<1> DEFINE X == {z \in rows : Before(z, x)}
<1>1. X \subseteq rows /\ X # rows
  BY BeforeIsAnOrder
<1>2. IsFiniteSet(X) /\ Cardinality(X) <= Cardinality(rows) /\ Cardinality(X) # Cardinality(rows)
  BY <1>1, FS_Subset
<1>3. Cardinality(X) \in Nat /\ Cardinality(rows) \in Nat
  BY <1>2, FS_CardinalityType
<1> QED
  BY <1>2, <1>3 DEF Rank

LEMMA Ranked ==
  ASSUME NEW rows \in SUBSET AnyRow, IsFiniteSet(rows), NEW k \in 1..Cardinality(rows)
  PROVE  \E x \in rows : Rank(rows, x) = k - 1
<1> DEFINE n == Cardinality(rows)
           ranks == 0..(n - 1)
           f == [x \in rows |-> Rank(rows, x)]
<1>1. n \in Nat
  BY FS_CardinalityType
<1>2. IsFiniteSet(ranks) /\ Cardinality(ranks) = n
  <2>1. 0 \in Int /\ n - 1 \in Int
    BY <1>1
  <2>2. /\ IsFiniteSet(0..(n - 1))
        /\ Cardinality(0..(n - 1)) = IF 0 > n - 1 THEN 0 ELSE (n - 1) - 0 + 1
    BY <2>1, FS_Interval, Zenon
  <2> QED
    BY <1>1, <2>2
<1>3. \A x \in rows : Rank(rows, x) \in ranks
  BY RankIs
<1>4. ASSUME NEW x \in rows, NEW y \in rows, Rank(rows, x) = Rank(rows, y) PROVE x = y
  <2>1. CASE Before(x, y)
    BY <1>4, <2>1, RankGrows
  <2>2. CASE Before(y, x)
    BY <1>4, <2>2, RankGrows
  <2> QED
    BY <2>1, <2>2, BeforeIsAnOrder
<1>5. f \in Injection(rows, ranks)
  <2>1. f \in [rows -> ranks]
    BY <1>3
  <2>2. \A x, y \in rows : f[x] = f[y] => x = y
    BY <1>4
  <2> QED
    BY <2>1, <2>2 DEF Injection, IsInjective
<1>6. f \in Surjection(rows, ranks)
  BY <1>2, <1>5, FS_Injection
<1>7. k - 1 \in ranks
  BY <1>1
<1> QED
  BY <1>6, <1>7 DEF Surjection

\* Some row of a finite set comes after all others.
LEMMA LastRow ==
  ASSUME NEW rows \in SUBSET AnyRow, IsFiniteSet(rows), rows # {}
  PROVE  \E x \in rows : \A y \in rows : ~Before(x, y)
<1>1. Cardinality(rows) \in Nat /\ Cardinality(rows) # 0
  BY FS_CardinalityType, FS_EmptySet
<1>2. PICK x \in rows : Rank(rows, x) = Cardinality(rows) - 1
  BY <1>1, Ranked
<1>3. ASSUME NEW y \in rows, Before(x, y) PROVE FALSE
  BY <1>1, <1>2, <1>3, RankGrows, RankIs
<1> QED
  BY <1>2, <1>3

LEMMA BuiltIs ==
  ASSUME NEW a \in AllAsks
  PROVE  /\ a \in Ask /\ a.mac \in Macs /\ a.vm \in Vms
         /\ RowsIn(a) \subseteq AnyRow /\ IsFiniteSet(RowsIn(a))
         /\ NicRow(a.mac) \in RowsIn(a) /\ NicRow(a.mac) \in AnyRow
         /\ \A x \in RowsIn(a) : x # NicRow(a.mac) => x.bucket # NicBucket
<1>1. a \in Ask
  BY LockAsks DEF AllAsks
<1>2. /\ a.ips \in Seq(RowsOf(IpBuckets)) /\ a.net \in Seq(RowsOf({NetBucket}))
      /\ a.mac \in Macs /\ a.vm \in Vms
  BY <1>1 DEF Ask
<1> DEFINE ips == {a.ips[i] : i \in DOMAIN a.ips}  net == {a.net[i] : i \in DOMAIN a.net}
<1>3. ips \subseteq RowsOf(IpBuckets) /\ net \subseteq RowsOf({NetBucket})
  BY <1>2
<1>4. IsFiniteSet(ips) /\ IsFiniteSet(net)
  <2>1. ASSUME NEW S, NEW s \in Seq(S) PROVE IsFiniteSet({s[i] : i \in DOMAIN s})
    <3>1. Len(s) \in Nat /\ DOMAIN s = 1..Len(s)
      OBVIOUS
    <3>2. IsFiniteSet(DOMAIN s)
      BY <3>1, FS_Interval
    <3>3. [i \in DOMAIN s |-> s[i]] \in Surjection(DOMAIN s, {s[i] : i \in DOMAIN s})
      BY DEF Surjection
    <3> QED
      BY <3>2, <3>3, FS_Surjection
  <2> QED
    BY <1>2, <2>1
<1>5. /\ NicRow(a.mac) \in AnyRow
      /\ RowsOf(IpBuckets) \subseteq AnyRow /\ RowsOf({NetBucket}) \subseteq AnyRow
      /\ \A x \in RowsOf(IpBuckets) \cup RowsOf({NetBucket}) : x.bucket # NicBucket
  <2>1. NicRow(a.mac) \in AnyRow
    BY <1>2, LockMacs DEF AnyRow, RowsOf, NicRow
  <2>2. \A S, T : S \subseteq T => RowsOf(S) \subseteq RowsOf(T)
    BY DEF RowsOf
  <2>3. RowsOf(IpBuckets) \subseteq AnyRow /\ RowsOf({NetBucket}) \subseteq AnyRow
    BY <2>2 DEF AnyRow
  <2>4. \A x \in RowsOf(IpBuckets) \cup RowsOf({NetBucket}) : x.bucket # NicBucket
    BY DEF RowsOf, IpBuckets, NetBucket, NicBucket
  <2> QED
    BY <2>1, <2>3, <2>4
<1>6. RowsIn(a) = ips \cup {NicRow(a.mac)} \cup net
  BY DEF RowsIn
<1> HIDE DEF ips, net
<1>7. IsFiniteSet(RowsIn(a))
  <2>1. IsFiniteSet(ips \cup {NicRow(a.mac)})
    BY <1>4, FS_AddElement
  <2> QED
    BY <1>4, <1>6, <2>1, FS_Union
<1> QED
  BY <1>1, <1>2, <1>3, <1>5, <1>6, <1>7

\* The NIC comes first, and no entry after it is for a NIC.
LEMMA EntriesAre ==
  ASSUME NEW a \in AllAsks
  PROVE  /\ Len(Entries[a]) \in Nat \ {0}
         /\ \A i \in 1..Len(Entries[a]) : Entries[a][i] \in AnyRow
         /\ \A i, j \in 1..Len(Entries[a]) : i < j => Before(Entries[a][i], Entries[a][j])
         /\ Entries[a][1] = NicRow(a.mac)
         /\ \A i \in 2..Len(Entries[a]) : Entries[a][i].bucket # NicBucket
<1> DEFINE rows == RowsIn(a)  n == Cardinality(rows)  e == Entries[a]
<1>1. rows \subseteq AnyRow /\ IsFiniteSet(rows) /\ n \in Nat /\ n # 0
  BY BuiltIs, FS_CardinalityType, FS_EmptySet
<1>2. e = [k \in 1..n |-> CHOOSE x \in rows : Rank(rows, x) = k - 1]
  BY DEF Entries, Sorted
<1> HIDE DEF e, rows
<1>3. Len(e) = n
  BY <1>1, <1>2
<1>4. ASSUME NEW k \in 1..n PROVE e[k] \in rows /\ Rank(rows, e[k]) = k - 1
  BY <1>1, <1>2, Ranked
<1>5. ASSUME NEW i \in 1..n, NEW j \in 1..n, i < j PROVE Before(e[i], e[j])
  <2>1. e[i] \in rows /\ e[j] \in rows /\ Rank(rows, e[i]) = i - 1 /\ Rank(rows, e[j]) = j - 1
    BY <1>4
  <2>2. e[i] # e[j] /\ ~Before(e[j], e[i])
    BY <1>1, <1>5, <2>1, RankGrows
  <2> QED
    BY <1>1, <2>1, <2>2, BeforeIsAnOrder
<1>6. e[1] = NicRow(a.mac)
  <2>1. 1 \in 1..n
    BY <1>1
  <2>2. e[1] \in rows /\ Rank(rows, e[1]) = 0
    BY <1>4, <2>1
  <2>3. {y \in rows : Before(y, e[1])} = {}
    BY <1>1, <2>2, FS_Subset, FS_EmptySet DEF Rank
  <2>4. NicRow(a.mac) \in rows /\ (e[1] # NicRow(a.mac) => e[1].bucket # NicBucket)
    BY <2>2, BuiltIs DEF rows
  <2>5. e[1].bucket # NicBucket => Before(NicRow(a.mac), e[1])
    BY <1>1, <2>2 DEF Before, NicRow, AnyRow, RowsOf, NicBucket, NetBucket, IpBuckets
  <2> QED
    BY <2>3, <2>4, <2>5
<1>7. ASSUME NEW i \in 2..n PROVE e[i].bucket # NicBucket
  <2>1. 1 \in 1..n /\ i \in 1..n /\ 1 < i
    BY <1>1
  <2>2. e[i] \in rows /\ Before(e[1], e[i])
    BY <1>4, <1>5, <2>1
  <2>3. e[i] # e[1]
    BY <1>1, <2>2, BeforeIsAnOrder
  <2> QED
    BY <1>6, <2>2, <2>3, BuiltIs DEF rows
<1> QED
  BY <1>1, <1>3, <1>4, <1>5, <1>6, <1>7 DEF e
-----------------------------------------------------------------------------
(* Types, and how far batches are.                                         *)

LEMMA TypeOKIs ==
  TypeOK <=> /\ nics \in [Macs -> Nic] /\ seen \in [Reqs -> Nic]
             /\ stale \subseteq Reqs /\ scanned \subseteq Reqs
             /\ \A r \in Reqs : Typed(r)
             /\ Apart
  BY DEF TypeOK, Typed, Apart

LEMMA AskIs ==
  ASSUME NEW r \in Reqs, ask[r] \in Asks[r]
  PROVE  /\ ask[r] \in AllAsks /\ ask[r].mac \in Macs /\ ask[r].mac \in Nat /\ ask[r].vm \in Vms
         /\ ask[r].op \in {"create", "update", "delete"}
         /\ ask[r].op = "update" \/ ask[r].primary # "keep"
         /\ Len(Entries[ask[r]]) \in Nat \ {0}
         /\ Entries[ask[r]][1] = NicRow(ask[r].mac)
<1>1. ask[r] \in AllAsks /\ (ask[r].op = "update" \/ ask[r].primary # "keep")
  BY LockAsks DEF AllAsks
<1> QED
  BY <1>1, BuiltIs, EntriesAre, LockMacs DEF Ask

LEMMA NicRowIs == \A m, n : NicRow(m) = NicRow(n) => m = n
  BY DEF NicRow

\* A request that no step touches stays where it is.
LEMMA Untouched ==
  ASSUME NEW q \in Reqs, Typed(q), BatchOf(q), ask'[q] = ask[q], seen'[q] = seen[q],
         tries'[q] = tries[q], at'[q] = at[q], held'[q] = held[q], wait'[q] = wait[q],
         found'[q] = found[q], taken'[q] = taken[q], q \in scanned' <=> q \in scanned
  PROVE  Typed(q)' /\ BatchOf(q)'
<1>1. /\ IsPrimary(q)' <=> IsPrimary(q)
      /\ Filters(q)' <=> Filters(q)
      /\ NextRow(q)' = NextRow(q)
  BY DEF IsPrimary, Filters, NextRow
<1>2. Options(q)' = Options(q)
  BY <1>1 DEF Options
<1>3. Typed(q)'
  BY DEF Typed
<1>4. BatchOf(q)'
  BY <1>1, <1>2 DEF BatchOf
<1> QED
  BY <1>3, <1>4

LEMMA NoWait == Cardinality({}) = 0 /\ \A x : Cardinality({x}) = 1
  BY FS_EmptySet, FS_Singleton

LEMMA InitInv == Init => LockInv
<1> SUFFICES ASSUME Init PROVE LockInv
  OBVIOUS
<1>1. Tables
  BY DEF Init, Tables
<1>2. ASSUME NEW r \in Reqs PROVE Typed(r) /\ BatchOf(r)
  <2>1. /\ ask[r] = NoAsk(r) /\ seen[r] = NoNic /\ tries[r] = 0 /\ at[r] = 0 /\ held[r] = {}
        /\ wait[r] = {} /\ found[r] = {} /\ taken[r] = {} /\ scanned = {}
    BY DEF Init
  <2>2. ask[r] \in Asks[r]
    BY <2>1, LockAsks DEF NoAsk
  <2>3. Typed(r)
    BY <2>1, <2>2, AskIs, NoWait, LockStart DEF Typed
  <2>4. BatchOf(r)
    BY <2>1 DEF BatchOf
  <2> QED
    BY <2>3, <2>4
<1>3. nics \in [Macs -> Nic] /\ seen \in [Reqs -> Nic] /\ stale = {} /\ scanned = {} /\ Apart
  BY LockStart DEF Init, Nic, Apart
<1> QED
  BY <1>1, <1>2, <1>3, TypeOKIs DEF LockInv, Batches

\* However an attempt or a request ends.
LEMMA LeavesInv ==
  ASSUME LockInv, NEW r \in Reqs, NEW pos \in {0, 1}, Leaves(r, pos),
         nics' \in [Macs -> Nic], stale' \subseteq Reqs,
         \/ UNCHANGED <<ask, seen>> /\ tries' = [tries EXCEPT ![r] = @ + 1] /\ tries[r] <= NicRetries
         \/ /\ ask' = [ask EXCEPT ![r] = NoAsk(r)] /\ seen' = [seen EXCEPT ![r] = NoNic]
            /\ tries' = [tries EXCEPT ![r] = 0]
  PROVE  LockInv'
<1> USE DEF LockInv
<1>1. Tables'
  BY DEF Tables, Leaves
<1>2. /\ at'[r] = pos /\ held'[r] = {} /\ wait'[r] = {} /\ found'[r] = {} /\ taken'[r] = {}
      /\ r \notin scanned'
  BY DEF Tables, Leaves
<1>3. ask'[r] \in Asks[r] /\ tries'[r] \in 0..(NicRetries + 1) /\ seen' \in [Reqs -> Nic]
  <2>1. NoAsk(r) \in Asks[r] /\ ask[r] \in Asks[r] /\ NoNic \in Nic
    BY LockAsks, TypeOKIs DEF NoAsk, Nic, Typed
  <2>2. tries[r] \in 0..(NicRetries + 1) /\ NicRetries \in Nat
    BY LockStart, TypeOKIs DEF Typed
  <2> QED
    BY <2>1, <2>2, TypeOKIs DEF Tables
<1>4. \A q \in Reqs : q # r =>
        /\ ask'[q] = ask[q] /\ seen'[q] = seen[q] /\ tries'[q] = tries[q] /\ at'[q] = at[q]
        /\ held'[q] = held[q] /\ wait'[q] = wait[q] /\ found'[q] = found[q]
        /\ taken'[q] = taken[q] /\ (q \in scanned' <=> q \in scanned)
  BY TypeOKIs DEF Tables, Leaves
<1>5. Typed(r)' /\ BatchOf(r)'
  <2>1. Len(Entries[ask'[r]]) \in Nat
    BY <1>3, LockAsks, EntriesAre DEF AllAsks
  <2>2. Typed(r)'
    BY <1>2, <1>3, <2>1, NoWait DEF Typed
  <2>3. BatchOf(r)'
    BY <1>2 DEF BatchOf
  <2> QED
    BY <2>2, <2>3
<1>6. \A q \in Reqs : Typed(q)' /\ BatchOf(q)'
  BY <1>4, <1>5, Untouched, TypeOKIs DEF Batches
<1>7. Apart'
  BY <1>2, <1>4, TypeOKIs DEF Apart
<1>8. scanned' \subseteq Reqs
  BY TypeOKIs DEF Leaves
<1>9. TypeOK'
  BY <1>3, <1>6, <1>7, <1>8, TypeOKIs DEF TypeOK, Typed, Apart
<1> QED
  BY <1>1, <1>6, <1>9 DEF Batches

\* A step of one request.
Alone(r) ==
  \A q \in Reqs : q # r =>
    /\ ask'[q] = ask[q] /\ seen'[q] = seen[q] /\ tries'[q] = tries[q] /\ at'[q] = at[q]
    /\ held'[q] = held[q] /\ wait'[q] = wait[q] /\ found'[q] = found[q]
    /\ taken'[q] = taken[q] /\ (q \in scanned' <=> q \in scanned)

LEMMA OneMoves ==
  ASSUME LockInv, NEW r \in Reqs, Alone(r), Tables', Typed(r)', BatchOf(r)', Apart',
         nics' \in [Macs -> Nic], seen' \in [Reqs -> Nic], stale' \subseteq Reqs,
         scanned' \subseteq Reqs
  PROVE  LockInv'
<1>1. \A q \in Reqs : Typed(q)' /\ BatchOf(q)'
  BY Untouched, TypeOKIs DEF LockInv, Batches, Alone
<1>2. TypeOK'
  BY <1>1, TypeOKIs DEF TypeOK, Typed, Apart
<1> QED
  BY <1>1, <1>2 DEF LockInv, Batches

LEMMA StartStep ==
  ASSUME LockInv, NEW r \in Reqs, NEW a \in Asks[r], Start(r, a)
  PROVE  LockInv'
<1>1. /\ Typed(r) /\ BatchOf(r) /\ nics \in [Macs -> Nic] /\ seen \in [Reqs -> Nic] /\ Apart
      /\ stale \subseteq Reqs /\ scanned \subseteq Reqs
  BY TypeOKIs DEF LockInv, Batches
<1>2. at[r] = 0 /\ wait[r] = {} /\ found[r] = {} /\ taken[r] = {} /\ held[r] = {} /\ r \notin scanned
  <2>1. at[r] = 0
    BY <1>1, AskIs DEF Start, Running, Typed
  <2>2. wait[r] = {} /\ r \notin scanned
    BY <1>1, <2>1 DEF BatchOf
  <2>3. found[r] = {} /\ taken[r] = {}
    BY <1>1, <2>2 DEF Typed
  <2>4. held[r] = {Entries[ask[r]][i] : i \in 1..(0 - 1)}
    BY <1>1, <2>1, <2>3 DEF Typed
  <2>5. held[r] = {}
    BY <2>4
  <2> QED
    BY <2>1, <2>2, <2>3, <2>5
<1>3. Tables' /\ Alone(r) /\ at'[r] = 1 /\ ask'[r] = a
  BY <1>1 DEF LockInv, Tables, Start, Alone
<1>4. a \in AllAsks /\ a.mac \in Macs /\ Len(Entries[a]) \in Nat
  <2>1. a \in AllAsks
    BY DEF AllAsks
  <2> QED
    BY <2>1, BuiltIs, EntriesAre
<1>5. nics' \in [Macs -> Nic] /\ seen' \in [Reqs -> Nic] /\ stale' \subseteq Reqs /\ scanned' \subseteq Reqs
  BY <1>1, <1>4 DEF Start
<1>6. Apart'
  BY <1>1 DEF Apart, Start
<1>7. Typed(r)'
  BY <1>1, <1>2, <1>3, <1>4, NoWait DEF Typed, Start
<1>8. BatchOf(r)'
  BY <1>2, <1>3 DEF BatchOf, Start
<1> QED
  BY <1>3, <1>5, <1>6, <1>7, <1>8, OneMoves

\* What a request may lock is not what it has.
LEMMA OptionsNew ==
  ASSUME LockInv, NEW r \in Reqs, Running(r), NEW row \in Options(r)
  PROVE  row \notin held[r] /\ row \in AnyRow
<1>1. Typed(r) /\ BatchOf(r)
  BY TypeOKIs DEF LockInv, Batches
<1> DEFINE e == Entries[ask[r]]  n == Len(e)
<1>2. /\ ask[r].mac \in Macs /\ n \in Nat \ {0} /\ e[1] = NicRow(ask[r].mac)
      /\ \A i \in 1..n : e[i] \in AnyRow
      /\ \A i, j \in 1..n : i < j => Before(e[i], e[j])
      /\ \A i \in 2..n : e[i].bucket # NicBucket
  BY <1>1, AskIs, EntriesAre DEF Typed
<1>3. /\ held[r] = {e[i] : i \in 1..(at[r] - 1)} \cup {NicRow(m) : m \in taken[r]}
      /\ at[r] \in 0..(n + 1)
  BY <1>1 DEF Typed
<1> HIDE DEF e, n
<1>4. CASE found[r] # {}
  <2>1. PICK m \in found[r] : row = NicRow(m)
    BY <1>4 DEF Options
  <2>2. at[r] = 2 /\ m \in Macs /\ m # ask[r].mac /\ m \notin taken[r]
    BY <1>1, <1>4 DEF BatchOf
  <2>3. held[r] = {e[1]} \cup {NicRow(x) : x \in taken[r]}
    BY <1>3, <2>2
  <2>4. row \in AnyRow
    BY <2>1, <2>2, LockMacs DEF AnyRow, RowsOf, NicRow
  <2> QED
    BY <1>2, <2>1, <2>2, <2>3, <2>4, NicRowIs
<1>5. CASE found[r] = {}
  <2>1. at[r] \in 0..n /\ row = NextRow(r) /\ NextRow(r) = e[at[r]] /\ ~(Filters(r) /\ r \notin scanned)
    BY <1>2, <1>3, <1>5 DEF Options, NextRow, e, n
  <2>2. at[r] \in 1..n /\ row = e[at[r]] /\ row \in AnyRow
    BY <1>2, <2>1 DEF Running
  <2>3. \A i \in 1..(at[r] - 1) : e[i] # row
    BY <1>2, <2>2, BeforeIsAnOrder
  <2>4. \A m \in taken[r] : NicRow(m) # row
    <3>1. CASE at[r] = 1
      BY <1>1, <3>1 DEF Typed, BatchOf
    <3>2. CASE at[r] >= 2
      BY <1>2, <2>2, <3>2 DEF NicRow
    <3> QED
      BY <2>2, <3>1, <3>2
  <2> QED
    BY <1>3, <2>2, <2>3, <2>4
<1> QED
  BY <1>4, <1>5

LEMMA WantsAre ==
  ASSUME LockInv, NEW r \in Reqs, NEW row \in Wants(r)
  PROVE  /\ Running(r) /\ row \in Options(r) /\ row \notin held[r] /\ row \in AnyRow
         /\ wait[r] # {} => wait[r] = {row}
<1>1. Typed(r) /\ BatchOf(r)
  BY TypeOKIs DEF LockInv, Batches
<1>2. Running(r) /\ row \in Options(r) /\ (wait[r] # {} => wait[r] = {row})
  BY <1>1 DEF Wants, Options, BatchOf
<1> QED
  BY <1>2, OptionsNew

LEMMA WaitForStep ==
  ASSUME LockInv, NEW r \in Reqs, NEW row, WaitFor(r, row)
  PROVE  LockInv'
<1>1. /\ Typed(r) /\ BatchOf(r) /\ nics \in [Macs -> Nic] /\ seen \in [Reqs -> Nic] /\ Apart
      /\ stale \subseteq Reqs /\ scanned \subseteq Reqs
  BY TypeOKIs DEF LockInv, Batches
<1>2. Running(r) /\ row \in Options(r) /\ row \notin held[r]
  BY WantsAre DEF WaitFor
<1>3. Tables' /\ Alone(r) /\ wait'[r] = {row}
  BY DEF LockInv, Tables, WaitFor, Alone
<1>4. Apart'
  BY <1>1 DEF Apart, WaitFor
<1>5. Typed(r)'
  <2>1. Cardinality(wait'[r]) <= 1 /\ wait'[r] \cap held[r] = {}
    BY <1>2, <1>3, NoWait
  <2> QED
    BY <1>1, <2>1 DEF Typed, WaitFor
<1>6. BatchOf(r)'
  <2>1. Options(r)' = Options(r) /\ (IsPrimary(r)' <=> IsPrimary(r))
    BY DEF Options, Filters, IsPrimary, NextRow, WaitFor
  <2>2. at[r] # 0
    BY <1>1, <1>2, AskIs DEF Running, Typed
  <2> QED
    BY <1>1, <1>2, <1>3, <2>1, <2>2 DEF BatchOf, WaitFor
<1> QED
  BY <1>1, <1>3, <1>4, <1>5, <1>6, OneMoves DEF WaitFor

LEMMA RunEntryStep ==
  ASSUME LockInv, NEW r \in Reqs, RunEntry(r)
  PROVE  LockInv'
<1>1. /\ Typed(r) /\ BatchOf(r) /\ nics \in [Macs -> Nic] /\ seen \in [Reqs -> Nic] /\ Apart
      /\ stale \subseteq Reqs /\ scanned \subseteq Reqs
  BY TypeOKIs DEF LockInv, Batches
<1>2. PICK row \in Wants(r) : Free(row) /\ Locks(r, row)
  BY DEF RunEntry
<1> DEFINE e == Entries[ask[r]]  n == Len(e)  i == at[r]
<1>3. /\ Running(r) /\ row \in Options(r) /\ found[r] = {}
      /\ n \in Nat \ {0} /\ i \in 0..(n + 1)
  BY <1>1, <1>2, WantsAre, AskIs DEF RunEntry, Typed
<1>4. i \in 1..n /\ row = e[i] /\ ~(Filters(r) /\ r \notin scanned)
  BY <1>3 DEF Options, Running, NextRow
<1>5. Tables' /\ Alone(r) /\ at'[r] = i + 1 /\ wait'[r] = {} /\ held'[r] = held[r] \cup {row}
  BY <1>2 DEF LockInv, Tables, RunEntry, Locks, Alone
<1>6. Apart'
  BY <1>1, <1>2, <1>5 DEF Apart, Free, Alone
<1>7. Typed(r)'
  <2>1. {e[k] : k \in 1..i} = {e[k] : k \in 1..(i - 1)} \cup {e[i]}
    BY <1>3, <1>4
  <2>2. held'[r] = {e[k] : k \in 1..(at'[r] - 1)} \cup {NicRow(m) : m \in taken[r]}
    BY <1>1, <1>3, <1>4, <1>5, <2>1 DEF Typed
  <2>3. at'[r] \in 0..(n + 1)
    BY <1>3, <1>4, <1>5
  <2>4. Cardinality(wait'[r]) <= 1 /\ wait'[r] \cap held'[r] = {}
    BY <1>5, NoWait
  <2>5. found'[r] = found[r] /\ taken'[r] = taken[r] /\ ask' = ask /\ scanned' = scanned /\ tries' = tries
    BY DEF RunEntry
  <2> HIDE DEF e, n, i
  <2> QED
    BY <1>1, <2>2, <2>3, <2>4, <2>5 DEF Typed, e, n
<1>8. BatchOf(r)'
  <2>1. IsPrimary(r)' <=> IsPrimary(r)
    BY DEF IsPrimary, RunEntry
  <2>2. at'[r] >= 3 /\ IsPrimary(r) => r \in scanned
    BY <1>1, <1>3, <1>4, <1>5 DEF BatchOf, Filters
  <2> QED
    BY <1>1, <1>3, <1>4, <1>5, <2>1, <2>2 DEF BatchOf, RunEntry
<1> QED
  BY <1>1, <1>5, <1>6, <1>7, <1>8, OneMoves DEF RunEntry

LEMMA FindOthersStep ==
  ASSUME LockInv, NEW r \in Reqs, FindOthers(r)
  PROVE  LockInv'
<1>1. /\ Typed(r) /\ BatchOf(r) /\ nics \in [Macs -> Nic] /\ seen \in [Reqs -> Nic] /\ Apart
      /\ stale \subseteq Reqs /\ scanned \subseteq Reqs
  BY TypeOKIs DEF LockInv, Batches
<1>2. found[r] = {} /\ taken[r] = {} /\ at[r] = 2 /\ IsPrimary(r) /\ wait[r] = {}
  BY <1>1 DEF FindOthers, Filters, Typed, BatchOf, Options
<1>3. /\ Tables' /\ Alone(r) /\ r \in scanned' /\ scanned' \subseteq Reqs
      /\ found'[r] \subseteq Macs \ {ask[r].mac}
  BY <1>1 DEF LockInv, Tables, FindOthers, Alone
<1>4. Apart'
  BY <1>1 DEF Apart, FindOthers
<1>5. Typed(r)'
  BY <1>1, <1>3 DEF Typed, FindOthers
<1>6. BatchOf(r)'
  <2>1. IsPrimary(r)' <=> IsPrimary(r)
    BY DEF IsPrimary, FindOthers
  <2> QED
    BY <1>2, <1>3, <2>1 DEF BatchOf, FindOthers
<1> QED
  BY <1>1, <1>3, <1>4, <1>5, <1>6, OneMoves DEF FindOthers

LEMMA TakeOtherStep ==
  ASSUME LockInv, NEW r \in Reqs, NEW m \in Macs, TakeOther(r, m)
  PROVE  LockInv'
<1>1. /\ Typed(r) /\ BatchOf(r) /\ nics \in [Macs -> Nic] /\ seen \in [Reqs -> Nic] /\ Apart
      /\ stale \subseteq Reqs /\ scanned \subseteq Reqs
  BY TypeOKIs DEF LockInv, Batches
<1>2. m \in found[r] /\ at[r] = 2 /\ r \in scanned /\ IsPrimary(r) /\ m # ask[r].mac
  BY <1>1 DEF TakeOther, Typed, BatchOf
<1>3. /\ Tables' /\ Alone(r) /\ wait'[r] = {} /\ found'[r] = found[r] \ {m}
      /\ \/ held'[r] = held[r] \cup {NicRow(m)} /\ taken'[r] = taken[r] \cup {m}
         \/ held'[r] = held[r] /\ taken'[r] = taken[r]
  BY DEF LockInv, Tables, TakeOther, Locks, Alone
<1>4. Apart'
  BY <1>1, <1>3 DEF Apart, TakeOther, Free, Alone
<1>5. Typed(r)'
  <2>1. held'[r] = {Entries[ask[r]][i] : i \in 1..(at[r] - 1)} \cup {NicRow(x) : x \in taken'[r]}
    BY <1>1, <1>3 DEF Typed
  <2> QED
    BY <1>1, <1>2, <1>3, <2>1, NoWait DEF Typed, TakeOther
<1>6. BatchOf(r)'
  <2>1. IsPrimary(r)' <=> IsPrimary(r)
    BY DEF IsPrimary, TakeOther
  <2>2. /\ found'[r] \subseteq Macs \ ({ask[r].mac} \cup taken'[r])
        /\ taken'[r] \subseteq Macs \ {ask[r].mac}
    BY <1>1, <1>2, <1>3 DEF BatchOf
  <2> QED
    BY <1>1, <1>2, <1>3, <2>1, <2>2 DEF BatchOf, TakeOther
<1> QED
  BY <1>1, <1>3, <1>4, <1>5, <1>6, OneMoves DEF TakeOther

LEMMA RetryStep ==
  ASSUME LockInv, NEW r \in Reqs, Retry(r) \/ Ends(r), nics' \in [Macs -> Nic], stale' \subseteq Reqs
  PROVE  LockInv'
<1>1. CASE Ends(r)
  BY <1>1, LeavesInv DEF Ends
<1>2. CASE Retry(r) /\ ~Ends(r)
  <2>1. Leaves(r, 1) /\ tries' = [tries EXCEPT ![r] = @ + 1] /\ UNCHANGED <<ask, seen>>
        /\ ~(tries[r] > NicRetries)
    BY <1>2 DEF Retry
  <2>2. tries[r] <= NicRetries
    BY <2>1, LockStart, TypeOKIs DEF LockInv, Typed
  <2> QED
    BY <2>1, <2>2, LeavesInv
<1> QED
  BY <1>1, <1>2

LEMMA NewNicsAre ==
  ASSUME LockInv, NEW r \in Reqs
  PROVE  NewNics(r) \in [Macs -> Nic]
<1>1. nics \in [Macs -> Nic] /\ ask[r].vm \in Vms /\ IsPrimary(r) \in BOOLEAN
  BY AskIs, TypeOKIs DEF LockInv, Typed, IsPrimary
<1>2. ASSUME NEW x \in Nic PROVE [vm |-> x.vm, primary |-> FALSE] \in Nic
  <2>1. CASE x = NoNic
    <3>1. x.vm = NoVm
      BY <2>1 DEF NoNic
    <3> QED
      BY <3>1 DEF Nic, NoNic
  <2>2. CASE x \in [vm : Vms, primary : BOOLEAN]
    BY <2>2 DEF Nic
  <2> QED
    BY <2>1, <2>2 DEF Nic
<1>3. NoNic \in Nic /\ [vm |-> ask[r].vm, primary |-> IsPrimary(r)] \in Nic
  BY <1>1 DEF Nic
<1> QED
  BY <1>1, <1>2, <1>3 DEF NewNics

LEMMA EndSteps ==
  ASSUME LockInv, NEW r \in Reqs, Conflict(r) \/ Commit(r) \/ Detect(r)
  PROVE  LockInv'
<1>1. nics' \in [Macs -> Nic]
  BY NewNicsAre, TypeOKIs DEF LockInv, Conflict, Commit, Detect
<1>2. stale' \subseteq Reqs
  BY TypeOKIs DEF LockInv, Conflict, Commit, Detect, Forget
<1>3. Retry(r) \/ Ends(r)
  BY DEF Conflict, Commit, Detect
<1> QED
  BY <1>1, <1>2, <1>3, RetryStep

LEMMA StepInv == LockInv /\ [Next]_vars => LockInv'
<1> SUFFICES ASSUME LockInv, [Next]_vars PROVE LockInv'
  OBVIOUS
<1>1. CASE UNCHANGED vars
  <2>1. \A q \in Reqs : Typed(q)' /\ BatchOf(q)'
    BY <1>1, Untouched, TypeOKIs DEF LockInv, Batches, vars, batch
  <2>2. TypeOK' /\ Tables'
    BY <1>1 DEF LockInv, TypeOK, Tables, vars, batch
  <2> QED
    BY <2>1, <2>2 DEF LockInv, Batches
<1>2. CASE Next
  <2>1. ASSUME NEW r \in Reqs, \E a \in Asks[r] : Start(r, a) PROVE LockInv'
    BY <2>1, StartStep
  <2>2. ASSUME NEW r \in Reqs, Step(r) PROVE LockInv'
    BY <2>2, TakeOtherStep, WaitForStep, RunEntryStep, FindOthersStep, EndSteps DEF Step
  <2> QED
    BY <1>2, <2>1, <2>2 DEF Next
<1> QED
  BY <1>1, <1>2

LEMMA LockInvariant == Spec => []LockInv
<1> QED
  BY InitInv, StepInv, PTL DEF Spec

\* A batch of NIC requests holds the rows of the entries it has run and of the NICs
\* it takes the flag from, all of them and no others, whatever attempts went
\* before it; no two batches hold one row, and retries keep to their number.
THEOREM TypeCorrect == Spec => []TypeOK
<1>1. LockInv => TypeOK
  BY DEF LockInv
<1> QED
  BY <1>1, LockInvariant, PTL
-----------------------------------------------------------------------------
(* Deadlocks.                                                              *)

\* Where a NIC can be at all: at its first home, or where requests bring it.
Places(m) == {StartNics[m].vm} \cup {a.vm : a \in {b \in AllAsks : b.mac = m /\ b.op # "delete"}}

\* No NIC changes hands between two VMs whose primary NIC is asked for.
NicsStay ==
  \A a, b \in {c \in AllAsks : c.op # "delete" /\ c.primary # "no"} : \A m \in Macs :
    a.vm \in Places(m) /\ b.vm \in Places(m) => a.vm = b.vm

HomesOK == \A m \in Macs : nics[m].vm \in Places(m) \cup {NoVm}

\* What a batch found of a VM can be there.
FoundOK == \A r \in Reqs : \A m \in found[r] \cup taken[r] : ask[r].vm \in Places(m)

HomeInv == LockInv /\ HomesOK /\ FoundOK

LEMMA AskedPlace ==
  ASSUME LockInv, NEW r \in Reqs, ask[r].op # "delete"
  PROVE  ask[r].vm \in Places(ask[r].mac)
<1>1. ask[r] \in AllAsks
  BY AskIs, TypeOKIs DEF LockInv, Typed
<1> QED
  BY <1>1 DEF Places

LEMMA HomesStep ==
  ASSUME HomeInv, [Next]_vars
  PROVE  HomesOK'
<1>1. CASE UNCHANGED nics
  BY <1>1 DEF HomeInv, HomesOK
<1>2. ASSUME NEW r \in Reqs, Commit(r) PROVE HomesOK'
  <2> SUFFICES ASSUME NEW m \in Macs PROVE NewNics(r)[m].vm \in Places(m) \cup {NoVm}
    BY <1>2 DEF Commit, HomesOK
  <2>1. CASE m = ask[r].mac
    BY <2>1, AskedPlace DEF HomeInv, NewNics, NoNic
  <2>2. CASE m # ask[r].mac
    BY <2>2 DEF HomeInv, HomesOK, NewNics
  <2> QED
    BY <2>1, <2>2
<1>3. nics' = nics \/ \E r \in Reqs : Commit(r)
  BY DEF Next, Step, Start, TakeOther, WaitFor, RunEntry, Conflict, FindOthers, Detect, vars
<1> QED
  BY <1>1, <1>2, <1>3

\* What becomes of what a request has found, if it does not look again.
LEMMA FoundShrinks ==
  ASSUME LockInv, [Next]_vars, NEW q \in Reqs, ~FindOthers(q)
  PROVE  \/ found'[q] = {} /\ taken'[q] = {}
         \/ /\ ask'[q] = ask[q] /\ taken[q] \subseteq taken'[q]
            /\ found'[q] \cup taken'[q] \subseteq found[q] \cup taken[q]
<1> DEFINE Fine == \/ found'[q] = {} /\ taken'[q] = {}
                   \/ /\ ask'[q] = ask[q] /\ taken[q] \subseteq taken'[q]
                      /\ found'[q] \cup taken'[q] \subseteq found[q] \cup taken[q]
<1>1. CASE UNCHANGED vars
  BY <1>1 DEF vars, batch
<1>2. ASSUME NEW r \in Reqs, NEW a \in Asks[r], Start(r, a) PROVE Fine
  <2>1. r # q => ask'[q] = ask[q]
    BY <1>2 DEF Start, LockInv, Tables
  <2>2. r = q => found[q] = {} /\ taken[q] = {}
    <3>1. Typed(r) /\ BatchOf(r)
      BY TypeOKIs DEF LockInv, Batches
    <3>2. at[r] = 0
      BY <1>2, <3>1, AskIs DEF Start, Running, Typed
    <3> QED
      BY <3>1, <3>2 DEF Typed, BatchOf
  <2> QED
    BY <1>2, <2>1, <2>2 DEF Start
<1>3. ASSUME NEW r \in Reqs, Retry(r) \/ Ends(r) PROVE Fine
  <2>1. PICK pos : Leaves(r, pos)
    BY <1>3 DEF Retry, Ends
  <2>2. r # q => ask'[q] = ask[q]
    BY <1>3 DEF Retry, Ends, LockInv, Tables
  <2> QED
    BY <2>1, <2>2 DEF Leaves, LockInv, Tables
<1>4. ASSUME NEW r \in Reqs, NEW m \in Macs, TakeOther(r, m) PROVE Fine
  BY <1>4 DEF TakeOther, LockInv, Tables
<1>5. ASSUME NEW r \in Reqs, (\E row \in Wants(r) : WaitFor(r, row)) \/ RunEntry(r) PROVE Fine
  BY <1>5 DEF WaitFor, RunEntry
<1>6. ASSUME NEW r \in Reqs, r # q, FindOthers(r) PROVE Fine
  BY <1>6 DEF FindOthers, LockInv, Tables
<1>7. ASSUME NEW r \in Reqs, Step(r) PROVE Fine
  BY <1>3, <1>4, <1>5, <1>6, <1>7 DEF Step, Conflict, Commit, Detect
<1> QED
  BY <1>1, <1>2, <1>7 DEF Next

LEMMA FoundStep ==
  ASSUME HomeInv, [Next]_vars
  PROVE  FoundOK'
<1> SUFFICES ASSUME NEW q \in Reqs, NEW m \in found'[q] \cup taken'[q]
             PROVE  ask'[q].vm \in Places(m)
  BY DEF FoundOK, Places
<1>1. CASE FindOthers(q)
  <2>1. found'[q] = {x \in Macs : nics[x].vm = ask[q].vm} \ {ask[q].mac} /\ ask' = ask /\ taken' = taken
    BY <1>1 DEF FindOthers, HomeInv, LockInv, Tables
  <2>2. ask[q].vm # NoVm
    BY AskIs, TypeOKIs, LockMacs DEF HomeInv, LockInv, Typed
  <2> QED
    BY <2>1, <2>2 DEF HomeInv, HomesOK, FoundOK
<1>2. CASE ~FindOthers(q)
  BY <1>2, FoundShrinks DEF HomeInv, FoundOK
<1> QED
  BY <1>1, <1>2

LEMMA HomeInvariant == Spec => []HomeInv
<1>1. Init => HomeInv
  BY InitInv DEF Init, HomeInv, HomesOK, FoundOK, Places
<1>2. HomeInv /\ [Next]_vars => HomeInv'
  BY StepInv, HomesStep, FoundStep DEF HomeInv
<1> QED
  BY <1>1, <1>2, PTL DEF Spec

\* A batch that holds rows and waits for one: a later entry, or a NIC of its VM.
LEMMA HoldsAndWaits ==
  ASSUME HomeInv, NEW s \in Reqs, NEW x \in held[s], NEW y, wait[s] = {y}
  PROVE  /\ y \in AnyRow /\ y \notin held[s]
         /\ y.bucket # NicBucket => (x.bucket # NicBucket => Before(x, y))
         /\ x.bucket # NicBucket => y.bucket # NicBucket
         /\ y.bucket = NicBucket =>
              /\ IsPrimary(s) /\ at[s] = 2
              /\ \E m \in found[s] : y = NicRow(m)
<1>1. Typed(s) /\ BatchOf(s)
  BY TypeOKIs DEF HomeInv, LockInv, Batches
<1> DEFINE e == Entries[ask[s]]  n == Len(e)
<1>2. /\ n \in Nat \ {0} /\ e[1] = NicRow(ask[s].mac) /\ at[s] \in 0..(n + 1)
      /\ \A i, j \in 1..n : i < j => Before(e[i], e[j])
      /\ \A i \in 2..n : e[i].bucket # NicBucket
      /\ held[s] = {e[i] : i \in 1..(at[s] - 1)} \cup {NicRow(m) : m \in taken[s]}
  BY <1>1, AskIs, EntriesAre DEF Typed
<1>3. y \in Options(s) /\ at[s] # 0
  BY <1>1 DEF BatchOf
<1>4. y \notin held[s] /\ y \in AnyRow
  BY <1>2, <1>3, OptionsNew DEF HomeInv, Running
<1>5. at[s] >= 2
  <2>1. at[s] = 1 => taken[s] = {}
    BY <1>1 DEF Typed, BatchOf
  <2> QED
    BY <1>2, <1>3, <2>1
<1> HIDE DEF e, n
<1>6. CASE found[s] # {}
  <2>1. PICK m \in found[s] : y = NicRow(m)
    BY <1>3, <1>6 DEF Options
  <2>2. at[s] = 2 /\ IsPrimary(s)
    BY <1>1, <1>6 DEF BatchOf, Typed
  <2>3. x.bucket = NicBucket
    BY <1>2, <2>2 DEF NicRow
  <2> QED
    BY <1>4, <2>1, <2>2, <2>3 DEF NicRow
<1>7. CASE found[s] = {}
  <2>1. at[s] \in 2..n /\ y = e[at[s]]
    BY <1>2, <1>3, <1>5, <1>7 DEF Options, NextRow, e, n
  <2>2. y.bucket # NicBucket
    BY <1>2, <2>1
  <2>3. x.bucket # NicBucket => Before(x, y)
    BY <1>2, <2>1 DEF NicRow
  <2> QED
    BY <1>4, <2>2, <2>3
<1> QED
  BY <1>6, <1>7

LEMMA OnlyPrimariesDeadlock ==
  ASSUME HomeInv, NicsStay, NEW S \in SUBSET Reqs, Deadlocked(S)
  PROVE  \E r, s \in S : r # s /\ IsPrimary(r) /\ IsPrimary(s) /\ ask[r].vm = ask[s].vm
<1>1. PICK w \in [S -> AnyRow] : \A r \in S : wait[r] = {w[r]}
  <2>1. ASSUME NEW r \in S PROVE \E x \in AnyRow : wait[r] = {x}
    <3>1. Typed(r) /\ BatchOf(r) /\ wait[r] # {}
      BY TypeOKIs DEF HomeInv, LockInv, Batches, Deadlocked
    <3>2. PICK x \in Options(r) : wait[r] = {x}
      BY <3>1 DEF BatchOf
    <3>3. Running(r)
      BY <3>1, AskIs DEF BatchOf, Typed, Running
    <3> QED
      BY <3>2, <3>3, OptionsNew DEF HomeInv
  <2> DEFINE v == [r \in S |-> CHOOSE x \in AnyRow : wait[r] = {x}]
  <2>2. v \in [S -> AnyRow] /\ \A r \in S : wait[r] = {v[r]}
    BY <2>1
  <2> HIDE DEF v
  <2> QED
    BY <2>2
<1>2. ASSUME NEW r \in S PROVE \E s \in S : w[r] \in held[s]
  BY <1>1 DEF Deadlocked
<1>3. \A r \in S : w[r].bucket = NicBucket
  <2> DEFINE R == {r \in S : w[r].bucket # NicBucket}  W == {w[r] : r \in R}
  <2>1. ASSUME NEW x \in W PROVE \E y \in W : Before(x, y)
    <3>1. PICK r \in S : x = w[r] /\ x.bucket # NicBucket
      OBVIOUS
    <3>2. PICK s \in S : x \in held[s]
      BY <1>2, <3>1
    <3>3. w[s].bucket # NicBucket /\ Before(x, w[s])
      BY <1>1, <3>1, <3>2, HoldsAndWaits
    <3> QED
      BY <3>3
  <2>2. IsFiniteSet(W) /\ W \subseteq AnyRow
    <3>1. IsFiniteSet(R)
      BY LockAsks, FS_Subset
    <3>2. [r \in R |-> w[r]] \in Surjection(R, W)
      BY DEF Surjection
    <3> QED
      BY <1>1, <3>1, <3>2, FS_Surjection
  <2>3. W = {}
    <3> HIDE DEF W
    <3> QED
      BY <2>1, <2>2, LastRow
  <2> QED
    BY <2>3
<1>4. ASSUME NEW s \in S, NEW x \in held[s]
      PROVE  IsPrimary(s) /\ at[s] = 2 /\ \E m \in found[s] : w[s] = NicRow(m)
  BY <1>1, <1>3, <1>4, HoldsAndWaits
<1>5. PICK r \in S : TRUE
  BY DEF Deadlocked
<1>6. PICK s \in S : w[r] \in held[s]
  BY <1>2
<1>7. PICK t \in S : w[s] \in held[t]
  BY <1>2
<1>8. IsPrimary(s) /\ IsPrimary(t) /\ at[t] = 2
  BY <1>4, <1>6, <1>7
<1>9. PICK m \in found[s] : w[s] = NicRow(m)
  BY <1>4, <1>6
<1>10. s # t
  BY <1>1, <1>6, <1>7, HoldsAndWaits
<1>11. ask[s].vm \in Places(m) /\ ask[t].vm \in Places(m) /\ m \in Macs
  <2>1. Typed(t) /\ BatchOf(s)
    BY TypeOKIs DEF HomeInv, LockInv, Batches
  <2>2. Entries[ask[t]][1] = NicRow(ask[t].mac)
    BY <2>1, AskIs DEF Typed
  <2>3. held[t] = {NicRow(ask[t].mac)} \cup {NicRow(x) : x \in taken[t]}
    BY <1>8, <2>1, <2>2 DEF Typed
  <2>4. m = ask[t].mac \/ m \in taken[t]
    BY <1>7, <1>9, <2>3, NicRowIs
  <2>5. ask[t].vm \in Places(m)
    BY <1>8, <2>4, AskedPlace DEF HomeInv, FoundOK, IsPrimary
  <2> QED
    BY <2>1, <2>5 DEF HomeInv, FoundOK, BatchOf
<1>12. \A q \in {s, t} : ask[q] \in {c \in AllAsks : c.op # "delete" /\ c.primary # "no"}
  BY <1>8, AskIs, TypeOKIs DEF HomeInv, LockInv, Typed, IsPrimary
<1> QED
  BY <1>8, <1>10, <1>11, <1>12 DEF NicsStay

\* compareRequests keeps batches from deadlock, with any number of requests and
\* whatever rows they touch, except for the entry without a key: of the batches
\* that wait for one another two are for primary NICs of one VM.
THEOREM DeadlocksOnlyOfPrimaries ==
  ASSUME NicsStay
  PROVE  Spec => []DeadlocksArePrimaries
<1>1. HomeInv => DeadlocksArePrimaries
  BY OnlyPrimariesDeadlock DEF DeadlocksArePrimaries
<1> QED
  BY <1>1, HomeInvariant, PTL
-----------------------------------------------------------------------------
(* One primary NIC.  Two creates for one VM do not see one another: the     *)
(* theorem is of requests of which one at most creates NICs of a VM.  An    *)
(* update holds its NIC's row, and whoever looks finds it.                  *)

\* Updates leave NICs where they are.
UpdatesStay == \A a \in AllAsks : a.op = "update" => Places(a.mac) \subseteq {a.vm, NoVm}

OneCreator ==
  \A r, s \in Reqs : \A a \in Asks[r], b \in Asks[s] :
    a.op = "create" /\ b.op = "create" /\ a.vm = b.vm => r = s

\* A batch that has its NIC's row knows the NIC, and one that has looked for
\* others has or is to get all that are primary; a create, all there are.
FlagOf(q) ==
  /\ at[q] = 0 => q \notin stale
  /\ Running(q) /\ ask[q].op = "update" =>
       seen[q].vm = ask[q].vm /\ (q \notin stale => nics[ask[q].mac] = seen[q])
  /\ at[q] >= 2 /\ ask[q].op = "create" => nics[ask[q].mac] = NoNic
  /\ at[q] >= 2 /\ ask[q].op = "update" => q \notin stale
  /\ \A m \in taken[q] : nics[m].vm = ask[q].vm
  /\ q \in scanned =>
       \A m \in Macs \ {ask[q].mac} :
         nics[m].vm = ask[q].vm /\ (ask[q].op = "create" \/ nics[m].primary)
         => m \in found[q] \cup taken[q]

Flags == \A q \in Reqs : FlagOf(q)

\* Of two batches of one VM that have looked, one saw the other.
Sees(q, r) == ask[r].mac \in found[q] \cup taken[q]
Pairs == \A q, r \in Reqs : /\ q # r /\ q \in scanned /\ r \in scanned
                           /\ ask[q].vm = ask[r].vm => Sees(q, r) \/ Sees(r, q)

FlagInv == HomeInv /\ Flags /\ Pairs /\ OnePrimaryNic

LEMMA FlagUntouched ==
  ASSUME NEW q \in Reqs, FlagOf(q), UNCHANGED nics, ask'[q] = ask[q], seen'[q] = seen[q],
         at'[q] = at[q], found'[q] = found[q], taken'[q] = taken[q],
         q \in scanned' <=> q \in scanned, q \in stale' <=> q \in stale
  PROVE  FlagOf(q)'
  BY DEF FlagOf, Running

\* The rows a batch has are no other's, and are its NIC and those it took.
LEMMA OwnRows ==
  ASSUME LockInv, NEW q \in Reqs, NEW r \in Reqs, q # r
  PROVE  /\ at[q] >= 2 => NicRow(ask[q].mac) \in held[q]
         /\ at[q] >= 2 => ask[q].mac \notin taken[r]
         /\ at[q] >= 2 /\ at[r] >= 2 => ask[q].mac # ask[r].mac
         /\ taken[q] \cap taken[r] = {}
<1>1. Typed(q) /\ Typed(r) /\ held[q] \cap held[r] = {}
  BY TypeOKIs DEF LockInv, Apart
<1>2. ASSUME NEW p \in {q, r}, at[p] >= 2 PROVE NicRow(ask[p].mac) \in held[p]
  <2>1. p \in Reqs /\ Typed(p)
    BY <1>1
  <2>2. Entries[ask[p]][1] = NicRow(ask[p].mac) /\ Len(Entries[ask[p]]) \in Nat
    BY <2>1, AskIs DEF Typed
  <2>3. 1 \in 1..(at[p] - 1)
    BY <1>2, <2>1, <2>2 DEF Typed
  <2> QED
    BY <2>1, <2>2, <2>3 DEF Typed
<1>3. \A p \in {q, r} : \A m \in taken[p] : NicRow(m) \in held[p]
  BY <1>1 DEF Typed
<1> QED
  BY <1>1, <1>2, <1>3

\* What a batch in its course knows of its NIC.
LEMMA OwnNic ==
  ASSUME FlagInv, NEW q \in Reqs, at[q] >= 2, ask[q].op = "update"
  PROVE  nics[ask[q].mac].vm = ask[q].vm
<1>1. FlagOf(q) /\ Running(q)
  <2>1. Typed(q)
    BY TypeOKIs DEF FlagInv, HomeInv, LockInv
  <2> QED
    BY <2>1, AskIs DEF FlagInv, Flags, Running, Typed
<1> QED
  BY <1>1 DEF FlagOf

LEMMA ScannedIs ==
  ASSUME LockInv, NEW q \in scanned
  PROVE  /\ q \in Reqs /\ at[q] >= 2 /\ IsPrimary(q) /\ ask[q].op \in {"create", "update"}
         /\ ask[q].vm \in Vms
<1>1. q \in Reqs /\ Typed(q) /\ BatchOf(q)
  BY TypeOKIs DEF LockInv, Batches
<1>2. at[q] >= 2
  BY <1>1, AskIs DEF Typed, BatchOf
<1> QED
  BY <1>1, <1>2, AskIs DEF Typed, BatchOf, IsPrimary

LEMMA StartFlags ==
  ASSUME FlagInv, UpdatesStay, NEW r \in Reqs, NEW a \in Asks[r], Start(r, a)
  PROVE  Flags' /\ Pairs'
<1>1. Typed(r) /\ BatchOf(r) /\ nics \in [Macs -> Nic] /\ seen \in [Reqs -> Nic]
  BY TypeOKIs DEF FlagInv, HomeInv, LockInv, Batches
<1>2. at[r] = 0
  BY <1>1, AskIs DEF Start, Running, Typed
<1>3. r \notin scanned /\ r \notin stale /\ taken[r] = {}
  BY <1>1, <1>2 DEF BatchOf, Typed, FlagInv, Flags, FlagOf
<1>4. /\ Alone(r) /\ at'[r] = 1 /\ ask'[r] = a /\ seen'[r] = nics[a.mac]
      /\ UNCHANGED <<nics, stale, scanned, taken, found>>
  BY <1>1 DEF FlagInv, HomeInv, LockInv, Tables, Start, Alone
<1>5. a \in AllAsks /\ a.mac \in Macs
  <2>1. a \in AllAsks
    BY DEF AllAsks
  <2> QED
    BY <2>1, BuiltIs
<1>6. a.op = "update" => nics[a.mac].vm = a.vm
  <2> SUFFICES ASSUME a.op = "update" PROVE nics[a.mac].vm = a.vm
    OBVIOUS
  <2>1. nics[a.mac] # NoNic /\ nics[a.mac] \in Nic
    BY <1>1, <1>5 DEF Start
  <2>2. nics[a.mac].vm # NoVm
    BY <2>1, LockMacs DEF Nic
  <2> QED
    BY <1>5, <2>2 DEF FlagInv, HomeInv, HomesOK, UpdatesStay
<1>7. FlagOf(r)'
  BY <1>3, <1>4, <1>6 DEF FlagOf
<1>8. Flags'
  BY <1>4, <1>7, FlagUntouched DEF Flags, FlagInv, Alone
<1>9. Pairs'
  BY <1>3, <1>4 DEF Pairs, Sees, FlagInv, Alone
<1> QED
  BY <1>8, <1>9

LEMMA RunEntryFlags ==
  ASSUME FlagInv, NEW r \in Reqs, RunEntry(r)
  PROVE  Flags' /\ Pairs'
<1>1. Typed(r) /\ BatchOf(r)
  BY TypeOKIs DEF FlagInv, HomeInv, LockInv, Batches
<1>2. /\ Alone(r) /\ at'[r] = at[r] + 1
      /\ UNCHANGED <<nics, ask, seen, stale, scanned, found, taken>>
  BY DEF FlagInv, HomeInv, LockInv, Tables, RunEntry, Locks, Alone
<1>3. at[r] \in Nat /\ (at[r] = 1 \/ at[r] >= 2)
  <2>1. Running(r)
    BY WantsAre DEF RunEntry, FlagInv, HomeInv
  <2> QED
    BY <1>1, <2>1, AskIs DEF Typed, Running
<1>4. FlagOf(r)'
  <2>1. FlagOf(r) /\ Running(r)
    BY <1>3 DEF FlagInv, Flags, Running
  <2>2. at[r] = 1 => /\ ask[r].op = "create" => nics[ask[r].mac] = NoNic
                     /\ ask[r].op = "update" => r \notin stale
    BY DEF RunEntry, Fits
  <2> QED
    BY <1>2, <1>3, <2>1, <2>2 DEF FlagOf, Running
<1>5. Flags'
  BY <1>2, <1>4, FlagUntouched DEF Flags, FlagInv, Alone
<1>6. Pairs'
  BY <1>2 DEF Pairs, Sees, FlagInv
<1> QED
  BY <1>5, <1>6

LEMMA FindOthersFlags ==
  ASSUME FlagInv, OneCreator, NEW r \in Reqs, FindOthers(r)
  PROVE  Flags' /\ Pairs'
<1>1. Typed(r) /\ BatchOf(r)
  BY TypeOKIs DEF FlagInv, HomeInv, LockInv, Batches
<1>2. /\ Alone(r) /\ scanned' = scanned \cup {r}
      /\ found'[r] = {m \in Macs : nics[m].vm = ask[r].vm} \ {ask[r].mac}
      /\ UNCHANGED <<nics, ask, seen, stale, at, taken>>
  BY DEF FlagInv, HomeInv, LockInv, Tables, FindOthers, Alone
<1>3. FlagOf(r)'
  BY <1>2 DEF FlagOf, FlagInv, Flags, Running
<1>4. Flags'
  BY <1>2, <1>3, FlagUntouched DEF Flags, FlagInv, Alone
<1>5. ASSUME NEW s \in scanned, s # r, ask[s].vm = ask[r].vm
      PROVE  Sees(r, s)' \/ Sees(s, r)
  <2>1. at[r] = 2 /\ IsPrimary(r) /\ ask[r].op \in {"create", "update"} /\ ask[r] \in Asks[r]
    BY <1>1, AskIs DEF FindOthers, Filters, IsPrimary, Typed
  <2>2. /\ s \in Reqs /\ at[s] >= 2 /\ ask[s].op \in {"create", "update"}
        /\ ask[s] \in Asks[s] /\ ask[s].mac \in Macs /\ ask[r].mac \in Macs
    BY <1>1, ScannedIs, AskIs, TypeOKIs DEF FlagInv, HomeInv, LockInv, Typed
  <2>3. ask[s].mac # ask[r].mac
    BY <1>5, <2>1, <2>2, OwnRows DEF FlagInv, HomeInv
  <2>4. CASE ask[s].op = "update"
    BY <1>2, <1>5, <2>2, <2>3, <2>4, OwnNic DEF Sees
  <2>5. CASE ask[s].op = "create"
    <3>1. ask[r].op = "update"
      BY <1>5, <2>1, <2>2, <2>5 DEF OneCreator
    <3>2. nics[ask[r].mac].vm = ask[s].vm
      BY <1>5, <2>1, <3>1, OwnNic
    <3> QED
      BY <2>2, <2>3, <2>5, <3>2 DEF Sees, FlagInv, Flags, FlagOf
  <2> QED
    BY <2>2, <2>4, <2>5
<1>6. Pairs'
  <2> SUFFICES ASSUME NEW p \in Reqs, NEW q \in Reqs, p # q, p \in scanned', q \in scanned',
                      ask[p].vm = ask[q].vm
               PROVE  Sees(p, q)' \/ Sees(q, p)'
    BY <1>2 DEF Pairs
  <2>1. \A x, y \in Reqs : x # r => (Sees(x, y)' <=> Sees(x, y))
    BY <1>2 DEF Sees, Alone
  <2>2. CASE p # r /\ q # r
    BY <1>2, <2>1, <2>2 DEF Pairs, FlagInv
  <2>3. CASE p = r
    BY <1>2, <1>5, <2>1, <2>3
  <2>4. CASE q = r
    BY <1>2, <1>5, <2>1, <2>4
  <2> QED
    BY <2>2, <2>3, <2>4
<1> QED
  BY <1>4, <1>6

LEMMA TakeOtherFlags ==
  ASSUME FlagInv, NEW r \in Reqs, NEW m \in Macs, TakeOther(r, m)
  PROVE  Flags' /\ Pairs'
<1>1. m \in found[r] /\ r \in scanned /\ Free(NicRow(m))
  BY TypeOKIs DEF FlagInv, HomeInv, LockInv, Typed, TakeOther
<1>2. /\ Alone(r) /\ UNCHANGED <<nics, ask, seen, stale, scanned, at>>
      /\ found'[r] = found[r] \ {m}
      /\ \/ nics[m].vm = ask[r].vm /\ taken'[r] = taken[r] \cup {m}
         \/ nics[m].vm # ask[r].vm /\ taken'[r] = taken[r]
  BY DEF FlagInv, HomeInv, LockInv, Tables, TakeOther, Locks, Alone
<1>3. FlagOf(r)'
  BY <1>1, <1>2 DEF FlagOf, FlagInv, Flags, Running
<1>4. Flags'
  BY <1>2, <1>3, FlagUntouched DEF Flags, FlagInv, Alone
<1>5. \A s \in Reqs : s # r /\ s \in scanned => ask[s].mac # m
  BY <1>1, ScannedIs, OwnRows DEF FlagInv, HomeInv, Free
<1>6. \A p, q \in Reqs : p # q /\ q \in scanned /\ Sees(p, q) => Sees(p, q)'
  BY <1>1, <1>2, <1>5 DEF Sees, Alone
<1>7. Pairs'
  BY <1>2, <1>6 DEF Pairs, FlagInv
<1> QED
  BY <1>4, <1>7

\* An attempt that fails, and a request that ends with nothing written.
LEMMA FailFlags ==
  ASSUME FlagInv, NEW r \in Reqs, Conflict(r) \/ Detect(r)
  PROVE  Flags' /\ Pairs'
<1>1. Typed(r) /\ at[r] \in Nat
  <2>1. Typed(r)
    BY TypeOKIs DEF FlagInv, HomeInv, LockInv
  <2> QED
    BY <2>1, AskIs DEF Typed
<1>2. PICK pos \in {0, 1} : Leaves(r, pos)
  BY DEF Conflict, Detect, Retry, Ends
<1>3. UNCHANGED nics /\ stale' = {q \in stale : at'[q] > 0}
  BY DEF Conflict, Detect, Forget
<1>4. pos = 1 => ask' = ask /\ seen' = seen
  BY <1>2 DEF Conflict, Detect, Retry, Ends, Leaves, FlagInv, HomeInv, LockInv, Tables
<1>5. /\ at'[r] = pos /\ taken'[r] = {} /\ scanned' = scanned \ {r}
  BY <1>2 DEF Leaves, FlagInv, HomeInv, LockInv, Tables
<1>6. Alone(r)
  <2>1. \A q \in Reqs : q # r => ask'[q] = ask[q] /\ seen'[q] = seen[q] /\ tries'[q] = tries[q]
    <3>1. CASE Ends(r)
      BY <3>1, TypeOKIs DEF Ends, FlagInv, HomeInv, LockInv, Tables
    <3>2. CASE ~Ends(r)
      BY <3>2 DEF Conflict, Detect, Retry, FlagInv, HomeInv, LockInv, Tables
    <3> QED
      BY <3>1, <3>2
  <2> QED
    BY <1>2, <2>1 DEF Leaves, FlagInv, HomeInv, LockInv, Tables, Alone
<1>7. Running(r)
  <2>1. CASE Conflict(r)
    BY <2>1 DEF Conflict, Running
  <2>2. CASE Detect(r)
    <3>1. wait[r] # {}
      BY <2>2 DEF Detect, Deadlocked
    <3>2. at[r] # 0
      BY <3>1 DEF FlagInv, HomeInv, LockInv, Batches, BatchOf
    <3> QED
      BY <1>1, <3>2 DEF Running
  <2> QED
    BY <2>1, <2>2
<1>8. FlagOf(r)'
  BY <1>3, <1>4, <1>5, <1>7 DEF FlagOf, Running, FlagInv, Flags
<1>9. ASSUME NEW q \in Reqs, q # r PROVE FlagOf(q)'
  <2>1. q \in stale => at[q] > 0
    <3>1. at[q] \in Nat
      BY TypeOKIs, AskIs DEF FlagInv, HomeInv, LockInv, Typed
    <3> QED
      BY <3>1 DEF FlagInv, Flags, FlagOf
  <2> QED
    BY <1>3, <1>6, <1>9, <2>1, FlagUntouched DEF FlagInv, Flags, Alone
<1>10. Pairs'
  BY <1>5, <1>6 DEF Pairs, Sees, FlagInv, Alone
<1> QED
  BY <1>8, <1>9, <1>10 DEF Flags

\* What a batch that commits has behind it.
LEMMA AtCommit ==
  ASSUME FlagInv, NEW r \in Reqs, Commit(r)
  PROVE  /\ at[r] >= 2 /\ found[r] = {} /\ (IsPrimary(r) => r \in scanned)
         /\ nics' = NewNics(r) /\ Leaves(r, 0) /\ Alone(r)
         /\ stale' = {q \in stale \cup {s \in Reqs : ask[s].mac \in taken[r] \cup {ask[r].mac}}
                        : at'[q] > 0}
         /\ at'[r] = 0 /\ taken'[r] = {} /\ found'[r] = {} /\ scanned' = scanned \ {r}
<1>1. Typed(r) /\ BatchOf(r)
  BY TypeOKIs DEF FlagInv, HomeInv, LockInv, Batches
<1>2. Running(r) /\ at[r] > Len(Entries[ask[r]]) /\ Wants(r) = {} /\ (Filters(r) => r \in scanned)
  BY DEF Commit
<1>3. at[r] \in Nat /\ at[r] >= 2
  BY <1>1, <1>2, AskIs DEF Typed
<1>4. found[r] = {}
  BY <1>2 DEF Wants
<1>5. IsPrimary(r) => r \in scanned
  BY <1>1, <1>2, <1>3 DEF Filters, BatchOf
<1>6. Leaves(r, 0) /\ Alone(r)
  BY DEF Commit, Ends, Leaves, FlagInv, HomeInv, LockInv, Tables, Alone
<1>7. at'[r] = 0 /\ taken'[r] = {} /\ found'[r] = {} /\ scanned' = scanned \ {r}
  BY <1>6 DEF Leaves, FlagInv, HomeInv, LockInv, Tables
<1> QED
  BY <1>3, <1>4, <1>5, <1>6, <1>7 DEF Commit, Forget

\* What a commit writes of a NIC that is not the request's.
LEMMA OthersWritten ==
  ASSUME LockInv, NEW r \in Reqs, NEW m \in Macs, m # ask[r].mac
  PROVE  /\ NewNics(r)[m].vm = nics[m].vm
         /\ NewNics(r)[m].primary => nics[m].primary /\ m \notin taken[r]
         /\ m \notin taken[r] => NewNics(r)[m] = nics[m]
  BY DEF NewNics

LEMMA CommitOther ==
  ASSUME FlagInv, OneCreator, NEW r \in Reqs, Commit(r), NEW q \in Reqs, q # r
  PROVE  FlagOf(q)'
<1>1. /\ Typed(q) /\ Typed(r) /\ at[q] \in Nat /\ ask[q].mac \in Macs /\ ask[r].mac \in Macs
      /\ ask[q] \in Asks[q] /\ ask[r] \in Asks[r] /\ ask[r].op \in {"create", "update", "delete"}
  <2>1. Typed(q) /\ Typed(r)
    BY TypeOKIs DEF FlagInv, HomeInv, LockInv
  <2>2. ask[q] \in Asks[q] /\ ask[r] \in Asks[r] /\ at[q] \in 0..(Len(Entries[ask[q]]) + 1)
    BY <2>1 DEF Typed
  <2>3. Len(Entries[ask[q]]) \in Nat /\ ask[q].mac \in Macs /\ ask[r].mac \in Macs
        /\ ask[r].op \in {"create", "update", "delete"}
    BY <2>2, AskIs
  <2> QED
    BY <2>1, <2>2, <2>3
<1>2. /\ at[r] >= 2 /\ found[r] = {} /\ (IsPrimary(r) => r \in scanned)
      /\ nics' = NewNics(r) /\ Alone(r)
      /\ stale' = {s \in stale \cup {s \in Reqs : ask[s].mac \in taken[r] \cup {ask[r].mac}}
                     : at'[s] > 0}
      /\ scanned' = scanned \ {r}
  BY AtCommit
<1>3. /\ ask'[q] = ask[q] /\ seen'[q] = seen[q] /\ at'[q] = at[q] /\ found'[q] = found[q]
      /\ taken'[q] = taken[q] /\ (q \in scanned' <=> q \in scanned)
  BY <1>2 DEF Alone
<1>4. FlagOf(q)
  BY DEF FlagInv, Flags
<1>5. at[q] >= 2 => ask[q].mac # ask[r].mac /\ ask[q].mac \notin taken[r]
  BY <1>2, OwnRows DEF FlagInv, HomeInv
<1>6. \A m \in taken[q] : m # ask[r].mac /\ m \notin taken[r] /\ m \in Macs
  <2>1. BatchOf(q)
    BY DEF FlagInv, HomeInv, LockInv, Batches
  <2> QED
    BY <1>2, <2>1, OwnRows DEF FlagInv, HomeInv, BatchOf
<1>7. ask[q].mac # ask[r].mac /\ ask[q].mac \notin taken[r] => nics'[ask[q].mac] = nics[ask[q].mac]
  BY <1>1, <1>2, OthersWritten DEF FlagInv, HomeInv
<1>8. \A m \in taken[q] : nics'[m].vm = ask[q].vm
  BY <1>2, <1>4, <1>6, OthersWritten DEF FlagOf, FlagInv, HomeInv
<1>9. at[q] = 0 => q \notin stale'
  BY <1>2, <1>3
<1>10. q \notin stale' /\ Running(q) => /\ q \notin stale /\ ask[q].mac \notin taken[r]
                                        /\ ask[q].mac # ask[r].mac
  BY <1>2, <1>3 DEF Running
<1>11. at[q] >= 2 /\ q \notin stale => q \notin stale'
  BY <1>2, <1>5
<1>12. ASSUME q \in scanned, NEW m \in Macs \ {ask[q].mac}, nics'[m].vm = ask[q].vm,
              ask[q].op = "create" \/ nics'[m].primary
       PROVE  m \in found[q] \cup taken[q]
  <2>1. CASE m # ask[r].mac
    BY <1>2, <1>4, <1>12, <2>1, OthersWritten DEF FlagOf, FlagInv, HomeInv
  <2>2. CASE m = ask[r].mac
    <3>1. at[q] >= 2 /\ ask[q].vm \in Vms
      BY <1>12, ScannedIs DEF FlagInv, HomeInv
    <3>2. /\ ask[r].op # "delete" /\ ask[r].vm = ask[q].vm
          /\ nics'[m].primary => IsPrimary(r)
      BY <1>2, <1>12, <2>2, <3>1, LockMacs DEF NewNics, NoNic
    <3>3. CASE IsPrimary(r)
      <4>1. Sees(q, r) \/ Sees(r, q)
        BY <1>2, <1>12, <3>2, <3>3 DEF Pairs, FlagInv
      <4>2. ~Sees(r, q)
        BY <1>2, <1>5, <3>1 DEF Sees
      <4> QED
        BY <2>2, <4>1, <4>2 DEF Sees
    <3>4. CASE ~IsPrimary(r)
      <4>1. ask[q].op = "create"
        BY <1>12, <3>2, <3>4
      <4>2. ask[r].op = "update"
        BY <1>1, <3>2, <4>1 DEF OneCreator
      <4>3. nics[m].vm = ask[q].vm
        BY <1>2, <2>2, <3>2, <4>2, OwnNic
      <4> QED
        BY <1>4, <1>12, <4>1, <4>3 DEF FlagOf
    <3> QED
      BY <3>3, <3>4
  <2> QED
    BY <2>1, <2>2
<1>13. Running(q)' <=> Running(q)
  BY <1>3 DEF Running
<1> HIDE DEF FlagInv
<1>14. /\ at'[q] = 0 => q \notin stale'
       /\ Running(q)' /\ ask'[q].op = "update" =>
            seen'[q].vm = ask'[q].vm /\ (q \notin stale' => nics'[ask'[q].mac] = seen'[q])
  BY <1>3, <1>4, <1>7, <1>9, <1>10, <1>13 DEF FlagOf
<1>15. /\ at'[q] >= 2 /\ ask'[q].op = "create" => nics'[ask'[q].mac] = NoNic
       /\ at'[q] >= 2 /\ ask'[q].op = "update" => q \notin stale'
       /\ \A m \in taken'[q] : nics'[m].vm = ask'[q].vm
  BY <1>3, <1>4, <1>5, <1>7, <1>8, <1>11 DEF FlagOf
<1>16. q \in scanned' =>
         \A m \in Macs \ {ask'[q].mac} :
           nics'[m].vm = ask'[q].vm /\ (ask'[q].op = "create" \/ nics'[m].primary)
           => m \in found'[q] \cup taken'[q]
  BY <1>3, <1>12
<1> QED
  BY <1>14, <1>15, <1>16 DEF FlagOf

LEMMA CommitFlags ==
  ASSUME FlagInv, OneCreator, NEW r \in Reqs, Commit(r)
  PROVE  Flags' /\ Pairs'
<1>1. FlagOf(r)'
  BY AtCommit DEF FlagOf, Running
<1>2. Flags'
  BY <1>1, CommitOther DEF Flags
<1>3. Pairs'
  BY AtCommit DEF Pairs, Sees, FlagInv, Alone
<1> QED
  BY <1>2, <1>3

LEMMA CommitOne ==
  ASSUME FlagInv, NEW r \in Reqs, Commit(r)
  PROVE  OnePrimaryNic'
<1>1. /\ nics' = NewNics(r) /\ found[r] = {} /\ (IsPrimary(r) => r \in scanned)
  BY AtCommit
<1>2. ASSUME NEW n \in Macs, n # ask[r].mac, NewNics(r)[ask[r].mac].primary,
             NewNics(r)[n].primary, NewNics(r)[ask[r].mac].vm = NewNics(r)[n].vm
      PROVE  FALSE
  <2>1. ask[r].mac \in Macs
    BY TypeOKIs, AskIs DEF FlagInv, HomeInv, LockInv, Typed
  <2>2. IsPrimary(r) /\ NewNics(r)[ask[r].mac].vm = ask[r].vm
    BY <1>2, <2>1 DEF NewNics, NoNic
  <2>3. nics[n].vm = ask[r].vm /\ nics[n].primary /\ n \notin taken[r]
    BY <1>2, <2>2, OthersWritten DEF FlagInv, HomeInv
  <2> QED
    BY <1>1, <1>2, <2>2, <2>3 DEF FlagInv, Flags, FlagOf
<1>3. ASSUME NEW m \in Macs, NEW n \in Macs, NewNics(r)[m].primary, NewNics(r)[n].primary,
             NewNics(r)[m].vm = NewNics(r)[n].vm
      PROVE  m = n
  <2>1. CASE m # ask[r].mac /\ n # ask[r].mac
    BY <1>3, <2>1, OthersWritten DEF FlagInv, HomeInv, OnePrimaryNic
  <2>2. CASE m = ask[r].mac
    BY <1>2, <1>3, <2>2
  <2>3. CASE n = ask[r].mac
    BY <1>2, <1>3, <2>3
  <2> QED
    BY <2>1, <2>2, <2>3
<1> QED
  BY <1>1, <1>3 DEF OnePrimaryNic

LEMMA FlagStep ==
  ASSUME FlagInv, UpdatesStay, OneCreator, [Next]_vars
  PROVE  FlagInv'
<1>1. HomeInv'
  BY StepInv, HomesStep, FoundStep DEF FlagInv, HomeInv
<1>2. CASE UNCHANGED vars
  <2>1. Flags'
    BY <1>2, FlagUntouched DEF FlagInv, Flags, vars, batch
  <2>2. Pairs' /\ OnePrimaryNic'
    BY <1>2 DEF FlagInv, Pairs, Sees, OnePrimaryNic, vars, batch
  <2> QED
    BY <1>1, <2>1, <2>2 DEF FlagInv
<1>3. ASSUME NEW r \in Reqs, NEW row, WaitFor(r, row) PROVE Flags' /\ Pairs'
  <2>1. Flags'
    BY <1>3, FlagUntouched DEF FlagInv, Flags, WaitFor
  <2>2. Pairs'
    BY <1>3 DEF FlagInv, Pairs, Sees, WaitFor
  <2> QED
    BY <2>1, <2>2
<1>4. Next => Flags' /\ Pairs'
  BY <1>3, StartFlags, RunEntryFlags, FindOthersFlags, TakeOtherFlags, FailFlags, CommitFlags
  DEF Next, Step
<1>5. CASE Next
  <2>1. nics' = nics \/ \E r \in Reqs : Commit(r)
    BY <1>5 DEF Next, Step, Start, TakeOther, WaitFor, RunEntry, Conflict, FindOthers, Detect
  <2>2. OnePrimaryNic'
    BY <2>1, CommitOne DEF FlagInv, OnePrimaryNic
  <2> QED
    BY <1>1, <1>4, <1>5, <2>2 DEF FlagInv
<1> QED
  BY <1>2, <1>5

\* However creates, updates and deletes that set or clear the flag race, and
\* however often their batches are run again, a VM has one primary NIC at most: if
\* updates leave NICs in their VM, and one request at a time creates NICs of a VM.
\* (Two batches that insert NICs do not find one another's.)
THEOREM OnePrimary ==
  ASSUME UpdatesStay, OneCreator
  PROVE  Spec => []OnePrimaryNic
<1>1. Init => FlagInv
  <2>1. Init => HomeInv
    BY InitInv DEF Init, HomeInv, HomesOK, FoundOK, Places
  <2>2. Init => Flags /\ Pairs
    BY DEF Init, Flags, FlagOf, Pairs, Running
  <2>3. Init => OnePrimaryNic
    BY LockStart DEF Init, OnePrimaryNic
  <2> QED
    BY <2>1, <2>2, <2>3 DEF FlagInv
<1>2. FlagInv /\ [Next]_vars => FlagInv'
  BY FlagStep
<1>3. FlagInv => OnePrimaryNic
  BY DEF FlagInv
<1> QED
  BY <1>1, <1>2, <1>3, PTL DEF Spec
=============================================================================
