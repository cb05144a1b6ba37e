--------------------------- MODULE Fabrics_proofs ---------------------------
(***************************************************************************)
(* Whatever the accounts, the blocks and the prefix: the subnet that NAPI  *)
(* chooses is aligned and private, is free if no subnet is smaller than    *)
(* one of the prefix, and is missing only if there is none; the networks   *)
(* of an account share a virtual network, and overlap only by requests     *)
(* that were overtaken.                                                    *)
(***************************************************************************)
EXTENDS Fabrics, FiniteSetTheorems, WellFoundedInduction, TLAPS

(* Arithmetic of multiples.                                                *)

LEMMA Quotient ==
  ASSUME NEW x \in Int, NEW p \in Nat \ {0}
  PROVE  x = p * (x \div p) + (x % p) /\ x \div p \in Int /\ x % p \in 0..(p - 1)
<1>1. x = p * (x \div p) + (x % p)
  OBVIOUS
<1>2. x \div p \in Int
  OBVIOUS
<1> QED
  BY <1>1, <1>2

LEMMA MultipleIs ==
  ASSUME NEW x \in Int, NEW p \in Nat \ {0}, x % p = 0
  PROVE  \E q \in Int : x = p * q
<1>1. x = p * (x \div p)
  BY Quotient
<1> QED
  BY <1>1, Quotient

LEMMA IsMultiple == ASSUME NEW q \in Int, NEW p \in Nat \ {0} PROVE (p * q) % p = 0
  OBVIOUS

LEMMA Products ==
  ASSUME NEW x \in Int, NEW y \in Int, NEW z \in Int
  PROVE  /\ x * (y + z) = x * y + x * z /\ x * (y - z) = x * y - x * z
         /\ x * (y * z) = (x * y) * z
  OBVIOUS

LEMMA MultiplesAdd ==
  ASSUME NEW x \in Int, NEW y \in Int, NEW p \in Nat \ {0}, x % p = 0, y % p = 0
  PROVE  (x + y) % p = 0 /\ (x - y) % p = 0 /\ p % p = 0
<1>1. PICK a \in Int : x = p * a
  BY MultipleIs
<1>2. PICK b \in Int : y = p * b
  BY MultipleIs
<1>3. x + y = p * (a + b) /\ x - y = p * (a - b) /\ p = p * 1
  BY <1>1, <1>2, Products
<1>4. a + b \in Int /\ a - b \in Int /\ 1 \in Int
  OBVIOUS
<1>5. (p * (a + b)) % p = 0 /\ (p * (a - b)) % p = 0 /\ (p * 1) % p = 0
  BY <1>4, IsMultiple
<1> QED
  BY <1>3, <1>5

LEMMA NextMultiple ==
  ASSUME NEW x \in Int, NEW y \in Int, NEW p \in Nat \ {0}, x % p = 0, y % p = 0, x < y
  PROVE  x + p <= y
<1>1. PICK a \in Int : x = p * a
  BY MultipleIs
<1>2. PICK b \in Int : y = p * b
  BY MultipleIs
<1>3. p * a < p * b => p * a + p <= p * b
  OBVIOUS
<1> QED
  BY <1>1, <1>2, <1>3

LEMMA MultiplesOfMultiples ==
  ASSUME NEW x \in Int, NEW s \in Nat \ {0}, NEW p \in Nat \ {0}, x % s = 0, s % p = 0
  PROVE  x % p = 0
<1>1. PICK a \in Int : x = s * a
  BY MultipleIs
<1>2. PICK b \in Int : s = p * b
  BY MultipleIs
<1>3. x = p * (b * a) /\ b * a \in Int
  BY <1>1, <1>2, Products
<1> QED
  BY <1>3, IsMultiple

\* The multiple below a number.
LEMMA Masked ==
  ASSUME NEW x \in Nat, NEW p \in Nat \ {0}
  PROVE  /\ x - (x % p) \in Nat /\ x % p \in Nat /\ x % p < p
         /\ (x - (x % p)) % p = 0
<1>1. x = p * (x \div p) + (x % p) /\ x \div p \in Int /\ x % p \in 0..(p - 1)
  BY Quotient
<1>2. x - (x % p) = p * (x \div p)
  BY <1>1
<1>3. (p * (x \div p)) % p = 0
  BY <1>1, IsMultiple
<1>4. x % p <= x
  <2>1. x \div p >= 0
    OBVIOUS
  <2> QED
    BY <1>1, <2>1
<1> QED
  BY <1>1, <1>2, <1>3, <1>4

\* A smaller subnet does not cross the boundary of one of the prefix.
LEMMA SmallInside ==
  ASSUME NEW x \in Nat, NEW s \in Nat \ {0}, NEW p \in Nat \ {0}, x % s = 0, p % s = 0
  PROVE  x + s <= (x - (x % p)) + p
<1>1. PICK y \in Nat : y = x - (x % p) /\ y % p = 0 /\ x < y + p
  <2>1. /\ x - (x % p) \in Nat /\ x % p \in Nat /\ x % p < p /\ (x - (x % p)) % p = 0
    BY Masked, Zenon
  <2>2. \A m \in Nat : m < p /\ x - m \in Nat => x < (x - m) + p
    OBVIOUS
  <2>3. x < (x - (x % p)) + p
    BY <2>1, <2>2, Zenon
  <2> QED
    BY <2>1, <2>3, Zenon
<1>2. y \in Int /\ x \in Int /\ y + p \in Int
  OBVIOUS
<1>3. y % s = 0
  BY <1>1, <1>2, MultiplesOfMultiples, Zenon
<1>4. (y + p) % s = 0
  <2>1. p \in Int
    OBVIOUS
  <2> QED
    BY <1>2, <1>3, <2>1, MultiplesAdd, Zenon
<1>5. x + s <= y + p
  BY <1>1, <1>2, <1>4, NextMultiple, Zenon
<1> QED
  BY <1>1, <1>5, Zenon
-----------------------------------------------------------------------------
(* Lists of subnets.                                                       *)

Sized == [at : Nat, size : Nat \ {0}]

\* A finite set has a minimum of any strict order.
LEMMA FirstOf ==
  ASSUME NEW S, IsFiniteSet(S), NEW e \in S, NEW R,
         \A x \in S : <<x, x>> \notin R,
         \A x, y, z \in S : <<x, y>> \in R /\ <<y, z>> \in R => <<x, z>> \in R
  PROVE  \E x \in S : \A y \in S : <<y, x>> \notin R
<1> DEFINE under(x) == {y \in S : <<y, x>> \in R}
           T == {under(x) : x \in S}
<1>1. T \subseteq FiniteSubsetsOf(S) /\ T # {}
  <2>1. ASSUME NEW t \in T PROVE t \subseteq S
    <3>1. PICK x \in S : t = under(x)
      OBVIOUS
    <3> QED
      BY <3>1
  <2>2. FiniteSubsetsOf(S) = SUBSET S
    BY FS_FiniteSubsetsOfFinite
  <2>3. under(e) \in T
    OBVIOUS
  <2> HIDE DEF T
  <2>4. T \subseteq SUBSET S
    BY <2>1
  <2> QED
    BY <2>2, <2>3, <2>4, Zenon
<1>2. PICK t \in T : \A u \in T : ~(<<u, t>> \in StrictSubsetOrdering(S))
  <2> HIDE DEF T
  <2> QED
    BY <1>1, FS_StrictSubsetOrderingWellFounded, WFMin, Zenon
<1>3. PICK x \in S : t = under(x)
  OBVIOUS
<1>4. ASSUME NEW y \in S, <<y, x>> \in R PROVE FALSE
  <2>1. under(y) \subseteq under(x) /\ y \in under(x) /\ y \notin under(y)
    BY <1>4
  <2>2. under(y) \in T /\ under(y) \in SUBSET S /\ under(x) \in SUBSET S
    OBVIOUS
  <2>3. <<under(y), under(x)>> \in StrictSubsetOrdering(S)
    BY <2>1, <2>2 DEF StrictSubsetOrdering
  <2> QED
    BY <1>2, <1>3, <2>2, <2>3
<1> QED
  BY <1>4

LEMMA BeforeIsAnOrder ==
  /\ \A s \in Sized : ~Before(s, s)
  /\ \A s, t \in Sized : s # t => Before(s, t) \/ Before(t, s)
  /\ \A s, t, u \in Sized : Before(s, t) /\ Before(t, u) => Before(s, u)
<1>1. \A s \in Sized : s.at \in Nat /\ s.size \in Nat
  BY DEF Sized
<1>2. \A s, t \in Sized : s.at = t.at /\ s.size = t.size => s = t
  BY DEF Sized
<1> QED
  BY <1>1, <1>2 DEF Before

LEMMA FirstAndLast ==
  ASSUME NEW S \in SUBSET Sized, IsFiniteSet(S), NEW e \in S
  PROVE  /\ \E x \in S : \A y \in S : ~Before(y, x)
         /\ \E x \in S : \A y \in S : ~Before(x, y)
<1> DEFINE R == {p \in S \X S : Before(p[1], p[2])}  Q == {p \in S \X S : Before(p[2], p[1])}
<1>1. \A x, y \in S : (<<x, y>> \in R <=> Before(x, y)) /\ (<<x, y>> \in Q <=> Before(y, x))
  OBVIOUS
<1> HIDE DEF R, Q
<1>2. \A x, y, z \in S : Before(x, y) /\ Before(y, z) => Before(x, z)
  BY BeforeIsAnOrder
<1>3. \A x \in S : ~Before(x, x)
  BY BeforeIsAnOrder
<1>4. \E x \in S : \A y \in S : <<y, x>> \notin R
  BY <1>1, <1>2, <1>3, FirstOf
<1>5. \E x \in S : \A y \in S : <<y, x>> \notin Q
  BY <1>1, <1>2, <1>3, FirstOf
<1> QED
  BY <1>1, <1>4, <1>5

Below(v, s) == {n \in OnVnet(v) : Before(nets[n].subnet, s)}
UpTo(v, s)  == {n \in OnVnet(v) : ~Before(s, nets[n].subnet)}
SubnetsOf(v) == {nets[n].subnet : n \in OnVnet(v)}
IsKth(v, s, k) == Cardinality(Below(v, s)) < k /\ k <= Cardinality(UpTo(v, s))

LEMMA Counted ==
  ASSUME NEW v, IsFiniteSet(OnVnet(v)), SubnetsOf(v) \subseteq Sized
  PROVE  /\ IsFiniteSet(SubnetsOf(v)) /\ Cardinality(OnVnet(v)) \in Nat
         /\ \A s \in SubnetsOf(v) :
              /\ Cardinality(Below(v, s)) \in Nat /\ Cardinality(UpTo(v, s)) \in Nat
              /\ Cardinality(UpTo(v, s)) <= Cardinality(OnVnet(v))
              /\ Cardinality(Below(v, s)) < Cardinality(UpTo(v, s))
              /\ \A t \in SubnetsOf(v) :
                   Before(s, t) => Cardinality(UpTo(v, s)) <= Cardinality(Below(v, t))
<1>1. IsFiniteSet(SubnetsOf(v)) /\ Cardinality(OnVnet(v)) \in Nat
  <2>1. [n \in OnVnet(v) |-> nets[n].subnet] \in Surjection(OnVnet(v), SubnetsOf(v))
    BY DEF Surjection, SubnetsOf
  <2> QED
    BY <2>1, FS_Surjection, FS_CardinalityType
<1>2. ASSUME NEW A, NEW B, A \subseteq B, B \subseteq OnVnet(v)
      PROVE  /\ Cardinality(A) \in Nat /\ Cardinality(B) \in Nat
             /\ Cardinality(A) <= Cardinality(B) /\ (Cardinality(A) = Cardinality(B) => A = B)
  <2>1. IsFiniteSet(B) /\ IsFiniteSet(A)
    BY <1>2, FS_Subset
  <2> QED
    BY <1>2, <2>1, FS_Subset, FS_CardinalityType
<1>3. \A n \in OnVnet(v) : nets[n].subnet \in Sized /\ nets[n].subnet \in SubnetsOf(v)
  BY DEF SubnetsOf
<1>4. ASSUME NEW s \in SubnetsOf(v)
      PROVE  /\ Below(v, s) \subseteq UpTo(v, s) /\ UpTo(v, s) \subseteq OnVnet(v)
             /\ Below(v, s) # UpTo(v, s)
             /\ \A t \in SubnetsOf(v) : Before(s, t) => UpTo(v, s) \subseteq Below(v, t)
  <2>1. PICK n \in OnVnet(v) : nets[n].subnet = s
    BY DEF SubnetsOf
  <2>2. n \in UpTo(v, s) /\ n \notin Below(v, s)
    BY <1>3, <2>1, BeforeIsAnOrder DEF UpTo, Below
  <2>3. Below(v, s) \subseteq UpTo(v, s)
    BY <1>3, BeforeIsAnOrder DEF UpTo, Below
  <2>4. \A t \in SubnetsOf(v) : Before(s, t) => UpTo(v, s) \subseteq Below(v, t)
    BY <1>3, BeforeIsAnOrder DEF UpTo, Below
  <2> QED
    BY <2>2, <2>3, <2>4 DEF UpTo
<1>5. ASSUME NEW s \in SubnetsOf(v), NEW t \in SubnetsOf(v), Before(s, t)
      PROVE  Cardinality(UpTo(v, s)) <= Cardinality(Below(v, t))
  <2>1. UpTo(v, s) \subseteq Below(v, t) /\ Below(v, t) \subseteq OnVnet(v)
    BY <1>4, <1>5
  <2> QED
    BY <1>2, <2>1
<1>6. ASSUME NEW s \in SubnetsOf(v)
      PROVE  /\ Cardinality(Below(v, s)) \in Nat /\ Cardinality(UpTo(v, s)) \in Nat
             /\ Cardinality(UpTo(v, s)) <= Cardinality(OnVnet(v))
             /\ Cardinality(Below(v, s)) < Cardinality(UpTo(v, s))
  <2>1. /\ Cardinality(Below(v, s)) \in Nat /\ Cardinality(UpTo(v, s)) \in Nat
        /\ Cardinality(Below(v, s)) <= Cardinality(UpTo(v, s))
        /\ Cardinality(Below(v, s)) # Cardinality(UpTo(v, s))
    BY <1>2, <1>4
  <2>2. Cardinality(UpTo(v, s)) <= Cardinality(OnVnet(v))
    BY <1>2, <1>4
  <2> QED
    BY <2>1, <2>2
<1> QED
  BY <1>1, <1>5, <1>6

\* The k-th subnet exists: the first one up to which there are k.
LEMMA KthIs ==
  ASSUME NEW v, IsFiniteSet(OnVnet(v)), SubnetsOf(v) \subseteq Sized,
         NEW k \in 1..Cardinality(OnVnet(v))
  PROVE  \E s \in SubnetsOf(v) : IsKth(v, s, k)
<1> DEFINE N == Cardinality(OnVnet(v))
           G == {s \in SubnetsOf(v) : k <= Cardinality(UpTo(v, s))}
<1>1. IsFiniteSet(SubnetsOf(v)) /\ N \in Nat /\ k \in Nat /\ 1 <= k /\ k <= N
  BY Counted
<1>2. SubnetsOf(v) # {}
  <2>1. OnVnet(v) # {}
    BY <1>1, FS_EmptySet
  <2> QED
    BY <2>1 DEF SubnetsOf
<1>3. PICK last \in SubnetsOf(v) : \A t \in SubnetsOf(v) : ~Before(last, t)
  BY <1>1, <1>2, FirstAndLast
<1>4. last \in G
  <2>1. UpTo(v, last) = OnVnet(v)
    BY <1>3 DEF UpTo, SubnetsOf
  <2> QED
    BY <1>1, <2>1
<1>5. IsFiniteSet(G) /\ G \subseteq SubnetsOf(v)
  BY <1>1, FS_Subset
<1>6. PICK s \in G : \A t \in G : ~Before(t, s)
  <2> HIDE DEF G
  <2> QED
    BY <1>4, <1>5, FirstAndLast
<1> DEFINE L == {t \in SubnetsOf(v) : Before(t, s)}
<1>7. Cardinality(Below(v, s)) < k
  <2>1. CASE L = {}
    <3>1. Below(v, s) = {}
      BY <2>1 DEF Below, SubnetsOf
    <3> QED
      BY <1>1, <3>1, FS_EmptySet
  <2>2. CASE L # {}
    <3>1. IsFiniteSet(L) /\ L \subseteq Sized
      BY <1>1, FS_Subset
    <3>2. PICK t \in L : \A u \in L : ~Before(t, u)
      <4> HIDE DEF L
      <4> QED
        BY <2>2, <3>1, FirstAndLast
    <3>3. Below(v, s) \subseteq UpTo(v, t)
      BY <3>2 DEF Below, UpTo, SubnetsOf
    <3>4. Cardinality(Below(v, s)) <= Cardinality(UpTo(v, t))
      <4>1. IsFiniteSet(UpTo(v, t))
        BY FS_Subset DEF UpTo
      <4> QED
        BY <3>3, <4>1, FS_Subset
    <3>5. ~(k <= Cardinality(UpTo(v, t)))
      BY <1>6, <3>2
    <3>6. Cardinality(UpTo(v, t)) \in Nat /\ Cardinality(Below(v, s)) \in Nat
      BY Counted
    <3> QED
      BY <1>1, <3>4, <3>5, <3>6
  <2> QED
    BY <2>1, <2>2
<1> QED
  BY <1>6, <1>7 DEF IsKth

\* What listFilteredNetworks returns: all the subnets, in order.
LEMMA ListedIs ==
  ASSUME NEW v, IsFiniteSet(OnVnet(v)), SubnetsOf(v) \subseteq Sized
  PROVE  /\ Len(Listed(v)) \in Nat /\ DOMAIN Listed(v) = 1..Len(Listed(v))
         /\ Listed(v) = <<>> <=> OnVnet(v) = {}
         /\ Len(Listed(v)) = 0 <=> OnVnet(v) = {}
         /\ \A i \in 1..Len(Listed(v)) : Listed(v)[i] \in SubnetsOf(v)
         /\ \A i, j \in 1..Len(Listed(v)) : i < j => ~Before(Listed(v)[j], Listed(v)[i])
         /\ \A s \in SubnetsOf(v) : \E i \in 1..Len(Listed(v)) : Listed(v)[i] = s
         /\ \A i, j \in 1..Len(Listed(v)) : i < j /\ Listed(v)[i] = Listed(v)[j] =>
              \E m, n \in OnVnet(v) : /\ m # n /\ nets[m].subnet = Listed(v)[i]
                                     /\ nets[n].subnet = Listed(v)[i]
<1> DEFINE N == Cardinality(OnVnet(v))  list == Listed(v)
<1>1. list = [k \in 1..N |-> CHOOSE s \in SubnetsOf(v) : IsKth(v, s, k)]
  BY DEF Listed, Below, UpTo, SubnetsOf, IsKth
<1>2. N \in Nat /\ (N = 0 <=> OnVnet(v) = {})
  BY Counted, FS_EmptySet
<1> HIDE DEF list, N
<1>3. DOMAIN list = 1..N /\ Len(list) = N
  BY <1>1, <1>2
<1>4. list = <<>> <=> N = 0
  BY <1>1, <1>2, <1>3
<1>5. ASSUME NEW k \in 1..N PROVE list[k] \in SubnetsOf(v) /\ IsKth(v, list[k], k)
  BY <1>1, KthIs DEF N
<1>6. ASSUME NEW i \in 1..N, NEW j \in 1..N, i < j, Before(list[j], list[i]) PROVE FALSE
  <2>1. list[i] \in SubnetsOf(v) /\ list[j] \in SubnetsOf(v)
    BY <1>5
  <2>2. Cardinality(UpTo(v, list[j])) <= Cardinality(Below(v, list[i]))
    BY <1>6, <2>1, Counted
  <2>3. Cardinality(Below(v, list[i])) < i /\ j <= Cardinality(UpTo(v, list[j]))
    BY <1>5 DEF IsKth
  <2>4. Cardinality(Below(v, list[i])) \in Nat /\ Cardinality(UpTo(v, list[j])) \in Nat
    BY <2>1, Counted
  <2> QED
    BY <1>2, <1>6, <2>2, <2>3, <2>4
<1>7. ASSUME NEW s \in SubnetsOf(v) PROVE \E i \in 1..N : list[i] = s
  <2> DEFINE k == Cardinality(Below(v, s)) + 1
  <2>1. /\ Cardinality(Below(v, s)) \in Nat /\ Cardinality(UpTo(v, s)) \in Nat
        /\ Cardinality(Below(v, s)) < Cardinality(UpTo(v, s)) /\ Cardinality(UpTo(v, s)) <= N
    BY Counted DEF N
  <2>2. k \in 1..N /\ k <= Cardinality(UpTo(v, s))
    BY <1>2, <2>1
  <2>3. /\ list[k] \in SubnetsOf(v) /\ Cardinality(Below(v, list[k])) < k
        /\ k <= Cardinality(UpTo(v, list[k]))
    BY <1>5, <2>2 DEF IsKth
  <2>4. /\ Cardinality(Below(v, list[k])) \in Nat /\ Cardinality(UpTo(v, list[k])) \in Nat
    BY <2>3, Counted
  <2>5. ~Before(list[k], s)
    <3>1. Before(list[k], s) => Cardinality(UpTo(v, list[k])) <= Cardinality(Below(v, s))
      BY <2>3, Counted
    <3> QED
      BY <2>1, <2>3, <2>4, <3>1
  <2>6. ~Before(s, list[k])
    <3>1. Before(s, list[k]) => Cardinality(UpTo(v, s)) <= Cardinality(Below(v, list[k]))
      BY <2>3, Counted
    <3> QED
      BY <2>1, <2>2, <2>3, <2>4, <3>1
  <2>7. list[k] = s
    BY <2>3, <2>5, <2>6, BeforeIsAnOrder
  <2> QED
    BY <2>2, <2>7
<1>8. ASSUME NEW i \in 1..N, NEW j \in 1..N, i < j, list[i] = list[j]
      PROVE  \E m, n \in OnVnet(v) : m # n /\ nets[m].subnet = list[i] /\ nets[n].subnet = list[i]
  <2> DEFINE s == list[i]  A == UpTo(v, s)  B == Below(v, s)
  <2>1. s \in SubnetsOf(v) /\ Cardinality(B) < i /\ j <= Cardinality(A)
    BY <1>5, <1>8 DEF IsKth
  <2>2. Cardinality(A) \in Nat /\ Cardinality(B) \in Nat
    BY <2>1, Counted
  <2>3. PICK n \in OnVnet(v) : nets[n].subnet = s
    BY <2>1 DEF SubnetsOf
  <2>4. IsFiniteSet(B) /\ IsFiniteSet(B \cup {n}) /\ Cardinality(B \cup {n}) <= Cardinality(B) + 1
    <3>1. IsFiniteSet(B)
      BY FS_Subset DEF Below
    <3>2. IsFiniteSet(B \cup {n}) /\ Cardinality(B \cup {n}) \in {Cardinality(B), Cardinality(B) + 1}
      BY <3>1, FS_AddElement, Zenon
    <3> HIDE DEF B
    <3> QED
      BY <2>2, <3>1, <3>2
  <2>5. ~(A \subseteq B \cup {n})
    <3>1. A \subseteq B \cup {n} => Cardinality(A) <= Cardinality(B \cup {n})
      BY <2>4, FS_Subset
    <3>2. Cardinality(B \cup {n}) \in Nat
      BY <2>4, FS_CardinalityType
    <3> HIDE DEF A, B
    <3> QED
      BY <1>2, <1>8, <2>1, <2>2, <2>4, <3>1, <3>2
  <2>6. PICK m \in A : m \notin B /\ m # n
    BY <2>5
  <2>7. m \in OnVnet(v) /\ nets[m].subnet = s
    <3>1. m \in OnVnet(v) /\ ~Before(s, nets[m].subnet) /\ ~Before(nets[m].subnet, s)
      BY <2>6 DEF UpTo, Below
    <3>2. nets[m].subnet \in Sized /\ s \in Sized
      BY <2>1, <3>1 DEF SubnetsOf
    <3> QED
      BY <3>1, <3>2, BeforeIsAnOrder
  <2> QED
    BY <2>3, <2>6, <2>7
<1> QED
  BY <1>2, <1>3, <1>4, <1>5, <1>6, <1>7, <1>8 DEF list
-----------------------------------------------------------------------------
(* Steps of the streams, from one subnet to the next.                      *)

\* Subnets that can be there, and those that NAPI chooses.
Fits(s) == /\ s \in Sized /\ IsPrivate(s) /\ s.at % s.size = 0
           /\ s.size % PrefixSize = 0 \/ PrefixSize % s.size = 0
Offered == {s \in [at : Nat, size : {PrefixSize}] : Chosen(s)}

\* Where a step from a subnet begins.
StartOf(s) == Adjusted(s).at
EndOf(s)   == LastOf(Adjusted(s)) + 1
Spans(s, a, b) == StartOf(s) = a /\ EndOf(s) = b

LEMMA BlockFacts ==
  /\ Len(Blocks) \in Nat \ {0} /\ DOMAIN Blocks = 1..Len(Blocks) /\ PrefixSize \in Nat \ {0}
  /\ \A i \in 1..Len(Blocks) :
       /\ Blocks[i].first \in Nat \ {0} /\ Blocks[i].last \in Nat
       /\ Blocks[i].first <= Blocks[i].last
       /\ Blocks[i].first % PrefixSize = 0 /\ (Blocks[i].last + 1) % PrefixSize = 0
  /\ \A i, j \in 1..Len(Blocks) : i < j => Blocks[i].last + 1 < Blocks[j].first
<1>1. Len(Blocks) \in Nat \ {0} /\ DOMAIN Blocks = 1..Len(Blocks)
  BY SubnetBlocks
<1>2. \A i \in 1..Len(Blocks) : Blocks[i] \in [first : Nat \ {0}, last : Nat]
  <2>1. \A S : Blocks \in Seq(S) => \A i \in 1..Len(Blocks) : Blocks[i] \in S
    OBVIOUS
  <2> QED
    BY <2>1, SubnetBlocks, Zenon
<1> QED
  BY <1>1, <1>2, SubnetBlocks, SubnetPrefix

\* A subnet of the prefix fits wherever a block has a multiple of it.
LEMMA AlignedFits ==
  ASSUME NEW i \in 1..Len(Blocks), NEW a \in Nat, a % PrefixSize = 0,
         Blocks[i].first <= a, a <= Blocks[i].last
  PROVE  /\ Cidr(a, PrefixSize) = [at |-> a, size |-> PrefixSize]
         /\ Cidr(a, PrefixSize) \in Offered /\ a + PrefixSize <= Blocks[i].last + 1
<1>1. a + PrefixSize <= Blocks[i].last + 1
  <2>1. /\ a \in Int /\ Blocks[i].last + 1 \in Int /\ a < Blocks[i].last + 1
        /\ (Blocks[i].last + 1) % PrefixSize = 0 /\ PrefixSize \in Nat \ {0}
    BY BlockFacts
  <2> QED
    BY <2>1, NextMultiple, Zenon
<1>2. a - (a % PrefixSize) = a
  OBVIOUS
<1>3. Cidr(a, PrefixSize) = [at |-> a, size |-> PrefixSize]
  BY <1>2, Zenon DEF Cidr
<1> DEFINE s == [at |-> a, size |-> PrefixSize]
<1>4. s.at = a /\ s.size = PrefixSize /\ s \in [at : Nat, size : {PrefixSize}]
  OBVIOUS
<1>5. LastOf(s) <= Blocks[i].last
  BY <1>1, <1>4, BlockFacts DEF LastOf
<1> HIDE DEF s
<1>6. IsPrivate(s)
  BY <1>4, <1>5, BlockFacts DEF IsPrivate, Inside
<1>7. s \in Offered
  BY <1>4, <1>6 DEF Offered, Chosen
<1> QED
  BY <1>1, <1>3, <1>7 DEF s

LEMMA ChoicesFit ==
  ASSUME NEW s \in Offered
  PROVE  /\ Fits(s) /\ s.size % PrefixSize = 0 /\ s.at % PrefixSize = 0 /\ s # NoSubnet
         /\ s.at \in Nat /\ s.size = PrefixSize
<1>1. /\ s \in [at : Nat, size : {PrefixSize}] /\ s.size = PrefixSize
      /\ s.at % PrefixSize = 0 /\ IsPrivate(s) /\ PrefixSize \in Nat \ {0}
  BY BlockFacts DEF Offered, Chosen
<1>2. PrefixSize % PrefixSize = 0
  <2>1. 0 \in Int /\ 0 % PrefixSize = 0
    BY <1>1
  <2> QED
    BY <1>1, <2>1, MultiplesAdd, Zenon
<1>3. s # NoSubnet
  BY <1>1 DEF NoSubnet
<1> QED
  BY <1>1, <1>2, <1>3 DEF Fits, Sized

LEMMA AdjustedIs ==
  ASSUME NEW s, Fits(s)
  PROVE  /\ StartOf(s) \in Nat /\ EndOf(s) \in Nat
         /\ StartOf(s) % PrefixSize = 0 /\ EndOf(s) % PrefixSize = 0
         /\ StartOf(s) <= s.at /\ s.at + s.size <= EndOf(s)
         /\ s.size % PrefixSize = 0 =>
              Spans(s, s.at, s.at + s.size) /\ s.at % PrefixSize = 0 /\ PrefixSize <= s.size
         /\ \E i \in 1..Len(Blocks) : /\ Blocks[i].first <= StartOf(s)
                                      /\ EndOf(s) <= Blocks[i].last + 1
<1>1. s.at \in Nat /\ s.size \in Nat \ {0} /\ PrefixSize \in Nat \ {0} /\ s.at % s.size = 0
  BY BlockFacts DEF Fits, Sized
<1>2. PICK i \in 1..Len(Blocks) : Blocks[i].first <= s.at /\ s.at + s.size <= Blocks[i].last + 1
  <2>1. PICK i \in 1..Len(Blocks) : Blocks[i].first <= s.at /\ s.at + s.size - 1 <= Blocks[i].last
    BY BlockFacts DEF Fits, IsPrivate, Inside, LastOf
  <2>2. Blocks[i].last \in Nat
    BY BlockFacts
  <2>3. s.at + s.size <= Blocks[i].last + 1
    <3>1. s.at \in Nat /\ s.size \in Nat
      BY <1>1
    <3> QED
      BY <2>1, <2>2, <3>1
  <2> QED
    BY <2>1, <2>3, Zenon
<1>3. 0 \in Int /\ 0 % PrefixSize = 0 /\ 0 % s.size = 0
  BY <1>1
<1>4. CASE s.size % PrefixSize = 0
  <2>1. 0 + PrefixSize <= s.size
    <3>1. 0 < s.size /\ s.size \in Int
      BY <1>1
    <3> QED
      BY <1>1, <1>3, <1>4, <3>1, NextMultiple, Zenon
  <2>2. (IF s.size > PrefixSize THEN s.size ELSE PrefixSize) = s.size
    BY <1>1, <2>1
  <2>3. s.at - (s.at % s.size) = s.at
    BY <1>1
  <2>4. Adjusted(s) = [at |-> s.at, size |-> s.size]
    BY <2>2, <2>3, Zenon DEF Adjusted, Cidr
  <2>5. Spans(s, s.at, s.at + s.size)
    BY <1>1, <2>4 DEF Spans, StartOf, EndOf, LastOf
  <2>6. s.at % PrefixSize = 0 /\ (s.at + s.size) % PrefixSize = 0
    <3>1. s.at \in Int /\ s.size \in Int
      BY <1>1
    <3>2. s.at % PrefixSize = 0
      BY <1>1, <1>4, <3>1, MultiplesOfMultiples, Zenon
    <3> QED
      BY <1>1, <1>4, <3>1, <3>2, MultiplesAdd, Zenon
  <2>7. PrefixSize <= s.size
    BY <1>1, <2>1
  <2>8. StartOf(s) = s.at /\ EndOf(s) = s.at + s.size
    BY <2>5 DEF Spans
  <2> QED
    BY <1>1, <1>2, <2>5, <2>6, <2>7, <2>8
<1>5. CASE PrefixSize % s.size = 0 /\ ~(s.size % PrefixSize = 0)
  <2> DEFINE m == s.at - (s.at % PrefixSize)
  <2>1. 0 + s.size <= PrefixSize
    <3>1. 0 < PrefixSize /\ PrefixSize \in Int
      BY <1>1
    <3> QED
      BY <1>1, <1>3, <1>5, <3>1, NextMultiple, Zenon
  <2>2. (IF s.size > PrefixSize THEN s.size ELSE PrefixSize) = PrefixSize
    BY <1>1, <2>1
  <2>3. Adjusted(s) = [at |-> m, size |-> PrefixSize]
    BY <2>2, Zenon DEF Adjusted, Cidr
  <2>4. m \in Nat /\ s.at % PrefixSize \in Nat /\ s.at % PrefixSize < PrefixSize /\ m % PrefixSize = 0
    BY <1>1, Masked, Zenon
  <2>5. \A d \in Nat : d < PrefixSize => s.at - d <= s.at /\ s.at < (s.at - d) + PrefixSize
    BY <1>1
  <2>6. m <= s.at /\ s.at < m + PrefixSize
    BY <2>4, <2>5, Zenon
  <2>7. s.at + s.size <= m + PrefixSize
    BY <1>1, <1>5, SmallInside, Zenon
  <2> HIDE DEF m
  <2>8. StartOf(s) = m /\ EndOf(s) = m + PrefixSize
    BY <1>1, <2>3, <2>4 DEF StartOf, EndOf, LastOf
  <2>9. (m + PrefixSize) % PrefixSize = 0
    <3>1. m \in Int /\ PrefixSize \in Int /\ 0 \in Int
      BY <1>1, <2>4
    <3>2. PrefixSize % PrefixSize = 0
      BY <1>1, <1>3, <3>1, MultiplesAdd, Zenon
    <3> QED
      BY <1>1, <2>4, <3>1, <3>2, MultiplesAdd, Zenon
  <2>10. /\ Blocks[i].first \in Int /\ Blocks[i].last + 1 \in Int
         /\ Blocks[i].first % PrefixSize = 0 /\ (Blocks[i].last + 1) % PrefixSize = 0 /\ m \in Int
    BY <2>4, BlockFacts
  <2>11. Blocks[i].first <= m
    <3>1. m < Blocks[i].first => m + PrefixSize <= Blocks[i].first
      BY <1>1, <2>4, <2>10, NextMultiple, Zenon
    <3> QED
      BY <1>1, <1>2, <2>4, <2>6, <2>10, <3>1
  <2>12. m + PrefixSize <= Blocks[i].last + 1
    <3>1. m < Blocks[i].last + 1
      <4>1. /\ s.at \in Nat /\ s.size \in Nat \ {0} /\ m \in Nat /\ Blocks[i].last + 1 \in Int
            /\ m <= s.at /\ s.at + s.size <= Blocks[i].last + 1
        BY <1>1, <1>2, <2>4, <2>6, <2>10, Zenon
      <4> QED
        BY <4>1
    <3> QED
      BY <1>1, <2>4, <2>10, <3>1, NextMultiple, Zenon
  <2> QED
    BY <1>1, <1>5, <2>4, <2>6, <2>7, <2>8, <2>9, <2>11, <2>12
<1> QED
  BY <1>4, <1>5 DEF Fits

\* The step up ends after the last block, goes on in the block, or goes to the next.
LEMMA IncrementIs ==
  ASSUME NEW s, Fits(s), NEW t, t = IncrementSubnet(s)
  PROVE  \/ t = NoSubnet /\ EndOf(s) = Blocks[Len(Blocks)].last + 1
         \/ /\ t \in Offered /\ t.at = EndOf(s)
            /\ \E i \in 1..Len(Blocks) : Blocks[i].first <= EndOf(s) /\ EndOf(s) <= Blocks[i].last
         \/ /\ t \in Offered
            /\ \E i \in 1..(Len(Blocks) - 1) : /\ EndOf(s) = Blocks[i].last + 1
                                               /\ t.at = Blocks[i + 1].first
<1> DEFINE a == EndOf(s)
<1>1. /\ StartOf(s) \in Nat /\ a \in Nat /\ a % PrefixSize = 0 /\ StartOf(s) < a
      /\ \E i \in 1..Len(Blocks) : Blocks[i].first <= StartOf(s) /\ a <= Blocks[i].last + 1
  <2>1. s.at \in Nat /\ s.size \in Nat \ {0}
    BY DEF Fits, Sized
  <2>2. StartOf(s) \in Nat /\ a \in Nat /\ StartOf(s) <= s.at /\ s.at + s.size <= a
    BY AdjustedIs, Zenon
  <2>3. StartOf(s) < a
    BY <2>1, <2>2
  <2> QED
    BY <2>2, <2>3, AdjustedIs, Zenon
<1> HIDE DEF a
<1>2. PICK j \in 1..Len(Blocks) : Blocks[j].first <= StartOf(s) /\ a <= Blocks[j].last + 1
  BY <1>1
<1>3. t = IF a = Blocks[Len(Blocks)].last + 1 THEN NoSubnet
          ELSE IF \E i \in Bounds : a = Blocks[i].last + 1
          THEN Cidr(Blocks[1 + CHOOSE i \in Bounds : a = Blocks[i].last + 1].first, PrefixSize)
          ELSE Cidr(a, PrefixSize)
  BY Zenon DEF IncrementSubnet, a, EndOf
<1>4. CASE a = Blocks[Len(Blocks)].last + 1
  BY <1>3, <1>4 DEF a
<1>5. CASE a # Blocks[Len(Blocks)].last + 1 /\ \E i \in Bounds : a = Blocks[i].last + 1
  <2> DEFINE i == CHOOSE i \in Bounds : a = Blocks[i].last + 1
  <2>1. i \in Bounds /\ a = Blocks[i].last + 1
    BY <1>5
  <2> HIDE DEF i
  <2>2. t = Cidr(Blocks[1 + i].first, PrefixSize)
    BY <1>3, <1>5 DEF i
  <2>3. i \in 1..(Len(Blocks) - 1) /\ 1 + i \in 1..Len(Blocks) /\ 1 + i = i + 1
    BY <2>1, BlockFacts DEF Bounds
  <2>4. /\ Blocks[1 + i].first \in Nat /\ Blocks[1 + i].first % PrefixSize = 0
        /\ Blocks[1 + i].first <= Blocks[1 + i].first /\ Blocks[1 + i].first <= Blocks[1 + i].last
    BY <2>3, BlockFacts
  <2>5. t \in Offered /\ t = [at |-> Blocks[1 + i].first, size |-> PrefixSize]
    BY <2>2, <2>3, <2>4, AlignedFits, Zenon
  <2>6. t.at = Blocks[i + 1].first
    BY <2>3, <2>5
  <2> QED
    BY <2>1, <2>3, <2>5, <2>6 DEF a
<1>6. CASE a # Blocks[Len(Blocks)].last + 1 /\ ~\E i \in Bounds : a = Blocks[i].last + 1
  <2>1. a # Blocks[j].last + 1
    BY <1>2, <1>6, BlockFacts DEF Bounds
  <2>2. Blocks[j].first <= a /\ a <= Blocks[j].last
    <3>1. Blocks[j].first \in Nat /\ Blocks[j].last \in Nat
      BY BlockFacts
    <3> QED
      BY <1>1, <1>2, <2>1, <3>1
  <2>3. t = Cidr(a, PrefixSize)
    BY <1>3, <1>6
  <2>4. t \in Offered /\ t = [at |-> a, size |-> PrefixSize]
    BY <1>1, <2>2, <2>3, AlignedFits, Zenon
  <2>5. t.at = a
    BY <2>4
  <2> QED
    BY <2>2, <2>4, <2>5 DEF a
<1> QED
  BY <1>4, <1>5, <1>6

LEMMA PreviousIs ==
  ASSUME NEW a \in Nat
  PROVE  \/ \E i \in 1..(Len(Blocks) - 1) : /\ a = Blocks[i + 1].first
                                            /\ PreviousAddr(a) = Blocks[i].last
         \/ /\ PreviousAddr(a) = a - 1
            /\ \A i \in 1..(Len(Blocks) - 1) : a # Blocks[i + 1].first
  BY DEF PreviousAddr, Bounds

LEMMA DecrementIs ==
  ASSUME NEW s, Fits(s), NEW t, t = DecrementSubnet(s)
  PROVE  \/ t = NoSubnet /\ StartOf(s) = First
         \/ t \in Offered /\ t.at + PrefixSize <= StartOf(s)
<1> DEFINE a == StartOf(s)
<1>1. a \in Nat /\ a % PrefixSize = 0 /\ PrefixSize \in Nat \ {0}
  BY AdjustedIs, BlockFacts
<1>2. PICK j \in 1..Len(Blocks) : Blocks[j].first <= a /\ a <= Blocks[j].last
  <2>1. s.at \in Nat /\ s.size \in Nat \ {0}
    BY DEF Fits, Sized
  <2>2. EndOf(s) \in Nat /\ a <= s.at /\ s.at + s.size <= EndOf(s)
    BY AdjustedIs, Zenon
  <2>3. PICK j \in 1..Len(Blocks) : Blocks[j].first <= a /\ EndOf(s) <= Blocks[j].last + 1
    BY AdjustedIs, Zenon
  <2>4. Blocks[j].last \in Nat
    BY BlockFacts
  <2>5. a <= Blocks[j].last
    BY <1>1, <2>1, <2>2, <2>3, <2>4
  <2> QED
    BY <2>3, <2>5
<1>3. t = IF a = First THEN NoSubnet ELSE Cidr(PreviousAddr(a), PrefixSize)
  BY Zenon DEF DecrementSubnet, StartOf
<1> HIDE DEF a
<1>4. CASE a = First
  BY <1>3, <1>4 DEF a
<1>5. ASSUME NEW i \in 1..Len(Blocks), NEW b \in Nat, Blocks[i].first < b, b <= Blocks[i].last + 1,
             b % PrefixSize = 0
      PROVE  /\ Cidr(b - 1, PrefixSize) \in Offered
             /\ Cidr(b - 1, PrefixSize).at + PrefixSize <= b
  <2> DEFINE x == b - 1  m == x - (x % PrefixSize)
  <2>1. Blocks[i].first \in Nat \ {0} /\ Blocks[i].last \in Nat /\ Blocks[i].first % PrefixSize = 0
    BY BlockFacts
  <2>2. x \in Nat /\ Blocks[i].first <= x /\ x <= Blocks[i].last /\ x < b
    BY <1>5, <2>1
  <2> HIDE DEF x
  <2>3. m \in Nat /\ x % PrefixSize \in Nat /\ x % PrefixSize < PrefixSize /\ m % PrefixSize = 0
    BY <1>1, <2>2, Masked, Zenon
  <2>4. \A d \in Nat : d < PrefixSize => x - d <= x /\ x < (x - d) + PrefixSize
    BY <1>1, <2>2
  <2>5. m <= x /\ x < m + PrefixSize
    BY <2>3, <2>4, Zenon
  <2>6. Cidr(x, PrefixSize) = [at |-> m, size |-> PrefixSize]
    BY DEF Cidr
  <2> HIDE DEF m
  <2>7. m + PrefixSize <= b
    <3>1. m \in Int /\ b \in Int /\ m < b
      BY <2>2, <2>3, <2>5
    <3> QED
      BY <1>1, <1>5, <2>3, <3>1, NextMultiple, Zenon
  <2>8. Blocks[i].first <= m
    <3>1. m \in Int /\ Blocks[i].first \in Int
      BY <2>1, <2>3
    <3>2. m < Blocks[i].first => m + PrefixSize <= Blocks[i].first
      BY <1>1, <2>1, <2>3, <3>1, NextMultiple, Zenon
    <3> QED
      BY <1>1, <2>2, <2>3, <2>5, <3>1, <3>2
  <2>9. m <= Blocks[i].last
    BY <2>1, <2>2, <2>3, <2>5
  <2>10. Cidr(m, PrefixSize) = [at |-> m, size |-> PrefixSize] /\ Cidr(m, PrefixSize) \in Offered
    BY <2>3, <2>8, <2>9, AlignedFits, Zenon
  <2>11. Cidr(x, PrefixSize).at = m
    BY <2>6
  <2> QED
    BY <2>6, <2>7, <2>10, <2>11 DEF x
<1>6. CASE a # First
  <2>1. t = Cidr(PreviousAddr(a), PrefixSize)
    BY <1>3, <1>6
  <2>2. CASE PreviousAddr(a) = a - 1 /\ \A i \in 1..(Len(Blocks) - 1) : a # Blocks[i + 1].first
    <3>1. a # Blocks[j].first
      <4>1. j = 1 \/ (j - 1 \in 1..(Len(Blocks) - 1) /\ (j - 1) + 1 = j)
        BY BlockFacts
      <4> QED
        BY <1>6, <2>2, <4>1 DEF First
    <3>2. Blocks[j].first < a /\ a <= Blocks[j].last + 1
      <4>1. Blocks[j].first \in Nat /\ Blocks[j].last \in Nat
        BY BlockFacts
      <4> QED
        BY <1>1, <1>2, <3>1, <4>1
    <3> QED
      BY <1>1, <1>5, <2>1, <2>2, <3>2 DEF a
  <2>3. ASSUME NEW i \in 1..(Len(Blocks) - 1), a = Blocks[i + 1].first,
               PreviousAddr(a) = Blocks[i].last
        PROVE  t \in Offered /\ t.at + PrefixSize <= a
    <3> DEFINE b == Blocks[i].last + 1
    <3>1. i \in 1..Len(Blocks) /\ i + 1 \in 1..Len(Blocks) /\ i < i + 1
      BY BlockFacts
    <3>2. /\ Blocks[i].first \in Nat /\ Blocks[i].last \in Nat /\ Blocks[i].first <= Blocks[i].last
          /\ b < a /\ b % PrefixSize = 0
      BY <2>3, <3>1, BlockFacts
    <3>3. b \in Nat /\ Blocks[i].first < b /\ b <= Blocks[i].last + 1 /\ b - 1 = PreviousAddr(a)
      BY <2>3, <3>2
    <3> HIDE DEF b
    <3>4. Cidr(b - 1, PrefixSize) \in Offered /\ Cidr(b - 1, PrefixSize).at + PrefixSize <= b
      BY <1>5, <3>1, <3>2, <3>3
    <3>5. t \in Offered /\ t.at + PrefixSize <= b
      BY <2>1, <3>3, <3>4
    <3>6. t.at \in Nat
      BY <3>5, ChoicesFit
    <3> QED
      BY <1>1, <3>2, <3>3, <3>5, <3>6
  <2> QED
    BY <1>1, <2>2, <2>3, PreviousIs DEF a
<1> QED
  BY <1>4, <1>6
-----------------------------------------------------------------------------
(* Subnets of the prefix at least, and the gaps between them.              *)

InBlock(a) == \E i \in 1..Len(Blocks) : Blocks[i].first <= a /\ a <= Blocks[i].last
Large(s)   == Fits(s) /\ s.size % PrefixSize = 0

LEMMA LargeIs ==
  ASSUME NEW s, Large(s)
  PROVE  /\ s.at \in Nat /\ s.size \in Nat \ {0} /\ EndOf(s) = s.at + s.size /\ StartOf(s) = s.at
         /\ EndOf(s) \in Nat /\ s.at < EndOf(s) /\ LastOf(s) = EndOf(s) - 1
         /\ s.at % PrefixSize = 0 /\ EndOf(s) % PrefixSize = 0 /\ InBlock(s.at)
         /\ \E q \in 1..Len(Blocks) : Blocks[q].first <= s.at /\ EndOf(s) <= Blocks[q].last + 1
<1>1. s.at \in Nat /\ s.size \in Nat \ {0}
  BY DEF Large, Fits, Sized
<1>2. Spans(s, s.at, s.at + s.size) /\ s.at % PrefixSize = 0 /\ EndOf(s) % PrefixSize = 0
  BY AdjustedIs, Zenon DEF Large
<1>3. StartOf(s) = s.at /\ EndOf(s) = s.at + s.size
  BY <1>2 DEF Spans
<1>4. PICK q \in 1..Len(Blocks) : Blocks[q].first <= s.at /\ EndOf(s) <= Blocks[q].last + 1
  BY <1>3, AdjustedIs, Zenon DEF Large
<1>5. s.at < EndOf(s) /\ LastOf(s) = EndOf(s) - 1 /\ EndOf(s) \in Nat
  BY <1>1, <1>3 DEF LastOf
<1>6. s.at <= Blocks[q].last
  <2>1. Blocks[q].last \in Nat
    BY BlockFacts
  <2> QED
    BY <1>1, <1>4, <1>5, <2>1
<1> QED
  BY <1>1, <1>2, <1>3, <1>4, <1>5, <1>6 DEF InBlock

\* What lies in a block after another block is not before the next one.
LEMMA NextBlock ==
  ASSUME NEW q \in 1..(Len(Blocks) - 1), NEW a \in Nat, InBlock(a), Blocks[q].last < a
  PROVE  Blocks[q + 1].first <= a
<1>1. PICK m \in 1..Len(Blocks) : Blocks[m].first <= a /\ a <= Blocks[m].last
  BY DEF InBlock
<1>2. q \in 1..Len(Blocks) /\ q + 1 \in 1..Len(Blocks) /\ m \in Nat /\ q \in Nat
  BY BlockFacts
<1>3. \A i \in {m, q, q + 1} : Blocks[i].first \in Nat /\ Blocks[i].last \in Nat
                               /\ Blocks[i].first <= Blocks[i].last
  BY <1>2, BlockFacts
<1>4. ~(m < q) /\ m # q
  <2>1. m < q => Blocks[m].last + 1 < Blocks[q].first
    BY <1>2, BlockFacts
  <2> QED
    BY <1>1, <1>3, <2>1
<1>5. q + 1 < m => Blocks[q + 1].last + 1 < Blocks[m].first
  BY <1>2, BlockFacts
<1> QED
  BY <1>1, <1>2, <1>3, <1>4, <1>5

\* No block begins where a subnet ends.
LEMMA NoFirst ==
  ASSUME NEW q \in 1..Len(Blocks), NEW m \in 1..Len(Blocks), NEW e \in Nat,
         Blocks[q].first < e, e <= Blocks[q].last + 1
  PROVE  e # Blocks[m].first
<1>1. \A i \in {m, q} : Blocks[i].first \in Nat /\ Blocks[i].last \in Nat
                        /\ Blocks[i].first <= Blocks[i].last
  BY BlockFacts
<1>2. m < q => Blocks[m].last + 1 < Blocks[q].first
  BY BlockFacts
<1>3. q < m => Blocks[q].last + 1 < Blocks[m].first
  BY BlockFacts
<1> QED
  BY <1>1, <1>2, <1>3

LEMMA LastBlock == ASSUME NEW a \in Nat, InBlock(a) PROVE a <= Blocks[Len(Blocks)].last
<1>1. PICK m \in 1..Len(Blocks) : Blocks[m].first <= a /\ a <= Blocks[m].last
  BY DEF InBlock
<1>2. Len(Blocks) \in 1..Len(Blocks) /\ (m = Len(Blocks) \/ m < Len(Blocks))
  BY BlockFacts
<1>3. \A i \in {m, Len(Blocks)} : Blocks[i].first \in Nat /\ Blocks[i].last \in Nat
                                  /\ Blocks[i].first <= Blocks[i].last
  BY <1>2, BlockFacts
<1>4. m < Len(Blocks) => Blocks[m].last + 1 < Blocks[Len(Blocks)].first
  BY <1>2, BlockFacts
<1> QED
  BY <1>1, <1>2, <1>3, <1>4

\* The next block begins where another ends.
Leaps(e, a) == \E q \in 1..(Len(Blocks) - 1) : e = Blocks[q].last + 1 /\ a = Blocks[q + 1].first

\* subnetsAdjacent: nothing private is in between.
LEMMA Adjacency ==
  ASSUME NEW s, NEW t, Large(s), Large(t), EndOf(s) <= t.at
  PROVE  SubnetsAdjacent(s, t) <=> t.at = EndOf(s) \/ Leaps(EndOf(s), t.at)
<1> DEFINE e == EndOf(s)  p == PreviousAddr(t.at)
<1>1. /\ s.at \in Nat /\ e \in Nat /\ s.at < e /\ LastOf(s) = e - 1 /\ t.at \in Nat /\ e <= t.at
      /\ InBlock(t.at)
  BY LargeIs, Zenon
<1>2. PICK m \in 1..Len(Blocks) : Blocks[m].first <= s.at /\ e <= Blocks[m].last + 1
  BY LargeIs, Zenon
<1>3. SubnetsAdjacent(s, t) <=> s.at <= p /\ p <= e - 1
  BY <1>1 DEF SubnetsAdjacent
<1>4. \/ \E i \in 1..(Len(Blocks) - 1) : t.at = Blocks[i + 1].first /\ p = Blocks[i].last
      \/ p = t.at - 1 /\ \A i \in 1..(Len(Blocks) - 1) : t.at # Blocks[i + 1].first
  BY <1>1, PreviousIs
<1> HIDE DEF e, p
<1>5. CASE p = t.at - 1 /\ \A i \in 1..(Len(Blocks) - 1) : t.at # Blocks[i + 1].first
  <2>1. ~Leaps(e, t.at)
    BY <1>5 DEF Leaps
  <2>2. SubnetsAdjacent(s, t) <=> t.at = e
    BY <1>1, <1>3, <1>5
  <2> QED
    BY <2>1, <2>2 DEF e
<1>6. ASSUME NEW i \in 1..(Len(Blocks) - 1), t.at = Blocks[i + 1].first, p = Blocks[i].last
      PROVE  SubnetsAdjacent(s, t) <=> t.at = e \/ Leaps(e, t.at)
  <2>1. i \in 1..Len(Blocks) /\ i + 1 \in 1..Len(Blocks)
    BY BlockFacts
  <2>2. /\ Blocks[i].first \in Nat /\ Blocks[i].last \in Nat /\ Blocks[m].last \in Nat
        /\ Blocks[m].first \in Nat
    BY <2>1, BlockFacts
  <2>3. t.at # e
    <3>1. Blocks[m].first < e
      BY <1>1, <1>2, <2>2
    <3> QED
      BY <1>1, <1>2, <1>6, <2>1, <3>1, NoFirst
  <2>4. ASSUME NEW k \in 1..(Len(Blocks) - 1), t.at = Blocks[k + 1].first PROVE k = i
    <3>1. k + 1 \in 1..Len(Blocks) /\ k \in Int /\ i \in Int
      BY BlockFacts
    <3>2. Blocks[k + 1].last \in Nat /\ Blocks[k + 1].first <= Blocks[k + 1].last
          /\ Blocks[i + 1].last \in Nat /\ Blocks[i + 1].first <= Blocks[i + 1].last
          /\ Blocks[k + 1].first \in Nat
      BY <2>1, <3>1, BlockFacts
    <3>3. /\ k + 1 < i + 1 => Blocks[k + 1].last + 1 < Blocks[i + 1].first
          /\ i + 1 < k + 1 => Blocks[i + 1].last + 1 < Blocks[k + 1].first
      BY <2>1, <3>1, BlockFacts
    <3> QED
      BY <1>6, <2>4, <3>1, <3>2, <3>3
  <2>5. ASSUME SubnetsAdjacent(s, t) PROVE e = Blocks[i].last + 1
    <3>1. s.at <= Blocks[i].last /\ Blocks[i].last <= e - 1
      BY <1>3, <1>6, <2>5
    <3>2. CASE Blocks[i].last < e - 1
      <4>1. e - 1 \in Nat /\ Blocks[m].first <= e - 1 /\ e - 1 <= Blocks[m].last
        BY <1>1, <1>2, <2>2
      <4>2. InBlock(e - 1)
        BY <4>1 DEF InBlock
      <4>3. Blocks[i + 1].first <= e - 1
        BY <3>2, <4>1, <4>2, NextBlock
      <4> QED
        BY <1>1, <1>6, <4>3
    <3> QED
      BY <1>1, <2>2, <3>1, <3>2
  <2>6. ASSUME Leaps(e, t.at) PROVE SubnetsAdjacent(s, t)
    <3>1. e = Blocks[i].last + 1
      BY <2>4, <2>6 DEF Leaps
    <3> QED
      BY <1>1, <1>3, <1>6, <2>2, <3>1
  <2> QED
    BY <1>6, <2>3, <2>5, <2>6 DEF Leaps
<1> QED
  BY <1>4, <1>5, <1>6 DEF e

\* The step up from a subnet before a gap ends in it.
LEMMA StepIntoGap ==
  ASSUME NEW s, NEW t, Large(s), Large(t), EndOf(s) <= t.at, ~SubnetsAdjacent(s, t),
         NEW u, u = IncrementSubnet(s), u # NoSubnet
  PROVE  u \in Offered /\ EndOf(s) <= u.at /\ u.at + PrefixSize <= t.at
<1>1. /\ EndOf(s) \in Nat /\ t.at \in Nat /\ EndOf(s) <= t.at /\ InBlock(t.at)
      /\ t.at % PrefixSize = 0 /\ PrefixSize \in Nat \ {0}
  BY LargeIs, BlockFacts, Zenon
<1>2. t.at # EndOf(s) /\ ~Leaps(EndOf(s), t.at)
  BY Adjacency
<1>3. u \in Offered /\ u.at \in Nat /\ u.at % PrefixSize = 0
  <2>1. u \in Offered
    BY IncrementIs, Zenon DEF Large
  <2> QED
    BY <2>1, ChoicesFit, Zenon
<1>4. EndOf(s) <= u.at /\ u.at < t.at
  <2>1. CASE u.at = EndOf(s)
    BY <1>1, <1>2, <2>1
  <2>2. ASSUME NEW q \in 1..(Len(Blocks) - 1), EndOf(s) = Blocks[q].last + 1,
               u.at = Blocks[q + 1].first
        PROVE  EndOf(s) <= u.at /\ u.at < t.at
    <3>1. q \in 1..Len(Blocks) /\ q + 1 \in 1..Len(Blocks) /\ q < q + 1
      BY BlockFacts
    <3>2. Blocks[q].last \in Nat /\ Blocks[q].last + 1 < Blocks[q + 1].first
      BY <3>1, BlockFacts
    <3>3. Blocks[q + 1].first <= t.at
      BY <1>1, <2>2, <3>2, NextBlock
    <3>4. t.at # Blocks[q + 1].first
      BY <1>2, <2>2 DEF Leaps
    <3> QED
      BY <1>1, <1>3, <2>2, <3>2, <3>3, <3>4
  <2>3. u.at = EndOf(s) \/ \E q \in 1..(Len(Blocks) - 1) : EndOf(s) = Blocks[q].last + 1
                                                         /\ u.at = Blocks[q + 1].first
    BY IncrementIs, Zenon DEF Large
  <2> QED
    BY <2>1, <2>2, <2>3
<1>5. u.at + PrefixSize <= t.at
  <2>1. u.at \in Int /\ t.at \in Int
    BY <1>1, <1>3
  <2> QED
    BY <1>1, <1>3, <1>4, <2>1, NextMultiple, Zenon
<1> QED
  BY <1>3, <1>4, <1>5

\* Where the streams see no gap there is no room.
LEMMA NoGap ==
  ASSUME NEW s, NEW t, Large(s), Large(t), EndOf(s) <= t.at,
         SubnetsAdjacent(s, t) \/ IncrementSubnet(s) \in {NoSubnet, t},
         NEW a \in Nat, InBlock(a), EndOf(s) <= a
  PROVE  t.at <= a
<1>1. EndOf(s) \in Nat /\ t.at \in Nat
  BY LargeIs, Zenon
<1>2. ASSUME Leaps(EndOf(s), t.at) PROVE t.at <= a
  <2>1. PICK q \in 1..(Len(Blocks) - 1) : EndOf(s) = Blocks[q].last + 1 /\ t.at = Blocks[q + 1].first
    BY <1>2 DEF Leaps
  <2>2. Blocks[q].last \in Nat
    BY BlockFacts
  <2>3. Blocks[q].last < a
    BY <2>1, <2>2
  <2> QED
    BY <2>1, <2>3, NextBlock
<1>3. CASE SubnetsAdjacent(s, t)
  BY <1>1, <1>2, <1>3, Adjacency
<1>4. CASE IncrementSubnet(s) = t
  <2>1. t # NoSubnet
    <3>1. t.size # 0
      BY LargeIs
    <3> QED
      BY <3>1 DEF NoSubnet
  <2>2. t.at = EndOf(s) \/ Leaps(EndOf(s), t.at)
    BY <1>4, <2>1, IncrementIs, Zenon DEF Large, Leaps
  <2> QED
    BY <1>1, <1>2, <2>2
<1>5. CASE IncrementSubnet(s) = NoSubnet
  <2>1. EndOf(s) = Blocks[Len(Blocks)].last + 1
    BY <1>5, IncrementIs, ChoicesFit, Zenon DEF Large
  <2>2. a <= Blocks[Len(Blocks)].last
    BY LastBlock
  <2>3. Blocks[Len(Blocks)].last \in Nat
    BY BlockFacts
  <2> QED
    BY <2>1, <2>2, <2>3
<1> QED
  BY <1>3, <1>4, <1>5
-----------------------------------------------------------------------------
(* The first element of the stream.                                        *)

LEMMA MinIs ==
  ASSUME NEW S, S \subseteq Nat, NEW e \in S
  PROVE  Min(S) \in S /\ \A z \in S : Min(S) <= z
<1>1. PICK y \in S : \A z \in S : ~(<<z, y>> \in OpToRel(<, Nat))
  BY NatLessThanWellFounded, WFMin, Zenon
<1>2. \A z \in S : ~(z < y)
  BY <1>1 DEF OpToRel
<1>3. \A z \in S : y <= z
  <2>1. \A z \in S : z \in Nat
    OBVIOUS
  <2> QED
    BY <1>2, <2>1
<1> QED
  BY <1>3 DEF Min

Gaps(list) == {i \in Pairs(list) : Gap(list, i)}

LEMMA FirstBlock ==
  /\ First \in Nat /\ First % PrefixSize = 0 /\ InBlock(First)
  /\ \A a \in Nat : InBlock(a) => First <= a
  /\ Cidr(First, PrefixSize) \in Offered /\ Cidr(First, PrefixSize).at = First
<1>1. /\ 1 \in 1..Len(Blocks) /\ Blocks[1].first \in Nat /\ Blocks[1].last \in Nat
      /\ Blocks[1].first <= Blocks[1].last /\ Blocks[1].first % PrefixSize = 0
  BY BlockFacts
<1>2. ASSUME NEW a \in Nat, InBlock(a) PROVE Blocks[1].first <= a
  <2>1. PICK i \in 1..Len(Blocks) : Blocks[i].first <= a
    BY <1>2 DEF InBlock
  <2>2. i = 1 \/ 1 < i
    BY BlockFacts
  <2>3. 1 < i => Blocks[1].last + 1 < Blocks[i].first
    BY <1>1, BlockFacts
  <2>4. Blocks[i].first \in Nat
    BY BlockFacts
  <2> QED
    BY <1>1, <2>1, <2>2, <2>3, <2>4
<1>3. /\ Cidr(First, PrefixSize) \in Offered
      /\ Cidr(First, PrefixSize) = [at |-> First, size |-> PrefixSize]
  <2>1. Blocks[1].first <= Blocks[1].first
    BY <1>1
  <2> QED
    BY <1>1, <2>1, AlignedFits, Zenon DEF First
<1>4. InBlock(First)
  BY <1>1 DEF First, InBlock
<1> QED
  BY <1>1, <1>2, <1>3, <1>4 DEF First

\* Of whatever list, the streams choose an aligned private subnet or none.
LEMMA FirstIs ==
  ASSUME NEW list, Len(list) \in Nat, list = <<>> <=> Len(list) = 0,
         \A i \in 1..Len(list) : Fits(list[i])
  PROVE  FirstAvailable(list) \in Offered \cup {NoSubnet}
<1>1. FirstAvailable(list) =
        IF list = <<>> THEN Cidr(First, PrefixSize)
        ELSE IF Gaps(list) # {} THEN IncrementSubnet(list[Min(Gaps(list))])
        ELSE IF DecrementSubnet(list[1]) # NoSubnet THEN DecrementSubnet(list[1])
        ELSE IncrementSubnet(list[Len(list)])
  BY DEF FirstAvailable, Gaps
<1>2. ASSUME NEW i \in 1..Len(list)
      PROVE  /\ IncrementSubnet(list[i]) \in Offered \cup {NoSubnet}
             /\ DecrementSubnet(list[i]) \in Offered \cup {NoSubnet}
  <2>1. Fits(list[i])
    OBVIOUS
  <2>2. IncrementSubnet(list[i]) \in Offered \/ IncrementSubnet(list[i]) = NoSubnet
    BY <2>1, IncrementIs, Zenon
  <2>3. DecrementSubnet(list[i]) \in Offered \/ DecrementSubnet(list[i]) = NoSubnet
    BY <2>1, DecrementIs, Zenon
  <2> QED
    BY <2>2, <2>3
<1>3. list # <<>> => 1 \in 1..Len(list) /\ Len(list) \in 1..Len(list)
  OBVIOUS
<1>4. list # <<>> /\ Gaps(list) # {} => Min(Gaps(list)) \in 1..Len(list)
  <2>1. list # <<>> => Gaps(list) \subseteq 1..Len(list) /\ Gaps(list) \subseteq Nat
    BY <1>3 DEF Gaps, Pairs
  <2> QED
    BY <2>1, MinIs
<1> QED
  BY <1>1, <1>2, <1>3, <1>4, FirstBlock

\* Subnets of the prefix at least that do not overlap, in order.
Disjoint(list) ==
  /\ Len(list) \in Nat /\ (list = <<>> <=> Len(list) = 0)
  /\ \A i \in 1..Len(list) : Large(list[i])
  /\ \A i, j \in 1..Len(list) : i < j => EndOf(list[i]) <= list[j].at

LEMMA DisjointIs ==
  ASSUME NEW list, Disjoint(list), NEW i \in 1..Len(list)
  PROVE  /\ Large(list[i]) /\ list[i].at \in Nat /\ EndOf(list[i]) \in Nat
         /\ list[i].at < EndOf(list[i])
         /\ \A j \in 1..Len(list) : j <= i => list[j].at <= list[i].at
                                              /\ EndOf(list[j]) <= EndOf(list[i])
<1>1. \A j \in 1..Len(list) : /\ Large(list[j]) /\ list[j].at \in Nat /\ EndOf(list[j]) \in Nat
                              /\ list[j].at < EndOf(list[j])
  BY LargeIs DEF Disjoint
<1>2. ASSUME NEW j \in 1..Len(list), j <= i
      PROVE  list[j].at <= list[i].at /\ EndOf(list[j]) <= EndOf(list[i])
  <2>1. j = i \/ j < i
    BY <1>2 DEF Disjoint
  <2>2. j < i => EndOf(list[j]) <= list[i].at
    BY DEF Disjoint
  <2> QED
    BY <1>1, <2>1, <2>2
<1> QED
  BY <1>1, <1>2

\* The choice does not overlap any subnet of the list.
LEMMA FirstIsFree ==
  ASSUME NEW list, Disjoint(list), NEW s, s = FirstAvailable(list), s # NoSubnet,
         NEW k \in 1..Len(list)
  PROVE  s \in Offered /\ (s.at + PrefixSize <= list[k].at \/ EndOf(list[k]) <= s.at)
<1>1. /\ Len(list) \in Nat /\ list # <<>> /\ 1 \in 1..Len(list) /\ Len(list) \in 1..Len(list)
  BY DEF Disjoint
<1>2. s = IF Gaps(list) # {} THEN IncrementSubnet(list[Min(Gaps(list))])
          ELSE IF DecrementSubnet(list[1]) # NoSubnet THEN DecrementSubnet(list[1])
          ELSE IncrementSubnet(list[Len(list)])
  BY <1>1 DEF FirstAvailable, Gaps
<1>3. ASSUME NEW i \in 1..Len(list), s = IncrementSubnet(list[i])
      PROVE  s \in Offered /\ s.at \in Nat /\ EndOf(list[i]) <= s.at
  <2>1. Fits(list[i]) /\ EndOf(list[i]) \in Nat
    BY DisjointIs DEF Large
  <2>2. s \in Offered /\ (s.at = EndOf(list[i]) \/ Leaps(EndOf(list[i]), s.at))
    BY <1>3, <2>1, IncrementIs, Zenon DEF Leaps
  <2>3. s.at \in Nat
    BY <2>2, ChoicesFit
  <2>4. Leaps(EndOf(list[i]), s.at) => EndOf(list[i]) <= s.at
    <3> SUFFICES ASSUME NEW q \in 1..(Len(Blocks) - 1), EndOf(list[i]) = Blocks[q].last + 1,
                        s.at = Blocks[q + 1].first
                 PROVE  EndOf(list[i]) <= s.at
      BY DEF Leaps
    <3>1. q \in 1..Len(Blocks) /\ q + 1 \in 1..Len(Blocks) /\ q < q + 1
      BY BlockFacts
    <3>2. Blocks[q].last + 1 < Blocks[q + 1].first /\ Blocks[q].last \in Nat
      BY <3>1, BlockFacts
    <3> QED
      BY <2>3, <3>2
  <2> QED
    BY <2>1, <2>2, <2>3, <2>4
<1>4. CASE Gaps(list) # {}
  <2> DEFINE i == Min(Gaps(list))
  <2>1. i \in Gaps(list)
    <3>1. Gaps(list) \subseteq Nat
      BY <1>1 DEF Gaps, Pairs
    <3> QED
      BY <1>4, <3>1, MinIs
  <2>2. s = IncrementSubnet(list[i])
    BY <1>2, <1>4
  <2> HIDE DEF i
  <2>3. i \in 1..Len(list) /\ (Len(list) # 1 => i + 1 \in 1..Len(list) /\ ~SubnetsAdjacent(list[i], list[i + 1]))
    BY <1>1, <2>1 DEF Gaps, Pairs, Gap
  <2>4. s \in Offered /\ s.at \in Nat /\ EndOf(list[i]) <= s.at
    BY <1>3, <2>2, <2>3
  <2>5. CASE k <= i
    BY <2>3, <2>4, <2>5, DisjointIs
  <2>6. CASE i < k
    <3>1. Len(list) # 1 /\ i + 1 <= k
      <4>1. i \in 1..Len(list)
        BY <2>3
      <4> QED
        BY <1>1, <2>6, <4>1
    <3>2. /\ i + 1 \in 1..Len(list) /\ i < i + 1
      BY <2>3, <3>1
    <3>3. Large(list[i]) /\ Large(list[i + 1]) /\ EndOf(list[i]) <= list[i + 1].at
      BY <2>3, <3>2 DEF Disjoint
    <3>4. s.at + PrefixSize <= list[i + 1].at
      BY <2>2, <2>3, <3>1, <3>3, StepIntoGap, Zenon
    <3>5. list[i + 1].at <= list[k].at /\ list[i + 1].at \in Nat /\ list[k].at \in Nat
      BY <3>1, <3>2, DisjointIs
    <3>6. PrefixSize \in Nat
      BY BlockFacts
    <3> QED
      BY <2>4, <3>4, <3>5, <3>6
  <2> QED
    BY <1>1, <2>3, <2>5, <2>6
<1>5. CASE Gaps(list) = {} /\ DecrementSubnet(list[1]) # NoSubnet
  <2>1. s = DecrementSubnet(list[1])
    BY <1>2, <1>5
  <2>2. Large(list[1]) /\ Fits(list[1])
    BY <1>1, DisjointIs DEF Large
  <2>3. StartOf(list[1]) = list[1].at
    BY <2>2, LargeIs
  <2>4. s \in Offered /\ s.at + PrefixSize <= list[1].at
    BY <1>5, <2>1, <2>2, <2>3, DecrementIs, Zenon
  <2>5. list[1].at <= list[k].at /\ list[1].at \in Nat /\ list[k].at \in Nat
    BY <1>1, DisjointIs
  <2>6. s.at \in Nat /\ PrefixSize \in Nat
    BY <2>4, ChoicesFit, BlockFacts
  <2> QED
    BY <2>4, <2>5, <2>6
<1>6. CASE Gaps(list) = {} /\ DecrementSubnet(list[1]) = NoSubnet
  <2>1. s = IncrementSubnet(list[Len(list)])
    BY <1>2, <1>6
  <2>2. s \in Offered /\ s.at \in Nat /\ EndOf(list[Len(list)]) <= s.at
    BY <1>1, <1>3, <2>1
  <2>3. k <= Len(list)
    BY <1>1
  <2>4. EndOf(list[k]) <= EndOf(list[Len(list)]) /\ EndOf(list[k]) \in Nat /\ EndOf(list[Len(list)]) \in Nat
    BY <1>1, <2>3, DisjointIs
  <2> QED
    BY <2>2, <2>4
<1> QED
  BY <1>4, <1>5, <1>6

\* If there is no choice, every private address is in a subnet of the list.
LEMMA NoneIsFree ==
  ASSUME NEW list, Disjoint(list), FirstAvailable(list) = NoSubnet,
         NEW a \in Nat, InBlock(a)
  PROVE  \E k \in 1..Len(list) : list[k].at <= a /\ a < EndOf(list[k])
<1>1. Len(list) \in Nat /\ list # <<>> /\ 1 \in 1..Len(list) /\ Len(list) \in 1..Len(list)
  <2>1. Cidr(First, PrefixSize) # NoSubnet
    BY FirstBlock, ChoicesFit
  <2>2. list # <<>>
    BY <2>1 DEF FirstAvailable
  <2> QED
    BY <2>2 DEF Disjoint
<1>2. Gaps(list) = {}
  <2>1. Gaps(list) # {} => IncrementSubnet(list[Min(Gaps(list))]) = NoSubnet
    BY <1>1 DEF FirstAvailable, Gaps
  <2>2. Gaps(list) # {} => Min(Gaps(list)) \in Gaps(list)
    <3>1. Gaps(list) \subseteq Nat
      BY <1>1 DEF Gaps, Pairs
    <3> QED
      BY <3>1, MinIs
  <2> QED
    BY <2>1, <2>2 DEF Gaps, Gap
<1>3. DecrementSubnet(list[1]) = NoSubnet /\ IncrementSubnet(list[Len(list)]) = NoSubnet
  BY <1>1, <1>2 DEF FirstAvailable, Gaps
<1>4. list[1].at <= a
  <2>1. Large(list[1]) /\ Fits(list[1])
    BY <1>1, DisjointIs DEF Large
  <2>2. StartOf(list[1]) = First
    BY <1>3, <2>1, DecrementIs, ChoicesFit, Zenon
  <2>3. StartOf(list[1]) = list[1].at
    BY <2>1, LargeIs
  <2> QED
    BY <2>2, <2>3, FirstBlock
<1> DEFINE T == {i \in 2..(Len(list) + 1) : i = Len(list) + 1 \/ a < list[i].at}
           i == Min(T)  j == i - 1
<1>5. i \in T /\ \A x \in T : i <= x
  <2>1. T \subseteq Nat /\ Len(list) + 1 \in T
    BY <1>1
  <2> HIDE DEF T
  <2> QED
    BY <2>1, MinIs
<1>6. i \in 2..(Len(list) + 1) /\ j \in 1..Len(list) /\ j + 1 = i
  <2> HIDE DEF i
  <2>1. i \in 2..(Len(list) + 1)
    BY <1>5
  <2> QED
    BY <1>1, <2>1
<1>7. list[j].at <= a
  <2>1. CASE j = 1
    BY <1>4, <2>1
  <2>2. CASE j # 1
    <3>1. j \in 2..(Len(list) + 1) /\ j # Len(list) + 1 /\ ~(i <= j)
      <4> HIDE DEF i
      <4> QED
        BY <1>1, <1>6, <2>2
    <3>2. ~(a < list[j].at)
      BY <1>5, <3>1
    <3>3. list[j].at \in Nat
      BY <1>6, DisjointIs
    <3> QED
      BY <3>2, <3>3
  <2> QED
    BY <2>1, <2>2
<1>8. i # Len(list) + 1 => a < list[i].at
  BY <1>5
<1> HIDE DEF i, j, T
<1> SUFFICES ASSUME ~(a < EndOf(list[j])) PROVE FALSE
  BY <1>6, <1>7
<1>9. Large(list[j]) /\ EndOf(list[j]) \in Nat /\ EndOf(list[j]) <= a
  <2>1. Large(list[j]) /\ EndOf(list[j]) \in Nat
    BY <1>6, DisjointIs
  <2> QED
    BY <2>1
<1>10. CASE i = Len(list) + 1
  <2>1. j = Len(list)
    BY <1>1, <1>6, <1>10
  <2>2. IncrementSubnet(list[j]) = NoSubnet /\ Fits(list[j])
    BY <1>3, <1>9, <2>1 DEF Large
  <2>3. EndOf(list[j]) = Blocks[Len(Blocks)].last + 1
    BY <2>2, IncrementIs, ChoicesFit, Zenon
  <2>4. a <= Blocks[Len(Blocks)].last /\ Blocks[Len(Blocks)].last \in Nat
    BY LastBlock, BlockFacts
  <2> QED
    BY <1>9, <2>3, <2>4
<1>11. CASE i # Len(list) + 1
  <2>1. i \in 1..Len(list) /\ j < i /\ Len(list) # 1 /\ j \in 1..(Len(list) - 1)
    BY <1>1, <1>6, <1>11
  <2>2. Large(list[i]) /\ EndOf(list[j]) <= list[i].at /\ list[i].at \in Nat
    <3>1. Large(list[i]) /\ list[i].at \in Nat
      BY <2>1, DisjointIs
    <3> QED
      BY <1>6, <2>1, <3>1 DEF Disjoint
  <2>3. ~Gap(list, j)
    BY <1>2, <2>1 DEF Gaps, Pairs
  <2>4. SubnetsAdjacent(list[j], list[i]) \/ IncrementSubnet(list[j]) \in {NoSubnet, list[i]}
    BY <1>6, <2>1, <2>3 DEF Gap, Successor
  <2>5. list[i].at <= a
    BY <1>9, <2>2, <2>4, NoGap, Zenon
  <2> QED
    BY <1>8, <1>11, <2>2, <2>5
<1> QED
  BY <1>10, <1>11
-----------------------------------------------------------------------------
(* Types.                                                                  *)

Held   == Subnets \cup Offered
NetRow == [owner : Owners, vlan : VlanIds, vnet : VnetIds, subnet : Held]

Tables ==
  /\ nets = [n \in Names |-> nets[n]] /\ pc = [r \in Reqs |-> pc[r]]
  /\ ask = [r \in Reqs |-> ask[r]] /\ got = [r \in Reqs |-> got[r]]
  /\ pick = [r \in Reqs |-> pick[r]]

DataOK ==
  /\ fabrics \in [Owners -> VnetIds \cup {NoVnet}]
  /\ vlans \in [Owners -> [VlanIds -> Vlan \cup {NoVlan}]]
  /\ \A n \in Names : nets[n] \in NetRow \cup {NoNet}
  /\ IsFiniteSet({n \in Names : nets[n] # NoNet})

\* What a request has read by the call it makes next.
ReqOK(r) ==
  /\ pc[r] \in Calls /\ ask[r] \in Asks[r]
  /\ got[r] \in Vlan \cup [vnet : VnetIds, text : {"none"}] \cup {NoVlan}
  /\ pc[r] \in {"idle", "getFabric", "getVlan", "listNets", "delVlan"} => got[r] = NoVlan
  /\ pc[r] = "putVlan" => got[r].vnet \in VnetIds \cup {NoVnet}
  /\ pc[r] = "getVlan" => ask[r].op \in {"updateVlan", "createNet", "deleteNet"}
  /\ pc[r] \in {"updateVlan", "choose", "putNet"} => got[r] \in Vlan
  /\ pc[r] = "putNet" => pick[r] \in Held

FabricInv ==
  /\ Tables /\ DataOK /\ \A r \in Reqs : ReqOK(r)
  /\ overtaken \subseteq {r \in Reqs : pc[r] # "idle"}

LEMMA Nothing ==
  /\ NoVlan \notin Vlan /\ NoNet \notin NetRow /\ NoVnet \notin VnetIds /\ NoVlan.vnet = NoVnet
  /\ NoNet.owner \notin Owners /\ NoNet.vnet = NoVnet /\ NoVnet # 0
<1>1. NoVnet \notin VnetIds /\ "none" \notin Owners /\ "none" \notin Texts /\ NoVnet # 0
  BY FabricVnets DEF NoVnet
<1>2. NoVlan.text = "none" /\ NoVlan.vnet = NoVnet /\ NoNet.owner = "none" /\ NoNet.vnet = NoVnet
  BY DEF NoVlan, NoNet
<1> QED
  BY <1>1, <1>2 DEF Vlan, NetRow

LEMMA HeldFit == ASSUME NEW s \in Held PROVE Fits(s) /\ (s \in Subnets \/ Chosen(s))
<1>1. CASE s \in Subnets
  BY <1>1, FabricSubnets DEF Fits, Sized
<1>2. CASE s \in Offered
  BY <1>2, ChoicesFit DEF Offered
<1> QED
  BY <1>1, <1>2 DEF Held

LEMMA AskIs ==
  ASSUME NEW r \in Reqs, ask[r] \in Asks[r]
  PROVE  /\ ask[r] \in Ask /\ ask[r].owner \in Owners /\ ask[r].vlan \in VlanIds
         /\ ask[r].text \in Texts /\ ask[r].name \in Names
         /\ ask[r].subnet \in Subnets \cup {NoSubnet}
  BY FabricAsks DEF Ask

LEMMA InvTypes == FabricInv => TypeOK
<1> SUFFICES ASSUME FabricInv PROVE TypeOK
  OBVIOUS
<1>1. ASSUME NEW n \in Names, nets[n] # NoNet
      PROVE  /\ nets[n].owner \in Owners /\ nets[n].vlan \in VlanIds /\ nets[n].vnet \in VnetIds
             /\ nets[n].subnet \in Subnets \/ Chosen(nets[n].subnet)
  <2>1. nets[n] \in NetRow
    BY <1>1 DEF FabricInv, DataOK
  <2> QED
    BY <2>1, HeldFit DEF NetRow
<1>2. ASSUME NEW r \in Reqs, pc[r] = "putNet" PROVE pick[r] \in Subnets \/ Chosen(pick[r])
  BY <1>2, HeldFit DEF FabricInv, ReqOK
<1>3. pc \in [Reqs -> Calls]
  BY DEF FabricInv, Tables, ReqOK
<1> QED
  BY <1>1, <1>2, <1>3 DEF TypeOK, FabricInv, DataOK, ReqOK

LEMMA InitInv == Init => FabricInv
<1> SUFFICES ASSUME Init PROVE FabricInv
  OBVIOUS
<1>1. Tables /\ overtaken = {}
  BY DEF Init, Tables
<1>2. DataOK
  <2>1. {n \in Names : nets[n] # NoNet} = {}
    BY DEF Init
  <2> QED
    BY <2>1, FS_EmptySet DEF Init, DataOK
<1>3. ASSUME NEW r \in Reqs PROVE ReqOK(r)
  <2>1. NoAsk(r) \in Asks[r]
    BY FabricAsks DEF NoAsk
  <2> QED
    BY <2>1 DEF Init, ReqOK, Calls
<1> QED
  BY <1>1, <1>2, <1>3 DEF FabricInv

\* A step of one request.
Others(r) == \A q \in Reqs : q # r => /\ pc'[q] = pc[q] /\ ask'[q] = ask[q]
                                      /\ got'[q] = got[q] /\ pick'[q] = pick[q]

LEMMA OneMoves ==
  ASSUME FabricInv, NEW r \in Reqs, Others(r), Tables', DataOK', ReqOK(r)',
         overtaken' \subseteq {q \in Reqs : pc'[q] # "idle"}
  PROVE  FabricInv'
<1>1. ASSUME NEW q \in Reqs, q # r PROVE ReqOK(q)'
  BY <1>1 DEF ReqOK, FabricInv, Others
<1> QED
  BY <1>1 DEF FabricInv

LEMMA AnswersIs ==
  ASSUME FabricInv, NEW r \in Reqs, Answers(r)
  PROVE  Others(r) /\ (nets' = [n \in Names |-> nets'[n]] => Tables') /\ ReqOK(r)' /\ pc'[r] = "idle"
<1>1. NoAsk(r) \in Asks[r]
  BY FabricAsks DEF NoAsk
<1>2. /\ pc'[r] = "idle" /\ ask'[r] = NoAsk(r) /\ got'[r] = NoVlan /\ Others(r)
      /\ nets' = [n \in Names |-> nets'[n]] => Tables'
  BY DEF FabricInv, Tables, Answers, Goes, Others
<1> QED
  BY <1>1, <1>2 DEF ReqOK, Calls

LEMMA EndsInv ==
  ASSUME FabricInv, NEW r \in Reqs, Ends(r) \/ Overtakes(r), DataOK',
         nets' = [n \in Names |-> nets'[n]]
  PROVE  FabricInv'
<1>1. Answers(r)
  BY DEF Ends, Overtakes
<1>2. overtaken' \subseteq {q \in Reqs : pc'[q] # "idle"}
  BY <1>1, AnswersIs DEF Ends, Overtakes, FabricInv, Others
<1> QED
  BY <1>1, <1>2, AnswersIs, OneMoves

LEMMA FailsInv ==
  ASSUME FabricInv, NEW r \in Reqs, Fails(r)
  PROVE  FabricInv'
<1>1. DataOK'
  BY DEF Fails, FabricInv, DataOK
<1>2. nets' = [n \in Names |-> nets'[n]]
  BY DEF Fails, FabricInv, Tables
<1> QED
  BY <1>1, <1>2, EndsInv DEF Fails

\* A call that only reads.
LEMMA GoesInv ==
  ASSUME FabricInv, NEW r \in Reqs, NEW call \in Calls \ {"idle"}, Goes(r, call),
         UNCHANGED <<fabrics, vlans, nets>>, overtaken' \subseteq overtaken \cup {r},
         \A q \in Reqs : q # r => ask'[q] = ask[q] /\ got'[q] = got[q] /\ pick'[q] = pick[q],
         Tables', ReqOK(r)'
  PROVE  FabricInv'
<1>1. DataOK'
  BY DEF FabricInv, DataOK
<1>2. pc'[r] = call /\ Others(r)
  BY DEF FabricInv, Tables, Goes, Others
<1>3. overtaken' \subseteq {q \in Reqs : pc'[q] # "idle"}
  BY <1>2 DEF FabricInv, Others
<1> QED
  BY <1>1, <1>2, <1>3, OneMoves

LEMMA OnVnetIs ==
  ASSUME FabricInv, NEW v \in VnetIds
  PROVE  /\ IsFiniteSet(OnVnet(v)) /\ SubnetsOf(v) \subseteq Sized
         /\ \A n \in OnVnet(v) : nets[n] # NoNet /\ nets[n] \in NetRow /\ nets[n].subnet \in Held
         /\ \A s \in SubnetsOf(v) : s \in Held /\ Fits(s)
<1>1. ASSUME NEW n \in OnVnet(v)
      PROVE  n \in Names /\ nets[n] # NoNet /\ nets[n] \in NetRow /\ nets[n].subnet \in Held
  <2>1. n \in Names /\ nets[n] # NoNet
    BY Nothing DEF OnVnet
  <2> QED
    BY <2>1 DEF FabricInv, DataOK, NetRow
<1>2. IsFiniteSet(OnVnet(v))
  <2>1. OnVnet(v) \subseteq {n \in Names : nets[n] # NoNet}
    BY <1>1
  <2> QED
    BY <2>1, FS_Subset DEF FabricInv, DataOK
<1>3. \A s \in SubnetsOf(v) : s \in Held /\ Fits(s)
  BY <1>1, HeldFit DEF SubnetsOf
<1> QED
  BY <1>1, <1>2, <1>3 DEF Fits

LEMMA RowIs ==
  ASSUME FabricInv, NEW r \in Reqs
  PROVE  RowOf(r) \in Vlan \cup {NoVlan}
<1>1. ask[r].owner \in Owners /\ ask[r].vlan \in VlanIds
  BY AskIs DEF FabricInv, ReqOK
<1> QED
  BY <1>1 DEF RowOf, FabricInv, DataOK

LEMMA SetRowIs ==
  ASSUME FabricInv, NEW r \in Reqs, NEW row \in Vlan \cup {NoVlan}, SetRow(r, row)
  PROVE  /\ vlans' \in [Owners -> [VlanIds -> Vlan \cup {NoVlan}]]
         /\ \A o \in Owners, k \in VlanIds :
              vlans'[o][k] = IF o = ask[r].owner /\ k = ask[r].vlan THEN row ELSE vlans[o][k]
<1>1. ask[r].owner \in Owners /\ ask[r].vlan \in VlanIds
  BY AskIs DEF FabricInv, ReqOK
<1>2. vlans \in [Owners -> [VlanIds -> Vlan \cup {NoVlan}]]
  BY DEF FabricInv, DataOK
<1> QED
  BY <1>1, <1>2 DEF SetRow

LEMMA StartStep ==
  ASSUME FabricInv, NEW r \in Reqs, NEW a \in Asks[r], Start(r, a)
  PROVE  FabricInv'
<1>1. a \in Ask /\ FirstCall(a.op) \in Calls \ {"idle"}
  BY FabricAsks DEF Ask, FirstCall, Calls
<1>2. /\ pc'[r] = FirstCall(a.op) /\ ask'[r] = a /\ got' = got /\ pick' = pick /\ Tables'
      /\ \A q \in Reqs : q # r => ask'[q] = ask[q]
  BY DEF Start, Goes, FabricInv, Tables
<1>3. got[r] = NoVlan
  BY DEF Start, FabricInv, ReqOK
<1>4. ReqOK(r)'
  BY <1>1, <1>2, <1>3 DEF ReqOK, FirstCall, Calls, Ask
<1>5. overtaken' \subseteq overtaken \cup {r}
  BY DEF Start
<1> QED
  BY <1>1, <1>2, <1>4, <1>5, GoesInv DEF Start

LEMMA GetFabricStep ==
  ASSUME FabricInv, NEW r \in Reqs, GetFabric(r)
  PROVE  FabricInv'
<1>1. got[r] = NoVlan /\ ReqOK(r) /\ ask[r].owner \in Owners
  BY AskIs DEF GetFabric, FabricInv, ReqOK
<1>2. PICK v \in Constructed(fabrics[ask[r].owner]) : got' = [got EXCEPT ![r].vnet = v]
  BY DEF GetFabric
<1>3. v \in VnetIds \cup {NoVnet}
  BY <1>1 DEF Constructed, FabricInv, DataOK
<1>4. got'[r] = [vnet |-> v, text |-> "none"]
  <2>1. got'[r] = [got[r] EXCEPT !.vnet = v]
    BY <1>2 DEF FabricInv, Tables
  <2> QED
    BY <1>1, <2>1 DEF NoVlan
<1>5. /\ pc'[r] = "putVlan" /\ ask' = ask /\ pick' = pick /\ overtaken' = overtaken /\ Tables'
      /\ \A q \in Reqs : q # r => got'[q] = got[q]
  BY <1>2 DEF GetFabric, Goes, FabricInv, Tables
<1>6. got'[r] \in [vnet : VnetIds, text : {"none"}] \cup {NoVlan} /\ got'[r].vnet = v
  BY <1>3, <1>4 DEF NoVlan
<1>7. ReqOK(r)'
  BY <1>1, <1>3, <1>5, <1>6 DEF ReqOK, Calls
<1> QED
  BY <1>5, <1>7, GoesInv DEF GetFabric, Calls

LEMMA PutVlanStep ==
  ASSUME FabricInv, NEW r \in Reqs, PutVlan(r)
  PROVE  FabricInv'
<1>1. CASE Fails(r)
  BY <1>1, FailsInv
<1>2. CASE ~Fails(r)
  <2>1. PICK v \in IF got[r].vnet = NoVnet THEN VnetIds ELSE {got[r].vnet} :
          /\ SetRow(r, [vnet |-> v, text |-> ask[r].text])
          /\ fabrics' = IF got[r].vnet = NoVnet
                        THEN [fabrics EXCEPT ![ask[r].owner] = v] ELSE fabrics
          /\ Ends(r) /\ UNCHANGED nets
    BY <1>2 DEF PutVlan
  <2>2. v \in VnetIds /\ ask[r].text \in Texts /\ ask[r].owner \in Owners
    <3>1. got[r].vnet \in VnetIds \cup {NoVnet}
      BY DEF PutVlan, FabricInv, ReqOK
    <3> QED
      BY <2>1, <3>1, AskIs DEF FabricInv, ReqOK
  <2>3. [vnet |-> v, text |-> ask[r].text] \in Vlan
    BY <2>2 DEF Vlan
  <2>4. vlans' \in [Owners -> [VlanIds -> Vlan \cup {NoVlan}]]
    BY <2>1, <2>3, SetRowIs
  <2>5. DataOK'
    BY <2>1, <2>2, <2>4 DEF FabricInv, DataOK
  <2> QED
    BY <2>1, <2>5, EndsInv DEF FabricInv, Tables
<1> QED
  BY <1>1, <1>2

LEMMA GetVlanStep ==
  ASSUME FabricInv, NEW r \in Reqs, GetVlan(r)
  PROVE  FabricInv'
<1>1. CASE Fails(r)
  BY <1>1, FailsInv
<1>2. CASE ~Fails(r)
  <2>1. /\ RowOf(r) # NoVlan /\ got' = [got EXCEPT ![r] = RowOf(r)]
        /\ Goes(r, CASE ask[r].op = "updateVlan" -> "updateVlan"
                     [] ask[r].op = "createNet"  -> "choose"
                     [] ask[r].op = "deleteNet"  -> "delNet")
        /\ UNCHANGED <<fabrics, vlans, nets, ask, pick, overtaken>>
    BY <1>2 DEF GetVlan, Missing
  <2>2. ask[r].op \in {"updateVlan", "createNet", "deleteNet"} /\ ReqOK(r)
    BY DEF GetVlan, FabricInv, ReqOK
  <2>3. PICK call \in {"updateVlan", "choose", "delNet"} : Goes(r, call)
    BY <2>1, <2>2
  <2>4. RowOf(r) \in Vlan
    BY <2>1, RowIs
  <2>5. /\ pc'[r] = call /\ got'[r] = RowOf(r) /\ Tables'
        /\ \A q \in Reqs : q # r => got'[q] = got[q]
    BY <2>1, <2>3 DEF Goes, FabricInv, Tables
  <2>6. ReqOK(r)'
    BY <2>1, <2>2, <2>4, <2>5 DEF ReqOK, Calls
  <2> QED
    BY <2>1, <2>3, <2>5, <2>6, GoesInv DEF Calls
<1> QED
  BY <1>1, <1>2

LEMMA UpdateVlanStep ==
  ASSUME FabricInv, NEW r \in Reqs, UpdateVlan(r)
  PROVE  FabricInv'
<1>1. CASE Fails(r)
  BY <1>1, FailsInv
<1>2. CASE ~Fails(r)
  <2>1. /\ SetRow(r, [got[r] EXCEPT !.text = ask[r].text]) /\ Ends(r)
        /\ UNCHANGED <<fabrics, nets>>
    BY <1>2 DEF UpdateVlan
  <2>2. got[r] \in Vlan /\ ask[r].text \in Texts
    BY AskIs DEF UpdateVlan, FabricInv, ReqOK
  <2>3. [got[r] EXCEPT !.text = ask[r].text] \in Vlan
    BY <2>2 DEF Vlan
  <2>4. vlans' \in [Owners -> [VlanIds -> Vlan \cup {NoVlan}]]
    BY <2>1, <2>3, SetRowIs
  <2>5. DataOK'
    BY <2>1, <2>4 DEF FabricInv, DataOK
  <2> QED
    BY <2>1, <2>5, EndsInv DEF FabricInv, Tables
<1> QED
  BY <1>1, <1>2

LEMMA ListNetsStep ==
  ASSUME FabricInv, NEW r \in Reqs, ListNets(r)
  PROVE  FabricInv'
<1>1. CASE Fails(r)
  BY <1>1, FailsInv
<1>2. CASE ~Fails(r)
  <2>1. Goes(r, "delVlan") /\ UNCHANGED <<fabrics, vlans, nets, ask, got, pick, overtaken>>
    BY <1>2 DEF ListNets
  <2>2. pc[r] = "listNets" /\ ReqOK(r)
    BY DEF ListNets, FabricInv
  <2>3. pc'[r] = "delVlan" /\ Tables'
    BY <2>1 DEF Goes, FabricInv, Tables
  <2>4. ReqOK(r)'
    BY <2>1, <2>2, <2>3 DEF ReqOK, Calls
  <2> QED
    BY <2>1, <2>3, <2>4, GoesInv DEF Calls
<1> QED
  BY <1>1, <1>2

LEMMA DelVlanStep ==
  ASSUME FabricInv, NEW r \in Reqs, DelVlan(r)
  PROVE  FabricInv'
<1>1. CASE Fails(r)
  BY <1>1, FailsInv
<1>2. CASE ~Fails(r)
  <2>1. SetRow(r, NoVlan) /\ Overtakes(r) /\ UNCHANGED <<fabrics, nets>>
    BY <1>2 DEF DelVlan
  <2>2. vlans' \in [Owners -> [VlanIds -> Vlan \cup {NoVlan}]]
    BY <2>1, SetRowIs
  <2>3. DataOK'
    BY <2>1, <2>2 DEF FabricInv, DataOK
  <2> QED
    BY <2>1, <2>3, EndsInv DEF FabricInv, Tables
<1> QED
  BY <1>1, <1>2

LEMMA PicksInv ==
  ASSUME FabricInv, NEW r \in Reqs, pc[r] = "choose", NEW s \in Held, Picks(r, s)
  PROVE  FabricInv'
<1>1. /\ pc'[r] = "putNet" /\ pick'[r] = s /\ Tables'
      /\ \A q \in Reqs : q # r => pick'[q] = pick[q]
  BY DEF Picks, Goes, FabricInv, Tables
<1>2. ReqOK(r)'
  BY <1>1 DEF Picks, FabricInv, ReqOK, Calls
<1> QED
  BY <1>1, <1>2, GoesInv DEF Picks, Calls

LEMMA ChooseSteps ==
  ASSUME FabricInv, NEW r \in Reqs, Validate(r) \/ Allocate(r)
  PROVE  FabricInv'
<1>1. CASE Fails(r)
  BY <1>1, FailsInv
<1>2. CASE Validate(r) /\ ~Fails(r)
  <2>1. ask[r].subnet \in Held /\ Picks(r, ask[r].subnet) /\ pc[r] = "choose"
    BY <1>2, AskIs DEF Validate, FabricInv, ReqOK, Held
  <2> QED
    BY <2>1, PicksInv
<1>3. CASE Allocate(r) /\ ~Fails(r)
  <2> DEFINE list == Listed(got[r].vnet)
  <2>1. FirstAvailable(list) # NoSubnet /\ Picks(r, FirstAvailable(list)) /\ pc[r] = "choose"
    BY <1>3 DEF Allocate
  <2>2. got[r] \in Vlan /\ got[r].vnet \in VnetIds
    BY <2>1 DEF FabricInv, ReqOK, Vlan
  <2>3. /\ Len(list) \in Nat /\ (list = <<>> <=> Len(list) = 0)
        /\ \A i \in 1..Len(list) : Fits(list[i])
    BY <2>2, OnVnetIs, ListedIs
  <2> HIDE DEF list
  <2>4. FirstAvailable(list) \in Held
    BY <2>1, <2>3, FirstIs DEF Held
  <2> QED
    BY <2>1, <2>4, PicksInv
<1> QED
  BY <1>1, <1>2, <1>3

\* A network is put or deleted.
LEMMA NetsInv ==
  ASSUME FabricInv, NEW n \in Names, NEW row \in NetRow \cup {NoNet},
         nets' = [nets EXCEPT ![n] = row], UNCHANGED <<fabrics, vlans>>
  PROVE  DataOK' /\ nets' = [x \in Names |-> nets'[x]]
<1>1. nets' = [x \in Names |-> IF x = n THEN row ELSE nets[x]]
  BY DEF FabricInv, Tables
<1>2. \A x \in Names : nets'[x] \in NetRow \cup {NoNet}
  BY <1>1 DEF FabricInv, DataOK
<1>3. IsFiniteSet({x \in Names : nets'[x] # NoNet})
  <2>1. IsFiniteSet({x \in Names : nets[x] # NoNet} \cup {n})
    BY FS_AddElement DEF FabricInv, DataOK
  <2>2. {x \in Names : nets'[x] # NoNet} \subseteq {x \in Names : nets[x] # NoNet} \cup {n}
    BY <1>1
  <2> QED
    BY <2>1, <2>2, FS_Subset
<1> QED
  BY <1>1, <1>2, <1>3 DEF FabricInv, DataOK

LEMMA NetSteps ==
  ASSUME FabricInv, NEW r \in Reqs, PutNet(r) \/ DelNet(r)
  PROVE  FabricInv'
<1>1. CASE Fails(r)
  BY <1>1, FailsInv
<1>2. ask[r].owner \in Owners /\ ask[r].vlan \in VlanIds /\ ask[r].name \in Names
  BY AskIs DEF FabricInv, ReqOK
<1>3. CASE PutNet(r) /\ ~Fails(r)
  <2> DEFINE row == [owner |-> ask[r].owner, vlan |-> ask[r].vlan,
                     vnet |-> got[r].vnet, subnet |-> pick[r]]
  <2>1. nets' = [nets EXCEPT ![ask[r].name] = row] /\ Overtakes(r) /\ UNCHANGED <<fabrics, vlans>>
    BY <1>3 DEF PutNet
  <2>2. got[r].vnet \in VnetIds /\ pick[r] \in Held
    BY <1>3 DEF PutNet, FabricInv, ReqOK, Vlan
  <2>3. row \in NetRow
    BY <1>2, <2>2 DEF NetRow
  <2> HIDE DEF row
  <2>4. DataOK' /\ nets' = [x \in Names |-> nets'[x]]
    BY <1>2, <2>1, <2>3, NetsInv
  <2> QED
    BY <2>1, <2>4, EndsInv
<1>4. CASE DelNet(r) /\ ~Fails(r)
  <2>1. nets' = [nets EXCEPT ![ask[r].name] = NoNet] /\ Ends(r) /\ UNCHANGED <<fabrics, vlans>>
    BY <1>4 DEF DelNet
  <2>2. DataOK' /\ nets' = [x \in Names |-> nets'[x]]
    BY <1>2, <2>1, NetsInv
  <2> QED
    BY <2>1, <2>2, EndsInv
<1> QED
  BY <1>1, <1>3, <1>4

LEMMA StutterInv == FabricInv /\ UNCHANGED vars => FabricInv'
  BY DEF FabricInv, Tables, DataOK, ReqOK, vars

LEMMA FabricStep == FabricInv /\ [Next]_vars => FabricInv'
<1> SUFFICES ASSUME FabricInv, [Next]_vars PROVE FabricInv'
  OBVIOUS
<1>1. ASSUME NEW r \in Reqs, \E a \in Asks[r] : Start(r, a) PROVE FabricInv'
  BY <1>1, StartStep
<1>2. ASSUME NEW r \in Reqs,
             \/ GetFabric(r) \/ PutVlan(r) \/ GetVlan(r) \/ UpdateVlan(r) \/ ListNets(r)
             \/ DelVlan(r) \/ Validate(r) \/ Allocate(r) \/ PutNet(r) \/ DelNet(r)
      PROVE  FabricInv'
  BY <1>2, GetFabricStep, PutVlanStep, GetVlanStep, UpdateVlanStep, ListNetsStep, DelVlanStep,
     ChooseSteps, NetSteps
<1> QED
  BY <1>1, <1>2, StutterInv DEF Next

LEMMA FabricInvariant == Spec => []FabricInv
<1> QED
  BY InitInv, FabricStep, PTL DEF Spec

\* Rows of fabrics, VLANs and networks are whole: a network is put on a VLAN that its
\* request has read, with a subnet that a client named or that is aligned, of the
\* prefix and in a private block, whatever subnets the streams of
\* subnet-streams.js step over.
THEOREM TypeCorrect == Spec => []TypeOK
<1> QED
  BY FabricInvariant, InvTypes, PTL
-----------------------------------------------------------------------------
(* Which request a step is of.                                             *)

Calling(r) ==
  \/ GetFabric(r) \/ PutVlan(r) \/ GetVlan(r) \/ UpdateVlan(r) \/ ListNets(r)
  \/ DelVlan(r) \/ Validate(r) \/ Allocate(r) \/ PutNet(r) \/ DelNet(r)

Frame == UNCHANGED <<fabrics, vlans, nets>>

LEMMA FailsIs ==
  ASSUME FabricInv, NEW r \in Reqs, Fails(r)
  PROVE  /\ Others(r) /\ Frame /\ pc'[r] = "idle" /\ overtaken' = overtaken \ {r}
  BY AnswersIs DEF Fails, Ends, Frame

LEMMA EndsIs ==
  ASSUME FabricInv, NEW r \in Reqs, Ends(r) \/ Overtakes(r)
  PROVE  /\ Others(r) /\ pc'[r] = "idle"
         /\ Ends(r) => overtaken' = overtaken \ {r}
         /\ Overtakes(r) => overtaken' = {s \in Reqs \ {r} : pc[s] # "idle"}
  BY AnswersIs DEF Ends, Overtakes

LEMMA StartIs ==
  ASSUME FabricInv, NEW r \in Reqs, NEW a \in Asks[r], Start(r, a)
  PROVE  /\ Others(r) /\ Frame /\ pc[r] = "idle" /\ pc'[r] \in {"getFabric", "listNets", "getVlan"}
         /\ overtaken' = IF Sound THEN overtaken ELSE overtaken \cup {r}
<1>1. a \in Ask
  BY FabricAsks
<1> QED
  BY <1>1 DEF Start, Goes, FabricInv, Tables, Others, Frame, FirstCall, Ask

\* The first call of createVlan.
LEMMA GetFabricIs ==
  ASSUME FabricInv, NEW r \in Reqs, GetFabric(r)
  PROVE  /\ Others(r) /\ Frame /\ pc[r] = "getFabric" /\ pc'[r] = "putVlan" /\ overtaken' = overtaken
         /\ ask'[r] = ask[r] /\ got'[r].vnet \in Constructed(fabrics[ask[r].owner])
<1>1. got[r] = NoVlan
  BY DEF GetFabric, FabricInv, ReqOK
<1>2. PICK v \in Constructed(fabrics[ask[r].owner]) : got' = [got EXCEPT ![r].vnet = v]
  BY DEF GetFabric
<1>3. got'[r] = [got[r] EXCEPT !.vnet = v] /\ \A q \in Reqs : q # r => got'[q] = got[q]
  BY <1>2 DEF FabricInv, Tables
<1>4. got'[r].vnet = v
  BY <1>1, <1>3 DEF NoVlan
<1> QED
  BY <1>3, <1>4 DEF GetFabric, Goes, FabricInv, Tables, Others, Frame

LEMMA PutVlanIs ==
  ASSUME FabricInv, NEW r \in Reqs, PutVlan(r), ~Fails(r)
  PROVE  \E v \in VnetIds :
           /\ pc[r] = "putVlan" /\ (got[r].vnet # NoVnet => v = got[r].vnet)
           /\ RowOf(r) = NoVlan /\ (got[r].vnet = NoVnet => MayPutFabric(r, v))
           /\ \A o \in Owners, k \in VlanIds :
                vlans'[o][k] = IF o = ask[r].owner /\ k = ask[r].vlan
                               THEN [vnet |-> v, text |-> ask[r].text] ELSE vlans[o][k]
           /\ \A o \in Owners : fabrics'[o] = IF got[r].vnet = NoVnet /\ o = ask[r].owner
                                              THEN v ELSE fabrics[o]
           /\ Ends(r) /\ UNCHANGED nets
<1>1. PICK v \in IF got[r].vnet = NoVnet THEN VnetIds ELSE {got[r].vnet} :
        /\ RowOf(r) = NoVlan /\ (got[r].vnet = NoVnet => MayPutFabric(r, v))
        /\ SetRow(r, [vnet |-> v, text |-> ask[r].text])
        /\ fabrics' = IF got[r].vnet = NoVnet
                      THEN [fabrics EXCEPT ![ask[r].owner] = v] ELSE fabrics
        /\ Ends(r) /\ UNCHANGED nets
  BY DEF PutVlan
<1>2. v \in VnetIds /\ ask[r].text \in Texts /\ ask[r].owner \in Owners
  <2>1. got[r].vnet \in VnetIds \cup {NoVnet}
    BY DEF PutVlan, FabricInv, ReqOK
  <2> QED
    BY <1>1, <2>1, AskIs DEF FabricInv, ReqOK
<1>3. [vnet |-> v, text |-> ask[r].text] \in Vlan
  BY <1>2 DEF Vlan
<1>4. \A o \in Owners, k \in VlanIds :
        vlans'[o][k] = IF o = ask[r].owner /\ k = ask[r].vlan
                       THEN [vnet |-> v, text |-> ask[r].text] ELSE vlans[o][k]
  BY <1>1, <1>3, SetRowIs
<1>5. \A o \in Owners : fabrics'[o] = IF got[r].vnet = NoVnet /\ o = ask[r].owner
                                      THEN v ELSE fabrics[o]
  BY <1>1, <1>2 DEF FabricInv, DataOK
<1> QED
  BY <1>1, <1>2, <1>4, <1>5 DEF PutVlan

LEMMA GetVlanIs ==
  ASSUME FabricInv, NEW r \in Reqs, GetVlan(r), ~Fails(r)
  PROVE  /\ Others(r) /\ Frame /\ pc[r] = "getVlan" /\ overtaken' = overtaken
         /\ pc'[r] \in {"updateVlan", "choose", "delNet"}
         /\ ask'[r] = ask[r] /\ got'[r] = RowOf(r) /\ RowOf(r) \in Vlan
<1>1. /\ RowOf(r) # NoVlan /\ got' = [got EXCEPT ![r] = RowOf(r)]
      /\ Goes(r, CASE ask[r].op = "updateVlan" -> "updateVlan"
                   [] ask[r].op = "createNet"  -> "choose"
                   [] ask[r].op = "deleteNet"  -> "delNet")
      /\ UNCHANGED <<fabrics, vlans, nets, ask, pick, overtaken>>
  BY DEF GetVlan, Missing
<1>2. ask[r].op \in {"updateVlan", "createNet", "deleteNet"} /\ pc[r] = "getVlan"
  BY DEF GetVlan, FabricInv, ReqOK
<1>3. PICK call \in {"updateVlan", "choose", "delNet"} : Goes(r, call)
  BY <1>1, <1>2
<1>4. RowOf(r) \in Vlan
  BY <1>1, RowIs
<1> QED
  BY <1>1, <1>2, <1>3, <1>4 DEF Goes, FabricInv, Tables, Others, Frame

LEMMA UpdateVlanIs ==
  ASSUME FabricInv, NEW r \in Reqs, UpdateVlan(r), ~Fails(r)
  PROVE  /\ pc[r] = "updateVlan" /\ RowOf(r) = got[r] /\ got[r] \in Vlan
         /\ Ends(r) /\ UNCHANGED <<fabrics, nets>>
         /\ \E row \in Vlan :
              /\ row.vnet = got[r].vnet
              /\ \A o \in Owners, k \in VlanIds :
                   vlans'[o][k] = IF o = ask[r].owner /\ k = ask[r].vlan THEN row ELSE vlans[o][k]
<1> DEFINE row == [got[r] EXCEPT !.text = ask[r].text]
<1>1. /\ SetRow(r, row) /\ Ends(r) /\ UNCHANGED <<fabrics, nets>> /\ RowOf(r) = got[r]
  BY DEF UpdateVlan, Unchanged
<1>2. got[r] \in Vlan /\ ask[r].text \in Texts /\ pc[r] = "updateVlan"
  BY AskIs DEF UpdateVlan, FabricInv, ReqOK
<1>3. row \in Vlan /\ row.vnet = got[r].vnet
  BY <1>2 DEF Vlan
<1> HIDE DEF row
<1>4. \A o \in Owners, k \in VlanIds :
        vlans'[o][k] = IF o = ask[r].owner /\ k = ask[r].vlan THEN row ELSE vlans[o][k]
  BY <1>1, <1>3, SetRowIs
<1> QED
  BY <1>1, <1>2, <1>3, <1>4

LEMMA ListNetsIs ==
  ASSUME FabricInv, NEW r \in Reqs, ListNets(r), ~Fails(r)
  PROVE  /\ Others(r) /\ Frame /\ pc[r] = "listNets" /\ pc'[r] = "delVlan" /\ overtaken' = overtaken
         /\ ask'[r] = ask[r] /\ \A n \in Names : ~On(n, ask[r].owner, ask[r].vlan)
  BY DEF ListNets, Goes, FabricInv, Tables, Others, Frame

LEMMA DelVlanIs ==
  ASSUME FabricInv, NEW r \in Reqs, DelVlan(r), ~Fails(r)
  PROVE  /\ pc[r] = "delVlan" /\ Overtakes(r) /\ UNCHANGED <<fabrics, nets>>
         /\ \A o \in Owners, k \in VlanIds :
              vlans'[o][k] = IF o = ask[r].owner /\ k = ask[r].vlan THEN NoVlan ELSE vlans[o][k]
<1>1. SetRow(r, NoVlan) /\ Overtakes(r) /\ UNCHANGED <<fabrics, nets>> /\ pc[r] = "delVlan"
  BY DEF DelVlan
<1> QED
  BY <1>1, SetRowIs

LEMMA PicksIs ==
  ASSUME FabricInv, NEW r \in Reqs, NEW s, Picks(r, s)
  PROVE  /\ Others(r) /\ Frame /\ pc'[r] = "putNet" /\ overtaken' = overtaken
         /\ ask'[r] = ask[r] /\ got'[r] = got[r] /\ pick'[r] = s
  BY DEF Picks, Goes, FabricInv, Tables, Others, Frame

LEMMA PutNetIs ==
  ASSUME FabricInv, NEW r \in Reqs, PutNet(r), ~Fails(r)
  PROVE  /\ pc[r] = "putNet" /\ Overtakes(r) /\ UNCHANGED <<fabrics, vlans>>
         /\ nets[ask[r].name] = NoNet
         /\ \A n \in Names : nets'[n] = IF n = ask[r].name
              THEN [owner |-> ask[r].owner, vlan |-> ask[r].vlan,
                    vnet |-> got[r].vnet, subnet |-> pick[r]]
              ELSE nets[n]
  BY DEF PutNet, FabricInv, Tables

LEMMA DelNetIs ==
  ASSUME FabricInv, NEW r \in Reqs, DelNet(r), ~Fails(r)
  PROVE  /\ pc[r] = "delNet" /\ Ends(r) /\ UNCHANGED <<fabrics, vlans>>
         /\ \A n \in Names : nets'[n] = IF n = ask[r].name THEN NoNet ELSE nets[n]
  BY DEF DelNet, FabricInv, Tables

LEMMA MovesOne ==
  ASSUME FabricInv, NEW r \in Reqs, (\E a \in Asks[r] : Start(r, a)) \/ Calling(r)
  PROVE  Others(r)
<1>1. CASE Fails(r)
  BY <1>1, FailsIs
<1>2. CASE ~Fails(r)
  BY <1>2, StartIs, GetFabricIs, PutVlanIs, GetVlanIs, UpdateVlanIs, ListNetsIs, DelVlanIs,
     PicksIs, PutNetIs, DelNetIs, EndsIs DEF Calling, Validate, Allocate
<1> QED
  BY <1>1, <1>2
-----------------------------------------------------------------------------
(* VLANs that were deleted.                                                *)

LEMMA DeletedStays ==
  ASSUME FabricInv, [Next]_vars, NEW q \in Reqs, pc[q] = "updateVlan", pc'[q] # pc[q],
         NEW o \in Owners, NEW k \in VlanIds, vlans[o][k] = NoVlan
  PROVE  vlans'[o][k] = NoVlan
<1>1. CASE UNCHANGED vars
  BY <1>1 DEF vars
<1>2. ASSUME NEW r \in Reqs, \/ Fails(r) \/ \E a \in Asks[r] : Start(r, a)
                             \/ GetFabric(r) \/ GetVlan(r) \/ ListNets(r) \/ Validate(r) \/ Allocate(r)
                             \/ PutNet(r) \/ DelNet(r)
      PROVE  vlans'[o][k] = NoVlan
  <2>1. vlans' = vlans
    BY <1>2 DEF Fails, Start, GetFabric, GetVlan, ListNets, Validate, Allocate, PutNet, DelNet, Picks
  <2> QED
    BY <2>1
<1>3. ASSUME NEW r \in Reqs, PutVlan(r) \/ DelVlan(r), ~Fails(r) PROVE FALSE
  <2>1. pc[r] # "updateVlan" /\ (Ends(r) \/ Overtakes(r))
    BY <1>3, PutVlanIs, DelVlanIs
  <2>2. Others(r)
    BY <2>1, EndsIs
  <2> QED
    BY <2>1, <2>2 DEF Others
<1>4. ASSUME NEW r \in Reqs, UpdateVlan(r), ~Fails(r) PROVE vlans'[o][k] = NoVlan
  <2>1. RowOf(r) # NoVlan
    BY <1>4, UpdateVlanIs, Nothing
  <2>2. ~(o = ask[r].owner /\ k = ask[r].vlan)
    BY <2>1 DEF RowOf
  <2> QED
    BY <1>4, <2>2, UpdateVlanIs
<1> QED
  BY <1>1, <1>2, <1>3, <1>4 DEF Next

\* A VLAN that was deleted is back only when it is created again: the put of an update
\* carries the etag of the row it has read (updateFabricVLAN), so it never brings
\* back a row that is gone, for any number of requests, accounts and VLANs.
THEOREM DeletedVlansStay == Spec => VlansStayDeleted
<1>1. FabricInv /\ [Next]_vars =>
        [\A r \in Reqs : pc[r] = "updateVlan" =>
           \A o \in Owners, k \in VlanIds :
             vlans[o][k] = NoVlan /\ vlans'[o][k] # NoVlan => pc'[r] = pc[r]]_vars
  BY DeletedStays
<1> QED
  BY <1>1, FabricInvariant, PTL DEF Spec, VlansStayDeleted
-----------------------------------------------------------------------------
(* The virtual network of an account.                                      *)

\* What a request has read is the virtual network of its account, if that has one.
ReadsShared(r) ==
  /\ pc[r] = "putVlan" => got[r].vnet \in {NoVnet, fabrics[ask[r].owner]}
  /\ pc[r] \in {"updateVlan", "choose", "putNet"} => got[r].vnet = fabrics[ask[r].owner]

SharedInv == FabricInv /\ SharedVnet /\ \A r \in Reqs : ReadsShared(r)

LEMMA SharedFrame ==
  ASSUME SharedInv, NEW r \in Reqs, Others(r), Frame, ReadsShared(r)'
  PROVE  SharedVnet' /\ \A q \in Reqs : ReadsShared(q)'
<1>1. SharedVnet'
  BY DEF SharedInv, SharedVnet, Frame
<1>2. ASSUME NEW q \in Reqs, q # r PROVE ReadsShared(q)'
  BY <1>2 DEF SharedInv, ReadsShared, Frame, Others
<1> QED
  BY <1>1, <1>2

LEMMA SharedInit == Init => SharedInv
<1> SUFFICES ASSUME Init PROVE SharedInv
  OBVIOUS
<1>1. SharedVnet
  BY DEF Init, SharedVnet
<1>2. \A r \in Reqs : ReadsShared(r)
  BY DEF Init, ReadsShared
<1> QED
  BY <1>1, <1>2, InitInv DEF SharedInv

\* Steps that end a request and write: what holds for rows and for other requests.
LEMMA SharedPutVlan ==
  ASSUME SharedInv, NEW r \in Reqs, PutVlan(r), ~Fails(r)
  PROVE  SharedVnet' /\ \A q \in Reqs : ReadsShared(q)'
<1> DEFINE o1 == ask[r].owner  k1 == ask[r].vlan
<1>1. PICK v \in VnetIds :
        /\ pc[r] = "putVlan" /\ (got[r].vnet # NoVnet => v = got[r].vnet)
        /\ RowOf(r) = NoVlan /\ (got[r].vnet = NoVnet => MayPutFabric(r, v))
        /\ \A o \in Owners, k \in VlanIds :
             vlans'[o][k] = IF o = o1 /\ k = k1
                            THEN [vnet |-> v, text |-> ask[r].text] ELSE vlans[o][k]
        /\ \A o \in Owners : fabrics'[o] = IF got[r].vnet = NoVnet /\ o = o1
                                           THEN v ELSE fabrics[o]
        /\ Ends(r) /\ UNCHANGED nets
  BY PutVlanIs DEF SharedInv
<1>2. o1 \in Owners /\ k1 \in VlanIds
  BY AskIs DEF SharedInv, FabricInv, ReqOK
<1>3. Others(r) /\ pc'[r] = "idle"
  BY <1>1, EndsIs DEF SharedInv
<1> HIDE DEF o1, k1
\* The account's virtual network is v afterwards, and was v or none before.
<1>4. /\ fabrics'[o1] = v /\ (fabrics[o1] = v \/ fabrics[o1] = NoVnet)
      /\ \A o \in Owners : o # o1 => fabrics'[o] = fabrics[o] /\ fabrics[o] # v
  <2>1. CASE got[r].vnet = NoVnet
    BY <1>1, <1>2, <2>1 DEF MayPutFabric, o1
  <2>2. CASE got[r].vnet # NoVnet
    <3>1. v = fabrics[o1]
      BY <1>1, <2>2 DEF SharedInv, ReadsShared, o1
    <3>2. v # NoVnet
      BY Nothing
    <3> QED
      BY <1>1, <1>2, <2>2, <3>1, <3>2 DEF SharedInv, SharedVnet
  <2> QED
    BY <2>1, <2>2
<1>5. \A o \in Owners : fabrics[o] # NoVnet => fabrics'[o] = fabrics[o]
  BY <1>4
<1>6. ASSUME NEW o \in Owners, NEW k \in VlanIds, vlans'[o][k] # NoVlan
      PROVE  vlans'[o][k].vnet = fabrics'[o]
  <2>1. CASE o = o1 /\ k = k1
    BY <1>1, <1>4, <2>1
  <2>2. CASE ~(o = o1 /\ k = k1)
    <3>1. vlans[o][k] # NoVlan /\ vlans'[o][k] = vlans[o][k]
      BY <1>1, <1>6, <2>2
    <3>2. vlans[o][k].vnet = fabrics[o] /\ vlans[o][k].vnet \in VnetIds
      BY <3>1 DEF SharedInv, SharedVnet, FabricInv, DataOK, Vlan
    <3> QED
      BY <1>5, <3>1, <3>2, Nothing
  <2> QED
    BY <2>1, <2>2
<1>7. ASSUME NEW n \in Names, nets'[n] # NoNet PROVE nets'[n].vnet = fabrics'[nets'[n].owner]
  <2>1. nets'[n] = nets[n] /\ nets[n] # NoNet
    BY <1>1, <1>7
  <2>2. nets[n].vnet = fabrics[nets[n].owner] /\ nets[n].vnet \in VnetIds /\ nets[n].owner \in Owners
    BY <2>1 DEF SharedInv, SharedVnet, FabricInv, DataOK, NetRow
  <2> QED
    BY <1>5, <2>1, <2>2, Nothing
<1>8. ASSUME NEW o \in Owners, NEW p \in Owners, o # p, fabrics'[o] = fabrics'[p]
      PROVE  fabrics'[o] = NoVnet
  BY <1>4, <1>8 DEF SharedInv, SharedVnet
<1>9. ASSUME NEW q \in Reqs PROVE ReadsShared(q)'
  <2>1. CASE q = r
    BY <1>3, <2>1 DEF ReadsShared
  <2>2. CASE q # r
    <3>1. pc'[q] = pc[q] /\ got'[q] = got[q] /\ ask'[q] = ask[q] /\ ask[q].owner \in Owners
      BY <1>3, <2>2, AskIs DEF Others, SharedInv, FabricInv, ReqOK
    <3>2. /\ pc[q] = "putVlan" => got[q].vnet \in VnetIds \cup {NoVnet}
          /\ pc[q] \in {"updateVlan", "choose", "putNet"} => got[q].vnet \in VnetIds
      BY DEF SharedInv, FabricInv, ReqOK, Vlan
    <3>3. ReadsShared(q)
      BY DEF SharedInv
    <3> QED
      BY <1>5, <3>1, <3>2, <3>3, Nothing DEF ReadsShared
  <2> QED
    BY <2>1, <2>2
<1> QED
  BY <1>6, <1>7, <1>8, <1>9 DEF SharedVnet

LEMMA SharedUpdateVlan ==
  ASSUME SharedInv, NEW r \in Reqs, UpdateVlan(r) \/ DelVlan(r), ~Fails(r)
  PROVE  SharedVnet' /\ \A q \in Reqs : ReadsShared(q)'
<1>1. PICK row \in Vlan \cup {NoVlan} :
        /\ row # NoVlan => row.vnet = fabrics[ask[r].owner]
        /\ \A o \in Owners, k \in VlanIds :
             vlans'[o][k] = IF o = ask[r].owner /\ k = ask[r].vlan THEN row ELSE vlans[o][k]
        /\ Ends(r) \/ Overtakes(r)
        /\ UNCHANGED <<fabrics, nets>>
  <2>1. CASE UpdateVlan(r)
    <3>1. got[r].vnet = fabrics[ask[r].owner]
      BY <2>1, UpdateVlanIs DEF SharedInv, ReadsShared
    <3> QED
      BY <2>1, <3>1, UpdateVlanIs DEF SharedInv
  <2>2. CASE DelVlan(r)
    BY <2>2, DelVlanIs DEF SharedInv
  <2> QED
    BY <2>1, <2>2
<1>2. Others(r) /\ pc'[r] = "idle"
  BY <1>1, EndsIs DEF SharedInv
<1>3. \A o \in Owners, k \in VlanIds : vlans'[o][k] # NoVlan => vlans'[o][k].vnet = fabrics[o]
  BY <1>1 DEF SharedInv, SharedVnet
<1>4. SharedVnet'
  BY <1>1, <1>3 DEF SharedInv, SharedVnet
<1>5. ASSUME NEW q \in Reqs PROVE ReadsShared(q)'
  BY <1>1, <1>2 DEF SharedInv, ReadsShared, Others
<1> QED
  BY <1>4, <1>5

LEMMA SharedNets ==
  ASSUME SharedInv, NEW r \in Reqs, PutNet(r) \/ DelNet(r), ~Fails(r)
  PROVE  SharedVnet' /\ \A q \in Reqs : ReadsShared(q)'
<1>1. PICK row \in NetRow \cup {NoNet} :
        /\ row # NoNet => row.vnet = fabrics[row.owner]
        /\ \A n \in Names : nets'[n] = IF n = ask[r].name THEN row ELSE nets[n]
        /\ Ends(r) \/ Overtakes(r)
        /\ UNCHANGED <<fabrics, vlans>>
  <2>1. CASE PutNet(r)
    <3> DEFINE row == [owner |-> ask[r].owner, vlan |-> ask[r].vlan,
                       vnet |-> got[r].vnet, subnet |-> pick[r]]
    <3>1. pc[r] = "putNet"
      BY <2>1, PutNetIs DEF SharedInv
    <3>2. /\ got[r].vnet = fabrics[ask[r].owner] /\ got[r].vnet \in VnetIds /\ pick[r] \in Held
          /\ ask[r].owner \in Owners /\ ask[r].vlan \in VlanIds
      BY <3>1, AskIs DEF SharedInv, FabricInv, ReqOK, ReadsShared, Vlan
    <3>3. row \in NetRow /\ row.vnet = fabrics[row.owner]
      BY <3>2 DEF NetRow
    <3> HIDE DEF row
    <3>4. \A n \in Names : nets'[n] = IF n = ask[r].name THEN row ELSE nets[n]
      BY <2>1, PutNetIs DEF SharedInv, row
    <3> QED
      BY <2>1, <3>3, <3>4, PutNetIs DEF SharedInv
  <2>2. CASE DelNet(r)
    BY <2>2, DelNetIs DEF SharedInv
  <2> QED
    BY <2>1, <2>2
<1>2. Others(r) /\ pc'[r] = "idle"
  BY <1>1, EndsIs DEF SharedInv
<1>3. \A n \in Names : nets'[n] # NoNet => nets'[n].vnet = fabrics[nets'[n].owner]
  BY <1>1 DEF SharedInv, SharedVnet
<1>4. SharedVnet'
  BY <1>1, <1>3 DEF SharedInv, SharedVnet
<1>5. ASSUME NEW q \in Reqs PROVE ReadsShared(q)'
  BY <1>1, <1>2 DEF SharedInv, ReadsShared, Others
<1> QED
  BY <1>4, <1>5

LEMMA SharedReads ==
  ASSUME 0 \notin VnetIds, SharedInv, NEW r \in Reqs,
         \/ Fails(r) \/ \E a \in Asks[r] : Start(r, a)
         \/ GetFabric(r) \/ GetVlan(r) \/ ListNets(r) \/ Validate(r) \/ Allocate(r)
  PROVE  SharedVnet' /\ \A q \in Reqs : ReadsShared(q)'
<1>1. FabricInv
  BY DEF SharedInv
<1>2. CASE Fails(r)
  BY <1>1, <1>2, FailsIs, SharedFrame DEF ReadsShared
<1>3. CASE \E a \in Asks[r] : Start(r, a)
  BY <1>1, <1>3, StartIs, SharedFrame DEF ReadsShared
<1>4. CASE GetFabric(r)
  <2>1. ask[r].owner \in Owners
    BY <1>1, AskIs DEF FabricInv, ReqOK
  <2>2. fabrics[ask[r].owner] # 0
    BY <1>1, <2>1, Nothing DEF FabricInv, DataOK
  <2>3. pc'[r] = "putVlan" /\ got'[r].vnet = fabrics'[ask'[r].owner]
    BY <1>1, <1>4, <2>2, GetFabricIs DEF Constructed, Frame
  <2> QED
    BY <1>1, <1>4, <2>3, GetFabricIs, SharedFrame DEF ReadsShared
<1>5. CASE GetVlan(r) /\ ~Fails(r)
  <2>1. ask[r].owner \in Owners /\ ask[r].vlan \in VlanIds
    BY <1>1, AskIs DEF FabricInv, ReqOK
  <2>2. got'[r].vnet = fabrics[ask[r].owner]
    BY <1>1, <1>5, <2>1, GetVlanIs, Nothing DEF SharedInv, SharedVnet, RowOf
  <2> QED
    BY <1>1, <1>5, <2>2, GetVlanIs, SharedFrame DEF ReadsShared, Frame
<1>6. CASE ListNets(r) /\ ~Fails(r)
  BY <1>1, <1>6, ListNetsIs, SharedFrame DEF ReadsShared
<1>7. CASE (Validate(r) \/ Allocate(r)) /\ ~Fails(r)
  <2>1. pc[r] = "choose" /\ \E s : Picks(r, s)
    BY <1>7 DEF Validate, Allocate
  <2>2. got[r].vnet = fabrics[ask[r].owner]
    BY <2>1 DEF SharedInv, ReadsShared
  <2> QED
    BY <1>1, <2>1, <2>2, PicksIs, SharedFrame DEF ReadsShared, Frame
<1> QED
  BY <1>2, <1>3, <1>4, <1>5, <1>6, <1>7

LEMMA SharedStep == ASSUME 0 \notin VnetIds, SharedInv, [Next]_vars PROVE SharedInv'
<1>1. FabricInv'
  BY FabricStep DEF SharedInv
<1>2. CASE UNCHANGED vars
  <2>1. SharedVnet' /\ \A q \in Reqs : ReadsShared(q)'
    BY <1>2 DEF SharedInv, SharedVnet, ReadsShared, vars
  <2> QED
    BY <1>1, <2>1 DEF SharedInv
<1>3. CASE Next
  <2>1. SharedVnet' /\ \A q \in Reqs : ReadsShared(q)'
    BY <1>3, SharedReads, SharedPutVlan, SharedUpdateVlan, SharedNets DEF Next
  <2> QED
    BY <1>1, <2>1 DEF SharedInv
<1> QED
  BY <1>2, <1>3

\* Each account has a virtual network of its own, which all its VLANs and networks
\* share, however many requests create, update and delete them at once: the
\* fabric's row is put with etag null and its id is unique in the bucket
\* (createFabricVLAN).  The hypothesis leaves out the id 0, which randomVnetID
\* draws once in 2^24 and which the constructor of a fabric takes for no id.
THEOREM VnetsAreShared == ASSUME 0 \notin VnetIds PROVE Spec => []SharedVnet
<1>1. SharedInv /\ [Next]_vars => SharedInv'
  BY SharedStep
<1>2. SharedInv => SharedVnet
  BY DEF SharedInv
<1> QED
  BY <1>1, <1>2, SharedInit, PTL DEF Spec
-----------------------------------------------------------------------------
(* Subnets that do not overlap.                                            *)

\* No client names a subnet that is smaller than those that NAPI chooses.
LargeSubnets == \A s \in Subnets : s.size % PrefixSize = 0

LEMMA HeldLarge == ASSUME LargeSubnets, NEW s \in Held PROVE Large(s)
  BY HeldFit, ChoicesFit DEF Large, LargeSubnets, Held

LEMMA Apart ==
  ASSUME NEW s, NEW t, Large(s), Large(t), ~Overlap(s, t), s # t \/ Overlap(s, s), ~Before(t, s)
  PROVE  EndOf(s) <= t.at
<1>1. /\ s.at \in Nat /\ t.at \in Nat /\ EndOf(s) \in Nat /\ EndOf(t) \in Nat
      /\ s.at < EndOf(s) /\ t.at < EndOf(t) /\ LastOf(s) = EndOf(s) - 1 /\ LastOf(t) = EndOf(t) - 1
  BY LargeIs
<1>2. s.at <= t.at
  BY <1>1 DEF Before
<1> QED
  BY <1>1, <1>2 DEF Overlap

\* If no two networks of a virtual network overlap, their list is disjoint.
LEMMA ListIsDisjoint ==
  ASSUME LargeSubnets, FabricInv, Sound, NEW v \in VnetIds
  PROVE  Disjoint(Listed(v))
<1> DEFINE list == Listed(v)
<1>1. /\ IsFiniteSet(OnVnet(v)) /\ SubnetsOf(v) \subseteq Sized
      /\ \A n \in OnVnet(v) : n \in Names /\ nets[n] # NoNet /\ nets[n].vnet = v
      /\ \A s \in SubnetsOf(v) : s \in Held
  BY OnVnetIs DEF OnVnet
<1>2. /\ Len(list) \in Nat /\ (list = <<>> <=> Len(list) = 0)
      /\ \A i \in 1..Len(list) : list[i] \in SubnetsOf(v)
      /\ \A i, j \in 1..Len(list) : i < j => ~Before(list[j], list[i])
      /\ \A i, j \in 1..Len(list) : i < j /\ list[i] = list[j] =>
           \E m, n \in OnVnet(v) : m # n /\ nets[m].subnet = list[i] /\ nets[n].subnet = list[i]
  BY <1>1, ListedIs
<1> HIDE DEF list
<1>3. \A i \in 1..Len(list) : Large(list[i])
  BY <1>1, <1>2, HeldLarge
<1>4. ASSUME NEW i \in 1..Len(list), NEW j \in 1..Len(list), i < j
      PROVE  EndOf(list[i]) <= list[j].at
  <2>1. PICK m \in OnVnet(v), n \in OnVnet(v) :
          m # n /\ nets[m].subnet = list[i] /\ nets[n].subnet = list[j]
    <3>1. CASE list[i] = list[j]
      BY <1>2, <1>4, <3>1
    <3>2. CASE list[i] # list[j]
      BY <1>2, <3>2 DEF SubnetsOf
    <3> QED
      BY <3>1, <3>2
  <2>2. ~Overlap(list[i], list[j])
    BY <1>1, <2>1 DEF Sound
  <2>3. Overlap(list[i], list[i])
    <3>1. /\ list[i].at \in Nat /\ EndOf(list[i]) \in Nat
          /\ list[i].at < EndOf(list[i]) /\ LastOf(list[i]) = EndOf(list[i]) - 1
      BY <1>3, LargeIs
    <3> QED
      BY <3>1 DEF Overlap
  <2>4. ~Before(list[j], list[i])
    BY <1>2, <1>4
  <2> QED
    BY <1>3, <2>2, <2>3, <2>4, Apart
<1> QED
  BY <1>2, <1>3, <1>4 DEF Disjoint, list

\* What the streams choose then overlaps no network.
LEMMA ChoiceIsFree ==
  ASSUME LargeSubnets, FabricInv, Sound, NEW v \in VnetIds,
         FirstAvailable(Listed(v)) # NoSubnet, NEW n \in OnVnet(v)
  PROVE  ~Overlap(FirstAvailable(Listed(v)), nets[n].subnet)
<1> DEFINE list == Listed(v)  s == FirstAvailable(list)
<1>1. Disjoint(list)
  BY ListIsDisjoint
<1>2. PICK k \in 1..Len(list) : list[k] = nets[n].subnet
  <2>1. nets[n].subnet \in SubnetsOf(v)
    BY DEF SubnetsOf
  <2> QED
    BY <2>1, OnVnetIs, ListedIs
<1> HIDE DEF list
<1>3. s \in Offered /\ (s.at + PrefixSize <= list[k].at \/ EndOf(list[k]) <= s.at)
  <2>1. s # NoSubnet
    BY DEF list
  <2> QED
    BY <1>1, <2>1, FirstIsFree
<1> HIDE DEF s
<1>4. s.at \in Nat /\ s.size = PrefixSize /\ PrefixSize \in Nat
  BY <1>3, ChoicesFit, BlockFacts
<1>5. list[k].at \in Nat /\ EndOf(list[k]) \in Nat /\ LastOf(list[k]) = EndOf(list[k]) - 1
  BY <1>1, DisjointIs, LargeIs
<1>6. ~Overlap(s, list[k])
  BY <1>3, <1>4, <1>5 DEF Overlap, LastOf
<1> QED
  BY <1>2, <1>6 DEF s, list

\* What the overlap query lets pass overlaps no network.
LEMMA FreeIsFree ==
  ASSUME FabricInv, NEW v \in VnetIds, NEW s \in Subnets, Free(s, v), NEW n \in OnVnet(v)
  PROVE  ~Overlap(s, nets[n].subnet)
<1>1. s \in Sized /\ nets[n].subnet \in Sized
  BY OnVnetIs, HeldFit DEF Held, Fits
<1>2. \A t \in Sized : t.at \in Nat /\ LastOf(t) \in Int
  BY DEF Sized, LastOf
<1> QED
  BY <1>1, <1>2 DEF Free, Overlap

\* What a request that was not overtaken has checked.
Clear(r) ==
  /\ pc[r] \in {"choose", "putNet"} => RowOf(r) # NoVlan
  /\ pc[r] = "delVlan" => \A n \in Names : ~On(n, ask[r].owner, ask[r].vlan)
  /\ pc[r] = "putNet" => \A n \in OnVnet(got[r].vnet) : ~Overlap(pick[r], nets[n].subnet)

Checked(r) == r \notin overtaken /\ pc[r] # "idle" => Sound /\ Clear(r)

SoundInv == FabricInv /\ \A r \in Reqs : Checked(r)

LEMMA SoundFrame ==
  ASSUME SoundInv, NEW r \in Reqs, Others(r), Frame,
         \A q \in Reqs : q # r /\ q \notin overtaken' => q \notin overtaken,
         r \notin overtaken' /\ pc'[r] # "idle" => Sound /\ Clear(r)'
  PROVE  \A q \in Reqs : Checked(q)'
<1>1. Sound <=> Sound'
  BY DEF Frame, Sound
<1>2. ASSUME NEW q \in Reqs, q # r, Clear(q) PROVE Clear(q)'
  BY <1>2 DEF Clear, Frame, Others, RowOf, On, OnVnet
<1>3. \A q \in Reqs : Checked(q)
  BY DEF SoundInv
<1>4. ASSUME NEW q \in Reqs, q # r PROVE Checked(q)'
  <2>1. pc'[q] = pc[q]
    BY <1>4 DEF Others
  <2> QED
    BY <1>1, <1>2, <1>3, <1>4, <2>1 DEF Checked
<1>5. Checked(r)'
  BY <1>1 DEF Checked
<1> QED
  BY <1>4, <1>5

LEMMA SoundReads ==
  ASSUME LargeSubnets, SoundInv, NEW r \in Reqs,
         \/ Fails(r) \/ \E a \in Asks[r] : Start(r, a)
         \/ GetFabric(r) \/ GetVlan(r) \/ ListNets(r) \/ Validate(r) \/ Allocate(r)
  PROVE  Frame /\ \A q \in Reqs : Checked(q)'
<1>1. FabricInv /\ Checked(r)
  BY DEF SoundInv
<1>2. CASE Fails(r)
  BY <1>1, <1>2, FailsIs, SoundFrame
<1>3. CASE \E a \in Asks[r] : Start(r, a)
  <2>1. /\ Others(r) /\ Frame /\ pc'[r] \in {"getFabric", "listNets", "getVlan"}
        /\ overtaken' = IF Sound THEN overtaken ELSE overtaken \cup {r}
    BY <1>1, <1>3, StartIs
  <2>2. Clear(r)'
    BY <2>1 DEF Clear
  <2> QED
    BY <2>1, <2>2, SoundFrame
<1>4. CASE GetFabric(r)
  <2>1. /\ Others(r) /\ Frame /\ pc[r] = "getFabric" /\ pc'[r] = "putVlan" /\ overtaken' = overtaken
    BY <1>1, <1>4, GetFabricIs
  <2>2. Clear(r)'
    BY <2>1 DEF Clear
  <2> QED
    BY <1>1, <2>1, <2>2, SoundFrame DEF Checked
<1>5. CASE GetVlan(r) /\ ~Fails(r)
  <2>1. /\ Others(r) /\ Frame /\ pc[r] = "getVlan" /\ overtaken' = overtaken
        /\ pc'[r] \in {"updateVlan", "choose", "delNet"} /\ ask'[r] = ask[r] /\ RowOf(r) # NoVlan
    BY <1>1, <1>5, GetVlanIs, Nothing
  <2>2. Clear(r)'
    BY <2>1 DEF Clear, RowOf, Frame
  <2> QED
    BY <1>1, <2>1, <2>2, SoundFrame DEF Checked
<1>6. CASE ListNets(r) /\ ~Fails(r)
  <2>1. /\ Others(r) /\ Frame /\ pc[r] = "listNets" /\ pc'[r] = "delVlan" /\ overtaken' = overtaken
        /\ ask'[r] = ask[r] /\ \A n \in Names : ~On(n, ask[r].owner, ask[r].vlan)
    BY <1>1, <1>6, ListNetsIs
  <2>2. Clear(r)'
    BY <2>1 DEF Clear, On, Frame
  <2> QED
    BY <1>1, <2>1, <2>2, SoundFrame DEF Checked
<1>7. CASE (Validate(r) \/ Allocate(r)) /\ ~Fails(r)
  <2>1. PICK s : /\ Picks(r, s) /\ pc[r] = "choose"
                 /\ \/ s = FirstAvailable(Listed(got[r].vnet)) /\ s # NoSubnet
                    \/ s = ask[r].subnet /\ s # NoSubnet /\ Free(s, got[r].vnet)
    BY <1>7 DEF Validate, Allocate
  <2>2. got[r].vnet \in VnetIds /\ ask[r].subnet \in Subnets \cup {NoSubnet}
    BY <1>1, <2>1, AskIs DEF FabricInv, ReqOK, Vlan
  <2>3. Sound => \A n \in OnVnet(got[r].vnet) : ~Overlap(s, nets[n].subnet)
    BY <1>1, <2>1, <2>2, ChoiceIsFree, FreeIsFree
  <2>4. /\ Others(r) /\ Frame /\ pc'[r] = "putNet" /\ overtaken' = overtaken
        /\ ask'[r] = ask[r] /\ got'[r] = got[r] /\ pick'[r] = s
    BY <1>1, <2>1, PicksIs
  <2>5. Sound /\ Clear(r) => Clear(r)'
    BY <2>1, <2>3, <2>4 DEF Clear, RowOf, OnVnet, Frame
  <2> QED
    BY <1>1, <2>1, <2>4, <2>5, SoundFrame DEF Checked
<1>8. Fails(r) => Frame
  BY DEF Fails, Frame
<1> QED
  BY <1>2, <1>3, <1>4, <1>5, <1>6, <1>7, <1>8, FailsIs, StartIs, GetFabricIs, GetVlanIs, ListNetsIs, PicksIs
     DEF Validate, Allocate, SoundInv

\* A request that ends with a network more or a VLAN less leaves nobody unaware.
LEMMA SoundOvertakes ==
  ASSUME SoundInv, NEW r \in Reqs, Overtakes(r)
  PROVE  \A q \in Reqs : Checked(q)'
<1>1. /\ Others(r) /\ pc'[r] = "idle" /\ overtaken' = {s \in Reqs \ {r} : pc[s] # "idle"}
  BY EndsIs DEF SoundInv
<1> QED
  BY <1>1 DEF Checked, Others

\* More VLANs or fewer networks disturb nobody.
LEMMA SoundEnds ==
  ASSUME SoundInv, NEW r \in Reqs, Ends(r),
         \A o \in Owners, k \in VlanIds : vlans[o][k] # NoVlan => vlans'[o][k] # NoVlan,
         \A n \in Names : nets'[n] \in {nets[n], NoNet}
  PROVE  /\ Sound => Sound'
         /\ \A q \in Reqs : Checked(q)'
<1>1. FabricInv /\ Others(r) /\ pc'[r] = "idle" /\ overtaken' = overtaken \ {r}
  BY EndsIs DEF SoundInv
<1>2. ASSUME Sound PROVE Sound'
  <2>1. \A n \in Names : nets'[n] # NoNet =>
          /\ nets'[n] = nets[n] /\ nets[n].owner \in Owners /\ nets[n].vlan \in VlanIds
    BY <1>1 DEF FabricInv, DataOK, NetRow
  <2> QED
    BY <1>2, <2>1 DEF Sound
<1>3. ASSUME NEW q \in Reqs, q # r, Clear(q) PROVE Clear(q)'
  <2>1. /\ pc'[q] = pc[q] /\ ask'[q] = ask[q] /\ got'[q] = got[q] /\ pick'[q] = pick[q]
        /\ ask[q].owner \in Owners /\ ask[q].vlan \in VlanIds
    BY <1>1, <1>3, AskIs DEF Others, FabricInv, ReqOK
  <2>2. RowOf(q) # NoVlan => RowOf(q)' # NoVlan
    BY <2>1 DEF RowOf
  <2>3. \A n \in Names : On(n, ask[q].owner, ask[q].vlan)' => On(n, ask[q].owner, ask[q].vlan)
    BY <2>1, Nothing DEF On
  <2>4. pc[q] = "putNet" => \A n \in OnVnet(got[q].vnet)' : n \in OnVnet(got[q].vnet) /\ nets'[n] = nets[n]
    <3>1. pc[q] = "putNet" => got[q].vnet \in VnetIds
      BY <1>1 DEF FabricInv, ReqOK, Vlan
    <3> QED
      BY <2>1, <3>1, Nothing DEF OnVnet
  <2> QED
    BY <1>3, <2>1, <2>2, <2>3, <2>4 DEF Clear
<1>4. ASSUME NEW q \in Reqs PROVE Checked(q)'
  <2>1. CASE q = r
    BY <1>1, <2>1 DEF Checked
  <2>2. CASE q # r
    BY <1>1, <1>2, <1>3, <2>2 DEF Checked, SoundInv, Others
  <2> QED
    BY <2>1, <2>2
<1> QED
  BY <1>2, <1>4

LEMMA SoundWrites ==
  ASSUME SoundInv, NEW r \in Reqs, ~Fails(r), PutVlan(r) \/ UpdateVlan(r) \/ DelNet(r)
  PROVE  /\ Sound => Sound'
         /\ \A q \in Reqs : Checked(q)'
<1>1. FabricInv
  BY DEF SoundInv
<1>2. CASE PutVlan(r)
  <2>1. PICK v \in VnetIds :
          /\ Ends(r) /\ UNCHANGED nets
          /\ \A o \in Owners, k \in VlanIds :
               vlans'[o][k] = IF o = ask[r].owner /\ k = ask[r].vlan
                              THEN [vnet |-> v, text |-> ask[r].text] ELSE vlans[o][k]
    BY <1>1, <1>2, PutVlanIs
  <2>2. [vnet |-> v, text |-> ask[r].text] \in Vlan
    BY <1>1, AskIs DEF FabricInv, ReqOK, Vlan
  <2>3. \A o \in Owners, k \in VlanIds : vlans[o][k] # NoVlan => vlans'[o][k] # NoVlan
    BY <2>1, <2>2, Nothing
  <2> QED
    BY <2>1, <2>3, SoundEnds
<1>3. CASE UpdateVlan(r)
  BY <1>1, <1>3, UpdateVlanIs, SoundEnds, Nothing
<1>4. CASE DelNet(r)
  BY <1>1, <1>4, DelNetIs, SoundEnds
<1> QED
  BY <1>2, <1>3, <1>4

\* The delete of a VLAN without networks, or a network with a subnet of its own.
LEMMA SoundDelVlan ==
  ASSUME SoundInv, NEW r \in Reqs, DelVlan(r), ~Fails(r), Sound, Clear(r)
  PROVE  Sound'
<1>1. /\ pc[r] = "delVlan" /\ UNCHANGED <<fabrics, nets>>
      /\ \A o \in Owners, k \in VlanIds :
           vlans'[o][k] = IF o = ask[r].owner /\ k = ask[r].vlan THEN NoVlan ELSE vlans[o][k]
  BY DelVlanIs DEF SoundInv
<1>2. \A n \in Names : ~On(n, ask[r].owner, ask[r].vlan)
  BY <1>1 DEF Clear
<1>3. \A n \in Names : nets[n] # NoNet => nets[n].owner \in Owners /\ nets[n].vlan \in VlanIds
  BY DEF SoundInv, FabricInv, DataOK, NetRow
<1> QED
  BY <1>1, <1>2, <1>3 DEF Sound, On

LEMMA SoundPutNet ==
  ASSUME SoundInv, NEW r \in Reqs, PutNet(r), ~Fails(r), Sound, Clear(r)
  PROVE  Sound'
<1> DEFINE row == [owner |-> ask[r].owner, vlan |-> ask[r].vlan,
                   vnet |-> got[r].vnet, subnet |-> pick[r]]
           x == ask[r].name
<1>1. /\ pc[r] = "putNet" /\ UNCHANGED <<fabrics, vlans>> /\ nets[x] = NoNet
      /\ \A n \in Names : nets'[n] = IF n = x THEN row ELSE nets[n]
  BY PutNetIs DEF SoundInv
<1>2. pick[r] \in Held
  BY <1>1 DEF SoundInv, FabricInv, ReqOK
<1>3. row.owner = ask[r].owner /\ row.vlan = ask[r].vlan /\ row.vnet = got[r].vnet /\ row.subnet = pick[r]
  OBVIOUS
<1> HIDE DEF row, x
<1>4. vlans[row.owner][row.vlan] # NoVlan
  BY <1>1, <1>3 DEF Clear, RowOf
<1>5. ASSUME NEW n \in Names, nets[n] # NoNet, nets[n].vnet = row.vnet
      PROVE  ~Overlap(row.subnet, nets[n].subnet) /\ ~Overlap(nets[n].subnet, row.subnet)
  <2>1. ~Overlap(row.subnet, nets[n].subnet)
    BY <1>1, <1>3, <1>5 DEF Clear, OnVnet
  <2> QED
    BY <2>1 DEF Overlap
<1>6. \A m, n \in Names : /\ nets'[m] # NoNet /\ nets'[n] # NoNet /\ m # n
                          /\ nets'[m].vnet = nets'[n].vnet
                          => ~Overlap(nets'[m].subnet, nets'[n].subnet)
  BY <1>1, <1>5 DEF Sound
<1>7. \A n \in Names : nets'[n] # NoNet => vlans'[nets'[n].owner][nets'[n].vlan] # NoVlan
  BY <1>1, <1>4 DEF Sound
<1> QED
  BY <1>6, <1>7 DEF Sound

\* What a step does to the networks and to what requests have checked.
LEMMA SoundCalls ==
  ASSUME LargeSubnets, SoundInv, NEW r \in Reqs,
         (\E a \in Asks[r] : Start(r, a)) \/ Calling(r)
  PROVE  /\ Others(r) /\ (Sound /\ r \notin overtaken => Sound')
         /\ \A q \in Reqs : Checked(q)'
<1>1. FabricInv /\ Checked(r)
  BY DEF SoundInv
<1>2. CASE \/ Fails(r) \/ \E a \in Asks[r] : Start(r, a)
           \/ GetFabric(r) \/ GetVlan(r) \/ ListNets(r) \/ Validate(r) \/ Allocate(r)
  <2>1. Frame /\ \A q \in Reqs : Checked(q)'
    BY <1>2, SoundReads
  <2>2. Sound => Sound'
    BY <2>1 DEF Frame, Sound
  <2> QED
    BY <1>1, <2>1, <2>2, MovesOne
<1>3. CASE ~Fails(r) /\ (PutVlan(r) \/ UpdateVlan(r) \/ DelNet(r))
  BY <1>1, <1>3, SoundWrites, PutVlanIs, UpdateVlanIs, DelNetIs, EndsIs
<1>4. CASE ~Fails(r) /\ (DelVlan(r) \/ PutNet(r))
  <2>1. Overtakes(r) /\ pc[r] # "idle"
    BY <1>1, <1>4, DelVlanIs, PutNetIs
  <2> QED
    BY <1>1, <1>4, <2>1, EndsIs, SoundOvertakes, SoundDelVlan, SoundPutNet DEF Checked
<1> QED
  BY <1>2, <1>3, <1>4 DEF Calling

LEMMA SoundStep ==
  ASSUME LargeSubnets, SoundInv, [Next]_vars
  PROVE  /\ SoundInv'
         /\ \A r \in Reqs : pc'[r] # pc[r] /\ r \notin overtaken /\ Sound => Sound'
<1>1. FabricInv'
  BY FabricStep DEF SoundInv
<1>2. CASE UNCHANGED vars
  <2>1. \A q \in Reqs : Checked(q)'
    BY <1>2 DEF SoundInv, Checked, Clear, Sound, RowOf, On, OnVnet, vars
  <2> QED
    BY <1>1, <1>2, <2>1 DEF SoundInv, vars
<1>3. CASE Next
  <2>1. PICK r \in Reqs : (\E a \in Asks[r] : Start(r, a)) \/ Calling(r)
    BY <1>3 DEF Next, Calling
  <2>2. /\ Others(r) /\ (Sound /\ r \notin overtaken => Sound')
        /\ \A q \in Reqs : Checked(q)'
    BY <2>1, SoundCalls
  <2> QED
    BY <1>1, <2>2 DEF SoundInv, Others
<1> QED
  BY <1>2, <1>3

\* Checks and writes of the networks are separate calls, and a request that no other has
\* overtaken never makes networks overlap or leaves one without its VLAN, whatever
\* updates, creations of VLANs and deletes of networks run at the same time, and however
\* its subnet was chosen.  The hypothesis excludes subnets smaller than those NAPI
\* chooses, which the streams step over wrongly (run SubnetFits).
THEOREM ChecksSuffice == ASSUME LargeSubnets PROVE Spec => SoundUnlessOvertaken
<1>1. Init => SoundInv
  BY InitInv DEF SoundInv, Checked, Init
<1>2. SoundInv /\ [Next]_vars => SoundInv'
  BY SoundStep
<1>3. SoundInv /\ [Next]_vars =>
        [\A r \in Reqs : pc'[r] # pc[r] /\ r \notin overtaken /\ Sound => Sound']_vars
  BY SoundStep
<1> QED
  BY <1>1, <1>2, <1>3, PTL DEF Spec, SoundUnlessOvertaken
-----------------------------------------------------------------------------
(* A virtual network that is full.                                         *)

\* Every two neighbours of a disjoint list can be compared.
LEMMA DisjointCompares == ASSUME NEW list, Disjoint(list) PROVE ~Breaks(list)
<1> SUFFICES ASSUME NEW i \in 1..(Len(list) - 1) PROVE Comparable(list[i], list[i + 1])
  BY DEF Breaks
<1>1. i \in 1..Len(list) /\ i + 1 \in 1..Len(list) /\ i < i + 1
  BY DEF Disjoint
<1>2. Large(list[i]) /\ Large(list[i + 1]) /\ EndOf(list[i]) <= list[i + 1].at
  BY <1>1 DEF Disjoint
<1>3. /\ list[i].at \in Nat /\ list[i + 1].at \in Nat /\ EndOf(list[i]) \in Nat
      /\ list[i].at < EndOf(list[i]) /\ InBlock(list[i].at)
  BY <1>2, LargeIs
<1>4. First <= list[i].at /\ First \in Nat
  BY <1>3, FirstBlock
<1>5. list[i].at < list[i + 1].at /\ list[i + 1].at # First
  BY <1>2, <1>3, <1>4
<1> QED
  BY <1>5 DEF Comparable, Before

LEMMA FullIsFull ==
  ASSUME LargeSubnets, FabricInv, Sound, NEW v \in VnetIds,
         FirstAvailable(Listed(v)) = NoSubnet,
         NEW i \in DOMAIN Blocks, NEW a \in Blocks[i].first..Blocks[i].last, a % PrefixSize = 0
  PROVE  ~Free(Cidr(a, PrefixSize), v)
<1>1. Disjoint(Listed(v))
  BY ListIsDisjoint
<1>2. i \in 1..Len(Blocks) /\ Blocks[i].first \in Nat /\ Blocks[i].last \in Nat
  BY BlockFacts
<1>3. a \in Nat /\ InBlock(a)
  BY <1>2 DEF InBlock
<1>4. PICK k \in 1..Len(Listed(v)) : Listed(v)[k].at <= a /\ a < EndOf(Listed(v)[k])
  BY <1>1, <1>3, NoneIsFree
<1>5. PICK n \in OnVnet(v) : Listed(v)[k] = nets[n].subnet
  <2>1. Listed(v)[k] \in SubnetsOf(v)
    BY OnVnetIs, ListedIs
  <2> QED
    BY <2>1 DEF SubnetsOf
<1> DEFINE t == nets[n].subnet
<1>6. Large(t)
  BY <1>1, <1>5 DEF Disjoint
<1>7. t.at <= a /\ a < EndOf(t)
  BY <1>4, <1>5
<1> HIDE DEF t
<1>8. EndOf(t) \in Nat /\ LastOf(t) = EndOf(t) - 1
  BY <1>6, LargeIs
<1>9. a <= LastOf(t)
  BY <1>3, <1>7, <1>8
<1>10. Cidr(a, PrefixSize).at = a
  BY <1>3 DEF Cidr
<1>11. ~(~(t.at <= Cidr(a, PrefixSize).at /\ Cidr(a, PrefixSize).at <= LastOf(t)))
  BY <1>7, <1>9, <1>10
<1> QED
  BY <1>11 DEF Free, t

LEMMA ExhaustedIsFull ==
  ASSUME LargeSubnets, FabricInv, [Next]_vars, NEW r \in Reqs,
         pc[r] = "choose", pc'[r] = "idle", ask[r].subnet = NoSubnet, got[r].vnet # 0, Sound
  PROVE  FirstAvailable(Listed(got[r].vnet)) = NoSubnet
<1>1. ~UNCHANGED vars
  BY DEF vars
<1>2. PICK q \in Reqs : (\E a \in Asks[q] : Start(q, a)) \/ Calling(q)
  BY <1>1 DEF Next, Calling
<1>4. q = r
  BY <1>2, MovesOne DEF Others
<1>5. Allocate(r)
  BY <1>2, <1>4 DEF Calling, Start, GetFabric, PutVlan, GetVlan, UpdateVlan, ListNets, DelVlan,
                    Validate, PutNet, DelNet
<1>6. \A s : ~Picks(r, s)
  BY PicksIs
<1>7. got[r].vnet \in VnetIds
  BY DEF FabricInv, ReqOK, Vlan
<1>8. ~Breaks(Listed(got[r].vnet))
  BY <1>7, ListIsDisjoint, DisjointCompares
<1> QED
  BY <1>5, <1>6, <1>8 DEF Allocate

\* SubnetsExhausted is answered only when every aligned subnet of the prefix, in every
\* private block, overlaps a network: the streams miss no gap, not between two blocks
\* nor beside a subnet of another size, for any blocks and any set of networks.
THEOREM ExhaustionIsReal == ASSUME LargeSubnets PROVE Spec => ExhaustedMeansFull
<1>1. FabricInv /\ [Next]_vars =>
        [\A r \in Reqs :
           /\ pc[r] = "choose" /\ pc'[r] = "idle" /\ ask[r].subnet = NoSubnet
           /\ got[r].vnet # 0 /\ Sound
           => \A i \in DOMAIN Blocks : \A a \in Blocks[i].first..Blocks[i].last :
                a % PrefixSize = 0 => ~Free(Cidr(a, PrefixSize), got[r].vnet)]_vars
  <2> SUFFICES ASSUME FabricInv, [Next]_vars, NEW r \in Reqs,
                      pc[r] = "choose", pc'[r] = "idle", ask[r].subnet = NoSubnet,
                      got[r].vnet # 0, Sound,
                      NEW i \in DOMAIN Blocks, NEW a \in Blocks[i].first..Blocks[i].last,
                      a % PrefixSize = 0
               PROVE  ~Free(Cidr(a, PrefixSize), got[r].vnet)
    OBVIOUS
  <2>1. got[r].vnet \in VnetIds
    BY DEF FabricInv, ReqOK, Vlan
  <2> QED
    BY <2>1, ExhaustedIsFull, FullIsFull
<1> QED
  BY <1>1, FabricInvariant, PTL DEF Spec, ExhaustedMeansFull

\* The gaps that subnet-streams.js finds are gaps, and the subnets it chooses in them are
\* available, if no subnet is smaller than the prefix: only smaller ones make it choose
\* a subnet that is in use (run SubnetFits).
THEOREM ChoicesAreFree == ASSUME LargeSubnets PROVE Spec => ChosenIsFree
<1>1. FabricInv /\ [Next]_vars =>
        [\A r \in Reqs : pc[r] = "choose" /\ pc'[r] = "putNet" /\ Sound
           => \A n \in OnVnet(got[r].vnet) : ~Overlap(pick'[r], nets[n].subnet)]_vars
  <2> SUFFICES ASSUME FabricInv, Next, NEW r \in Reqs,
                      pc[r] = "choose", pc'[r] = "putNet", Sound,
                      NEW n \in OnVnet(got[r].vnet)
               PROVE  ~Overlap(pick'[r], nets[n].subnet)
    BY DEF vars
  <2>1. PICK q \in Reqs : (\E a \in Asks[q] : Start(q, a)) \/ Calling(q)
    BY DEF Next, Calling
  <2>3. q = r
    BY <2>1, MovesOne DEF Others
  <2>4. Validate(r) \/ Allocate(r)
    BY <2>1, <2>3 DEF Calling, Start, GetFabric, PutVlan, GetVlan, UpdateVlan, ListNets, DelVlan,
                      PutNet, DelNet
  <2>5. ~Fails(r)
    BY FailsIs
  <2>6. PICK s : /\ Picks(r, s)
                 /\ \/ s = FirstAvailable(Listed(got[r].vnet)) /\ s # NoSubnet
                    \/ s = ask[r].subnet /\ s # NoSubnet /\ Free(s, got[r].vnet)
    BY <2>4, <2>5 DEF Validate, Allocate
  <2>7. got[r].vnet \in VnetIds /\ ask[r].subnet \in Subnets \cup {NoSubnet}
    BY AskIs DEF FabricInv, ReqOK, Vlan
  <2>8. ~Overlap(s, nets[n].subnet)
    BY <2>6, <2>7, ChoiceIsFree, FreeIsFree
  <2> QED
    BY <2>6, <2>8, PicksIs
<1> QED
  BY <1>1, FabricInvariant, PTL DEF Spec, ChosenIsFree
=============================================================================
