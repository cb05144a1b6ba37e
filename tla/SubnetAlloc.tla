----------------------------- MODULE SubnetAlloc -----------------------------
(***************************************************************************)
(* Which subnet NAPI chooses for a fabric network: lib/util/autoalloc.js   *)
(* and the streams of lib/util/subnet-streams.js, of which createNetwork   *)
(* reads the first element.                                                *)
(*                                                                         *)
(* An address is a number; a subnet is where it starts and how many        *)
(* addresses it has, a power of two that divides the start.                *)
(***************************************************************************)
EXTENDS Integers, Sequences, FiniteSetsExt

CONSTANTS
  Blocks,     \* the private blocks, ascending: <<10/8, 172.16/12, 192.168/16>>
  PrefixSize  \* addresses of a subnet with subnet_prefix, which is always 24

NoSubnet == [at |-> 0, size |-> 0]

LastOf(s)     == s.at + s.size - 1
Inside(s, b)  == b.first <= s.at /\ LastOf(s) <= b.last
Overlap(s, t) == s.at <= LastOf(t) /\ t.at <= LastOf(s)

\* isRFC1918
IsPrivate(s) == \E i \in DOMAIN Blocks : Inside(s, Blocks[i])

ASSUME SubnetPrefix == PrefixSize \in Nat \ {0}
ASSUME SubnetBlocks ==
  /\ Blocks \in Seq([first : Nat \ {0}, last : Nat]) /\ Blocks # <<>>
  /\ \A i \in DOMAIN Blocks :
       /\ Blocks[i].first <= Blocks[i].last
       /\ Blocks[i].first % PrefixSize = 0 /\ (Blocks[i].last + 1) % PrefixSize = 0
  /\ \A i, j \in DOMAIN Blocks : i < j => Blocks[i].last + 1 < Blocks[j].first

\* createCIDR: the address is masked.
Cidr(a, size) == [at |-> a - (a % size), size |-> size]

First == Blocks[1].first
Bounds == 1..(Len(Blocks) - 1)

\* The address before one of a block, and the gaps between the blocks left out.
PreviousAddr(a) ==
  IF \E i \in Bounds : a = Blocks[i + 1].first
  THEN Blocks[CHOOSE i \in Bounds : a = Blocks[i + 1].first].last
  ELSE a - 1

\* compare: by address, and of two with one address the larger subnet first.
Before(s, t) == s.at < t.at \/ (s.at = t.at /\ s.size > t.size)

SubnetsAdjacent(s, t) ==
  LET a == PreviousAddr(t.at) IN s.at <= a /\ a <= LastOf(s)

\* What subnetsAdjacent asserts of its arguments, or previousAddr throws.
Comparable(s, t) == Before(s, t) /\ t.at # First

Adjusted(s) == Cidr(s.at, IF s.size > PrefixSize THEN s.size ELSE PrefixSize)

\* Mutant: a larger subnet is not stepped over as a whole.
IncrementInside(s) ==
  LET a == LastOf(Cidr(s.at, PrefixSize)) + 1
  IN  IF a = Blocks[Len(Blocks)].last + 1 THEN NoSubnet
      ELSE IF \E i \in Bounds : a = Blocks[i].last + 1
      THEN Cidr(Blocks[1 + CHOOSE i \in Bounds : a = Blocks[i].last + 1].first, PrefixSize)
      ELSE Cidr(a, PrefixSize)

IncrementSubnet(s) ==
  LET a == LastOf(Adjusted(s)) + 1
  IN  IF a = Blocks[Len(Blocks)].last + 1 THEN NoSubnet
      ELSE IF \E i \in Bounds : a = Blocks[i].last + 1
      THEN Cidr(Blocks[1 + CHOOSE i \in Bounds : a = Blocks[i].last + 1].first, PrefixSize)
      ELSE Cidr(a, PrefixSize)

\* Mutant: no way back from one block to the one before it.
DecrementInBlock(s) ==
  LET a == Adjusted(s).at
  IN  IF \E i \in DOMAIN Blocks : a = Blocks[i].first THEN NoSubnet
      ELSE Cidr(a - 1, PrefixSize)

DecrementSubnet(s) ==
  LET a == Adjusted(s).at
  IN  IF a = First THEN NoSubnet ELSE Cidr(PreviousAddr(a), PrefixSize)

\* The pairs of the stream: each subnet with its successor, or the only one.
Successor(list, i) == list[IF Len(list) = 1 THEN 1 ELSE i + 1]
Pairs(list)        == IF Len(list) = 1 THEN {1} ELSE 1..(Len(list) - 1)

\* Where the first step from a pair's first subnet is pushed as available.
Gap(list, i) ==
  /\ Len(list) = 1 \/ ~SubnetsAdjacent(list[i], list[i + 1])
  /\ IncrementSubnet(list[i]) \notin {NoSubnet, Successor(list, i)}

\* The first element of the stream: in the first gap, else before all subnets,
\* else after them.
FirstAvailable(list) ==
  LET gaps == {i \in Pairs(list) : Gap(list, i)}
  IN  IF list = <<>> THEN Cidr(First, PrefixSize)
      ELSE IF gaps # {} THEN IncrementSubnet(list[Min(gaps)])
      ELSE IF DecrementSubnet(list[1]) # NoSubnet THEN DecrementSubnet(list[1])
      ELSE IncrementSubnet(list[Len(list)])

\* A pair the streams cannot compare ends them with an exception.
Breaks(list) == \E i \in 1..(Len(list) - 1) : ~Comparable(list[i], list[i + 1])
=============================================================================
