--------------------------- MODULE MCAggregations ---------------------------
EXTENDS Aggregations, TLC

CONSTANTS s1, s2, vm, m1, m2, m3

Homes == [m \in {m1, m2, m3} |-> IF m = m1 THEN s1 ELSE s2]

Id(s) == <<s, "aggr0">>
Create(macs) ==
  [op |-> "create", id |-> Id(s1), macs |-> macs, lacp |-> "none", match |-> FALSE]
Update(s, macs, lacp, match) ==
  [op |-> "update", id |-> Id(s), macs |-> macs, lacp |-> lacp, match |-> match]
Delete(s, match) ==
  [op |-> "delete", id |-> Id(s), macs |-> {}, lacp |-> "none", match |-> match]

\* The third update takes aggr0 of s1 to s2.
MCAsks ==
  { Create({m1}), Update(s1, {}, "active", FALSE), Update(s1, {m1, m3}, "none", FALSE),
    Update(s1, {m2}, "off", TRUE), Delete(s1, FALSE) }

Perms == Permutations(Reqs)
=============================================================================
