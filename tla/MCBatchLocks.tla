---------------------------- MODULE MCBatchLocks ----------------------------
EXTENDS BatchLocks

CONSTANTS v1, v2, r1, r2, r3

Ip(k) == [bucket |-> 0, key |-> k]
Net   == [bucket |-> NetBucket, key |-> 1]

Update(m, v, p, ips) ==
  [op |-> "update", mac |-> m, vm |-> v, primary |-> p, ips |-> ips, net |-> <<>>]
Create(m, v, p) ==
  [op |-> "create", mac |-> m, vm |-> v, primary |-> p, ips |-> <<Ip(m)>>, net |-> <<Net>>]
Delete(m) ==
  [op |-> "delete", mac |-> m, vm |-> v1, primary |-> "no", ips |-> <<Ip(m)>>, net |-> <<Net>>]

\* 1 and 2 are NICs of v1, 3 is one of v2 or not there yet.
Homes == [m \in 1..3 |-> CASE m = 1 -> [vm |-> v1, primary |-> TRUE]
                          [] m = 2 -> [vm |-> v1, primary |-> FALSE]
                          [] m = 3 -> [vm |-> v2, primary |-> TRUE]]

\* 1 and 2 want each other's address, or to be primary; one request at a time
\* brings 3 to v1.
MCAsks == [r \in Reqs |->
  CASE r = r1 -> {Update(1, v1, "yes", <<Ip(1)>>), Update(1, v1, "keep", <<Ip(2), Ip(1)>>)}
    [] r = r2 -> {Update(2, v1, "yes", <<Ip(2)>>), Update(2, v1, "keep", <<Ip(1), Ip(2)>>)}
    [] r = r3 -> {Create(3, v1, "yes"), Delete(3)}]
=============================================================================
