--------------------------- MODULE MCRecordEdits ---------------------------
(* Instances of RecordEdits for TLC: two IPs in two reverse zones, or one   *)
(* of them in none, two scopes, two hostnames.                              *)
EXTENDS RecordEdits

CONSTANTS x, y, fwd, rev1, rev2, sc1, sc2, r1, r2

R(k, n, ip) == [kind |-> k, name |-> n, ip |-> ip]
Q(k, old, new, f) == [kind |-> k, old |-> old, new |-> new, follow |-> f, host |-> None]

MCRevZone == [ip \in IPs |-> IF ip = 1 THEN rev1 ELSE rev2]
MCScopeOf == [ip \in IPs |-> IF ip = 1 THEN sc1 ELSE sc2]
MCOffered == [z \in Scopes |-> IF z = sc1 THEN {r1} ELSE {r2}]

\* IP 1 is registered; IP 2 has a lease that IPAM does not know yet.
Known == {R("A", x, 1), R("PTR", x, 1), R("lease", y, 2)}
MCWorlds ==
    {[remote |-> Known, cached |-> Known, manual |-> {r1},
      addr |-> [ip \in IPs |->
          IF ip = 1 THEN [name |-> x, dns |-> TRUE, dhcp |-> FALSE, ptr |-> TRUE] ELSE None]]}
MCEdits == {R("A", y, 1)}
MCRequests ==
    {Q("create", R("A", y, 2), R("A", y, 2), TRUE),
     Q("update", R("A", x, 1), R("A", y, 1), TRUE),
     Q("update", R("A", x, 1), R("A", x, 2), TRUE),
     Q("delete", R("A", x, 1), R("A", x, 1), TRUE),
     Q("reserve", R("lease", y, 1), R("lease", y, 1), TRUE),
     Q("rename", R("lease", y, 2), R("lease", x, 2), FALSE),
     Q("release", R("lease", y, 2), R("lease", y, 2), FALSE),
     Q("add address", R("A", x, 2), R("A", x, 2), FALSE),
     Q("edit address", R("A", x, 1), R("A", x, 1), FALSE),
     Q("drop address", R("A", x, 1), R("A", x, 1), FALSE)}
=============================================================================
