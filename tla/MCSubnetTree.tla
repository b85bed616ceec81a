---------------------------- MODULE MCSubnetTree ----------------------------
(* An instance of SubnetTree for TLC: a network, two subnets of one CIDR    *)
(* that is written in two ways, and one below; two administrators, a scoped *)
(* user and a group.                                                        *)
EXTENDS SubnetTree

CONSTANTS top, a, b, leaf, ann, bob, eve, grp

MCNet == [s \in Subnets |-> IF s = top THEN {1, 2, 3} ELSE IF s = leaf THEN {1} ELSE {1, 2}]

W(lo, hi, name) == [lo |-> lo, hi |-> hi, name |-> name]
Blank == [kind |-> "none", by |-> ann, on |-> None, to |-> None, ip |-> None, win |-> None,
          who |-> None, group |-> None, perm |-> "view", role |-> "scoped"]
Q(kind, by, on) == [Blank EXCEPT !.kind = kind, !.by = by, !.on = on]

MCWorlds ==
    {[parent |-> [s \in Subnets |-> IF s = top THEN None ELSE IF s = a THEN top
                                    ELSE IF s = leaf THEN a ELSE tied],
      adrift |-> {}, home |-> [ip \in IPs |-> IF ip = 1 THEN leaf ELSE None], windows |-> {},
      grants |-> {[id |-> 90, subnet |-> a, who |-> grp, perm |-> "manage", stale |-> FALSE],
                  [id |-> 91, subnet |-> top, who |-> eve, perm |-> "view", stale |-> FALSE]},
      role |-> [u \in Users |-> IF u = eve THEN "scoped" ELSE "admin"], enabled |-> Users,
      groups |-> {grp}, members |-> {<<grp, eve>>}] : tied \in {top, Absent}}

TreeRequests ==
    {[Q("move subnet", eve, a) EXCEPT !.to = b], [Q("move subnet", bob, b) EXCEPT !.to = a],
     [Q("move subnet", eve, b) EXCEPT !.to = a],
     [Q("move subnet", eve, leaf) EXCEPT !.to = top], [Q("move subnet", eve, a) EXCEPT !.to = leaf],
     [Q("add subnet", ann, b) EXCEPT !.to = leaf], [Q("add subnet", ann, b) EXCEPT !.to = a],
     Q("drop subnet", eve, leaf), Q("drop subnet", ann, b),
     [Q("add address", eve, leaf) EXCEPT !.ip = 1], [Q("add address", bob, b) EXCEPT !.ip = 2],
     [Q("drop address", eve, leaf) EXCEPT !.ip = 1]}
WindowRequests ==
    {[Q("add range", eve, a) EXCEPT !.win = W(1, 1, "none")],
     [Q("add range", bob, a) EXCEPT !.win = W(1, 2, "none")], Q("drop range", eve, a),
     [Q("add pool", eve, a) EXCEPT !.win = W(1, 2, "linux")],
     [Q("add pool", bob, a) EXCEPT !.win = W(2, 2, "windows")],
     [Q("edit pool", bob, a) EXCEPT !.win = W(1, 1, "windows")],
     [Q("edit pool", eve, a) EXCEPT !.win = W(2, 2, "linux")], Q("drop pool", eve, a)}
AccountRequests ==
    {[Q("grant", ann, b) EXCEPT !.who = eve, !.perm = "manage"],
     [Q("grant", bob, b) EXCEPT !.who = eve], Q("revoke", ann, None),
     [Q("add group", ann, None) EXCEPT !.group = grp],
     [Q("drop group", bob, None) EXCEPT !.group = grp],
     [Q("join", ann, None) EXCEPT !.group = grp, !.who = eve],
     [Q("leave", ann, None) EXCEPT !.group = grp, !.who = eve],
     [Q("add user", ann, None) EXCEPT !.who = bob], [Q("drop user", ann, None) EXCEPT !.who = bob],
     [Q("set role", bob, None) EXCEPT !.who = ann], [Q("set role", ann, None) EXCEPT !.who = ann],
     [Q("enable", ann, None) EXCEPT !.who = bob], [Q("disable", ann, None) EXCEPT !.who = bob]}
MCRequests == TreeRequests \cup WindowRequests \cup AccountRequests
=============================================================================
