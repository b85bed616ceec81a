---------------------------- MODULE MCDiscovery ----------------------------
(* An instance of Discovery for TLC: two switches that may see one host at  *)
(* different ports, and an intruder that takes its address.                 *)
EXTENDS Discovery

CONSTANTS s1, s2, host, thief, port1, port2, p1, p2

At(m, port) == [mac |-> m, ip |-> 1, port |-> port]
\* The host at the first switch; at the second, which is configured some time
\* later; both hosts, one at each.
MCNets == {[d \in Devices |-> IF d = s1 THEN {At(host, port1)} ELSE {}],
           [d \in Devices |-> IF d = s1 THEN {} ELSE {At(host, port2)}],
           [d \in Devices |-> IF d = s1 THEN {At(host, port1)} ELSE {At(thief, port2)}]}
MCFirst == {[d \in Devices |-> IF d = s1 THEN {At(host, port1)} ELSE {}]}
=============================================================================
