---------------------------- MODULE MCIpRequests ----------------------------
(* An instance of IpRequests for TLC: direct allocations and approvals of   *)
(* one request, for two hosts.                                              *)
EXTENDS MCAllocation, IpRequests, TLC

CONSTANTS q1, q2

MCWanted == [q \in Asked |-> web]
\* An approval names no pool.
MCApprovals == [h \in Host |-> {Full(h)} \cap Bodies]
\* Everything registered, or nothing and an address of the pool.
MCAskBodies == {Full(web), Full(db), InPool(web)}
MCSymmetry == Permutations(Request)
=============================================================================
