------------------------------ MODULE MCGitops ------------------------------
(* An instance of Gitops for TLC: a subnet within another, each with one   *)
(* row, and two sources that may list the same rows.                       *)
EXTENDS Gitops

CONSTANTS w1, w2, A, B, v, top, low, rng, web, db1

MCHome == [k \in Ranges \cup Hosts |-> IF k = web THEN top ELSE low]
MCPrefixLen == [s \in Subnets |-> IF s = top THEN 16 ELSE 24]

NoUp == [s \in Subnets |-> Unset]
Under(x) == [NoUp EXCEPT ![low] = x]
D(src, ks, u) == [source |-> src, keys |-> ks, up |-> u]

\* The whole tree; the same without the outer subnet; with a null parent and
\* without the first allocation; nothing but a vlan; an allocation in a subnet
\* that is not listed; another source that takes the inner subnet over.
MCDocs ==
    {D(A, Key, Under(top)),
     D(A, {low, rng, db1}, Under(top)),
     D(A, {top, low, rng, db1}, Under(Null)),
     D(A, {v}, NoUp),
     D(A, {low, web}, NoUp),
     D(B, {low, db1}, NoUp)}

Rows(ks) == [present |-> ks, tag |-> [k \in Key |-> Nobody], up |-> [s \in Subnets |-> NoParent]]
MCFirstRows ==
    {Rows({low}),
     [present |-> Key, tag |-> [k \in Key |-> A],
      up |-> [s \in Subnets |-> IF s = low THEN top ELSE NoParent]]}
MCEditable == {low, web}
=============================================================================
