------------------------------ MODULE MCDrift ------------------------------
(* One address in a subnet p and in its nested subnet c, a third subnet q   *)
(* that does not contain it; the scan thread, the sync thread, the API.     *)
EXTENDS Drift, TLC

CONSTANTS p, c, q, i, h1, h2, m1, m2, A, B, scanner, syncer

MCBlock == [s \in {p, c, q} |-> IF s = q THEN {} ELSE {i}]
MCDuty == [t \in {scanner, syncer} |->
    IF t = scanner THEN {<<p, TRUE>>, <<q, TRUE>>, <<All, FALSE>>} ELSE {<<All, TRUE>>}]

Row(s, st, h, m) == [sub |-> s, status |-> st, host |-> h, mac |-> m]
MCAddrRows == {Row(c, "assigned", h1, m1)}
Held(dns, ptr, lease) == [dns |-> dns, ptr |-> ptr, lease |-> lease]
Rec(s, h) == [src |-> s, name |-> h]
Lease(s, h, m) == [src |-> s, name |-> h, mac |-> m]
Normal == Held({Rec(A, h1)}, h1, {Lease(A, h1, m1)})
Double == Held({Rec(A, h1), Rec(B, h2)}, h2, {Lease(A, h1, m1), Lease(B, h2, m1)})
Bare == Held({}, None, {})
MCRealRows == {Bare, Double}
World(a, r, pol) == [addr |-> [ip \in {i} |-> a], real |-> [ip \in {i} |-> r], policy |-> pol]
AutoAll == [x \in SAFE_CATEGORIES \X {All} |-> "auto"]
Mixed == (<<"mac_mismatch", c>> :> "review") @@ (<<"orphan_dns", All>> :> "provider")
MCWorlds == {World(None, Normal, AutoAll), World(Row(c, "available", h2, m2), Normal, Mixed),
             World(Row(c, "available", h2, m2), Normal, AutoAll)}
MCBulks == {<<<<i, "orphan_dns">>, <<i, "orphan_dhcp">>>>}
MCPolicyEdits == {<<"hostname_mismatch", All, "provider">>, <<"mac_mismatch", c, "dry">>}
=============================================================================
