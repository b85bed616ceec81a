---------------------------- MODULE MCAllocation ----------------------------
(* Instances of Allocation for TLC.                                        *)
EXTENDS Allocation, FiniteSetsExt

CONSTANTS r1, r2, r3, web, db, lan

\* The pool is the last address.
MCWindow == [p \in {lan} |-> {Max(Addr)}]

Plain(h)  == [host |-> h, mac |-> FALSE, dns |-> FALSE, ptr |-> FALSE, dhcp |-> FALSE,
              pool |-> NoPool]
Full(h)   == [host |-> h, mac |-> TRUE, dns |-> TRUE, ptr |-> TRUE, dhcp |-> TRUE,
              pool |-> NoPool]
InPool(h) == [Plain(h) EXCEPT !.pool = lan]

Existing(s, h) == [status |-> s, host |-> h, mac |-> FALSE, dns |-> FALSE,
                   ptr |-> FALSE, dhcp |-> FALSE, ours |-> TRUE]
Nothing == [a \in Addr |-> NoRow]

MCPlainBodies == {Plain(web), Plain(db)}

\* Nobody has ever marked a row available.
MCFresh == {Nothing, [Nothing EXCEPT ![2] = Existing("assigned", NoHost)],
            [Nothing EXCEPT ![2] = Existing("deprecated", web)]}
\* Two free addresses, or one.
MCContended == {Nothing, [Nothing EXCEPT ![2] = Existing("deprecated", web)]}
=============================================================================
