----------------------------- MODULE IpRequests -----------------------------
(***************************************************************************)
(* The approval workflow (api/ip_requests.py) on top of Allocation: users  *)
(* ask for an address, operators approve, deny or delete what was asked.   *)
(*                                                                         *)
(* An approval reads the request, lets _do_allocate run and commit, and    *)
(* only then marks the request approved, in a second transaction.  Denials *)
(* and deletions read and commit too.  The request is not locked.          *)
(***************************************************************************)
EXTENDS Allocation

CONSTANTS
    Asked,          \* requests for an address
    Wanted,         \* the hostname each asks for
    Approvals,      \* bodies an approval may make of a hostname
    MaxUpsets,      \* bound: edits, faults, restarts and discoveries
    NoAsk

ASSUME AskedAssumption ==
    /\ Wanted \in [Asked -> Host] /\ NoAsk \notin Asked
    /\ Approvals \in [Host -> SUBSET Bodies]
    /\ \A h \in Host : \A b \in Approvals[h] : b.host = h
ASSUME UpsetsAssumption == MaxUpsets \in Nat

VARIABLES
    ask,    \* ip_requests rows: status and allocated_ip
    reviewed,   \* the request that a call of _do_allocate is made for
    closed,     \* calls whose approval has ended
    desk,       \* a denial or deletion that has read its request
    doubt       \* history: requests with overlapping or broken decisions

asks == <<ask, reviewed, closed, desk, doubt>>
allVars == <<vars, asks>>
NoDesk == [act |-> "none", q |-> NoAsk]

Allocating == {reviewed[r] : r \in Request \ closed} \ {NoAsk}
\* Mutant: the status is not looked at.
IsThere(q) == ask[q].status \notin {"none", "gone"}
Decidable(q) == ask[q].status = "pending"

-----------------------------------------------------------------------------
\* submit_request: one pending request per hostname.  (The requests are those
\* of one user; the check and the insert are one step.)
Submit(q) ==
    /\ ask[q].status = "none"
    /\ \A p \in Asked : Wanted[p] = Wanted[q] => ask[p].status # "pending"
    /\ ask' = [ask EXCEPT ![q].status = "pending"]
    /\ UNCHANGED <<vars, reviewed, closed, desk, doubt>>

\* approve_request up to _do_allocate, which goes on like any allocation.
Approve(r, q) ==
    /\ Decidable(q)
    /\ reviewed[r] = NoAsk
    /\ Start(r)
    /\ body'[r] \in Approvals[Wanted[q]]
    /\ reviewed' = [reviewed EXCEPT ![r] = q]
    /\ doubt' = IF q \in Allocating \cup {desk.q} THEN doubt \cup {q} ELSE doubt
    /\ UNCHANGED <<ask, closed, desk>>

\* approve_request after _do_allocate has returned: the update fails if the
\* request is gone.
Returned(r) == reviewed[r] # NoAsk /\ r \notin closed /\ pc[r] = "answered"
MarkApproved(r) ==
    LET q == reviewed[r] IN
    /\ Returned(r)
    /\ closed' = closed \cup {r}
    /\ ask' = IF code[r] \in {200, 201} /\ IsThere(q)
              THEN [ask EXCEPT ![q] = [status |-> "approved", ip |-> addr[r]]]
              ELSE ask
    /\ UNCHANGED <<vars, reviewed, desk, doubt>>

\* The second commit fails, or the process dies before it: the allocation is
\* there to stay.
MarkFails(r) ==
    /\ Returned(r) /\ code[r] \in {200, 201}
    /\ faults < MaxFaults
    /\ faults' = faults + 1
    /\ closed' = closed \cup {r}
    /\ doubt' = doubt \cup {reviewed[r]}
    /\ UNCHANGED <<table, providers, pc, local, code, history, edits, crashes, ask, reviewed, desk>>

\* deny_request and delete_request read the request.
Read(act, q) ==
    /\ desk = NoDesk
    /\ IF act = "deny" THEN Decidable(q) ELSE IsThere(q)
    /\ desk' = [act |-> act, q |-> q]
    /\ doubt' = IF q \in Allocating THEN doubt \cup {q} ELSE doubt
    /\ UNCHANGED <<vars, ask, reviewed, closed>>

Settle ==
    /\ desk # NoDesk
    /\ ask' = IF ~IsThere(desk.q) THEN ask
                  ELSE [ask EXCEPT ![desk.q].status = IF desk.act = "deny" THEN "denied" ELSE "gone"]
    /\ desk' = NoDesk
    /\ UNCHANGED <<vars, reviewed, closed, doubt>>

\* A restart ends the decisions under way with the allocations.
Restart ==
    /\ Crash
    /\ closed' = {r \in Request : reviewed[r] # NoAsk}
    /\ desk' = NoDesk
    /\ doubt' = doubt \cup Allocating
    /\ UNCHANGED <<ask, reviewed>>

-----------------------------------------------------------------------------
AskInit ==
    /\ Init
    /\ ask = [q \in Asked |-> [status |-> "none", ip |-> NoAddr]]
    /\ reviewed = [r \in Request |-> NoAsk]
    /\ closed = {}
    /\ desk = NoDesk
    /\ doubt = {}

\* Bounded together: edits, faults, restarts and discovered hosts.
Discovered == {a \in Addr : row[a] # NoRow /\ row[a].status = "discovered"}
Upsets == edits + faults + crashes + Cardinality(Discovered)

AskNext ==
    /\ \/ \E r \in Request : Step(r) /\ UNCHANGED asks
       \/ \E a \in Addr : (EditRow(a) \/ Reclaim(a) \/ Discover(a)) /\ UNCHANGED asks
       \/ \E q \in Asked : Submit(q) \/ \E r \in Request : Approve(r, q)
       \/ \E r \in Request : MarkApproved(r) \/ MarkFails(r)
       \/ \E q \in Asked, act \in {"deny", "delete"} : Read(act, q)
       \/ Settle
       \/ Restart
    /\ Upsets' <= MaxUpsets

AskSpec == AskInit /\ [][AskNext]_allVars

-----------------------------------------------------------------------------
(* Properties.                                                             *)

\* The workflow and the table agree: an approved request names an address that
\* has its hostname, and a request that is pending or denied was allocated
\* nothing.  Excepted are requests whose decisions overlapped or broke off
\* between the two commits, and addresses edited or taken over since.
RequestsMatchTable ==
    \A q \in Asked \ doubt :
        /\ ask[q].status = "approved" =>
              /\ row[ask[q].ip] # NoRow
              /\ row[ask[q].ip].host = Wanted[q] \/ ask[q].ip \in edited \cup TakenOver
        /\ ask[q].status \in {"pending", "denied"} =>
              ~\E r \in closed : reviewed[r] = q /\ code[r] = 201
=============================================================================
