----------------------------- MODULE Allocation -----------------------------
(***************************************************************************)
(* POST /subnets/{id}/allocate (api/allocation.py, _do_allocate): requests *)
(* that claim the next free address of one subnet, register it with the    *)
(* DNS and DHCP providers, and commit the row, or undo what they did.      *)
(*                                                                         *)
(* Every request runs in its own thread with its own transaction.  A query *)
(* sees committed rows only.  The flush of a request takes the lock of the *)
(* row it updates, or of the unique address it inserts, and holds it until *)
(* commit or rollback, the provider calls included; a flush that finds the *)
(* lock taken waits.  The ORM writes the columns whose value differs from  *)
(* the one it loaded (Flushed), and raises when the row is gone or the     *)
(* address is already there.                                               *)
(*                                                                         *)
(* Other writers of the table appear as single steps: the operator's edit  *)
(* of a row and the scan that records a host it discovered.                *)
(***************************************************************************)
EXTENDS Integers, FiniteSets

CONSTANTS
    Request,        \* allocation requests, each made once
    Host,           \* hostnames, in lower case
    Addr,           \* the host addresses of the subnet, as integers
    Skipped,        \* .1, .255 and the addresses of reserved ranges
    Pool,           \* allocation pools of the subnet
    Window,         \* the addresses of each pool
    Bodies,         \* request bodies a client may send
    InitialRows,    \* address tables to start from
    EditStatuses,   \* statuses an operator sets (PUT /addresses/{id})
    MaxEdits,       \* bound: edits by operators
    MaxFaults,      \* bound: lost answers, failed undo steps, failed commits
    MaxCrashes,     \* bound: process restarts
    NoHost, NoPool, NoRow, NoAddr, Nobody

Status == {"available", "reserved", "assigned", "deprecated", "discovered"}
Ineligible == {"reserved", "assigned", "deprecated", "discovered"}

\* An ip_addresses row; dns, ptr and dhcp tell whether dns_provider,
\* ptr_zone and dhcp_provider are set, ours whether it is recorded under this
\* subnet or under one nested with it.
Row == [status : Status, host : Host \cup {NoHost}, mac : BOOLEAN,
        dns : BOOLEAN, ptr : BOOLEAN, dhcp : BOOLEAN, ours : BOOLEAN]
Body == [host : Host, mac : BOOLEAN, dns : BOOLEAN, ptr : BOOLEAN,
         dhcp : BOOLEAN, pool : Pool \cup {NoPool}]
Code == {201, 200, 409, 422, 500, 502}

ASSUME ModelAssumption ==
    /\ Addr \subseteq Nat /\ IsFiniteSet(Addr)
    /\ Skipped \subseteq Addr
    /\ Window \in [Pool -> SUBSET Addr]
    /\ Bodies \subseteq Body /\ Bodies # {}
    /\ InitialRows \subseteq [Addr -> Row \cup {NoRow}]
    /\ EditStatuses \subseteq Status
    /\ MaxEdits \in Nat /\ MaxFaults \in Nat /\ MaxCrashes \in Nat
ASSUME NamesAssumption ==
    /\ NoHost \notin Host /\ NoPool \notin Pool /\ NoRow \notin Row
    /\ NoAddr \notin Addr /\ Nobody \notin Request

VARIABLES
    row,        \* committed ip_addresses rows of the subnet
    holder,     \* the request whose open transaction has flushed this address
    forward,    \* A/AAAA records at the DNS provider: <<host, address>>
    reverse,    \* PTR records: <<host, address>>
    lease,      \* DHCP reservations: <<host, address>>
    pc,         \* where each request is
    body,       \* what it asked for
    addr,       \* the address it works on
    isNew,      \* no row had the hostname
    loaded,     \* that row as the session loaded it
    registered, \* provider writes that succeeded: "dns", "ptr", "dhcp"
    code,       \* the HTTP status it was answered with
    edited,     \* history: addresses an operator has edited
    known,      \* history: addresses its host already had when it began
    blemished,  \* history: <<host, address>> a fault left in doubt
    edits, faults, crashes

table     == <<row, holder>>
providers == <<forward, reverse, lease>>
local     == <<body, addr, isNew, loaded, registered>>
history   == <<edited, known, blemished>>
bounds    == <<edits, faults, crashes>>
vars == <<table, providers, pc, local, code, history, bounds>>

Goto(r, label) == pc' = [pc EXCEPT ![r] = label]
Flushed(was, new, inDb) == IF new = was THEN inDb ELSE new
Release(r) == holder' = [a \in Addr |-> IF holder[a] = r THEN Nobody ELSE holder[a]]

\* The request is answered with status c.
Answer(r, c) ==
    /\ Goto(r, "answered")
    /\ code' = [code EXCEPT ![r] = c]

-----------------------------------------------------------------------------
(* Choosing the address.                                                   *)

Start(r) ==
    /\ pc[r] = "new"
    /\ \E b \in Bodies :
        /\ body' = [body EXCEPT ![r] = b]
        /\ known' = [known EXCEPT ![r] = {addr[q] : q \in
                        {q \in Request : code[q] \in {200, 201} /\ body[q].host = b.host}}]
        /\ IF b.ptr /\ ~b.dns
           THEN Answer(r, 422)
           ELSE Goto(r, "check") /\ UNCHANGED code
    /\ UNCHANGED <<table, providers, addr, isNew, loaded, registered, edited,
                   blemished, bounds>>

\* A row of the subnet that already has the hostname.
\* Mutant: only assigned rows are looked at.
HasNameAssigned(a, h) ==
    row[a] # NoRow /\ row[a].ours /\ row[a].host = h /\ row[a].status = "assigned"
HasName(a, h) ==
    row[a] # NoRow /\ row[a].ours /\ row[a].host = h /\ row[a].status # "deprecated"

Adopt(r, a) ==
    /\ addr' = [addr EXCEPT ![r] = a]
    /\ isNew' = [isNew EXCEPT ![r] = FALSE]
    /\ loaded' = [loaded EXCEPT ![r] = row[a]]

\* The addresses a body admits (ip_in_pool, pool_bounds).
Admitted(b) == IF b.pool = NoPool THEN Addr ELSE Window[b.pool]

\* The existing-check.  A missing MAC is filled in and flushed at once.
CheckExisting(r) ==
    LET b == body[r]
        found == {a \in Addr : HasName(a, b.host)}
    IN
    /\ pc[r] = "check"
    /\ \/ \E a \in found :
           /\ a \notin Admitted(b)
           /\ Answer(r, 409)
           /\ UNCHANGED local
       \/ \E a \in found :
           /\ a \in Admitted(b)
           /\ Adopt(r, a)
           /\ Goto(r, IF b.mac /\ ~row[a].mac THEN "flush" ELSE "dns")
           /\ UNCHANGED <<body, registered, code>>
       \/ /\ found = {}
          /\ IF b.dhcp /\ ~b.mac
             THEN Answer(r, 422)
             ELSE Goto(r, "pick") /\ UNCHANGED code
          /\ UNCHANGED local
    /\ UNCHANGED <<table, providers, history, bounds>>

\* _find_candidate: the lowest address of the subnet, or of the pool's window,
\* that is neither taken nor skipped.
Taken == {a \in Addr : row[a] # NoRow /\ row[a].status \in Ineligible}
Candidates(b) == Admitted(b) \ (Taken \cup Skipped)

PickCandidate(r) ==
    /\ pc[r] = "pick"
    /\ IF Candidates(body[r]) = {}
       THEN Answer(r, 409) /\ UNCHANGED addr
       ELSE /\ \E a \in Candidates(body[r]) :
                 /\ \A other \in Candidates(body[r]) : a <= other
                 /\ addr' = [addr EXCEPT ![r] = a]
            /\ Goto(r, "load")
            /\ UNCHANGED code
    /\ UNCHANGED <<table, providers, body, isNew, loaded, registered, history, bounds>>

\* The row of the candidate is read, if there is one by now; its status is not
\* looked at again.
LoadRow(r) ==
    /\ pc[r] = "load"
    /\ loaded' = [loaded EXCEPT ![r] = row[addr[r]]]
    /\ Goto(r, "flush")
    /\ UNCHANGED <<table, providers, body, addr, isNew, registered, code, history, bounds>>

\* INSERT or UPDATE: waits for the lock, then fails if the address was
\* inserted, or the row removed, meanwhile.
\* Mutant: the address has no unique key.
NoUniqueKey(r) == loaded[r] # NoRow /\ row[addr[r]] = NoRow
Conflict(r) == (loaded[r] = NoRow) # (row[addr[r]] = NoRow)

FlushRow(r) ==
    LET a == addr[r] IN
    /\ pc[r] = "flush"
    /\ holder[a] = Nobody
    /\ IF Conflict(r)
       THEN Answer(r, 500) /\ UNCHANGED holder
       ELSE /\ holder' = [holder EXCEPT ![a] = r]
            /\ Goto(r, "dns")
            /\ UNCHANGED code
    /\ UNCHANGED <<row, providers, local, history, bounds>>

-----------------------------------------------------------------------------
(* Registering it.  A provider call succeeds, fails without effect, or     *)
(* (a fault) takes effect although its answer is lost.                     *)

Key(r) == <<body[r].host, addr[r]>>

Blemish(r) ==
    /\ faults < MaxFaults
    /\ faults' = faults + 1
    /\ blemished' = blemished \cup {Key(r)}
NoFault == UNCHANGED <<faults, blemished>>

\* A failed step starts the undo of a new allocation; a repeated one just
\* reports the error.
\* Mutants: nothing is undone; a repeated call is undone as well.
FailWithoutUndo(r) == Goto(r, "rollback")
FailAlwaysUndone(r) == Goto(r, "undo_ptr")
Fail(r) == Goto(r, IF isNew[r] THEN "undo_ptr" ELSE "rollback")
Succeed(r, what, label) ==
    /\ registered' = [registered EXCEPT ![r] = @ \cup {what}]
    /\ Goto(r, label)

RegisterDns(r) ==
    /\ pc[r] = "dns"
    /\ \/ /\ ~body[r].dns
          /\ Goto(r, "dhcp")
          /\ NoFault
          /\ UNCHANGED <<forward, registered>>
       \/ /\ body[r].dns
          /\ forward' = forward \cup {Key(r)}
          /\ Succeed(r, "dns", IF body[r].ptr THEN "ptr" ELSE "dhcp")
          /\ NoFault
       \/ /\ body[r].dns
          /\ Fail(r)
          /\ NoFault
          /\ UNCHANGED <<forward, registered>>
       \/ /\ body[r].dns
          /\ forward' = forward \cup {Key(r)}
          /\ Fail(r)
          /\ Blemish(r)
          /\ UNCHANGED registered
    /\ UNCHANGED <<table, reverse, lease, body, addr, isNew, loaded, code, edited,
                   known, edits, crashes>>

\* Failing covers get_zones and an address no reverse zone contains.
RegisterPtr(r) ==
    /\ pc[r] = "ptr"
    /\ \/ /\ reverse' = reverse \cup {Key(r)}
          /\ Succeed(r, "ptr", "dhcp")
          /\ NoFault
       \/ /\ Fail(r)
          /\ NoFault
          /\ UNCHANGED <<reverse, registered>>
       \/ /\ reverse' = reverse \cup {Key(r)}
          /\ Fail(r)
          /\ Blemish(r)
          /\ UNCHANGED registered
    /\ UNCHANGED <<table, forward, lease, body, addr, isNew, loaded, code, edited,
                   known, edits, crashes>>

\* Failing covers get_scopes and an address no scope contains.
RegisterDhcp(r) ==
    /\ pc[r] = "dhcp"
    /\ \/ /\ ~body[r].dhcp
          /\ Goto(r, "commit")
          /\ NoFault
          /\ UNCHANGED <<lease, registered>>
       \/ /\ body[r].dhcp
          /\ lease' = lease \cup {Key(r)}
          /\ Succeed(r, "dhcp", "commit")
          /\ NoFault
       \/ /\ body[r].dhcp
          /\ Fail(r)
          /\ NoFault
          /\ UNCHANGED <<lease, registered>>
       \/ /\ body[r].dhcp
          /\ lease' = lease \cup {Key(r)}
          /\ Fail(r)
          /\ Blemish(r)
          /\ UNCHANGED registered
    /\ UNCHANGED <<table, forward, reverse, body, addr, isNew, loaded, code, edited,
                   known, edits, crashes>>

-----------------------------------------------------------------------------
(* Undoing it: each record is deleted at best effort, then the transaction *)
(* is rolled back.                                                         *)

UndoPtr(r) ==
    /\ pc[r] = "undo_ptr"
    /\ Goto(r, "undo_dns")
    /\ \/ /\ reverse' = IF "ptr" \in registered[r] THEN reverse \ {Key(r)} ELSE reverse
          /\ NoFault
       \/ /\ "ptr" \in registered[r]
          /\ Blemish(r)
          /\ UNCHANGED reverse
    /\ UNCHANGED <<table, forward, lease, local, code, edited, known, edits, crashes>>

UndoDns(r) ==
    /\ pc[r] = "undo_dns"
    /\ Goto(r, "rollback")
    /\ \/ /\ forward' = IF "dns" \in registered[r] THEN forward \ {Key(r)} ELSE forward
          /\ NoFault
       \/ /\ "dns" \in registered[r]
          /\ Blemish(r)
          /\ UNCHANGED forward
    /\ UNCHANGED <<table, reverse, lease, local, code, edited, known, edits, crashes>>

Rollback(r) ==
    /\ pc[r] = "rollback"
    /\ Release(r)
    /\ Answer(r, 502)
    /\ UNCHANGED <<row, providers, local, history, bounds>>

-----------------------------------------------------------------------------
(* Committing it.                                                          *)

\* The values the session holds for the row.
Draft(r) ==
    LET base == IF loaded[r] = NoRow
                THEN [status |-> "reserved", host |-> body[r].host, mac |-> body[r].mac,
                      dns |-> FALSE, ptr |-> FALSE, dhcp |-> FALSE, ours |-> TRUE]
                ELSE IF isNew[r]
                THEN [loaded[r] EXCEPT !.status = "reserved", !.host = body[r].host,
                                       !.mac = body[r].mac]
                ELSE [loaded[r] EXCEPT !.mac = @ \/ body[r].mac]
    IN [base EXCEPT !.dns  = @ \/ "dns" \in registered[r],
                    !.ptr  = @ \/ "ptr" \in registered[r],
                    !.dhcp = @ \/ "dhcp" \in registered[r]]

\* The row after the commit: an insert, or an update of the changed columns.
Committed(r) ==
    LET was == loaded[r]
        new == Draft(r)
        now == row[addr[r]]
    IN IF was = NoRow THEN new
       ELSE [status |-> Flushed(was.status, new.status, now.status),
             host |-> Flushed(was.host, new.host, now.host),
             mac  |-> Flushed(was.mac, new.mac, now.mac),
             dns  |-> Flushed(was.dns, new.dns, now.dns),
             ptr  |-> Flushed(was.ptr, new.ptr, now.ptr),
             dhcp |-> Flushed(was.dhcp, new.dhcp, now.dhcp),
             ours |-> now.ours]

\* A repeated call whose first write is this commit takes the lock here, and
\* fails here if the row is gone.
CommitRow(r) ==
    LET a == addr[r] IN
    /\ pc[r] = "commit"
    /\ \/ /\ holder[a] = r
          /\ row' = [row EXCEPT ![a] = Committed(r)]
          /\ Answer(r, IF isNew[r] THEN 201 ELSE 200)
       \/ /\ holder[a] # r
          /\ Draft(r) = loaded[r]
          /\ Answer(r, 200)
          /\ UNCHANGED row
       \/ /\ holder[a] = Nobody
          /\ Draft(r) # loaded[r]
          /\ IF row[a] = NoRow
             THEN Answer(r, 500) /\ UNCHANGED row
             ELSE Answer(r, 200) /\ row' = [row EXCEPT ![a] = Committed(r)]
    /\ Release(r)
    /\ UNCHANGED <<providers, local, history, bounds>>

\* The database refuses the commit or is gone: nothing is undone.
CommitFails(r) ==
    /\ pc[r] = "commit"
    /\ Blemish(r)
    /\ Release(r)
    /\ Answer(r, 500)
    /\ UNCHANGED <<row, providers, local, edited, known, edits, crashes>>

-----------------------------------------------------------------------------
(* The rest of the system.                                                 *)

\* update_address: an operator changes the status, the hostname, or both.
EditRow(a) ==
    /\ edits < MaxEdits
    /\ edits' = edits + 1
    /\ row[a] # NoRow
    /\ holder[a] = Nobody
    /\ \E s \in EditStatuses, h \in Host \cup {NoHost} :
        row' = [row EXCEPT ![a].status = s, ![a].host = h]
    /\ edited' = edited \cup {a}
    /\ UNCHANGED <<holder, providers, pc, local, code, known, blemished, faults, crashes>>

\* PUT /addresses/{id}/reclaim and the bulk deprecation of stale addresses: the
\* row keeps its hostname and its provider records.
Stale(a) == row[a] # NoRow /\ row[a].status \in {"reserved", "assigned"}
Reclaim(a) ==
    /\ edits < MaxEdits
    /\ edits' = edits + 1
    /\ Stale(a)
    /\ holder[a] = Nobody
    /\ row' = [row EXCEPT ![a].status = "deprecated"]
    /\ edited' = edited \cup {a}
    /\ UNCHANGED <<holder, providers, pc, local, code, known, blemished, faults, crashes>>

\* scan_subnet records a host that answers at an address without a row.
Discover(a) ==
    /\ row[a] = NoRow
    /\ holder[a] = Nobody
    /\ row' = [row EXCEPT ![a] = [status |-> "discovered", host |-> NoHost, mac |-> FALSE,
                                  dns |-> FALSE, ptr |-> FALSE, dhcp |-> FALSE,
                                  ours |-> TRUE]]
    /\ UNCHANGED <<holder, providers, pc, local, code, history, bounds>>

\* The API process dies: open transactions vanish, provider records do not.
InProgress == {r \in Request : pc[r] \notin {"new", "answered"}}
Crash ==
    /\ crashes < MaxCrashes
    /\ crashes' = crashes + 1
    /\ InProgress # {}
    /\ holder' = [a \in Addr |-> Nobody]
    /\ pc' = [r \in Request |-> IF r \in InProgress THEN "answered" ELSE pc[r]]
    /\ code' = [r \in Request |-> IF r \in InProgress THEN 500 ELSE code[r]]
    /\ blemished' = blemished \cup {Key(r) : r \in InProgress}
    /\ UNCHANGED <<row, providers, local, edited, known, edits, faults>>

-----------------------------------------------------------------------------
Init ==
    /\ row \in InitialRows
    /\ holder = [a \in Addr |-> Nobody]
    /\ forward = {<<row[a].host, a>> : a \in {x \in Addr : row[x] # NoRow /\ row[x].dns}}
    /\ reverse = {<<row[a].host, a>> : a \in {x \in Addr : row[x] # NoRow /\ row[x].ptr}}
    /\ lease = {<<row[a].host, a>> : a \in {x \in Addr : row[x] # NoRow /\ row[x].dhcp}}
    /\ pc = [r \in Request |-> "new"]
    /\ body = [r \in Request |-> CHOOSE b \in Bodies : TRUE]
    /\ addr = [r \in Request |-> NoAddr]
    /\ isNew = [r \in Request |-> TRUE]
    /\ loaded = [r \in Request |-> NoRow]
    /\ registered = [r \in Request |-> {}]
    /\ code = [r \in Request |-> 0]
    /\ edited = {}
    /\ known = [r \in Request |-> {}]
    /\ blemished = {}
    /\ edits = 0 /\ faults = 0 /\ crashes = 0

Step(r) ==
    \/ Start(r) \/ CheckExisting(r) \/ PickCandidate(r) \/ LoadRow(r) \/ FlushRow(r)
    \/ RegisterDns(r) \/ RegisterPtr(r) \/ RegisterDhcp(r)
    \/ UndoPtr(r) \/ UndoDns(r) \/ Rollback(r)
    \/ CommitRow(r) \/ CommitFails(r)

Next ==
    \/ \E r \in Request : Step(r)
    \/ \E a \in Addr : EditRow(a) \/ Reclaim(a) \/ Discover(a)
    \/ Crash

Spec == Init /\ [][Next]_vars

-----------------------------------------------------------------------------
(* Properties.                                                             *)

Working == {"dns", "ptr", "dhcp", "undo_ptr", "undo_dns", "rollback", "commit"}
Records == forward \cup reverse \cup lease

\* The values of the table, the providers and the requests' locals.
TypeOK ==
    /\ row \in [Addr -> Row \cup {NoRow}]
    /\ holder \in [Addr -> Request \cup {Nobody}]
    /\ forward \cup reverse \cup lease \subseteq (Host \cup {NoHost}) \X Addr
    /\ pc \in [Request -> {"new", "check", "pick", "load", "flush", "answered"} \cup Working]
    /\ body \in [Request -> Bodies]
    /\ addr \in [Request -> Addr \cup {NoAddr}]
    /\ isNew \in [Request -> BOOLEAN]
    /\ loaded \in [Request -> Row \cup {NoRow}]
    /\ registered \in [Request -> SUBSET {"dns", "ptr", "dhcp"}]
    /\ code \in [Request -> Code \cup {0}]
    /\ edited \subseteq Addr
    /\ known \in [Request -> SUBSET Addr]
    /\ edits \in 0..MaxEdits /\ faults \in 0..MaxFaults /\ crashes \in 0..MaxCrashes

\* Addresses whose row a new allocation found already there when it loaded it:
\* an available row, or one that appeared after the candidate was chosen.
TakenOver == {addr[r] : r \in {r \in Request : isNew[r] /\ loaded[r] # NoRow}}

\* Two new allocations are never answered with the same address (user guide:
\* "claim the next free IP").
AllocationsDisjoint ==
    \A p, q \in Request :
        p # q /\ code[p] = 201 /\ code[q] = 201 => addr[p] # addr[q]

\* With any interleaving of threads, two new allocations share an address only
\* if one of them took over a row: inserts never collide unnoticed.
SharedOnlyByTakeover ==
    \A p, q \in Request :
        p # q /\ code[p] = 201 /\ code[q] = 201 /\ addr[p] = addr[q] =>
            addr[p] \in TakenOver

\* Every provider record belongs to the row of its address, or to a request
\* still at work on it: a failed allocation has undone what it registered.
\* Excepted are rows an operator has edited or an allocation has taken over,
\* and records a fault put in doubt.
NoOrphanRecord ==
    \A rec \in Records :
        \/ rec[2] \in edited \cup TakenOver
        \/ rec \in blemished
        \/ row[rec[2]] # NoRow /\ row[rec[2]].host = rec[1]
        \/ \E r \in Request : Key(r) = rec /\ pc[r] \in Working

\* A committed row that says it is registered is: no other request's undo has
\* deleted its records.
RowsAreRegistered ==
    \A a \in Addr \ (edited \cup TakenOver) :
        row[a] # NoRow =>
            /\ row[a].dns  => <<row[a].host, a>> \in forward
            /\ row[a].ptr  => <<row[a].host, a>> \in reverse
            /\ row[a].dhcp => <<row[a].host, a>> \in lease

\* The hostname is the idempotency key: a call made after an earlier one was
\* answered makes no new row, and gets an address that has the hostname.
\* Excepted are addresses edited or taken over since.
RepeatIsIdempotent ==
    \A r \in Request :
        code[r] \in {200, 201} /\ ~(known[r] \subseteq edited \cup TakenOver) =>
            /\ code[r] = 200
            /\ addr[r] \in edited \cup TakenOver \/ HasName(addr[r], body[r].host)

\* What the user guide says of a new allocation whose registration fails: the
\* records are deleted and the IP is not committed, which "keeps IPAM, DNS,
\* and DHCP consistent".
FailedLeavesNothing ==
    \A r \in Request : code[r] = 502 /\ isNew[r] => Key(r) \notin Records
=============================================================================
