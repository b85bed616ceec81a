------------------------------- MODULE Drift -------------------------------
(***************************************************************************)
(* Reconciliation: detection passes that compare the IPAM with the DNS and *)
(* DHCP caches and the scan results (drift.py), the auto-remediation sweep *)
(* that follows a scan or a sync (drift_remediation.py), and the operator  *)
(* resolving items one by one or in bulk (api/drift.py).  A pass works on  *)
(* what it read when it began and commits later; so does a sweep.          *)
(*                                                                         *)
(* Names stand for host labels and macs for normalised addresses, so two   *)
(* are equal exactly when the code's comparison says they are.  Emission   *)
(* of the collision and drift triggers is the input of Alerting.tla.       *)
(***************************************************************************)
EXTENDS Naturals, FiniteSets, Sequences

CONSTANTS IPs, Subnets,
          Block,       \* [Subnets -> SUBSET IPs]: the addresses of each CIDR
          Names, Macs, Sources,
          All,         \* a pass over every subnet; the scope of a global policy
          None,
          Passes,      \* threads that run detection
          Duty,        \* [Passes -> SUBSET (scopes \X BOOLEAN)]: scope, sweep after
          Worlds,      \* initial [addr, real, policy] triples
          AddrRows, RealRows,  \* rows an edit may write
          PolicyEdits, \* <<category, scope, mode>> an admin may write
          Bulks,       \* lists of items a bulk call may name
          MaxEdits     \* bound on edits from outside this component

\* A row of the IPAM, and what the providers and their caches hold for an IP.
AddressRow == [sub : Subnets, status : {"available", "reserved", "assigned", "deprecated", "discovered"},
               host : Names \cup {None}, mac : Macs \cup {None}]
DnsRow == [src : Sources, name : Names]
LeaseRow == [src : Sources, name : Names, mac : Macs]
ProviderRow == [dns : SUBSET DnsRow, ptr : Names \cup {None}, lease : SUBSET LeaseRow]
\* A row of drift_items, and the details in it that a remediation reads back.
DetailRow == [name : Names \cup {None}, mac : Macs \cup {None}]
ItemRow == [open : BOOLEAN, review : BOOLEAN, sub : Subnets, det : DetailRow]

ASSUME ScopeAssumption ==
    /\ All \notin Subnets /\ None \notin Subnets
    /\ Block \in [Subnets -> SUBSET IPs]
    /\ Duty \in [Passes -> SUBSET ((Subnets \cup {All}) \X BOOLEAN)]
ASSUME InputAssumption ==
    /\ \A w \in Worlds :
         /\ w.addr \in [IPs -> AddressRow \cup {None}] /\ w.real \in [IPs -> ProviderRow]
         /\ \A ip \in IPs : w.addr[ip] # None => ip \in Block[w.addr[ip].sub]
    /\ AddrRows \subseteq AddressRow /\ RealRows \subseteq ProviderRow /\ Sources # {}
    /\ Bulks \subseteq Seq(IPs \X STRING)
ASSUME NoneAssumption ==
    None \notin AddressRow /\ None \notin DnsRow /\ None \notin LeaseRow /\ None \notin ItemRow

VARIABLES addr,     \* [IPs -> address row or None]
          managed,  \* IPs whose address row a gitops source declares
          real,     \* what the providers hold, per IP
          cache,    \* what the last sync read of it
          scan,     \* latest result per IP, by scanning subnet and overall
          item,     \* drift_items, unique by IP and category
          policy,   \* enabled policies, by category and subnet or All
          pass, op, edits

vars == <<addr, managed, real, cache, scan, item, policy, pass, op, edits>>

SAFE_CATEGORIES == {"orphan_dns", "orphan_dhcp", "mac_mismatch", "active_but_available"}
Pushed == {"orphan_dns", "orphan_dhcp", "missing_dns", "hostname_mismatch"}
ScanCategories == {"active_but_available", "unreachable_assigned"}
Categories == SAFE_CATEGORIES \cup ScanCategories \cup Pushed \cup
    {"multi_dhcp_scope", "dns_source_conflict", "missing_dhcp", "ptr_mismatch"}
Orphans == {"orphan_dns", "orphan_dhcp"}
Key == IPs \X Categories
Scopes == Subnets \cup {All}
Modes == {"review", "dry", "auto", "provider"}

-----------------------------------------------------------------------------
(* The multi-way diff. *)

Own(s, ip) == addr[ip] # None /\ s \in {All, addr[ip].sub}
InScope(s, ip) == \E b \in Subnets : s \in {All, b} /\ ip \in Block[b]
SubnetFor(s, ip) == CHOOSE b \in Subnets : s \in {All, b} /\ ip \in Block[b]
Used(ip) == addr[ip].status \in {"assigned", "reserved"}

\* Unordered queries: the row the database gives first, the same for one content.
FirstDns(ip) == CHOOSE r \in cache[ip].dns : TRUE
FirstLease(ip) == CHOOSE l \in cache[ip].lease : TRUE

Holds(s, ip, cat) ==
    \/ cat = "active_but_available" /\ Own(s, ip)
       /\ scan[ip][s] = "up" /\ addr[ip].status = "available"
    \/ cat = "multi_dhcp_scope" /\ InScope(s, ip)
       /\ Cardinality({l.src : l \in cache[ip].lease}) > 1
    \/ cat = "dns_source_conflict" /\ InScope(s, ip)
       /\ Cardinality({r.src : r \in cache[ip].dns}) > 1
    \/ cat = "hostname_mismatch" /\ Own(s, ip) /\ addr[ip].host # None
       /\ \/ cache[ip].lease # {} /\ FirstLease(ip).name # addr[ip].host
          \/ cache[ip].dns # {} /\ FirstDns(ip).name # addr[ip].host
    \/ cat = "missing_dns" /\ Own(s, ip) /\ Used(ip) /\ cache[ip].dns = {}
    \/ cat = "missing_dhcp" /\ Own(s, ip) /\ Used(ip) /\ cache[ip].lease = {}
    \/ cat = "orphan_dns" /\ addr[ip] = None /\ InScope(s, ip) /\ cache[ip].dns # {}
    \/ cat = "orphan_dhcp" /\ addr[ip] = None /\ InScope(s, ip) /\ cache[ip].lease # {}
    \/ cat = "mac_mismatch" /\ Own(s, ip) /\ addr[ip].mac # None
       /\ cache[ip].lease # {} /\ FirstLease(ip).mac # addr[ip].mac
    \/ cat = "ptr_mismatch" /\ Own(s, ip) /\ cache[ip].dns # {}
       /\ cache[ip].ptr \notin {None, FirstDns(ip).name}
    \/ cat = "unreachable_assigned" /\ Own(s, ip)
       /\ scan[ip][s] = "down" /\ addr[ip].status = "assigned"

\* Mutant: mac_mismatch stores the IPAM's MAC as the lease's.
DetailsOfIpam(ip, cat) ==
    [name |-> IF addr[ip] # None THEN addr[ip].host ELSE None,
     mac |-> IF addr[ip] # None THEN addr[ip].mac ELSE None]

\* The part of an item's details a remediation reads back.
Details(ip, cat) ==
    [name |-> CASE cat = "orphan_dns" -> FirstDns(ip).name
                [] cat = "orphan_dhcp" -> FirstLease(ip).name
                [] cat \in {"missing_dns", "hostname_mismatch"} -> addr[ip].host
                [] OTHER -> None,
     mac |-> IF cat \in {"orphan_dhcp", "mac_mismatch"} THEN FirstLease(ip).mac ELSE None]

Found(s) ==
    [k \in {k \in Key : Holds(s, k[1], k[2])} |->
        [sub |-> IF addr[k[1]] # None THEN addr[k[1]].sub ELSE SubnetFor(s, k[1]),
         det |-> Details(k[1], k[2])]]

-----------------------------------------------------------------------------
(* Detection: a pass reads, then inserts, reopens and resolves in one commit. *)

NoPlan == [review |-> {}, fix |-> <<>>, pushed |-> {}]
Idle == [pc |-> "idle", scope |-> All, sweeps |-> FALSE, known |-> {}, shut |-> {},
         found |-> <<>>, plan |-> NoPlan, truth |-> {}, touched |-> {}]

\* Address rows, marks or cached rows another actor wrote while a pass is on.
Touch(ips) == [t \in Passes |->
    IF pass[t].pc = "idle" THEN pass[t] ELSE [pass[t] EXCEPT !.touched = @ \cup ips]]

\* Edits and requests of people are bounded.
Edit == edits < MaxEdits /\ edits' = edits + 1

\* Rows a bulk call has inserted and not committed: other inserts wait for it.
Locked == {ip \in DOMAIN op.rows : addr[ip] = None}

Open(k) == item[k] # None /\ item[k].open

Begin(t, s, sweeps) ==
    /\ pass[t].pc = "idle" /\ <<s, sweeps>> \in Duty[t]
    /\ pass' = [pass EXCEPT ![t] =
         [Idle EXCEPT !.pc = "read", !.scope = s, !.sweeps = sweeps,
                      !.known = {k \in Key : item[k] # None},
                      !.shut = {k \in Key : item[k] # None /\ ~item[k].open},
                      !.found = Found(s),
                      !.truth = {k \in DOMAIN Found(All) : k[2] \notin ScanCategories /\
                                   (addr[k[1]] = None \/ s \in {All, addr[k[1]].sub})}]]
    /\ UNCHANGED <<addr, managed, real, cache, scan, item, policy, op, edits>>

\* The insert meets the unique key: the pass is lost, and its sweep with it.
InsertCollides(t) ==
    \E k \in DOMAIN pass[t].found \ pass[t].known : item[k] # None

\* Mutant: the scope is not looked at when items are auto-resolved.
WrittenAnywhere(t, k) ==
    IF k \in DOMAIN pass[t].found
    THEN LET f == pass[t].found[k] IN
         IF k \notin pass[t].known
         THEN [open |-> TRUE, review |-> FALSE, sub |-> f.sub, det |-> f.det]
         ELSE [item[k] EXCEPT !.sub = f.sub, !.det = f.det, !.open = @ \/ k \in pass[t].shut]
    ELSE IF Open(k) /\ k \notin pass[t].shut THEN [item[k] EXCEPT !.open = FALSE] ELSE item[k]

\* Mutant: a resolved item that is found again stays resolved.
WrittenOnce(t, k) ==
    IF k \in DOMAIN pass[t].found
    THEN LET f == pass[t].found[k] IN
         IF k \notin pass[t].known
         THEN [open |-> TRUE, review |-> FALSE, sub |-> f.sub, det |-> f.det]
         ELSE [item[k] EXCEPT !.sub = f.sub, !.det = f.det]
    ELSE IF Open(k) /\ k \notin pass[t].shut /\ (pass[t].scope = All \/ InScope(pass[t].scope, k[1]))
    THEN [item[k] EXCEPT !.open = FALSE]
    ELSE item[k]

\* What the unit of work writes.  A row loaded resolved is dirty only when it is
\* reopened; one loaded open is not written open again; an item no longer found is
\* resolved if it lies in scope, unless it was loaded resolved.
Written(t, k) ==
    IF k \in DOMAIN pass[t].found
    THEN LET f == pass[t].found[k] IN
         IF k \notin pass[t].known
         THEN [open |-> TRUE, review |-> FALSE, sub |-> f.sub, det |-> f.det]
         ELSE [item[k] EXCEPT !.sub = f.sub, !.det = f.det,
                              !.open = @ \/ k \in pass[t].shut]
    ELSE IF Open(k) /\ k \notin pass[t].shut /\ (pass[t].scope = All \/ InScope(pass[t].scope, k[1]))
    THEN [item[k] EXCEPT !.open = FALSE]
    ELSE item[k]

Store(t) ==
    /\ pass[t].pc = "read"
    /\ IF InsertCollides(t)
       THEN item' = item /\ pass' = [pass EXCEPT ![t] = Idle]
       ELSE /\ item' = [k \in Key |-> Written(t, k)]
            /\ pass' = [u \in Passes |->
                 IF u # t THEN Touch(IPs)[u]
                 ELSE IF ~pass[t].sweeps THEN Idle
                 ELSE [pass[t] EXCEPT !.pc = "stored", !.known = {}, !.shut = {}, !.found = <<>>]]
    /\ UNCHANGED <<addr, managed, real, cache, scan, policy, op, edits>>

-----------------------------------------------------------------------------
(* The sweep: policies applied to open items, provider calls made at once, *)
(* database writes at the one commit that ends it.                         *)

PolicyFor(cat, sub) ==
    IF <<cat, sub>> \in DOMAIN policy THEN policy[<<cat, sub>>]
    ELSE IF <<cat, All>> \in DOMAIN policy THEN policy[<<cat, All>>] ELSE "off"

\* Open items of the scope, but for addresses a gitops document declares.
Swept(t) ==
    {k \in Key : /\ Open(k) /\ pass[t].scope \in {All, item[k].sub}
                 /\ ~(addr[k[1]] # None /\ k[1] \in managed)}

Under(t, mode) == {k \in Swept(t) : PolicyFor(k[2], item[k].sub) = mode}

ApplySafe(k) ==
    \/ k[2] \in Orphans /\ addr[k[1]] = None /\ InScope(All, k[1])
    \/ k[2] = "mac_mismatch" /\ addr[k[1]] # None /\ item[k].det.mac # None
    \/ k[2] = "active_but_available" /\ addr[k[1]] # None

\* A provider action finds what it acts on (in the cache, never at the provider).
CanPush(k) ==
    \/ k[2] = "orphan_dns" /\ cache[k[1]].dns # {}
    \/ k[2] = "orphan_dhcp" /\ cache[k[1]].lease # {}
    \/ k[2] = "missing_dns" /\ item[k].det.name # None
    \/ k[2] = "hostname_mismatch" /\ cache[k[1]].dns \cup cache[k[1]].lease # {}

Rename(row, name) == [row EXCEPT !.name = name]
Renamed(rows, row, name) ==
    IF row \in rows THEN (rows \ {row}) \cup {Rename(row, name)} ELSE rows

\* What the provider holds for an IP after the actions on P.
AfterPush(ip, P) ==
    LET on(cat) == <<ip, cat>> \in P
        name(cat) == item[<<ip, cat>>].det.name
        dns0 == IF on("orphan_dns") THEN real[ip].dns \ {FirstDns(ip)} ELSE real[ip].dns
        dns1 == IF on("missing_dns")
                THEN dns0 \cup {[src |-> CHOOSE s \in Sources : TRUE, name |-> name("missing_dns")]}
                ELSE dns0
        lease0 == IF on("orphan_dhcp") THEN real[ip].lease \ {FirstLease(ip)} ELSE real[ip].lease
    IN [real[ip] EXCEPT
          !.dns = IF on("hostname_mismatch") /\ cache[ip].dns # {}
                  THEN Renamed(dns1, FirstDns(ip), name("hostname_mismatch")) ELSE dns1,
          !.lease = IF on("hostname_mismatch") /\ cache[ip].lease # {}
                    THEN Renamed(lease0, FirstLease(ip), name("hostname_mismatch")) ELSE lease0]

\* One provider call failing is caught and leaves that item open.
Sweep(t) ==
    /\ pass[t].pc = "stored"
    /\ \E P \in SUBSET {k \in Under(t, "provider") : CanPush(k)} :
         /\ real' = [ip \in IPs |-> AfterPush(ip, P)]
         /\ pass' = [pass EXCEPT ![t].pc = "swept", ![t].plan =
              [review |-> {k \in Under(t, "review") : ~item[k].review},
               fix |-> [k \in {k \in Under(t, "auto") : k[2] \in SAFE_CATEGORIES /\ ApplySafe(k)}
                          |-> item[k].det],
               pushed |-> P]]
    /\ UNCHANGED <<addr, managed, cache, scan, item, policy, op, edits>>

Imports(t) == {k \in DOMAIN pass[t].plan.fix : k[2] \in Orphans}

\* The session does not flush between items: two imports of one IP are two inserts.
CommitBreaks(t) ==
    \/ \E k \in Imports(t) : addr[k[1]] # None
    \/ \E k, j \in Imports(t) : k # j /\ k[1] = j[1]
    \/ \E k \in DOMAIN pass[t].plan.fix \ Imports(t) : addr[k[1]] = None

Fixed(ip, fix) ==
    LET on(cat) == <<ip, cat>> \in DOMAIN fix
        imported == {c \in Orphans : on(c)}
    IN IF imported # {}
       THEN LET d == fix[<<ip, CHOOSE c \in imported : TRUE>>] IN
            [sub |-> SubnetFor(All, ip), status |-> "discovered", host |-> d.name, mac |-> d.mac]
       ELSE IF addr[ip] = None THEN None
       ELSE [addr[ip] EXCEPT
              !.mac = IF on("mac_mismatch") THEN fix[<<ip, "mac_mismatch">>].mac ELSE @,
              !.status = IF on("active_but_available") THEN "reserved" ELSE @]

FinishSweep(t) ==
    /\ pass[t].pc = "swept" /\ Locked = {}
    /\ LET plan == pass[t].plan
           done == DOMAIN plan.fix \cup plan.pushed
       IN IF CommitBreaks(t)
          THEN UNCHANGED <<addr, item>> /\ pass' = [pass EXCEPT ![t] = Idle]
          ELSE /\ addr' = [ip \in IPs |-> Fixed(ip, plan.fix)]
               /\ item' = [k \in Key |->
                    IF k \in done THEN [item[k] EXCEPT !.open = FALSE]
                    ELSE IF k \in plan.review THEN [item[k] EXCEPT !.review = TRUE]
                    ELSE item[k]]
               /\ pass' = [Touch({k[1] : k \in done}) EXCEPT ![t] = Idle]
    /\ UNCHANGED <<managed, real, cache, scan, policy, op, edits>>

-----------------------------------------------------------------------------
(* The operator: POST /drift/{id}/resolve, one item and one commit, and    *)
(* /drift/resolve-bulk, a list of items flushed one by one, one commit.    *)

NoOp == [pc |-> "idle", todo |-> <<>>, act |-> "dismiss",
         done |-> {}, rows |-> <<>>, answer |-> {}, failed |-> {}]

Guided == {"active_but_available", "hostname_mismatch", "mac_mismatch", "multi_dhcp_scope"}

\* The remediation the item's category has for the action; the others dismiss.
Remedy(k, act) ==
    CASE k[2] \in Orphans /\ act \in {"import", "delete"} -> act
      [] k[2] \in Guided /\ act = "guided" -> k[2]
      [] OTHER -> "dismiss"

\* Provider contents after a remedy that succeeds; name is the canonical hostname.
RemedyPush(k, act, name) ==
    LET ip == k[1]
        does == Remedy(k, act)
        dns == IF cache[ip].dns = {} THEN {} ELSE {FirstDns(ip)}
        lease == IF cache[ip].lease = {} THEN {} ELSE {FirstLease(ip)}
    IN CASE does = "delete" /\ k[2] = "orphan_dns" -> [real[ip] EXCEPT !.dns = @ \ dns]
         [] does = "delete" -> [real[ip] EXCEPT !.lease = @ \ lease]
         [] does = "multi_dhcp_scope" -> [real[ip] EXCEPT !.lease = @ \ (cache[ip].lease \ lease)]
         [] does = "hostname_mismatch"
              -> [real[ip] EXCEPT !.dns = (@ \ dns) \cup {Rename(r, name) : r \in dns \cap @},
                                  !.lease = (@ \ lease) \cup {Rename(l, name) : l \in lease \cap @}]
         [] OTHER -> real[ip]

\* The address row after it.  An import finds the IP's row or creates one.
RemedyRow(k, act, name) ==
    LET ip == k[1]
        does == Remedy(k, act)
        lease == IF k[2] = "orphan_dns" \/ cache[ip].lease = {} THEN None ELSE FirstLease(ip)
        dns == IF k[2] = "orphan_dhcp" \/ cache[ip].dns = {} THEN None ELSE FirstDns(ip)
    IN CASE does = "import" /\ addr[ip] = None
              -> [sub |-> SubnetFor(All, ip), status |-> "discovered",
                  host |-> IF lease # None THEN lease.name ELSE IF dns # None THEN dns.name ELSE None,
                  mac |-> IF lease # None THEN lease.mac ELSE None]
         [] does = "active_but_available" -> [addr[ip] EXCEPT !.status = "reserved"]
         [] does = "hostname_mismatch" /\ addr[ip] # None -> [addr[ip] EXCEPT !.host = name]
         [] does = "mac_mismatch" /\ addr[ip] # None /\ lease # None -> [addr[ip] EXCEPT !.mac = lease.mac]
         [] OTHER -> addr[ip]

\* 422: no address row to give a status, no subnet to import into.
Refused(k, act) ==
    \/ Remedy(k, act) = "active_but_available" /\ addr[k[1]] = None
    \/ Remedy(k, act) = "import" /\ addr[k[1]] = None /\ ~InScope(All, k[1])

CallsProvider(k, act) == Remedy(k, act) \in {"delete", "hostname_mismatch", "multi_dhcp_scope"}

Resolve(k, act, name) ==
    /\ Edit
    /\ item[k] # None /\ ~Refused(k, act) /\ k[1] \notin Locked
    /\ real' = [real EXCEPT ![k[1]] = RemedyPush(k, act, name)]
    /\ addr' = [addr EXCEPT ![k[1]] = RemedyRow(k, act, name)]
    /\ item' = [item EXCEPT ![k].open = FALSE]
    /\ pass' = Touch({k[1]})
    /\ UNCHANGED <<managed, cache, scan, policy, op>>

\* The DNS call of a hostname push fails, and so does the undo of the DHCP call
\* before it; every other provider failure leaves nothing behind.
ResolveHalfUndone(k, name) ==
    /\ Edit
    /\ item[k] # None /\ k[2] = "hostname_mismatch" /\ cache[k[1]].dns # {}
    /\ real' = [real EXCEPT ![k[1]].lease = RemedyPush(k, "guided", name).lease]
    /\ UNCHANGED <<addr, managed, cache, scan, item, policy, pass, op>>

BulkStart(todo, act) ==
    /\ Edit
    /\ op.pc = "idle" /\ act # "guided"
    /\ op' = [NoOp EXCEPT !.pc = "work", !.todo = todo, !.act = act]
    /\ UNCHANGED <<addr, managed, real, cache, scan, item, policy, pass>>

BulkNext(k) == op.pc = "work" /\ op.todo # <<>> /\ k = Head(op.todo)

\* Flushed: the resolution is seen by others at the commit only.
BulkResolve(k) ==
    /\ BulkNext(k) /\ Open(k) /\ k \notin op.done /\ ~Refused(k, op.act)
    /\ real' = [real EXCEPT ![k[1]] = RemedyPush(k, op.act, None)]
    /\ op' = [op EXCEPT !.todo = Tail(@), !.done = @ \cup {k}, !.answer = @ \cup {k},
                        !.rows = IF RemedyRow(k, op.act, None) = addr[k[1]] \/ k[1] \in DOMAIN @ THEN @
                                 ELSE [ip \in {k[1]} \cup DOMAIN @ |->
                                         IF ip = k[1] THEN RemedyRow(k, op.act, None) ELSE @[ip]]]
    /\ UNCHANGED <<addr, managed, cache, scan, item, policy, pass, edits>>

\* Mutant: the failing id is left out of the answer.
BulkFailsSilently(k) ==
    /\ BulkNext(k) /\ Open(k) /\ k \notin op.done
    /\ Refused(k, op.act) \/ CallsProvider(k, op.act)
    /\ op' = [op EXCEPT !.todo = Tail(@), !.done = {}, !.rows = <<>>]
    /\ UNCHANGED <<addr, managed, real, cache, scan, item, policy, pass, edits>>

\* One item fails: the rollback takes back what the call had flushed so far.
BulkFails(k) ==
    /\ BulkNext(k) /\ Open(k) /\ k \notin op.done
    /\ Refused(k, op.act) \/ CallsProvider(k, op.act)
    /\ op' = [op EXCEPT !.todo = Tail(@), !.done = {}, !.rows = <<>>, !.failed = @ \cup {k}]
    /\ UNCHANGED <<addr, managed, real, cache, scan, item, policy, pass, edits>>

BulkSkips(k) ==
    /\ BulkNext(k) /\ ~(Open(k) /\ k \notin op.done)
    /\ op' = [op EXCEPT !.todo = Tail(@), !.failed = @ \cup {k}]
    /\ UNCHANGED <<addr, managed, real, cache, scan, item, policy, pass, edits>>

BulkCommit ==
    /\ op.pc = "work" /\ op.todo = <<>>
    /\ addr' = [ip \in IPs |-> IF ip \in DOMAIN op.rows THEN op.rows[ip] ELSE addr[ip]]
    /\ item' = [k \in Key |-> IF k \in op.done THEN [item[k] EXCEPT !.open = FALSE] ELSE item[k]]
    /\ pass' = Touch({k[1] : k \in op.done})
    /\ op' = NoOp
    /\ UNCHANGED <<managed, real, cache, scan, policy, edits>>

-----------------------------------------------------------------------------
(* Administration of policies, and what the rest of the system does. *)

\* mode "auto" is accepted for a safe category, or with a provider action.
UpsertPolicy(cat, sub, mode) ==
    /\ Edit
    /\ mode \in {"auto", "dry"} => cat \in SAFE_CATEGORIES
    /\ mode = "provider" => cat \in Pushed
    /\ policy' = [c \in {<<cat, sub>>} \cup DOMAIN policy |->
                    IF c = <<cat, sub>> THEN mode ELSE policy[c]]
    /\ UNCHANGED <<addr, managed, real, cache, scan, item, pass, op>>

DeletePolicy(cat, sub) ==
    /\ Edit
    /\ <<cat, sub>> \in DOMAIN policy
    /\ policy' = [c \in DOMAIN policy \ {<<cat, sub>>} |-> policy[c]]
    /\ UNCHANGED <<addr, managed, real, cache, scan, item, pass, op>>

\* An address is created, edited or deleted; gitops adopts a row.
EditAddress(ip, row) ==
    /\ Edit
    /\ ip \notin Locked
    /\ IF row = None THEN TRUE ELSE ip \in Block[row.sub]
    /\ addr' = [addr EXCEPT ![ip] = row]
    /\ managed' = managed \ (IF row = None THEN {ip} ELSE {})
    /\ pass' = Touch({ip})
    /\ UNCHANGED <<real, cache, scan, item, policy, op>>

Adopt(ip) ==
    /\ Edit
    /\ addr[ip] # None /\ ip \notin managed
    /\ managed' = managed \cup {ip}
    /\ pass' = Touch({ip})
    /\ UNCHANGED <<addr, real, cache, scan, item, policy, op>>

\* Somebody edits DNS or DHCP at the provider.
ProviderEdit(ip, row) ==
    /\ Edit
    /\ real' = [real EXCEPT ![ip] = row]
    /\ UNCHANGED <<addr, managed, cache, scan, item, policy, pass, op>>

\* A sync of both caches, and the address rows it creates and completes.
Sync ==
    /\ cache # real /\ Locked = {}
    /\ cache' = real
    /\ addr' = [ip \in IPs |->
         LET lease == IF real[ip].lease = {} THEN None ELSE CHOOSE l \in real[ip].lease : TRUE
             dns == IF real[ip].dns = {} THEN None ELSE CHOOSE r \in real[ip].dns : TRUE
             host == IF lease # None THEN lease.name ELSE IF dns # None THEN dns.name ELSE None
             mac == IF lease # None THEN lease.mac ELSE None
         IN IF addr[ip] # None
            THEN [addr[ip] EXCEPT !.host = IF @ = None THEN host ELSE @,
                                  !.mac = IF @ = None THEN mac ELSE @]
            ELSE IF host = None \/ ~InScope(All, ip) THEN None
            ELSE [sub |-> SubnetFor(All, ip), status |-> "assigned", host |-> host, mac |-> mac]]
    /\ pass' = Touch(IPs)
    /\ UNCHANGED <<managed, real, scan, item, policy, op, edits>>

\* A scan of a subnet commits its results and the devices it discovered.
Scan(s, result) ==
    /\ Edit /\ Locked \cap Block[s] = {}
    /\ scan' = [ip \in IPs |-> IF ip \notin Block[s] THEN scan[ip]
                               ELSE [scan[ip] EXCEPT ![s] = result[ip], ![All] = result[ip]]]
    /\ addr' = [ip \in IPs |->
         IF ip \in Block[s] /\ result[ip] = "up" /\ addr[ip] = None
         THEN [sub |-> s, status |-> "discovered", host |-> None, mac |-> None] ELSE addr[ip]]
    /\ pass' = Touch(Block[s])
    /\ UNCHANGED <<managed, real, cache, item, policy, op>>

\* A result older than _UNREACHABLE_STALE_HOURS no longer tells of a host down.
Age(ip) ==
    /\ scan[ip][All] = "down"
    /\ scan' = [scan EXCEPT ![ip] = [s \in Scopes |-> IF @[s] = "down" THEN "none" ELSE @[s]]]
    /\ UNCHANGED <<addr, managed, real, cache, item, policy, pass, op, edits>>

-----------------------------------------------------------------------------
Init ==
    /\ \E w \in Worlds : addr = w.addr /\ real = w.real /\ cache = w.real /\ policy = w.policy
    /\ managed = {}
    /\ scan = [ip \in IPs |-> [s \in Scopes |-> "none"]]
    /\ item = [k \in Key |-> None]
    /\ pass = [t \in Passes |-> Idle]
    /\ op = NoOp
    /\ edits = 0

Detection == \E t \in Passes :
    \/ \E s \in Scopes, sweeps \in BOOLEAN : Begin(t, s, sweeps)
    \/ Store(t)
    \/ Sweep(t)
    \/ FinishSweep(t)

\* The page offers the open items, a bulk call several of them.
Operator ==
    \/ \E k \in {k \in Key : Open(k)}, name \in Names :
         \/ \E act \in {"dismiss", "import", "delete", "guided"} : Resolve(k, act, name)
         \/ ResolveHalfUndone(k, name)
    \/ \E todo \in Bulks, act \in {"dismiss", "import", "delete"} :
         (\A n \in DOMAIN todo : Open(todo[n])) /\ BulkStart(todo, act)
    \/ \E k \in Key : BulkResolve(k) \/ BulkFails(k) \/ BulkSkips(k)
    \/ BulkCommit

Elsewhere ==
    \/ \E e \in PolicyEdits : UpsertPolicy(e[1], e[2], e[3]) \/ DeletePolicy(e[1], e[2])
    \/ \E ip \in IPs, row \in AddrRows \cup {None} : EditAddress(ip, row)
    \/ \E ip \in IPs : Adopt(ip)
    \/ \E ip \in IPs, row \in RealRows : ProviderEdit(ip, row)
    \/ Sync
    \/ \E ip \in IPs : Age(ip)
    \/ \E s \in Subnets, result \in [IPs -> {"up", "down"}] : Scan(s, result)

Next == Detection \/ Operator \/ Elsewhere

\* The scheduler and the sync loop are threads that never stop; every statement of
\* a pass is executed; the sync runs every few minutes.
Fairness ==
    /\ \A t \in Passes : /\ WF_vars(\E s \in Scopes, sweeps \in BOOLEAN : Begin(t, s, sweeps))
                         /\ WF_vars(Store(t)) /\ WF_vars(Sweep(t)) /\ WF_vars(FinishSweep(t))
    /\ WF_vars(Sync) /\ WF_vars(BulkCommit)
    /\ \A k \in Key : WF_vars(BulkResolve(k) \/ BulkFails(k) \/ BulkSkips(k))

Spec == Init /\ [][Next]_vars
FairSpec == Spec /\ Fairness

-----------------------------------------------------------------------------
(* Correctness. *)

\* Every row has its type, an address lies in its subnet, and so does the address
\* of an item; what a pass carries agrees with where it is.
TypeOK ==
    /\ addr \in [IPs -> AddressRow \cup {None}]
    /\ \A ip \in IPs : addr[ip] # None => ip \in Block[addr[ip].sub]
    /\ managed \subseteq {ip \in IPs : addr[ip] # None}
    /\ real \in [IPs -> ProviderRow] /\ cache \in [IPs -> ProviderRow]
    /\ item \in [Key -> ItemRow \cup {None}]
    /\ \A k \in Key : item[k] # None => k[1] \in Block[item[k].sub]
    /\ \A t \in Passes :
         /\ pass[t].pc \in {"idle", "read", "stored", "swept"}
         /\ pass[t].pc # "swept" => pass[t].plan = NoPlan
         /\ pass[t].shut \subseteq pass[t].known
    /\ DOMAIN op.rows \subseteq {k[1] : k \in op.done} /\ op.done \subseteq op.answer

Closes(t, k) == Store(t) /\ Open(k) /\ ~item'[k].open

\* A pass auto-resolves an item only when the condition it stands for did not hold
\* of what the pass read.  Two exceptions the code has: a pass over one subnet
\* selects addresses by subnet_id and resolves by CIDR, so it also closes items of
\* addresses a nested subnet owns; and it judges reachability by its own scans.
AutoResolveIsEarned ==
    [][\A t \in Passes, k \in Key : Closes(t, k) => k \notin pass[t].truth]_vars

\* What a sweep repaired stays repaired: the condition of a fixed item is gone once
\* the sweep has committed.  It repairs no address row that a gitops document
\* declares.  Except, in both, for an IP that was written, or came to be declared,
\* while the pass was under way.
FixSticks ==
    [][\A t \in Passes :
         /\ FinishSweep(t) /\ ~CommitBreaks(t) =>
              \A k \in DOMAIN pass[t].plan.fix :
                 k[1] \in pass[t].touched \/ ~Holds(All, k[1], k[2])'
         /\ FinishSweep(t) =>
              \A ip \in managed : addr'[ip] = addr[ip] \/ ip \in pass[t].touched]_vars

\* A bulk call that reports an id as resolved has closed it, or reports a failure
\* of another id in the same answer (the rollback took the earlier ones back).
LostAnswerIsVisible ==
    [][BulkCommit => op.answer \subseteq {k \in Key : ~Open(k)'} \/ op.failed # {}]_vars

\* Drift that persists is shown, also when its item was dismissed or wrongly
\* closed, and an item whose condition is gone for good is closed ("An item that
\* no longer holds is auto-resolved"), except for what only a scan can tell.
ItemsFollowDrift ==
    \A k \in Key :
        /\ <>[]Holds(All, k[1], k[2]) => []<>Open(k)
        /\ k[2] \notin ScanCategories /\ <>[]~Holds(All, k[1], k[2]) => <>[]~Open(k)

\* "The action is applied automatically each sweep": a sweep nobody interferes with
\* commits.
SweepApplies ==
    [][\A t \in Passes :
         FinishSweep(t) /\ CommitBreaks(t) =>
            \E k \in DOMAIN pass[t].plan.fix : k[1] \in pass[t].touched]_vars
=============================================================================
