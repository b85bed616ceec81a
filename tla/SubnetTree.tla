----------------------------- MODULE SubnetTree -----------------------------
(***************************************************************************)
(* The rows that administrators and scoped users edit: subnets and their   *)
(* tree, addresses, reserved ranges, allocation pools, grants, groups and  *)
(* accounts (api/subnets.py, api/pools.py, api/subnet_grants.py,           *)
(* api/groups.py, api/users.py, core/access.py).                           *)
(*                                                                         *)
(* Every handler reads the tables, checks, and commits.  Nothing is locked *)
(* in between, so what was checked may have been changed by a request of   *)
(* another client; what the database then still refuses is a duplicate     *)
(* key, a missing row it refers to, or a row to update that is gone.  The  *)
(* model marks what was written after such an overlap as stale.            *)
(***************************************************************************)
EXTENDS Integers, FiniteSets, FiniteSetsExt

CONSTANTS
    Subnets,        \* subnets that may exist
    Net,            \* the addresses of each subnet's CIDR
    IPs, Users, Groups,
    Clients,
    Requests,       \* what clients ask for
    Worlds,         \* what the tables hold at first
    MaxRequests,    \* bound
    None, Absent

Roles == {"admin", "operator", "readonly", "scoped"}
Window == [lo : IPs, hi : IPs, name : {"none", "linux", "windows"}]

\* A row of subnet_ranges or subnet_pools, and one of subnet_grants.
WindowRow == [table : {"range", "pool"}, id : Nat, subnet : Subnets, win : Window, stale : BOOLEAN]
GrantRow == [id : Nat, subnet : Subnets, who : Users \cup Groups, perm : {"view", "manage"},
             stale : BOOLEAN]

\* parent: of a subnet, None at the top, Absent of one that is not there;
\* home: the subnet an address is recorded in; adrift: subnets whose parent
\* was written by a stale request.
Tables ==
    [parent : [Subnets -> Subnets \cup {None, Absent}], adrift : SUBSET Subnets,
     home : [IPs -> Subnets \cup {None}], windows : SUBSET WindowRow, grants : SUBSET GrantRow,
     role : [Users -> Roles \cup {Absent}], enabled : SUBSET Users,
     groups : SUBSET Groups, members : SUBSET (Groups \X Users)]

TreeKinds == {"add subnet", "move subnet", "drop subnet"}
AddressKinds == {"add address", "drop address"}
WindowKinds == {"add range", "drop range", "add pool", "edit pool", "drop pool"}
GroupKinds == {"add group", "drop group", "join", "leave"}
UserKinds == {"add user", "set role", "enable", "disable", "drop user"}
Request ==
    [kind : TreeKinds \cup AddressKinds \cup WindowKinds \cup GroupKinds \cup UserKinds
               \cup {"grant", "revoke"},
     by : Users, on : Subnets \cup {None}, to : Subnets \cup {None}, ip : IPs \cup {None},
     win : Window \cup {None}, who : Users \cup Groups \cup {None}, group : Groups \cup {None},
     perm : {"view", "manage"}, role : Roles]
\* The fields that its kind needs are there.
Filled(q) ==
    /\ q.kind \in TreeKinds \cup AddressKinds \cup WindowKinds \cup {"grant"} => q.on \in Subnets
    /\ q.kind \in AddressKinds => q.ip \in IPs
    /\ q.kind \in {"add range", "add pool", "edit pool"} => q.win \in Window
    /\ q.kind = "grant" => q.who \in Users \cup Groups
    /\ q.kind \in UserKinds \cup {"join", "leave"} => q.who \in Users
    /\ q.kind \in GroupKinds => q.group \in Groups

\* A request in progress: what it picked to edit or delete, the id of what it
\* will insert, whether another one has committed since it read the tables, and
\* where addresses were recorded then.
SessionRow ==
    [q : Requests, row : WindowRow \cup GrantRow \cup {None}, id : Nat, stale : BOOLEAN,
     home : [IPs -> Subnets \cup {None}]]

ASSUME NetAssumption ==
    /\ Net \in [Subnets -> SUBSET IPs] /\ IPs \subseteq Nat
    /\ IsFiniteSet(Subnets) /\ IsFiniteSet(IPs)
ASSUME BoundAssumption == MaxRequests \in Nat
ASSUME RequestAssumption == Requests \subseteq Request /\ \A q \in Requests : Filled(q)
ASSUME NoneAssumption ==
    /\ None # Absent /\ {None, Absent} \cap Subnets = {} /\ None \notin IPs
    /\ Absent \notin Roles /\ None \notin WindowRow \cup GrantRow
    /\ None \notin SessionRow

VARIABLES
    db,         \* the tables
    session,    \* the request each client has in progress
    requests    \* how many there were, which numbers the rows

vars == <<db, session, requests>>

Exists(d, s) == s \in Subnets /\ d.parent[s] # Absent
Existing(d) == {s \in Subnets : Exists(d, s)}
Children(d, ss) == {s \in Subnets : d.parent[s] \in ss}
Recorded(d, s) == {ip \in IPs : d.home[ip] = s}
Admins(d) == {u \in d.enabled : d.role[u] = "admin"}
Within(w) == w.lo .. w.hi

\* What a row refers to exists.
ForeignKeys(d) ==
    /\ \A s \in Existing(d) : d.parent[s] \in Existing(d) \cup {None}
    /\ \A ip \in IPs : d.home[ip] \in Existing(d) \cup {None}
    /\ \A w \in d.windows : Exists(d, w.subnet)
    /\ \A g \in d.grants : /\ Exists(d, g.subnet)
                           /\ g.who \in d.groups \cup {u \in Users : d.role[u] # Absent}
    /\ \A m \in d.members : m[1] \in d.groups /\ d.role[m[2]] # Absent
    /\ d.enabled \subseteq {u \in Users : d.role[u] # Absent}

\* Windows lie in their subnet and are not empty, two of a kind do not overlap,
\* and nobody has two grants on a subnet, but for what was written in an overlap.
WindowsApart(d) ==
    \A v, w \in d.windows :
        /\ {v.win.lo, v.win.hi} \subseteq Net[v.subnet]
        /\ v.win.lo > v.win.hi => v.stale
        /\ v # w /\ v.table = w.table /\ v.subnet = w.subnet
              /\ Within(v.win) \cap Within(w.win) # {} => v.stale \/ w.stale
GrantsApart(d) ==
    \A g, h \in d.grants :
        g # h /\ g.subnet = h.subnet /\ g.who = h.who => g.stale \/ h.stale

\* The rows there are at first are numbered apart from those of the requests.
ASSUME WorldAssumption ==
    \A d \in Worlds :
        /\ d \in Tables /\ ForeignKeys(d) /\ WindowsApart(d) /\ GrantsApart(d)
        /\ \A v, w \in d.windows : v.id >= MaxRequests /\ (v.id = w.id => v = w)

-----------------------------------------------------------------------------
(* core/access.py: who may see and change what.                            *)

\* The frontier is widened until nothing new is found.
Descendants(d, s) ==
    LET wave[n \in 0..Cardinality(Subnets)] ==
            IF n = 0 THEN {s}
            ELSE LET found == wave[n - 1] IN found \cup Children(d, found)
    IN wave[Cardinality(Subnets)]

GrantsOf(d, u) == {g \in d.grants : g.who = u \/ <<g.who, u>> \in d.members}
Viewable(d, u) == UNION {Descendants(d, g.subnet) : g \in GrantsOf(d, u)}
Manageable(d, u) ==
    UNION {Descendants(d, g.subnet) : g \in {h \in GrantsOf(d, u) : h.perm = "manage"}}
CanRead(d, u, s) == d.role[u] \in {"admin", "operator", "readonly"} \/ s \in Viewable(d, u)
\* Mutant: a grant to view is enough.
CanWriteViewed(d, u, s) == d.role[u] \in {"admin", "operator"} \/ s \in Viewable(d, u)
CanWrite(d, u, s) == d.role[u] \in {"admin", "operator"} \/ s \in Manageable(d, u)

-----------------------------------------------------------------------------
(* What lists report.                                                      *)

\* list_subnets: what a user sees of the tree.
Listed(d, u) == {s \in Existing(d) : CanRead(d, u, s)}

SumOf(count, ss) == MapThenSumSet(LAMBDA s : count[s], ss)

\* _compute_rollup over the subnets of a list: a subnet counts itself and the
\* listed ones below it, if it hangs from a listed subnet without a parent.
Rollup(d, list) ==
    LET sum[n \in 0..Cardinality(Subnets)] ==
            IF n = 0 THEN [s \in list |-> Cardinality(Recorded(d, s))]
            ELSE LET below == sum[n - 1] IN
                 [s \in list |-> Cardinality(Recorded(d, s))
                                 + SumOf(below, list \cap Children(d, {s}))]
        reached[n \in 0..Cardinality(Subnets)] ==
            IF n = 0 THEN {s \in list : d.parent[s] = None}
            ELSE LET found == reached[n - 1] IN found \cup (list \cap Children(d, found))
        total == sum[Cardinality(Subnets)]
        hung == reached[Cardinality(Subnets)]
    IN [s \in list |-> IF s \in hung THEN total[s] ELSE Cardinality(Recorded(d, s))]

ReservedIps(d, s) ==
    UNION {Within(w.win) : w \in {x \in d.windows : x.table = "range" /\ x.subnet = s}}
\* A cell of subnet_map.
Cell(d, s, ip) ==
    IF d.home[ip] = s THEN "used" ELSE IF ip \in ReservedIps(d, s) THEN "reserved" ELSE "free"
UsedIn(d, pool) == {ip \in Within(pool.win) : d.home[ip] # None}
\* _pool_out.  Mutant: a reserved address in use is counted twice.
PoolFreeTwice(d, pool) ==
    LET left == Cardinality(Within(pool.win)) - Cardinality(UsedIn(d, pool))
                - Cardinality(ReservedIps(d, pool.subnet) \cap Within(pool.win))
    IN IF left < 0 THEN 0 ELSE left
PoolFree(d, pool) ==
    LET reserved == (ReservedIps(d, pool.subnet) \cap Within(pool.win)) \ UsedIn(d, pool)
        left == Cardinality(Within(pool.win)) - Cardinality(UsedIn(d, pool)) - Cardinality(reserved)
    IN IF left < 0 THEN 0 ELSE left

-----------------------------------------------------------------------------
(* The checks of each handler, on the tables as it reads them; a request   *)
(* that changes nothing writes nothing and is left out.  A request         *)
(* is made by a user, about a subnet (on), and has the fields its kind     *)
(* needs: to (a parent), ip, win, who (a user or group), group, perm and   *)
(* role.  The row it edits or deletes is chosen when it is read.           *)

Contains(p, s) == Net[s] \subseteq Net[p]
\* Mutant: only the subnet itself is refused as its parent.
IsItself(d, s, p) == p = s
\* _is_ancestor: the walk up from the new parent meets the subnet.
IsAncestor(d, s, p) == p \in Descendants(d, s)
MayHangFrom(d, q) ==
    q.to # None => Exists(d, q.to) /\ Contains(q.to, q.on)

Clash(a, b) == a.lo <= b.hi /\ b.lo <= a.hi
Others(d, q, row) ==
    {w \in d.windows : /\ w.subnet = q.on /\ w # row
                       /\ w.table = IF q.kind = "add range" THEN "range" ELSE "pool"}
WindowOk(d, q, row) ==
    /\ {q.win.lo, q.win.hi} \subseteq Net[q.on] /\ q.win.lo <= q.win.hi
    /\ \A w \in Others(d, q, row) :
          ~Clash(q.win, w.win) /\ (w.table = "pool" => w.win.name # q.win.name)

IsAdmin(d, u) == d.role[u] = "admin"
\* Mutant: disabled administrators count.
LastAdminAmongAll(d, u) == {x \in Users : d.role[x] = "admin"} = {u}
LastAdmin(d, u) == d.role[u] = "admin" /\ Admins(d) \subseteq {u}

\* Mutant: recorded addresses are not counted.
IsEmptyOfSubnets(d, s) == Children(d, {s}) = {}
IsEmpty(d, s) == Children(d, {s}) = {} /\ Recorded(d, s) = {}
\* Mutant: a grant of another permission is another grant.
AlreadyGrantedAsSuch(d, q) ==
    \E g \in d.grants : g.subnet = q.on /\ g.who = q.who /\ g.perm = q.perm
AlreadyGranted(d, q) == \E g \in d.grants : g.subnet = q.on /\ g.who = q.who

\* The rows a request may pick to edit or delete.
Rows(d, q) ==
    CASE q.kind = "drop range" -> {w \in d.windows : w.table = "range" /\ w.subnet = q.on}
      [] q.kind \in {"edit pool", "drop pool"} ->
            {w \in d.windows : w.table = "pool" /\ w.subnet = q.on}
      [] q.kind = "revoke" -> d.grants
      [] OTHER -> {None}

CreateSubnet(d, q) ==
    d.role[q.by] \in {"admin", "operator"} /\ ~Exists(d, q.on) /\ MayHangFrom(d, q)
UpdateSubnet(d, q) ==
    /\ Exists(d, q.on) /\ CanWrite(d, q.by, q.on) /\ MayHangFrom(d, q)
    /\ q.to # None => CanRead(d, q.by, q.to) /\ ~IsAncestor(d, q.on, q.to)
    /\ d.parent[q.on] # q.to
DeleteSubnet(d, q) == Exists(d, q.on) /\ CanWrite(d, q.by, q.on) /\ IsEmpty(d, q.on)
CreateAddress(d, q) == CanWrite(d, q.by, q.on) /\ d.home[q.ip] = None
DeleteAddress(d, q) == d.home[q.ip] # None /\ CanWrite(d, q.by, d.home[q.ip])
CreateRange(d, q) == Exists(d, q.on) /\ CanWrite(d, q.by, q.on) /\ WindowOk(d, q, None)
DeleteRange(d, q) == Exists(d, q.on) /\ CanWrite(d, q.by, q.on)
CreatePool(d, q) == Exists(d, q.on) /\ CanWrite(d, q.by, q.on) /\ WindowOk(d, q, None)
UpdatePool(d, q, row) ==
    Exists(d, q.on) /\ CanWrite(d, q.by, q.on) /\ WindowOk(d, q, row) /\ row.win # q.win
DeletePool(d, q) == Exists(d, q.on) /\ CanWrite(d, q.by, q.on)

CreateGrant(d, q) ==
    /\ IsAdmin(d, q.by) /\ Exists(d, q.on) /\ ~AlreadyGranted(d, q)
    /\ q.who \in d.groups \/ (q.who \in Users /\ d.role[q.who] # Absent)
DeleteGrant(d, q) == IsAdmin(d, q.by)
CreateGroup(d, q) == IsAdmin(d, q.by) /\ q.group \notin d.groups
DeleteGroup(d, q) == IsAdmin(d, q.by) /\ q.group \in d.groups
AddMember(d, q) ==
    /\ IsAdmin(d, q.by) /\ q.group \in d.groups /\ d.role[q.who] # Absent
    /\ <<q.group, q.who>> \notin d.members
RemoveMember(d, q) == IsAdmin(d, q.by)
CreateUser(d, q) == IsAdmin(d, q.by) /\ d.role[q.who] = Absent
UpdateRole(d, q) ==
    /\ IsAdmin(d, q.by) /\ d.role[q.who] \notin {Absent, q.role}
    /\ q.role # "admin" => ~LastAdmin(d, q.who)
Enable(d, q) == IsAdmin(d, q.by) /\ d.role[q.who] # Absent /\ q.who \notin d.enabled
Disable(d, q) == IsAdmin(d, q.by) /\ q.who \in d.enabled \ {q.by}
DeleteUser(d, q) == IsAdmin(d, q.by) /\ d.role[q.who] # Absent /\ q.who # q.by

Accepts(d, q, row) ==
    CASE q.kind = "add subnet" -> CreateSubnet(d, q)
      [] q.kind = "move subnet" -> UpdateSubnet(d, q)
      [] q.kind = "drop subnet" -> DeleteSubnet(d, q)
      [] q.kind = "add address" -> CreateAddress(d, q)
      [] q.kind = "drop address" -> DeleteAddress(d, q)
      [] q.kind = "add range" -> CreateRange(d, q)
      [] q.kind = "drop range" -> DeleteRange(d, q)
      [] q.kind = "add pool" -> CreatePool(d, q)
      [] q.kind = "edit pool" -> UpdatePool(d, q, row)
      [] q.kind = "drop pool" -> DeletePool(d, q)
      [] q.kind = "grant" -> CreateGrant(d, q)
      [] q.kind = "revoke" -> DeleteGrant(d, q)
      [] q.kind = "add group" -> CreateGroup(d, q)
      [] q.kind = "drop group" -> DeleteGroup(d, q)
      [] q.kind = "join" -> AddMember(d, q)
      [] q.kind = "leave" -> RemoveMember(d, q)
      [] q.kind = "add user" -> CreateUser(d, q)
      [] q.kind = "set role" -> UpdateRole(d, q)
      [] q.kind = "enable" -> Enable(d, q)
      [] q.kind = "disable" -> Disable(d, q)
      [] q.kind = "drop user" -> DeleteUser(d, q)

-----------------------------------------------------------------------------
(* The commit: what the database refuses, and what is written.             *)

\* The row as it is now, and with the columns that the editor changed in it.
SameRow(d, row) == {w \in d.windows : w.table = row.table /\ w.id = row.id}
Edited(now, row, win) ==
    [lo |-> IF row.win.lo = win.lo THEN now.win.lo ELSE win.lo,
     hi |-> IF row.win.hi = win.hi THEN now.win.hi ELSE win.hi,
     name |-> IF row.win.name = win.name THEN now.win.name ELSE win.name]

Refuses(d, q, row) ==
    CASE q.kind = "add subnet" -> Exists(d, q.on) \/ (q.to # None /\ ~Exists(d, q.to))
      [] q.kind = "move subnet" -> ~Exists(d, q.on) \/ (q.to # None /\ ~Exists(d, q.to))
      [] q.kind = "drop subnet" -> Children(d, {q.on}) # {}
      [] q.kind = "add address" -> ~Exists(d, q.on) \/ d.home[q.ip] # None
      [] q.kind = "add range" -> ~Exists(d, q.on)
      [] q.kind = "add pool" ->
            ~Exists(d, q.on) \/ \E w \in Others(d, q, None) : w.win.name = q.win.name
      [] q.kind = "edit pool" ->
            \/ SameRow(d, row) = {}
            \/ \E w \in Others(d, q, None) \ SameRow(d, row) :
                  \E now \in SameRow(d, row) : w.win.name = Edited(now, row, q.win).name
      [] q.kind = "grant" ->
            ~Exists(d, q.on) \/ (q.who \notin d.groups /\ (q.who \in Users => d.role[q.who] = Absent))
      [] q.kind = "join" ->
            \/ q.group \notin d.groups \/ d.role[q.who] = Absent
            \/ <<q.group, q.who>> \in d.members
      [] q.kind = "add group" -> q.group \in d.groups
      [] q.kind = "add user" -> d.role[q.who] # Absent
      [] q.kind \in {"set role", "enable", "disable"} -> d.role[q.who] = Absent
      [] OTHER -> FALSE

\* A row of subnet_ranges or subnet_pools.
Row(table, q, id, stale) ==
    [table |-> table, id |-> id, subnet |-> q.on, win |-> q.win, stale |-> stale]
Hung(d, q, stale) ==
    [d EXCEPT !.parent[q.on] = q.to,
              !.adrift = IF stale THEN @ \cup {q.on} ELSE @ \ {q.on}]

\* Addresses and ranges of a subnet go with it, and so do pools and grants.
WithoutSubnet(d, s) ==
    [d EXCEPT !.parent[s] = Absent, !.adrift = @ \ {s},
              !.home = [ip \in IPs |-> IF @[ip] = s THEN None ELSE @[ip]],
              !.windows = {w \in @ : w.subnet # s}, !.grants = {g \in @ : g.subnet # s}]
WithoutGroup(d, x) ==
    [d EXCEPT !.groups = @ \ {x}, !.members = {m \in @ : m[1] # x},
              !.grants = {g \in @ : g.who # x}]
WithoutUser(d, u) ==
    [d EXCEPT !.role[u] = Absent, !.enabled = @ \ {u}, !.members = {m \in @ : m[2] # u},
              !.grants = {g \in @ : g.who # u}]

Written(d, q, row, id, stale) ==
    CASE q.kind \in {"add subnet", "move subnet"} -> Hung(d, q, stale)
      [] q.kind = "drop subnet" -> WithoutSubnet(d, q.on)
      [] q.kind = "add address" -> [d EXCEPT !.home[q.ip] = q.on]
      [] q.kind = "drop address" -> [d EXCEPT !.home[q.ip] = None]
      [] q.kind = "add range" -> [d EXCEPT !.windows = @ \cup {Row("range", q, id, stale)}]
      [] q.kind = "add pool" -> [d EXCEPT !.windows = @ \cup {Row("pool", q, id, stale)}]
      [] q.kind = "edit pool" ->
            [d EXCEPT !.windows =
                (@ \ SameRow(d, row)) \cup
                {[now EXCEPT !.win = Edited(now, row, q.win), !.stale = stale] : now \in SameRow(d, row)}]
      [] q.kind \in {"drop range", "drop pool"} -> [d EXCEPT !.windows = @ \ SameRow(d, row)]
      [] q.kind = "grant" ->
            [d EXCEPT !.grants = @ \cup {[id |-> id, subnet |-> q.on, who |-> q.who,
                                          perm |-> q.perm, stale |-> stale]}]
      [] q.kind = "revoke" -> [d EXCEPT !.grants = @ \ {row}]
      [] q.kind = "add group" -> [d EXCEPT !.groups = @ \cup {q.group}]
      [] q.kind = "drop group" -> WithoutGroup(d, q.group)
      [] q.kind = "join" -> [d EXCEPT !.members = @ \cup {<<q.group, q.who>>}]
      [] q.kind = "leave" -> [d EXCEPT !.members = @ \ {<<q.group, q.who>>}]
      [] q.kind = "add user" ->
            [d EXCEPT !.role[q.who] = q.role, !.enabled = @ \cup {q.who}]
      [] q.kind = "set role" -> [d EXCEPT !.role[q.who] = q.role]
      [] q.kind = "enable" -> [d EXCEPT !.enabled = @ \cup {q.who}]
      [] q.kind = "disable" -> [d EXCEPT !.enabled = @ \ {q.who}]
      [] q.kind = "drop user" -> WithoutUser(d, q.who)

-----------------------------------------------------------------------------
(* Requests in progress.                                                   *)

\* The user is found and enabled, the checks pass.  One that is refused here
\* changes nothing.
Begin(c, q) ==
    /\ session[c] = None
    /\ requests < MaxRequests
    /\ requests' = requests + 1
    /\ q.by \in db.enabled
    /\ \E row \in Rows(db, q) :
        /\ Accepts(db, q, row)
        /\ session' = [session EXCEPT ![c] = [q |-> q, row |-> row, id |-> requests,
                                              stale |-> FALSE, home |-> db.home]]
    /\ UNCHANGED db

\* An address that was recorded in a subnet after it was found empty is deleted
\* with it, or stops the deletion.
Commit(c) ==
    /\ session[c] # None
    /\ LET s == session[c] IN
       \/ /\ ~Refuses(db, s.q, s.row)
          /\ db' = Written(db, s.q, s.row, s.id, s.stale)
          /\ session' = [x \in Clients |->
                IF x = c \/ session[x] = None THEN None ELSE [session[x] EXCEPT !.stale = TRUE]]
       \/ /\ \/ Refuses(db, s.q, s.row)
             \/ s.q.kind = "drop subnet" /\ Recorded(db, s.q.on) # {}
          /\ session' = [session EXCEPT ![c] = None]
          /\ UNCHANGED db
    /\ UNCHANGED requests

Init ==
    /\ db \in Worlds
    /\ session = [c \in Clients |-> None]
    /\ requests = 0
Next == \E c \in Clients : Commit(c) \/ \E q \in Requests : Begin(c, q)
Spec == Init /\ [][Next]_vars

-----------------------------------------------------------------------------
(* Properties.                                                             *)

\* Values of the variables, and the foreign keys: what a row refers to exists.
TypeOK ==
    /\ db \in Tables /\ ForeignKeys(db)
    /\ session \in [Clients -> SessionRow \cup {None}]
    /\ requests \in 0..MaxRequests

\* The tree is a tree: every subnet lies within its parent, and no subnet is
\* below itself, unless a parent on the way was written by a request that
\* overlapped with another one.
SoundTree(d) ==
    \A s \in Existing(d) :
        /\ d.parent[s] # None => Contains(d.parent[s], s)
        /\ (\E t \in Children(d, {s}) : s \in Descendants(d, t)) =>
              \E t \in Descendants(d, s) \cap d.adrift : s \in Descendants(d, t)
ASSUME FirstTreeAssumption == \A d \in Worlds : SoundTree(d)
TreeIsSound == SoundTree(db)

\* What the handlers keep apart without a key in the database: reserved ranges
\* and pools lie in their subnet and are not empty, two ranges of a subnet, or
\* two pools, do not overlap, and a user or group has one grant on a subnet, so
\* that to revoke it is to revoke it.  Excepted is what was written by a request
\* that overlapped with another one.  (Two editors of one pool who each move one
\* end can leave it inside out.)
RowsDoNotClash == WindowsApart(db) /\ GrantsApart(db)

\* What a user may see and change is what was granted to him, or to a group he
\* is in, on the subnet itself or on one above it.
Above(d, s) ==
    LET up[n \in 0..Cardinality(Subnets)] ==
            IF n = 0 THEN {s}
            ELSE LET found == up[n - 1] IN
                 found \cup ({d.parent[t] : t \in found} \ {None, Absent})
    IN up[Cardinality(Subnets)]
ReachIsInherited ==
    \A u \in Users :
        LET viewed == Viewable(db, u)
            managed == Manageable(db, u)
            direct == {g \in db.grants : \/ g.who = u
                                         \/ \E x \in Groups : g.who = x /\ <<x, u>> \in db.members}
        IN \A s \in Existing(db) :
            /\ s \in viewed <=> \E g \in direct : g.subnet \in Above(db, s)
            /\ s \in managed <=> \E g \in direct : g.subnet \in Above(db, s) /\ g.perm = "manage"

\* Addresses in the subtree of a subnet.
Beneath(d, s) == {ip \in IPs : d.home[ip] \in Descendants(d, s)}

\* The list of all subnets reports for each the addresses of its whole subtree.
RollupIsSubtree ==
    LET listed == Rollup(db, Existing(db)) IN
    \A s \in Existing(db) :
        None \in {db.parent[t] : t \in Above(db, s)} => listed[s] = Cardinality(Beneath(db, s))

\* "Rollup utilization (includes child subnets)" (user guide): so does the list
\* that any user sees.
GrantedRollupIsSubtree ==
    \A u \in Users : \A s \in Listed(db, u) :
        Rollup(db, Listed(db, u))[s] = Cardinality(Beneath(db, s))

\* A pool reports as free exactly the addresses of its window that are neither
\* recorded, in whatever subnet, nor reserved, also when ranges overlap; the map
\* of the subnet shows besides as free only what another subnet records.
FreeIsFree ==
    \A w \in db.windows : w.table = "pool" =>
        LET reserved == ReservedIps(db, w.subnet)
            free == {ip \in Within(w.win) : db.home[ip] = None /\ ip \notin reserved}
            shown == {ip \in Within(w.win) : Cell(db, w.subnet, ip) = "free"}
        IN /\ PoolFree(db, w) = Cardinality(free)
           /\ free \subseteq shown
           /\ \A ip \in shown \ free : db.home[ip] \notin {None, w.subnet}

\* What is worked out from the tables when they are read is true of them.
ViewsAreTrue == ReachIsInherited /\ RollupIsSubtree /\ FreeIsFree

Ends(c) == session[c] # None /\ session'[c] = None
\* The deletion of a subnet takes no address with it that was there when the
\* subnet was found empty: only ones recorded since are lost.
DeletionSparesAddresses ==
    [][\A c \in Clients : Ends(c) /\ session[c].q.kind = "drop subnet" =>
         \A ip \in IPs : db'.home[ip] # db.home[ip] => session[c].home[ip] # db.home[ip]]_vars

\* No request of a scoped user adds to what he can see or change, wherever he
\* moves the subnets that are his, unless it overlapped with another one.
NoSelfPromotion ==
    [][\A c \in Clients : Ends(c) /\ ~session[c].stale /\ db.role[session[c].q.by] = "scoped" =>
         LET u == session[c].q.by IN
         Viewable(db', u) \subseteq Viewable(db, u) /\ Manageable(db', u) \subseteq Manageable(db, u)]_vars

\* Somebody can always administrate, unless two requests that take the right
\* from an administrator overlapped.
AdminRemains ==
    [][Admins(db) # {} /\ Admins(db') = {} => \E c \in Clients : Ends(c) /\ session[c].stale]_vars

=============================================================================
