-------------------------- MODULE SubnetTreeProofs --------------------------
(***************************************************************************)
(* Proofs about SubnetTree, for any subnets, users, groups, clients and    *)
(* requests.                                                               *)
(*                                                                         *)
(* The argument for the steps is one: a request that no other one          *)
(* overlapped commits on the tables it has checked.  What it checked is    *)
(* then true of the tables it writes, and what overlapped is marked as     *)
(* stale.                                                                  *)
(*                                                                         *)
(* The tree takes more.  Every walk over it (Descendants, Above and the    *)
(* two loops of Rollup) is a function of the number of steps made; that it *)
(* exists, and what it finds, is shown by the least number of steps, or    *)
(* the smallest set, that would be wrong.  With that a walk is the least   *)
(* closed set that has its start, and a sum is a cardinality.              *)
(***************************************************************************)
EXTENDS SubnetTree, FiniteSetTheorems, WellFoundedInduction, TLAPS

-----------------------------------------------------------------------------
(* The inductive invariant.                                                *)

\* Window rows are known by their ids: those of the first tables are above the
\* bound, the others were numbered by their request.
WindowIds(d) ==
    \A v, w \in d.windows : v.table = w.table /\ v.id = w.id => v = w
Numbered(n, bound) == n \in Nat /\ (n >= MaxRequests \/ n < bound)
PicksWindow(q) == q.kind \in {"drop range", "edit pool", "drop pool"}
IdsAreOwn ==
    /\ WindowIds(db)
    /\ \A w \in db.windows : Numbered(w.id, requests)
    /\ \A c \in Clients : session[c] # None =>
         /\ session[c].id < requests /\ session[c].id < MaxRequests
         /\ \A w \in db.windows : w.id # session[c].id
         /\ PicksWindow(session[c].q) => Numbered(session[c].row.id, requests)
         /\ \A x \in Clients : session[x] # None =>
              /\ x # c => session[x].id # session[c].id
              /\ PicksWindow(session[x].q) => session[x].row.id # session[c].id

\* A request in progress for a window: what it writes fits into the subnet, and
\* the row it has picked is of that subnet for as long as it exists.
WritesWindow(q) == q.kind \in {"add range", "add pool", "edit pool"}
PicksFit(d, q, row) ==
    PicksWindow(q) =>
        /\ row \in WindowRow /\ (q.kind = "edit pool" => row.table = "pool")
        /\ \A w \in SameRow(d, row) : w.subnet = q.on
WritesFit(q) ==
    WritesWindow(q) => {q.win.lo, q.win.hi} \subseteq Net[q.on] /\ q.win.lo <= q.win.hi
SessionsFit ==
    \A c \in Clients : session[c] # None =>
        PicksFit(db, session[c].q, session[c].row) /\ WritesFit(session[c].q)

\* What a request that nobody overlapped has checked still holds.
FreshIsChecked ==
    \A c \in Clients : session[c] # None /\ ~session[c].stale =>
        /\ session[c].row \in Rows(db, session[c].q)
        /\ Accepts(db, session[c].q, session[c].row)
        /\ session[c].q.by \in db.enabled

\* A subnet that is to be deleted was empty when it was read.
EmptyWhenRead ==
    \A c \in Clients : session[c] # None /\ session[c].q.kind = "drop subnet" =>
        \A ip \in IPs : session[c].home[ip] # session[c].q.on

IInv == TypeOK /\ IdsAreOwn /\ SessionsFit /\ FreshIsChecked /\ EmptyWhenRead /\ RowsDoNotClash

-----------------------------------------------------------------------------
(* What each kind of request writes.                                       *)

LEMMA RowTyped ==
    ASSUME NEW table \in {"range", "pool"}, NEW q \in Request, q.on \in Subnets, q.win \in Window,
           NEW id \in Nat, NEW stale \in BOOLEAN
    PROVE  Row(table, q, id, stale) \in WindowRow
BY DEF Row, WindowRow

\* The columns an editor of a pool did not change stay what they are now.
LEMMA EditedTyped ==
    ASSUME NEW now \in WindowRow, NEW row, NEW win \in Window, NEW stale \in BOOLEAN
    PROVE  /\ Edited(now, row, win) \in Window
           /\ [now EXCEPT !.win = Edited(now, row, win), !.stale = stale] \in WindowRow
           /\ Edited(now, row, win).lo \in {now.win.lo, win.lo}
           /\ Edited(now, row, win).hi \in {now.win.hi, win.hi}
<1>1. now.win \in Window
  BY DEF WindowRow
<1>2. Edited(now, row, win) \in Window
  BY <1>1 DEF Edited, Window
<1>3. [now EXCEPT !.win = Edited(now, row, win), !.stale = stale] \in WindowRow
  BY <1>2 DEF WindowRow
<1> QED
  BY <1>2, <1>3 DEF Edited

\* The rows of windows after an edit of a pool.
EditedRow(now, row, win, stale) == [now EXCEPT !.win = Edited(now, row, win), !.stale = stale]

WindowsEffect(d, q, row, id, stale, e) ==
    /\ e \in Tables
    /\ e.parent = d.parent /\ e.home = d.home /\ e.grants = d.grants /\ e.role = d.role
    /\ e.enabled = d.enabled /\ e.groups = d.groups /\ e.members = d.members
    /\ q.kind = "add range" => e.windows = d.windows \cup {Row("range", q, id, stale)}
    /\ q.kind = "add pool" => e.windows = d.windows \cup {Row("pool", q, id, stale)}
    /\ q.kind = "edit pool" =>
         e.windows = (d.windows \ SameRow(d, row)) \cup
             {EditedRow(now, row, q.win, stale) : now \in SameRow(d, row)}
    /\ q.kind \in {"drop range", "drop pool"} => e.windows = d.windows \ SameRow(d, row)

LEMMA WrittenWindows ==
    ASSUME NEW d \in Tables, NEW q \in Request, Filled(q), NEW row, NEW id \in Nat,
           NEW stale \in BOOLEAN, q.kind \in WindowKinds,
           NEW e, e = Written(d, q, row, id, stale)
    PROVE  WindowsEffect(d, q, row, id, stale, e)
<1> DEFINE ws == CASE q.kind = "add range" -> d.windows \cup {Row("range", q, id, stale)}
                   [] q.kind = "add pool" -> d.windows \cup {Row("pool", q, id, stale)}
                   [] q.kind = "edit pool" ->
                        (d.windows \ SameRow(d, row)) \cup
                        {EditedRow(now, row, q.win, stale) : now \in SameRow(d, row)}
                   [] OTHER -> d.windows \ SameRow(d, row)
<1>1. e = [d EXCEPT !.windows = ws]
  BY DEF Written, WindowKinds, EditedRow
<1>2. d.windows \subseteq WindowRow /\ SameRow(d, row) \subseteq d.windows
  BY DEF Tables, SameRow
<1>3. ws \subseteq WindowRow
  <2>1. q.kind = "add range" => Row("range", q, id, stale) \in WindowRow
    BY RowTyped DEF Filled, WindowKinds
  <2>2. q.kind = "add pool" => Row("pool", q, id, stale) \in WindowRow
    BY RowTyped DEF Filled, WindowKinds
  <2>3. q.kind = "edit pool" =>
          \A now \in SameRow(d, row) : EditedRow(now, row, q.win, stale) \in WindowRow
    BY <1>2, EditedTyped DEF Filled, WindowKinds, EditedRow
  <2> QED
    BY <1>2, <2>1, <2>2, <2>3 DEF WindowKinds
<1>4. /\ q.kind = "add range" => ws = d.windows \cup {Row("range", q, id, stale)}
      /\ q.kind = "add pool" => ws = d.windows \cup {Row("pool", q, id, stale)}
      /\ q.kind = "edit pool" =>
           ws = (d.windows \ SameRow(d, row)) \cup
                {EditedRow(now, row, q.win, stale) : now \in SameRow(d, row)}
      /\ q.kind \in {"drop range", "drop pool"} => ws = d.windows \ SameRow(d, row)
  OBVIOUS
<1> HIDE DEF ws
<1> DEFINE f == [d EXCEPT !.windows = ws]
<1>5. /\ f \in Tables /\ f.windows = ws
      /\ f.parent = d.parent /\ f.home = d.home /\ f.grants = d.grants /\ f.role = d.role
      /\ f.enabled = d.enabled /\ f.groups = d.groups /\ f.members = d.members
  BY <1>3 DEF Tables
<1> HIDE DEF f
<1> QED
  BY <1>1, <1>4, <1>5 DEF f, WindowsEffect

TreeEffect(d, q, e) ==
    /\ e \in Tables
    /\ e.role = d.role /\ e.enabled = d.enabled /\ e.groups = d.groups
    /\ e.members = d.members
    /\ q.kind # "drop subnet" =>
         /\ e.parent = [d.parent EXCEPT ![q.on] = q.to] /\ e.home = d.home
         /\ e.windows = d.windows /\ e.grants = d.grants
    /\ q.kind = "drop subnet" =>
         /\ e.parent = [d.parent EXCEPT ![q.on] = Absent]
         /\ e.home = [ip \in IPs |-> IF d.home[ip] = q.on THEN None ELSE d.home[ip]]
         /\ e.windows = {w \in d.windows : w.subnet # q.on}
         /\ e.grants = {g \in d.grants : g.subnet # q.on}

LEMMA WrittenTree ==
    ASSUME NEW d \in Tables, NEW q \in Request, Filled(q), NEW row, NEW id,
           NEW stale \in BOOLEAN, q.kind \in TreeKinds,
           NEW e, e = Written(d, q, row, id, stale)
    PROVE  TreeEffect(d, q, e)
<1>1. q.on \in Subnets /\ q.to \in Subnets \cup {None}
  BY DEF Filled, TreeKinds, Request
<1>2. CASE q.kind # "drop subnet"
  <2> DEFINE adrift == IF stale THEN d.adrift \cup {q.on} ELSE d.adrift \ {q.on}
             parent == [d.parent EXCEPT ![q.on] = q.to]
             f == [d EXCEPT !.parent = parent, !.adrift = adrift]
  <2>1. e = f
    BY <1>2 DEF Written, Hung, TreeKinds, Tables
  <2>2. adrift \subseteq Subnets /\ parent \in [Subnets -> Subnets \cup {None, Absent}]
    BY <1>1 DEF Tables
  <2> HIDE DEF adrift, parent
  <2>3. /\ f \in Tables /\ f.parent = parent /\ f.home = d.home /\ f.windows = d.windows
        /\ f.grants = d.grants /\ f.role = d.role /\ f.enabled = d.enabled
        /\ f.groups = d.groups /\ f.members = d.members
    BY <2>2 DEF Tables
  <2> HIDE DEF f
  <2> QED
    BY <1>2, <2>1, <2>3 DEF parent, TreeEffect
<1>3. CASE q.kind = "drop subnet"
  <2> DEFINE parent == [d.parent EXCEPT ![q.on] = Absent]
             home == [ip \in IPs |-> IF d.home[ip] = q.on THEN None ELSE d.home[ip]]
             windows == {w \in d.windows : w.subnet # q.on}
             grants == {g \in d.grants : g.subnet # q.on}
             f == [d EXCEPT !.parent = parent, !.adrift = d.adrift \ {q.on}, !.home = home,
                            !.windows = windows, !.grants = grants]
  <2>1. e = f
    BY <1>3 DEF Written, WithoutSubnet, TreeKinds, Tables
  <2>2. /\ parent \in [Subnets -> Subnets \cup {None, Absent}]
        /\ home \in [IPs -> Subnets \cup {None}]
        /\ windows \subseteq WindowRow /\ grants \subseteq GrantRow
    BY <1>1 DEF Tables
  <2> HIDE DEF home, windows, grants, parent
  <2>3. /\ f \in Tables /\ f.parent = parent /\ f.home = home /\ f.windows = windows
        /\ f.grants = grants /\ f.role = d.role /\ f.enabled = d.enabled
        /\ f.groups = d.groups /\ f.members = d.members
    BY <2>2 DEF Tables
  <2> HIDE DEF f
  <2> QED
    BY <1>3, <2>1, <2>3 DEF home, windows, grants, parent, TreeEffect
<1> QED
  BY <1>2, <1>3 DEF TreeEffect

AddressEffect(d, q, e) ==
    /\ e \in Tables
    /\ e.parent = d.parent /\ e.windows = d.windows /\ e.grants = d.grants
    /\ e.role = d.role /\ e.enabled = d.enabled /\ e.groups = d.groups
    /\ e.members = d.members
    /\ \E s \in {q.on, None} :
         e.home = [d.home EXCEPT ![q.ip] = s] /\ (s = q.on => q.kind = "add address")

LEMMA WrittenAddress ==
    ASSUME NEW d \in Tables, NEW q \in Request, Filled(q), NEW row, NEW id, NEW stale,
           q.kind \in AddressKinds,
           NEW e, e = Written(d, q, row, id, stale)
    PROVE  AddressEffect(d, q, e)
<1>1. q.on \in Subnets /\ q.ip \in IPs /\ q.on # None
  BY NoneAssumption DEF Filled, AddressKinds
<1>2. PICK s \in {q.on, None} : /\ s = q.on => q.kind = "add address"
                                /\ s = None => q.kind = "drop address"
  <2>1. CASE q.kind = "add address"
    BY <1>1, <2>1
  <2>2. CASE q.kind = "drop address"
    BY <1>1, <2>2
  <2> QED
    BY <2>1, <2>2 DEF AddressKinds
<1> DEFINE home == [d.home EXCEPT ![q.ip] = s]
           f == [d EXCEPT !.home = home]
<1>3. e = f
  BY <1>2 DEF Written, AddressKinds, Tables
<1>4. home \in [IPs -> Subnets \cup {None}]
  BY <1>1 DEF Tables
<1> HIDE DEF home
<1>5. /\ f \in Tables /\ f.home = home /\ f.parent = d.parent /\ f.windows = d.windows
      /\ f.grants = d.grants /\ f.role = d.role /\ f.enabled = d.enabled
      /\ f.groups = d.groups /\ f.members = d.members
  BY <1>4 DEF Tables
<1> HIDE DEF f
<1> QED
  BY <1>2, <1>3, <1>5 DEF home, AddressEffect

\* A row of subnet_grants.
GrantOf(q, id, stale) ==
    [id |-> id, subnet |-> q.on, who |-> q.who, perm |-> q.perm, stale |-> stale]

GrantsEffect(d, q, row, id, stale, e) ==
    /\ e \in Tables
    /\ e.parent = d.parent /\ e.home = d.home /\ e.windows = d.windows
    /\ e.role = d.role /\ e.enabled = d.enabled /\ e.groups = d.groups
    /\ e.members = d.members
    /\ q.kind = "grant" => e.grants = d.grants \cup {GrantOf(q, id, stale)}
    /\ q.kind = "revoke" => e.grants = d.grants \ {row}

LEMMA WrittenGrants ==
    ASSUME NEW d \in Tables, NEW q \in Request, Filled(q), NEW row, NEW id \in Nat,
           NEW stale \in BOOLEAN, q.kind \in {"grant", "revoke"},
           NEW e, e = Written(d, q, row, id, stale)
    PROVE  GrantsEffect(d, q, row, id, stale, e)
<1> DEFINE grants == IF q.kind = "grant" THEN d.grants \cup {GrantOf(q, id, stale)}
                     ELSE d.grants \ {row}
           f == [d EXCEPT !.grants = grants]
<1>1. e = f
  BY DEF Written, GrantOf
<1>2. q.kind = "grant" => GrantOf(q, id, stale) \in GrantRow
  BY DEF GrantOf, GrantRow, Filled, Request
<1>3. grants \subseteq GrantRow
  BY <1>2 DEF Tables
<1>4. /\ q.kind = "grant" => grants = d.grants \cup {GrantOf(q, id, stale)}
      /\ q.kind = "revoke" => grants = d.grants \ {row}
  OBVIOUS
<1> HIDE DEF grants
<1>5. /\ f \in Tables /\ f.grants = grants /\ f.home = d.home /\ f.parent = d.parent
      /\ f.windows = d.windows /\ f.role = d.role /\ f.enabled = d.enabled
      /\ f.groups = d.groups /\ f.members = d.members
  BY <1>3 DEF Tables
<1> HIDE DEF f
<1> QED
  BY <1>1, <1>4, <1>5 DEF GrantsEffect

GroupsEffect(d, q, e) ==
    /\ e \in Tables
    /\ e.parent = d.parent /\ e.home = d.home /\ e.windows = d.windows
    /\ e.role = d.role /\ e.enabled = d.enabled
    /\ q.kind # "drop group" => e.grants = d.grants
    /\ q.kind = "add group" => e.groups = d.groups \cup {q.group} /\ e.members = d.members
    /\ q.kind = "drop group" =>
         /\ e.groups = d.groups \ {q.group}
         /\ e.members = {m \in d.members : m[1] # q.group}
         /\ e.grants = {g \in d.grants : g.who # q.group}
    /\ q.kind = "join" => e.groups = d.groups /\ e.members = d.members \cup {<<q.group, q.who>>}
    /\ q.kind = "leave" => e.groups = d.groups /\ e.members = d.members \ {<<q.group, q.who>>}

LEMMA WrittenGroups ==
    ASSUME NEW d \in Tables, NEW q \in Request, Filled(q), NEW row, NEW id, NEW stale,
           q.kind \in GroupKinds,
           NEW e, e = Written(d, q, row, id, stale)
    PROVE  GroupsEffect(d, q, e)
<1> DEFINE grants == IF q.kind = "drop group" THEN {g \in d.grants : g.who # q.group} ELSE d.grants
           groups == CASE q.kind = "add group" -> d.groups \cup {q.group}
                       [] q.kind = "drop group" -> d.groups \ {q.group}
                       [] OTHER -> d.groups
           members == CASE q.kind = "drop group" -> {m \in d.members : m[1] # q.group}
                        [] q.kind = "join" -> d.members \cup {<<q.group, q.who>>}
                        [] q.kind = "leave" -> d.members \ {<<q.group, q.who>>}
                        [] OTHER -> d.members
           f == [d EXCEPT !.grants = grants, !.groups = groups, !.members = members]
<1>1. q.group \in Groups /\ (q.kind = "join" => q.who \in Users)
  BY DEF Filled, GroupKinds
<1>2. e = f
  <2>1. CASE q.kind = "add group"
    BY <2>1 DEF Written, Tables
  <2>2. CASE q.kind = "drop group"
    BY <2>2 DEF Written, WithoutGroup, Tables
  <2>3. CASE q.kind = "join"
    BY <2>3 DEF Written, Tables
  <2>4. CASE q.kind = "leave"
    BY <2>4 DEF Written, Tables
  <2> QED
    BY <2>1, <2>2, <2>3, <2>4 DEF GroupKinds
<1>3. grants \subseteq GrantRow /\ groups \subseteq Groups /\ members \subseteq Groups \X Users
  <2>1. d.grants \subseteq GrantRow /\ d.groups \subseteq Groups /\ d.members \subseteq Groups \X Users
    BY DEF Tables
  <2>2. grants \subseteq d.grants /\ groups \subseteq d.groups \cup {q.group}
    OBVIOUS
  <2>3. q.kind # "join" => members \subseteq d.members
    OBVIOUS
  <2>4. q.kind = "join" => members = d.members \cup {<<q.group, q.who>>} /\ <<q.group, q.who>> \in Groups \X Users
    BY <1>1
  <2> HIDE DEF grants, groups, members
  <2> QED
    BY <1>1, <2>1, <2>2, <2>3, <2>4
<1>4. /\ q.kind # "drop group" => grants = d.grants
      /\ q.kind = "add group" => groups = d.groups \cup {q.group} /\ members = d.members
      /\ q.kind = "drop group" =>
           /\ groups = d.groups \ {q.group} /\ members = {m \in d.members : m[1] # q.group}
           /\ grants = {g \in d.grants : g.who # q.group}
      /\ q.kind = "join" => groups = d.groups /\ members = d.members \cup {<<q.group, q.who>>}
      /\ q.kind = "leave" => groups = d.groups /\ members = d.members \ {<<q.group, q.who>>}
  OBVIOUS
<1> HIDE DEF grants, groups, members
<1>5. /\ f \in Tables /\ f.grants = grants /\ f.groups = groups /\ f.members = members
      /\ f.home = d.home /\ f.parent = d.parent /\ f.windows = d.windows
      /\ f.role = d.role /\ f.enabled = d.enabled
  BY <1>3 DEF Tables
<1> HIDE DEF f
<1> QED
  BY <1>2, <1>4, <1>5 DEF GroupsEffect

UsersEffect(d, q, e) ==
    /\ e \in Tables
    /\ e.parent = d.parent /\ e.home = d.home /\ e.windows = d.windows
    /\ e.groups = d.groups
    /\ q.kind # "drop user" => e.grants = d.grants /\ e.members = d.members
    /\ q.kind = "add user" =>
         e.role = [d.role EXCEPT ![q.who] = q.role] /\ e.enabled = d.enabled \cup {q.who}
    /\ q.kind = "set role" =>
         e.role = [d.role EXCEPT ![q.who] = q.role] /\ e.enabled = d.enabled
    /\ q.kind = "enable" => e.role = d.role /\ e.enabled = d.enabled \cup {q.who}
    /\ q.kind = "disable" => e.role = d.role /\ e.enabled = d.enabled \ {q.who}
    /\ q.kind = "drop user" =>
         /\ e.role = [d.role EXCEPT ![q.who] = Absent] /\ e.enabled = d.enabled \ {q.who}
         /\ e.members = {m \in d.members : m[2] # q.who}
         /\ e.grants = {g \in d.grants : g.who # q.who}

LEMMA WrittenUsers ==
    ASSUME NEW d \in Tables, NEW q \in Request, Filled(q), NEW row, NEW id, NEW stale,
           q.kind \in UserKinds,
           NEW e, e = Written(d, q, row, id, stale)
    PROVE  UsersEffect(d, q, e)
<1> DEFINE grants == IF q.kind = "drop user" THEN {g \in d.grants : g.who # q.who} ELSE d.grants
           members == IF q.kind = "drop user" THEN {m \in d.members : m[2] # q.who} ELSE d.members
           role == CASE q.kind \in {"add user", "set role"} -> [d.role EXCEPT ![q.who] = q.role]
                     [] q.kind = "drop user" -> [d.role EXCEPT ![q.who] = Absent]
                     [] OTHER -> d.role
           enabled == CASE q.kind \in {"add user", "enable"} -> d.enabled \cup {q.who}
                        [] q.kind \in {"disable", "drop user"} -> d.enabled \ {q.who}
                        [] OTHER -> d.enabled
           f == [d EXCEPT !.role = role, !.enabled = enabled, !.members = members, !.grants = grants]
<1>1. q.who \in Users /\ q.role \in Roles
  BY DEF Filled, Request
<1>2. e = f
  <2>1. CASE q.kind = "add user"
    BY <2>1 DEF Written, Tables
  <2>2. CASE q.kind = "set role"
    BY <2>2 DEF Written, Tables
  <2>3. CASE q.kind = "enable"
    BY <2>3 DEF Written, Tables
  <2>4. CASE q.kind = "disable"
    BY <2>4 DEF Written, Tables
  <2>5. CASE q.kind = "drop user"
    BY <2>5 DEF Written, WithoutUser, Tables
  <2> QED
    BY <2>1, <2>2, <2>3, <2>4, <2>5 DEF UserKinds
<1>3. /\ grants \subseteq GrantRow /\ members \subseteq Groups \X Users
      /\ role \in [Users -> Roles \cup {Absent}] /\ enabled \subseteq Users
  BY <1>1 DEF Tables
<1>4. /\ q.kind # "drop user" => grants = d.grants /\ members = d.members
      /\ q.kind = "add user" =>
           role = [d.role EXCEPT ![q.who] = q.role] /\ enabled = d.enabled \cup {q.who}
      /\ q.kind = "set role" => role = [d.role EXCEPT ![q.who] = q.role] /\ enabled = d.enabled
      /\ q.kind = "enable" => role = d.role /\ enabled = d.enabled \cup {q.who}
      /\ q.kind = "disable" => role = d.role /\ enabled = d.enabled \ {q.who}
      /\ q.kind = "drop user" =>
           /\ role = [d.role EXCEPT ![q.who] = Absent] /\ enabled = d.enabled \ {q.who}
           /\ members = {m \in d.members : m[2] # q.who}
           /\ grants = {g \in d.grants : g.who # q.who}
  OBVIOUS
<1> HIDE DEF grants, members, role, enabled
<1>5. /\ f \in Tables /\ f.grants = grants /\ f.members = members /\ f.role = role
      /\ f.enabled = enabled /\ f.groups = d.groups
      /\ f.home = d.home /\ f.parent = d.parent /\ f.windows = d.windows
  BY <1>3 DEF Tables
<1> HIDE DEF f
<1> QED
  BY <1>2, <1>4, <1>5 DEF UsersEffect

\* The kinds of requests are those of the lemmas above.
LEMMA Kinds ==
    ASSUME NEW q \in Request
    PROVE  \/ q.kind \in TreeKinds \/ q.kind \in AddressKinds \/ q.kind \in WindowKinds
           \/ q.kind \in {"grant", "revoke"} \/ q.kind \in GroupKinds \/ q.kind \in UserKinds
BY DEF Request

-----------------------------------------------------------------------------
(* Foreign keys.                                                           *)

LEMMA EditedRowKeeps ==
    ASSUME NEW now \in WindowRow, NEW row, NEW win, NEW stale
    PROVE  LET w == EditedRow(now, row, win, stale) IN
           /\ w.subnet = now.subnet /\ w.table = now.table /\ w.id = now.id
           /\ w.win = Edited(now, row, win) /\ w.stale = stale
BY DEF EditedRow, WindowRow

LEMMA TreeKeysKept ==
    ASSUME NEW d \in Tables, ForeignKeys(d), NEW q \in Request, Filled(q), NEW row, NEW id,
           NEW stale \in BOOLEAN, ~Refuses(d, q, row), q.kind \in TreeKinds,
           NEW e, e = Written(d, q, row, id, stale)
    PROVE  ForeignKeys(e)
<1>1. TreeEffect(d, q, e) /\ d \in Tables
  BY WrittenTree
<1>2. q.on \in Subnets /\ q.to \in Subnets \cup {None} /\ None # Absent /\ Absent \notin Subnets
      /\ None \notin Subnets
  BY NoneAssumption DEF Filled, TreeKinds, Request
<1>3. d.parent \in [Subnets -> Subnets \cup {None, Absent}] /\ d.home \in [IPs -> Subnets \cup {None}]
  BY DEF Tables
<1>4. CASE q.kind # "drop subnet"
  <2>1. q.to # None => q.to \in Subnets /\ d.parent[q.to] # Absent
    BY <1>2, <1>4 DEF Refuses, Exists, TreeKinds
  <2>2. \A s \in Subnets : e.parent[s] = IF s = q.on THEN q.to ELSE d.parent[s]
    BY <1>1, <1>3, <1>4 DEF TreeEffect
  <2>3. Existing(d) \subseteq Existing(e) /\ (q.to # None => q.to \in Existing(e))
        /\ Existing(e) \subseteq Existing(d) \cup {q.on}
    BY <1>2, <2>1, <2>2 DEF Existing, Exists
  <2>4. \A s \in Existing(e) : e.parent[s] \in Existing(e) \cup {None}
    BY <1>2, <2>1, <2>2, <2>3 DEF ForeignKeys, Existing
  <2>5. \A s : Exists(d, s) => Exists(e, s)
    BY <2>3 DEF Existing, Exists
  <2> QED
    BY <1>1, <1>4, <2>3, <2>4, <2>5 DEF ForeignKeys, TreeEffect
<1>5. CASE q.kind = "drop subnet"
  <2>1. \A s \in Subnets : e.parent[s] = IF s = q.on THEN Absent ELSE d.parent[s]
    BY <1>1, <1>3, <1>5 DEF TreeEffect
  <2>2. \A s : Exists(e, s) <=> Exists(d, s) /\ s # q.on
    BY <2>1 DEF Exists
  <2>3. \A s \in Subnets : d.parent[s] # q.on
    BY <1>5 DEF Refuses, Children
  <2>4. \A s \in Existing(e) : e.parent[s] \in Existing(e) \cup {None}
    BY <2>1, <2>2, <2>3 DEF ForeignKeys, Existing
  <2>5. \A ip \in IPs : e.home[ip] \in Existing(e) \cup {None}
    <3> SUFFICES ASSUME NEW ip \in IPs PROVE e.home[ip] \in Existing(e) \cup {None}
      OBVIOUS
    <3>1. e.home[ip] = IF d.home[ip] = q.on THEN None ELSE d.home[ip]
      BY <1>1, <1>5 DEF TreeEffect
    <3>2. d.home[ip] \in Existing(d) \cup {None}
      BY DEF ForeignKeys
    <3> QED
      BY <2>2, <3>1, <3>2 DEF Existing
  <2>6. \A w \in e.windows : Exists(e, w.subnet)
    BY <1>1, <1>5, <2>2 DEF ForeignKeys, TreeEffect
  <2>7. \A g \in e.grants :
          Exists(e, g.subnet) /\ g.who \in e.groups \cup {u \in Users : e.role[u] # Absent}
    BY <1>1, <1>5, <2>2 DEF ForeignKeys, TreeEffect
  <2>8. /\ \A m \in e.members : m[1] \in e.groups /\ e.role[m[2]] # Absent
        /\ e.enabled \subseteq {u \in Users : e.role[u] # Absent}
    BY <1>1 DEF ForeignKeys, TreeEffect
  <2> QED
    BY <2>4, <2>5, <2>6, <2>7, <2>8 DEF ForeignKeys
<1> QED
  BY <1>4, <1>5

LEMMA KeysKept ==
    ASSUME NEW d \in Tables, ForeignKeys(d), NEW q \in Request, Filled(q), NEW row, NEW id \in Nat,
           NEW stale \in BOOLEAN, ~Refuses(d, q, row),
           NEW e, e = Written(d, q, row, id, stale)
    PROVE  e \in Tables /\ ForeignKeys(e)
<1>1. CASE q.kind \in TreeKinds
  <2>1. TreeEffect(d, q, e)
    BY <1>1, WrittenTree
  <2> QED
    BY <1>1, <2>1, TreeKeysKept DEF TreeEffect
<1>2. CASE q.kind \in AddressKinds
  <2>1. AddressEffect(d, q, e)
    BY <1>2, WrittenAddress
  <2>2. PICK s \in {q.on, None} :
          e.home = [d.home EXCEPT ![q.ip] = s] /\ (s = q.on => q.kind = "add address")
    BY <2>1 DEF AddressEffect
  <2>3. s = None \/ Exists(d, s)
    BY <2>2 DEF Refuses
  <2>4. \A x : Exists(e, x) <=> Exists(d, x)
    BY <2>1 DEF Exists, AddressEffect
  <2>5. Existing(e) = Existing(d)
    BY <2>1 DEF Existing, Exists, AddressEffect
  <2>6. \A ip \in IPs : e.home[ip] \in Existing(e) \cup {None}
    <3>1. d.home \in [IPs -> Subnets \cup {None}]
      BY DEF Tables
    <3> QED
      BY <2>2, <2>3, <2>5, <3>1 DEF ForeignKeys, Existing, Exists
  <2> QED
    BY <2>1, <2>4, <2>5, <2>6 DEF ForeignKeys, AddressEffect
<1>3. CASE q.kind \in WindowKinds
  <2>1. WindowsEffect(d, q, row, id, stale, e)
    BY <1>3, WrittenWindows
  <2>3. \A x : Exists(e, x) <=> Exists(d, x)
    BY <2>1 DEF Exists, WindowsEffect
  <2>4. Existing(e) = Existing(d)
    BY <2>1 DEF Existing, Exists, WindowsEffect
  <2>5. q.kind \in {"add range", "add pool"} => Exists(d, q.on)
    BY DEF Refuses
  <2>6. \A table : Row(table, q, id, stale).subnet = q.on
    BY DEF Row
  <2>7. \A now \in SameRow(d, row) :
          now \in d.windows /\ EditedRow(now, row, q.win, stale).subnet = now.subnet
    BY EditedRowKeeps DEF SameRow, Tables
  <2>8. \A w \in e.windows : Exists(d, w.subnet)
    <3>1. CASE q.kind = "add range"
      BY <2>1, <2>5, <2>6, <3>1 DEF ForeignKeys, WindowsEffect
    <3>2. CASE q.kind = "add pool"
      BY <2>1, <2>5, <2>6, <3>2 DEF ForeignKeys, WindowsEffect
    <3>3. CASE q.kind = "edit pool"
      <4>1. e.windows \subseteq d.windows \cup {EditedRow(now, row, q.win, stale) : now \in SameRow(d, row)}
        BY <2>1, <3>3 DEF WindowsEffect
      <4>2. \A w \in d.windows : Exists(d, w.subnet)
        BY DEF ForeignKeys
      <4> QED
        BY <2>7, <4>1, <4>2
    <3>4. CASE q.kind \in {"drop range", "drop pool"}
      BY <2>1, <3>4 DEF ForeignKeys, WindowsEffect
    <3> QED
      BY <1>3, <3>1, <3>2, <3>3, <3>4 DEF WindowKinds
  <2> QED
    BY <2>1, <2>3, <2>4, <2>8 DEF ForeignKeys, WindowsEffect
<1>4. CASE q.kind \in {"grant", "revoke"}
  <2>1. GrantsEffect(d, q, row, id, stale, e)
    BY <1>4, WrittenGrants
  <2>2. \A x : Exists(e, x) <=> Exists(d, x)
    BY <2>1 DEF Exists, GrantsEffect
  <2>3. Existing(e) = Existing(d)
    BY <2>1 DEF Existing, Exists, GrantsEffect
  <2>4. q.kind = "grant" =>
          /\ Exists(d, q.on)
          /\ q.who \in d.groups \cup {u \in Users : d.role[u] # Absent}
    BY DEF Refuses, Filled, Tables
  <2>5. \A g \in e.grants :
          Exists(d, g.subnet) /\ g.who \in d.groups \cup {u \in Users : d.role[u] # Absent}
    BY <1>4, <2>1, <2>4 DEF ForeignKeys, GrantOf, GrantsEffect
  <2> QED
    BY <2>1, <2>2, <2>3, <2>5 DEF ForeignKeys, GrantsEffect
<1>5. CASE q.kind \in GroupKinds
  <2>1. GroupsEffect(d, q, e)
    BY <1>5, WrittenGroups
  <2>2. \A x : Exists(e, x) <=> Exists(d, x)
    BY <2>1 DEF Exists, GroupsEffect
  <2>3. Existing(e) = Existing(d)
    BY <2>1 DEF Existing, Exists, GroupsEffect
  <2>4. q.kind = "join" => q.group \in d.groups /\ d.role[q.who] # Absent
    BY DEF Refuses
  <2>5. \A m \in e.members : m[1] \in e.groups /\ e.role[m[2]] # Absent
    <3>1. \A m \in d.members : m[1] \in d.groups /\ d.role[m[2]] # Absent
      BY DEF ForeignKeys
    <3>2. CASE q.kind \in {"add group", "drop group", "leave"}
      BY <2>1, <3>1, <3>2 DEF GroupsEffect
    <3>3. CASE q.kind = "join"
      <4>1. /\ e.members = d.members \cup {<<q.group, q.who>>} /\ e.groups = d.groups
            /\ e.role = d.role
        BY <2>1, <3>3 DEF GroupsEffect
      <4> QED
        BY <2>4, <3>1, <3>3, <4>1
    <3> QED
      BY <1>5, <3>2, <3>3 DEF GroupKinds
  <2>6. \A g \in e.grants :
          Exists(d, g.subnet) /\ g.who \in e.groups \cup {u \in Users : d.role[u] # Absent}
    BY <1>5, <2>1 DEF ForeignKeys, GroupKinds, GroupsEffect
  <2> QED
    BY <2>1, <2>2, <2>3, <2>5, <2>6 DEF ForeignKeys, GroupsEffect
<1>6. CASE q.kind \in UserKinds
  <2>1. UsersEffect(d, q, e)
    BY <1>6, WrittenUsers
  <2>2. \A x : Exists(e, x) <=> Exists(d, x)
    BY <2>1 DEF Exists, UsersEffect
  <2>3. Existing(e) = Existing(d)
    BY <2>1 DEF Existing, Exists, UsersEffect
  <2>4. q.who \in Users /\ q.role \in Roles /\ q.role # Absent
    BY <1>6, NoneAssumption DEF Filled, Request
  <2>5. d.role \in [Users -> Roles \cup {Absent}] /\ d.members \subseteq Groups \X Users
    BY DEF Tables
  <2>6. q.kind = "enable" => d.role[q.who] # Absent
    BY DEF Refuses
  <2>7. \A u \in Users : d.role[u] # Absent /\ (u # q.who \/ q.kind # "drop user") => e.role[u] # Absent
    BY <1>6, <2>1, <2>4, <2>5 DEF UserKinds, UsersEffect
  <2>8. \A m \in e.members : m[1] \in e.groups /\ e.role[m[2]] # Absent
    <3>1. \A m \in d.members : m[1] \in d.groups /\ d.role[m[2]] # Absent
      BY DEF ForeignKeys
    <3>2. \A m \in e.members : m \in d.members /\ (q.kind = "drop user" => m[2] # q.who)
      BY <1>6, <2>1 DEF UserKinds, UsersEffect
    <3>3. e.groups = d.groups
      BY <2>1 DEF UsersEffect
    <3>4. \A m \in d.members : m[2] \in Users
      BY <2>5
    <3> QED
      BY <2>7, <3>1, <3>2, <3>3, <3>4
  <2>9. \A g \in e.grants :
          Exists(d, g.subnet) /\ g.who \in e.groups \cup {u \in Users : e.role[u] # Absent}
    BY <1>6, <2>1, <2>7 DEF ForeignKeys, UserKinds, UsersEffect
  <2>10. e.enabled \subseteq {u \in Users : e.role[u] # Absent}
    <3>1. d.enabled \subseteq {u \in Users : d.role[u] # Absent}
      BY DEF ForeignKeys
    <3>2. e.enabled \subseteq d.enabled \cup {q.who} /\ (q.kind = "drop user" => q.who \notin e.enabled)
      BY <1>6, <2>1 DEF UserKinds, UsersEffect
    <3>3. q.who \in e.enabled => e.role[q.who] # Absent
      <4>1. CASE q.kind \in {"add user", "set role"}
        BY <2>1, <2>4, <2>5, <4>1 DEF UsersEffect
      <4>2. CASE q.kind \in {"enable", "disable"}
        BY <2>1, <2>4, <2>6, <3>1, <4>2 DEF UsersEffect
      <4> QED
        BY <1>6, <3>2, <4>1, <4>2 DEF UserKinds
    <3> QED
      BY <2>4, <2>7, <3>1, <3>2, <3>3
  <2> QED
    BY <2>1, <2>2, <2>3, <2>8, <2>9, <2>10 DEF ForeignKeys, UsersEffect
<1> QED
  BY <1>1, <1>2, <1>3, <1>4, <1>5, <1>6, Kinds

-----------------------------------------------------------------------------
(* Windows and grants.                                                     *)

Sound(v) == {v.win.lo, v.win.hi} \subseteq Net[v.subnet] /\ (v.win.lo > v.win.hi => v.stale)
Overlap(v, w) ==
    v.table = w.table /\ v.subnet = w.subnet /\ Within(v.win) \cap Within(w.win) # {}

LEMMA NoClashIsApart ==
    ASSUME NEW a \in Window, NEW b \in Window, ~Clash(a, b)
    PROVE  Within(a) \cap Within(b) = {}
<1>1. a.lo \in Nat /\ a.hi \in Nat /\ b.lo \in Nat /\ b.hi \in Nat
  BY NetAssumption DEF Window
<1> QED
  BY <1>1 DEF Clash, Within

\* One row more, or one changed, that overlaps with none.
LEMMA OneMoreApart ==
    ASSUME NEW d, WindowsApart(d), NEW e, NEW n,
           e.windows \subseteq d.windows \cup {n}, Sound(n),
           \A w \in e.windows : w # n /\ Overlap(n, w) => n.stale \/ w.stale
    PROVE  WindowsApart(e)
<1> SUFFICES ASSUME NEW v \in e.windows, NEW w \in e.windows
             PROVE  /\ Sound(v)
                    /\ v # w /\ Overlap(v, w) => v.stale \/ w.stale
  BY DEF WindowsApart, Sound, Overlap
<1>1. \A x \in d.windows : Sound(x)
  BY DEF WindowsApart, Sound
<1>2. \A x, y \in d.windows : x # y /\ Overlap(x, y) => x.stale \/ y.stale
  BY DEF WindowsApart, Overlap
<1>3. Overlap(v, w) => Overlap(w, v)
  BY DEF Overlap
<1>4. CASE v \in d.windows /\ w \in d.windows
  BY <1>1, <1>2, <1>4
<1>5. CASE v = n
  BY <1>5
<1>6. CASE w = n
  BY <1>1, <1>3, <1>6
<1> QED
  BY <1>4, <1>5, <1>6

\* Without a row of windows written, none is added.
LEMMA FewerWindows ==
    ASSUME NEW d \in Tables, NEW q \in Request, Filled(q), NEW row, NEW id \in Nat,
           NEW stale \in BOOLEAN, NEW e, e = Written(d, q, row, id, stale), ~WritesWindow(q)
    PROVE  e.windows \subseteq d.windows
<1>1. CASE q.kind \in TreeKinds
  <2>1. TreeEffect(d, q, e)
    BY <1>1, WrittenTree
  <2> QED
    BY <2>1 DEF TreeEffect
<1>2. CASE q.kind \in AddressKinds
  <2>1. AddressEffect(d, q, e)
    BY <1>2, WrittenAddress
  <2> QED
    BY <2>1 DEF AddressEffect
<1>3. CASE q.kind \in WindowKinds
  <2>1. WindowsEffect(d, q, row, id, stale, e)
    BY <1>3, WrittenWindows
  <2>2. q.kind \in {"drop range", "drop pool"}
    BY <1>3 DEF WindowKinds, WritesWindow
  <2> QED
    BY <2>1, <2>2 DEF WindowsEffect
<1>4. CASE q.kind \in {"grant", "revoke"}
  <2>1. GrantsEffect(d, q, row, id, stale, e)
    BY <1>4, WrittenGrants
  <2> QED
    BY <2>1 DEF GrantsEffect
<1>5. CASE q.kind \in GroupKinds
  <2>1. GroupsEffect(d, q, e)
    BY <1>5, WrittenGroups
  <2> QED
    BY <2>1 DEF GroupsEffect
<1>6. CASE q.kind \in UserKinds
  <2>1. UsersEffect(d, q, e)
    BY <1>6, WrittenUsers
  <2> QED
    BY <2>1 DEF UsersEffect
<1> QED
  BY <1>1, <1>2, <1>3, <1>4, <1>5, <1>6, Kinds

\* A row that is written is a new one, or takes the place of the one picked.
Places(d, q, row, id, stale, e, n) ==
    /\ n \in WindowRow /\ n.subnet = q.on /\ n.stale = stale /\ e.windows \subseteq d.windows \cup {n}
    /\ n.table = IF q.kind = "add range" THEN "range" ELSE "pool"
    /\ \/ q.kind # "edit pool" /\ n.win = q.win /\ n.id = id
       \/ q.kind = "edit pool" /\ \E now \in SameRow(d, row) :
            /\ n = EditedRow(now, row, q.win, stale)
            /\ e.windows \subseteq (d.windows \ {now}) \cup {n}

LEMMA OneIsWritten ==
    ASSUME NEW d \in Tables, NEW q \in Request, Filled(q), NEW row, NEW id \in Nat,
           NEW stale \in BOOLEAN, NEW e, e = Written(d, q, row, id, stale), WritesWindow(q),
           WindowIds(d), PicksFit(d, q, row), ~Refuses(d, q, row)
    PROVE  \E n : Places(d, q, row, id, stale, e, n)
<1>0. q.kind \in WindowKinds /\ q.win \in Window /\ q.on \in Subnets
  BY DEF WritesWindow, WindowKinds, Filled
<1>1. WindowsEffect(d, q, row, id, stale, e)
  BY <1>0, WrittenWindows
<1>2. CASE q.kind = "add range"
  <2>1. Row("range", q, id, stale) \in WindowRow
    BY <1>0, RowTyped
  <2>2. e.windows \subseteq d.windows \cup {Row("range", q, id, stale)}
    BY <1>1, <1>2 DEF WindowsEffect
  <2> WITNESS Row("range", q, id, stale)
  <2> QED
    BY <1>2, <2>1, <2>2 DEF Places, Row
<1>3. CASE q.kind = "add pool"
  <2>1. Row("pool", q, id, stale) \in WindowRow
    BY <1>0, RowTyped
  <2>2. e.windows \subseteq d.windows \cup {Row("pool", q, id, stale)}
    BY <1>1, <1>3 DEF WindowsEffect
  <2> WITNESS Row("pool", q, id, stale)
  <2> QED
    BY <1>3, <2>1, <2>2 DEF Places, Row
<1>4. CASE q.kind = "edit pool"
  <2>1. PICK now \in SameRow(d, row) : TRUE
    BY <1>4 DEF Refuses
  <2>2. now \in WindowRow /\ now \in d.windows /\ now.table = "pool" /\ now.subnet = q.on
    BY <1>4, <2>1 DEF SameRow, Tables, PicksFit, PicksWindow
  <2>3. SameRow(d, row) = {now}
    BY <2>1, <2>2 DEF SameRow, WindowIds
  <2> DEFINE n == EditedRow(now, row, q.win, stale)
  <2>4. n \in WindowRow
    BY <1>0, <2>2, EditedTyped DEF EditedRow
  <2>5. n.subnet = q.on /\ n.stale = stale /\ n.table = "pool"
    BY <2>2 DEF EditedRow, WindowRow
  <2>6. e.windows = (d.windows \ SameRow(d, row)) \cup
                    {EditedRow(x, row, q.win, stale) : x \in SameRow(d, row)}
    BY <1>1, <1>4 DEF WindowsEffect
  <2>7. e.windows \subseteq (d.windows \ {now}) \cup {n}
    BY <2>3, <2>6
  <2> WITNESS n
  <2> HIDE DEF n
  <2> QED
    BY <1>4, <2>1, <2>4, <2>5, <2>7 DEF Places, n
<1> QED
  BY <1>2, <1>3, <1>4 DEF WritesWindow

\* What is written on checked tables overlaps with nothing there.
LEMMA CheckedIsApart ==
    ASSUME NEW d \in Tables, NEW q \in Request, Filled(q), NEW row, WritesWindow(q),
           WindowIds(d), row \in Rows(d, q), Accepts(d, q, row),
           NEW w \in d.windows, w # row, w.subnet = q.on,
           w.table = IF q.kind = "add range" THEN "range" ELSE "pool"
    PROVE  Within(q.win) \cap Within(w.win) = {}
<1>1. WindowOk(d, q, row) /\ (q.kind # "edit pool" => row = None)
  <2>1. CASE q.kind = "add range"
    BY <2>1 DEF Accepts, CreateRange, Rows
  <2>2. CASE q.kind = "add pool"
    BY <2>2 DEF Accepts, CreatePool, Rows
  <2>3. CASE q.kind = "edit pool"
    BY <2>3 DEF Accepts, UpdatePool
  <2> QED
    BY <2>1, <2>2, <2>3 DEF WritesWindow
<1>2. CASE q.kind = "edit pool"
  <2>1. w \in Others(d, q, row)
    BY <1>2 DEF Others
  <2> QED
    BY <1>1, <2>1, NoClashIsApart DEF WindowOk, Filled, WritesWindow, Tables, WindowRow
<1>3. CASE q.kind # "edit pool"
  <2>1. w \in Others(d, q, row)
    BY <1>3 DEF Others
  <2> QED
    BY <1>1, <2>1, NoClashIsApart DEF WindowOk, Filled, WritesWindow, Tables, WindowRow
<1> QED
  BY <1>2, <1>3

LEMMA WindowsKept ==
    ASSUME NEW d \in Tables, NEW q \in Request, Filled(q), NEW row, NEW id \in Nat,
           NEW stale \in BOOLEAN, NEW e, e = Written(d, q, row, id, stale),
           ~Refuses(d, q, row), WindowIds(d), WindowsApart(d),
           PicksFit(d, q, row), WritesFit(q),
           ~stale => row \in Rows(d, q) /\ Accepts(d, q, row)
    PROVE  WindowsApart(e)
<1>1. CASE ~WritesWindow(q)
  <2>1. e.windows \subseteq d.windows
    BY <1>1, FewerWindows
  <2> QED
    BY <2>1 DEF WindowsApart
<1>2. CASE WritesWindow(q)
  <2>1. PICK n : Places(d, q, row, id, stale, e, n)
    BY <1>2, OneIsWritten
  <2>2. n \in WindowRow /\ e.windows \subseteq d.windows \cup {n} /\ n.subnet = q.on /\ n.stale = stale
    BY <2>1 DEF Places
  <2>3. q.win \in Window
    BY <1>2 DEF WritesWindow, Filled
  <2>4. {q.win.lo, q.win.hi} \subseteq Net[q.on] /\ q.win.lo \in Nat /\ q.win.hi \in Nat
        /\ ~(q.win.lo > q.win.hi)
    <3>1. q.win.lo \in Nat /\ q.win.hi \in Nat
      BY <2>3, NetAssumption DEF Window
    <3>2. {q.win.lo, q.win.hi} \subseteq Net[q.on] /\ q.win.lo <= q.win.hi
      BY <1>2 DEF WritesFit
    <3>3. ~(q.win.lo > q.win.hi)
      BY <3>1, <3>2
    <3> QED
      BY <3>1, <3>2, <3>3, Zenon
  <2>5. ~stale => n.win = q.win
    <3>1. CASE q.kind # "edit pool"
      BY <2>1, <3>1 DEF Places
    <3>2. CASE q.kind = "edit pool" /\ ~stale
      <4>1. PICK now \in SameRow(d, row) : n = EditedRow(now, row, q.win, stale)
        BY <2>1, <3>2 DEF Places
      <4>2. row \in d.windows /\ now \in d.windows /\ now = row /\ row \in WindowRow
        BY <3>2, <4>1 DEF Rows, SameRow, WindowIds, Tables
      <4>3. n.win = Edited(row, row, q.win)
        BY <4>1, <4>2 DEF EditedRow, WindowRow
      <4>4. q.win = [lo |-> q.win.lo, hi |-> q.win.hi, name |-> q.win.name]
        BY <2>3 DEF Window
      <4>5. Edited(row, row, q.win) = [lo |-> q.win.lo, hi |-> q.win.hi, name |-> q.win.name]
        BY DEF Edited
      <4> QED
        BY <4>3, <4>4, <4>5
    <3> QED
      BY <3>1, <3>2
  <2>6. Sound(n)
    <3>1. CASE n.win = q.win
      BY <2>2, <2>4, <3>1 DEF Sound
    <3>2. CASE n.win # q.win
      <4>1. stale /\ q.kind = "edit pool"
        BY <2>1, <2>5, <3>2 DEF Places
      <4>2. PICK now \in SameRow(d, row) : n = EditedRow(now, row, q.win, stale)
        BY <2>1, <4>1 DEF Places
      <4>3. now \in d.windows /\ now \in WindowRow /\ now.subnet = q.on
        BY <4>1, <4>2 DEF SameRow, Tables, PicksFit, PicksWindow
      <4>4. {now.win.lo, now.win.hi} \subseteq Net[q.on]
        BY <4>3 DEF WindowsApart
      <4>5. n.win = Edited(now, row, q.win)
        BY <4>2, <4>3 DEF EditedRow, WindowRow
      <4>6. n.win.lo \in {now.win.lo, q.win.lo} /\ n.win.hi \in {now.win.hi, q.win.hi}
        <5>1. /\ Edited(now, row, q.win).lo = IF row.win.lo = q.win.lo THEN now.win.lo ELSE q.win.lo
              /\ Edited(now, row, q.win).hi = IF row.win.hi = q.win.hi THEN now.win.hi ELSE q.win.hi
          BY DEF Edited
        <5> QED
          BY <4>5, <5>1, Zenon
      <4> QED
        BY <2>2, <2>4, <4>1, <4>4, <4>6 DEF Sound
    <3> QED
      BY <3>1, <3>2
  <2>7. \A w \in e.windows : w # n /\ Overlap(n, w) => n.stale \/ w.stale
    <3> SUFFICES ASSUME NEW w \in e.windows, w # n, Overlap(n, w), ~stale PROVE FALSE
      BY <2>2
    <3>1. w \in d.windows
      BY <2>2
    <3>2. n.win = q.win
      BY <2>5
    <3>3. w # row
      <4>1. CASE q.kind = "edit pool"
        <5>1. PICK now \in SameRow(d, row) : e.windows \subseteq (d.windows \ {now}) \cup {n}
          BY <2>1, <4>1 DEF Places
        <5>2. now = row
          BY <4>1, <5>1 DEF Rows, SameRow, WindowIds
        <5> QED
          BY <5>1, <5>2
      <4>2. CASE q.kind # "edit pool"
        <5>1. row = None
          BY <1>2, <4>2 DEF Rows, WritesWindow
        <5> QED
          BY <3>1, <5>1, NoneAssumption DEF Tables
      <4> QED
        BY <4>1, <4>2
    <3>4. w.subnet = q.on /\ w.table = IF q.kind = "add range" THEN "range" ELSE "pool"
      BY <2>1, <2>2 DEF Overlap, Places
    <3>5. Within(q.win) \cap Within(w.win) = {}
      BY <1>2, <3>1, <3>3, <3>4, CheckedIsApart
    <3> QED
      BY <3>2, <3>5 DEF Overlap
  <2> QED
    BY <2>2, <2>6, <2>7, OneMoreApart
<1> QED
  BY <1>1, <1>2

\* Every row written is numbered by its request, or keeps the number it has.
LEMMA IdsKept ==
    ASSUME NEW d \in Tables, NEW q \in Request, Filled(q), NEW row, NEW id \in Nat,
           NEW stale \in BOOLEAN, NEW e, e = Written(d, q, row, id, stale),
           ~Refuses(d, q, row), WindowIds(d), PicksFit(d, q, row),
           \A w \in d.windows : w.id # id
    PROVE  /\ WindowIds(e)
           /\ \A w \in e.windows :
                \/ w.id = id
                \/ \E v \in d.windows : v.table = w.table /\ v.id = w.id /\ v.subnet = w.subnet
<1>1. CASE ~WritesWindow(q)
  <2>1. e.windows \subseteq d.windows
    BY <1>1, FewerWindows
  <2> QED
    BY <2>1 DEF WindowIds
<1>2. CASE WritesWindow(q)
  <2>1. PICK n : Places(d, q, row, id, stale, e, n)
    BY <1>2, OneIsWritten
  <2>2. e.windows \subseteq d.windows \cup {n}
    BY <2>1 DEF Places
  <2>3. CASE q.kind # "edit pool"
    <3>1. n.id = id
      BY <2>1, <2>3 DEF Places
    <3>2. WindowIds(e)
      BY <2>2, <3>1 DEF WindowIds
    <3>3. \A w \in e.windows : w.id = id \/ w \in d.windows
      BY <2>2, <3>1
    <3> QED
      BY <3>2, <3>3
  <2>4. CASE q.kind = "edit pool"
    <3>1. PICK now \in SameRow(d, row) : /\ n = EditedRow(now, row, q.win, stale)
                                         /\ e.windows \subseteq (d.windows \ {now}) \cup {n}
      BY <2>1, <2>4 DEF Places
    <3>2. now \in d.windows /\ now \in WindowRow
      BY <3>1 DEF SameRow, Tables
    <3>3. n.table = now.table /\ n.id = now.id /\ n.subnet = now.subnet
      BY <3>1, <3>2 DEF EditedRow, WindowRow
    <3>4. WindowIds(e)
      <4> SUFFICES ASSUME NEW v \in e.windows, NEW w \in e.windows, v.table = w.table, v.id = w.id
                   PROVE  v = w
        BY DEF WindowIds
      <4>1. \A x \in d.windows : x.table = now.table /\ x.id = now.id => x = now
        BY <3>2 DEF WindowIds
      <4>2. CASE v = n
        BY <3>1, <3>3, <4>1, <4>2
      <4>3. CASE w = n
        BY <3>1, <3>3, <4>1, <4>3
      <4>4. CASE v # n /\ w # n
        BY <3>1, <4>4 DEF WindowIds
      <4> QED
        BY <4>2, <4>3, <4>4
    <3>5. \A w \in e.windows : w = n \/ w \in d.windows
      BY <3>1
    <3>6. \A w \in e.windows :
            \E v \in d.windows : v.table = w.table /\ v.id = w.id /\ v.subnet = w.subnet
      BY <3>2, <3>3, <3>5
    <3> QED
      BY <3>4, <3>6
  <2> QED
    BY <2>3, <2>4
<1> QED
  BY <1>1, <1>2

LEMMA GrantsKept ==
    ASSUME NEW d \in Tables, NEW q \in Request, Filled(q), NEW row, NEW id \in Nat,
           NEW stale \in BOOLEAN, NEW e, e = Written(d, q, row, id, stale),
           GrantsApart(d), ~stale => Accepts(d, q, row)
    PROVE  GrantsApart(e)
<1>1. CASE q.kind = "grant"
  <2>1. GrantsEffect(d, q, row, id, stale, e)
    BY <1>1, WrittenGrants
  <2> DEFINE n == GrantOf(q, id, stale)
  <2>2. e.grants = d.grants \cup {n}
    BY <1>1, <2>1 DEF GrantsEffect
  <2>3. n.subnet = q.on /\ n.who = q.who /\ n.stale = stale
    BY DEF GrantOf
  <2>4. ~stale => \A g \in d.grants : ~(g.subnet = q.on /\ g.who = q.who)
    BY <1>1 DEF Accepts, CreateGrant, AlreadyGranted
  <2> HIDE DEF n
  <2> QED
    BY <2>2, <2>3, <2>4 DEF GrantsApart
<1>2. CASE q.kind # "grant"
  <2>1. e.grants \subseteq d.grants
    <3>1. CASE q.kind \in TreeKinds
      <4>1. TreeEffect(d, q, e)
        BY <3>1, WrittenTree
      <4> QED
        BY <4>1 DEF TreeEffect
    <3>2. CASE q.kind \in AddressKinds
      <4>1. AddressEffect(d, q, e)
        BY <3>2, WrittenAddress
      <4> QED
        BY <4>1 DEF AddressEffect
    <3>3. CASE q.kind \in WindowKinds
      <4>1. WindowsEffect(d, q, row, id, stale, e)
        BY <3>3, WrittenWindows
      <4> QED
        BY <4>1 DEF WindowsEffect
    <3>4. CASE q.kind = "revoke"
      <4>1. GrantsEffect(d, q, row, id, stale, e)
        BY <3>4, WrittenGrants
      <4> QED
        BY <3>4, <4>1 DEF GrantsEffect
    <3>5. CASE q.kind \in GroupKinds
      <4>1. GroupsEffect(d, q, e)
        BY <3>5, WrittenGroups
      <4> QED
        BY <4>1 DEF GroupsEffect
    <3>6. CASE q.kind \in UserKinds
      <4>1. UsersEffect(d, q, e)
        BY <3>6, WrittenUsers
      <4> QED
        BY <4>1 DEF UsersEffect
    <3> QED
      BY <1>2, <3>1, <3>2, <3>3, <3>4, <3>5, <3>6, Kinds
  <2> QED
    BY <2>1 DEF GrantsApart
<1> QED
  BY <1>1, <1>2

-----------------------------------------------------------------------------
(* The invariant is kept.                                                  *)

LEMMA SessionTyped ==
    ASSUME TypeOK, NEW c \in Clients, session[c] # None
    PROVE  /\ session[c] \in SessionRow
           /\ session[c].q \in Request /\ Filled(session[c].q)
           /\ session[c].id \in Nat /\ session[c].stale \in BOOLEAN
<1>1. session[c] \in SessionRow
  BY DEF TypeOK
<1> QED
  BY <1>1, RequestAssumption DEF SessionRow

LEMMA IInvInit == Init => IInv
<1> SUFFICES ASSUME Init PROVE IInv
  OBVIOUS
<1>1. /\ db \in Tables /\ ForeignKeys(db) /\ WindowsApart(db) /\ GrantsApart(db)
      /\ \A v, w \in db.windows : v.id >= MaxRequests /\ (v.id = w.id => v = w)
  BY WorldAssumption DEF Init
<1>2. \A c \in Clients : session[c] = None
  BY DEF Init
<1>3. session \in [Clients -> SessionRow \cup {None}] /\ requests \in 0..MaxRequests
  BY BoundAssumption DEF Init
<1>4. \A w \in db.windows : w.id \in Nat
  BY <1>1 DEF Tables, WindowRow
<1>5. TypeOK /\ RowsDoNotClash
  BY <1>1, <1>3 DEF TypeOK, RowsDoNotClash
<1>6. IdsAreOwn
  BY <1>1, <1>2, <1>4 DEF IdsAreOwn, WindowIds, Numbered
<1>7. SessionsFit /\ FreshIsChecked /\ EmptyWhenRead
  BY <1>2 DEF SessionsFit, FreshIsChecked, EmptyWhenRead
<1> QED
  BY <1>5, <1>6, <1>7 DEF IInv

\* A request that begins has checked the tables as they are.
LEMMA BeginKeeps ==
    ASSUME IInv, NEW c \in Clients, NEW q \in Requests, Begin(c, q)
    PROVE  IInv'
<1>1. /\ session[c] = None /\ requests < MaxRequests /\ requests' = requests + 1
      /\ q.by \in db.enabled /\ db' = db
  BY DEF Begin
<1>2. PICK row \in Rows(db, q) :
        /\ Accepts(db, q, row)
        /\ session' = [session EXCEPT ![c] = [q |-> q, row |-> row, id |-> requests,
                                              stale |-> FALSE, home |-> db.home]]
  BY DEF Begin
<1> DEFINE s == [q |-> q, row |-> row, id |-> requests, stale |-> FALSE, home |-> db.home]
<1>3. /\ db \in Tables /\ ForeignKeys(db) /\ requests \in 0..MaxRequests
      /\ session \in [Clients -> SessionRow \cup {None}]
  BY DEF IInv, TypeOK
<1>4. requests \in Nat /\ MaxRequests \in Nat /\ requests' \in 0..MaxRequests
  BY <1>1, <1>3, BoundAssumption
<1>5. q \in Request /\ Filled(q)
  BY RequestAssumption
<1>6. row \in WindowRow \cup GrantRow \cup {None}
  <2>1. Rows(db, q) \subseteq db.windows \cup db.grants \cup {None}
    <3>1. CASE q.kind = "drop range"
      BY <3>1 DEF Rows
    <3>2. CASE q.kind \in {"edit pool", "drop pool"}
      BY <3>2 DEF Rows
    <3>3. CASE q.kind = "revoke"
      BY <3>3 DEF Rows
    <3>4. CASE q.kind \notin {"drop range", "edit pool", "drop pool", "revoke"}
      BY <3>4 DEF Rows
    <3> QED
      BY <3>1, <3>2, <3>3, <3>4
  <2> QED
    BY <1>3, <2>1 DEF Tables
<1>7. s \in SessionRow
  BY <1>3, <1>4, <1>6 DEF SessionRow, Tables
<1>8. s.q = q /\ s.row = row /\ s.id = requests /\ s.stale = FALSE /\ s.home = db.home
  OBVIOUS
<1>9. session' = [session EXCEPT ![c] = s]
  BY <1>2
<1> HIDE DEF s
<1>10. \A x \in Clients : session'[x] = IF x = c THEN s ELSE session[x]
  BY <1>3, <1>9
<1>11. TypeOK'
  BY <1>1, <1>3, <1>4, <1>7, <1>9 DEF TypeOK
<1>12. PicksWindow(q) =>
         /\ row \in db.windows /\ row.subnet = q.on
         /\ q.kind = "edit pool" => row.table = "pool"
  <2>1. CASE q.kind = "drop range"
    BY <2>1 DEF Rows
  <2>2. CASE q.kind \in {"edit pool", "drop pool"}
    BY <2>2 DEF Rows
  <2> QED
    BY <2>1, <2>2 DEF PicksWindow
<1>13. \A n : Numbered(n, requests) => Numbered(n, requests') /\ n # requests
  BY <1>1, <1>4 DEF Numbered
<1>14. PicksWindow(q) => Numbered(row.id, requests)
  BY <1>12 DEF IInv, IdsAreOwn
<1>15. IdsAreOwn'
  <2>1. WindowIds(db') /\ \A w \in db'.windows : Numbered(w.id, requests')
    BY <1>1, <1>13 DEF IInv, IdsAreOwn
  <2>2. ASSUME NEW x \in Clients, session'[x] # None
        PROVE  /\ session'[x].id < requests' /\ session'[x].id < MaxRequests
               /\ \A w \in db'.windows : w.id # session'[x].id
               /\ PicksWindow(session'[x].q) => Numbered(session'[x].row.id, requests')
    <3>1. CASE x = c
      <4>1. session'[x] = s
        BY <1>10, <3>1
      <4>2. \A w \in db.windows : w.id # requests
        BY <1>13 DEF IInv, IdsAreOwn
      <4> QED
        BY <1>1, <1>4, <1>8, <1>13, <1>14, <4>1, <4>2
    <3>2. CASE x # c
      <4>1. session'[x] = session[x]
        BY <1>10, <3>2
      <4>2. session[x].id \in Nat
        BY <2>2, <4>1, SessionTyped DEF IInv
      <4>3. /\ session[x].id < requests /\ session[x].id < MaxRequests
            /\ \A w \in db.windows : w.id # session[x].id
            /\ PicksWindow(session[x].q) => Numbered(session[x].row.id, requests)
        BY <2>2, <4>1 DEF IInv, IdsAreOwn
      <4> QED
        BY <1>1, <1>4, <1>13, <4>1, <4>2, <4>3
    <3> QED
      BY <3>1, <3>2
  <2>3. ASSUME NEW x \in Clients, session'[x] # None, NEW y \in Clients, session'[y] # None
        PROVE  /\ y # x => session'[y].id # session'[x].id
               /\ PicksWindow(session'[y].q) => session'[y].row.id # session'[x].id
    <3>1. \A z \in Clients : session[z] # None => session[z].id # requests
      <4> SUFFICES ASSUME NEW z \in Clients, session[z] # None PROVE session[z].id # requests
        OBVIOUS
      <4>1. session[z].id \in Nat /\ session[z].id < requests
        BY SessionTyped DEF IInv, IdsAreOwn
      <4> QED
        BY <1>4, <4>1
    <3>2. \A z \in Clients : session[z] # None /\ PicksWindow(session[z].q) =>
            session[z].row.id # requests
      BY <1>13 DEF IInv, IdsAreOwn
    <3>3. CASE x = c /\ y = c
      BY <1>8, <1>10, <1>13, <1>14, <3>3
    <3>4. CASE x = c /\ y # c
      BY <1>8, <1>10, <2>3, <3>1, <3>2, <3>4
    <3>5. CASE x # c /\ y = c
      <4>1. session[x] # None /\ session'[x] = session[x] /\ session'[y] = s
        BY <1>10, <2>3, <3>5
      <4>2. \A w \in db.windows : w.id # session[x].id
        BY <4>1 DEF IInv, IdsAreOwn
      <4> QED
        BY <1>8, <1>12, <3>1, <4>1, <4>2
    <3>6. CASE x # c /\ y # c
      <4>1. session'[x] = session[x] /\ session'[y] = session[y]
        BY <1>10, <3>6
      <4> QED
        BY <2>3, <4>1 DEF IInv, IdsAreOwn
    <3> QED
      BY <3>3, <3>4, <3>5, <3>6
  <2> QED
    BY <2>1, <2>2, <2>3 DEF IdsAreOwn
<1>16. PicksFit(db, q, row) /\ WritesFit(q)
  <2>1. PicksFit(db, q, row)
    <3>1. PicksWindow(q) => row \in WindowRow
      BY <1>3, <1>12 DEF Tables
    <3>2. PicksWindow(q) => \A w \in SameRow(db, row) : w = row
      BY <1>12 DEF SameRow, IInv, IdsAreOwn, WindowIds
    <3> QED
      BY <1>12, <3>1, <3>2 DEF PicksFit
  <2>2. WritesWindow(q) => WindowOk(db, q, row) \/ WindowOk(db, q, None)
    <3>1. CASE q.kind = "add range"
      BY <1>2, <3>1 DEF Accepts, CreateRange
    <3>2. CASE q.kind = "add pool"
      BY <1>2, <3>2 DEF Accepts, CreatePool
    <3>3. CASE q.kind = "edit pool"
      BY <1>2, <3>3 DEF Accepts, UpdatePool
    <3> QED
      BY <3>1, <3>2, <3>3 DEF WritesWindow
  <2> QED
    BY <2>1, <2>2 DEF WritesFit, WindowOk
<1>17. SessionsFit'
  BY <1>1, <1>8, <1>10, <1>16 DEF SessionsFit, IInv
<1>18. FreshIsChecked'
  BY <1>1, <1>2, <1>8, <1>10 DEF FreshIsChecked, IInv
<1>19. EmptyWhenRead'
  <2>1. q.kind = "drop subnet" => \A ip \in IPs : db.home[ip] # q.on
    BY <1>2 DEF Accepts, DeleteSubnet, IsEmpty, Recorded
  <2> QED
    BY <1>8, <1>10, <2>1 DEF EmptyWhenRead, IInv
<1>20. RowsDoNotClash'
  BY <1>1 DEF RowsDoNotClash, IInv
<1> QED
  BY <1>11, <1>15, <1>17, <1>18, <1>19, <1>20 DEF IInv

\* A request that is refused leaves the tables and the other ones alone.
LEMMA RefusalKeeps ==
    ASSUME IInv, NEW c \in Clients, session' = [session EXCEPT ![c] = None],
           db' = db, requests' = requests
    PROVE  IInv'
<1>1. session \in [Clients -> SessionRow \cup {None}]
  BY DEF IInv, TypeOK
<1>2. \A x \in Clients : session'[x] # None => session'[x] = session[x]
  BY <1>1
<1>3. TypeOK'
  BY <1>1 DEF IInv, TypeOK
<1>4. IdsAreOwn'
  BY <1>2 DEF IInv, IdsAreOwn
<1>5. SessionsFit'
  BY <1>2 DEF IInv, SessionsFit
<1>6. FreshIsChecked'
  BY <1>2 DEF IInv, FreshIsChecked
<1>7. EmptyWhenRead'
  BY <1>2 DEF IInv, EmptyWhenRead
<1>8. RowsDoNotClash'
  BY DEF IInv, RowsDoNotClash
<1> QED
  BY <1>3, <1>4, <1>5, <1>6, <1>7, <1>8 DEF IInv

\* The commit of one makes the others stale.
Overtaken(c) ==
    session' = [x \in Clients |->
        IF x = c \/ session[x] = None THEN None ELSE [session[x] EXCEPT !.stale = TRUE]]

LEMMA OvertakenSessions ==
    ASSUME TypeOK, NEW c \in Clients, Overtaken(c)
    PROVE  /\ session' \in [Clients -> SessionRow \cup {None}]
           /\ \A x \in Clients : session'[x] # None =>
                /\ x # c /\ session[x] # None /\ session'[x].stale = TRUE
                /\ session'[x].q = session[x].q /\ session'[x].row = session[x].row
                /\ session'[x].id = session[x].id /\ session'[x].home = session[x].home
<1>1. ASSUME NEW x \in Clients, session[x] # None
      PROVE  LET r == [session[x] EXCEPT !.stale = TRUE] IN
             /\ r \in SessionRow /\ r.stale = TRUE
             /\ r.q = session[x].q /\ r.row = session[x].row
             /\ r.id = session[x].id /\ r.home = session[x].home
  <2>1. session[x] \in SessionRow
    BY <1>1, SessionTyped
  <2> QED
    BY <2>1 DEF SessionRow
<1>2. \A x \in Clients : session'[x] =
        IF x = c \/ session[x] = None THEN None ELSE [session[x] EXCEPT !.stale = TRUE]
  BY DEF Overtaken
<1>3. \A x \in Clients : session'[x] \in SessionRow \cup {None}
  BY <1>1, <1>2
<1>4. session' \in [Clients -> SessionRow \cup {None}]
  BY <1>3 DEF Overtaken
<1> QED
  BY <1>1, <1>2, <1>4

LEMMA CommitKeeps ==
    ASSUME IInv, NEW c \in Clients, session[c] # None, requests' = requests,
           ~Refuses(db, session[c].q, session[c].row), Overtaken(c),
           db' = Written(db, session[c].q, session[c].row, session[c].id, session[c].stale)
    PROVE  IInv'
<1> DEFINE q == session[c].q
           row == session[c].row
           id == session[c].id
           stale == session[c].stale
<1>1. q \in Request /\ Filled(q) /\ id \in Nat /\ stale \in BOOLEAN
  BY SessionTyped DEF IInv
<1>2. db \in Tables /\ ForeignKeys(db) /\ requests \in 0..MaxRequests
  BY DEF IInv, TypeOK
<1>3. /\ WindowIds(db) /\ \A w \in db.windows : w.id # id
      /\ id < requests
  BY DEF IInv, IdsAreOwn
<1>4. PicksFit(db, q, row) /\ WritesFit(q) /\ WindowsApart(db) /\ GrantsApart(db)
  BY DEF IInv, SessionsFit, RowsDoNotClash
<1>5. ~stale => row \in Rows(db, q) /\ Accepts(db, q, row)
  BY DEF IInv, FreshIsChecked
<1>6. ~Refuses(db, q, row) /\ db' = Written(db, q, row, id, stale)
  OBVIOUS
<1>7. \A x \in Clients : session'[x] # None =>
        /\ x # c /\ session[x] # None /\ session'[x].stale = TRUE
        /\ session'[x].q = session[x].q /\ session'[x].row = session[x].row
        /\ session'[x].id = session[x].id /\ session'[x].home = session[x].home
  BY OvertakenSessions DEF IInv
<1>8. \A x \in Clients : session[x] # None /\ PicksWindow(session[x].q) =>
        session[x].row.id # id
  BY DEF IInv, IdsAreOwn
<1> HIDE DEF q, row, id, stale
<1>9. db' \in Tables /\ ForeignKeys(db')
  BY <1>1, <1>2, <1>6, KeysKept
<1>10. WindowsApart(db')
  BY <1>1, <1>2, <1>3, <1>4, <1>5, <1>6, WindowsKept
<1>11. GrantsApart(db')
  BY <1>1, <1>2, <1>4, <1>5, <1>6, GrantsKept
<1>12. /\ WindowIds(db')
       /\ \A w \in db'.windows :
            \/ w.id = id
            \/ \E v \in db.windows : v.table = w.table /\ v.id = w.id /\ v.subnet = w.subnet
  BY <1>1, <1>2, <1>3, <1>4, <1>6, IdsKept
<1>13. TypeOK'
  <2>1. session' \in [Clients -> SessionRow \cup {None}]
    BY OvertakenSessions DEF IInv
  <2> QED
    BY <1>2, <1>9, <2>1 DEF TypeOK
<1>14. IdsAreOwn'
  <2>1. Numbered(id, requests)
    BY <1>1, <1>3 DEF Numbered
  <2>2. \A w \in db'.windows : Numbered(w.id, requests)
    BY <1>12, <2>1 DEF IInv, IdsAreOwn
  <2>3. ASSUME NEW x \in Clients, session'[x] # None
        PROVE  \A w \in db'.windows : w.id # session'[x].id
    <3>1. session'[x].id = session[x].id /\ x # c /\ session[x] # None
      BY <1>7, <2>3
    <3>2. session[x].id # id /\ \A v \in db.windows : v.id # session[x].id
      BY <3>1 DEF IInv, IdsAreOwn, id
    <3> QED
      BY <1>12, <3>1, <3>2
  <2>4. ASSUME NEW x \in Clients, session'[x] # None
        PROVE  /\ session'[x].id < requests' /\ session'[x].id < MaxRequests
               /\ PicksWindow(session'[x].q) => Numbered(session'[x].row.id, requests')
               /\ \A y \in Clients : session'[y] # None =>
                    /\ y # x => session'[y].id # session'[x].id
                    /\ PicksWindow(session'[y].q) => session'[y].row.id # session'[x].id
    BY <1>7, <2>4 DEF IInv, IdsAreOwn
  <2> QED
    BY <1>12, <2>2, <2>3, <2>4 DEF IdsAreOwn
<1>15. SessionsFit'
  <2> SUFFICES ASSUME NEW x \in Clients, session'[x] # None
               PROVE  PicksFit(db', session'[x].q, session'[x].row) /\ WritesFit(session'[x].q)
    BY DEF SessionsFit
  <2>1. session[x] # None /\ session'[x].q = session[x].q /\ session'[x].row = session[x].row
    BY <1>7
  <2>2. PicksFit(db, session[x].q, session[x].row) /\ WritesFit(session[x].q)
    BY <2>1 DEF IInv, SessionsFit
  <2>3. ASSUME PicksWindow(session[x].q), NEW w \in SameRow(db', session[x].row)
        PROVE  w.subnet = session[x].q.on
    <3>1. w \in db'.windows /\ w.table = session[x].row.table /\ w.id = session[x].row.id
      BY <2>3 DEF SameRow
    <3>2. w.id # id
      BY <1>8, <2>1, <2>3, <3>1
    <3>3. PICK v \in db.windows : v.table = w.table /\ v.id = w.id /\ v.subnet = w.subnet
      BY <1>12, <3>1, <3>2
    <3>4. v \in SameRow(db, session[x].row)
      BY <3>1, <3>3 DEF SameRow
    <3> QED
      BY <2>2, <2>3, <3>3, <3>4 DEF PicksFit
  <2> QED
    BY <2>1, <2>2, <2>3 DEF PicksFit
<1>16. FreshIsChecked'
  BY <1>7 DEF FreshIsChecked
<1>17. EmptyWhenRead'
  <2> SUFFICES ASSUME NEW x \in Clients, session'[x] # None, session'[x].q.kind = "drop subnet",
                      NEW ip \in IPs
               PROVE  session'[x].home[ip] # session'[x].q.on
    BY DEF EmptyWhenRead
  <2>1. session[x] # None /\ session'[x].q = session[x].q /\ session'[x].home = session[x].home
    BY <1>7
  <2> QED
    BY <2>1 DEF EmptyWhenRead, IInv
<1> QED
  BY <1>10, <1>11, <1>13, <1>14, <1>15, <1>16, <1>17 DEF IInv, RowsDoNotClash

LEMMA IInvNext == IInv /\ [Next]_vars => IInv'
<1> SUFFICES ASSUME IInv, [Next]_vars PROVE IInv'
  OBVIOUS
<1>1. CASE UNCHANGED vars
  BY <1>1 DEF vars, IInv, TypeOK, IdsAreOwn, SessionsFit, FreshIsChecked, EmptyWhenRead, RowsDoNotClash
<1>2. ASSUME NEW c \in Clients, Commit(c) PROVE IInv'
  <2>1. session[c] # None /\ requests' = requests
    BY <1>2 DEF Commit
  <2>2. \/ /\ ~Refuses(db, session[c].q, session[c].row) /\ Overtaken(c)
           /\ db' = Written(db, session[c].q, session[c].row, session[c].id, session[c].stale)
        \/ session' = [session EXCEPT ![c] = None] /\ db' = db
    BY <1>2 DEF Commit, Overtaken
  <2> QED
    BY <2>1, <2>2, CommitKeeps, RefusalKeeps
<1>3. ASSUME NEW c \in Clients, NEW q \in Requests, Begin(c, q) PROVE IInv'
  BY <1>3, BeginKeeps
<1> QED
  BY <1>1, <1>2, <1>3 DEF Next

LEMMA IInvHolds == Spec => []IInv
BY IInvInit, IInvNext, PTL DEF Spec

-----------------------------------------------------------------------------
(* Theorems.                                                               *)

\* Every row has its type, and what it refers to exists, whatever requests
\* overlap.
THEOREM TreeTypes == Spec => []TypeOK
BY IInvHolds, PTL DEF IInv

\* Ranges, pools and grants are kept apart by checks alone, but for what
\* overlapping requests write.
THEOREM RowsStayApart == Spec => []RowsDoNotClash
BY IInvHolds, PTL DEF IInv

\* The request that ends in a step is the one that commits.
LEMMA EndsByCommit ==
    ASSUME IInv, Next, NEW c \in Clients, Ends(c)
    PROVE  Commit(c)
<1>1. session \in [Clients -> SessionRow \cup {None}] /\ session[c] # None /\ session'[c] = None
  BY DEF IInv, TypeOK, Ends
<1>2. ASSUME NEW x \in Clients, NEW q \in Requests, Begin(x, q) PROVE FALSE
  BY <1>1, <1>2 DEF Begin
<1>3. ASSUME NEW x \in Clients, Commit(x), x # c PROVE FALSE
  <2>1. CASE Overtaken(x)
    <3>1. session'[c] = [session[c] EXCEPT !.stale = TRUE]
      BY <1>1, <1>3, <2>1 DEF Overtaken
    <3>2. session'[c] \in SessionRow
      BY <1>1, <3>1 DEF SessionRow
    <3> QED
      BY <1>1, <3>2, NoneAssumption
  <2>2. CASE session' = [session EXCEPT ![x] = None]
    BY <1>1, <1>3, <2>2
  <2> QED
    BY <1>3, <2>1, <2>2 DEF Commit, Overtaken
<1> QED
  BY <1>2, <1>3 DEF Next

\* The deletion of a subnet loses no address that it has seen.
THEOREM DeletionSpares == Spec => DeletionSparesAddresses
<1>1. IInv /\ [Next]_vars =>
        [\A c \in Clients : Ends(c) /\ session[c].q.kind = "drop subnet" =>
           \A ip \in IPs : db'.home[ip] # db.home[ip] => session[c].home[ip] # db.home[ip]]_vars
  <2> SUFFICES ASSUME IInv, Next, NEW c \in Clients, Ends(c), session[c].q.kind = "drop subnet",
                      NEW ip \in IPs, db'.home[ip] # db.home[ip]
               PROVE  session[c].home[ip] # db.home[ip]
    OBVIOUS
  <2>1. Commit(c) /\ session[c] # None
    BY EndsByCommit DEF Ends
  <2>2. db' = Written(db, session[c].q, session[c].row, session[c].id, session[c].stale)
    BY <2>1 DEF Commit
  <2>3. db \in Tables /\ session[c].q \in Request /\ Filled(session[c].q)
        /\ session[c].stale \in BOOLEAN
    BY <2>1, SessionTyped DEF IInv, TypeOK
  <2>4. TreeEffect(db, session[c].q, db')
    BY <2>2, <2>3, WrittenTree DEF TreeKinds
  <2>5. db.home[ip] = session[c].q.on
    BY <2>4 DEF TreeEffect
  <2>6. session[c].home[ip] # session[c].q.on
    BY <2>1 DEF IInv, EmptyWhenRead
  <2> QED
    BY <2>5, <2>6
<1> QED
  BY <1>1, IInvHolds, PTL DEF Spec, DeletionSparesAddresses

\* Unless two requests overlap, an administrator stays: the one who asks, or the
\* other one that the count has found.
LEMMA AdminStays ==
    ASSUME NEW d \in Tables, ForeignKeys(d), NEW q \in Request, Filled(q), NEW row,
           NEW id \in Nat, NEW stale \in BOOLEAN, NEW e, e = Written(d, q, row, id, stale),
           Accepts(d, q, row), q.by \in d.enabled, Admins(d) # {}
    PROVE  Admins(e) # {}
<1>0. PICK a \in d.enabled : d.role[a] = "admin"
  BY DEF Admins
<1>1. d.enabled \subseteq Users /\ d.role \in [Users -> Roles \cup {Absent}]
  BY DEF Tables
<1>2. CASE q.kind \in UserKinds
  <2>1. UsersEffect(d, q, e)
    BY <1>2, WrittenUsers
  <2>2. q.who \in Users
    BY <1>2 DEF Filled
  <2>3. CASE q.kind = "add user"
    <3>1. d.role[q.who] = Absent
      BY <2>3 DEF Accepts, CreateUser
    <3>2. a # q.who
      BY <1>0, <3>1, NoneAssumption DEF Roles
    <3>3. e.role[a] = "admin" /\ a \in e.enabled
      BY <1>0, <1>1, <2>1, <2>3, <3>2 DEF UsersEffect
    <3> QED
      BY <3>3 DEF Admins
  <2>4. CASE q.kind = "set role"
    <3>1. UpdateRole(d, q)
      BY <2>4 DEF Accepts
    <3>2. e.enabled = d.enabled /\ \A u \in Users : e.role[u] = IF u = q.who THEN q.role ELSE d.role[u]
      BY <1>1, <2>1, <2>4 DEF UsersEffect
    <3>3. CASE q.role = "admin"
      BY <1>0, <1>1, <3>2, <3>3 DEF Admins
    <3>4. CASE q.role # "admin"
      <4>1. ~LastAdmin(d, q.who)
        BY <3>1, <3>4 DEF UpdateRole
      <4>2. PICK b \in d.enabled : d.role[b] = "admin" /\ b # q.who
        BY <1>0, <4>1 DEF LastAdmin, Admins
      <4> QED
        BY <1>1, <3>2, <4>2 DEF Admins
    <3> QED
      BY <3>3, <3>4
  <2>5. CASE q.kind = "enable"
    BY <1>0, <2>1, <2>5 DEF UsersEffect, Admins
  <2>6. CASE q.kind = "disable"
    <3>1. d.role[q.by] = "admin" /\ q.who # q.by
      BY <2>6 DEF Accepts, Disable, IsAdmin
    <3> QED
      BY <2>1, <2>6, <3>1 DEF UsersEffect, Admins
  <2>7. CASE q.kind = "drop user"
    <3>1. d.role[q.by] = "admin" /\ q.who # q.by
      BY <2>7 DEF Accepts, DeleteUser, IsAdmin
    <3>2. e.role[q.by] = "admin" /\ q.by \in e.enabled
      BY <1>1, <2>1, <2>7, <3>1 DEF UsersEffect
    <3> QED
      BY <3>2 DEF Admins
  <2> QED
    BY <1>2, <2>3, <2>4, <2>5, <2>6, <2>7 DEF UserKinds
<1>3. CASE q.kind \notin UserKinds
  <2>1. e.role = d.role /\ e.enabled = d.enabled
    <3>1. CASE q.kind \in TreeKinds
      <4>1. TreeEffect(d, q, e)
        BY <3>1, WrittenTree
      <4> QED
        BY <4>1 DEF TreeEffect
    <3>2. CASE q.kind \in AddressKinds
      <4>1. AddressEffect(d, q, e)
        BY <3>2, WrittenAddress
      <4> QED
        BY <4>1 DEF AddressEffect
    <3>3. CASE q.kind \in WindowKinds
      <4>1. WindowsEffect(d, q, row, id, stale, e)
        BY <3>3, WrittenWindows
      <4> QED
        BY <4>1 DEF WindowsEffect
    <3>4. CASE q.kind \in {"grant", "revoke"}
      <4>1. GrantsEffect(d, q, row, id, stale, e)
        BY <3>4, WrittenGrants
      <4> QED
        BY <4>1 DEF GrantsEffect
    <3>5. CASE q.kind \in GroupKinds
      <4>1. GroupsEffect(d, q, e)
        BY <3>5, WrittenGroups
      <4> QED
        BY <4>1 DEF GroupsEffect
    <3> QED
      BY <1>3, <3>1, <3>2, <3>3, <3>4, <3>5, Kinds
  <2> QED
    BY <2>1 DEF Admins
<1> QED
  BY <1>2, <1>3

\* The right to administrate is lost only to overlapping requests.
THEOREM AnAdminRemains == Spec => AdminRemains
<1>1. IInv /\ [Next]_vars =>
        [Admins(db) # {} /\ Admins(db') = {} => \E c \in Clients : Ends(c) /\ session[c].stale]_vars
  <2> SUFFICES ASSUME IInv, Next, Admins(db) # {}, Admins(db') = {}
               PROVE  \E c \in Clients : Ends(c) /\ session[c].stale
    OBVIOUS
  <2>1. db' # db
    OBVIOUS
  <2>2. PICK c \in Clients : Commit(c)
    BY <2>1 DEF Next, Begin
  <2>3. /\ session[c] # None /\ Overtaken(c)
        /\ db' = Written(db, session[c].q, session[c].row, session[c].id, session[c].stale)
    BY <2>1, <2>2 DEF Commit, Overtaken
  <2>4. Ends(c)
    BY <2>3 DEF Ends, Overtaken
  <2>5. /\ db \in Tables /\ ForeignKeys(db) /\ session[c].q \in Request /\ Filled(session[c].q)
        /\ session[c].id \in Nat /\ session[c].stale \in BOOLEAN
    BY <2>3, SessionTyped DEF IInv, TypeOK
  <2>6. ~session[c].stale =>
          Accepts(db, session[c].q, session[c].row) /\ session[c].q.by \in db.enabled
    BY <2>3 DEF IInv, FreshIsChecked
  <2>7. session[c].stale
    BY <2>3, <2>5, <2>6, AdminStays
  <2> QED
    BY <2>4, <2>7
<1> QED
  BY <1>1, IInvHolds, PTL DEF Spec, AdminRemains

-----------------------------------------------------------------------------
(* Walks over the tree.                                                    *)

NatLess == {p \in Nat \X Nat : p[1] < p[2]}

\* A set of natural numbers that is not empty has a least element.
LEMMA NatMinimum ==
    ASSUME NEW T \in SUBSET Nat, T # {}
    PROVE  \E n \in T : \A m \in T : n <= m
<1>1. IsWellFoundedOn(NatLess, Nat)
  BY NatLessThanWellFounded DEF OpToRel, NatLess
<1>2. PICK n \in T : \A m \in T : ~(<<m, n>> \in NatLess)
  BY <1>1, WFMin
<1>3. \A m \in T : ~(m < n)
  BY <1>2 DEF NatLess
<1> QED
  BY <1>3

\* A search that widens a set n times; every walk of the module is one.
Widens(F, A, n, w) == w = [i \in 0..n |-> IF i = 0 THEN A ELSE F[w[i - 1]]]

\* Such a search exists.
LEMMA WidensExists ==
    ASSUME NEW F, NEW A, NEW n \in Nat
    PROVE  \E w : Widens(F, A, n, w)
<1> DEFINE T == {m \in Nat : ~\E w : Widens(F, A, m, w)}
<1>1. SUFFICES ASSUME T # {} PROVE FALSE
  BY <1>1
<1>2. PICK m \in T : \A l \in T : m <= l
  <2>1. T \in SUBSET Nat
    OBVIOUS
  <2> HIDE DEF T
  <2> QED
    BY <1>1, <2>1, NatMinimum
<1>3. m \in Nat /\ ~\E w : Widens(F, A, m, w)
  BY <1>2
<1>4. CASE m = 0
  <2> DEFINE w == [i \in 0..0 |-> A]
  <2>1. w = [i \in 0..0 |-> IF i = 0 THEN A ELSE F[w[i - 1]]]
    OBVIOUS
  <2>2. Widens(F, A, 0, w)
    BY <2>1 DEF Widens
  <2> QED
    BY <1>3, <1>4, <2>2
<1>5. CASE m # 0
  <2>1. m - 1 \in Nat /\ m - 1 \notin T
    BY <1>2, <1>3, <1>5
  <2>2. PICK g : Widens(F, A, m - 1, g)
    BY <2>1
  <2> DEFINE f == [i \in 0..m |-> IF i = m THEN F[g[m - 1]] ELSE g[i]]
             h == [i \in 0..m |-> IF i = 0 THEN A ELSE F[f[i - 1]]]
  <2>3. \A i \in 0..(m - 1) : g[i] = IF i = 0 THEN A ELSE F[g[i - 1]]
    BY <2>1, <2>2 DEF Widens
  <2>4. ASSUME NEW i \in 0..m PROVE f[i] = h[i]
    <3>1. CASE i = m
      <4>1. f[m] = F[g[m - 1]] /\ f[m - 1] = g[m - 1]
        BY <1>3, <1>5
      <4> QED
        BY <1>3, <1>5, <3>1, <4>1
    <3>2. CASE i # m /\ i # 0
      <4>1. i - 1 \in 0..m /\ i - 1 # m /\ i \in 0..(m - 1)
        BY <1>3, <3>2
      <4>2. f[i] = g[i] /\ f[i - 1] = g[i - 1]
        BY <3>2, <4>1
      <4> QED
        BY <2>3, <3>2, <4>1, <4>2
    <3>3. CASE i # m /\ i = 0
      BY <1>3, <2>3, <3>3
    <3> QED
      BY <3>1, <3>2, <3>3
  <2>5. f = h
    BY <2>4
  <2>6. Widens(F, A, m, f)
    BY <2>5 DEF Widens
  <2> QED
    BY <1>3, <2>6
<1> QED
  BY <1>4, <1>5

\* What every step of a search keeps holds of all of it.
LEMMA StepByStep ==
    ASSUME NEW Good, NEW n \in Nat, NEW w, w[0] \in Good,
           \A i \in 1..n : w[i - 1] \in Good => w[i] \in Good
    PROVE  \A i \in 0..n : w[i] \in Good
<1> DEFINE T == {i \in 0..n : w[i] \notin Good}
<1>1. SUFFICES ASSUME T # {} PROVE FALSE
  BY <1>1
<1>2. PICK i \in T : \A l \in T : i <= l
  <2>1. T \in SUBSET Nat
    OBVIOUS
  <2> HIDE DEF T
  <2> QED
    BY <1>1, <2>1, NatMinimum
<1>3. i \in 1..n /\ i - 1 \in 0..n
  BY <1>2
<1>4. w[i - 1] \in Good
  BY <1>2, <1>3
<1> QED
  BY <1>2, <1>3, <1>4

\* Widened as often as there are elements, a set is closed: as long as a step
\* finds anything, the set has at least as many elements as steps were made.
LEMMA ClosedAtLast ==
    ASSUME NEW S, IsFiniteSet(S), NEW F \in [SUBSET S -> SUBSET S],
           \A X \in SUBSET S : X \subseteq F[X],
           NEW A \in SUBSET S, NEW w,
           w[0] = A, \A i \in 1..Cardinality(S) : w[i] = F[w[i - 1]]
    PROVE  /\ w[Cardinality(S)] \in SUBSET S
           /\ A \subseteq w[Cardinality(S)]
           /\ F[w[Cardinality(S)]] = w[Cardinality(S)]
<1> DEFINE n == Cardinality(S)
<1>1. n \in Nat
  BY FS_CardinalityType
<1>2. \A i \in 0..n : w[i] \in {X \in SUBSET S : A \subseteq X}
  <2> DEFINE Good == {X \in SUBSET S : A \subseteq X}
  <2>1. w[0] \in Good
    OBVIOUS
  <2>2. \A i \in 1..n : w[i - 1] \in Good => w[i] \in Good
    OBVIOUS
  <2> HIDE DEF Good, n
  <2> QED
    BY <1>1, <2>1, <2>2, StepByStep DEF Good
<1>3. CASE \E i \in 0..n : F[w[i]] = w[i]
  <2>1. PICK i \in 0..n : F[w[i]] = w[i]
    BY <1>3
  <2> DEFINE v == [j \in 0..(n - i) |-> w[i + j]]
             Good == {w[i]}
  <2>2. n - i \in Nat
    BY <1>1
  <2>3. v[0] \in Good
    BY <2>2
  <2>4. \A j \in 1..(n - i) : v[j - 1] \in Good => v[j] \in Good
    <3> SUFFICES ASSUME NEW j \in 1..(n - i), v[j - 1] = w[i] PROVE v[j] = w[i]
      OBVIOUS
    <3>1. i + j \in 1..n /\ (i + j) - 1 = i + (j - 1) /\ j - 1 \in 0..(n - i) /\ j \in 0..(n - i)
      BY <1>1
    <3>2. w[i + j] = F[w[(i + j) - 1]]
      BY <3>1
    <3>3. v[j - 1] = w[i + (j - 1)] /\ v[j] = w[i + j]
      BY <3>1
    <3> QED
      BY <2>1, <3>1, <3>2, <3>3
  <2>5. v[n - i] \in Good
    <3> HIDE DEF v, Good, n
    <3>1. \A j \in 0..(n - i) : v[j] \in Good
      BY <2>2, <2>3, <2>4, StepByStep
    <3> QED
      BY <2>2, <3>1
  <2>6. w[n] = w[i]
    <3>1. v[n - i] = w[i + (n - i)] /\ i + (n - i) = n
      BY <1>1, <2>2
    <3> QED
      BY <2>5, <3>1
  <2>7. n \in 0..n
    BY <1>1
  <2> QED
    BY <1>2, <2>1, <2>6, <2>7
<1>4. CASE \A i \in 0..n : F[w[i]] # w[i]
  <2>1. \A X \in SUBSET S : IsFiniteSet(X) /\ Cardinality(X) \in Nat /\ Cardinality(X) <= n
    BY FS_Subset, FS_CardinalityType
  <2>2. \A i \in 1..n : Cardinality(w[i - 1]) < Cardinality(w[i])
    <3> SUFFICES ASSUME NEW i \in 1..n PROVE Cardinality(w[i - 1]) < Cardinality(w[i])
      OBVIOUS
    <3>1. i - 1 \in 0..n /\ i \in 0..n
      BY <1>1
    <3>2. w[i] = F[w[i - 1]] /\ w[i] # w[i - 1] /\ w[i - 1] \in SUBSET S /\ w[i] \in SUBSET S
      BY <1>2, <1>4, <3>1
    <3>3. w[i - 1] \subseteq w[i]
      BY <3>2
    <3> QED
      BY <2>1, <3>2, <3>3, FS_Subset, FS_CardinalityType
  <2> DEFINE T == {i \in 0..n : Cardinality(w[i]) < i}
  <2>3. T = {}
    <3>1. SUFFICES ASSUME T # {} PROVE FALSE
      BY <3>1
    <3>2. PICK i \in T : \A l \in T : i <= l
      <4>1. T \in SUBSET Nat
        OBVIOUS
      <4> HIDE DEF T
      <4> QED
        BY <3>1, <4>1, NatMinimum
    <3>3. i \in 0..n /\ Cardinality(w[i]) < i /\ Cardinality(w[i]) \in Nat
      BY <1>2, <2>1, <3>2
    <3>4. i \in 1..n /\ i - 1 \in 0..n
      BY <1>1, <3>3
    <3>5. i - 1 \notin T
      BY <3>2, <3>4
    <3>6. Cardinality(w[i - 1]) \in Nat /\ Cardinality(w[i - 1]) >= i - 1
      BY <1>2, <2>1, <3>4, <3>5
    <3> QED
      BY <2>2, <3>3, <3>4, <3>6
  <2>4. n \in 0..n /\ w[n] \in SUBSET S
    BY <1>1, <1>2
  <2>5. Cardinality(w[n]) >= n
    BY <1>1, <2>1, <2>3, <2>4
  <2>6. w[n] = S
    BY <2>1, <2>4, <2>5, FS_Subset
  <2>7. F[w[n]] = w[n]
    BY <2>4, <2>6
  <2> QED
    BY <1>4, <2>4, <2>7
<1> QED
  BY <1>3, <1>4

\* A search within a finite set, and its end.
Search(S, F, A, w) ==
    /\ IsFiniteSet(S) /\ F \in [SUBSET S -> SUBSET S] /\ \A X \in SUBSET S : X \subseteq F[X]
    /\ A \in SUBSET S /\ w[0] = A
    /\ \A i \in 1..Cardinality(S) : w[i - 1] \in SUBSET S => w[i] = F[w[i - 1]]
End(S, w) == w[Cardinality(S)]

\* It is closed, and the least closed set that has the start of the search.
LEMMA SearchEnds ==
    ASSUME NEW S, NEW F, NEW A, NEW w, Search(S, F, A, w)
    PROVE  /\ End(S, w) \in SUBSET S
           /\ A \subseteq End(S, w)
           /\ F[End(S, w)] = End(S, w)
<1> USE DEF Search, End
<1> DEFINE n == Cardinality(S)
<1>1. n \in Nat /\ n \in 0..n
  BY FS_CardinalityType
<1>2. \A i \in 0..n : w[i] \in SUBSET S
  <2> DEFINE Good == SUBSET S
  <2>1. w[0] \in Good /\ \A i \in 1..n : w[i - 1] \in Good => w[i] \in Good
    OBVIOUS
  <2> HIDE DEF Good, n
  <2> QED
    BY <1>1, <2>1, StepByStep DEF Good
<1>3. \A i \in 1..n : w[i] = F[w[i - 1]]
  <2> SUFFICES ASSUME NEW i \in 1..n PROVE w[i] = F[w[i - 1]]
    OBVIOUS
  <2>1. i - 1 \in 0..n
    BY <1>1
  <2> QED
    BY <1>2, <2>1
<1>5. \A X \in SUBSET S : X \subseteq F[X]
  OBVIOUS
<1>6. w[n] \in SUBSET S /\ A \subseteq w[n] /\ F[w[n]] = w[n]
  BY <1>3, <1>5, ClosedAtLast
<1> QED
  BY <1>6

LEMMA SearchIsLeast ==
    ASSUME NEW S, NEW F, NEW A, NEW w, Search(S, F, A, w),
           NEW X \in SUBSET S, A \subseteq X, \A Y \in SUBSET X : F[Y] \subseteq X
    PROVE  End(S, w) \subseteq X
<1> DEFINE n == Cardinality(S)
           Good == SUBSET X
<1>1. n \in Nat /\ n \in 0..n
  BY FS_CardinalityType DEF Search
<1>2. w[0] \in Good /\ \A i \in 1..n : w[i - 1] \in Good => w[i] \in Good
  BY DEF Search
<1>3. \A i \in 0..n : w[i] \in Good
  <2> HIDE DEF Good, n
  <2> QED
    BY <1>1, <1>2, StepByStep
<1> QED
  BY <1>1, <1>3 DEF End

\* The loop of Descendants.
DescendantsLoop(d, s, f) ==
    f = [n \in 0..Cardinality(Subnets) |->
           IF n = 0 THEN {s} ELSE LET found == f[n - 1] IN found \cup Children(d, found)]

\* What is below a subnet: the least set that has the subnet and is closed
\* under children.
LEMMA DescendantsAre ==
    ASSUME NEW d \in Tables, NEW s \in Subnets
    PROVE  /\ Descendants(d, s) \in SUBSET Subnets
           /\ s \in Descendants(d, s)
           /\ \A t \in Subnets : d.parent[t] \in Descendants(d, s) => t \in Descendants(d, s)
           /\ \A X \in SUBSET Subnets :
                s \in X /\ (\A t \in Subnets : d.parent[t] \in X => t \in X)
                => Descendants(d, s) \subseteq X
<1> DEFINE F == [X \in SUBSET Subnets |-> X \cup Children(d, X)]
           n == Cardinality(Subnets)
<1>1. IsFiniteSet(Subnets) /\ n \in Nat
  BY NetAssumption, FS_CardinalityType
<1>2. /\ F \in [SUBSET Subnets -> SUBSET Subnets]
      /\ \A X \in SUBSET Subnets : F[X] = X \cup Children(d, X)
  BY DEF Children
<1>3. {s} \in SUBSET Subnets
  OBVIOUS
<1> HIDE DEF F
<1>4. \E w : DescendantsLoop(d, s, w)
  <2> HIDE DEF n
  <2>1. PICK w : Widens(F, {s}, n, w)
    BY <1>1, WidensExists
  <2>2. \A i \in 0..n : w[i] = IF i = 0 THEN {s} ELSE F[w[i - 1]]
    BY <2>1 DEF Widens
  <2>3. \A i \in 0..n : w[i] \in SUBSET Subnets
    <3> DEFINE Good == SUBSET Subnets
    <3>1. w[0] \in Good /\ \A i \in 1..n : w[i - 1] \in Good => w[i] \in Good
      BY <1>1, <1>2, <1>3, <2>2
    <3> HIDE DEF Good
    <3> QED
      BY <1>1, <3>1, StepByStep DEF Good
  <2>4. \A i \in 0..n : (IF i = 0 THEN {s} ELSE F[w[i - 1]]) =
                        IF i = 0 THEN {s} ELSE w[i - 1] \cup Children(d, w[i - 1])
    <3> SUFFICES ASSUME NEW i \in 0..n, i # 0 PROVE F[w[i - 1]] = w[i - 1] \cup Children(d, w[i - 1])
      OBVIOUS
    <3>1. i - 1 \in 0..n
      BY <1>1
    <3> QED
      BY <1>2, <2>3, <3>1
  <2>5. w = [i \in 0..n |-> IF i = 0 THEN {s} ELSE w[i - 1] \cup Children(d, w[i - 1])]
    BY <2>1, <2>4 DEF Widens
  <2> QED
    BY <2>5 DEF DescendantsLoop, n
<1> DEFINE f == CHOOSE w : DescendantsLoop(d, s, w)
<1>5. DescendantsLoop(d, s, f)
  BY <1>4
<1>6. Descendants(d, s) = f[n]
  BY DEF Descendants, DescendantsLoop
<1> HIDE DEF f
<1>7. f[0] = {s} /\ \A i \in 1..n : f[i] = f[i - 1] \cup Children(d, f[i - 1])
  <2> DEFINE A == {s}
             More(X) == X \cup Children(d, X)
  <2>1. f = [i \in 0..n |-> IF i = 0 THEN A ELSE More(f[i - 1])]
    BY <1>5 DEF DescendantsLoop
  <2> HIDE DEF A, More, n
  <2>2. f[0] = A /\ \A i \in 1..n : f[i] = More(f[i - 1])
    BY <1>1, <2>1
  <2> QED
    BY <2>2 DEF A, More
<1>8. \A i \in 1..n : f[i - 1] \in SUBSET Subnets => f[i] = F[f[i - 1]]
  BY <1>2, <1>7
<1>9. Search(Subnets, F, {s}, f) /\ f[n] = End(Subnets, f)
  BY <1>1, <1>2, <1>3, <1>7, <1>8 DEF Search, End
<1>e. /\ f[n] \in SUBSET Subnets
      /\ {s} \subseteq f[n]
      /\ F[f[n]] = f[n]
  <2> DEFINE A == {s}
  <2> HIDE DEF A, n
  <2>1. f[n] \in SUBSET Subnets /\ A \subseteq f[n] /\ F[f[n]] = f[n]
    BY <1>9, SearchEnds DEF A
  <2> QED
    BY <2>1 DEF A
<1> HIDE DEF n
<1>10. \A t \in Subnets : d.parent[t] \in f[n] => t \in f[n]
  BY <1>2, <1>e DEF Children
<1>11. ASSUME NEW X \in SUBSET Subnets, s \in X, \A t \in Subnets : d.parent[t] \in X => t \in X
       PROVE  f[n] \subseteq X
  <2>1. \A Y \in SUBSET X : F[Y] \subseteq X
    BY <1>2, <1>11 DEF Children
  <2>2. {s} \subseteq X
    BY <1>11
  <2> QED
    BY <1>9, <2>1, <2>2, SearchIsLeast
<1> QED
  BY <1>6, <1>e, <1>10, <1>11

\* The loop of Above.
AboveLoop(d, s, f) ==
    f = [n \in 0..Cardinality(Subnets) |->
           IF n = 0 THEN {s}
           ELSE LET found == f[n - 1] IN found \cup ({d.parent[t] : t \in found} \ {None, Absent})]

\* What is above a subnet: the least set that has the subnet and is closed
\* under parents.
LEMMA AboveAre ==
    ASSUME NEW d \in Tables, NEW s \in Subnets
    PROVE  /\ Above(d, s) \in SUBSET Subnets
           /\ s \in Above(d, s)
           /\ \A t \in Above(d, s) : d.parent[t] \in Subnets => d.parent[t] \in Above(d, s)
           /\ \A X \in SUBSET Subnets :
                s \in X /\ (\A t \in X : d.parent[t] \in Subnets => d.parent[t] \in X)
                => Above(d, s) \subseteq X
<1> DEFINE Parents(X) == {d.parent[t] : t \in X} \ {None, Absent}
           F == [X \in SUBSET Subnets |-> X \cup Parents(X)]
           n == Cardinality(Subnets)
<1>1. IsFiniteSet(Subnets) /\ n \in Nat
  BY NetAssumption, FS_CardinalityType
<1>p. d.parent \in [Subnets -> Subnets \cup {None, Absent}] /\ {None, Absent} \cap Subnets = {}
  BY NoneAssumption DEF Tables
<1>2. /\ F \in [SUBSET Subnets -> SUBSET Subnets]
      /\ \A X \in SUBSET Subnets : F[X] = X \cup Parents(X)
  BY <1>p
<1>3. {s} \in SUBSET Subnets
  OBVIOUS
<1> HIDE DEF F
<1>4. \E w : AboveLoop(d, s, w)
  <2> HIDE DEF n
  <2>1. PICK w : Widens(F, {s}, n, w)
    BY <1>1, WidensExists
  <2>2. \A i \in 0..n : w[i] = IF i = 0 THEN {s} ELSE F[w[i - 1]]
    BY <2>1 DEF Widens
  <2>3. \A i \in 0..n : w[i] \in SUBSET Subnets
    <3> DEFINE Good == SUBSET Subnets
    <3>1. w[0] \in Good /\ \A i \in 1..n : w[i - 1] \in Good => w[i] \in Good
      BY <1>1, <1>2, <1>3, <2>2
    <3> HIDE DEF Good
    <3> QED
      BY <1>1, <3>1, StepByStep DEF Good
  <2> HIDE DEF Parents
  <2>4. \A i \in 0..n : (IF i = 0 THEN {s} ELSE F[w[i - 1]]) =
                        IF i = 0 THEN {s} ELSE w[i - 1] \cup Parents(w[i - 1])
    <3> SUFFICES ASSUME NEW i \in 0..n, i # 0 PROVE F[w[i - 1]] = w[i - 1] \cup Parents(w[i - 1])
      OBVIOUS
    <3>1. i - 1 \in 0..n
      BY <1>1
    <3> QED
      BY <1>2, <2>3, <3>1
  <2>5. w = [i \in 0..n |-> IF i = 0 THEN {s} ELSE w[i - 1] \cup Parents(w[i - 1])]
    BY <2>1, <2>4 DEF Widens
  <2> QED
    BY <2>5 DEF AboveLoop, n, Parents
<1> DEFINE f == CHOOSE w : AboveLoop(d, s, w)
<1>5. AboveLoop(d, s, f)
  BY <1>4
<1>6. Above(d, s) = f[n]
  BY DEF Above, AboveLoop
<1> HIDE DEF f
<1>7. f[0] = {s} /\ \A i \in 1..n : f[i] = f[i - 1] \cup Parents(f[i - 1])
  BY <1>1, <1>5 DEF AboveLoop
<1> HIDE DEF Parents
<1>8. \A i \in 1..n : f[i - 1] \in SUBSET Subnets => f[i] = F[f[i - 1]]
  BY <1>2, <1>7
<1>9. Search(Subnets, F, {s}, f) /\ f[n] = End(Subnets, f)
  BY <1>1, <1>2, <1>3, <1>7, <1>8 DEF Search, End
<1>e. /\ f[n] \in SUBSET Subnets
      /\ {s} \subseteq f[n]
      /\ F[f[n]] = f[n]
  <2> DEFINE A == {s}
  <2> HIDE DEF A, n
  <2>1. f[n] \in SUBSET Subnets /\ A \subseteq f[n] /\ F[f[n]] = f[n]
    BY <1>9, SearchEnds DEF A
  <2> QED
    BY <2>1 DEF A
<1> HIDE DEF n
<1>10. \A t \in f[n] : d.parent[t] \in Subnets => d.parent[t] \in f[n]
  BY <1>p, <1>2, <1>e DEF Parents
<1>11. ASSUME NEW X \in SUBSET Subnets, s \in X,
              \A t \in X : d.parent[t] \in Subnets => d.parent[t] \in X
       PROVE  f[n] \subseteq X
  <2>1. \A Y \in SUBSET X : F[Y] \subseteq X
    BY <1>p, <1>2, <1>11 DEF Parents
  <2>2. {s} \subseteq X
    BY <1>11
  <2> QED
    BY <1>9, <2>1, <2>2, SearchIsLeast
<1> QED
  BY <1>6, <1>e, <1>10, <1>11

-----------------------------------------------------------------------------
(* Chains of parents.                                                      *)

LEMMA AboveTransitive ==
    ASSUME NEW d \in Tables, NEW s \in Subnets, NEW t \in Above(d, s)
    PROVE  Above(d, t) \subseteq Above(d, s)
<1>1. /\ Above(d, s) \in SUBSET Subnets
      /\ \A u \in Above(d, s) : d.parent[u] \in Subnets => d.parent[u] \in Above(d, s)
  BY AboveAre
<1>2. t \in Subnets
  BY <1>1
<1>3. \A X \in SUBSET Subnets :
        t \in X /\ (\A u \in X : d.parent[u] \in Subnets => d.parent[u] \in X)
        => Above(d, t) \subseteq X
  BY <1>2, AboveAre
<1> QED
  BY <1>1, <1>3

LEMMA DescendantsTransitive ==
    ASSUME NEW d \in Tables, NEW s \in Subnets, NEW t \in Descendants(d, s)
    PROVE  Descendants(d, t) \subseteq Descendants(d, s)
<1>1. /\ Descendants(d, s) \in SUBSET Subnets
      /\ \A u \in Subnets : d.parent[u] \in Descendants(d, s) => u \in Descendants(d, s)
  BY DescendantsAre
<1>2. t \in Subnets
  BY <1>1
<1>3. \A X \in SUBSET Subnets :
        t \in X /\ (\A u \in Subnets : d.parent[u] \in X => u \in X)
        => Descendants(d, t) \subseteq X
  BY <1>2, DescendantsAre
<1> QED
  BY <1>1, <1>3

\* A subnet is below those that are above it.
LEMMA BelowIsAbove ==
    ASSUME NEW d \in Tables, NEW s \in Subnets, NEW g \in Subnets
    PROVE  s \in Descendants(d, g) <=> g \in Above(d, s)
<1>1. ASSUME s \in Descendants(d, g) PROVE g \in Above(d, s)
  <2> DEFINE X == {t \in Subnets : g \in Above(d, t)}
  <2>1. g \in X
    BY AboveAre
  <2>2. ASSUME NEW t \in Subnets, d.parent[t] \in X PROVE t \in X
    <3>1. d.parent[t] \in Above(d, t)
      BY <2>2, AboveAre
    <3>2. Above(d, d.parent[t]) \subseteq Above(d, t)
      BY <3>1, AboveTransitive
    <3> QED
      BY <2>2, <3>2
  <2>3. Descendants(d, g) \subseteq X
    <3>1. X \in SUBSET Subnets
      OBVIOUS
    <3> HIDE DEF X
    <3> QED
      BY <2>1, <2>2, <3>1, DescendantsAre
  <2> QED
    BY <1>1, <2>3
<1>2. ASSUME g \in Above(d, s) PROVE s \in Descendants(d, g)
  <2> DEFINE X == {t \in Subnets : s \in Descendants(d, t)}
  <2>1. s \in X
    BY DescendantsAre
  <2>2. ASSUME NEW t \in X, d.parent[t] \in Subnets PROVE d.parent[t] \in X
    <3>1. t \in Descendants(d, d.parent[t])
      BY <2>2, DescendantsAre
    <3>2. Descendants(d, t) \subseteq Descendants(d, d.parent[t])
      BY <2>2, <3>1, DescendantsTransitive
    <3> QED
      BY <2>2, <3>2
  <2>3. Above(d, s) \subseteq X
    <3>1. X \in SUBSET Subnets
      OBVIOUS
    <3> HIDE DEF X
    <3> QED
      BY <2>1, <2>2, <3>1, AboveAre
  <2> QED
    BY <1>2, <2>3
<1> QED
  BY <1>1, <1>2

\* A subnet, its parent, and what is above that.
LEMMA AboveStep ==
    ASSUME NEW d \in Tables, NEW s \in Subnets
    PROVE  /\ d.parent[s] \in Subnets =>
                \A u : u \in Above(d, s) <=> u = s \/ u \in Above(d, d.parent[s])
           /\ d.parent[s] \notin Subnets => \A u : u \in Above(d, s) <=> u = s
<1> DEFINE p == d.parent[s]
<1>1. CASE p \in Subnets
  <2> DEFINE X == {s} \cup Above(d, p)
  <2>1. /\ Above(d, p) \in SUBSET Subnets /\ p \in Above(d, p)
        /\ \A t \in Above(d, p) : d.parent[t] \in Subnets => d.parent[t] \in Above(d, p)
    BY <1>1, AboveAre
  <2>2. /\ X \in SUBSET Subnets /\ s \in X
        /\ \A t \in X : d.parent[t] \in Subnets => d.parent[t] \in X
    BY <2>1
  <2>3. Above(d, s) \subseteq X
    <3> HIDE DEF X
    <3> QED
      BY <2>2, AboveAre
  <2>4. s \in Above(d, s) /\ p \in Above(d, s)
    BY <1>1, AboveAre
  <2>5. Above(d, p) \subseteq Above(d, s)
    BY <2>4, AboveTransitive
  <2> QED
    BY <1>1, <2>3, <2>4, <2>5
<1>2. CASE p \notin Subnets
  <2> DEFINE X == {s}
  <2>1. X \in SUBSET Subnets /\ s \in X /\ \A t \in X : d.parent[t] \in Subnets => d.parent[t] \in X
    BY <1>2
  <2>2. Above(d, s) \subseteq X
    <3> HIDE DEF X
    <3> QED
      BY <2>1, AboveAre
  <2>3. s \in Above(d, s)
    BY AboveAre
  <2> QED
    BY <1>2, <2>2, <2>3
<1> QED
  BY <1>1, <1>2

\* Whoever goes up from a subnet that is below itself comes back to it.
LEMMA CycleComesBack ==
    ASSUME NEW d \in Tables, NEW s \in Subnets, NEW t \in Above(d, s), d.parent[t] = s,
           NEW u \in Above(d, s)
    PROVE  s \in Above(d, u)
<1> DEFINE X == {x \in Subnets : s \in Above(d, x)}
<1>1. s \in X
  BY AboveAre
<1>2. ASSUME NEW x \in X, d.parent[x] \in Subnets PROVE d.parent[x] \in X
  <2>1. CASE x # s
    BY <1>2, <2>1, AboveStep
  <2>2. CASE x = s
    <3>1. t = s \/ t \in Above(d, d.parent[s])
      BY <1>2, <2>2, AboveStep
    <3>2. CASE t = s
      BY <1>1, <2>2, <3>2
    <3>3. CASE t \in Above(d, d.parent[s])
      <4>1. d.parent[t] \in Above(d, d.parent[s])
        BY <1>2, <2>2, <3>3, AboveAre
      <4> QED
        BY <1>2, <2>2, <4>1
    <3> QED
      BY <3>1, <3>2, <3>3
  <2> QED
    BY <2>1, <2>2
<1>3. Above(d, s) \subseteq X
  <2>1. X \in SUBSET Subnets
    OBVIOUS
  <2> HIDE DEF X
  <2> QED
    BY <1>1, <1>2, <2>1, AboveAre
<1> QED
  BY <1>3

\* The chain of a subnet does not change with a parent that is not on it.
LEMMA ChainStays ==
    ASSUME NEW d \in Tables, NEW e \in Tables, NEW x \in Subnets,
           \A t \in Subnets \ {x} : e.parent[t] = d.parent[t],
           NEW s \in Subnets, x \notin Above(d, s)
    PROVE  Above(e, s) = Above(d, s)
<1>1. /\ Above(d, s) \in SUBSET Subnets /\ s \in Above(d, s)
      /\ \A t \in Above(d, s) : d.parent[t] \in Subnets => d.parent[t] \in Above(d, s)
      /\ \A X \in SUBSET Subnets :
           s \in X /\ (\A t \in X : d.parent[t] \in Subnets => d.parent[t] \in X)
           => Above(d, s) \subseteq X
  BY AboveAre
<1>2. /\ Above(e, s) \in SUBSET Subnets /\ s \in Above(e, s)
      /\ \A t \in Above(e, s) : e.parent[t] \in Subnets => e.parent[t] \in Above(e, s)
      /\ \A X \in SUBSET Subnets :
           s \in X /\ (\A t \in X : e.parent[t] \in Subnets => e.parent[t] \in X)
           => Above(e, s) \subseteq X
  BY AboveAre
<1>3. Above(e, s) \subseteq Above(d, s)
  BY <1>1, <1>2
<1>4. \A t \in Above(e, s) : d.parent[t] \in Subnets => d.parent[t] \in Above(e, s)
  BY <1>2, <1>3
<1>5. Above(d, s) \subseteq Above(e, s)
  BY <1>1, <1>2, <1>4
<1> QED
  BY <1>3, <1>5

LEMMA ChainIsOfParents ==
    ASSUME NEW d \in Tables, NEW e \in Tables, e.parent = d.parent, NEW s \in Subnets
    PROVE  Above(e, s) = Above(d, s)
<1>1. /\ Above(d, s) \in SUBSET Subnets /\ s \in Above(d, s)
      /\ \A t \in Above(d, s) : d.parent[t] \in Subnets => d.parent[t] \in Above(d, s)
      /\ \A X \in SUBSET Subnets :
           s \in X /\ (\A t \in X : d.parent[t] \in Subnets => d.parent[t] \in X)
           => Above(d, s) \subseteq X
  BY AboveAre
<1>2. /\ Above(e, s) \in SUBSET Subnets /\ s \in Above(e, s)
      /\ \A t \in Above(e, s) : e.parent[t] \in Subnets => e.parent[t] \in Above(e, s)
      /\ \A X \in SUBSET Subnets :
           s \in X /\ (\A t \in X : e.parent[t] \in Subnets => e.parent[t] \in X)
           => Above(e, s) \subseteq X
  BY AboveAre
<1>3. Above(e, s) \subseteq Above(d, s)
  BY <1>1, <1>2
<1>4. Above(d, s) \subseteq Above(e, s)
  BY <1>1, <1>2
<1> QED
  BY <1>3, <1>4

-----------------------------------------------------------------------------
(* The tree is sound.                                                      *)

\* A subnet that is below itself, said of chains.
CyclesAdrift(d) ==
    \A s, t \in Subnets :
        d.parent[t] = s /\ t \in Above(d, s) =>
            \E a \in d.adrift : a \in Above(d, s) /\ s \in Above(d, a)
Fitted(d) ==
    \A s \in Existing(d) : d.parent[s] # None => Contains(d.parent[s], s)

LEMMA SoundIsFitted ==
    ASSUME NEW d \in Tables, ForeignKeys(d)
    PROVE  SoundTree(d) <=> Fitted(d) /\ CyclesAdrift(d)
<1> DEFINE Cyclic(s) == \E t \in Children(d, {s}) : s \in Descendants(d, t)
           Marked(s) == \E t \in Descendants(d, s) \cap d.adrift : s \in Descendants(d, t)
           CyclicUp(s) == \E t \in Subnets : d.parent[t] = s /\ t \in Above(d, s)
           MarkedUp(s) == \E a \in d.adrift : a \in Above(d, s) /\ s \in Above(d, a)
<1>1. \A s, t \in Subnets : s \in Descendants(d, t) <=> t \in Above(d, s)
  BY BelowIsAbove
<1>2. d.adrift \subseteq Subnets /\ \A s \in Subnets : Descendants(d, s) \subseteq Subnets
  BY DescendantsAre DEF Tables
<1>3. ASSUME NEW s \in Subnets PROVE Cyclic(s) <=> CyclicUp(s)
  BY <1>1 DEF Children
<1>4. ASSUME NEW s \in Subnets PROVE Marked(s) <=> MarkedUp(s)
  BY <1>1, <1>2
<1>5. ASSUME NEW s \in Subnets, CyclicUp(s) PROVE s \in Existing(d)
  BY <1>5, NoneAssumption DEF ForeignKeys, Existing, Exists, Tables
<1>6. Existing(d) \subseteq Subnets
  BY DEF Existing
<1>7. SoundTree(d) <=> Fitted(d) /\ \A s \in Existing(d) : Cyclic(s) => Marked(s)
  BY DEF SoundTree, Fitted
<1>8. CyclesAdrift(d) <=> \A s \in Subnets : CyclicUp(s) => MarkedUp(s)
  BY DEF CyclesAdrift
<1> HIDE DEF Cyclic, CyclicUp, Marked, MarkedUp
<1> QED
  BY <1>3, <1>4, <1>5, <1>6, <1>7, <1>8

\* A step that gives one subnet another parent, not one below itself unless it
\* marks the subnet, leaves no cycle unmarked.
LEMMA OneMoved ==
    ASSUME NEW d \in Tables, NEW e \in Tables, NEW x \in Subnets,
           \A t \in Subnets \ {x} : e.parent[t] = d.parent[t],
           \A t \in Subnets \ {x} : t \in d.adrift => t \in e.adrift,
           CyclesAdrift(d),
           x \in e.adrift \/ (e.parent[x] \in Subnets => x \notin Above(e, e.parent[x]))
    PROVE  CyclesAdrift(e)
<1> SUFFICES ASSUME NEW s \in Subnets, NEW t \in Subnets,
                    e.parent[t] = s, t \in Above(e, s)
             PROVE  \E a \in e.adrift : a \in Above(e, s) /\ s \in Above(e, a)
  BY DEF CyclesAdrift
<1>1. CASE x \notin Above(e, s)
  <2>1. Above(d, s) = Above(e, s)
    BY <1>1, ChainStays
  <2>2. d.parent[t] = s /\ t \in Above(d, s)
    BY <1>1, <2>1
  <2>3. PICK a \in d.adrift : a \in Above(d, s) /\ s \in Above(d, a)
    BY <2>2 DEF CyclesAdrift
  <2>4. Above(d, a) \subseteq Above(d, s) /\ a \in Subnets
    BY <2>3, AboveTransitive DEF Tables
  <2>5. a # x /\ x \notin Above(d, a)
    BY <1>1, <2>1, <2>3, <2>4
  <2>6. Above(e, a) = Above(d, a)
    BY <2>4, <2>5, ChainStays
  <2> QED
    BY <2>1, <2>3, <2>4, <2>5, <2>6
<1>2. CASE x \in Above(e, s)
  <2>1. s \in Above(e, x)
    BY <1>2, CycleComesBack
  <2>2. CASE x \in e.adrift
    BY <1>2, <2>1, <2>2
  <2>3. CASE e.parent[x] \in Subnets => x \notin Above(e, e.parent[x])
    <3>1. CASE s # x
      <4>1. e.parent[x] \in Subnets /\ s \in Above(e, e.parent[x])
        BY <2>1, <3>1, AboveStep
      <4>2. Above(e, s) \subseteq Above(e, e.parent[x])
        BY <4>1, AboveTransitive
      <4> QED
        BY <1>2, <2>3, <4>1, <4>2
    <3>2. CASE s = x
      <4>1. CASE t = x
        BY <2>3, <3>2, <4>1, AboveAre
      <4>2. CASE t # x
        <5>1. e.parent[x] \in Subnets /\ t \in Above(e, e.parent[x])
          BY <3>2, <4>2, AboveStep
        <5>2. x \in Above(e, e.parent[x])
          BY <3>2, <5>1, AboveAre
        <5> QED
          BY <2>3, <5>1, <5>2
      <4> QED
        BY <4>1, <4>2
    <3> QED
      BY <3>1, <3>2
  <2> QED
    BY <2>2, <2>3
<1> QED
  BY <1>1, <1>2

\* A parent that is not below the subnet has it not above itself afterwards.
LEMMA MovedApart ==
    ASSUME NEW d \in Tables, NEW e \in Tables, NEW x \in Subnets, NEW p \in Subnets,
           \A t \in Subnets \ {x} : e.parent[t] = d.parent[t],
           p \notin Descendants(d, x)
    PROVE  x \notin Above(e, p)
<1> DEFINE X == Subnets \ Descendants(d, x)
<1>1. x \in Descendants(d, x) /\
      \A t \in Subnets : d.parent[t] \in Descendants(d, x) => t \in Descendants(d, x)
  BY DescendantsAre
<1>2. X \in SUBSET Subnets /\ p \in X /\ x \notin X
  BY <1>1
<1>3. \A t \in X : e.parent[t] \in Subnets => e.parent[t] \in X
  BY <1>1
<1> HIDE DEF X
<1> QED
  BY <1>2, <1>3, AboveAre

\* What a request writes of the tree.
AdriftEffect(d, q, stale, e) ==
    /\ q.kind \in {"add subnet", "move subnet"} =>
         e.adrift = IF stale THEN d.adrift \cup {q.on} ELSE d.adrift \ {q.on}
    /\ q.kind = "drop subnet" => e.adrift = d.adrift \ {q.on}
    /\ q.kind \notin TreeKinds => e.adrift = d.adrift /\ e.parent = d.parent

LEMMA AdriftWritten ==
    ASSUME NEW d \in Tables, NEW q \in Request, Filled(q), NEW row, NEW id, NEW stale \in BOOLEAN,
           q.kind \in TreeKinds, NEW e, e = Written(d, q, row, id, stale)
    PROVE  AdriftEffect(d, q, stale, e)
<1> USE DEF AdriftEffect, TreeKinds
<1>1. CASE q.kind # "drop subnet"
  <2>1. e = Hung(d, q, stale)
    BY <1>1 DEF Written, TreeKinds
  <2> QED
    BY <1>1, <2>1 DEF Hung, Tables
<1>2. CASE q.kind = "drop subnet"
  <2>1. e = WithoutSubnet(d, q.on)
    BY <1>2 DEF Written, TreeKinds
  <2> QED
    BY <1>2, <2>1 DEF WithoutSubnet, Tables
<1> QED
  BY <1>1, <1>2

LEMMA TreeIsElsewhere ==
    ASSUME NEW d \in Tables, NEW q \in Request, Filled(q), NEW row, NEW id \in Nat,
           NEW stale \in BOOLEAN, q.kind \notin TreeKinds,
           NEW e, e = Written(d, q, row, id, stale)
    PROVE  AdriftEffect(d, q, stale, e)
<1> SUFFICES e.parent = d.parent /\ e.adrift = d.adrift
  BY DEF AdriftEffect, TreeKinds
<1>1. CASE q.kind \in AddressKinds
  BY <1>1 DEF Written, AddressKinds, Tables
<1>2. CASE q.kind \in WindowKinds
  <2>1. \E ws : e = [d EXCEPT !.windows = ws]
    <3>1. CASE q.kind = "add range"
      BY <3>1 DEF Written, Tables
    <3>2. CASE q.kind = "add pool"
      BY <3>2 DEF Written, Tables
    <3>3. CASE q.kind = "edit pool"
      BY <3>3 DEF Written, Tables
    <3>4. CASE q.kind \in {"drop range", "drop pool"}
      BY <3>4 DEF Written, Tables
    <3> QED
      BY <1>2, <3>1, <3>2, <3>3, <3>4 DEF WindowKinds
  <2> QED
    BY <2>1 DEF Tables
<1>3. CASE q.kind \in {"grant", "revoke"}
  <2>1. \E gs : e = [d EXCEPT !.grants = gs]
    BY <1>3 DEF Written
  <2> QED
    BY <2>1 DEF Tables
<1>4. CASE q.kind \in GroupKinds
  <2>1. CASE q.kind = "add group"
    BY <2>1 DEF Written, Tables
  <2>2. CASE q.kind = "drop group"
    BY <2>2 DEF Written, WithoutGroup, Tables
  <2>3. CASE q.kind \in {"join", "leave"}
    BY <2>3 DEF Written, Tables
  <2> QED
    BY <1>4, <2>1, <2>2, <2>3 DEF GroupKinds
<1>5. CASE q.kind \in UserKinds
  BY <1>5 DEF Written, UserKinds, WithoutUser, Tables
<1> QED
  BY <1>1, <1>2, <1>3, <1>4, <1>5, Kinds

\* What a request that hangs a subnet somewhere has checked of the networks,
\* which no edit changes.
HangsFit ==
    \A c \in Clients :
        session[c] # None /\ session[c].q.kind \in {"add subnet", "move subnet"}
        /\ session[c].q.to # None => Contains(session[c].q.to, session[c].q.on)
TreeInv == IInv /\ HangsFit /\ SoundTree(db)

\* A commit keeps the tree sound.
LEMMA CommitKeepsSound ==
    ASSUME NEW d \in Tables, ForeignKeys(d), SoundTree(d),
           NEW q \in Request, Filled(q), NEW row, NEW id \in Nat, NEW stale \in BOOLEAN,
           NEW e, e = Written(d, q, row, id, stale), e \in Tables, ForeignKeys(e),
           ~Refuses(d, q, row), ~stale => Accepts(d, q, row),
           q.kind \in {"add subnet", "move subnet"} /\ q.to # None => Contains(q.to, q.on)
    PROVE  SoundTree(e)
<1>1. Fitted(d) /\ CyclesAdrift(d)
  BY SoundIsFitted
<1>2. CASE q.kind \notin TreeKinds
  <2>1. e.parent = d.parent /\ e.adrift = d.adrift
    <3>1. AdriftEffect(d, q, stale, e)
      BY <1>2, TreeIsElsewhere
    <3> QED
      BY <1>2, <3>1 DEF AdriftEffect
  <2>2. Fitted(e)
    BY <1>1, <2>1 DEF Fitted, Existing, Exists
  <2>3. \A s \in Subnets : Above(e, s) = Above(d, s)
    BY <2>1, ChainIsOfParents
  <2>4. CyclesAdrift(e)
    BY <1>1, <2>1, <2>3 DEF CyclesAdrift, Tables
  <2> QED
    BY <2>2, <2>4, SoundIsFitted
<1>3. CASE q.kind \in TreeKinds
  <2> DEFINE x == q.on
             p == q.to
  <2>1. x \in Subnets /\ p \in Subnets \cup {None}
    BY <1>3 DEF Filled, Request
  <2>2. TreeEffect(d, q, e)
    BY <1>3, WrittenTree
  <2>3. /\ q.kind # "drop subnet" =>
             e.adrift = IF stale THEN d.adrift \cup {x} ELSE d.adrift \ {x}
        /\ q.kind = "drop subnet" => e.adrift = d.adrift \ {x}
    <3>1. AdriftEffect(d, q, stale, e)
      BY <1>3, AdriftWritten
    <3> QED
      BY <1>3, <3>1 DEF AdriftEffect, TreeKinds
  <2>4. d.parent \in [Subnets -> Subnets \cup {None, Absent}] /\ {None, Absent} \cap Subnets = {}
    BY NoneAssumption DEF Tables
  <2>5. e.parent = [d.parent EXCEPT ![x] = IF q.kind = "drop subnet" THEN Absent ELSE p]
    BY <2>2 DEF TreeEffect
  <2>6. \A t \in Subnets \ {x} : e.parent[t] = d.parent[t] /\ (t \in d.adrift => t \in e.adrift)
    BY <2>3, <2>4, <2>5
  <2>7. e.parent[x] = IF q.kind = "drop subnet" THEN Absent ELSE p
    BY <2>1, <2>4, <2>5
  <2>8. Fitted(e)
    <3> SUFFICES ASSUME NEW s \in Existing(e), e.parent[s] # None
                 PROVE  Contains(e.parent[s], s)
      BY DEF Fitted
    <3>1. CASE s # x
      BY <1>1, <2>6, <3>1 DEF Fitted, Existing, Exists
    <3>2. CASE s = x
      BY <1>3, <2>7, <3>2 DEF Existing, Exists, TreeKinds
    <3> QED
      BY <3>1, <3>2
  <2>9. x \in e.adrift \/ (e.parent[x] \in Subnets => x \notin Above(e, e.parent[x]))
    <3>1. CASE q.kind = "drop subnet" \/ p = None
      BY <2>4, <2>7, <3>1
    <3>2. CASE stale /\ q.kind # "drop subnet"
      BY <2>3, <3>2
    <3>3. CASE ~stale /\ q.kind # "drop subnet" /\ p # None
      <4>1. p \in Subnets /\ Accepts(d, q, row)
        BY <2>1, <3>3
      <4>2. p \notin Descendants(d, x)
        <5>1. CASE q.kind = "move subnet"
          <6>1. UpdateSubnet(d, q)
            BY <4>1, <5>1 DEF Accepts
          <6> QED
            BY <3>3, <6>1 DEF UpdateSubnet, IsAncestor
        <5>2. CASE q.kind = "add subnet"
          <6>1. Exists(d, p) /\ ~Exists(d, x)
            BY <3>3, <5>2 DEF Refuses
          <6>2. \A t \in Subnets : d.parent[t] # x
            <7> SUFFICES ASSUME NEW t \in Subnets, d.parent[t] = x PROVE FALSE
              OBVIOUS
            <7>1. t \in Existing(d)
              BY <2>1, <2>4 DEF Existing, Exists
            <7>2. x \in Existing(d)
              BY <2>1, <2>4, <7>1 DEF ForeignKeys
            <7> QED
              BY <6>1, <7>2 DEF Existing
          <6>3. Descendants(d, x) \subseteq {x}
            <7> DEFINE X == {x}
            <7>1. X \in SUBSET Subnets /\ x \in X /\ \A t \in Subnets : d.parent[t] \in X => t \in X
              BY <2>1, <6>2
            <7>2. Descendants(d, x) \subseteq X
              <8> HIDE DEF X, x
              <8> QED
                BY <2>1, <7>1, DescendantsAre
            <7> QED
              BY <7>2
          <6> QED
            BY <6>1, <6>3
        <5> QED
          BY <1>3, <3>3, <5>1, <5>2 DEF TreeKinds
      <4> HIDE DEF x, p
      <4>3. x \notin Above(e, p)
        BY <2>1, <2>6, <4>1, <4>2, MovedApart
      <4> QED
        BY <2>7, <3>3, <4>3
    <3> QED
      BY <3>1, <3>2, <3>3
  <2> HIDE DEF x, p
  <2>10. CyclesAdrift(e)
    BY <1>1, <2>1, <2>6, <2>9, OneMoved
  <2> QED
    BY <2>8, <2>10, SoundIsFitted
<1> QED
  BY <1>2, <1>3

LEMMA TreeInvInit == Init => TreeInv
<1> SUFFICES ASSUME Init PROVE TreeInv
  OBVIOUS
<1>1. IInv
  BY IInvInit
<1> QED
  BY <1>1, FirstTreeAssumption DEF Init, TreeInv, HangsFit

LEMMA TreeInvNext == TreeInv /\ [Next]_vars => TreeInv'
<1> SUFFICES ASSUME TreeInv, [Next]_vars PROVE TreeInv'
  OBVIOUS
<1>0. IInv /\ IInv' /\ session \in [Clients -> SessionRow \cup {None}]
  BY IInvNext DEF TreeInv, IInv, TypeOK
<1>1. CASE UNCHANGED vars
  BY <1>0, <1>1 DEF vars, TreeInv, HangsFit
<1>2. ASSUME NEW c \in Clients, NEW q \in Requests, Begin(c, q) PROVE TreeInv'
  <2>1. PICK row \in Rows(db, q) :
          /\ Accepts(db, q, row)
          /\ session' = [session EXCEPT ![c] = [q |-> q, row |-> row, id |-> requests,
                                                stale |-> FALSE, home |-> db.home]]
    BY <1>2 DEF Begin
  <2>2. db' = db
    BY <1>2 DEF Begin
  <2>3. q.kind \in {"add subnet", "move subnet"} /\ q.to # None => Contains(q.to, q.on)
    BY <2>1 DEF Accepts, CreateSubnet, UpdateSubnet, MayHangFrom
  <2>4. \A y \in Clients : session'[y] = session[y] \/ session'[y].q = q
    BY <1>0, <2>1
  <2> QED
    BY <1>0, <2>2, <2>3, <2>4 DEF TreeInv, HangsFit
<1>3. ASSUME NEW c \in Clients, Commit(c) PROVE TreeInv'
  <2>1. session[c] # None
    BY <1>3 DEF Commit
  <2>2. CASE session' = [session EXCEPT ![c] = None] /\ db' = db
    BY <1>0, <2>2 DEF TreeInv, HangsFit
  <2>3. CASE /\ ~Refuses(db, session[c].q, session[c].row) /\ Overtaken(c)
             /\ db' = Written(db, session[c].q, session[c].row, session[c].id, session[c].stale)
    <3> DEFINE q == session[c].q
               row == session[c].row
               id == session[c].id
               stale == session[c].stale
    <3>1. q \in Request /\ Filled(q) /\ id \in Nat /\ stale \in BOOLEAN
      BY <1>0, <2>1, SessionTyped DEF IInv
    <3>2. db \in Tables /\ ForeignKeys(db) /\ SoundTree(db) /\ db' \in Tables /\ ForeignKeys(db')
      BY <1>0 DEF TreeInv, IInv, TypeOK
    <3>3. ~stale => Accepts(db, q, row)
      BY <1>0, <2>1 DEF IInv, FreshIsChecked
    <3>4. q.kind \in {"add subnet", "move subnet"} /\ q.to # None => Contains(q.to, q.on)
      BY <2>1 DEF TreeInv, HangsFit
    <3>5. ~Refuses(db, q, row) /\ db' = Written(db, q, row, id, stale)
      BY <2>3
    <3> HIDE DEF q, row, id, stale
    <3>6. SoundTree(db')
      BY <3>1, <3>2, <3>3, <3>4, <3>5, CommitKeepsSound
    <3>7. HangsFit'
      BY <1>0, <2>3, OvertakenSessions DEF TreeInv, HangsFit, IInv
    <3> QED
      BY <1>0, <3>6, <3>7 DEF TreeInv, SoundTree, Existing, Exists
  <2> QED
    BY <1>3, <2>1, <2>2, <2>3 DEF Commit, Overtaken
<1> QED
  BY <1>1, <1>2, <1>3 DEF Next

LEMMA TreeInvHolds == Spec => []TreeInv
  BY TreeInvInit, TreeInvNext, PTL DEF Spec

\* Only overlapping requests can make a subnet an ancestor of itself, and none
\* can hang it from a parent that does not contain it.
THEOREM TreeStaysSound == Spec => []TreeIsSound
  BY TreeInvHolds, PTL DEF TreeInv, TreeIsSound

-----------------------------------------------------------------------------
(* What users reach.                                                       *)

LEMMA InViewable ==
    ASSUME NEW d \in Tables, NEW u, NEW s \in Subnets
    PROVE  /\ s \in Viewable(d, u) <=> \E g \in GrantsOf(d, u) : g.subnet \in Above(d, s)
           /\ s \in Manageable(d, u) <=>
                \E g \in GrantsOf(d, u) : g.subnet \in Above(d, s) /\ g.perm = "manage"
<1>1. \A g \in GrantsOf(d, u) : g.subnet \in Subnets
  BY DEF GrantsOf, Tables, GrantRow
<1>2. \A g \in GrantsOf(d, u) : s \in Descendants(d, g.subnet) <=> g.subnet \in Above(d, s)
  BY <1>1, BelowIsAbove
<1>3. s \in Viewable(d, u) <=> \E g \in GrantsOf(d, u) : s \in Descendants(d, g.subnet)
  BY DEF Viewable
<1>4. s \in Manageable(d, u) <=>
        \E g \in GrantsOf(d, u) : g.perm = "manage" /\ s \in Descendants(d, g.subnet)
  BY DEF Manageable
<1> QED
  BY <1>2, <1>3, <1>4

LEMMA ReachIsOfGrants ==
    ASSUME TypeOK
    PROVE  ReachIsInherited
<1>1. db \in Tables /\ db.members \subseteq Groups \X Users
  BY DEF TypeOK, Tables
<1>2. ASSUME NEW u \in Users
      PROVE  GrantsOf(db, u) = {g \in db.grants : \/ g.who = u
                                   \/ \E x \in Groups : g.who = x /\ <<x, u>> \in db.members}
  BY <1>1 DEF GrantsOf
<1>3. Existing(db) \subseteq Subnets
  BY DEF Existing
<1> QED
  BY <1>1, <1>2, <1>3, InViewable DEF ReachIsInherited

\* A set of subnets that is closed under children, and has what a user was
\* granted, is all that he reaches.
LEMMA ViewableWithin ==
    ASSUME NEW d \in Tables, NEW u, NEW X \in SUBSET Subnets,
           \A t \in Subnets : d.parent[t] \in X => t \in X
    PROVE  /\ (\A g \in GrantsOf(d, u) : g.subnet \in X) => Viewable(d, u) \subseteq X
           /\ (\A g \in GrantsOf(d, u) : g.perm = "manage" => g.subnet \in X)
                => Manageable(d, u) \subseteq X
<1>1. \A g \in GrantsOf(d, u) : g.subnet \in Subnets
  BY DEF GrantsOf, Tables, GrantRow
<1>2. ASSUME NEW g \in GrantsOf(d, u), g.subnet \in X PROVE Descendants(d, g.subnet) \subseteq X
  BY <1>1, <1>2, DescendantsAre
<1> QED
  BY <1>2 DEF Viewable, Manageable

\* What is viewable and what is manageable are such sets.
LEMMA ViewableCloses ==
    ASSUME NEW d \in Tables, NEW u
    PROVE  /\ Viewable(d, u) \in SUBSET Subnets /\ Manageable(d, u) \in SUBSET Subnets
           /\ Manageable(d, u) \subseteq Viewable(d, u)
           /\ \A t \in Subnets : d.parent[t] \in Viewable(d, u) => t \in Viewable(d, u)
           /\ \A t \in Subnets : d.parent[t] \in Manageable(d, u) => t \in Manageable(d, u)
           /\ \A g \in GrantsOf(d, u) :
                g.subnet \in Viewable(d, u) /\ (g.perm = "manage" => g.subnet \in Manageable(d, u))
<1>1. \A g \in GrantsOf(d, u) :
        /\ g.subnet \in Subnets
        /\ Descendants(d, g.subnet) \in SUBSET Subnets
        /\ g.subnet \in Descendants(d, g.subnet)
        /\ \A t \in Subnets : d.parent[t] \in Descendants(d, g.subnet)
                              => t \in Descendants(d, g.subnet)
  BY DescendantsAre DEF GrantsOf, Tables, GrantRow
<1> QED
  BY <1>1 DEF Viewable, Manageable

\* Only what a scoped user manages can he hang elsewhere; the rest of what
\* decides his reach is for administrators.
LEMMA ScopedReach ==
    ASSUME NEW d \in Tables, ForeignKeys(d), NEW q \in Request, Filled(q), NEW row,
           NEW id \in Nat, NEW stale \in BOOLEAN,
           NEW e, e = Written(d, q, row, id, stale), e \in Tables,
           Accepts(d, q, row), d.role[q.by] = "scoped"
    PROVE  Viewable(e, q.by) \subseteq Viewable(d, q.by) /\ Manageable(e, q.by) \subseteq Manageable(d, q.by)
<1> DEFINE u == q.by
           V == Viewable(d, u)
           M == Manageable(d, u)
<1>0. /\ V \in SUBSET Subnets /\ M \in SUBSET Subnets /\ M \subseteq V
      /\ \A t \in Subnets : d.parent[t] \in V => t \in V
      /\ \A t \in Subnets : d.parent[t] \in M => t \in M
      /\ \A g \in GrantsOf(d, u) : g.subnet \in V /\ (g.perm = "manage" => g.subnet \in M)
  BY ViewableCloses
<1>n. None \notin Subnets /\ Absent \notin Subnets
  BY NoneAssumption
<1>1. q.kind \in TreeKinds \cup AddressKinds \cup WindowKinds
  <2>1. ~IsAdmin(d, q.by)
    BY DEF IsAdmin
  <2>2. q.kind \notin {"grant", "revoke"}
    BY <2>1 DEF Accepts, CreateGrant, DeleteGrant
  <2>3. q.kind \notin GroupKinds
    BY <2>1 DEF Accepts, GroupKinds, CreateGroup, DeleteGroup, AddMember, RemoveMember
  <2>4. q.kind \notin UserKinds
    BY <2>1 DEF Accepts, UserKinds, CreateUser, UpdateRole, Enable, Disable, DeleteUser
  <2> QED
    BY <2>2, <2>3, <2>4, Kinds
<1>2. /\ e.members = d.members /\ e.grants \subseteq d.grants
      /\ \A t \in Subnets : e.parent[t] = d.parent[t] \/ e.parent[t] = Absent \/ t \in M
  <2>1. CASE q.kind \in AddressKinds
    <3>1. AddressEffect(d, q, e)
      BY <2>1, WrittenAddress
    <3> QED
      BY <3>1 DEF AddressEffect
  <2>2. CASE q.kind \in WindowKinds
    <3>1. WindowsEffect(d, q, row, id, stale, e)
      BY <2>2, WrittenWindows
    <3> QED
      BY <3>1 DEF WindowsEffect
  <2>3. CASE q.kind \in TreeKinds
    <3>1. TreeEffect(d, q, e)
      BY <2>3, WrittenTree
    <3>2. q.kind # "add subnet"
      BY DEF Accepts, CreateSubnet
    <3>3. CASE q.kind = "move subnet"
      <4>1. UpdateSubnet(d, q)
        BY <3>3 DEF Accepts
      <4>2. q.on \in M
        BY <4>1 DEF UpdateSubnet, CanWrite
      <4>3. /\ e.members = d.members /\ e.grants = d.grants
            /\ e.parent = [d.parent EXCEPT ![q.on] = q.to]
        BY <3>1, <3>3 DEF TreeEffect
      <4> HIDE DEF M
      <4> QED
        BY <4>2, <4>3 DEF Tables
    <3>4. CASE q.kind = "drop subnet"
      <4>3. /\ e.members = d.members /\ e.grants \subseteq d.grants
            /\ e.parent = [d.parent EXCEPT ![q.on] = Absent]
        BY <3>1, <3>4 DEF TreeEffect
      <4> HIDE DEF M
      <4> QED
        BY <4>3 DEF Tables
    <3> QED
      BY <2>3, <3>2, <3>3, <3>4 DEF TreeKinds
  <2> QED
    BY <1>1, <2>1, <2>2, <2>3
<1>3. GrantsOf(e, u) \subseteq GrantsOf(d, u)
  BY <1>2 DEF GrantsOf
<1> HIDE DEF V, M, u
<1>4. \A t \in Subnets : e.parent[t] \in V => t \in V
  BY <1>0, <1>2, <1>n
<1>5. \A t \in Subnets : e.parent[t] \in M => t \in M
  BY <1>0, <1>2, <1>n
<1>6. Viewable(e, u) \subseteq V
  BY <1>0, <1>3, <1>4, ViewableWithin
<1>7. Manageable(e, u) \subseteq M
  BY <1>0, <1>3, <1>5, ViewableWithin
<1> QED
  BY <1>6, <1>7 DEF V, M, u

\* A scoped user cannot widen what was granted to him.
THEOREM NobodyPromotesHimself == Spec => NoSelfPromotion
<1>1. IInv /\ [Next]_vars =>
        [\A c \in Clients : Ends(c) /\ ~session[c].stale /\ db.role[session[c].q.by] = "scoped" =>
           LET u == session[c].q.by IN
           Viewable(db', u) \subseteq Viewable(db, u) /\ Manageable(db', u) \subseteq Manageable(db, u)]_vars
  <2> SUFFICES ASSUME IInv, Next, NEW c \in Clients, Ends(c), ~session[c].stale,
                      db.role[session[c].q.by] = "scoped"
               PROVE  /\ Viewable(db', session[c].q.by) \subseteq Viewable(db, session[c].q.by)
                      /\ Manageable(db', session[c].q.by) \subseteq Manageable(db, session[c].q.by)
    OBVIOUS
  <2>1. Commit(c) /\ session[c] # None
    BY EndsByCommit DEF Ends
  <2>2. CASE db' = db
    BY <2>2
  <2>3. CASE db' = Written(db, session[c].q, session[c].row, session[c].id, session[c].stale)
    <3> DEFINE q == session[c].q
               row == session[c].row
               id == session[c].id
               stale == session[c].stale
    <3>1. q \in Request /\ Filled(q) /\ id \in Nat /\ stale \in BOOLEAN
      BY <2>1, SessionTyped DEF IInv
    <3>2. db \in Tables /\ ForeignKeys(db) /\ db' \in Tables
      BY IInvNext DEF IInv, TypeOK
    <3>3. Accepts(db, q, row)
      BY <2>1 DEF IInv, FreshIsChecked
    <3>4. db' = Written(db, q, row, id, stale) /\ db.role[q.by] = "scoped"
      BY <2>3
    <3> HIDE DEF q, row, id, stale
    <3>5. /\ Viewable(db', q.by) \subseteq Viewable(db, q.by)
          /\ Manageable(db', q.by) \subseteq Manageable(db, q.by)
      BY <3>1, <3>2, <3>3, <3>4, ScopedReach
    <3> QED
      BY <3>5 DEF q
  <2> QED
    BY <2>1, <2>2, <2>3 DEF Commit
<1> QED
  BY <1>1, IInvHolds, PTL DEF Spec, NoSelfPromotion

-----------------------------------------------------------------------------
(* What is free.                                                           *)

\* Of a finite set, what is left when two disjoint parts are taken from it.
Parts(W, A, B, C) ==
    /\ A \subseteq W /\ B \subseteq W /\ C \subseteq W /\ A \cap B = {}
    /\ \A x \in W : x \in C <=> x \notin A /\ x \notin B
LEMMA TwoPartsTaken ==
    ASSUME NEW W, IsFiniteSet(W), NEW A, NEW B, NEW C, Parts(W, A, B, C)
    PROVE  /\ Cardinality(W) - Cardinality(A) - Cardinality(B) = Cardinality(C)
           /\ Cardinality(C) \in Nat
<1>1. IsFiniteSet(A) /\ IsFiniteSet(B) /\ IsFiniteSet(C)
  BY FS_Subset DEF Parts
<1>2. /\ Cardinality(A) \in Nat /\ Cardinality(B) \in Nat /\ Cardinality(C) \in Nat
      /\ Cardinality(W) \in Nat
  BY <1>1, FS_CardinalityType
<1> DEFINE D == A \cup B
<1>3. IsFiniteSet(D) /\ Cardinality(D) = Cardinality(A) + Cardinality(B) - Cardinality(A \cap B)
  BY <1>1, FS_Union
<1>4. Cardinality(A \cap B) = 0
  BY FS_EmptySet DEF Parts
<1>5. Cardinality(D \cup C) = Cardinality(D) + Cardinality(C) - Cardinality(D \cap C)
  BY <1>1, <1>3, FS_Union
<1>6. D \cup C = W /\ D \cap C = {}
  BY DEF Parts
<1>7. Cardinality(D \cap C) = 0
  BY <1>6, FS_EmptySet
<1>8. Cardinality(W) = Cardinality(D) + Cardinality(C) - 0
  BY <1>5, <1>6, <1>7
<1>9. Cardinality(D) = Cardinality(A) + Cardinality(B) - 0
  BY <1>3, <1>4
<1> HIDE DEF D
<1> QED
  BY <1>2, <1>8, <1>9

LEMMA FreeIsCounted ==
    ASSUME TypeOK
    PROVE  FreeIsFree
<1> SUFFICES ASSUME NEW w \in db.windows
             PROVE  LET reserved == ReservedIps(db, w.subnet)
                        free == {ip \in Within(w.win) : db.home[ip] = None /\ ip \notin reserved}
                        shown == {ip \in Within(w.win) : Cell(db, w.subnet, ip) = "free"}
                    IN /\ PoolFree(db, w) = Cardinality(free)
                       /\ free \subseteq shown
                       /\ \A ip \in shown \ free : db.home[ip] \notin {None, w.subnet}
  BY DEF FreeIsFree
<1> DEFINE all == Within(w.win)
           reserved == ReservedIps(db, w.subnet)
           free == {ip \in Within(w.win) : db.home[ip] = None /\ ip \notin reserved}
           shown == {ip \in Within(w.win) : Cell(db, w.subnet, ip) = "free"}
           used == UsedIn(db, w)
           kept == (reserved \cap all) \ used
<1>1. w.win.lo \in IPs /\ w.win.hi \in IPs /\ w.subnet \in Subnets /\ IPs \subseteq Nat
  BY NetAssumption DEF TypeOK, Tables, WindowRow, Window
<1>2. IsFiniteSet(all)
  <2> DEFINE lo == w.win.lo
             hi == w.win.hi
  <2>1. lo \in Int /\ hi \in Int
    <3>1. lo \in IPs /\ hi \in IPs /\ IPs \subseteq Nat
      BY <1>1
    <3> HIDE DEF lo, hi
    <3>2. lo \in Nat /\ hi \in Nat
      BY <3>1
    <3> QED
      BY <3>2
  <2>2. IsFiniteSet(w.win.lo .. w.win.hi)
    BY <2>1, FS_Interval
  <2> QED
    BY <2>2 DEF Within
<1>3. Parts(all, used, kept, free)
  BY DEF UsedIn, Parts
<1>4. PoolFree(db, w) = LET left == Cardinality(all) - Cardinality(used) - Cardinality(kept)
                        IN IF left < 0 THEN 0 ELSE left
  BY DEF PoolFree
<1>5. free \subseteq shown
  BY <1>1, NoneAssumption DEF Cell
<1>6. \A ip \in shown \ free : db.home[ip] \notin {None, w.subnet}
  BY <1>1, NoneAssumption DEF Cell
<1>7. PoolFree(db, w) = Cardinality(free)
  <2> HIDE DEF all, used, kept, free
  <2>1. /\ Cardinality(all) - Cardinality(used) - Cardinality(kept) = Cardinality(free)
        /\ Cardinality(free) \in Nat
    BY <1>2, <1>3, TwoPartsTaken
  <2> QED
    BY <1>4, <2>1
<1> QED
  BY <1>5, <1>6, <1>7

-----------------------------------------------------------------------------
(* Sums over finite sets.                                                  *)

Taken(s) == CHOOSE x \in s : TRUE
\* The loop of SumOf, over the members of D, and one step of it.
Added(g, s, it) == IF s = {} THEN 0 ELSE g[Taken(s)] + it[s \ {Taken(s)}]
SumLoop(g, D, it) == it = [s \in D |-> Added(g, s, it)]

\* SumOf is that loop over all subsets, which exists.
LEMMA SumOfIsLoop ==
    ASSUME NEW g, NEW S
    PROVE  SumOf(g, S) = (CHOOSE it : SumLoop(g, SUBSET S, it))[S]
BY DEF SumOf, MapThenSumSet, MapThenFoldSet, SumLoop, Added, Taken

\* A set that is not empty, without the one taken, has one less.
LEMMA OneTaken ==
    ASSUME NEW S, IsFiniteSet(S), NEW s \in SUBSET S
    PROVE  /\ IsFiniteSet(s) /\ Cardinality(s) \in Nat
           /\ s = {} <=> Cardinality(s) = 0
           /\ s # {} => /\ Taken(s) \in s /\ s \ {Taken(s)} \in SUBSET S
                        /\ Cardinality(s \ {Taken(s)}) = Cardinality(s) - 1
<1>1. IsFiniteSet(s) /\ Cardinality(s) \in Nat
  BY FS_Subset, FS_CardinalityType
<1>2. s = {} <=> Cardinality(s) = 0
  BY <1>1, FS_EmptySet
<1>3. ASSUME s # {}
      PROVE  /\ Taken(s) \in s /\ s \ {Taken(s)} \in SUBSET S
             /\ Cardinality(s \ {Taken(s)}) = Cardinality(s) - 1
  <2>1. Taken(s) \in s
    BY <1>3 DEF Taken
  <2> DEFINE x == Taken(s)
  <2>2. Cardinality(s \ {x}) = Cardinality(s) - 1
    <3> HIDE DEF x
    <3> QED
      BY <1>1, <2>1, FS_RemoveElement DEF x
  <2> QED
    BY <2>1, <2>2
<1> QED
  BY <1>1, <1>2, <1>3

\* What holds of the empty set, and of a set if it does without the one taken,
\* holds of every subset.
LEMMA OneByOne ==
    ASSUME NEW S, IsFiniteSet(S), NEW Good, {} \in Good,
           \A s \in SUBSET S : s # {} /\ s \ {Taken(s)} \in Good => s \in Good
    PROVE  SUBSET S \subseteq Good
<1> DEFINE T == {n \in Nat : \E s \in SUBSET S : s \notin Good /\ Cardinality(s) = n}
<1>1. SUFFICES ASSUME NEW s \in SUBSET S, s \notin Good PROVE FALSE
  OBVIOUS
<1>2. Cardinality(s) \in T
  BY <1>1, OneTaken
<1>3. PICK n \in T : \A m \in T : n <= m
  <2>1. T \in SUBSET Nat /\ T # {}
    BY <1>2
  <2> HIDE DEF T
  <2> QED
    BY <2>1, NatMinimum
<1>4. PICK t \in SUBSET S : t \notin Good /\ Cardinality(t) = n
  BY <1>3
<1>5. t # {}
  BY <1>4
<1>6. /\ t \ {Taken(t)} \in SUBSET S /\ Cardinality(t) \in Nat
      /\ Cardinality(t \ {Taken(t)}) = Cardinality(t) - 1
  BY <1>5, OneTaken
<1>7. t \ {Taken(t)} \in Good
  <2> DEFINE r == t \ {Taken(t)}
  <2>1. r \in SUBSET S /\ Cardinality(t) \in Nat /\ Cardinality(r) = Cardinality(t) - 1
    BY <1>6
  <2> HIDE DEF r
  <2>2. Cardinality(r) \in Nat
    BY <2>1, FS_Subset, FS_CardinalityType
  <2>3. Cardinality(r) \notin T
    BY <1>3, <1>4, <2>1
  <2>4. r \in Good
    BY <2>1, <2>2, <2>3
  <2> QED
    BY <2>4 DEF r
<1> QED
  BY <1>4, <1>5, <1>7

LEMMA SumLoopExists ==
    ASSUME NEW g, NEW S, IsFiniteSet(S)
    PROVE  \E it : SumLoop(g, SUBSET S, it)
<1> DEFINE Of(n) == {s \in SUBSET S : Cardinality(s) <= n}
           T == {n \in Nat : ~\E it : SumLoop(g, Of(n), it)}
<1>1. T = {}
  <2> SUFFICES ASSUME T # {} PROVE FALSE
    OBVIOUS
  <2>1. PICK n \in T : \A m \in T : n <= m
    <3>1. T \in SUBSET Nat
      OBVIOUS
    <3> HIDE DEF T
    <3> QED
      BY <3>1, NatMinimum
  <2>2. n \in Nat /\ ~\E it : SumLoop(g, Of(n), it)
    BY <2>1
  <2>3. CASE n = 0
    <3> DEFINE it == [s \in Of(n) |-> 0]
    <3>1. ASSUME NEW s \in Of(n) PROVE s = {}
      <4>1. Cardinality(s) \in Nat /\ (s = {} <=> Cardinality(s) = 0)
        BY OneTaken
      <4> QED
        BY <2>3, <4>1
    <3>2. it = [s \in Of(n) |-> Added(g, s, it)]
      BY <3>1 DEF Added
    <3> QED
      BY <2>2, <3>2 DEF SumLoop
  <2>4. CASE n # 0
    <3>1. n - 1 \in Nat /\ n - 1 \notin T
      <4>1. n \in Nat
        BY <2>2
      <4> HIDE DEF T
      <4> QED
        BY <2>1, <2>4, <4>1
    <3>2. PICK h : SumLoop(g, Of(n - 1), h)
      BY <3>1
    <3> DEFINE it == [s \in Of(n) |-> Added(g, s, h)]
    <3>3. ASSUME NEW t \in Of(n - 1) PROVE it[t] = h[t]
      <4>1. Cardinality(t) \in Nat
        BY OneTaken
      <4>2. t \in Of(n)
        BY <2>2, <4>1
      <4>3. h[t] = Added(g, t, h)
        BY <3>2 DEF SumLoop
      <4> QED
        BY <4>2, <4>3
    <3>4. ASSUME NEW s \in Of(n) PROVE Added(g, s, h) = Added(g, s, it)
      <4>1. CASE s = {}
        BY <4>1 DEF Added
      <4>2. CASE s # {}
        <5>0. /\ s \ {Taken(s)} \in SUBSET S /\ Cardinality(s) \in Nat
              /\ Cardinality(s \ {Taken(s)}) = Cardinality(s) - 1
          BY <4>2, OneTaken
        <5>1. s \ {Taken(s)} \in Of(n - 1)
          BY <2>2, <5>0
        <5>2. it[s \ {Taken(s)}] = h[s \ {Taken(s)}]
          BY <3>3, <5>1
        <5> HIDE DEF it
        <5> QED
          BY <4>2, <5>2 DEF Added
      <4> QED
        BY <4>1, <4>2
    <3>5. it = [s \in Of(n) |-> Added(g, s, it)]
      BY <3>4
    <3> HIDE DEF it, Of
    <3> QED
      BY <2>2, <3>5 DEF SumLoop
  <2> QED
    BY <2>3, <2>4
<1>2. Cardinality(S) \in Nat
  BY FS_CardinalityType
<1>3. Of(Cardinality(S)) = SUBSET S
  BY FS_Subset, FS_CardinalityType
<1> QED
  BY <1>1, <1>2, <1>3

\* The sum of the counts of the members of S, which B has things of.
Counts(S, g, B) ==
    /\ \A t \in S : IsFiniteSet(B[t]) /\ g[t] = Cardinality(B[t])
    /\ \A t, u \in S : t # u => B[t] \cap B[u] = {}
Together(s, B) == UNION {B[t] : t \in s}

LEMMA SumIsCardinality ==
    ASSUME NEW S, IsFiniteSet(S), NEW g, NEW B, Counts(S, g, B)
    PROVE  SumOf(g, S) = Cardinality(Together(S, B)) /\ IsFiniteSet(Together(S, B))
<1> DEFINE it == CHOOSE f : SumLoop(g, SUBSET S, f)
<1>1. SumLoop(g, SUBSET S, it)
  BY SumLoopExists
<1>2. SumOf(g, S) = it[S]
  BY SumOfIsLoop
<1> HIDE DEF it
<1>3. \A s \in SUBSET S : it[s] = Added(g, s, it)
  BY <1>1 DEF SumLoop
<1> DEFINE Good == {s \in SUBSET S : /\ IsFiniteSet(Together(s, B))
                                     /\ it[s] = Cardinality(Together(s, B))}
<1>4. {} \in Good
  <2>1. Together({}, B) = {}
    BY DEF Together
  <2>2. it[{}] = 0
    BY <1>3 DEF Added
  <2> QED
    BY <2>1, <2>2, FS_EmptySet
<1>5. ASSUME NEW s \in SUBSET S, s # {}, s \ {Taken(s)} \in Good PROVE s \in Good
  <2> DEFINE x == Taken(s)
             rest == s \ {x}
  <2>1. x \in s /\ rest \in SUBSET S
    BY <1>5, OneTaken
  <2>2. it[s] = g[x] + it[rest]
    BY <1>3, <1>5 DEF Added
  <2>3. IsFiniteSet(Together(rest, B)) /\ it[rest] = Cardinality(Together(rest, B))
    BY <1>5
  <2>4. rest \subseteq s /\ x \notin rest /\ \A t \in s : t = x \/ t \in rest
    OBVIOUS
  <2> HIDE DEF x, rest
  <2>5. IsFiniteSet(B[x]) /\ g[x] = Cardinality(B[x])
    BY <2>1 DEF Counts
  <2>6. B[x] \cap Together(rest, B) = {}
    BY <2>1, <2>4 DEF Counts, Together
  <2>7. Together(s, B) = B[x] \cup Together(rest, B)
    BY <2>1, <2>4 DEF Together
  <2>8. /\ IsFiniteSet(Together(s, B))
        /\ Cardinality(Together(s, B)) =
             Cardinality(B[x]) + Cardinality(Together(rest, B))
               - Cardinality(B[x] \cap Together(rest, B))
    BY <2>3, <2>5, <2>7, FS_Union
  <2>9. Cardinality(B[x] \cap Together(rest, B)) = 0
    BY <2>6, FS_EmptySet
  <2>10. Cardinality(B[x]) \in Nat /\ Cardinality(Together(rest, B)) \in Nat
    BY <2>3, <2>5, FS_CardinalityType
  <2> QED
    BY <2>2, <2>3, <2>5, <2>8, <2>9, <2>10
<1>6. SUBSET S \subseteq Good
  <2> HIDE DEF Good
  <2> QED
    BY <1>4, <1>5, OneByOne
<1> QED
  BY <1>2, <1>6

\* Of numbers it is a number.
LEMMA SumIsNatural ==
    ASSUME NEW S, IsFiniteSet(S), NEW g, \A t \in S : g[t] \in Nat
    PROVE  SumOf(g, S) \in Nat
<1> DEFINE it == CHOOSE f : SumLoop(g, SUBSET S, f)
           Good == {s \in SUBSET S : it[s] \in Nat}
<1>1. SumLoop(g, SUBSET S, it)
  BY SumLoopExists
<1>2. SumOf(g, S) = it[S]
  BY SumOfIsLoop
<1> HIDE DEF it
<1>3. \A s \in SUBSET S : it[s] = Added(g, s, it)
  BY <1>1 DEF SumLoop
<1>4. {} \in Good
  <2>1. it[{}] = 0
    BY <1>3 DEF Added
  <2> QED
    BY <2>1
<1>5. ASSUME NEW s \in SUBSET S, s # {}, s \ {Taken(s)} \in Good PROVE s \in Good
  <2>1. Taken(s) \in s
    BY <1>5, OneTaken
  <2>2. it[s] = g[Taken(s)] + it[s \ {Taken(s)}]
    BY <1>3, <1>5 DEF Added
  <2> QED
    BY <1>5, <2>1, <2>2
<1>6. SUBSET S \subseteq Good
  <2> HIDE DEF Good
  <2> QED
    BY <1>4, <1>5, OneByOne
<1> QED
  BY <1>2, <1>6

-----------------------------------------------------------------------------
(* The sums over subtrees.                                                 *)

\* A chain of parents leads to the top.
Rooted(d, s) == \E t \in Above(d, s) : d.parent[t] = None

LEMMA RecordedIsFinite ==
    ASSUME NEW d, NEW s
    PROVE  IsFiniteSet(Recorded(d, s)) /\ Cardinality(Recorded(d, s)) \in Nat
<1>1. Recorded(d, s) \in SUBSET IPs /\ IsFiniteSet(IPs)
  BY NetAssumption DEF Recorded
<1> QED
  BY <1>1, FS_Subset, FS_CardinalityType

\* The loops of Rollup, and a step of the first one.
More(d, list, below) ==
    [s \in list |-> Cardinality(Recorded(d, s)) + SumOf(below, list \cap Children(d, {s}))]
SumsLoop(d, list, f) ==
    f = [n \in 0..Cardinality(Subnets) |->
           IF n = 0 THEN [s \in list |-> Cardinality(Recorded(d, s))] ELSE More(d, list, f[n - 1])]
ReachedLoop(d, list, f) ==
    f = [n \in 0..Cardinality(Subnets) |->
           IF n = 0 THEN {s \in list : d.parent[s] = None}
           ELSE LET found == f[n - 1] IN found \cup (list \cap Children(d, found))]

\* Rollup is made of them.
LEMMA RollupIsLoops ==
    ASSUME NEW d, NEW list
    PROVE  Rollup(d, list) =
             [s \in list |-> IF s \in (CHOOSE f : ReachedLoop(d, list, f))[Cardinality(Subnets)]
                             THEN (CHOOSE f : SumsLoop(d, list, f))[Cardinality(Subnets)][s]
                             ELSE Cardinality(Recorded(d, s))]
BY DEF Rollup, ReachedLoop, SumsLoop, More

LEMMA MoreTyped ==
    ASSUME NEW d, NEW list \in SUBSET Subnets, NEW below \in [list -> Nat]
    PROVE  More(d, list, below) \in [list -> Nat]
<1> SUFFICES ASSUME NEW s \in list
             PROVE  Cardinality(Recorded(d, s)) + SumOf(below, list \cap Children(d, {s})) \in Nat
  BY DEF More
<1> DEFINE S == list \cap Children(d, {s})
<1>1. IsFiniteSet(S)
  BY NetAssumption, FS_Subset
<1>2. \A t \in S : below[t] \in Nat
  OBVIOUS
<1> HIDE DEF S
<1>3. SumOf(below, S) \in Nat
  BY <1>1, <1>2, SumIsNatural
<1> QED
  BY <1>3, RecordedIsFinite DEF S

LEMMA SumsLoopExists ==
    ASSUME NEW d, NEW list \in SUBSET Subnets
    PROVE  \E f : SumsLoop(d, list, f)
<1> DEFINE F == [h \in [list -> Nat] |-> More(d, list, h)]
           A == [s \in list |-> Cardinality(Recorded(d, s))]
           n == Cardinality(Subnets)
<1>1. n \in Nat
  BY NetAssumption, FS_CardinalityType
<1>2. A \in [list -> Nat]
  BY RecordedIsFinite
<1>3. \A h \in [list -> Nat] : F[h] = More(d, list, h) /\ F[h] \in [list -> Nat]
  BY MoreTyped
<1> HIDE DEF F, A, n
<1>4. PICK w : Widens(F, A, n, w)
  BY <1>1, WidensExists
<1>5. \A i \in 0..n : w[i] = IF i = 0 THEN A ELSE F[w[i - 1]]
  BY <1>4 DEF Widens
<1>6. \A i \in 0..n : w[i] \in [list -> Nat]
  <2> DEFINE Good == [list -> Nat]
  <2>1. w[0] \in Good
    BY <1>1, <1>2, <1>5
  <2>2. \A i \in 1..n : w[i - 1] \in Good => w[i] \in Good
    BY <1>1, <1>3, <1>5
  <2> HIDE DEF Good
  <2> QED
    BY <1>1, <2>1, <2>2, StepByStep DEF Good
<1>7. \A i \in 0..n : (IF i = 0 THEN A ELSE F[w[i - 1]]) =
                      IF i = 0 THEN A ELSE More(d, list, w[i - 1])
  <2> SUFFICES ASSUME NEW i \in 0..n, i # 0 PROVE F[w[i - 1]] = More(d, list, w[i - 1])
    OBVIOUS
  <2>1. i - 1 \in 0..n
    BY <1>1
  <2> QED
    BY <1>3, <1>6, <2>1
<1>8. w = [i \in 0..n |-> IF i = 0 THEN A ELSE More(d, list, w[i - 1])]
  BY <1>4, <1>7 DEF Widens
<1> QED
  BY <1>8 DEF SumsLoop, A, n

\* Only the subnet itself or its parent can come before a subnet below another.
LEMMA BelowStep ==
    ASSUME NEW d \in Tables, NEW s \in Subnets, NEW t \in Descendants(d, s), t # s
    PROVE  d.parent[t] \in Descendants(d, s)
<1>1. t \in Subnets
  BY DescendantsAre
<1>2. s \in Above(d, t)
  BY <1>1, BelowIsAbove
<1>3. d.parent[t] \in Subnets /\ s \in Above(d, d.parent[t])
  BY <1>1, <1>2, AboveStep
<1> QED
  BY <1>3, BelowIsAbove

\* Who hangs from the top is not below his children, and they hang from it.
LEMMA RootedIsNoCycle ==
    ASSUME NEW d \in Tables, NEW s \in Subnets, Rooted(d, s), NEW t \in Subnets, d.parent[t] = s
    PROVE  s \notin Descendants(d, t) /\ Rooted(d, t)
<1>1. Rooted(d, t)
  <2>1. s \in Above(d, t)
    BY AboveAre
  <2>2. Above(d, s) \subseteq Above(d, t)
    BY <2>1, AboveTransitive
  <2> QED
    BY <2>2 DEF Rooted
<1>2. ASSUME s \in Descendants(d, t) PROVE FALSE
  <2> DEFINE X == Descendants(d, t)
  <2>1. X \in SUBSET Subnets
    BY DescendantsAre
  <2>2. \A x \in X : d.parent[x] \in X
    BY <1>2, BelowStep
  <2>3. Above(d, s) \subseteq X
    <3> HIDE DEF X
    <3> QED
      BY <1>2, <2>1, <2>2, AboveAre DEF X
  <2> QED
    BY <2>1, <2>2, <2>3, NoneAssumption DEF Rooted
<1> QED
  BY <1>1, <1>2

\* Of two subnets that something is below of, one is below the other.
LEMMA OneBelowTheOther ==
    ASSUME NEW d \in Tables, NEW t \in Subnets, NEW u \in Subnets,
           NEW h \in Descendants(d, t), h \in Descendants(d, u)
    PROVE  t \in Descendants(d, u) \/ u \in Descendants(d, t)
<1> DEFINE X == {x \in Descendants(d, t) :
                   x \in Descendants(d, u) => t \in Descendants(d, u) \/ u \in Descendants(d, t)}
<1>1. X \in SUBSET Subnets /\ t \in X
  BY DescendantsAre
<1>2. ASSUME NEW x \in Subnets, d.parent[x] \in X PROVE x \in X
  <2>1. x \in Descendants(d, t)
    BY <1>2, DescendantsAre
  <2>2. ASSUME x \in Descendants(d, u) PROVE t \in Descendants(d, u) \/ u \in Descendants(d, t)
    BY <1>2, <2>1, <2>2, BelowStep
  <2> QED
    BY <2>1, <2>2
<1>3. Descendants(d, t) \subseteq X
  <2> HIDE DEF X
  <2> QED
    BY <1>1, <1>2, DescendantsAre
<1> QED
  BY <1>3

\* What is below a subnet is the subnet and what is below its children.
LEMMA BelowIsChildren ==
    ASSUME NEW d \in Tables, NEW s \in Subnets, NEW h
    PROVE  h \in Descendants(d, s) <=>
             h = s \/ \E t \in Children(d, {s}) : h \in Descendants(d, t)
<1>1. ASSUME NEW t \in Children(d, {s}), h \in Descendants(d, t) PROVE h \in Descendants(d, s)
  <2>1. t \in Subnets /\ d.parent[t] = s
    BY DEF Children
  <2>2. t \in Descendants(d, s)
    BY <2>1, DescendantsAre
  <2> QED
    BY <1>1, <2>2, DescendantsTransitive
<1>2. s \in Descendants(d, s)
  BY DescendantsAre
<1> DEFINE X == {x \in Descendants(d, s) :
                   x = s \/ \E t \in Children(d, {s}) : x \in Descendants(d, t)}
<1>3. X \in SUBSET Subnets /\ s \in X
  BY DescendantsAre
<1>4. ASSUME NEW x \in Subnets, d.parent[x] \in X PROVE x \in X
  <2>1. x \in Descendants(d, s)
    BY <1>4, DescendantsAre
  <2>2. CASE d.parent[x] = s
    <3>1. x \in Children(d, {s}) /\ x \in Descendants(d, x)
      BY <2>2, DescendantsAre DEF Children
    <3> QED
      BY <2>1, <3>1
  <2>3. CASE d.parent[x] # s
    <3>1. PICK t \in Children(d, {s}) : d.parent[x] \in Descendants(d, t)
      BY <1>4, <2>3
    <3>2. t \in Subnets
      BY DEF Children
    <3>3. x \in Descendants(d, t)
      BY <3>1, <3>2, DescendantsAre
    <3> QED
      BY <2>1, <3>1, <3>3
  <2> QED
    BY <2>2, <2>3
<1>5. Descendants(d, s) \subseteq X
  <2> HIDE DEF X
  <2> QED
    BY <1>3, <1>4, DescendantsAre
<1> QED
  BY <1>1, <1>2, <1>5

\* What goes from each number to the next, from 0, goes up to n.
LEMMA UpTo ==
    ASSUME NEW n \in Nat, NEW Good, 0 \in Good, \A i \in 1..n : i - 1 \in Good => i \in Good
    PROVE  0..n \subseteq Good
<1> DEFINE w == [i \in 0..n |-> i]
<1>1. w[0] \in Good /\ \A i \in 1..n : w[i - 1] \in Good => w[i] \in Good
  <2>1. \A i \in 1..n : w[i - 1] = i - 1 /\ w[i] = i
    OBVIOUS
  <2> QED
    BY <2>1
<1>2. \A i \in 0..n : w[i] \in Good
  <2> HIDE DEF w
  <2> QED
    BY <1>1, StepByStep
<1> QED
  BY <1>2

\* The addresses below a subnet are its own and those below its children,
\* each counted once.
LEMMA BeneathIsParts ==
    ASSUME NEW d \in Tables, NEW s \in Subnets, Rooted(d, s),
           NEW g, \A t \in Children(d, {s}) : g[t] = Cardinality(Beneath(d, t))
    PROVE  Cardinality(Recorded(d, s)) + SumOf(g, Children(d, {s})) = Cardinality(Beneath(d, s))
<1> DEFINE S == Children(d, {s})
           B == [t \in Subnets |-> Beneath(d, t)]
           R == Recorded(d, s)
           U == Together(S, B)
<1>1. IsFiniteSet(S) /\ S \in SUBSET Subnets
  BY NetAssumption, FS_Subset DEF Children
<1>2. \A t \in S : t \in Subnets /\ d.parent[t] = s
  BY DEF Children
<1>3. \A t \in S : IsFiniteSet(B[t]) /\ g[t] = Cardinality(B[t])
  <2>1. \A t \in S : IsFiniteSet(Beneath(d, t))
    BY NetAssumption, FS_Subset DEF Beneath
  <2> QED
    BY <1>2, <2>1
<1>4. ASSUME NEW t \in S, NEW u \in S, t # u PROVE B[t] \cap B[u] = {}
  <2> SUFFICES ASSUME NEW ip \in IPs, d.home[ip] \in Descendants(d, t), d.home[ip] \in Descendants(d, u)
               PROVE  FALSE
    BY <1>2 DEF Beneath
  <2>1. t \in Descendants(d, u) \/ u \in Descendants(d, t)
    BY <1>2, OneBelowTheOther
  <2>2. s \in Descendants(d, u) \/ s \in Descendants(d, t)
    BY <1>2, <1>4, <2>1, BelowStep
  <2> QED
    BY <1>2, <2>2, RootedIsNoCycle
<1>5. ASSUME NEW ip \in IPs
      PROVE  ip \in Beneath(d, s) <=> ip \in R \/ \E t \in S : ip \in B[t]
  BY <1>2, BelowIsChildren DEF Beneath, Recorded
<1>6. R \cap U = {}
  <2> SUFFICES ASSUME NEW t \in S, NEW ip \in IPs, d.home[ip] = s, d.home[ip] \in Descendants(d, t)
               PROVE  FALSE
    BY <1>2 DEF Beneath, Recorded, Together
  <2> QED
    BY <1>2, RootedIsNoCycle
<1>7. Beneath(d, s) = R \cup U
  <2>1. R \in SUBSET IPs /\ Beneath(d, s) \in SUBSET IPs /\ \A t \in S : B[t] \in SUBSET IPs
    BY <1>2 DEF Beneath, Recorded
  <2> HIDE DEF S, B, R
  <2> QED
    BY <1>5, <2>1 DEF Together
<1>8. IsFiniteSet(R) /\ Cardinality(R) \in Nat
  BY RecordedIsFinite
<1> HIDE DEF S, B, R
<1>9. SumOf(g, S) = Cardinality(U) /\ IsFiniteSet(U)
  <2>1. Counts(S, g, B)
    BY <1>3, <1>4 DEF Counts
  <2> QED
    BY <1>1, <2>1, SumIsCardinality
<1> HIDE DEF U
<1>10. /\ Cardinality(R \cup U) = Cardinality(R) + Cardinality(U) - Cardinality(R \cap U)
       /\ Cardinality(R \cap U) = 0 /\ Cardinality(U) \in Nat
  BY <1>6, <1>8, <1>9, FS_Union, FS_EmptySet, FS_CardinalityType
<1>11. Cardinality(R) + SumOf(g, S) = Cardinality(Beneath(d, s))
  BY <1>7, <1>8, <1>9, <1>10
<1> QED
  BY <1>11 DEF S, R

\* After as many steps as there are subnets, every sum is that of the subtree.
LEMMA SumsAreSubtrees ==
    ASSUME NEW d \in Tables, NEW f, SumsLoop(d, Existing(d), f),
           NEW s \in Existing(d), Rooted(d, s)
    PROVE  f[Cardinality(Subnets)][s] = Cardinality(Beneath(d, s))
<1> DEFINE n == Cardinality(Subnets)
           Size(t) == Cardinality(Descendants(d, t))
           Right(i, t) == Rooted(d, t) /\ Size(t) <= i + 1 => f[i][t] = Cardinality(Beneath(d, t))
           Good == {i \in 0..n : \A t \in Existing(d) : Right(i, t)}
<1>1. n \in Nat
  BY NetAssumption, FS_CardinalityType
<1>2. \A t \in Subnets : IsFiniteSet(Descendants(d, t)) /\ Size(t) \in Nat /\ Size(t) <= n
  BY NetAssumption, DescendantsAre, FS_Subset, FS_CardinalityType
<1>3. Existing(d) \in SUBSET Subnets /\ \A t \in Existing(d) : Children(d, {t}) \subseteq Existing(d)
  BY NoneAssumption DEF Existing, Exists, Children
<1>4. 0 \in Good
  <2> SUFFICES ASSUME NEW t \in Existing(d), Size(t) <= 1
               PROVE  f[0][t] = Cardinality(Beneath(d, t))
    BY <1>1
  <2>1. f[0][t] = Cardinality(Recorded(d, t))
    BY <1>1 DEF SumsLoop
  <2>2. Descendants(d, t) = {t}
    <3> DEFINE D == Descendants(d, t)
    <3>1. t \in D /\ IsFiniteSet(D) /\ Cardinality(D) \in Nat /\ Cardinality(D) <= 1
      BY <1>2, <1>3, DescendantsAre
    <3> HIDE DEF D
    <3>2. IsFiniteSet(D \ {t}) /\ Cardinality(D \ {t}) = Cardinality(D) - 1 /\ Cardinality(D \ {t}) \in Nat
      BY <3>1, FS_RemoveElement, FS_CardinalityType
    <3>3. D \ {t} = {}
      BY <3>1, <3>2, FS_EmptySet
    <3> QED
      BY <3>1, <3>3 DEF D
  <2>3. Beneath(d, t) = Recorded(d, t)
    BY <2>2 DEF Beneath, Recorded
  <2> QED
    BY <2>1, <2>3
<1>5. ASSUME NEW i \in 1..n, i - 1 \in Good PROVE i \in Good
  <2> SUFFICES ASSUME NEW t \in Existing(d), Rooted(d, t), Size(t) <= i + 1
               PROVE  f[i][t] = Cardinality(Beneath(d, t))
    BY <1>1
  <2> DEFINE S == Children(d, {t})
             below == f[i - 1]
  <2>1. t \in Subnets /\ S \in SUBSET Subnets /\ S \subseteq Existing(d) /\ Existing(d) \cap S = S
    BY <1>3 DEF Children
  <2>2. f[i][t] = Cardinality(Recorded(d, t)) + SumOf(below, S)
    <3>1. f[i] = More(d, Existing(d), below)
      BY <1>1 DEF SumsLoop
    <3>2. f[i][t] = Cardinality(Recorded(d, t)) + SumOf(below, Existing(d) \cap S)
      BY <3>1 DEF More
    <3> QED
      BY <2>1, <3>2
  <2>3. ASSUME NEW u \in S PROVE below[u] = Cardinality(Beneath(d, u))
    <3>1. u \in Subnets /\ d.parent[u] = t /\ u \in Existing(d)
      BY <2>1 DEF Children
    <3>2. t \notin Descendants(d, u) /\ Rooted(d, u)
      BY <2>1, <3>1, RootedIsNoCycle
    <3>3. Descendants(d, u) \subseteq Descendants(d, t) /\ t \in Descendants(d, t)
      BY <2>1, <3>1, BelowIsChildren, DescendantsAre
    <3>4. Size(u) < Size(t)
      <4>1. Descendants(d, u) # Descendants(d, t)
        BY <3>2, <3>3
      <4> QED
        BY <1>2, <2>1, <3>1, <3>3, <4>1, FS_Subset
    <3>5. Size(u) \in Nat /\ Size(t) \in Nat
      BY <1>2, <2>1, <3>1
    <3>6. Size(u) <= (i - 1) + 1
      <4> HIDE DEF Size
      <4> QED
        BY <1>1, <3>4, <3>5
    <3>7. Right(i - 1, u)
      BY <1>5, <3>1
    <3> QED
      BY <3>2, <3>6, <3>7
  <2> QED
    <3> HIDE DEF below, S
    <3>1. Cardinality(Recorded(d, t)) + SumOf(below, S) = Cardinality(Beneath(d, t))
      BY <2>1, <2>3, BeneathIsParts DEF S
    <3> QED
      BY <2>2, <3>1
<1>6. n \in Good
  <2> HIDE DEF Good, n
  <2>1. 0..n \subseteq Good
    BY <1>1, <1>4, <1>5, UpTo
  <2> QED
    BY <1>1, <2>1
<1>7. Size(s) <= n + 1
  <2>1. Size(s) \in Nat /\ Size(s) <= n
    BY <1>2, <1>3
  <2> HIDE DEF Size, n
  <2> QED
    BY <1>1, <2>1
<1> QED
  BY <1>6, <1>7

\* The search from the top meets every listed subnet that hangs from it.
LEMMA RootedIsReached ==
    ASSUME NEW d \in Tables, ForeignKeys(d), NEW s \in Existing(d), Rooted(d, s)
    PROVE  s \in (CHOOSE f : ReachedLoop(d, Existing(d), f))[Cardinality(Subnets)]
<1> DEFINE list == Existing(d)
           A == {t \in list : d.parent[t] = None}
           F == [X \in SUBSET Subnets |-> X \cup (list \cap Children(d, X))]
           n == Cardinality(Subnets)
<1>1. IsFiniteSet(Subnets) /\ n \in Nat
  BY NetAssumption, FS_CardinalityType
<1>2. list \in SUBSET Subnets /\ A \in SUBSET Subnets
  BY DEF Existing
<1>3. /\ F \in [SUBSET Subnets -> SUBSET Subnets]
      /\ \A X \in SUBSET Subnets : F[X] = X \cup (list \cap Children(d, X))
  BY <1>2
<1>p. \A t \in Subnets : d.parent[t] \in Subnets \cup {None, Absent}
  BY DEF Tables
<1>4. \A t \in list : d.parent[t] # None => d.parent[t] \in list
  BY <1>2 DEF ForeignKeys
<1> DEFINE f == CHOOSE w : ReachedLoop(d, list, w)
<1>5. ReachedLoop(d, list, f)
  <2> HIDE DEF F, A, n, list
  <2>1. PICK w : Widens(F, A, n, w)
    BY <1>1, WidensExists
  <2>2. \A i \in 0..n : w[i] = IF i = 0 THEN A ELSE F[w[i - 1]]
    BY <2>1 DEF Widens
  <2>3. \A i \in 0..n : w[i] \in SUBSET Subnets
    <3> DEFINE Good == SUBSET Subnets
    <3>1. w[0] \in Good /\ \A i \in 1..n : w[i - 1] \in Good => w[i] \in Good
      BY <1>1, <1>2, <1>3, <2>2
    <3> HIDE DEF Good
    <3> QED
      BY <1>1, <3>1, StepByStep DEF Good
  <2>4. \A i \in 0..n : (IF i = 0 THEN A ELSE F[w[i - 1]]) =
                        IF i = 0 THEN A ELSE w[i - 1] \cup (list \cap Children(d, w[i - 1]))
    <3> SUFFICES ASSUME NEW i \in 0..n, i # 0
                 PROVE  F[w[i - 1]] = w[i - 1] \cup (list \cap Children(d, w[i - 1]))
      OBVIOUS
    <3>1. i - 1 \in 0..n
      BY <1>1
    <3> QED
      BY <1>3, <2>3, <3>1
  <2>5. w = [i \in 0..n |-> IF i = 0 THEN A ELSE w[i - 1] \cup (list \cap Children(d, w[i - 1]))]
    BY <2>1, <2>4 DEF Widens
  <2>6. ReachedLoop(d, list, w)
    BY <2>5 DEF ReachedLoop, A, n
  <2> QED
    BY <2>6
<1> HIDE DEF f, F, A, n
<1>6. f[0] = A /\ \A i \in 1..n : f[i] = f[i - 1] \cup (list \cap Children(d, f[i - 1]))
  <2> DEFINE Wider(X) == X \cup (list \cap Children(d, X))
  <2>1. f = [i \in 0..n |-> IF i = 0 THEN A ELSE Wider(f[i - 1])]
    BY <1>5 DEF ReachedLoop, A, n
  <2> HIDE DEF Wider
  <2>2. f[0] = A /\ \A i \in 1..n : f[i] = Wider(f[i - 1])
    BY <1>1, <2>1
  <2> QED
    BY <2>2 DEF Wider
<1>7. Search(Subnets, F, A, f) /\ f[n] = End(Subnets, f)
  <2>1. \A i \in 1..n : f[i - 1] \in SUBSET Subnets => f[i] = F[f[i - 1]]
    BY <1>3, <1>6
  <2> QED
    BY <1>1, <1>2, <1>3, <1>6, <2>1 DEF Search, End, n
<1>8. f[n] \in SUBSET Subnets /\ A \subseteq f[n] /\ F[f[n]] = f[n]
  BY <1>7, SearchEnds
<1>9. s \in f[n]
  <2> SUFFICES ASSUME s \notin f[n] PROVE FALSE
    OBVIOUS
  <2> DEFINE X == list \ f[n]
  <2>1. X \in SUBSET Subnets /\ s \in X
    BY <1>2
  <2>2. \A t \in X : d.parent[t] \in X
    <3> SUFFICES ASSUME NEW t \in list, t \notin f[n] PROVE d.parent[t] \in list \ f[n]
      OBVIOUS
    <3>1. d.parent[t] # None
      BY <1>8 DEF A
    <3>2. d.parent[t] \in list
      BY <1>4, <3>1
    <3>3. d.parent[t] \in f[n] => t \in f[n]
      BY <1>2, <1>3, <1>8 DEF Children
    <3> QED
      BY <3>2, <3>3
  <2>3. Above(d, s) \subseteq X
    <3> HIDE DEF X
    <3> QED
      BY <2>1, <2>2, AboveAre
  <2> QED
    BY <2>1, <2>2, <2>3, NoneAssumption DEF Rooted
<1> QED
  BY <1>9 DEF f, n

LEMMA RollupIsRight ==
    ASSUME TypeOK
    PROVE  RollupIsSubtree
<1> SUFFICES ASSUME NEW s \in Existing(db), None \in {db.parent[t] : t \in Above(db, s)}
             PROVE  Rollup(db, Existing(db))[s] = Cardinality(Beneath(db, s))
  BY DEF RollupIsSubtree
<1> DEFINE list == Existing(db)
           n == Cardinality(Subnets)
           sums == CHOOSE f : SumsLoop(db, list, f)
           reached == CHOOSE f : ReachedLoop(db, list, f)
<1>1. db \in Tables /\ ForeignKeys(db) /\ Rooted(db, s) /\ list \in SUBSET Subnets
  BY DEF TypeOK, Rooted, Existing
<1>2. SumsLoop(db, list, sums)
  <2> HIDE DEF list
  <2>1. \E f : SumsLoop(db, list, f)
    BY <1>1, SumsLoopExists
  <2> QED
    BY <2>1
<1>3. s \in reached[n]
  BY <1>1, RootedIsReached
<1>4. Rollup(db, list) = [t \in list |-> IF t \in reached[n] THEN sums[n][t]
                                         ELSE Cardinality(Recorded(db, t))]
  BY RollupIsLoops
<1> HIDE DEF sums, reached
<1>5. Rollup(db, list)[s] = sums[n][s]
  BY <1>3, <1>4
<1>6. sums[n][s] = Cardinality(Beneath(db, s))
  BY <1>1, <1>2, SumsAreSubtrees
<1> QED
  BY <1>5, <1>6

\* What is worked out from the tables is true of them in every reachable
\* state (the operators of core/access.py, _compute_rollup and _pool_out).
THEOREM ViewsStayTrue == Spec => []ViewsAreTrue
<1>1. TypeOK => ViewsAreTrue
  BY ReachIsOfGrants, RollupIsRight, FreeIsCounted DEF ViewsAreTrue
<1>2. Spec => []TypeOK
  BY TreeTypes
<1> QED
  BY <1>1, <1>2, PTL

=============================================================================
