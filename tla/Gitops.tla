------------------------------- MODULE Gitops -------------------------------
(***************************************************************************)
(* gitops.py: a document of desired vlans, subnets, reserved ranges and    *)
(* allocations is applied to the database.  An apply is a sequence of      *)
(* transactions: one creates vlans, subnets and ranges; one per allocation *)
(* (_do_allocate commits); one for the last tags; one prunes.  Between two *)
(* of them other requests commit, an allocation may fail, and the process  *)
(* may die.  Every transaction is one step here, or has no effect.         *)
(*                                                                         *)
(* A row is named by what identifies it in a document: a vlan id, a CIDR,  *)
(* the bounds of a range, a hostname within a subnet.  gitops_managed has  *)
(* a tag per row; the tag of a row that is gone only adds to the number of *)
(* rows an apply reports as pruned, and is left out.                       *)
(***************************************************************************)
EXTENDS Integers, FiniteSets, Functions

CONSTANTS
    Worker,         \* API workers that may apply a document
    Source,         \* names of documents
    Vlans, Subnets, Ranges, Hosts,
    Home,           \* the subnet of each range and of each allocation
    PrefixLen,      \* prefix length of each subnet
    Docs,           \* documents that pass parse()
    FirstRows,      \* databases to start from
    Editable,       \* rows operators create and delete by hand
    MaxGoals,       \* bound: changes of the document
    MaxUpsets,      \* bound: edits by hand, failures, restarts
    Nobody, NoParent, Unset, Null

Key == Vlans \cup Subnets \cup Ranges \cup Hosts
Inner == Ranges \cup Hosts
\* up is the "parent" of a subnet in the document: a CIDR, null, or not there.
Doc == [source : Source, keys : SUBSET Key, up : [Subnets -> Subnets \cup {Null, Unset}]]
Database == [present : SUBSET Key, tag : [Key -> Source \cup {Nobody}],
             up : [Subnets -> Subnets \cup {NoParent}]]

\* The subnet of every row and the parent of every subnet exist, and only rows
\* that exist are tagged or have a parent.
ForeignKeys(d) ==
    /\ \A k \in Inner \cap d.present : Home[k] \in d.present
    /\ \A s \in Subnets \cap d.present : d.up[s] \in d.present \cup {NoParent}
    /\ \A k \in Key \ d.present : d.tag[k] = Nobody /\ (k \in Subnets => d.up[k] = NoParent)

ASSUME KindsAssumption ==
    /\ Vlans \cap (Subnets \cup Inner) = {} /\ Subnets \cap Inner = {} /\ Ranges \cap Hosts = {}
    /\ Nobody \notin Source /\ {NoParent, Unset, Null} \cap Key = {}
    /\ IsFiniteSet(Subnets)
ASSUME ModelAssumption ==
    /\ Home \in [Inner -> Subnets]
    /\ PrefixLen \in [Subnets -> Nat]
    /\ Docs \subseteq Doc /\ Docs # {}
    /\ FirstRows \subseteq Database /\ \A d \in FirstRows : ForeignKeys(d)
    /\ Editable \subseteq Key
    /\ \A d \in Docs : \A r \in d.keys \cap Ranges : Home[r] \in d.keys
    /\ {MaxGoals, MaxUpsets} \subseteq Nat

VARIABLES
    db,         \* committed rows, their tags, the parents of subnets
    goal,       \* the document the pipeline applies, again and again
    pc,         \* where each worker is
    doc,        \* what it applies
    todo,       \* allocations it has not looked at
    pending,    \* the allocation whose tag is in the session only
    errors,     \* whether it has noted an error
    alone,      \* history: no one else wrote since it began
    lost,       \* history: allocations that failed, or whose tag a rollback took away
    goals, upsets

bounds == <<goals, upsets>>
local == <<doc, todo, pending, errors, lost>>
vars == <<db, goal, pc, local, alone, bounds>>

Goto(w, label) == pc' = [pc EXCEPT ![w] = label]
Upset == upsets < MaxUpsets /\ upsets' = upsets + 1 /\ UNCHANGED goals
\* Writes of w disturb every other apply.
Alone(w) == alone' = [x \in Worker |-> alone[x] /\ (x = w \/ db' = db)]

-----------------------------------------------------------------------------
(* The database.                                                           *)

Children(d, s) == {c \in Subnets \cap d.present : d.up[c] = s}

\* Deleting rows; with a subnet go the addresses and ranges in it.
DeletedAlone(d, ks) ==
    [present |-> d.present \ ks,
     tag |-> [k \in Key |-> IF k \in ks THEN Nobody ELSE d.tag[k]],
     up |-> [s \in Subnets |-> IF s \in ks THEN NoParent ELSE d.up[s]]]
Deleted(d, ks) == DeletedAlone(d, ks \cup {k \in Inner : Home[k] \in ks})

Tagged(d, ks, source) ==
    [d EXCEPT !.tag = [k \in Key |-> IF k \in ks \cap d.present THEN source ELSE @[k]]]

\* Rows the source manages that are not in the document.
\* Mutant: the rows of any source.
AnybodysSurplus(d, o) == {k \in d.present \ o.keys : d.tag[k] # Nobody}
Surplus(d, o) == {k \in d.present \ o.keys : d.tag[k] = o.source}

\* plan(): what an apply would create, prune, and change of parents.
Plan(d, o) ==
    [create |-> o.keys \ d.present,
     prune  |-> Surplus(d, o),
     update |-> {s \in Subnets \cap o.keys \cap d.present :
                   /\ o.up[s] # Unset
                   /\ d.up[s] # IF o.up[s] \in d.present THEN o.up[s] ELSE NoParent}]
\* An apply never clears a parent for "parent: null", which plan() then lists
\* for ever.
Settled(d, o) ==
    /\ Plan(d, o).create = {} /\ Plan(d, o).prune = {}
    /\ \A s \in Plan(d, o).update : o.up[s] = Null
    /\ \A k \in o.keys : d.tag[k] = o.source

-----------------------------------------------------------------------------
(* The transactions of an apply.                                           *)

Begin(w) ==
    /\ pc[w] = "idle"
    /\ Goto(w, "create")
    /\ doc' = [doc EXCEPT ![w] = goal]
    /\ todo' = [todo EXCEPT ![w] = goal.keys \cap Hosts]
    /\ pending' = [pending EXCEPT ![w] = {}]
    /\ errors' = [errors EXCEPT ![w] = FALSE]
    /\ lost' = [lost EXCEPT ![w] = {}]
    /\ alone' = [alone EXCEPT ![w] = TRUE]
    /\ UNCHANGED <<db, goal, bounds>>

\* Subnets are made in the order of their prefix length: the parent of s is
\* found if it had a row or is made before s.
FoundParent(d, o, s) ==
    IF \/ o.up[s] \in d.present
       \/ o.up[s] \in Subnets \cap o.keys /\ PrefixLen[o.up[s]] < PrefixLen[s]
    THEN o.up[s] ELSE NoParent
NewParent(d, o, s) ==
    IF s \in d.present /\ o.up[s] \notin Subnets THEN d.up[s] ELSE FoundParent(d, o, s)

Made(d, o) ==
    LET ks == o.keys \ Hosts
        rows == [d EXCEPT !.present = @ \cup ks,
                          !.up = [s \in Subnets |-> IF s \in ks THEN NewParent(d, o, s) ELSE @[s]]]
    IN Tagged(rows, ks, o.source)

Create(w) ==
    /\ pc[w] = "create"
    /\ db' = Made(db, doc[w])
    /\ Goto(w, "allocate")
    /\ Alone(w)
    /\ UNCHANGED <<goal, local, bounds>>

\* One allocation.  _do_allocate finds or makes the row and commits, and with
\* it the tag of the allocation before; its own tag waits for the next commit.
AllocateOne(w, h) ==
    /\ pc[w] = "allocate"
    /\ h \in todo[w]
    /\ todo' = [todo EXCEPT ![w] = @ \ {h}]
    /\ IF Home[h] \in db.present
       THEN /\ db' = [Tagged(db, pending[w], doc[w].source) EXCEPT !.present = @ \cup {h}]
            /\ pending' = [pending EXCEPT ![w] = {h}]
            /\ UNCHANGED errors
       ELSE /\ errors' = [errors EXCEPT ![w] = TRUE]
            /\ UNCHANGED <<db, pending>>
    /\ Alone(w)
    /\ UNCHANGED <<goal, pc, doc, lost, bounds>>

\* It raises (exhausted, a provider is down): the rollback takes the tag that
\* was pending with it.
AllocateFails(w, h) ==
    /\ pc[w] = "allocate"
    /\ h \in todo[w]
    /\ Upset
    /\ todo' = [todo EXCEPT ![w] = @ \ {h}]
    /\ errors' = [errors EXCEPT ![w] = TRUE]
    /\ pending' = [pending EXCEPT ![w] = {}]
    /\ lost' = [lost EXCEPT ![w] = @ \cup pending[w] \cup {h}]
    /\ UNCHANGED <<db, goal, pc, doc, alone>>

\* Mutant: no commit follows the loop.
WithoutLastTag(d, w) == d
WithLastTag(d, w) == Tagged(d, pending[w], doc[w].source)

CommitTags(w) ==
    /\ pc[w] = "allocate"
    /\ todo[w] = {}
    /\ db' = WithLastTag(db, w)
    /\ pending' = [pending EXCEPT ![w] = {}]
    /\ Goto(w, "prune")
    /\ Alone(w)
    /\ UNCHANGED <<goal, doc, todo, errors, lost, bounds>>

\* Deleting one subnet: refused while a subnet hangs below it, and then the
\* rollback undoes all that was pruned before.
\* Mutants: the loop ends there; the error is not noted.
PruneSubnetOrStop(before, st, s) ==
    IF st.failed THEN st
    ELSE IF Children(st.rows, s) # {} THEN [rows |-> before, failed |-> TRUE]
    ELSE [st EXCEPT !.rows = Deleted(@, {s})]
PruneSubnetQuietly(before, st, s) ==
    IF Children(st.rows, s) # {} THEN [st EXCEPT !.rows = before]
    ELSE [st EXCEPT !.rows = Deleted(@, {s})]
PruneSubnet(before, st, s) ==
    IF Children(st.rows, s) # {} THEN [rows |-> before, failed |-> TRUE]
    ELSE [st EXCEPT !.rows = Deleted(@, {s})]

\* Addresses and ranges, then subnets in the order of a query without ORDER
\* BY, then vlans.
AfterSubnets(d, o, order) ==
    LET after[i \in 0..Cardinality(Surplus(d, o) \cap Subnets)] ==
            IF i = 0 THEN [rows |-> Deleted(d, Surplus(d, o) \cap Inner), failed |-> FALSE]
            ELSE PruneSubnet(d, after[i - 1], order[i])
    IN after[Cardinality(Surplus(d, o) \cap Subnets)]
Pruned(d, o, order) ==
    [AfterSubnets(d, o, order) EXCEPT !.rows = Deleted(@, Surplus(d, o) \cap Vlans)]

Orders(ss) == Bijection(1..Cardinality(ss), ss)

Prune(w) ==
    /\ pc[w] = "prune"
    /\ \E order \in Orders(Surplus(db, doc[w]) \cap Subnets) :
        LET result == Pruned(db, doc[w], order) IN
        /\ db' = result.rows
        /\ errors' = [errors EXCEPT ![w] = @ \/ result.failed]
    /\ Goto(w, "idle")
    /\ Alone(w)
    /\ UNCHANGED <<goal, doc, todo, pending, lost, bounds>>

\* A transaction outside the loop is refused (somebody made the same vlan or
\* subnet): answered 500, the rest is not done.
Fail(w) ==
    /\ pc[w] \in {"create", "allocate", "prune"}
    /\ pc[w] = "allocate" => todo[w] = {}
    /\ Upset
    /\ Goto(w, "idle")
    /\ errors' = [errors EXCEPT ![w] = TRUE]
    /\ lost' = [lost EXCEPT ![w] = @ \cup pending[w]]
    /\ UNCHANGED <<db, goal, doc, todo, pending, alone>>

-----------------------------------------------------------------------------
(* The rest of the system.                                                 *)

Crash ==
    /\ \E w \in Worker : pc[w] # "idle"
    /\ Upset
    /\ pc' = [w \in Worker |-> "idle"]
    /\ errors' = [w \in Worker |-> TRUE]
    /\ UNCHANGED <<db, goal, doc, todo, pending, lost, alone>>

\* A new version of the document is pushed, or that of another source.
Push(o) ==
    /\ o # goal
    /\ goals < MaxGoals
    /\ goals' = goals + 1
    /\ goal' = o
    /\ UNCHANGED <<db, pc, local, alone, upsets>>

\* Operators create rows, subnets below others too, and delete what the API
\* lets them delete.
Edit(k) ==
    /\ Upset
    /\ IF k \in db.present
       THEN /\ k \in Subnets => Children(db, k) = {} /\ \A h \in Hosts \cap db.present : Home[h] # k
            /\ db' = Deleted(db, {k})
       ELSE /\ k \in Inner => Home[k] \in db.present
            /\ \E p \in {NoParent} \cup {s \in db.present \cap Subnets :
                                           k \in Subnets /\ PrefixLen[s] < PrefixLen[k]} :
                db' = [db EXCEPT !.present = @ \cup {k},
                                 !.up = [s \in Subnets |-> IF s = k THEN p ELSE @[s]]]
    /\ alone' = [w \in Worker |-> FALSE]
    /\ UNCHANGED <<goal, pc, local>>

Init ==
    /\ db \in FirstRows
    /\ goal \in Docs
    /\ pc = [w \in Worker |-> "idle"]
    /\ doc = [w \in Worker |-> goal]
    /\ todo = [w \in Worker |-> {}]
    /\ pending = [w \in Worker |-> {}]
    /\ errors = [w \in Worker |-> FALSE]
    /\ lost = [w \in Worker |-> {}]
    /\ alone = [w \in Worker |-> FALSE]
    /\ goals = 0 /\ upsets = 0

Work(w) ==
    \/ Begin(w) \/ Create(w) \/ CommitTags(w) \/ Prune(w)
    \/ \E h \in Hosts : AllocateOne(w, h)
Next ==
    \/ \E w \in Worker : Work(w) \/ Fail(w) \/ \E h \in Hosts : AllocateFails(w, h)
    \/ Crash
    \/ \E o \in Docs : Push(o)
    \/ \E k \in Editable : Edit(k)

Spec == Init /\ [][Next]_vars
\* The pipeline applies its document again and again, and requests end.
FairSpec == Spec /\ \A w \in Worker : WF_vars(Work(w))

-----------------------------------------------------------------------------
(* Properties.                                                             *)

\* Values of the variables, and the foreign keys.
TypeOK ==
    /\ db \in Database /\ ForeignKeys(db)
    /\ goal \in Docs /\ doc \in [Worker -> Docs]
    /\ pc \in [Worker -> {"idle", "create", "allocate", "prune"}]
    /\ todo \in [Worker -> SUBSET Hosts]
    /\ pending \in [Worker -> SUBSET Hosts] /\ \A w \in Worker : Cardinality(pending[w]) <= 1
    /\ lost \in [Worker -> SUBSET Hosts]
    /\ errors \in [Worker -> BOOLEAN] /\ alone \in [Worker -> BOOLEAN]

Applying(w) == pc[w] # "idle" /\ (pc'[w] # pc[w] \/ todo'[w] # todo[w])
AllEnded == \A w \in Worker : pc'[w] = "idle"

\* An apply leaves the rows of others alone (the module's header: "prune only
\* removes rows this source created"): a row it removes carries its tag or
\* lies in a subnet that does, and it never changes the tag or the parent of a
\* row that its document does not list.  A database that is as the document wants
\* it is left alone altogether: "Re-applying an unchanged document is a no-op"
\* (user guide).
ApplyStaysHome ==
    [][\A w \in Worker : Applying(w) /\ db' # db =>
         LET o == doc[w] IN
         /\ ~Settled(db, o)
         /\ \A k \in db.present \ db'.present :
              \/ db.tag[k] = o.source /\ k \notin o.keys
              \/ k \in Inner /\ Home[k] \notin db'.present /\ db.tag[Home[k]] = o.source
         /\ \A k \in db'.present \ o.keys :
              db'.tag[k] = db.tag[k] /\ (k \in Subnets => db'.up[k] = db.up[k])]_vars

\* A document whose allocations lie in subnets it lists too.  An allocation in
\* a subnet that is pruned by the same apply is deleted without an error.
SelfContained(o) == \A h \in Hosts \cap o.keys : Home[h] \in o.keys
\* Every parent the document names exists when its child is made.
ParentsFirst(o) ==
    \A s \in Subnets \cap o.keys : o.up[s] \in Subnets =>
        o.up[s] \in o.keys /\ PrefixLen[o.up[s]] < PrefixLen[s]

\* An apply that reports no error, while nobody else wrote, has brought the
\* database to the document: everything is there and tagged, nothing of the
\* source is left over, and plan() would show nothing to create or prune.
SuccessIsComplete ==
    [][\A w \in Worker :
         pc[w] = "prune" /\ pc'[w] = "idle" /\ ~errors'[w] /\ alone[w]
         /\ SelfContained(doc[w]) /\ ParentsFirst(doc[w])
         => Settled(db', doc[w])]_vars

\* "Every resource IPForge creates or updates from a document is tagged with
\* that document's source" (user guide): also when some allocation fails,
\* except for that one and the one before it, whose tag the rollback loses.
TagsAreKept ==
    [][\A w \in Worker :
         pc[w] = "prune" /\ pc'[w] = "idle" /\ upsets' = upsets /\ alone[w] =>
            \A k \in (doc[w].keys \cap db'.present) \ lost[w] : db'.tag[k] = doc[w].source]_vars

\* Pruning is blocked by a subnet of another owner below one to be pruned.
Blocked(o) ==
    \E s \in Surplus(db, o) \cap Subnets : Children(db, s) \ Surplus(db, o) # {}

\* After failures, crashes and edits, applying a document again and again
\* reaches it and stays there, unless the pruning is blocked.
Converges ==
    <>[](SelfContained(goal) => Settled(db, goal) \/ Blocked(goal))
=============================================================================
