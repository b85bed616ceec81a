---------------------------- MODULE RecordEdits ----------------------------
(***************************************************************************)
(* The requests that change records at a provider and in the cache, beside *)
(* the syncs of ProviderCache: api/dns.py (create, update and delete a     *)
(* record, with its PTR), api/dhcp.py (reservations, with their DNS        *)
(* record), and api/addresses.py (create, update, and delete an address    *)
(* with the records found for it).                                         *)
(*                                                                         *)
(* A request is a list of provider calls, then one commit.  A call that    *)
(* must succeed and fails leads to the undo of the calls before it, as far *)
(* as the handler has one, and so does a commit that fails.  Undo steps    *)
(* are at best effort.  One request is in progress at a time; what it      *)
(* meets on its way are the syncs and other administrators.                *)
(***************************************************************************)
EXTENDS ProviderCache

CONSTANTS
    Requests,       \* the requests that clients make
    MaxRequests     \* bound

\* follow: register_ptr, update_ptr, delete_ptr or register_dns; host: the
\* hostname of an address that is added or edited, at the IP of new.
Request == [kind : {"create", "update", "delete", "reserve", "rename", "release",
                    "add address", "edit address", "drop address"},
            old : Rec, new : Rec, follow : BOOLEAN,
            host : Names \cup {None}]
\* A call: act on rec (an update turns it into to); must: a failure ends the request.
Call == [act : {"add", "del", "upd"}, rec : Rec, to : Rec, must : BOOLEAN]

ASSUME RequestAssumption == Requests \subseteq Request /\ MaxRequests \in Nat

VARIABLES
    op,         \* the request in progress, and how the last one ended
    requests    \* how many there were

vars == <<syncVars, op, requests>>

Lease(r) == [r EXCEPT !.kind = "lease"]
Ptr(r) == [r EXCEPT !.kind = "PTR"]
A(r) == [r EXCEPT !.kind = "A"]
HasPtr(r) == RevZone[r.ip] # NoZone

Must(act, r) == <<[act |-> act, rec |-> r, to |-> r, must |-> TRUE]>>
Try(act, r) == <<[act |-> act, rec |-> r, to |-> r, must |-> FALSE]>>
Turn(old, new) == <<[act |-> "upd", rec |-> old, to |-> new, must |-> TRUE]>>
Effect(rs, c) ==
    CASE c.act = "add" -> rs \cup {c.rec}
      [] c.act = "del" -> rs \ {c.rec}
      [] c.act = "upd" -> (rs \ {c.rec}) \cup {c.to}
Back(c) ==
    CASE c.act = "add" -> Must("del", c.rec)
      [] c.act = "del" -> Must("add", c.rec)
      [] c.act = "upd" -> Turn(c.to, c.rec)
BackAll(cs) == FoldRight(LAMBDA c, rest : rest \o Back(c), cs, <<>>)

-----------------------------------------------------------------------------
(* What each handler calls, undoes and commits.                            *)

\* The PTR follows an edit within its reverse zone, into another one, or out
\* of and into the zones the provider has.
PtrCalls(old, new) ==
    IF HasPtr(old) /\ HasPtr(new)
    THEN IF ShardOf(Ptr(old)) = ShardOf(Ptr(new)) THEN Turn(Ptr(old), Ptr(new))
         ELSE Must("del", Ptr(old)) \o Must("add", Ptr(new))
    ELSE IF HasPtr(old) THEN Must("del", Ptr(old))
    ELSE IF HasPtr(new) THEN Must("add", Ptr(new)) ELSE <<>>

CallsOf(q) ==
    CASE q.kind = "create" ->
            Must("add", q.new)
            \o (IF q.follow /\ HasPtr(q.new) THEN Try("add", Ptr(q.new)) ELSE <<>>)
      [] q.kind = "update" ->
            Turn(q.old, q.new) \o (IF q.follow THEN PtrCalls(q.old, q.new) ELSE <<>>)
      [] q.kind = "delete" ->
            Must("del", q.old)
            \o (IF q.follow /\ HasPtr(q.old) THEN Try("del", Ptr(q.old)) ELSE <<>>)
      [] q.kind = "reserve" ->
            Must("add", q.new) \o (IF q.follow THEN Must("add", A(q.new)) ELSE <<>>)
      [] q.kind = "rename" -> Turn(q.old, q.new)
      [] q.kind = "release" -> Must("del", q.old)
      [] OTHER -> <<>>

\* _build_preview_items: the records the row says it has, those cached for its
\* IP, and the A records cached for its hostname.
Preview(ip) ==
    LET row == addr[ip]
        mine(kind) == [kind |-> kind, name |-> row.name, ip |-> ip]
    IN (IF row.name = None THEN {}
        ELSE {mine("A") : x \in {y \in {1} : row.dns}} \cup {mine("lease") : x \in {y \in {1} : row.dhcp}}
             \cup {mine("PTR") : x \in {y \in {1} : row.ptr /\ row.dns /\ RevZone[ip] # NoZone}})
       \cup At(cached, "A", ip)
       \cup (IF row.dhcp THEN {} ELSE At(cached, "lease", ip))
       \cup {r \in cached : r.kind = "A" /\ r.name = row.name}

\* After a call failed.  A deleted lease comes back with the hostname of the
\* address; without one it loses its name, which is left out here.
\* Mutant: the reservation stays when its DNS record is refused.
UndoOfCallNoLease(o) ==
    CASE o.req.kind = "update" -> IF o.done = <<>> THEN <<>> ELSE Turn(o.req.new, o.req.old)
      [] o.req.kind = "drop address" -> BackAll(o.done)
      [] OTHER -> <<>>
UndoOfCall(o) ==
    CASE o.req.kind = "update" -> IF o.done = <<>> THEN <<>> ELSE Turn(o.req.new, o.req.old)
      [] o.req.kind = "reserve" -> BackAll(o.done)
      [] o.req.kind = "drop address" ->
            BackAll([i \in DOMAIN o.done |->
                IF o.done[i].rec.kind = "lease" /\ o.row.name # None
                THEN [o.done[i] EXCEPT !.rec.name = o.row.name] ELSE o.done[i]])
      [] OTHER -> <<>>
\* After the commit failed.
UndoOfCommit(o) ==
    CASE o.req.kind = "create" -> BackAll(o.done)
      [] o.req.kind = "update" -> Turn(o.req.new, o.req.old) \o BackAll(Tail(o.done))
      [] o.req.kind = "delete" -> Must("add", o.req.old)
      [] o.req.kind = "rename" -> Turn(o.req.new, o.req.old)
      [] OTHER -> <<>>

\* The cache rows a commit leaves.  The row of a PTR is found by its owner
\* name, and the first of several is taken.
PtrCached(o) ==
    LET c == Last(o.done)
        mine == At(cached, "PTR", o.req.old.ip)
        rows == IF mine = {} THEN cached ELSE cached \ {CHOOSE r \in mine : TRUE}
    IN IF Len(o.done) < 2 THEN cached
       ELSE IF c.act = "del" THEN rows
       ELSE IF c.act = "upd" /\ rows = cached THEN cached
       ELSE IF c.act = "upd" \/ Len(o.done) = 3 THEN rows \cup {Ptr(o.req.new)}
       ELSE cached \cup {Ptr(o.req.new)}
\* Mutant: an update forgets the row it replaces.
CachedAfterKeepsOld(o) == cached \cup {c.to : c \in ToSet(o.done)}
CachedAfter(o) ==
    LET q == o.req IN
    CASE q.kind = "create" -> cached \cup {c.rec : c \in ToSet(o.done)}
      [] q.kind = "update" -> (PtrCached(o) \ {q.old}) \cup {q.new}
      [] q.kind = "delete" ->
            cached \ ({q.old} \cup IF Len(CallsOf(q)) = 2 THEN At(cached, "PTR", q.old.ip) ELSE {})
      [] q.kind = "reserve" ->
            (IF q.follow THEN {r \in cached : r.kind # "A" \/ r.name # q.new.name} \cup {A(q.new)}
             ELSE cached) \cup {q.new}
      [] q.kind = "rename" -> (cached \ At(cached, "lease", q.old.ip)) \cup {q.new}
      [] q.kind = "release" -> cached \ At(cached, "lease", q.old.ip)
      [] OTHER -> cached

NewRow(name) == [name |-> name, dns |-> FALSE, dhcp |-> FALSE, ptr |-> FALSE]
AddrAfter(o) ==
    LET ip == o.req.new.ip IN
    CASE o.req.kind = "add address" -> [addr EXCEPT ![ip] = NewRow(o.req.host)]
      [] o.req.kind = "edit address" -> [addr EXCEPT ![ip].name = o.req.host]
      [] o.req.kind = "drop address" -> [addr EXCEPT ![ip] = None]
      [] OTHER -> addr

\* The commit is refused: the cached row it updates was deleted and refilled by
\* a sync meanwhile, the address was inserted, or is gone.
Conflict(o) ==
    CASE o.req.kind \in {"update", "rename"} -> o.gone
      [] o.req.kind = "add address" -> addr[o.req.new.ip] # None
      [] o.req.kind \in {"edit address", "drop address"} -> addr[o.req.new.ip] = None
      [] OTHER -> FALSE

\* What a handler looks up first (404, 409).
Found(q) ==
    CASE q.kind = "update" -> q.old \in cached
      [] q.kind = "rename" -> At(cached, "lease", q.old.ip) # {}
      [] q.kind = "add address" -> addr[q.new.ip] = None
      [] q.kind \in {"edit address", "drop address"} -> addr[q.new.ip] # None
      [] OTHER -> TRUE

-----------------------------------------------------------------------------
(* A request.                                                              *)

Begin(q) ==
    /\ op.pc = "idle"
    /\ requests < MaxRequests
    /\ requests' = requests + 1
    /\ Found(q)
    /\ \E todo \in IF q.kind # "drop address" THEN {CallsOf(q)}
                   ELSE {[i \in DOMAIN t |-> Must("del", t[i])[1]] :
                           t \in UNION {SetToSeqs(keys) : keys \in SUBSET Preview(q.new.ip)}} :
        op' = [pc |-> "call", req |-> q, todo |-> todo, done |-> <<>>, before |-> remote,
               row |-> IF q.kind = "drop address" THEN addr[q.new.ip] ELSE None,
               why |-> "none", gone |-> FALSE, alone |-> TRUE, fresh |-> cached = remote]
    /\ UNCHANGED syncVars

NoOp == [pc |-> "idle", req |-> None, todo |-> <<>>, done |-> <<>>, before |-> {},
         row |-> None, why |-> "none", gone |-> FALSE, alone |-> TRUE, fresh |-> FALSE]
Answered(why, alone) == [NoOp EXCEPT !.why = why, !.alone = alone]
Refused(why, undo, alone) ==
    IF undo = <<>> THEN Answered(why, alone)
    ELSE [op EXCEPT !.pc = "undo", !.why = why, !.todo = undo, !.alone = alone]

\* A provider takes the call, refuses it, or (a fault) takes it and the answer
\* is lost.
CallSucceeds ==
    /\ op.pc = "call" /\ op.todo # <<>>
    /\ remote' = Effect(remote, Head(op.todo))
    /\ op' = [op EXCEPT !.todo = Tail(@), !.done = Append(@, Head(op.todo))]
    /\ UNCHANGED <<cached, tables, sync, upsets, requests>>
CallFails ==
    /\ op.pc = "call" /\ op.todo # <<>>
    /\ op' = IF Head(op.todo).must THEN Refused("call", UndoOfCall(op), op.alone)
             ELSE [op EXCEPT !.todo = Tail(@)]
    /\ UNCHANGED <<syncVars, requests>>
AnswerLost ==
    /\ op.pc = "call" /\ op.todo # <<>> /\ Head(op.todo).must
    /\ Upset
    /\ remote' = Effect(remote, Head(op.todo))
    /\ op' = Refused("call", UndoOfCall(op), FALSE)
    /\ UNCHANGED <<cached, tables, sync, requests>>

UndoStep ==
    /\ op.pc = "undo"
    /\ \/ /\ remote' = Effect(remote, Head(op.todo))
          /\ op' = Refused(op.why, Tail(op.todo), op.alone)
          /\ UNCHANGED upsets
       \/ /\ Upset
          /\ op' = Refused(op.why, Tail(op.todo), FALSE)
          /\ UNCHANGED remote
    /\ UNCHANGED <<cached, tables, sync, requests>>

CommitRequest ==
    /\ op.pc = "call" /\ op.todo = <<>> /\ ~Conflict(op)
    /\ cached' = CachedAfter(op)
    /\ addr' = AddrAfter(op)
    /\ sync' = IF addr' = addr THEN sync ELSE Raced
    /\ op' = Answered("done", op.alone)
    /\ UNCHANGED <<remote, manual, auto, excluded, status, upsets, requests>>
CommitRefused ==
    /\ op.pc = "call" /\ op.todo = <<>>
    /\ IF Conflict(op) THEN UNCHANGED upsets ELSE Upset
    /\ op' = Refused("commit", UndoOfCommit(op), op.alone)
    /\ UNCHANGED <<remote, cached, tables, sync, requests>>

\* What a request will meet of the others' steps: its cached row replaced.
Meanwhile ==
    /\ requests' = requests
    /\ op' = IF op.pc = "idle" THEN op ELSE [op EXCEPT
         !.gone = @ \/ /\ op.req.kind \in {"update", "rename"}
                       /\ \/ op.req.old \in cached \ cached'
                          \/ \E s \in Side : /\ sync[s].pc = "store" /\ sync'[s].pc # "store"
                                             /\ ShardOf(op.req.old) \in sync[s].shards,
         !.alone = @ /\ remote' = remote,
         !.fresh = @ /\ cached' = cached]

Crash ==
    /\ SyncsDie
    /\ op' = NoOp
    /\ UNCHANGED requests

Init ==
    /\ SyncInit
    /\ requests = 0
    /\ op = NoOp

Handle == CallSucceeds \/ CallFails \/ UndoStep \/ CommitRequest \/ CommitRefused
Next ==
    \/ \E q \in Requests : Begin(q)
    \/ Handle \/ AnswerLost
    \/ /\ \/ \E s \in Side : RunStep(s) \/ RunFails(s) \/ Purge(s)
          \/ \E z \in Scopes : SetReservedSync(z)
          \/ \E r \in Edits : ProviderEdit(r)
       /\ Meanwhile
    \/ Crash

Spec == Init /\ [][Next]_vars
\* The background loop starts both syncs again and again; threads are run, and
\* one that waits for the lock gets it: the other side takes it once per run.
FairSpec ==
    /\ Spec /\ WF_vars(Handle)
    /\ \A s \in Side : SF_vars(RunStep(s) /\ Meanwhile)

-----------------------------------------------------------------------------
(* Properties.                                                             *)

\* Values of the variables; a reserved range is an operator's or the sync's.
TypeOK ==
    /\ remote \subseteq Rec /\ cached \subseteq Rec
    /\ addr \in [IPs -> Address \cup {None}]
    /\ manual \subseteq Spans /\ auto \subseteq Spans /\ excluded \subseteq Scopes
    /\ manual \cap auto = {}
    /\ status \in [Side -> {"never", "running", "ok", "error"}]
    /\ \A s \in Side : sync[s].pc \in {"idle", "fetch", "store", "ranges", "load", "commit",
                                       "backfill"}
    /\ op.pc \in {"idle", "call", "undo"} /\ op.req \in Requests \cup {None}

\* The calls that may go through without being undone: the PTR deleted before
\* its replacement was refused, the PTR deleted at best effort, a lease that
\* comes back under the hostname of its address; and everything, when the
\* commit of a reservation or of an address is refused.
Gap(o, why) ==
    LET q == o.req IN
    IF why = "commit" /\ UndoOfCommit(o) = <<>> THEN Rec
    ELSE {r \in Rec :
            \/ q.kind = "update" /\ why = "call" /\ r = Ptr(q.old)
            \/ q.kind = "delete" /\ r = Ptr(q.old)
            \/ q.kind = "drop address" /\ r.kind = "lease" /\ r.ip = q.new.ip}

Ends == op.pc # "idle" /\ op'.pc = "idle"
\* What it deleted was there, and what it added was not.
Meant(o) == \A c \in ToSet(o.done) :
    /\ c.act \in {"del", "upd"} => c.rec \in o.before
    /\ c.act \in {"add", "upd"} => c.to \notin o.before \/ (c.act = "upd" /\ c.to = c.rec)
\* A request that is answered with an error has left the providers as they
\* were, up to the gaps its handler is known to have, when nobody else wrote
\* there and no undo failed, whatever call or commit it failed at.
RefusedIsUndone ==
    [][Ends /\ op'.why \in {"call", "commit"} /\ op'.alone /\ Meant(op)
       => \A r \in Rec \ Gap(op, op'.why) : (r \in remote') = (r \in op.before)]_vars

\* A cache that agreed with the providers still does after a successful
\* request.  Excepted are PTRs whose delete was refused or that have company
\* at their IP, a PTR that the provider made of one that was not there, other
\* A records of a hostname that is reserved, and the deletion of an address,
\* which leaves the cache alone.
AnswerIsCached ==
    [][Ends /\ op'.why = "done" /\ op.alone /\ op.fresh /\ op.req.kind # "drop address" =>
         \A r \in Rec : (r \in cached') # (r \in remote') =>
             /\ op.req.follow
             /\ CASE op.req.kind = "delete" ->
                       r.kind = "PTR" /\ (Len(op.done) < 2 \/ r # Ptr(op.req.old))
                  [] op.req.kind = "update" ->
                       r.kind = "PTR" /\ At(op.before, "PTR", op.req.old.ip) # {Ptr(op.req.old)}
                  [] op.req.kind = "reserve" ->
                       r.kind = "A" /\ r.name = op.req.new.name /\ r \in op.before
                  [] OTHER -> FALSE]_vars

\* A sync never changes a hostname that was there when it looked, nor the
\* range of an operator.
OperatorDataKept ==
    [][\A s \in Side : sync[s].pc # "idle" /\ sync'[s].pc # sync[s].pc =>
         /\ \A ip \in IPs : addr[ip] # None /\ addr[ip].name # None /\ addr'[ip] # addr[ip] =>
               addr'[ip].name = addr[ip].name \/ sync[s].rows[ip].name = None
         /\ manual' = manual]_vars

\* With syncs that run again and again the cache comes to agree with the
\* providers, and the reserved ranges with the scopes that are not excluded
\* (less an operator's own), after failed fetches, restarts, stale fetches and
\* requests.
CacheCatchesUp == <>[](cached = remote /\ auto = Aggregate(Scopes \ excluded))
=============================================================================
