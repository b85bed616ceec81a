-------------------------- MODULE AllocationProofs --------------------------
(***************************************************************************)
(* Proofs about Allocation, for any subnet, requests, bodies, initial      *)
(* table, edits, faults and restarts; and about the approval workflow on   *)
(* top of it, for any requests, calls, users' wishes and bounds.           *)
(*                                                                         *)
(* Rows are locked one by one, but the records of the providers are not:   *)
(* the invariant ties each record to the row that has it, or to the one    *)
(* request that will commit or undo it.                                    *)
(*                                                                         *)
(* What holds of allocations alone holds under the workflow too: its steps *)
(* are allocation steps, or leave the allocations as they are.  On top of  *)
(* it, a request whose decisions did not overlap is approved exactly when  *)
(* a call made for it has been answered.                                   *)
(***************************************************************************)
EXTENDS IpRequests, TLAPS

-----------------------------------------------------------------------------
(* The inductive invariant.                                                *)

Excused == edited \cup TakenOver

\* What a request has chosen by the time it is where it is.
Chosen(r) ==
    /\ pc[r] \in {"new", "check", "pick", "load"} => isNew[r] /\ loaded[r] = NoRow
    /\ pc[r] = "new" => known[r] = {}
    /\ pc[r] \in {"new", "check", "pick", "load", "flush", "dns"} => registered[r] = {}
    /\ pc[r] \in {"load", "flush"} \cup Working => addr[r] \in Addr
    /\ pc[r] \in {"undo_ptr", "undo_dns"} => isNew[r]
    /\ code[r] # 0 => pc[r] = "answered"
    /\ code[r] = 201 => isNew[r]
    /\ code[r] = 200 => ~isNew[r]
    /\ ~isNew[r] => loaded[r] # NoRow
    /\ code[r] \in {200, 201} \/ ~isNew[r] => addr[r] \in Addr
    /\ loaded[r] # NoRow => addr[r] \in Addr /\ row[addr[r]] # NoRow

\* A new allocation at work has the lock of its address.
Locked(r) ==
    /\ isNew[r] /\ pc[r] \in Working => holder[addr[r]] = r
    /\ \A a \in Addr : holder[a] = r => addr[r] = a /\ pc[r] \in Working

\* It inserts a row only where there is none, and then there is one.
Inserting(r) ==
    /\ isNew[r] /\ loaded[r] = NoRow /\ pc[r] \in Working => row[addr[r]] = NoRow
    /\ code[r] = 201 => row[addr[r]] # NoRow

\* The row of a repeated call, or of an answered one, has the hostname.
Named(r) ==
    code[r] \in {200, 201} \/ (~isNew[r] /\ pc[r] \in {"flush"} \cup Working) =>
        addr[r] \in Excused \/ HasName(addr[r], body[r].host)

\* What a request has registered is there when it commits.
Registered(r) ==
    pc[r] \in {"ptr", "dhcp", "commit"} /\ addr[r] \notin Excused =>
        /\ "dns" \in registered[r] => Key(r) \in forward
        /\ "ptr" \in registered[r] => Key(r) \in reverse
        /\ "dhcp" \in registered[r] => Key(r) \in lease

\* A repeated call finds the row of the earlier one.
Repeated(r) ==
    /\ pc[r] = "check" => \A a \in known[r] \ Excused : HasName(a, body[r].host)
    /\ isNew[r] /\ (pc[r] \in {"pick", "load", "flush"} \cup Working \/ code[r] = 201)
       => known[r] \subseteq Excused

Sound(r) ==
    Chosen(r) /\ Locked(r) /\ Inserting(r) /\ Named(r) /\ Registered(r) /\ Repeated(r)

\* A record belongs to a row, or to a new allocation that has not come to its
\* undo step.
Settled(rec) ==
    \/ rec[2] \in Excused \/ rec \in blemished
    \/ row[rec[2]] # NoRow /\ row[rec[2]].host = rec[1]
OwnedBy(rec, what, labels) ==
    \E r \in Request : Key(r) = rec /\ isNew[r] /\ what \in registered[r] /\ pc[r] \in labels
Owned ==
    /\ \A rec \in forward :
         Settled(rec) \/ OwnedBy(rec, "dns", {"ptr", "dhcp", "commit", "undo_ptr", "undo_dns"})
    /\ \A rec \in reverse : Settled(rec) \/ OwnedBy(rec, "ptr", {"dhcp", "commit", "undo_ptr"})
    /\ \A rec \in lease : Settled(rec) \/ OwnedBy(rec, "dhcp", {"commit"})

IInv ==
    TypeOK /\ (\A r \in Request : Sound(r)) /\ RowsAreRegistered /\ Owned /\ SharedOnlyByTakeover

-----------------------------------------------------------------------------
(* Types.                                                                  *)

RequestLabels == {"new", "check", "pick", "load", "flush", "answered"} \cup Working

\* What a step leaves of a request that does not take it.
Untouched(q) ==
    /\ pc'[q] = pc[q] /\ body'[q] = body[q] /\ addr'[q] = addr[q] /\ isNew'[q] = isNew[q]
    /\ loaded'[q] = loaded[q] /\ registered'[q] = registered[q] /\ code'[q] = code[q]
    /\ known'[q] = known[q]

LEMMA Functions ==
    ASSUME TypeOK
    PROVE  /\ DOMAIN row = Addr /\ DOMAIN holder = Addr
           /\ DOMAIN pc = Request /\ DOMAIN body = Request /\ DOMAIN addr = Request
           /\ DOMAIN isNew = Request /\ DOMAIN loaded = Request /\ DOMAIN registered = Request
           /\ DOMAIN code = Request /\ DOMAIN known = Request
BY DEF TypeOK

LEMMA BodyTyped ==
    ASSUME TypeOK, NEW r \in Request
    PROVE  /\ body[r].host \in Host /\ body[r].mac \in BOOLEAN /\ body[r] \in Bodies
           /\ addr[r] \in Addr => Key(r) \in (Host \cup {NoHost}) \X Addr
<1>1. body[r] \in Bodies /\ body[r] \in Body
  BY ModelAssumption DEF TypeOK
<1> QED
  BY <1>1 DEF Body, Key

\* What a commit makes of the row.
LEMMA CommitTyped ==
    ASSUME TypeOK, NEW r \in Request, addr[r] \in Addr, Chosen(r)
    PROVE  /\ Committed(r) \in Row
           /\ isNew[r] /\ loaded[r] = NoRow =>
                /\ Committed(r).host = body[r].host /\ Committed(r).status = "reserved"
                /\ Committed(r).ours
                /\ Committed(r).dns = ("dns" \in registered[r])
                /\ Committed(r).ptr = ("ptr" \in registered[r])
                /\ Committed(r).dhcp = ("dhcp" \in registered[r])
           /\ ~isNew[r] =>
                /\ Committed(r).host = row[addr[r]].host
                /\ Committed(r).status = row[addr[r]].status
                /\ Committed(r).ours = row[addr[r]].ours
                /\ Committed(r).dns => row[addr[r]].dns \/ "dns" \in registered[r]
                /\ Committed(r).ptr => row[addr[r]].ptr \/ "ptr" \in registered[r]
                /\ Committed(r).dhcp => row[addr[r]].dhcp \/ "dhcp" \in registered[r]
<1> DEFINE new == Draft(r)
           was == loaded[r]
           now == row[addr[r]]
<1>1. was \in Row \cup {NoRow} /\ (was # NoRow => was \in Row /\ now \in Row)
  BY DEF TypeOK, Chosen
<1>2. body[r].host \in Host /\ body[r].mac \in BOOLEAN
  BY BodyTyped
<1>3. new \in Row
  <2> DEFINE fresh == [status |-> "reserved", host |-> body[r].host, mac |-> body[r].mac,
                       dns |-> FALSE, ptr |-> FALSE, dhcp |-> FALSE, ours |-> TRUE]
             taken == [was EXCEPT !.status = "reserved", !.host = body[r].host,
                                  !.mac = body[r].mac]
             filled == [was EXCEPT !.mac = @ \/ body[r].mac]
             base == IF was = NoRow THEN fresh ELSE IF isNew[r] THEN taken ELSE filled
  <2>1. fresh \in Row
    BY <1>2 DEF Row, Status
  <2>2. was # NoRow => taken \in Row
    BY <1>1, <1>2 DEF Row, Status
  <2>3. was # NoRow => filled \in Row
    <3> SUFFICES ASSUME was # NoRow PROVE filled \in Row
      OBVIOUS
    <3>1. was \in Row /\ (was.mac \/ body[r].mac) \in BOOLEAN
      BY <1>1
    <3> QED
      BY <3>1 DEF Row
  <2>4. base \in Row
    BY <2>1, <2>2, <2>3
  <2>5. new = [base EXCEPT !.dns  = @ \/ "dns" \in registered[r],
                           !.ptr  = @ \/ "ptr" \in registered[r],
                           !.dhcp = @ \/ "dhcp" \in registered[r]]
    BY DEF Draft
  <2> HIDE DEF base
  <2>6. \A x, y, z \in BOOLEAN : [base EXCEPT !.dns = x, !.ptr = y, !.dhcp = z] \in Row
    BY <2>4 DEF Row
  <2>7. /\ (base.dns \/ "dns" \in registered[r]) \in BOOLEAN
        /\ (base.ptr \/ "ptr" \in registered[r]) \in BOOLEAN
        /\ (base.dhcp \/ "dhcp" \in registered[r]) \in BOOLEAN
    OBVIOUS
  <2> QED
    BY <2>5, <2>6, <2>7
<1>4. CASE was = NoRow
  <2>1. isNew[r]
    BY <1>4 DEF Chosen
  <2>2. Committed(r) = new
    BY <1>4 DEF Committed
  <2>3. /\ new.host = body[r].host /\ new.status = "reserved" /\ new.ours
        /\ new.dns = ("dns" \in registered[r]) /\ new.ptr = ("ptr" \in registered[r])
        /\ new.dhcp = ("dhcp" \in registered[r])
    BY <1>4 DEF Draft
  <2> HIDE DEF new
  <2> QED
    BY <1>3, <2>1, <2>2, <2>3
<1>5. CASE was # NoRow
  <2>1. ~isNew[r] =>
          /\ new.host = was.host /\ new.status = was.status /\ new.ours = was.ours
          /\ new.dns # was.dns => "dns" \in registered[r]
          /\ new.ptr # was.ptr => "ptr" \in registered[r]
          /\ new.dhcp # was.dhcp => "dhcp" \in registered[r]
    BY <1>1, <1>5 DEF Draft, Row
  <2>2. Committed(r) =
          [status |-> Flushed(was.status, new.status, now.status),
             host |-> Flushed(was.host, new.host, now.host),
             mac  |-> Flushed(was.mac, new.mac, now.mac),
             dns  |-> Flushed(was.dns, new.dns, now.dns),
             ptr  |-> Flushed(was.ptr, new.ptr, now.ptr),
             dhcp |-> Flushed(was.dhcp, new.dhcp, now.dhcp),
             ours |-> now.ours]
    BY <1>5 DEF Committed
  <2> HIDE DEF new
  <2>3. Committed(r) \in Row
    BY <1>1, <1>3, <1>5, <2>2 DEF Row, Flushed
  <2> QED
    BY <1>5, <2>1, <2>2, <2>3 DEF Flushed
<1> QED
  BY <1>4, <1>5

LEMMA TypeInit == Init => TypeOK
<1> SUFFICES ASSUME Init PROVE TypeOK
  OBVIOUS
<1>1. row \in [Addr -> Row \cup {NoRow}]
  BY ModelAssumption DEF Init
<1>2. \A a \in Addr : row[a] # NoRow => row[a].host \in Host \cup {NoHost}
  BY <1>1 DEF Row
<1>3. forward \cup reverse \cup lease \subseteq (Host \cup {NoHost}) \X Addr
  BY <1>2 DEF Init
<1>4. body \in [Request -> Bodies]
  BY ModelAssumption DEF Init
<1>5. edits = 0 /\ faults = 0 /\ crashes = 0 /\ edited = {}
  BY DEF Init
<1>6. 0 \in 0..MaxEdits /\ 0 \in 0..MaxFaults /\ 0 \in 0..MaxCrashes
  BY ModelAssumption
<1>7. /\ holder \in [Addr -> Request \cup {Nobody}]
      /\ pc \in [Request -> {"new", "check", "pick", "load", "flush", "answered"} \cup Working]
      /\ addr \in [Request -> Addr \cup {NoAddr}]
      /\ isNew \in [Request -> BOOLEAN]
      /\ loaded \in [Request -> Row \cup {NoRow}]
      /\ registered \in [Request -> SUBSET {"dns", "ptr", "dhcp"}]
      /\ code \in [Request -> Code \cup {0}]
      /\ known \in [Request -> SUBSET Addr]
  BY DEF Init
<1> QED
  BY <1>1, <1>3, <1>4, <1>5, <1>6, <1>7 DEF TypeOK

-----------------------------------------------------------------------------
(* What no step takes back.                                                *)

LEMMA Others ==
    ASSUME TypeOK, NEW r \in Request, NEW q \in Request, q # r, Step(r)
    PROVE  Untouched(q)
<1> USE Functions DEF Untouched, Goto, Answer, local, history
<1>1. CASE Start(r)
  BY <1>1 DEF Start
<1>2. CASE CheckExisting(r)
  BY <1>2 DEF CheckExisting, Adopt
<1>3. CASE PickCandidate(r)
  BY <1>3 DEF PickCandidate
<1>4. CASE LoadRow(r)
  BY <1>4 DEF LoadRow
<1>5. CASE FlushRow(r)
  BY <1>5 DEF FlushRow
<1>6. CASE RegisterDns(r) \/ RegisterPtr(r) \/ RegisterDhcp(r)
  <2>1. /\ UNCHANGED <<body, addr, isNew, loaded, code, known>>
        /\ pc'[q] = pc[q] /\ registered'[q] = registered[q]
    BY <1>6 DEF RegisterDns, RegisterPtr, RegisterDhcp, Succeed, Fail
  <2> QED
    BY <2>1
<1>7. CASE UndoPtr(r) \/ UndoDns(r)
  BY <1>7 DEF UndoPtr, UndoDns
<1>8. CASE Rollback(r)
  BY <1>8 DEF Rollback
<1>9. CASE CommitRow(r)
  BY <1>9 DEF CommitRow
<1>10. CASE CommitFails(r)
  BY <1>10 DEF CommitFails
<1> QED
  BY <1>1, <1>2, <1>3, <1>4, <1>5, <1>6, <1>7, <1>8, <1>9, <1>10 DEF Step

\* What a request has settled on.
Kept(q) ==
    /\ pc[q] # "new" => body'[q] = body[q] /\ known'[q] = known[q]
    /\ pc[q] \notin {"new", "check", "pick", "load"} =>
         addr'[q] = addr[q] /\ isNew'[q] = isNew[q] /\ loaded'[q] = loaded[q]

LEMMA LocalsKept ==
    ASSUME IInv, [Next]_vars
    PROVE  \A q \in Request : Kept(q)
<1> SUFFICES ASSUME NEW q \in Request PROVE Kept(q)
  OBVIOUS
<1>0. TypeOK
  BY DEF IInv
<1>1. ASSUME NEW r \in Request, Step(r) PROVE Kept(q)
  <2>1. CASE q # r
    BY <1>0, <1>1, <2>1, Others DEF Untouched, Kept
  <2>2. CASE q = r
    BY <1>0, <1>1, <2>2 DEF Kept, Step, Start, CheckExisting, PickCandidate, LoadRow, FlushRow,
       RegisterDns, RegisterPtr, RegisterDhcp, UndoPtr, UndoDns, Rollback, CommitRow, CommitFails,
       Adopt, Answer, Goto, local, history
  <2> QED
    BY <2>1, <2>2
<1>2. CASE UNCHANGED vars
  BY <1>2 DEF vars, local, history, Kept
<1>3. ASSUME NEW a \in Addr, EditRow(a) \/ Reclaim(a) \/ Discover(a) PROVE Kept(q)
  BY <1>3 DEF EditRow, Reclaim, Discover, local, history, Kept
<1>4. CASE Crash
  BY <1>4 DEF Crash, local, history, Kept
<1> QED
  BY <1>1, <1>2, <1>3, <1>4 DEF Next

LEMMA TakeoversGrow ==
    ASSUME IInv, [Next]_vars
    PROVE  TakenOver \subseteq TakenOver'
<1>1. ASSUME NEW q \in Request, isNew[q], loaded[q] # NoRow
      PROVE  isNew'[q] /\ loaded'[q] # NoRow /\ addr'[q] = addr[q]
  <2>1. pc[q] \notin {"new", "check", "pick", "load"}
    BY <1>1 DEF IInv, Sound, Chosen
  <2> QED
    BY <1>1, <2>1, LocalsKept DEF Kept
<1> QED
  BY <1>1 DEF TakenOver

LEMMA ExcusedGrows ==
    ASSUME IInv, [Next]_vars
    PROVE  Excused \subseteq Excused'
<1>1. edited \subseteq edited'
  BY DEF Next, Step, vars, Start, CheckExisting, PickCandidate, LoadRow, FlushRow,
     RegisterDns, RegisterPtr, RegisterDhcp, UndoPtr, UndoDns, Rollback, CommitRow, CommitFails,
     EditRow, Reclaim, Discover, Crash, history
<1> QED
  BY <1>1, TakeoversGrow DEF Excused

\* Rows are never deleted, and change their name and standing only where that
\* is excused.
RowsStay ==
    \A a \in Addr : row[a] # NoRow =>
        /\ row'[a] # NoRow
        /\ \/ a \in Excused'
           \/ row'[a].host = row[a].host /\ row'[a].status = row[a].status /\ row'[a].ours = row[a].ours

LEMMA CommitWhere ==
    ASSUME IInv, NEW r \in Request, CommitRow(r)
    PROVE  /\ addr[r] \in Addr /\ pc[r] = "commit"
           /\ isNew[r] => holder[addr[r]] = r
           /\ \/ row' = row
              \/ /\ holder[addr[r]] = r \/ (holder[addr[r]] = Nobody /\ ~isNew[r])
                 /\ row' = [row EXCEPT ![addr[r]] = Committed(r)]
           /\ pc' = [pc EXCEPT ![r] = "answered"]
           /\ UNCHANGED <<forward, reverse, lease, body, addr, isNew, loaded, registered, edited,
                          known, blemished>>
           /\ \/ /\ code' = [code EXCEPT ![r] = 201] /\ isNew[r]
                 /\ row' = [row EXCEPT ![addr[r]] = Committed(r)]
              \/ code' = [code EXCEPT ![r] = 200] /\ ~isNew[r]
              \/ code' = [code EXCEPT ![r] = 500] /\ row' = row /\ ~isNew[r]
           /\ Release(r)
<1>1. pc[r] = "commit" /\ pc[r] \in Working
  BY DEF CommitRow, Working
<1>2. Chosen(r) /\ Locked(r)
  BY DEF IInv, Sound
<1>3. addr[r] \in Addr /\ (isNew[r] => holder[addr[r]] = r)
  BY <1>1, <1>2 DEF Chosen, Locked
<1>4. r # Nobody
  BY NamesAssumption
<1>5. /\ pc' = [pc EXCEPT ![r] = "answered"] /\ Release(r)
      /\ UNCHANGED <<forward, reverse, lease, body, addr, isNew, loaded, registered, edited,
                     known, blemished>>
  BY DEF CommitRow, Answer, Goto, providers, local, history
<1>6. CASE holder[addr[r]] = r
  BY <1>1, <1>3, <1>4, <1>5, <1>6 DEF CommitRow, Answer
<1>7. CASE holder[addr[r]] # r
  BY <1>1, <1>3, <1>5, <1>7 DEF CommitRow, Answer
<1> QED
  BY <1>6, <1>7

LEMMA RowsKept ==
    ASSUME IInv, [Next]_vars
    PROVE  RowsStay
<1> SUFFICES ASSUME NEW a \in Addr, row[a] # NoRow
             PROVE  /\ row'[a] # NoRow
                    /\ \/ a \in Excused'
                       \/ /\ row'[a].host = row[a].host /\ row'[a].status = row[a].status
                          /\ row'[a].ours = row[a].ours
  BY DEF RowsStay
<1>0. TypeOK /\ row \in [Addr -> Row \cup {NoRow}] /\ row[a] \in Row
  BY DEF IInv, TypeOK
<1>1. CASE row' = row
  BY <1>1
<1>2. ASSUME NEW r \in Request, CommitRow(r), row' # row
      PROVE  /\ row'[a] # NoRow
             /\ \/ a \in Excused'
                \/ /\ row'[a].host = row[a].host /\ row'[a].status = row[a].status
                   /\ row'[a].ours = row[a].ours
  <2>1. /\ addr[r] \in Addr /\ pc[r] = "commit" /\ Chosen(r)
        /\ row' = [row EXCEPT ![addr[r]] = Committed(r)]
    BY <1>2, CommitWhere DEF IInv, Sound
  <2>2. CASE a # addr[r]
    BY <1>0, <2>1, <2>2
  <2>3. CASE a = addr[r]
    <3>1. row'[a] = Committed(r) /\ Committed(r) \in Row
      BY <1>0, <2>1, <2>3, CommitTyped
    <3>2. row'[a] # NoRow
      BY <3>1, NamesAssumption
    <3>3. CASE isNew[r]
      <4>1. loaded[r] # NoRow
        BY <1>2, <2>1, <2>3, <3>3 DEF IInv, Sound, Inserting, Working
      <4>2. a \in Excused
        BY <2>3, <3>3, <4>1 DEF Excused, TakenOver
      <4> QED
        BY <3>2, <4>2, ExcusedGrows
    <3>4. CASE ~isNew[r]
      BY <1>0, <2>1, <2>3, <3>1, <3>2, <3>4, CommitTyped
    <3> QED
      BY <3>3, <3>4
  <2> QED
    BY <2>2, <2>3
<1>3. ASSUME NEW x \in Addr, EditRow(x) \/ Reclaim(x)
      PROVE  row'[a] # NoRow /\ (a \in Excused' \/ row'[a] = row[a])
  <2>1. x \in edited' /\ edited' \subseteq Excused'
    BY <1>3 DEF EditRow, Reclaim, Excused
  <2>2. a # x => row'[a] = row[a]
    BY <1>0, <1>3 DEF EditRow, Reclaim
  <2>3. \A s \in EditStatuses, h \in Host \cup {NoHost} : [row[a] EXCEPT !.status = s, !.host = h] \in Row
    BY <1>0, ModelAssumption DEF Row
  <2>4. [row[a] EXCEPT !.status = "deprecated"] \in Row
    BY <1>0 DEF Row, Status
  <2>5. row'[a] \in Row
    <3>1. CASE a # x
      BY <1>0, <2>2, <3>1
    <3>2. CASE a = x /\ EditRow(x)
      <4>1. PICK s \in EditStatuses, h \in Host \cup {NoHost} :
              row' = [row EXCEPT ![x].status = s, ![x].host = h]
        BY <3>2 DEF EditRow
      <4>2. row'[a] = [row[a] EXCEPT !.status = s, !.host = h]
        BY <1>0, <3>2, <4>1 DEF Row
      <4> QED
        BY <2>3, <4>2
    <3>3. CASE a = x /\ Reclaim(x)
      BY <1>0, <2>4, <3>3 DEF Reclaim
    <3> QED
      BY <1>3, <3>1, <3>2, <3>3
  <2> QED
    BY <2>1, <2>2, <2>5, NamesAssumption
<1>4. ASSUME NEW x \in Addr, Discover(x) PROVE row'[a] = row[a]
  BY <1>0, <1>4 DEF Discover
<1>5. row' = row \/ (\E r \in Request : CommitRow(r)) \/ (\E x \in Addr : EditRow(x) \/ Reclaim(x) \/ Discover(x))
  BY DEF Next, Step, vars, table, Start, CheckExisting, PickCandidate, LoadRow, FlushRow,
     RegisterDns, RegisterPtr, RegisterDhcp, UndoPtr, UndoDns, Rollback, CommitFails, Crash
<1> QED
  BY <1>1, <1>2, <1>3, <1>4, <1>5

LEMMA TypeNext ==
    ASSUME IInv, [Next]_vars
    PROVE  TypeOK'
<1> USE DEF Goto, Answer, table, providers, local, history, bounds
<1>0. TypeOK /\ \A r \in Request : Chosen(r)
  BY DEF IInv, Sound
<1>1. ASSUME NEW r \in Request, Start(r) PROVE TypeOK'
  <2> DEFINE has(b) == {addr[q] : q \in
                          {q \in Request : code[q] \in {200, 201} /\ body[q].host = b.host}}
  <2>1. PICK b \in Bodies :
          /\ body' = [body EXCEPT ![r] = b] /\ known' = [known EXCEPT ![r] = has(b)]
          /\ IF b.ptr /\ ~b.dns THEN Answer(r, 422) ELSE Goto(r, "check") /\ UNCHANGED code
    BY <1>1 DEF Start
  <2>2. has(b) \subseteq Addr
    <3>1. ASSUME NEW q \in Request, code[q] \in {200, 201} PROVE addr[q] \in Addr
      <4>1. Chosen(q)
        BY <1>0
      <4> QED
        BY <3>1, <4>1 DEF Chosen
    <3> QED
      BY <3>1
  <2> HIDE DEF has
  <2>3. known' \in [Request -> SUBSET Addr]
    BY <1>0, <2>1, <2>2 DEF TypeOK
  <2>4. /\ pc' \in [Request -> {"new", "check", "pick", "load", "flush", "answered"} \cup Working]
        /\ code' \in [Request -> Code \cup {0}]
    BY <1>0, <2>1 DEF TypeOK, Code
  <2>5. body' \in [Request -> Bodies]
    BY <1>0, <2>1 DEF TypeOK
  <2>6. UNCHANGED <<row, holder, forward, reverse, lease, addr, isNew, loaded, registered, edited,
                    edits, faults, crashes>>
    BY <1>1 DEF Start
  <2> QED
    BY <1>0, <2>3, <2>4, <2>5, <2>6 DEF TypeOK
<1>2. ASSUME NEW r \in Request, CheckExisting(r) PROVE TypeOK'
  <2>1. /\ UNCHANGED <<row, holder, forward, reverse, lease, body, registered, edited, known,
                       edits, faults, crashes>>
    BY <1>2 DEF CheckExisting, Adopt
  <2>2. \/ /\ \/ pc' = [pc EXCEPT ![r] = "pick"] /\ code' = code
              \/ \E c \in {409, 422} :
                   pc' = [pc EXCEPT ![r] = "answered"] /\ code' = [code EXCEPT ![r] = c]
           /\ UNCHANGED <<addr, isNew, loaded>>
        \/ \E a \in Addr : /\ Adopt(r, a) /\ code' = code
                           /\ \E l \in {"flush", "dns"} : pc' = [pc EXCEPT ![r] = l]
    BY <1>2 DEF CheckExisting
  <2>3. pc' \in [Request -> {"new", "check", "pick", "load", "flush", "answered"} \cup Working]
    <3>1. \E l \in {"pick", "answered", "flush", "dns"} : pc' = [pc EXCEPT ![r] = l]
      BY <2>2
    <3> QED
      BY <1>0, <3>1 DEF TypeOK, Working
  <2>4. code' \in [Request -> Code \cup {0}]
    BY <1>0, <2>2 DEF TypeOK, Code
  <2>5. /\ addr' \in [Request -> Addr \cup {NoAddr}]
        /\ isNew' \in [Request -> BOOLEAN]
        /\ loaded' \in [Request -> Row \cup {NoRow}]
    BY <1>0, <2>2 DEF TypeOK, Adopt
  <2> QED
    BY <1>0, <2>1, <2>3, <2>4, <2>5 DEF TypeOK
<1>3. ASSUME NEW r \in Request, PickCandidate(r) PROVE TypeOK'
  <2>1. Candidates(body[r]) \subseteq Addr
    <3>1. body[r] \in Body
      BY <1>0, ModelAssumption DEF TypeOK
    <3> QED
      BY <3>1, ModelAssumption DEF Candidates, Admitted, Body
  <2>2. /\ pc' \in [Request -> {"new", "check", "pick", "load", "flush", "answered"} \cup Working]
        /\ code' \in [Request -> Code \cup {0}]
    BY <1>0, <1>3 DEF TypeOK, PickCandidate, Code
  <2>3. addr' \in [Request -> Addr \cup {NoAddr}]
    BY <1>0, <1>3, <2>1 DEF TypeOK, PickCandidate
  <2> QED
    BY <1>0, <1>3, <2>2, <2>3 DEF TypeOK, PickCandidate
<1>4. ASSUME NEW r \in Request, LoadRow(r) PROVE TypeOK'
  <2>1. addr[r] \in Addr
    BY <1>0, <1>4 DEF LoadRow, Chosen
  <2> QED
    BY <1>0, <1>4, <2>1 DEF TypeOK, LoadRow
<1>5. ASSUME NEW r \in Request, FlushRow(r) PROVE TypeOK'
  <2>1. pc' \in [Request -> {"new", "check", "pick", "load", "flush", "answered"} \cup Working]
    <3>1. \E l \in {"answered", "dns"} : pc' = [pc EXCEPT ![r] = l]
      BY <1>5 DEF FlushRow
    <3> QED
      BY <1>0, <3>1 DEF TypeOK, Working
  <2>2. code' \in [Request -> Code \cup {0}]
    BY <1>0, <1>5 DEF TypeOK, FlushRow, Code
  <2>3. holder' \in [Addr -> Request \cup {Nobody}]
    BY <1>0, <1>5 DEF TypeOK, FlushRow
  <2> QED
    BY <1>0, <1>5, <2>1, <2>2, <2>3 DEF TypeOK, FlushRow
<1>6. ASSUME NEW r \in Request, RegisterDns(r) \/ RegisterPtr(r) \/ RegisterDhcp(r) PROVE TypeOK'
  <2>1. Key(r) \in (Host \cup {NoHost}) \X Addr
    BY <1>0, <1>6, BodyTyped DEF RegisterDns, RegisterPtr, RegisterDhcp, Chosen, Working
  <2>2. forward' \cup reverse' \cup lease' \subseteq (Host \cup {NoHost}) \X Addr
    BY <1>0, <1>6, <2>1 DEF TypeOK, RegisterDns, RegisterPtr, RegisterDhcp
  <2>3. pc' \in [Request -> {"new", "check", "pick", "load", "flush", "answered"} \cup Working]
    BY <1>0, <1>6 DEF TypeOK, RegisterDns, RegisterPtr, RegisterDhcp, Succeed, Fail, Working
  <2>4. registered' \in [Request -> SUBSET {"dns", "ptr", "dhcp"}]
    BY <1>0, <1>6 DEF TypeOK, RegisterDns, RegisterPtr, RegisterDhcp, Succeed
  <2>5. faults' \in 0..MaxFaults
    BY <1>0, <1>6, ModelAssumption
       DEF TypeOK, RegisterDns, RegisterPtr, RegisterDhcp, NoFault, Blemish
  <2>6. UNCHANGED <<row, holder, body, addr, isNew, loaded, code, edited, known, edits, crashes>>
    BY <1>6 DEF RegisterDns, RegisterPtr, RegisterDhcp
  <2> QED
    BY <1>0, <2>2, <2>3, <2>4, <2>5, <2>6 DEF TypeOK
<1>7. ASSUME NEW r \in Request, UndoPtr(r) \/ UndoDns(r) PROVE TypeOK'
  <2>1. forward' \subseteq forward /\ reverse' \subseteq reverse /\ lease' = lease
    BY <1>7 DEF UndoPtr, UndoDns
  <2>2. pc' \in [Request -> {"new", "check", "pick", "load", "flush", "answered"} \cup Working]
    BY <1>0, <1>7 DEF TypeOK, UndoPtr, UndoDns, Working
  <2>3. faults' \in 0..MaxFaults
    <3>1. faults' = faults \/ (faults < MaxFaults /\ faults' = faults + 1)
      BY <1>7 DEF UndoPtr, UndoDns, NoFault, Blemish
    <3> QED
      BY <1>0, <3>1, ModelAssumption DEF TypeOK
  <2>4. UNCHANGED <<row, holder, body, addr, isNew, loaded, registered, code, edited, known,
                    edits, crashes>>
    BY <1>7 DEF UndoPtr, UndoDns
  <2> QED
    BY <1>0, <2>1, <2>2, <2>3, <2>4 DEF TypeOK
<1>8. ASSUME NEW r \in Request, Rollback(r) PROVE TypeOK'
  <2>1. holder' \in [Addr -> Request \cup {Nobody}]
    BY <1>0, <1>8 DEF TypeOK, Rollback, Release
  <2> QED
    BY <1>0, <1>8, <2>1 DEF TypeOK, Rollback, Code
<1>9. ASSUME NEW r \in Request, CommitRow(r) PROVE TypeOK'
  <2>1. addr[r] \in Addr
    BY <1>9, CommitWhere
  <2>2. row' \in [Addr -> Row \cup {NoRow}]
    BY <1>0, <1>9, <2>1, CommitWhere, CommitTyped DEF TypeOK
  <2>3. holder' \in [Addr -> Request \cup {Nobody}]
    BY <1>0, <1>9 DEF TypeOK, CommitRow, Release
  <2>4. code' \in [Request -> Code \cup {0}]
    BY <1>0, <1>9, CommitWhere DEF TypeOK, Code
  <2>5. pc' \in [Request -> {"new", "check", "pick", "load", "flush", "answered"} \cup Working]
    BY <1>0, <1>9, CommitWhere DEF TypeOK
  <2>6. UNCHANGED <<forward, reverse, lease, body, addr, isNew, loaded, registered, edited, known,
                    edits, faults, crashes>>
    BY <1>9 DEF CommitRow
  <2> QED
    BY <1>0, <2>2, <2>3, <2>4, <2>5, <2>6 DEF TypeOK
<1>10. ASSUME NEW r \in Request, CommitFails(r) PROVE TypeOK'
  <2>1. holder' \in [Addr -> Request \cup {Nobody}]
    BY <1>0, <1>10 DEF TypeOK, CommitFails, Release
  <2>2. faults' \in 0..MaxFaults
    BY <1>0, <1>10, ModelAssumption DEF TypeOK, CommitFails, Blemish
  <2> QED
    BY <1>0, <1>10, <2>1, <2>2 DEF TypeOK, CommitFails, Code
<1>11. ASSUME NEW a \in Addr, EditRow(a) \/ Reclaim(a) PROVE TypeOK'
  <2>1. row \in [Addr -> Row \cup {NoRow}] /\ row[a] \in Row
    BY <1>0, <1>11 DEF TypeOK, EditRow, Reclaim, Stale
  <2>2. \A s \in EditStatuses, h \in Host \cup {NoHost} : [row[a] EXCEPT !.status = s, !.host = h] \in Row
    BY <2>1, ModelAssumption DEF Row
  <2>3. [row[a] EXCEPT !.status = "deprecated"] \in Row
    BY <2>1 DEF Row, Status
  <2>4. row' \in [Addr -> Row \cup {NoRow}]
    <3>1. CASE EditRow(a)
      <4>1. PICK s \in EditStatuses, h \in Host \cup {NoHost} :
              row' = [row EXCEPT ![a].status = s, ![a].host = h]
        BY <3>1 DEF EditRow
      <4> DEFINE new == [row[a] EXCEPT !.status = s, !.host = h]
      <4>2. row' = [row EXCEPT ![a] = new]
        BY <2>1, <4>1 DEF Row
      <4>3. new \in Row
        BY <2>2
      <4> HIDE DEF new
      <4> QED
        BY <2>1, <4>2, <4>3
    <3>2. CASE Reclaim(a)
      BY <2>1, <2>3, <3>2 DEF Reclaim
    <3> QED
      BY <1>11, <3>1, <3>2
  <2>5. edits' \in 0..MaxEdits
    BY <1>0, <1>11, ModelAssumption DEF TypeOK, EditRow, Reclaim
  <2> QED
    BY <1>0, <1>11, <2>4, <2>5 DEF TypeOK, EditRow, Reclaim
<1>12. ASSUME NEW a \in Addr, Discover(a) PROVE TypeOK'
  <2>1. row' \in [Addr -> Row \cup {NoRow}]
    BY <1>0, <1>12 DEF TypeOK, Discover, Row, Status
  <2> QED
    BY <1>0, <1>12, <2>1 DEF TypeOK, Discover
<1>13. CASE Crash
  <2>1. /\ holder' \in [Addr -> Request \cup {Nobody}]
        /\ pc' \in [Request -> {"new", "check", "pick", "load", "flush", "answered"} \cup Working]
        /\ code' \in [Request -> Code \cup {0}]
    BY <1>0, <1>13 DEF TypeOK, Crash, Code
  <2>2. crashes' \in 0..MaxCrashes
    BY <1>0, <1>13, ModelAssumption DEF TypeOK, Crash
  <2> QED
    BY <1>0, <1>13, <2>1, <2>2 DEF TypeOK, Crash
<1>14. CASE UNCHANGED vars
  BY <1>0, <1>14 DEF TypeOK, vars
<1> QED
  BY <1>1, <1>2, <1>3, <1>4, <1>5, <1>6, <1>7, <1>8, <1>9, <1>10, <1>11, <1>12, <1>13, <1>14
     DEF Next, Step

-----------------------------------------------------------------------------
(* A request that others run beside.                                       *)

LEMMA NameStays ==
    ASSUME IInv, [Next]_vars, NEW a \in Addr, NEW h, HasName(a, h)
    PROVE  a \in Excused' \/ HasName(a, h)'
BY RowsKept DEF RowsStay, HasName

LEMMA Bystander ==
    ASSUME IInv, [Next]_vars, NEW q \in Request, Untouched(q),
           \A a \in Addr : (holder'[a] = q) <=> (holder[a] = q),
           \A a \in Addr : holder[a] = q => row'[a] = row[a],
           pc[q] \in {"ptr", "dhcp", "commit"} /\ addr[q] \notin Excused' =>
             /\ Key(q) \in forward => Key(q) \in forward'
             /\ Key(q) \in reverse => Key(q) \in reverse'
             /\ Key(q) \in lease => Key(q) \in lease'
    PROVE  Sound(q)'
<1> USE DEF Untouched
<1>0. Chosen(q) /\ Locked(q) /\ Inserting(q) /\ Named(q) /\ Registered(q) /\ Repeated(q)
  BY DEF IInv, Sound
<1>1. RowsStay /\ Excused \subseteq Excused'
  BY RowsKept, ExcusedGrows
<1>2. Chosen(q)'
  <2>1. loaded[q] # NoRow => addr[q] \in Addr /\ row'[addr[q]] # NoRow
    BY <1>0, <1>1 DEF Chosen, RowsStay
  <2>2. isNew[q] \in BOOLEAN
    BY DEF IInv, TypeOK
  <2> QED
    BY <1>0, <2>1, <2>2 DEF Chosen
<1>3. Locked(q)'
  <2>1. isNew[q] /\ pc[q] \in Working => addr[q] \in Addr
    BY <1>0 DEF Chosen
  <2> QED
    BY <1>0, <2>1 DEF Locked
<1>4. Inserting(q)'
  <2>1. isNew[q] /\ pc[q] \in Working => addr[q] \in Addr /\ holder[addr[q]] = q
    BY <1>0 DEF Chosen, Locked
  <2>2. code[q] = 201 => addr[q] \in Addr
    BY <1>0 DEF Chosen
  <2> QED
    BY <1>0, <1>1, <2>1, <2>2 DEF Inserting, RowsStay
<1>5. Named(q)'
  <2>1. code[q] \in {200, 201} \/ ~isNew[q] => addr[q] \in Addr
    BY <1>0 DEF Chosen
  <2>2. addr[q] \in Addr /\ HasName(addr[q], body[q].host) =>
          addr[q] \in Excused' \/ HasName(addr[q], body[q].host)'
    BY NameStays
  <2> QED
    BY <1>0, <1>1, <2>1, <2>2 DEF Named, HasName
<1>6. Registered(q)'
  <2>1. Key(q)' = Key(q)
    BY DEF Key
  <2> QED
    BY <1>0, <1>1, <2>1 DEF Registered
<1>7. Repeated(q)'
  <2>1. known[q] \subseteq Addr
    BY DEF IInv, TypeOK
  <2>2. \A a \in known[q] : HasName(a, body[q].host) => a \in Excused' \/ HasName(a, body[q].host)'
    BY <2>1, NameStays
  <2> QED
    BY <1>0, <1>1, <2>2 DEF Repeated, HasName
<1> QED
  BY <1>2, <1>3, <1>4, <1>5, <1>6, <1>7 DEF Sound

\* An undo deletes no record of another's row or registration.
LEMMA UndoIsOwn ==
    ASSUME IInv, NEW r \in Request, pc[r] \in {"undo_ptr", "undo_dns"}, addr[r] \notin Excused
    PROVE  /\ addr[r] \in Addr /\ row[addr[r]] = NoRow
           /\ \A q \in Request : q # r /\ pc[q] \in Working => addr[q] # addr[r]
<1>1. isNew[r] /\ addr[r] \in Addr /\ pc[r] \in Working
  BY DEF IInv, Sound, Chosen, Working
<1>2. loaded[r] = NoRow
  BY <1>1 DEF Excused, TakenOver
<1>3. row[addr[r]] = NoRow /\ holder[addr[r]] = r
  BY <1>1, <1>2 DEF IInv, Sound, Inserting, Locked
<1>4. ASSUME NEW q \in Request, q # r, pc[q] \in Working, addr[q] = addr[r] PROVE FALSE
  <2>1. Chosen(q) /\ Locked(q)
    BY DEF IInv, Sound
  <2>2. CASE isNew[q]
    BY <1>3, <1>4, <2>1, <2>2 DEF Locked
  <2>3. CASE ~isNew[q]
    BY <1>3, <1>4, <2>1, <2>3 DEF Chosen
  <2> QED
    BY <2>2, <2>3
<1> QED
  BY <1>1, <1>3, <1>4

LEMMA StepOthers ==
    ASSUME IInv, [Next]_vars, NEW r \in Request, NEW q \in Request, q # r, Step(r)
    PROVE  Sound(q)'
<1>0. TypeOK /\ Excused \subseteq Excused'
  BY ExcusedGrows DEF IInv
<1>1. Untouched(q)
  BY <1>0, Others
<1>2. \A a \in Addr : (holder'[a] = q) <=> (holder[a] = q)
  <2>1. q # Nobody /\ r # Nobody
    BY NamesAssumption
  <2>2. CASE holder' = holder
    BY <2>2
  <2>3. CASE holder[addr[r]] = Nobody /\ holder' = [holder EXCEPT ![addr[r]] = r]
    BY <1>0, <2>1, <2>3 DEF TypeOK
  <2>4. CASE Release(r)
    BY <2>1, <2>4 DEF Release
  <2>5. holder' = holder \/ Release(r)
        \/ (holder[addr[r]] = Nobody /\ holder' = [holder EXCEPT ![addr[r]] = r])
    BY DEF Step, table, Start, CheckExisting, PickCandidate, LoadRow, FlushRow,
       RegisterDns, RegisterPtr, RegisterDhcp, UndoPtr, UndoDns, Rollback, CommitRow, CommitFails
  <2> QED
    BY <2>2, <2>3, <2>4, <2>5
<1>3. \A a \in Addr : holder[a] = q => row'[a] = row[a]
  <2>1. CASE CommitRow(r)
    BY <1>0, <2>1, CommitWhere, NamesAssumption DEF TypeOK
  <2>2. CASE ~CommitRow(r)
    <3>1. row' = row
      BY <2>2 DEF Step, table, Start, CheckExisting, PickCandidate, LoadRow, FlushRow,
         RegisterDns, RegisterPtr, RegisterDhcp, UndoPtr, UndoDns, Rollback, CommitFails
    <3> QED
      BY <3>1
  <2> QED
    BY <2>1, <2>2
<1>4. ASSUME pc[q] \in {"ptr", "dhcp", "commit"}, addr[q] \notin Excused'
      PROVE  /\ Key(q) \in forward => Key(q) \in forward'
             /\ Key(q) \in reverse => Key(q) \in reverse'
             /\ Key(q) \in lease => Key(q) \in lease'
  <2>1. CASE UndoPtr(r) \/ UndoDns(r)
    <3>1. pc[r] \in {"undo_ptr", "undo_dns"} /\ pc[q] \in Working
      BY <1>4, <2>1 DEF UndoPtr, UndoDns, Working
    <3>2. addr[r] # addr[q]
      BY <1>0, <1>4, <3>1, UndoIsOwn
    <3>3. Key(q) # Key(r)
      BY <3>2 DEF Key
    <3>4. forward \ {Key(r)} \subseteq forward' /\ reverse \ {Key(r)} \subseteq reverse' /\ lease' = lease
      BY <2>1 DEF UndoPtr, UndoDns
    <3> QED
      BY <3>3, <3>4
  <2>2. CASE ~(UndoPtr(r) \/ UndoDns(r))
    BY <2>2 DEF Step, providers, Start, CheckExisting, PickCandidate, LoadRow, FlushRow,
       RegisterDns, RegisterPtr, RegisterDhcp, Rollback, CommitRow, CommitFails
  <2> QED
    BY <2>1, <2>2
<1> QED
  BY <1>1, <1>2, <1>3, <1>4, Bystander

-----------------------------------------------------------------------------
(* The request that takes the step.                                        *)

\* It goes on with its providers, or undoes what it did.
LEMMA OwnWork ==
    ASSUME IInv, [Next]_vars, NEW r \in Request, pc[r] \in Working, pc'[r] \in Working,
           UNCHANGED <<row, holder, body, addr, isNew, loaded, code, known>>,
           pc'[r] # "dns", pc'[r] \in {"undo_ptr", "undo_dns"} => isNew[r],
           Registered(r)'
    PROVE  Sound(r)'
<1>0. /\ Chosen(r) /\ Locked(r) /\ Inserting(r) /\ Named(r) /\ Repeated(r)
      /\ Excused \subseteq Excused'
  BY ExcusedGrows DEF IInv, Sound
<1>1. Chosen(r)'
  BY <1>0 DEF Chosen, Working
<1>2. Locked(r)' /\ Inserting(r)'
  BY <1>0 DEF Locked, Inserting
<1>3. Named(r)'
  BY <1>0 DEF Named, HasName
<1>4. Repeated(r)'
  BY <1>0 DEF Repeated, Working
<1> QED
  BY <1>1, <1>2, <1>3, <1>4 DEF Sound

\* It gives up.
LEMMA OwnEnd ==
    ASSUME IInv, [Next]_vars, NEW r \in Request, pc[r] # "new", pc'[r] = "answered",
           code'[r] \notin {0, 200, 201}, \A a \in Addr : holder'[a] # r,
           UNCHANGED <<row, body, addr, isNew, loaded>>
    PROVE  Sound(r)'
<1>0. Chosen(r)
  BY DEF IInv, Sound
<1>1. Chosen(r)'
  BY <1>0 DEF Chosen, Working
<1>2. Locked(r)' /\ Inserting(r)'
  BY DEF Locked, Inserting, Working
<1>3. Named(r)' /\ Repeated(r)' /\ Registered(r)'
  BY DEF Named, Repeated, Registered, Working
<1> QED
  BY <1>1, <1>2, <1>3 DEF Sound

LEMMA OwnProvider ==
    ASSUME IInv, [Next]_vars, NEW r \in Request,
           RegisterDns(r) \/ RegisterPtr(r) \/ RegisterDhcp(r) \/ UndoPtr(r) \/ UndoDns(r)
    PROVE  Sound(r)'
<1> USE DEF Goto
<1>0. /\ TypeOK /\ Chosen(r) /\ Registered(r) /\ Excused \subseteq Excused'
  BY ExcusedGrows DEF IInv, Sound
<1>1. UNCHANGED <<row, holder, body, addr, isNew, loaded, code, known>>
  BY DEF RegisterDns, RegisterPtr, RegisterDhcp, UndoPtr, UndoDns, table, local
<1>2. pc[r] \in Working
  BY DEF RegisterDns, RegisterPtr, RegisterDhcp, UndoPtr, UndoDns, Working
<1>3. /\ pc'[r] \in Working /\ pc'[r] # "dns"
      /\ pc'[r] \in {"undo_ptr", "undo_dns"} => isNew[r]
  BY <1>0, Functions DEF RegisterDns, RegisterPtr, RegisterDhcp, UndoPtr, UndoDns, Fail, Succeed,
     Working, Chosen
<1>4. Registered(r)'
  <2>1. Key(r)' = Key(r)
    BY <1>1 DEF Key
  <2>2. CASE RegisterDns(r)
    <3>1. registered[r] = {}
      BY <1>0, <2>2 DEF Chosen, RegisterDns
    <3> QED
      BY <3>1, <1>0, <1>1, <2>1, <2>2, Functions DEF Registered, RegisterDns, Fail, Succeed
  <2>3. CASE RegisterPtr(r)
    BY <1>0, <1>1, <2>1, <2>3, Functions DEF Registered, RegisterPtr, Fail, Succeed
  <2>4. CASE RegisterDhcp(r)
    BY <1>0, <1>1, <2>1, <2>4, Functions DEF Registered, RegisterDhcp, Fail, Succeed
  <2>5. CASE UndoPtr(r) \/ UndoDns(r)
    BY <1>0, <2>5, Functions DEF Registered, UndoPtr, UndoDns
  <2> QED
    BY <2>2, <2>3, <2>4, <2>5
<1> QED
  BY <1>1, <1>2, <1>3, <1>4, OwnWork

LEMMA OwnStart ==
    ASSUME IInv, [Next]_vars, NEW r \in Request, Start(r)
    PROVE  Sound(r)'
<1> USE DEF Goto, Answer
<1> DEFINE has(b) == {addr[q] : q \in
                        {q \in Request : code[q] \in {200, 201} /\ body[q].host = b.host}}
<1>0. TypeOK /\ Chosen(r) /\ Locked(r) /\ Excused \subseteq Excused'
  BY ExcusedGrows DEF IInv, Sound
<1>1. PICK b \in Bodies :
        /\ body' = [body EXCEPT ![r] = b] /\ known' = [known EXCEPT ![r] = has(b)]
        /\ IF b.ptr /\ ~b.dns THEN Answer(r, 422) ELSE Goto(r, "check") /\ UNCHANGED code
  BY DEF Start
<1>2. \A a \in has(b) : a \in Excused \/ HasName(a, b.host)
  <2>1. ASSUME NEW q \in Request, code[q] \in {200, 201}, body[q].host = b.host
        PROVE  addr[q] \in Excused \/ HasName(addr[q], b.host)
    BY <2>1 DEF IInv, Sound, Named
  <2> QED
    BY <2>1
<1> HIDE DEF has
<1>3. /\ body'[r] = b /\ known'[r] = has(b)
      /\ \/ pc'[r] = "answered" /\ code'[r] = 422
         \/ pc'[r] = "check" /\ code'[r] = code[r]
  BY <1>0, <1>1, Functions
<1>4. /\ pc[r] = "new" /\ pc[r] \notin Working
      /\ UNCHANGED <<row, holder, addr, isNew, loaded, registered>>
  BY DEF Start, table, Working
<1>5. isNew[r] /\ loaded[r] = NoRow /\ registered[r] = {} /\ code[r] = 0
  BY <1>0, <1>4 DEF Chosen
<1>6. Chosen(r)'
  BY <1>3, <1>4, <1>5 DEF Chosen, Working
<1>7. Locked(r)' /\ Inserting(r)'
  BY <1>0, <1>3, <1>4, <1>5 DEF Locked, Inserting, Working
<1>8. Named(r)' /\ Registered(r)'
  BY <1>3, <1>4, <1>5 DEF Named, Registered
<1>9. Repeated(r)'
  <2>1. \A a \in has(b) : a \in Excused' \/ HasName(a, b.host)'
    BY <1>0, <1>2, <1>4 DEF HasName
  <2> QED
    BY <1>3, <1>4, <1>5, <2>1 DEF Repeated, Working, HasName
<1> QED
  BY <1>6, <1>7, <1>8, <1>9 DEF Sound

LEMMA OwnCheck ==
    ASSUME IInv, [Next]_vars, NEW r \in Request, CheckExisting(r)
    PROVE  Sound(r)'
<1> USE DEF Goto, Answer
<1>0. TypeOK /\ Chosen(r) /\ Locked(r) /\ Repeated(r) /\ Excused \subseteq Excused'
  BY ExcusedGrows DEF IInv, Sound
<1>1. /\ pc[r] = "check" /\ pc[r] \notin Working
      /\ UNCHANGED <<row, holder, body, registered, known>>
  BY DEF CheckExisting, table, local, history, Working
<1>2. /\ isNew[r] /\ loaded[r] = NoRow /\ registered[r] = {} /\ code[r] = 0
      /\ \A a \in known[r] \ Excused : HasName(a, body[r].host)
  BY <1>0, <1>1 DEF Chosen, Repeated
<1>3. CASE UNCHANGED local
  <2>1. pc'[r] \in {"pick", "answered"} /\ code'[r] \in {0, 409, 422}
    BY <1>0, <1>2, <1>3, Functions DEF CheckExisting, Adopt, local
  <2>2. pc'[r] = "pick" => \A a \in Addr : ~HasName(a, body[r].host)
    BY <1>0, <1>2, <1>3, Functions DEF CheckExisting, Adopt, local
  <2>3. UNCHANGED <<addr, isNew, loaded>>
    BY <1>3 DEF local
  <2>4. code'[r] # 0 => pc'[r] = "answered"
    BY <1>0, <1>2, <1>3, Functions DEF CheckExisting, Adopt, local
  <2>5. Chosen(r)'
    BY <1>1, <1>2, <2>1, <2>3, <2>4 DEF Chosen, Working
  <2>6. Locked(r)' /\ Inserting(r)'
    BY <1>0, <1>1, <2>1, <2>3 DEF Locked, Inserting, Working
  <2>7. Named(r)' /\ Registered(r)'
    BY <1>2, <2>1, <2>3 DEF Named, Registered, Working
  <2>8. Repeated(r)'
    <3>1. known[r] \subseteq Addr
      BY <1>0 DEF TypeOK
    <3>2. pc'[r] = "pick" => known[r] \subseteq Excused
      BY <1>2, <2>2, <3>1
    <3> QED
      BY <1>0, <1>1, <2>1, <3>2 DEF Repeated, Working
  <2> QED
    BY <2>5, <2>6, <2>7, <2>8 DEF Sound
<1>4. ASSUME NEW a \in Addr, HasName(a, body[r].host), Adopt(r, a),
             UNCHANGED <<body, registered, code>>,
             pc' = [pc EXCEPT ![r] = "flush"] \/ pc' = [pc EXCEPT ![r] = "dns"]
      PROVE  Sound(r)'
  <2>1. /\ addr'[r] = a /\ ~isNew'[r] /\ loaded'[r] = row[a] /\ row[a] # NoRow
        /\ pc'[r] \in {"flush", "dns"} /\ code'[r] = 0
    BY <1>0, <1>2, <1>4, Functions DEF Adopt, HasName
  <2>2. Chosen(r)'
    BY <1>1, <1>2, <1>4, <2>1 DEF Chosen, Working
  <2>3. Locked(r)' /\ Inserting(r)'
    BY <1>0, <1>1, <2>1 DEF Locked, Inserting, Working
  <2>4. Named(r)' /\ Registered(r)'
    BY <1>1, <1>4, <2>1 DEF Named, Registered, Working, HasName
  <2>5. Repeated(r)'
    BY <2>1 DEF Repeated, Working
  <2> QED
    BY <2>2, <2>3, <2>4, <2>5 DEF Sound
<1> QED
  BY <1>3, <1>4 DEF CheckExisting

LEMMA OwnPick ==
    ASSUME IInv, [Next]_vars, NEW r \in Request, PickCandidate(r)
    PROVE  Sound(r)'
<1> USE DEF Goto, Answer
<1>0. TypeOK /\ Chosen(r) /\ Locked(r) /\ Repeated(r) /\ Excused \subseteq Excused'
  BY ExcusedGrows DEF IInv, Sound
<1>1. /\ pc[r] = "pick" /\ pc[r] \notin Working
      /\ UNCHANGED <<row, holder, body, isNew, loaded, registered, known>>
  BY DEF PickCandidate, table, history, Working
<1>2. isNew[r] /\ loaded[r] = NoRow /\ registered[r] = {} /\ code[r] = 0 /\ known[r] \subseteq Excused
  BY <1>0, <1>1 DEF Chosen, Repeated
<1>3. Candidates(body[r]) \subseteq Addr
  <2>1. body[r] \in Body
    BY <1>0, ModelAssumption DEF TypeOK
  <2> QED
    BY <2>1, ModelAssumption DEF Candidates, Admitted, Body
<1>4. \/ pc'[r] = "answered" /\ code'[r] = 409
      \/ pc'[r] = "load" /\ code'[r] = 0 /\ addr'[r] \in Addr
  BY <1>0, <1>2, <1>3, Functions DEF PickCandidate
<1>5. Chosen(r)'
  BY <1>1, <1>2, <1>4 DEF Chosen, Working
<1>6. Locked(r)' /\ Inserting(r)'
  BY <1>0, <1>1, <1>4 DEF Locked, Inserting, Working
<1>7. Named(r)' /\ Registered(r)'
  BY <1>1, <1>2, <1>4 DEF Named, Registered, Working
<1>8. Repeated(r)'
  BY <1>0, <1>1, <1>2, <1>4 DEF Repeated
<1> QED
  BY <1>5, <1>6, <1>7, <1>8 DEF Sound

LEMMA OwnLoad ==
    ASSUME IInv, [Next]_vars, NEW r \in Request, LoadRow(r)
    PROVE  Sound(r)'
<1> USE DEF Goto
<1>0. TypeOK /\ Chosen(r) /\ Locked(r) /\ Repeated(r) /\ Excused \subseteq Excused'
  BY ExcusedGrows DEF IInv, Sound
<1>1. /\ pc[r] = "load" /\ pc[r] \notin Working
      /\ UNCHANGED <<row, holder, body, addr, isNew, registered, code, known>>
  BY DEF LoadRow, table, history, Working
<1>2. /\ isNew[r] /\ registered[r] = {} /\ code[r] = 0 /\ known[r] \subseteq Excused
      /\ addr[r] \in Addr
  BY <1>0, <1>1 DEF Chosen, Repeated
<1>3. pc'[r] = "flush" /\ loaded'[r] = row[addr[r]]
  BY <1>0, Functions DEF LoadRow
<1>4. Chosen(r)'
  BY <1>1, <1>2, <1>3 DEF Chosen, Working
<1>5. Locked(r)' /\ Inserting(r)'
  BY <1>0, <1>1, <1>2, <1>3 DEF Locked, Inserting, Working
<1>6. Named(r)' /\ Registered(r)'
  BY <1>1, <1>2, <1>3 DEF Named, Registered, Working
<1>7. Repeated(r)'
  BY <1>0, <1>1, <1>2, <1>3 DEF Repeated
<1> QED
  BY <1>4, <1>5, <1>6, <1>7 DEF Sound

LEMMA OwnFlush ==
    ASSUME IInv, [Next]_vars, NEW r \in Request, FlushRow(r)
    PROVE  Sound(r)'
<1> USE DEF Goto, Answer
<1>0. /\ TypeOK /\ Chosen(r) /\ Locked(r) /\ Named(r) /\ Repeated(r)
      /\ Excused \subseteq Excused' /\ r # Nobody
  BY ExcusedGrows, NamesAssumption DEF IInv, Sound
<1>1. /\ pc[r] = "flush" /\ pc[r] \notin Working
      /\ UNCHANGED <<row, body, addr, isNew, loaded, registered, known>>
  BY DEF FlushRow, local, history, Working
<1>2. addr[r] \in Addr /\ registered[r] = {} /\ code[r] = 0
  BY <1>0, <1>1 DEF Chosen
<1>3. CASE Conflict(r)
  <2>1. pc'[r] = "answered" /\ code'[r] = 500 /\ holder' = holder
    BY <1>0, <1>3, Functions DEF FlushRow
  <2>2. \A a \in Addr : holder'[a] # r
    BY <1>0, <1>1, <2>1 DEF Locked
  <2> QED
    BY <1>1, <2>1, <2>2, OwnEnd
<1>4. CASE ~Conflict(r)
  <2>1. /\ pc'[r] = "dns" /\ code' = code /\ holder' = [holder EXCEPT ![addr[r]] = r]
        /\ pc'[r] \in Working
    BY <1>0, <1>4, Functions DEF FlushRow, Working
  <2>2. /\ holder'[addr[r]] = r
        /\ \A a \in Addr : holder'[a] = r => a = addr[r]
    BY <1>0, <1>1, <1>2, <2>1, Functions DEF Locked
  <2>3. Chosen(r)'
    BY <1>0, <1>1, <1>2, <2>1 DEF Chosen, Working
  <2>4. Locked(r)'
    BY <1>1, <2>1, <2>2 DEF Locked
  <2>5. Inserting(r)'
    BY <1>1, <1>2, <1>4, <2>1 DEF Inserting, Conflict
  <2>6. Named(r)' /\ Registered(r)'
    BY <1>0, <1>1, <1>2, <2>1 DEF Named, Registered, Working, HasName
  <2>7. Repeated(r)'
    BY <1>0, <1>1, <1>2, <2>1 DEF Repeated, Working
  <2> QED
    BY <2>3, <2>4, <2>5, <2>6, <2>7 DEF Sound
<1> QED
  BY <1>3, <1>4

LEMMA OwnCommit ==
    ASSUME IInv, [Next]_vars, NEW r \in Request, CommitRow(r)
    PROVE  Sound(r)'
<1>0. /\ TypeOK /\ Chosen(r) /\ Named(r) /\ Repeated(r) /\ Inserting(r)
      /\ Excused \subseteq Excused' /\ r # Nobody
  BY ExcusedGrows, NamesAssumption DEF IInv, Sound
<1>1. /\ addr[r] \in Addr /\ pc[r] = "commit" /\ pc[r] \in Working
      /\ UNCHANGED <<body, addr, isNew, loaded, registered, known>>
  BY CommitWhere DEF Working
<1>2. pc'[r] = "answered" /\ \A a \in Addr : holder'[a] # r
  BY <1>0, CommitWhere, Functions DEF Release
<1>3. \/ code'[r] = 201 /\ isNew[r]
      \/ code'[r] = 200 /\ ~isNew[r]
      \/ code'[r] = 500
  <2>1. \/ code' = [code EXCEPT ![r] = 201] /\ isNew[r]
        \/ code' = [code EXCEPT ![r] = 200] /\ ~isNew[r]
        \/ code' = [code EXCEPT ![r] = 500]
    BY CommitWhere
  <2> QED
    BY <1>0, <2>1, Functions
<1>4. loaded[r] # NoRow => row'[addr[r]] # NoRow
  BY <1>0, <1>1, RowsKept DEF Chosen, RowsStay
<1>5. isNew[r] /\ code'[r] = 201 =>
        row'[addr[r]] # NoRow /\ (addr[r] \in Excused \/ HasName(addr[r], body[r].host)')
  <2> SUFFICES ASSUME isNew[r], code'[r] = 201
               PROVE  row'[addr[r]] # NoRow /\ (addr[r] \in Excused \/ HasName(addr[r], body[r].host)')
    OBVIOUS
  <2>1. row' = [row EXCEPT ![addr[r]] = Committed(r)]
    BY <1>0, CommitWhere, Functions
  <2>2. row'[addr[r]] = Committed(r) /\ Committed(r) \in Row
    BY <1>0, <1>1, <2>1, CommitTyped, Functions
  <2>3. CASE loaded[r] = NoRow
    BY <1>0, <1>1, <2>2, <2>3, CommitTyped, NamesAssumption DEF HasName
  <2>4. CASE loaded[r] # NoRow
    BY <1>1, <2>2, <2>4, NamesAssumption DEF Excused, TakenOver
  <2> QED
    BY <2>3, <2>4
<1>6. ~isNew[r] => addr[r] \in Excused' \/ HasName(addr[r], body[r].host)'
  <2>1. ~isNew[r] => addr[r] \in Excused \/ HasName(addr[r], body[r].host)
    BY <1>0, <1>1 DEF Named
  <2>2. HasName(addr[r], body[r].host) => addr[r] \in Excused' \/ HasName(addr[r], body[r].host)'
    BY <1>1, NameStays
  <2> QED
    BY <1>0, <2>1, <2>2
<1>7. Chosen(r)'
  BY <1>0, <1>1, <1>2, <1>3, <1>4 DEF Chosen, Working
<1>8. Locked(r)' /\ Inserting(r)'
  BY <1>1, <1>2, <1>3, <1>5 DEF Locked, Inserting, Working
<1>9. Named(r)' /\ Registered(r)'
  BY <1>0, <1>1, <1>2, <1>3, <1>5, <1>6 DEF Named, Registered, Working, HasName
<1>10. Repeated(r)'
  BY <1>0, <1>1, <1>2, <1>3 DEF Repeated, Working
<1> QED
  BY <1>7, <1>8, <1>9, <1>10 DEF Sound

LEMMA SoundNext ==
    ASSUME IInv, [Next]_vars, NEW q \in Request
    PROVE  Sound(q)'
<1>0. TypeOK /\ q # Nobody
  BY NamesAssumption DEF IInv
<1>1. ASSUME NEW r \in Request, Step(r), q # r PROVE Sound(q)'
  BY <1>1, StepOthers
<1>2. CASE Step(q)
  <2>1. CASE Rollback(q) \/ CommitFails(q)
    <3>1. /\ pc[q] # "new" /\ pc'[q] = "answered" /\ code'[q] \notin {0, 200, 201}
          /\ UNCHANGED <<row, body, addr, isNew, loaded>> /\ Release(q)
      BY <1>0, <2>1, Functions DEF Rollback, CommitFails, Answer, Goto, local
    <3>2. \A a \in Addr : holder'[a] # q
      BY <1>0, <3>1 DEF Release
    <3> QED
      BY <3>1, <3>2, OwnEnd
  <2> QED
    BY <1>2, <2>1, OwnStart, OwnCheck, OwnPick, OwnLoad, OwnFlush, OwnProvider, OwnCommit DEF Step
<1>3. CASE UNCHANGED vars
  BY <1>3, Bystander DEF vars, table, providers, local, history, Untouched
<1>4. ASSUME NEW a \in Addr, EditRow(a) \/ Reclaim(a) \/ Discover(a) PROVE Sound(q)'
  <2>1. /\ UNCHANGED <<holder, forward, reverse, lease>> /\ Untouched(q)
        /\ holder[a] = Nobody
    BY <1>4 DEF EditRow, Reclaim, Discover, providers, local, history, Untouched
  <2>2. \A x \in Addr : x # a => row'[x] = row[x]
    BY <1>0, <1>4, Functions DEF EditRow, Reclaim, Discover
  <2>3. \A x \in Addr : holder[x] = q => row'[x] = row[x]
    BY <1>0, <2>1, <2>2
  <2> QED
    BY <2>1, <2>3, Bystander
<1>5. CASE Crash
  <2>1. /\ UNCHANGED <<row, forward, reverse, lease, body, addr, isNew, loaded, registered, known>>
        /\ \A a \in Addr : holder'[a] # q
    BY <1>0, <1>5 DEF Crash, providers, local
  <2>2. CASE q \in InProgress
    <3>1. pc[q] # "new" /\ pc'[q] = "answered" /\ code'[q] = 500
      BY <1>5, <2>2 DEF Crash, InProgress
    <3> QED
      BY <2>1, <3>1, OwnEnd
  <2>3. CASE q \notin InProgress
    <3>1. Untouched(q)
      BY <1>5, <2>1, <2>3 DEF Crash, Untouched
    <3>2. \A a \in Addr : holder[a] # q
      BY <2>3 DEF IInv, Sound, Locked, InProgress, Working
    <3> QED
      BY <2>1, <3>1, <3>2, Bystander
  <2> QED
    BY <2>2, <2>3
<1> QED
  BY <1>1, <1>2, <1>3, <1>4, <1>5 DEF Next

-----------------------------------------------------------------------------
(* The records of the providers.                                           *)

LEMMA SettledStays ==
    ASSUME IInv, [Next]_vars, NEW rec \in (Host \cup {NoHost}) \X Addr, Settled(rec)
    PROVE  Settled(rec)'
<1>1. blemished \subseteq blemished'
  BY DEF Next, Step, vars, Start, CheckExisting, PickCandidate, LoadRow, FlushRow,
     RegisterDns, RegisterPtr, RegisterDhcp, UndoPtr, UndoDns, Rollback, CommitRow, CommitFails,
     EditRow, Reclaim, Discover, Crash, history, NoFault, Blemish
<1>2. rec[2] \in Addr
  OBVIOUS
<1> QED
  BY <1>1, <1>2, ExcusedGrows, RowsKept DEF Settled, RowsStay

\* Where a new allocation goes with its records.
Moves == {<<"ptr", "dhcp">>, <<"ptr", "undo_ptr">>, <<"dhcp", "commit">>, <<"dhcp", "undo_ptr">>,
          <<"undo_ptr", "undo_dns">>, <<"undo_dns", "rollback">>}

LEMMA OwnerStays ==
    ASSUME IInv, [Next]_vars, NEW r \in Request, isNew[r],
           pc[r] \in {"ptr", "dhcp", "commit", "undo_ptr", "undo_dns"}
    PROVE  \/ Settled(Key(r))'
           \/ /\ Key(r)' = Key(r) /\ isNew'[r] /\ registered[r] \subseteq registered'[r]
              /\ pc'[r] = pc[r] \/ <<pc[r], pc'[r]>> \in Moves
              /\ pc[r] = "undo_ptr" /\ pc'[r] = "undo_dns" /\ "ptr" \in registered[r]
                 => Key(r) \notin reverse'
              /\ pc[r] = "undo_dns" /\ pc'[r] = "rollback" /\ "dns" \in registered[r]
                 => Key(r) \notin forward'
<1> DEFINE Goal ==
           \/ Settled(Key(r))'
           \/ /\ Key(r)' = Key(r) /\ isNew'[r] /\ registered[r] \subseteq registered'[r]
              /\ pc'[r] = pc[r] \/ <<pc[r], pc'[r]>> \in Moves
              /\ pc[r] = "undo_ptr" /\ pc'[r] = "undo_dns" /\ "ptr" \in registered[r]
                 => Key(r) \notin reverse'
              /\ pc[r] = "undo_dns" /\ pc'[r] = "rollback" /\ "dns" \in registered[r]
                 => Key(r) \notin forward'
<1>0. TypeOK /\ Excused \subseteq Excused' /\ Kept(r)
  BY ExcusedGrows, LocalsKept DEF IInv
<1>1. Key(r)' = Key(r) /\ isNew'[r] /\ addr'[r] = addr[r] /\ body'[r] = body[r]
  BY <1>0 DEF Kept, Key
<1>2. ASSUME Untouched(r) PROVE Goal
  BY <1>1, <1>2 DEF Untouched
<1>3. ASSUME Key(r) \in blemished' PROVE Goal
  <2>1. Settled(Key(r))'
    BY <1>1, <1>3 DEF Settled
  <2> QED
    BY <2>1
<1>4. CASE Step(r)
  <2>1. CASE RegisterPtr(r) \/ RegisterDhcp(r)
    <3>1. /\ registered[r] \subseteq registered'[r] /\ <<pc[r], pc'[r]>> \in Moves
          /\ pc[r] \notin {"undo_ptr", "undo_dns"}
      BY <1>0, <2>1, Functions DEF RegisterPtr, RegisterDhcp, Succeed, Fail, Goto, Moves
    <3> QED
      BY <1>1, <3>1
  <2>2. CASE UndoPtr(r)
    <3>1. /\ pc[r] = "undo_ptr" /\ pc'[r] = "undo_dns" /\ registered' = registered
          /\ reverse' = (IF "ptr" \in registered[r] THEN reverse \ {Key(r)} ELSE reverse) \/ Blemish(r)
      BY <1>0, <2>2, Functions DEF UndoPtr, Goto, local
    <3>2. CASE Blemish(r)
      BY <1>3, <3>2 DEF Blemish
    <3>3. CASE ~Blemish(r)
      BY <1>1, <3>1, <3>3 DEF Moves
    <3> QED
      BY <3>2, <3>3
  <2>3. CASE UndoDns(r)
    <3>1. /\ pc[r] = "undo_dns" /\ pc'[r] = "rollback" /\ registered' = registered
          /\ forward' = (IF "dns" \in registered[r] THEN forward \ {Key(r)} ELSE forward) \/ Blemish(r)
      BY <1>0, <2>3, Functions DEF UndoDns, Goto, local
    <3>2. CASE Blemish(r)
      BY <1>3, <3>2 DEF Blemish
    <3>3. CASE ~Blemish(r)
      BY <1>1, <3>1, <3>3 DEF Moves
    <3> QED
      BY <3>2, <3>3
  <2>4. CASE CommitRow(r)
    <3>1. code'[r] = 201 /\ Sound(r)'
      BY <1>0, <2>4, CommitWhere, Functions, SoundNext
    <3>2. addr[r] \in Excused' \/ HasName(addr[r], body[r].host)'
      BY <1>1, <3>1 DEF Sound, Named, HasName
    <3>3. Key(r)[1] = body[r].host /\ Key(r)[2] = addr[r]
      BY DEF Key
    <3>4. Settled(Key(r))'
      BY <1>1, <3>2, <3>3 DEF Settled, HasName
    <3> QED
      BY <3>4
  <2>5. CASE CommitFails(r)
    BY <1>3, <2>5 DEF CommitFails, Blemish
  <2> QED
    BY <1>4, <2>1, <2>2, <2>3, <2>4, <2>5 DEF Step, Start, CheckExisting, PickCandidate, LoadRow,
       FlushRow, RegisterDns, Rollback
<1>5. ASSUME NEW q \in Request, Step(q), q # r PROVE Goal
  BY <1>0, <1>2, <1>5, Others
<1>6. CASE UNCHANGED vars
  BY <1>2, <1>6 DEF vars, local, history, Untouched
<1>7. ASSUME NEW a \in Addr, EditRow(a) \/ Reclaim(a) \/ Discover(a) PROVE Goal
  BY <1>2, <1>7 DEF EditRow, Reclaim, Discover, local, history, Untouched
<1>8. CASE Crash
  BY <1>3, <1>8 DEF Crash, InProgress
<1> QED
  BY <1>4, <1>5, <1>6, <1>7, <1>8 DEF Next

LEMMA RecordsTyped ==
    ASSUME TypeOK
    PROVE  \A rec \in forward \cup reverse \cup lease : rec \in (Host \cup {NoHost}) \X Addr
BY DEF TypeOK

\* A new record is settled, or a new allocation's.
LEMMA NewRecords ==
    ASSUME IInv, [Next]_vars
    PROVE  /\ \A rec \in forward' \ forward : Settled(rec)' \/ OwnedBy(rec, "dns", {"ptr", "dhcp", "undo_ptr"})'
           /\ \A rec \in reverse' \ reverse : Settled(rec)' \/ OwnedBy(rec, "ptr", {"dhcp"})'
           /\ \A rec \in lease' \ lease : Settled(rec)' \/ OwnedBy(rec, "dhcp", {"commit"})'
<1>0. TypeOK
  BY DEF IInv
<1>1. ASSUME NEW r \in Request, RegisterDns(r) \/ RegisterPtr(r) \/ RegisterDhcp(r)
      PROVE  /\ \A rec \in forward' \ forward : Settled(rec)' \/ OwnedBy(rec, "dns", {"ptr", "dhcp", "undo_ptr"})'
             /\ \A rec \in reverse' \ reverse : Settled(rec)' \/ OwnedBy(rec, "ptr", {"dhcp"})'
             /\ \A rec \in lease' \ lease : Settled(rec)' \/ OwnedBy(rec, "dhcp", {"commit"})'
  <2>1. forward' \ forward \subseteq {Key(r)} /\ reverse' \ reverse \subseteq {Key(r)}
        /\ lease' \ lease \subseteq {Key(r)}
    BY <1>1 DEF RegisterDns, RegisterPtr, RegisterDhcp
  <2>2. UNCHANGED <<row, body, addr, isNew, loaded, edited>> /\ pc[r] \in {"dns", "ptr", "dhcp"}
    BY <1>1 DEF RegisterDns, RegisterPtr, RegisterDhcp, table
  <2>3. Key(r)' = Key(r) /\ Key(r)[1] = body[r].host /\ Key(r)[2] = addr[r]
    BY <2>2 DEF Key
  <2>4. CASE Key(r) \in blemished'
    BY <2>1, <2>4 DEF Settled
  <2>5. CASE ~isNew[r]
    <3>1. addr[r] \in Excused \/ HasName(addr[r], body[r].host)
      BY <2>2, <2>5 DEF IInv, Sound, Named, Working
    <3>2. Settled(Key(r))'
      BY <2>2, <2>3, <3>1 DEF Settled, HasName, Excused, TakenOver
    <3> QED
      BY <2>1, <2>3, <3>2 DEF Settled
  <2>6. CASE isNew[r] /\ Key(r) \notin blemished'
    <3>1. /\ forward' # forward => "dns" \in registered'[r] /\ pc'[r] \in {"ptr", "dhcp"}
          /\ reverse' # reverse => "ptr" \in registered'[r] /\ pc'[r] = "dhcp"
          /\ lease' # lease => "dhcp" \in registered'[r] /\ pc'[r] = "commit"
      BY <1>0, <1>1, <2>6, Functions
         DEF RegisterDns, RegisterPtr, RegisterDhcp, Blemish, Succeed, Goto
    <3>2. isNew'[r]
      BY <2>2, <2>6
    <3>3. \A rec \in forward' \ forward : OwnedBy(rec, "dns", {"ptr", "dhcp", "undo_ptr"})'
      BY <2>1, <2>3, <3>1, <3>2 DEF OwnedBy
    <3>4. \A rec \in reverse' \ reverse : OwnedBy(rec, "ptr", {"dhcp"})'
      BY <2>1, <2>3, <3>1, <3>2 DEF OwnedBy
    <3>5. \A rec \in lease' \ lease : OwnedBy(rec, "dhcp", {"commit"})'
      BY <2>1, <2>3, <3>1, <3>2 DEF OwnedBy
    <3> QED
      BY <3>3, <3>4, <3>5
  <2> QED
    BY <2>4, <2>5, <2>6
<1>2. \/ forward' \subseteq forward /\ reverse' \subseteq reverse /\ lease' \subseteq lease
      \/ \E r \in Request : RegisterDns(r) \/ RegisterPtr(r) \/ RegisterDhcp(r)
  BY DEF Next, Step, vars, providers, Start, CheckExisting, PickCandidate, LoadRow, FlushRow,
     UndoPtr, UndoDns, Rollback, CommitRow, CommitFails, EditRow, Reclaim, Discover, Crash
<1> QED
  BY <1>1, <1>2

LEMMA OwnedNext ==
    ASSUME IInv, [Next]_vars
    PROVE  Owned'
<1>0. TypeOK /\ Owned
  BY DEF IInv
<1>1. ASSUME NEW rec \in forward' PROVE Settled(rec)' \/ OwnedBy(rec, "dns", {"ptr", "dhcp", "commit", "undo_ptr", "undo_dns"})'
  <2>1. CASE rec \notin forward
    BY <1>1, <2>1, NewRecords DEF OwnedBy
  <2>2. CASE rec \in forward /\ Settled(rec)
    BY <1>0, <2>2, RecordsTyped, SettledStays
  <2>3. ASSUME NEW r \in Request, Key(r) = rec, isNew[r], "dns" \in registered[r],
               pc[r] \in {"ptr", "dhcp", "commit", "undo_ptr", "undo_dns"}
        PROVE  Settled(rec)' \/ OwnedBy(rec, "dns", {"ptr", "dhcp", "commit", "undo_ptr", "undo_dns"})'
    <3>1. CASE Settled(Key(r))'
      <4>1. Key(r)' = Key(r)
        BY <2>3, LocalsKept DEF Kept, Key
      <4> QED
        BY <2>3, <3>1, <4>1 DEF Settled
    <3>2. CASE ~Settled(Key(r))'
      <4>1. /\ Key(r)' = rec /\ isNew'[r] /\ "dns" \in registered'[r]
            /\ pc'[r] \in {"ptr", "dhcp", "commit", "undo_ptr", "undo_dns"}
        BY <1>1, <2>3, <3>2, OwnerStays DEF Moves
      <4> QED
        BY <4>1 DEF OwnedBy
    <3> QED
      BY <3>1, <3>2
  <2> QED
    BY <1>0, <2>1, <2>2, <2>3 DEF Owned, OwnedBy
<1>2. ASSUME NEW rec \in reverse' PROVE Settled(rec)' \/ OwnedBy(rec, "ptr", {"dhcp", "commit", "undo_ptr"})'
  <2>1. CASE rec \notin reverse
    BY <1>2, <2>1, NewRecords DEF OwnedBy
  <2>2. CASE rec \in reverse /\ Settled(rec)
    BY <1>0, <2>2, RecordsTyped, SettledStays
  <2>3. ASSUME NEW r \in Request, Key(r) = rec, isNew[r], "ptr" \in registered[r],
               pc[r] \in {"dhcp", "commit", "undo_ptr"}
        PROVE  Settled(rec)' \/ OwnedBy(rec, "ptr", {"dhcp", "commit", "undo_ptr"})'
    <3>1. CASE Settled(Key(r))'
      <4>1. Key(r)' = Key(r)
        BY <2>3, LocalsKept DEF Kept, Key
      <4> QED
        BY <2>3, <3>1, <4>1 DEF Settled
    <3>2. CASE ~Settled(Key(r))'
      <4>1. /\ Key(r)' = rec /\ isNew'[r] /\ "ptr" \in registered'[r]
            /\ pc'[r] \in {"dhcp", "commit", "undo_ptr"}
        BY <1>2, <2>3, <3>2, OwnerStays DEF Moves
      <4> QED
        BY <4>1 DEF OwnedBy
    <3> QED
      BY <3>1, <3>2
  <2> QED
    BY <1>0, <2>1, <2>2, <2>3 DEF Owned, OwnedBy
<1>3. ASSUME NEW rec \in lease' PROVE Settled(rec)' \/ OwnedBy(rec, "dhcp", {"commit"})'
  <2>1. CASE rec \notin lease
    BY <1>3, <2>1, NewRecords DEF OwnedBy
  <2>2. CASE rec \in lease /\ Settled(rec)
    BY <1>0, <2>2, RecordsTyped, SettledStays
  <2>3. ASSUME NEW r \in Request, Key(r) = rec, isNew[r], "dhcp" \in registered[r], pc[r] = "commit"
        PROVE  Settled(rec)' \/ OwnedBy(rec, "dhcp", {"commit"})'
    <3>1. CASE Settled(Key(r))'
      <4>1. Key(r)' = Key(r)
        BY <2>3, LocalsKept DEF Kept, Key
      <4> QED
        BY <2>3, <3>1, <4>1 DEF Settled
    <3>2. CASE ~Settled(Key(r))'
      <4>1. Key(r)' = rec /\ isNew'[r] /\ "dhcp" \in registered'[r] /\ pc'[r] = "commit"
        BY <1>3, <2>3, <3>2, OwnerStays DEF Moves
      <4> QED
        BY <4>1 DEF OwnedBy
    <3> QED
      BY <3>1, <3>2
  <2> QED
    BY <1>0, <2>1, <2>2, <2>3 DEF Owned, OwnedBy
<1> QED
  BY <1>1, <1>2, <1>3 DEF Owned

\* A row says nothing of records that are not there.
LEMMA RowsRegisteredNext ==
    ASSUME IInv, [Next]_vars
    PROVE  RowsAreRegistered'
<1> SUFFICES ASSUME NEW a \in Addr, a \notin Excused', row'[a] # NoRow
             PROVE  /\ row'[a].dns  => <<row'[a].host, a>> \in forward'
                    /\ row'[a].ptr  => <<row'[a].host, a>> \in reverse'
                    /\ row'[a].dhcp => <<row'[a].host, a>> \in lease'
  BY DEF RowsAreRegistered, Excused
<1> DEFINE Goal == /\ row'[a].dns  => <<row'[a].host, a>> \in forward'
                   /\ row'[a].ptr  => <<row'[a].host, a>> \in reverse'
                   /\ row'[a].dhcp => <<row'[a].host, a>> \in lease'
<1>0. TypeOK /\ a \notin Excused /\ RowsStay
  BY ExcusedGrows, RowsKept DEF IInv
<1>1. row[a] # NoRow =>
        /\ row[a].dns  => <<row[a].host, a>> \in forward
        /\ row[a].ptr  => <<row[a].host, a>> \in reverse
        /\ row[a].dhcp => <<row[a].host, a>> \in lease
  BY <1>0 DEF IInv, RowsAreRegistered, Excused
<1>2. CASE row'[a] = row[a]
  <2>1. CASE forward \subseteq forward' /\ reverse \subseteq reverse' /\ lease \subseteq lease'
    BY <1>1, <1>2, <2>1
  <2>2. ASSUME NEW r \in Request, UndoPtr(r) \/ UndoDns(r) PROVE Goal
    <3>1. addr[r] # a
      BY <1>0, <1>2, <2>2, UndoIsOwn DEF UndoPtr, UndoDns
    <3>2. Key(r) # <<row[a].host, a>>
      BY <3>1 DEF Key
    <3>3. forward \ {Key(r)} \subseteq forward' /\ reverse \ {Key(r)} \subseteq reverse' /\ lease' = lease
      BY <2>2 DEF UndoPtr, UndoDns
    <3> QED
      BY <1>1, <1>2, <3>2, <3>3
  <2>3. \/ forward \subseteq forward' /\ reverse \subseteq reverse' /\ lease \subseteq lease'
        \/ \E r \in Request : UndoPtr(r) \/ UndoDns(r)
    BY DEF Next, Step, vars, providers, Start, CheckExisting, PickCandidate, LoadRow, FlushRow,
       RegisterDns, RegisterPtr, RegisterDhcp, Rollback, CommitRow, CommitFails, EditRow, Reclaim,
       Discover, Crash
  <2> QED
    BY <2>1, <2>2, <2>3
<1>3. ASSUME NEW r \in Request, CommitRow(r), row'[a] # row[a] PROVE Goal
  <2>1. /\ addr[r] = a /\ row'[a] = Committed(r) /\ pc[r] = "commit"
        /\ UNCHANGED <<forward, reverse, lease, isNew, loaded, addr, edited>>
    BY <1>0, <1>3, CommitWhere, Functions
  <2>2. Sound(r) /\ Chosen(r)
    BY DEF IInv, Sound
  <2>3. Key(r) = <<body[r].host, a>>
    BY <2>1 DEF Key
  <2>4. /\ "dns" \in registered[r] => Key(r) \in forward
        /\ "ptr" \in registered[r] => Key(r) \in reverse
        /\ "dhcp" \in registered[r] => Key(r) \in lease
    BY <1>0, <2>1, <2>2 DEF Sound, Registered
  <2>5. CASE isNew[r]
    <3>1. loaded[r] = NoRow
      BY <1>0, <2>1, <2>5 DEF Excused, TakenOver
    <3>2. /\ Committed(r).host = body[r].host
          /\ Committed(r).dns = ("dns" \in registered[r])
          /\ Committed(r).ptr = ("ptr" \in registered[r])
          /\ Committed(r).dhcp = ("dhcp" \in registered[r])
      BY <1>0, <2>1, <2>2, <2>5, <3>1, CommitTyped
    <3> QED
      BY <2>1, <2>3, <2>4, <3>2
  <2>6. CASE ~isNew[r]
    <3>1. row[a] # NoRow /\ row[a].host = body[r].host
      BY <1>0, <2>1, <2>2, <2>6 DEF Sound, Named, HasName, Working
    <3>2. /\ Committed(r).host = row[a].host
          /\ Committed(r).dns => row[a].dns \/ "dns" \in registered[r]
          /\ Committed(r).ptr => row[a].ptr \/ "ptr" \in registered[r]
          /\ Committed(r).dhcp => row[a].dhcp \/ "dhcp" \in registered[r]
      BY <1>0, <2>1, <2>2, <2>6, CommitTyped
    <3> QED
      BY <1>1, <2>1, <2>3, <2>4, <3>1, <3>2
  <2> QED
    BY <2>5, <2>6
<1>4. ASSUME NEW x \in Addr, EditRow(x) \/ Reclaim(x), row'[a] # row[a] PROVE FALSE
  <2>1. x \in Excused'
    BY <1>4 DEF EditRow, Reclaim, Excused
  <2>2. a # x => row'[a] = row[a]
    BY <1>0, <1>4, Functions DEF EditRow, Reclaim
  <2> QED
    BY <1>4, <2>1, <2>2
<1>5. ASSUME NEW x \in Addr, Discover(x), row'[a] # row[a] PROVE Goal
  <2>1. row'[a].dns = FALSE /\ row'[a].ptr = FALSE /\ row'[a].dhcp = FALSE
    BY <1>0, <1>5, Functions DEF Discover
  <2> QED
    BY <2>1
<1>6. row' = row \/ (\E r \in Request : CommitRow(r))
      \/ (\E x \in Addr : EditRow(x) \/ Reclaim(x) \/ Discover(x))
  BY DEF Next, Step, vars, table, Start, CheckExisting, PickCandidate, LoadRow, FlushRow,
     RegisterDns, RegisterPtr, RegisterDhcp, UndoPtr, UndoDns, Rollback, CommitFails, Crash
<1> QED
  BY <1>2, <1>3, <1>4, <1>5, <1>6

-----------------------------------------------------------------------------
(* Who shares an address.                                                  *)

LEMMA CreatesByCommit ==
    ASSUME IInv, [Next]_vars, NEW q \in Request, code'[q] = 201, code[q] # 201
    PROVE  CommitRow(q) /\ isNew[q]
<1>0. TypeOK
  BY DEF IInv
<1>1. ASSUME NEW r \in Request, Step(r) PROVE CommitRow(q) /\ isNew[q]
  <2>1. q = r
    BY <1>0, <1>1, Others DEF Untouched
  <2>2. Start(q) \/ CheckExisting(q) \/ PickCandidate(q) \/ FlushRow(q) \/ Rollback(q)
        \/ CommitFails(q) => code'[q] # 201
    BY <1>0, Functions DEF Start, CheckExisting, PickCandidate, FlushRow, Rollback, CommitFails, Answer
  <2>3. LoadRow(q) \/ RegisterDns(q) \/ RegisterPtr(q) \/ RegisterDhcp(q) \/ UndoPtr(q)
        \/ UndoDns(q) => code' = code
    BY DEF LoadRow, RegisterDns, RegisterPtr, RegisterDhcp, UndoPtr, UndoDns
  <2>4. CommitRow(q)
    BY <1>1, <2>1, <2>2, <2>3 DEF Step
  <2>5. ~isNew[q] => code'[q] # 201
    <3>1. ~isNew[q] => \/ code' = [code EXCEPT ![q] = 200]
                       \/ code' = [code EXCEPT ![q] = 500]
      BY <2>4, CommitWhere
    <3> QED
      BY <1>0, <3>1, Functions
  <2> QED
    BY <2>4, <2>5
<1>2. CASE UNCHANGED vars
  BY <1>2 DEF vars
<1>3. ASSUME NEW a \in Addr, EditRow(a) \/ Reclaim(a) \/ Discover(a) PROVE CommitRow(q) /\ isNew[q]
  BY <1>3 DEF EditRow, Reclaim, Discover
<1>4. CASE Crash
  BY <1>4 DEF Crash
<1> QED
  BY <1>1, <1>2, <1>3, <1>4 DEF Next

\* Only where a row was already there does an allocation commit an address
\* that another has.
LEMMA NewShare ==
    ASSUME IInv, [Next]_vars, NEW p \in Request, NEW q \in Request, CommitRow(p), isNew[p],
           code[q] = 201, addr[p] = addr[q]
    PROVE  addr[p] \in TakenOver
<1>1. pc[p] \in Working
  BY CommitWhere DEF Working
<1>2. row[addr[q]] # NoRow /\ Inserting(p)
  BY DEF IInv, Sound, Inserting
<1>3. loaded[p] # NoRow
  BY <1>1, <1>2 DEF Inserting
<1> QED
  BY <1>3 DEF TakenOver

LEMMA SharesNext ==
    ASSUME IInv, [Next]_vars
    PROVE  SharedOnlyByTakeover'
<1> SUFFICES ASSUME NEW p \in Request, NEW q \in Request, p # q,
                    code'[p] = 201, code'[q] = 201, addr'[p] = addr'[q]
             PROVE  addr'[p] \in TakenOver'
  BY DEF SharedOnlyByTakeover
<1>1. ASSUME NEW r \in Request, code[r] = 201 PROVE addr'[r] = addr[r]
  <2>1. pc[r] = "answered"
    BY <1>1 DEF IInv, Sound, Chosen
  <2> QED
    BY <2>1, LocalsKept DEF Kept
<1>2. ASSUME NEW r \in Request, CommitRow(r) PROVE addr' = addr
  BY <1>2, CommitWhere
<1>3. CASE code[p] = 201 /\ code[q] = 201
  BY <1>1, <1>3, TakeoversGrow DEF IInv, SharedOnlyByTakeover
<1>4. CASE code[p] # 201 /\ code[q] = 201
  BY <1>2, <1>4, CreatesByCommit, NewShare, TakeoversGrow
<1>5. CASE code[p] = 201 /\ code[q] # 201
  BY <1>2, <1>5, CreatesByCommit, NewShare, TakeoversGrow
<1>6. CASE code[p] # 201 /\ code[q] # 201
  <2>1. CommitRow(p) /\ CommitRow(q)
    BY <1>6, CreatesByCommit
  <2>2. pc' = [pc EXCEPT ![p] = "answered"] /\ pc' = [pc EXCEPT ![q] = "answered"]
        /\ pc[q] = "commit"
    BY <2>1, CommitWhere
  <2> QED
    BY <2>2, Functions DEF IInv
<1> QED
  BY <1>3, <1>4, <1>5, <1>6

-----------------------------------------------------------------------------
(* The invariant.                                                          *)

LEMMA IInvInit == Init => IInv
<1> SUFFICES ASSUME Init PROVE IInv
  OBVIOUS
<1>1. TypeOK
  BY TypeInit
<1>2. ASSUME NEW r \in Request PROVE Sound(r)
  <2>1. /\ pc[r] = "new" /\ isNew[r] /\ loaded[r] = NoRow /\ registered[r] = {} /\ code[r] = 0
        /\ known[r] = {} /\ pc[r] \notin Working
    BY DEF Init, Working
  <2>2. \A a \in Addr : holder[a] # r
    BY NamesAssumption DEF Init
  <2>3. Chosen(r) /\ Locked(r)
    BY <2>1, <2>2 DEF Chosen, Locked
  <2>4. Inserting(r) /\ Named(r) /\ Registered(r) /\ Repeated(r)
    BY <2>1 DEF Inserting, Named, Registered, Repeated
  <2> QED
    BY <2>3, <2>4 DEF Sound
<1>3. RowsAreRegistered
  BY DEF Init, RowsAreRegistered
<1>4. \A rec \in forward \cup reverse \cup lease : Settled(rec)
  BY DEF Init, Settled
<1>5. Owned
  BY <1>4 DEF Owned
<1>6. SharedOnlyByTakeover
  BY DEF Init, SharedOnlyByTakeover
<1> QED
  BY <1>1, <1>2, <1>3, <1>5, <1>6 DEF IInv

LEMMA IInvNext ==
    ASSUME IInv, [Next]_vars
    PROVE  IInv'
BY TypeNext, SoundNext, RowsRegisteredNext, OwnedNext, SharesNext DEF IInv

LEMMA IInvHolds == Spec => []IInv
BY IInvInit, IInvNext, PTL DEF Spec

LEMMA IInvImplies == IInv => NoOrphanRecord /\ RepeatIsIdempotent
<1> SUFFICES ASSUME IInv PROVE NoOrphanRecord /\ RepeatIsIdempotent
  OBVIOUS
<1>1. ASSUME NEW rec \in Records
      PROVE  \/ rec[2] \in edited \cup TakenOver
             \/ rec \in blemished
             \/ row[rec[2]] # NoRow /\ row[rec[2]].host = rec[1]
             \/ \E r \in Request : Key(r) = rec /\ pc[r] \in Working
  <2>1. Settled(rec) \/ \E r \in Request : Key(r) = rec /\ pc[r] \in Working
    BY <1>1 DEF IInv, Owned, OwnedBy, Records, Working
  <2> QED
    BY <2>1 DEF Settled, Excused
<1>2. NoOrphanRecord
  BY <1>1 DEF NoOrphanRecord
<1>3. ASSUME NEW r \in Request, code[r] \in {200, 201}, ~(known[r] \subseteq edited \cup TakenOver)
      PROVE  code[r] = 200 /\ (addr[r] \in edited \cup TakenOver \/ HasName(addr[r], body[r].host))
  <2>1. Chosen(r) /\ Named(r) /\ Repeated(r)
    BY DEF IInv, Sound
  <2>2. code[r] # 201
    BY <1>3, <2>1 DEF Chosen, Repeated, Excused
  <2> QED
    BY <1>3, <2>1, <2>2 DEF Named, Excused
<1>4. RepeatIsIdempotent
  BY <1>3 DEF RepeatIsIdempotent
<1> QED
  BY <1>2, <1>4

-----------------------------------------------------------------------------
(* The theorems.                                                           *)

\* The table, the records and the requests' locals keep their types through
\* any interleaving, fault and restart.
THEOREM AllocationTypes == Spec => []TypeOK
BY IInvHolds, PTL DEF IInv

\* Two new allocations are answered with one address only if one of them took
\* over a row that was there when it loaded it: the unique key and the lock of
\* the row leave no other way.
THEOREM InsertsDoNotCollide == Spec => []SharedOnlyByTakeover
BY IInvHolds, PTL DEF IInv

\* A failed allocation has undone what it registered: each record has its row
\* or a request at work on it, but for edits, takeovers and faults.
THEOREM NothingIsOrphaned == Spec => []NoOrphanRecord
BY IInvHolds, IInvImplies, PTL

\* No undo deletes the records of another request's committed row.
THEOREM RegistrationsStay == Spec => []RowsAreRegistered
BY IInvHolds, PTL DEF IInv

\* A call made after an earlier one with its hostname was answered makes no
\* new row.
THEOREM RepeatsMakeNoRow == Spec => []RepeatIsIdempotent
BY IInvHolds, IInvImplies, PTL

-----------------------------------------------------------------------------
(* The inductive invariant of the approval workflow.                       *)

AskRow == [status : {"none", "pending", "approved", "denied", "gone"}, ip : Addr \cup {NoAddr}]
Desk == [act : {"none", "deny", "delete"}, q : Asked \cup {NoAsk}]
AskTypes ==
    /\ ask \in [Asked -> AskRow]
    /\ reviewed \in [Request -> Asked \cup {NoAsk}]
    /\ closed \subseteq Request
    /\ desk \in Desk
    /\ doubt \subseteq Asked

\* A call made for a request has begun, and asks for its hostname.
Judged(r) ==
    /\ reviewed[r] # NoAsk =>
         /\ pc[r] # "new" /\ body[r].host = Wanted[reviewed[r]]
         /\ ask[reviewed[r]].status # "none"
    /\ r \in closed => pc[r] = "answered" /\ reviewed[r] # NoAsk

\* No approval of the request has ended with a new row.
Unallocated(q) == \A r \in closed : reviewed[r] = q => code[r] # 201

\* What a request says, and what a denial that has read it relies on.
Granted(q) ==
    ask[q].status = "approved" =>
        /\ ask[q].ip \in Addr
        /\ row[ask[q].ip] # NoRow
        /\ row[ask[q].ip].host = Wanted[q] \/ ask[q].ip \in Excused
Ungranted(q) == ask[q].status \in {"pending", "denied"} => Unallocated(q)
Reading(q) == desk.act = "deny" /\ desk.q = q => q \notin Allocating /\ Unallocated(q)
Orderly(q) == q \notin doubt => Granted(q) /\ Ungranted(q) /\ Reading(q)

AskInv ==
    /\ IInv /\ AskTypes
    /\ \A r \in Request : Judged(r)
    /\ \A q \in Asked : Orderly(q)

-----------------------------------------------------------------------------
(* The allocations under the workflow.                                     *)

\* What any step leaves of the allocations.
Calm ==
    /\ RowsStay
    /\ Excused \subseteq Excused'
    /\ \A r \in Request :
         /\ pc[r] # "new" => pc'[r] # "new" /\ body'[r] = body[r]
         /\ pc[r] = "answered" => pc'[r] = "answered" /\ (code'[r] = 201 => code[r] = 201)

LEMMA MovesOn ==
    ASSUME IInv, [Next]_vars, NEW q \in Request
    PROVE  /\ pc[q] # "new" => pc'[q] # "new"
           /\ pc[q] = "answered" => pc'[q] = "answered"
<1>0. TypeOK
  BY DEF IInv
<1>1. ASSUME NEW r \in Request, Step(r)
      PROVE  (pc[q] # "new" => pc'[q] # "new") /\ (pc[q] = "answered" => pc'[q] = "answered")
  <2>1. CASE q # r
    BY <1>0, <1>1, <2>1, Others DEF Untouched
  <2>2. CASE q = r
    <3>1. pc[r] # "answered"
      BY <1>1 DEF Step, Start, CheckExisting, PickCandidate, LoadRow, FlushRow, RegisterDns,
         RegisterPtr, RegisterDhcp, UndoPtr, UndoDns, Rollback, CommitRow, CommitFails
    <3>2. \E label \in RequestLabels \ {"new"} : pc' = [pc EXCEPT ![r] = label]
      BY <1>1 DEF Step, Start, CheckExisting, PickCandidate, LoadRow, FlushRow, RegisterDns,
         RegisterPtr, RegisterDhcp, UndoPtr, UndoDns, Rollback, CommitRow, CommitFails,
         Succeed, Fail, Answer, Goto, RequestLabels, Working
    <3> QED
      BY <1>0, <2>2, <3>1, <3>2, Functions
  <2> QED
    BY <2>1, <2>2
<1>2. CASE UNCHANGED vars
  BY <1>2 DEF vars
<1>3. ASSUME NEW a \in Addr, EditRow(a) \/ Reclaim(a) \/ Discover(a) PROVE UNCHANGED pc
  BY <1>3 DEF EditRow, Reclaim, Discover
<1>4. CASE Crash
  BY <1>4 DEF Crash
<1> QED
  BY <1>1, <1>2, <1>3, <1>4 DEF Next

LEMMA NextIsCalm ==
    ASSUME IInv, [Next]_vars
    PROVE  IInv' /\ Calm
<1>1. IInv' /\ RowsStay /\ Excused \subseteq Excused'
  BY IInvNext, RowsKept, ExcusedGrows
<1>2. ASSUME NEW r \in Request
      PROVE  /\ pc[r] # "new" => pc'[r] # "new" /\ body'[r] = body[r]
             /\ pc[r] = "answered" => pc'[r] = "answered" /\ (code'[r] = 201 => code[r] = 201)
  <2>1. pc[r] # "new" => pc'[r] # "new" /\ body'[r] = body[r]
    BY MovesOn, LocalsKept DEF Kept
  <2>2. pc[r] = "answered" => pc'[r] = "answered"
    BY MovesOn
  <2>3. pc[r] = "answered" /\ code'[r] = 201 => code[r] = 201
    BY CreatesByCommit, CommitWhere
  <2> QED
    BY <2>1, <2>2, <2>3
<1> QED
  BY <1>1, <1>2 DEF Calm

LEMMA FailureIsCalm ==
    ASSUME IInv, NEW r \in Request, MarkFails(r)
    PROVE  IInv' /\ Calm
<1>1. UNCHANGED <<row, holder, forward, reverse, lease, pc, body, addr, isNew, loaded, registered,
                  code, edited, known, blemished, edits, crashes>>
  BY DEF MarkFails, table, providers, local, history
<1>2. faults' \in 0..MaxFaults
  BY ModelAssumption DEF MarkFails, IInv, TypeOK
<1>3. TypeOK'
  BY <1>1, <1>2 DEF IInv, TypeOK
<1>4. ASSUME NEW q \in Request PROVE Sound(q)'
  <2>1. Chosen(q)' /\ Locked(q)' /\ Inserting(q)'
    BY <1>1 DEF IInv, Sound, Chosen, Locked, Inserting
  <2>2. Named(q)' /\ Registered(q)' /\ Repeated(q)'
    BY <1>1 DEF IInv, Sound, Named, Registered, Repeated, Excused, TakenOver, HasName, Key
  <2> QED
    BY <2>1, <2>2 DEF Sound
<1>5. RowsAreRegistered' /\ SharedOnlyByTakeover'
  BY <1>1 DEF IInv, RowsAreRegistered, SharedOnlyByTakeover, TakenOver
<1>6. Owned'
  BY <1>1 DEF IInv, Owned, OwnedBy, Settled, Excused, TakenOver, Key
<1>7. Calm
  BY <1>1 DEF Calm, RowsStay, Excused, TakenOver
<1> QED
  BY <1>3, <1>4, <1>5, <1>6, <1>7 DEF IInv

LEMMA AskIsCalm ==
    ASSUME IInv, [AskNext]_allVars
    PROVE  IInv' /\ Calm
<1>1. [Next]_vars \/ \E r \in Request : MarkFails(r)
  BY DEF AskNext, allVars, Next, Step, Submit, Approve, MarkApproved, Read, Settle, Restart
<1> QED
  BY <1>1, NextIsCalm, FailureIsCalm

-----------------------------------------------------------------------------
(* The invariant.                                                          *)

LEMMA AskFunctions ==
    ASSUME AskTypes
    PROVE  DOMAIN ask = Asked /\ DOMAIN reviewed = Request /\ NoAsk \notin Asked
           /\ \A q \in Asked : ask[q] \in AskRow
BY AskedAssumption DEF AskTypes

LEMMA ReviewedTyped ==
    ASSUME AskTypes, NEW r \in Request, reviewed[r] # NoAsk
    PROVE  reviewed[r] \in Asked
BY DEF AskTypes

LEMMA AskTypesNext ==
    ASSUME AskInv, [AskNext]_allVars
    PROVE  AskTypes'
<1>0. AskTypes /\ NoAsk \notin Asked /\ Allocating \subseteq Asked /\ NoDesk \in Desk
  <2>1. AskTypes
    BY DEF AskInv
  <2>2. Allocating \subseteq Asked
    BY <2>1, ReviewedTyped DEF Allocating
  <2> QED
    BY <2>1, <2>2, AskFunctions DEF NoDesk, Desk
<1> USE <1>0
<1>1. ASSUME UNCHANGED asks PROVE AskTypes'
  BY <1>1 DEF asks, AskTypes
<1>2. ASSUME NEW q \in Asked, Submit(q) PROVE AskTypes'
  <2>1. [ask[q] EXCEPT !.status = "pending"] \in AskRow
    BY AskFunctions DEF AskRow
  <2>2. ask' \in [Asked -> AskRow]
    BY <1>2, <2>1 DEF Submit, AskTypes
  <2> QED
    BY <1>2, <2>2 DEF Submit, AskTypes
<1>3. ASSUME NEW r \in Request, NEW q \in Asked, Approve(r, q) PROVE AskTypes'
  BY <1>3 DEF Approve, AskTypes
<1>4. ASSUME NEW r \in Request, MarkApproved(r) PROVE AskTypes'
  <2>1. reviewed[r] \in Asked
    BY <1>4, ReviewedTyped DEF MarkApproved, Returned
  <2>2. addr[r] \in Addr \cup {NoAddr}
    BY DEF AskInv, IInv, TypeOK
  <2>3. [status |-> "approved", ip |-> addr[r]] \in AskRow
    BY <2>2 DEF AskRow
  <2>4. ask' \in [Asked -> AskRow]
    BY <1>4, <2>1, <2>3 DEF MarkApproved, AskTypes
  <2> QED
    BY <1>4, <2>4 DEF MarkApproved, AskTypes
<1>5. ASSUME NEW r \in Request, MarkFails(r) PROVE AskTypes'
  <2>1. reviewed[r] \in Asked
    BY <1>5, ReviewedTyped DEF MarkFails, Returned
  <2> QED
    BY <1>5, <2>1 DEF MarkFails, AskTypes
<1>6. ASSUME NEW q \in Asked, NEW act \in {"deny", "delete"}, Read(act, q) PROVE AskTypes'
  <2>1. desk' \in Desk
    BY <1>6 DEF Read, Desk
  <2> QED
    BY <1>6, <2>1 DEF Read, AskTypes
<1>7. CASE Settle
  <2>1. desk.q \in Asked \cup {NoAsk}
    BY DEF AskTypes, Desk
  <2>2. \A status \in {"denied", "gone"} :
          desk.q \in Asked => [ask[desk.q] EXCEPT !.status = status] \in AskRow
    BY AskFunctions DEF AskRow
  <2>3. ask' \in [Asked -> AskRow]
    BY <1>7, <2>1, <2>2 DEF Settle, AskTypes
  <2> QED
    BY <1>7, <2>3 DEF Settle, AskTypes
<1>8. CASE Restart
  BY <1>8 DEF Restart, AskTypes
<1> QED
  BY <1>1, <1>2, <1>3, <1>4, <1>5, <1>6, <1>7, <1>8 DEF AskNext, allVars

\* A status once given is never taken back to none.
LEMMA StatusStays ==
    ASSUME AskInv, [AskNext]_allVars, NEW q \in Asked, ask[q].status # "none"
    PROVE  ask'[q].status # "none"
<1>0. AskTypes
  BY DEF AskInv
<1>1. CASE UNCHANGED ask
  BY <1>1
<1>2. ASSUME NEW p \in Asked, Submit(p) PROVE ask'[q].status # "none"
  BY <1>0, <1>2, AskFunctions DEF Submit
<1>3. ASSUME NEW r \in Request, MarkApproved(r) PROVE ask'[q].status # "none"
  BY <1>0, <1>3, AskFunctions DEF MarkApproved
<1>4. CASE Settle
  <2>1. ask' = ask \/ \E status \in {"denied", "gone"} : ask' = [ask EXCEPT ![desk.q].status = status]
    BY <1>4 DEF Settle
  <2>2. ASSUME NEW status \in {"denied", "gone"}, ask' = [ask EXCEPT ![desk.q].status = status]
        PROVE  ask'[q].status # "none"
    <3>1. CASE desk.q # q
      BY <1>0, <2>2, <3>1, AskFunctions
    <3>2. CASE desk.q = q
      BY <1>0, <2>2, <3>2, AskFunctions DEF AskRow
    <3> QED
      BY <3>1, <3>2
  <2> QED
    BY <2>1, <2>2
<1> QED
  BY <1>1, <1>2, <1>3, <1>4
  DEF AskNext, allVars, asks, Approve, MarkFails, Read, Restart

LEMMA JudgedNext ==
    ASSUME AskInv, [AskNext]_allVars, NEW r \in Request
    PROVE  Judged(r)'
<1>0. AskTypes /\ Judged(r) /\ Calm /\ TypeOK
  BY AskIsCalm DEF AskInv, IInv
<1>1. ASSUME reviewed'[r] = reviewed[r], r \in closed' => r \in closed PROVE Judged(r)'
  <2>1. reviewed[r] # NoAsk => ask'[reviewed[r]].status # "none"
    BY <1>0, ReviewedTyped, StatusStays DEF Judged
  <2> QED
    BY <1>0, <1>1, <2>1 DEF Judged, Calm
<1>2. ASSUME NEW x \in Request, NEW q \in Asked, Approve(x, q) PROVE Judged(r)'
  <2>1. CASE x # r
    BY <1>0, <1>1, <1>2, <2>1, AskFunctions DEF Approve
  <2>2. CASE x = r
    <3>1. /\ reviewed'[r] = q /\ r \notin closed' /\ ask' = ask /\ ask[q].status # "none"
          /\ body'[r] \in Approvals[Wanted[q]]
      BY <1>0, <1>2, <2>2, AskFunctions DEF Approve, Judged, Decidable
    <3>2. pc'[r] \in {"check", "answered"}
      BY <1>0, <1>2, <2>2, Functions DEF Approve, Start, Goto, Answer
    <3>3. body'[r].host = Wanted[q]
      BY <3>1, AskedAssumption
    <3> QED
      BY <3>1, <3>2, <3>3 DEF Judged
  <2> QED
    BY <2>1, <2>2
<1>3. ASSUME NEW x \in Request, MarkApproved(x) \/ MarkFails(x) PROVE Judged(r)'
  <2>1. CASE x # r
    BY <1>1, <1>3, <2>1 DEF MarkApproved, MarkFails
  <2>2. CASE x = r
    <3>1. reviewed' = reviewed /\ reviewed[r] # NoAsk /\ pc' = pc /\ body' = body
          /\ pc[r] = "answered"
      BY <1>3, <2>2 DEF MarkApproved, MarkFails, Returned, vars, local
    <3>2. ask'[reviewed[r]].status # "none"
      BY <1>0, <3>1, ReviewedTyped, StatusStays DEF Judged
    <3> QED
      BY <1>0, <3>1, <3>2 DEF Judged
  <2> QED
    BY <2>1, <2>2
<1>4. CASE Restart
  <2>1. reviewed' = reviewed /\ ask' = ask /\ body' = body /\ closed' = {x \in Request : reviewed[x] # NoAsk}
    BY <1>4 DEF Restart, Crash, local
  <2>2. pc[r] # "new" => pc'[r] = "answered"
    BY <1>0, <1>4 DEF Restart, Crash, InProgress
  <2> QED
    BY <1>0, <2>1, <2>2 DEF Judged
<1> QED
  BY <1>1, <1>2, <1>3, <1>4 DEF AskNext, allVars, asks, Submit, Read, Settle

\* A request that a step leaves alone, while calls for it only end.
LEMMA OrderlyStays ==
    ASSUME AskInv, Calm, NEW q \in Asked, q \notin doubt, ask'[q] = ask[q],
           \A r \in Request : r \in closed' /\ reviewed'[r] = q => r \in closed /\ reviewed[r] = q,
           closed' \subseteq Request,
           desk'.act = "deny" /\ desk'.q = q =>
             desk' = desk /\ (q \in Allocating' => q \in Allocating)
    PROVE  Orderly(q)'
<1>1. Granted(q) /\ Ungranted(q) /\ Reading(q)
  BY DEF AskInv, Orderly
<1>2. Granted(q)'
  BY <1>1 DEF Granted, Calm, RowsStay
<1>3. Unallocated(q) => Unallocated(q)'
  BY DEF Unallocated, AskInv, Judged, Calm
<1>4. Ungranted(q)' /\ Reading(q)'
  BY <1>1, <1>3 DEF Ungranted, Reading
<1> QED
  BY <1>2, <1>4 DEF Orderly

\* An answered approval has an address that its request may name.
LEMMA AnsweredIsGranted ==
    ASSUME AskInv, NEW r \in Request, code[r] \in {200, 201}, reviewed[r] # NoAsk
    PROVE  /\ addr[r] \in Addr /\ row[addr[r]] # NoRow
           /\ row[addr[r]].host = Wanted[reviewed[r]] \/ addr[r] \in Excused
<1>1. Chosen(r) /\ Inserting(r) /\ Named(r) /\ Judged(r)
  BY DEF AskInv, IInv, Sound
<1>2. addr[r] \in Addr /\ row[addr[r]] # NoRow
  BY <1>1 DEF Chosen, Inserting
<1>3. addr[r] \in Excused \/ HasName(addr[r], body[r].host)
  BY <1>1 DEF Named
<1> QED
  BY <1>1, <1>2, <1>3 DEF HasName, Judged

LEMMA MarkOrderly ==
    ASSUME AskInv, [AskNext]_allVars, NEW r \in Request, NEW q \in Asked, MarkApproved(r), q \notin doubt
    PROVE  Orderly(q)'
<1>0. AskTypes /\ Calm
  BY AskIsCalm DEF AskInv
<1>1. /\ reviewed' = reviewed /\ desk' = desk /\ closed' = closed \cup {r} /\ UNCHANGED <<row, edited>>
      /\ code' = code /\ Excused \subseteq Excused' /\ r \notin closed /\ reviewed[r] \in Asked
  <2>1. reviewed[r] \in Asked
    BY <1>0, ReviewedTyped DEF MarkApproved, Returned
  <2> QED
    BY <1>0, <2>1 DEF MarkApproved, Returned, vars, table, history, Calm
<1>2. CASE reviewed[r] # q
  <2>1. ask'[q] = ask[q]
    BY <1>0, <1>1, <1>2, AskFunctions DEF MarkApproved
  <2>2. Allocating' \subseteq Allocating
    BY <1>1 DEF Allocating
  <2> QED
    BY <1>0, <1>1, <1>2, <2>1, <2>2, OrderlyStays DEF AskTypes
<1>3. CASE reviewed[r] = q
  <2>1. q \in Allocating
    BY <1>0, <1>1, <1>3, AskFunctions DEF Allocating
  <2>2. Granted(q) /\ Ungranted(q) /\ ~(desk.act = "deny" /\ desk.q = q)
    BY <2>1 DEF AskInv, Orderly, Reading
  <2>3. Reading(q)'
    BY <1>1, <2>2 DEF Reading
  <2>4. CASE code[r] \in {200, 201} /\ IsThere(q)
    <3>1. ask'[q] = [status |-> "approved", ip |-> addr[r]]
      BY <1>0, <1>3, <2>4, AskFunctions DEF MarkApproved
    <3>2. /\ addr[r] \in Addr /\ row[addr[r]] # NoRow
          /\ row[addr[r]].host = Wanted[q] \/ addr[r] \in Excused
      BY <1>0, <1>3, <2>4, AskedAssumption, AnsweredIsGranted
    <3>3. Granted(q)' /\ Ungranted(q)'
      BY <1>1, <3>1, <3>2 DEF Granted, Ungranted
    <3> QED
      BY <2>3, <3>3 DEF Orderly
  <2>5. CASE ~(code[r] \in {200, 201} /\ IsThere(q))
    <3>1. ask'[q] = ask[q]
      BY <1>3, <2>5 DEF MarkApproved
    <3>2. Granted(q)'
      BY <1>1, <2>2, <3>1 DEF Granted
    <3>3. ask[q].status \in {"pending", "denied"} => code[r] # 201
      BY <2>5 DEF IsThere
    <3>4. Ungranted(q)'
      BY <1>1, <2>2, <3>1, <3>3 DEF Ungranted, Unallocated
    <3> QED
      BY <2>3, <3>2, <3>4 DEF Orderly
  <2> QED
    BY <2>4, <2>5
<1> QED
  BY <1>2, <1>3

LEMMA SettleOrderly ==
    ASSUME AskInv, [AskNext]_allVars, NEW q \in Asked, Settle, q \notin doubt
    PROVE  Orderly(q)'
<1>0. AskTypes /\ Calm /\ NoAsk \notin Asked
  BY AskIsCalm, AskedAssumption DEF AskInv
<1>1. /\ reviewed' = reviewed /\ closed' = closed /\ code' = code /\ desk' = NoDesk
      /\ UNCHANGED <<row, edited>>
  BY DEF Settle, vars, table, history
<1>2. desk'.q # q /\ desk'.act # "deny"
  BY <1>0, <1>1 DEF NoDesk
<1>3. CASE desk.q # q \/ ~IsThere(q)
  <2>1. ask'[q] = ask[q]
    BY <1>0, <1>3, AskFunctions DEF Settle
  <2> QED
    BY <1>0, <1>1, <1>2, <2>1, OrderlyStays DEF AskTypes
<1>4. CASE desk.q = q /\ IsThere(q)
  <2>1. ask'[q].status = IF desk.act = "deny" THEN "denied" ELSE "gone"
    BY <1>0, <1>4, AskFunctions DEF Settle, AskRow
  <2>2. desk.act = "deny" => Unallocated(q)
    BY <1>4 DEF AskInv, Orderly, Reading
  <2>3. Granted(q)' /\ Ungranted(q)' /\ Reading(q)'
    BY <1>1, <1>2, <2>1, <2>2 DEF Granted, Ungranted, Reading, Unallocated
  <2> QED
    BY <2>3 DEF Orderly
<1> QED
  BY <1>3, <1>4

LEMMA OrderlyNext ==
    ASSUME AskInv, [AskNext]_allVars, NEW q \in Asked
    PROVE  Orderly(q)'
<1>0. AskTypes /\ Calm /\ NoAsk \notin Asked /\ AskTypes' /\ doubt \subseteq doubt'
  <2>1. doubt \subseteq doubt'
    BY DEF AskNext, allVars, asks, Submit, Approve, MarkApproved, MarkFails, Read, Settle, Restart
  <2> QED
    BY <2>1, AskIsCalm, AskTypesNext, AskedAssumption DEF AskInv
<1> SUFFICES ASSUME q \notin doubt' PROVE Orderly(q)'
  BY DEF Orderly
<1>1. q \notin doubt /\ closed' \subseteq Request
  BY <1>0 DEF AskTypes
<1>2. Granted(q) /\ Ungranted(q) /\ Reading(q)
  BY <1>1 DEF AskInv, Orderly
<1>3. ASSUME UNCHANGED asks PROVE Orderly(q)'
  BY <1>0, <1>1, <1>3, OrderlyStays DEF asks, Allocating
<1>4. ASSUME NEW p \in Asked, Submit(p) PROVE Orderly(q)'
  <2>1. UNCHANGED <<row, code, reviewed, closed, desk>>
    BY <1>4 DEF Submit, vars, table
  <2>2. CASE p # q
    <3>1. ask'[q] = ask[q]
      BY <1>0, <1>4, <2>2, AskFunctions DEF Submit
    <3> QED
      BY <1>0, <1>1, <2>1, <3>1, OrderlyStays DEF Allocating
  <2>3. CASE p = q
    <3>1. ask[q].status = "none" /\ ask'[q].status = "pending"
      BY <1>0, <1>4, <2>3, AskFunctions DEF Submit, AskRow
    <3>2. Unallocated(q)
      BY <1>0, <3>1 DEF Unallocated, AskInv, Judged, AskTypes
    <3>3. Granted(q)' /\ Ungranted(q)'
      BY <2>1, <3>1, <3>2 DEF Granted, Ungranted, Unallocated
    <3>4. Reading(q)'
      BY <1>2, <2>1 DEF Reading, Unallocated, Allocating
    <3> QED
      BY <3>3, <3>4 DEF Orderly
  <2> QED
    BY <2>2, <2>3
<1>5. ASSUME NEW r \in Request, NEW p \in Asked, Approve(r, p) PROVE Orderly(q)'
  <2>1. UNCHANGED <<ask, closed, desk>> /\ reviewed' = [reviewed EXCEPT ![r] = p] /\ r \notin closed
    BY <1>5 DEF Approve, AskInv, Judged
  <2>2. \A x \in Request : x # r => reviewed'[x] = reviewed[x]
    BY <1>0, <2>1, AskFunctions
  <2>3. p = q => desk.q # q
    BY <1>1, <1>5 DEF Approve
  <2>4. p # q /\ q \in Allocating' => q \in Allocating
    BY <1>0, <2>1, <2>2, AskFunctions DEF Allocating
  <2>5. \A x \in Request : x \in closed' /\ reviewed'[x] = q => x \in closed /\ reviewed[x] = q
    BY <2>1, <2>2
  <2>6. desk'.act = "deny" /\ desk'.q = q => desk' = desk /\ (q \in Allocating' => q \in Allocating)
    BY <2>1, <2>3, <2>4
  <2> QED
    BY <1>0, <1>1, <2>1, <2>5, <2>6, OrderlyStays
<1>6. ASSUME NEW r \in Request, MarkFails(r) PROVE Orderly(q)'
  <2>1. /\ UNCHANGED <<ask, reviewed, desk>> /\ closed' = closed \cup {r} /\ reviewed[r] # q
    BY <1>6 DEF MarkFails
  <2>2. Allocating' \subseteq Allocating
    BY <2>1 DEF Allocating
  <2> QED
    BY <1>0, <1>1, <2>1, <2>2, OrderlyStays
<1>7. ASSUME NEW p \in Asked, NEW act \in {"deny", "delete"}, Read(act, p) PROVE Orderly(q)'
  <2>1. /\ UNCHANGED <<ask, reviewed, closed, row, code, edited>> /\ desk' = [act |-> act, q |-> p]
        /\ Excused \subseteq Excused'
    BY <1>0, <1>7 DEF Read, vars, table, history, Calm
  <2>2. act = "deny" /\ p = q => q \notin Allocating /\ Unallocated(q)
    BY <1>2, <1>7 DEF Read, Decidable, Ungranted
  <2>3. Granted(q)' /\ Ungranted(q)'
    BY <1>2, <2>1 DEF Granted, Ungranted, Unallocated
  <2>4. Reading(q)'
    BY <2>1, <2>2 DEF Reading, Unallocated, Allocating
  <2> QED
    BY <2>3, <2>4 DEF Orderly
<1>8. CASE Restart
  <2>1. /\ UNCHANGED <<ask, reviewed>> /\ desk' = NoDesk /\ q \notin Allocating
        /\ closed' = {r \in Request : reviewed[r] # NoAsk}
    BY <1>8 DEF Restart
  <2>2. \A r \in Request : reviewed[r] = q => r \in closed
    BY <1>0, <2>1 DEF Allocating
  <2>3. desk'.act # "deny"
    BY <2>1 DEF NoDesk
  <2> QED
    BY <1>0, <1>1, <2>1, <2>2, <2>3, OrderlyStays
<1> QED
  BY <1>1, <1>3, <1>4, <1>5, <1>6, <1>7, <1>8, MarkOrderly, SettleOrderly DEF AskNext, allVars

LEMMA AskInvInit == AskInit => AskInv
<1> SUFFICES ASSUME AskInit PROVE AskInv
  OBVIOUS
<1>1. IInv
  BY IInvInit DEF AskInit
<1>2. AskTypes
  BY DEF AskInit, AskTypes, AskRow, Desk, NoDesk
<1>3. ASSUME NEW r \in Request PROVE Judged(r)
  BY DEF AskInit, Judged
<1>4. ASSUME NEW q \in Asked PROVE Orderly(q)
  <2>1. ask[q].status = "none" /\ desk.act = "none"
    BY DEF AskInit, NoDesk
  <2> QED
    BY <2>1 DEF Orderly, Granted, Ungranted, Reading
<1> QED
  BY <1>1, <1>2, <1>3, <1>4 DEF AskInv

LEMMA AskInvNext ==
    ASSUME AskInv, [AskNext]_allVars
    PROVE  AskInv'
<1>1. IInv'
  BY AskIsCalm DEF AskInv
<1> QED
  BY <1>1, AskTypesNext, JudgedNext, OrderlyNext DEF AskInv

LEMMA AskInvHolds == AskSpec => []AskInv
BY AskInvInit, AskInvNext, PTL DEF AskSpec

LEMMA AskInvImplies ==
    AskInv => /\ TypeOK /\ SharedOnlyByTakeover /\ RowsAreRegistered
              /\ NoOrphanRecord /\ RepeatIsIdempotent /\ RequestsMatchTable
<1> SUFFICES ASSUME AskInv
             PROVE  /\ TypeOK /\ SharedOnlyByTakeover /\ RowsAreRegistered
                    /\ NoOrphanRecord /\ RepeatIsIdempotent /\ RequestsMatchTable
  OBVIOUS
<1>1. TypeOK /\ SharedOnlyByTakeover /\ RowsAreRegistered /\ NoOrphanRecord /\ RepeatIsIdempotent
  BY IInvImplies DEF AskInv, IInv
<1>2. \A q \in Asked \ doubt : Granted(q) /\ Ungranted(q)
  BY DEF AskInv, Orderly
<1>3. RequestsMatchTable
  BY <1>2 DEF RequestsMatchTable, Granted, Ungranted, Unallocated, Excused
<1> QED
  BY <1>1, <1>3

-----------------------------------------------------------------------------
(* The theorems.                                                           *)

\* The workflow and the table agree, for every interleaving of approvals,
\* denials, deletions, direct allocations, edits, faults and restarts: an
\* approved request names an address that has its hostname, and a pending or
\* denied one was allocated nothing, unless its decisions overlapped.
THEOREM WorkflowMatchesTable == AskSpec => []RequestsMatchTable
BY AskInvHolds, AskInvImplies, PTL

\* What allocations promise alone they promise under the workflow.
THEOREM AllocationsUnderWorkflow ==
    AskSpec => [](TypeOK /\ SharedOnlyByTakeover /\ NoOrphanRecord
                  /\ RowsAreRegistered /\ RepeatIsIdempotent)
BY AskInvHolds, AskInvImplies, PTL

=============================================================================
