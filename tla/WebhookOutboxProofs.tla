------------------------- MODULE WebhookOutboxProofs -------------------------
(***************************************************************************)
(* Proofs about WebhookOutbox, for every set of endpoints, rows and        *)
(* requests, every filter, backoff schedule, timeout and bound.            *)
(*                                                                         *)
(* The inductive invariant says of a row in the dispatcher's hands what    *)
(* its POST has established, and of every stored row that its foreign key  *)
(* holds and that its attempts were really made.  On top of it stand that  *)
(* a row is posted again only with an excuse, and that the outbox          *)
(* implements its contract.                                                *)
(***************************************************************************)
EXTENDS WebhookOutbox, TLAPS

-----------------------------------------------------------------------------
(* The inductive invariant.                                                *)

\* While a row is in hand it is a row, and an outcome has an answer behind it.
HandIsRow ==
    /\ pc \in {"lookup", "post", "write"} => cur \in Delivery
    /\ pc = "write" => answer # "none"

\* The row in hand was taken from the table and is not in the batch any more.
HandIsTaken ==
    pc \in {"lookup", "post", "write"} => status[cur] # "none" /\ cur \notin batch

\* What the answer to the POST of the row in hand stands for.
AnswerIsTrue ==
    pc = "write" =>
        /\ answer = "ok" => received[cur] > 0
        /\ answer = "no endpoint" => epState[dest[cur]] = "deleted"

\* The endpoint of every stored row is stored (endpoint_id is a foreign key
\* with ON DELETE CASCADE).
KeysAreValid == \A d \in Existing : dest[d] \in Present

\* Every attempt counted was an offer made.
Offered(d, n) == posts[d] = MaxAttempts \/ n <= posts[d]
AttemptsAreOffers ==
    /\ \A d \in Delivery : Offered(d, attempts[d])
    /\ pc \in {"lookup", "post", "write"} => Offered(cur, loaded.attempts)
    /\ pc = "write" /\ answer = "error" => Offered(cur, loaded.attempts + 1)

Typed == TypeOK /\ HandIsRow
Safe ==
    /\ HandIsTaken
    /\ AnswerIsTrue
    /\ KeysAreValid
    /\ AttemptsAreOffers
    /\ DeliveredWasReceived
    /\ DeadWasOffered
    /\ InHandIsOwed
IInv == Typed /\ Safe

-----------------------------------------------------------------------------
(* The helpers the actions are built from.                                 *)

\* What a request in progress carries, by its kind.
LEMMA RequestFields ==
    ASSUME NEW r \in Requests
    PROVE  /\ r.op \notin {"idle", "failed"} => r.to \in SUBSET Endpoint
           /\ r.op = "update" => /\ r.ep \in Endpoint
                                 /\ r.set \in {"on", "off"}
                                 /\ r.was \in {"on", "off"}
                                 /\ r.filter \in Filters
           /\ r.op = "delete" => r.ep \in Endpoint
           /\ r.op = "redeliver" => /\ r.row \in Delivery
                                    /\ r.status \in Statuses
                                    /\ r.attempts \in Nat
           /\ r.op = "remove" => r.row \in Delivery
  BY DEF Requests, Idle

\* A table of the shape Enqueue expects.
TableType == [status : [Delivery -> Statuses], attempts : [Delivery -> Nat],
              age : [Delivery -> Int], old : SUBSET Delivery]

\* Enqueue adds pending rows under ids nobody has used, each addressed to one
\* of the endpoints given, and leaves the other rows as the table has them.
LEMMA EnqueueEffect ==
    ASSUME NEW STATE to, NEW STATE table,
           to \in SUBSET Endpoint, table \in TableType,
           dest \in [Delivery -> Endpoint],
           Enqueue(to, table)
    PROVE  \E new \in SUBSET Delivery :
              /\ \A d \in new : status[d] = "none" /\ dest'[d] \in to
              /\ status' = [d \in Delivery |->
                              IF d \in new THEN "pending" ELSE table.status[d]]
              /\ attempts' = table.attempts
              /\ age' = table.age
              /\ dest' \in [Delivery -> Endpoint]
              /\ \A d \in Delivery \ new : dest'[d] = dest[d]
              /\ old' = table.old
<1>1. PICK id \in Injection(to, {d \in Delivery : status[d] = "none"}) :
         LET new == {id[e] : e \in to} IN
         /\ status' = [d \in Delivery |->
                         IF d \in new THEN "pending" ELSE table.status[d]]
         /\ attempts' = table.attempts
         /\ age' = table.age
         /\ dest' = [d \in Delivery |->
                       IF d \in new THEN CHOOSE e \in to : id[e] = d ELSE dest[d]]
         /\ old' = table.old
  BY DEF Enqueue
<1> DEFINE new == {id[e] : e \in to}
<1>2. id \in [to -> {d \in Delivery : status[d] = "none"}]
  BY DEF Injection
<1>3. new \in SUBSET Delivery /\ \A d \in new : status[d] = "none"
  BY <1>2
<1>4. \A d \in new : (CHOOSE e \in to : id[e] = d) \in to
  OBVIOUS
<1>5. \A d \in new : dest'[d] \in to
  BY <1>1, <1>3, <1>4
<1>6. dest' \in [Delivery -> Endpoint]
  BY <1>1, <1>4
<1>7. \A d \in Delivery \ new : dest'[d] = dest[d]
  BY <1>1
<1> QED
  BY <1>1, <1>3, <1>5, <1>6, <1>7

\* The tables the requests commit have that shape.
LEMMA TableTypes ==
    ASSUME TypeOK
    PROVE  /\ Table \in TableType
           /\ \A D \in SUBSET Delivery : Deleted(D) \in TableType
<1>1. Table \in TableType
  BY DEF TypeOK, Table, TableType
<1>2. ASSUME NEW D \in SUBSET Delivery
      PROVE  Deleted(D) \in TableType
  <2> DEFINE st == [d \in Delivery |-> IF d \in D THEN "gone" ELSE status[d]]
             at == [d \in Delivery |-> IF d \in D THEN 0 ELSE attempts[d]]
             ag == [d \in Delivery |-> IF d \in D THEN 0 ELSE age[d]]
  <2>1. st \in [Delivery -> Statuses]
    BY DEF TypeOK, Statuses
  <2>2. at \in [Delivery -> Nat]
    BY DEF TypeOK
  <2>3. ag \in [Delivery -> Int]
    <3>1. age \in [Delivery -> Int]
      BY DEF TypeOK
    <3> QED
      BY <3>1
  <2>4. old \ D \in SUBSET Delivery
    BY DEF TypeOK
  <2>5. Deleted(D) = [status |-> st, attempts |-> at, age |-> ag, old |-> old \ D]
    BY DEF Deleted
  <2> HIDE DEF st, at, ag
  <2> QED
    BY <2>1, <2>2, <2>3, <2>4, <2>5 DEF TableType
<1> QED
  BY <1>1, <1>2


\* So has the table a redelivery commits.
LEMMA RequeuedType ==
    ASSUME TypeOK, NEW d \in Delivery, NEW was, NEW made
    PROVE  Requeued(d, was, made) \in TableType
<1> DEFINE st == [status EXCEPT ![d] = Flushed(was, "pending", @)]
           at == [attempts EXCEPT ![d] = Flushed(made, 0, @)]
           ag == [age EXCEPT ![d] = 0]
<1>1. st \in [Delivery -> Statuses]
  BY DEF TypeOK, Statuses, Flushed
<1>2. at \in [Delivery -> Nat]
  BY DEF TypeOK, Flushed
<1>3. ag \in [Delivery -> Int]
  <2>1. age \in [Delivery -> Int]
    BY DEF TypeOK
  <2> QED
    BY <2>1
<1>4. old \in SUBSET Delivery
  BY DEF TypeOK
<1>5. Requeued(d, was, made) = [status |-> st, attempts |-> at, age |-> ag, old |-> old]
  BY DEF Requeued
<1> HIDE DEF st, at, ag
<1> QED
  BY <1>1, <1>2, <1>3, <1>4, <1>5 DEF TableType

\* Well-typed delivery rows.
RowsTyped ==
    /\ status \in [Delivery -> Statuses]
    /\ attempts \in [Delivery -> Nat]
    /\ age \in [Delivery -> Int]
    /\ dest \in [Delivery -> Endpoint]
    /\ old \in SUBSET Delivery

\* Committing a table of that shape leaves the rows well typed.
LEMMA EnqueueTypes ==
    ASSUME NEW STATE to, NEW STATE table,
           to \in SUBSET Endpoint, table \in TableType,
           dest \in [Delivery -> Endpoint],
           Enqueue(to, table)
    PROVE  RowsTyped'
<1>1. PICK new \in SUBSET Delivery :
         /\ status' = [d \in Delivery |->
                         IF d \in new THEN "pending" ELSE table.status[d]]
         /\ attempts' = table.attempts
         /\ age' = table.age
         /\ dest' \in [Delivery -> Endpoint]
         /\ old' = table.old
  BY EnqueueEffect
<1>2. /\ table.status \in [Delivery -> Statuses]
      /\ table.attempts \in [Delivery -> Nat]
      /\ table.age \in [Delivery -> Int]
      /\ table.old \in SUBSET Delivery
  BY DEF TableType
<1>3. status' \in [Delivery -> Statuses]
  BY <1>1, <1>2 DEF Statuses
<1> QED
  BY <1>1, <1>2, <1>3 DEF RowsTyped

-----------------------------------------------------------------------------
(* Type correctness.                                                       *)

\* The initial tables are well typed (one of the endpoint ids stands in for
\* the endpoint_id of rows that do not exist).
LEMMA TypedInit == Init => Typed
<1> SUFFICES ASSUME Init PROVE Typed
  OBVIOUS
<1>1. (CHOOSE e \in Endpoint : TRUE) \in Endpoint
  BY IdsAssumption
<1>2. dest \in [Delivery -> Endpoint]
  BY <1>1 DEF Init
<1>3. session \in [Session -> Requests]
  BY DEF Init, Requests
<1>4. TypeOK
  BY <1>2, <1>3, BackoffAssumption, LimitsAssumption DEF Init, TypeOK, NotLoaded, Statuses
<1> QED
  BY <1>4 DEF Init, Typed, HandIsRow

\* The requests: what they read is well typed, and so is what they commit.
LEMMA TypedRequest ==
    ASSUME Typed, NEW s \in Session, Request(s)
    PROVE  Typed'
<1> USE DEF Typed
<1>r. session[s] \in Requests
  BY DEF TypeOK
<1>t. /\ Table \in TableType
      /\ \A D \in SUBSET Delivery : Deleted(D) \in TableType
  BY TableTypes
<1>g. \A k : Targets(k) \in SUBSET Endpoint
  BY DEF Targets
<1>1. CASE BeginWrite(s)
  <2>1. PICK kind \in WriteKind : Begin(s, [op |-> "write", to |-> Targets(kind)])
    BY <1>1 DEF BeginWrite
  <2>2. [op |-> "write", to |-> Targets(kind)] \in Requests
    BY <1>g DEF Requests
  <2> QED
    BY <1>1, <2>1, <2>2 DEF BeginWrite, Begin, TypeOK, HandIsRow, endpoints, rows,
                            dispatcher, history, bounds
<1>2. CASE CommitWrite(s)
  <2>1. session[s].to \in SUBSET Endpoint /\ Enqueue(session[s].to, Table)
    BY <1>2, <1>r, RequestFields DEF CommitWrite, Committing
  <2>2. RowsTyped'
    BY <2>1, <1>t, EnqueueTypes DEF TypeOK
  <2>3. session' \in [Session -> Requests]
    BY <1>2 DEF CommitWrite, Committing, TypeOK, Requests
  <2> QED
    BY <1>2, <2>2, <2>3 DEF CommitWrite, Committing, TypeOK, HandIsRow, RowsTyped,
                            endpoints, dispatcher, history, bounds
<1>3. CASE CreateEndpoint(s)
  <2>1. PICK e \in Endpoint, on \in {"on", "off"}, filter \in Filters :
          LET self == IF on = "on" /\ EndpointKind \in filter THEN {e} ELSE {} IN
          /\ epState' = [epState EXCEPT ![e] = on]
          /\ wants' = [wants EXCEPT ![e] = filter]
          /\ Enqueue(Targets(EndpointKind) \cup self, Table)
    BY <1>3 DEF CreateEndpoint
  <2> DEFINE self == IF on = "on" /\ EndpointKind \in filter THEN {e} ELSE {}
  <2>2. Targets(EndpointKind) \cup self \in SUBSET Endpoint
    BY <1>g
  <2>3. RowsTyped'
    BY <2>1, <2>2, <1>t, EnqueueTypes DEF TypeOK
  <2> QED
    BY <1>3, <2>1, <2>3 DEF CreateEndpoint, TypeOK, HandIsRow, RowsTyped,
                            dispatcher, history, bounds
<1>4. CASE BeginUpdate(s)
  <2>1. PICK e \in Present, on \in {"on", "off"}, filter \in Filters :
          Begin(s, [op |-> "update", ep |-> e, set |-> on, was |-> epState[e],
                    filter |-> filter,
                    to |-> (Targets(EndpointKind) \ {e}) \cup
                           (IF epState[e] = "on" /\ EndpointKind \in filter
                            THEN {e} ELSE {})])
    BY <1>4 DEF BeginUpdate
  <2> DEFINE to == (Targets(EndpointKind) \ {e}) \cup
                   (IF epState[e] = "on" /\ EndpointKind \in filter THEN {e} ELSE {})
  <2>2. e \in Endpoint /\ epState[e] \in {"on", "off"} /\ to \in SUBSET Endpoint
    BY <1>g DEF Present
  <2> HIDE DEF to
  <2>3. [op |-> "update", ep |-> e, set |-> on, was |-> epState[e],
         filter |-> filter, to |-> to] \in Requests
    BY <2>2 DEF Requests
  <2>4. session' \in [Session -> Requests]
    BY <2>1, <2>3 DEF Begin, TypeOK, to
  <2> QED
    BY <1>4, <2>1, <2>4 DEF BeginUpdate, Begin, TypeOK, HandIsRow, endpoints, rows,
                            dispatcher, history, bounds
<1>5. CASE CommitUpdate(s)
  <2>1. /\ session[s].to \in SUBSET Endpoint
        /\ session[s].ep \in Endpoint
        /\ session[s].set \in {"on", "off"}
        /\ session[s].filter \in Filters
    BY <1>5, <1>r, RequestFields DEF CommitUpdate, Committing
  <2>2. session' \in [Session -> Requests]
    BY <1>5 DEF CommitUpdate, Committing, TypeOK, Requests
  <2>3. CASE session[s].ep \in Present
    <3>1. Enqueue(session[s].to, Table)
      BY <1>5, <2>3 DEF CommitUpdate
    <3>2. RowsTyped'
      BY <2>1, <3>1, <1>t, EnqueueTypes DEF TypeOK
    <3>3. /\ epState' \in [Endpoint -> {"unused", "on", "off", "deleted"}]
          /\ wants' \in [Endpoint -> Filters]
      BY <1>5, <2>1, <2>3 DEF CommitUpdate, Flushed, TypeOK
    <3> QED
      BY <1>5, <2>2, <3>2, <3>3 DEF CommitUpdate, Committing, TypeOK, HandIsRow,
                                    RowsTyped, dispatcher, history, bounds
  <2>4. CASE session[s].ep \notin Present
    BY <1>5, <2>2, <2>4 DEF CommitUpdate, Committing, TypeOK, HandIsRow, endpoints,
                            rows, dispatcher, history, bounds
  <2> QED
    BY <2>3, <2>4
<1>6. CASE BeginDelete(s)
  <2>1. PICK e \in Present :
          Begin(s, [op |-> "delete", ep |-> e, to |-> Targets(EndpointKind)])
    BY <1>6 DEF BeginDelete
  <2>2. [op |-> "delete", ep |-> e, to |-> Targets(EndpointKind)] \in Requests
    BY <1>g DEF Requests, Present
  <2> QED
    BY <1>6, <2>1, <2>2 DEF BeginDelete, Begin, TypeOK, HandIsRow, endpoints, rows,
                            dispatcher, history, bounds
<1>7. CASE CommitDelete(s)
  <2> DEFINE cascaded == {d \in Existing : dest[d] = session[s].ep}
  <2>1. /\ session[s].to \ {session[s].ep} \in SUBSET Endpoint
        /\ session[s].ep \in Endpoint
    BY <1>7, <1>r, RequestFields DEF CommitDelete, Committing
  <2>2. cascaded \in SUBSET Delivery
    BY DEF Existing
  <2>3. Enqueue(session[s].to \ {session[s].ep}, Deleted(cascaded))
    BY <1>7 DEF CommitDelete
  <2>4. RowsTyped'
    BY <2>1, <2>2, <2>3, <1>t, EnqueueTypes DEF TypeOK
  <2>5. session' \in [Session -> Requests]
    BY <1>7 DEF CommitDelete, Committing, TypeOK, Requests
  <2> QED
    BY <1>7, <2>1, <2>4, <2>5 DEF CommitDelete, Committing, TypeOK, HandIsRow,
                                  RowsTyped, dispatcher, history, bounds
<1>8. CASE BeginRedeliver(s)
  <2>1. PICK d \in Existing :
          Begin(s, [op |-> "redeliver", row |-> d, status |-> status[d],
                    attempts |-> attempts[d], to |-> Targets(DeliveryKind)])
    BY <1>8 DEF BeginRedeliver
  <2>2. [op |-> "redeliver", row |-> d, status |-> status[d],
         attempts |-> attempts[d], to |-> Targets(DeliveryKind)] \in Requests
    BY <1>g DEF Requests, Existing, TypeOK
  <2>3. redeliveries' \in 0..MaxRedeliver
    <3>1. redeliveries \in 0..MaxRedeliver
      BY DEF TypeOK
    <3>2. redeliveries < MaxRedeliver /\ redeliveries' = redeliveries + 1
      BY <1>8 DEF BeginRedeliver
    <3> QED
      BY <3>1, <3>2, LimitsAssumption
  <2> QED
    BY <1>8, <2>1, <2>2, <2>3 DEF BeginRedeliver, Begin, TypeOK, HandIsRow, endpoints,
                                  rows, dispatcher, history
<1>9. CASE CommitRedeliver(s)
  <2> DEFINE r == session[s]
             table == Requeued(r.row, r.status, r.attempts)
  <2>1. r.to \in SUBSET Endpoint /\ r.row \in Delivery
    BY <1>9, <1>r, RequestFields DEF CommitRedeliver, Committing
  <2>2. session' \in [Session -> Requests]
    BY <1>9 DEF CommitRedeliver, Committing, TypeOK, Requests
  <2>3. CASE r.row \in Existing
    <3>1. Enqueue(r.to, table)
      BY <1>9, <2>3 DEF CommitRedeliver
    <3>2. table \in TableType
      BY <2>1, RequeuedType
    <3>3. RowsTyped'
      BY <2>1, <3>1, <3>2, EnqueueTypes DEF TypeOK
    <3>4. excused' \subseteq Delivery
      BY <1>9, <2>1, <2>3 DEF CommitRedeliver, TypeOK
    <3> QED
      BY <1>9, <2>2, <3>3, <3>4 DEF CommitRedeliver, Committing, TypeOK, HandIsRow,
                                    RowsTyped, endpoints, dispatcher, bounds
  <2>4. CASE r.row \notin Existing
    BY <1>9, <2>2, <2>4 DEF CommitRedeliver, Committing, TypeOK, HandIsRow, endpoints,
                            rows, dispatcher, bounds
  <2> QED
    BY <2>3, <2>4
<1>10. CASE BeginRemove(s)
  <2>1. PICK d \in Existing :
          Begin(s, [op |-> "remove", row |-> d, to |-> Targets(DeliveryKind)])
    BY <1>10 DEF BeginRemove
  <2>2. [op |-> "remove", row |-> d, to |-> Targets(DeliveryKind)] \in Requests
    BY <1>g DEF Requests, Existing
  <2> QED
    BY <1>10, <2>1, <2>2 DEF BeginRemove, Begin, TypeOK, HandIsRow, endpoints, rows,
                             dispatcher, history, bounds
<1>11. CASE CommitRemove(s)
  <2>1. /\ session[s].to \in SUBSET Endpoint
        /\ session[s].row \in Delivery
        /\ Enqueue(session[s].to, Deleted({session[s].row}))
    BY <1>11, <1>r, RequestFields DEF CommitRemove, Committing
  <2>2. RowsTyped'
    BY <2>1, <1>t, EnqueueTypes DEF TypeOK
  <2>3. session' \in [Session -> Requests]
    BY <1>11 DEF CommitRemove, Committing, TypeOK, Requests
  <2> QED
    BY <1>11, <2>2, <2>3 DEF CommitRemove, Committing, TypeOK, HandIsRow, RowsTyped,
                             endpoints, dispatcher, history, bounds
<1>12. CASE KeyViolation(s)
  BY <1>12 DEF KeyViolation, TypeOK, HandIsRow, Requests, endpoints, rows, dispatcher,
               history, bounds
<1>13. CASE Return(s)
  BY <1>13 DEF Return, TypeOK, HandIsRow, Requests, endpoints, rows, dispatcher,
               history, bounds
<1> QED
  BY <1>1, <1>2, <1>3, <1>4, <1>5, <1>6, <1>7, <1>8, <1>9, <1>10, <1>11, <1>12, <1>13
     DEF Request

\* An aborted tick leaves the dispatcher with nothing in hand.
LEMMA LetGoTypes ==
    ASSUME LetGo
    PROVE  /\ cur' \in Delivery \cup {NoDelivery}
           /\ loaded' \in [status : Statuses, attempts : Nat]
           /\ answer' = "none"
  BY DEF LetGo, NotLoaded, Statuses

\* The dispatcher.  The row an outcome is committed for is the one in hand.
LEMMA TypedDispatch ==
    ASSUME Typed, Dispatch
    PROVE  Typed'
<1> USE DEF Typed
<1>1. CASE RecoverStale
  <2>1. status' \in [Delivery -> Statuses]
    BY <1>1 DEF RecoverStale, TypeOK, Statuses
  <2> QED
    BY <1>1, <2>1 DEF RecoverStale, TypeOK, HandIsRow, endpoints, history, bounds
<1>2. CASE SelectBatch
  BY <1>2 DEF SelectBatch, Due, TypeOK, HandIsRow, endpoints, rows, history, bounds
<1>3. CASE CommitClaim
  <2>1. status' \in [Delivery -> Statuses]
    BY <1>3 DEF CommitClaim, TypeOK, Statuses
  <2>2. CASE batch \subseteq Existing
    BY <1>3, <2>1, <2>2 DEF CommitClaim, TypeOK, HandIsRow, endpoints, history, bounds
  <2>3. CASE ~(batch \subseteq Existing)
    BY <1>3, <2>1, <2>3, LetGoTypes DEF CommitClaim, Abort, TypeOK, HandIsRow,
                                        endpoints, history, bounds
  <2> QED
    BY <2>2, <2>3
<1>4. CASE RefreshRow
  <2>1. PICK d \in batch :
          IF d \in Existing
          THEN /\ cur' = d
               /\ batch' = batch \ {d}
               /\ loaded' = [status |-> status[d], attempts |-> attempts[d]]
               /\ pc' = "lookup"
               /\ UNCHANGED answer
          ELSE Abort
    BY <1>4 DEF RefreshRow
  <2>2. CASE d \in Existing
    <3>1. d \in Delivery
      BY DEF TypeOK
    <3>2. loaded' \in [status : Statuses, attempts : Nat]
      <4>1. status[d] \in Statuses /\ attempts[d] \in Nat
        BY <3>1 DEF TypeOK
      <4> QED
        BY <2>1, <2>2, <4>1
    <3> QED
      BY <1>4, <2>1, <2>2, <3>1, <3>2 DEF RefreshRow, TypeOK, HandIsRow, endpoints,
                                          rows, history, bounds
  <2>3. CASE d \notin Existing
    BY <1>4, <2>1, <2>3, LetGoTypes DEF RefreshRow, Abort, TypeOK, HandIsRow,
                                        endpoints, rows, history, bounds
  <2> QED
    BY <2>2, <2>3
<1>5. CASE LookupEndpoint
  BY <1>5 DEF LookupEndpoint, TypeOK, HandIsRow, endpoints, rows, history, bounds
<1>6. CASE PostRow
  <2>1. cur \in Delivery
    BY <1>6 DEF PostRow, HandIsRow
  <2>2. posts' \in [Delivery -> 0..MaxAttempts]
    <3>1. posts \in [Delivery -> 0..MaxAttempts]
      BY DEF TypeOK
    <3>2. posts' = [posts EXCEPT ![cur] = IF @ < MaxAttempts THEN @ + 1 ELSE @]
      BY <1>6 DEF PostRow
    <3> QED
      BY <2>1, <3>1, <3>2, BackoffAssumption
  <2>3. received' \in [Delivery -> 0..2]
    <3>1. received \in [Delivery -> 0..2]
      BY DEF TypeOK
    <3>2. received' \in {received, [received EXCEPT ![cur] = IF @ < 2 THEN @ + 1 ELSE @]}
      BY <1>6 DEF PostRow, Receive
    <3> QED
      BY <2>1, <3>1, <3>2
  <2>4. excused' \subseteq Delivery
    BY <1>6, <2>1 DEF PostRow, TypeOK
  <2> QED
    BY <1>6, <2>1, <2>2, <2>3, <2>4 DEF PostRow, TypeOK, HandIsRow, endpoints, rows,
                                        bounds
<1>7. CASE CommitOutcome
  <2>1. cur \in Delivery
    BY <1>7 DEF CommitOutcome, HandIsRow
  <2>2. CASE cur \in Existing
    <3>1. NextStatus \in Statuses
      BY <1>7 DEF CommitOutcome, NextStatus, Statuses, TypeOK, HandIsRow
    <3>2. status' \in [Delivery -> Statuses]
      BY <1>7, <2>2, <3>1 DEF CommitOutcome, Flushed, TypeOK
    <3>3. attempts' \in [Delivery -> Nat]
      <4>1. attempts \in [Delivery -> Nat] /\ loaded.attempts \in Nat
        BY DEF TypeOK
      <4> QED
        BY <1>7, <2>2, <4>1 DEF CommitOutcome
    <3>4. age' \in [Delivery -> Int]
      <4>1. age \in [Delivery -> Int] /\ loaded.attempts \in Nat
        BY DEF TypeOK
      <4>2. CASE answer = "error" /\ ~Exhausted
        <5>1. loaded.attempts + 1 \in 1..Len(Backoff)
          BY <4>1, <4>2, BackoffAssumption DEF Exhausted
        <5>2. -Backoff[loaded.attempts + 1] \in Int
          BY <5>1, BackoffAssumption
        <5> QED
          BY <1>7, <2>2, <4>1, <4>2, <5>2 DEF CommitOutcome
      <4>3. CASE ~(answer = "error" /\ ~Exhausted)
        BY <1>7, <2>2, <4>1, <4>3 DEF CommitOutcome
      <4> QED
        BY <4>2, <4>3
    <3> QED
      BY <1>7, <2>2, <3>2, <3>3, <3>4, LetGoTypes DEF CommitOutcome, TypeOK, HandIsRow,
                                                      endpoints, history, bounds
  <2>3. CASE cur \notin Existing
    BY <1>7, <2>3, LetGoTypes DEF CommitOutcome, Abort, TypeOK, HandIsRow, endpoints,
                                  history, bounds
  <2> QED
    BY <2>2, <2>3
<1>8. CASE EndBatch
  BY <1>8 DEF EndBatch, TypeOK, HandIsRow, endpoints, rows, history, bounds
<1>9. CASE PurgeDelivered
  <2> DEFINE purged == {d \in old : status[d] = "delivered"}
  <2>1. CASE /\ status' = Deleted(purged).status
             /\ attempts' = Deleted(purged).attempts
             /\ old' = old \ purged
    <3>1. purged \in SUBSET Delivery
      BY DEF TypeOK
    <3>2. Deleted(purged) \in TableType
      BY <3>1, TableTypes
    <3>3. status' \in [Delivery -> Statuses] /\ attempts' \in [Delivery -> Nat]
      BY <2>1, <3>2 DEF TableType
    <3> QED
      BY <1>9, <2>1, <3>3 DEF PurgeDelivered, TypeOK, HandIsRow, endpoints, history, bounds
  <2>2. CASE UNCHANGED <<status, attempts, old>>
    BY <1>9, <2>2 DEF PurgeDelivered, TypeOK, HandIsRow, endpoints, history, bounds
  <2> QED
    BY <1>9, <2>1, <2>2 DEF PurgeDelivered
<1> QED
  BY <1>1, <1>2, <1>3, <1>4, <1>5, <1>6, <1>7, <1>8, <1>9 DEF Dispatch

\* Every step of the system keeps its state well typed.
LEMMA TypedNext == Typed /\ [Next]_vars => Typed'
<1> SUFFICES ASSUME Typed, [Next]_vars PROVE Typed'
  OBVIOUS
<1> USE DEF Typed
<1>1. CASE \E s \in Session : Request(s)
  BY <1>1, TypedRequest
<1>2. CASE Dispatch
  BY <1>2, TypedDispatch
<1>3. CASE Tick
  <2>1. age \in [Delivery -> Int]
    BY DEF TypeOK
  <2>2. age' \in [Delivery -> Int]
    BY <1>3, <2>1 DEF Tick
  <2> QED
    BY <1>3, <2>2 DEF Tick, TypeOK, HandIsRow, endpoints, dispatcher, history, bounds
<1>4. CASE RetentionPasses
  <2>1. age \in [Delivery -> Int]
    BY DEF TypeOK
  <2>2. age' \in [Delivery -> Int]
    BY <1>4, <2>1, LimitsAssumption DEF RetentionPasses
  <2> QED
    BY <1>4, <2>2 DEF RetentionPasses, Existing, TypeOK, HandIsRow, endpoints,
                      dispatcher, history, bounds
<1>5. CASE Crash
  <2>1. crashes' \in 0..MaxCrashes
    <3>1. crashes \in 0..MaxCrashes
      BY DEF TypeOK
    <3>2. crashes < MaxCrashes /\ crashes' = crashes + 1
      BY <1>5 DEF Crash
    <3> QED
      BY <3>1, <3>2, LimitsAssumption
  <2>2. session' \in [Session -> Requests]
    BY <1>5 DEF Crash, Requests
  <2>3. excused' \subseteq Delivery
    BY <1>5 DEF Crash, TypeOK, HandIsRow
  <2> QED
    BY <1>5, <2>1, <2>2, <2>3, LetGoTypes DEF Crash, Abort, TypeOK, HandIsRow,
                                              endpoints, rows
<1>6. CASE UNCHANGED vars
  BY <1>6 DEF vars, TypeOK, HandIsRow, endpoints, rows, dispatcher, history, bounds
<1> QED
  BY <1>1, <1>2, <1>3, <1>4, <1>5, <1>6 DEF Next

\* Type correctness: the tables hold rows the schema allows, and the
\* dispatcher's locals, whatever aborted, crashed or was deleted under them,
\* the values its code can handle.
THEOREM TypeCorrect == Spec => []TypeOK
<1>1. Typed => TypeOK
  BY DEF Typed
<1> QED
  BY <1>1, TypedInit, TypedNext, PTL DEF Spec

-----------------------------------------------------------------------------
(* Safety of requests.                                                     *)

\* A step that moves rows only to "pending" or "gone", takes back attempts or
\* none, keeps the endpoint of every row that exists and brings no endpoint
\* back, leaves the invariant alone but for the foreign key.
Administers ==
    /\ \A d \in Delivery : /\ status'[d] \in {status[d], "pending", "gone"}
                           /\ attempts'[d] \in {attempts[d], 0}
                           /\ status[d] # "none" => dest'[d] = dest[d]
    /\ \A e \in Endpoint : epState[e] = "deleted" => epState'[e] = "deleted"
    /\ UNCHANGED <<pc, batch, cur, loaded, answer, posts, received>>

\* Such a step keeps the invariant once the keys are known to hold.
LEMMA AdministersSafely ==
    ASSUME IInv, Administers, KeysAreValid'
    PROVE  Safe'
<1> USE DEF IInv, Typed, Safe
<1>1. HandIsTaken'
  BY DEF Administers, HandIsTaken, HandIsRow
<1>2. AnswerIsTrue'
  BY DEF Administers, AnswerIsTrue, HandIsTaken, HandIsRow, TypeOK
<1>3. AttemptsAreOffers'
  <2>1. posts \in [Delivery -> 0..MaxAttempts]
    BY DEF TypeOK
  <2>2. \A d \in Delivery : Offered(d, attempts[d])'
    BY <2>1, BackoffAssumption DEF Administers, AttemptsAreOffers, Offered
  <2> QED
    BY <2>2 DEF Administers, AttemptsAreOffers, Offered
<1>4. DeliveredWasReceived'
  BY DEF Administers, DeliveredWasReceived
<1>5. DeadWasOffered'
  BY DEF Administers, DeadWasOffered
<1>6. InHandIsOwed'
  BY DEF Administers, InHandIsOwed, TypeOK
<1> QED
  BY <1>1, <1>2, <1>3, <1>4, <1>5, <1>6

\* A commit that enqueues such a table, for endpoints that are still there,
\* and drops the rows of one that is not.
LEMMA EnqueueSafely ==
    ASSUME IInv,
           NEW STATE to, NEW STATE table,
           to \in SUBSET Endpoint, table \in TableType,
           Enqueue(to, table),
           \A d \in Delivery : /\ table.status[d] \in {status[d], "pending", "gone"}
                               /\ table.attempts[d] \in {attempts[d], 0},
           \A d \in Delivery : table.status[d] \notin {"none", "gone"} =>
                                   d \in Existing /\ dest[d] \in Present',
           to \subseteq Present',
           \A e \in Endpoint : epState[e] = "deleted" => epState'[e] = "deleted",
           UNCHANGED <<pc, batch, cur, loaded, answer, posts, received>>
    PROVE  Safe'
<1>0. dest \in [Delivery -> Endpoint]
  BY DEF IInv, Typed, TypeOK
<1>1. PICK new \in SUBSET Delivery :
              /\ \A d \in new : status[d] = "none" /\ dest'[d] \in to
              /\ status' = [d \in Delivery |->
                              IF d \in new THEN "pending" ELSE table.status[d]]
              /\ attempts' = table.attempts
              /\ dest' \in [Delivery -> Endpoint]
              /\ \A d \in Delivery \ new : dest'[d] = dest[d]
  BY <1>0, EnqueueEffect
<1>2. Administers
  BY <1>1 DEF Administers
<1>3. ASSUME NEW d \in Existing'
      PROVE  dest'[d] \in Present'
  BY <1>1, <1>3 DEF Existing
<1>4. KeysAreValid'
  BY <1>3 DEF KeysAreValid
<1> QED
  BY <1>2, <1>4, AdministersSafely

\* A step that leaves rows, endpoints and dispatcher alone.
LEMMA SafeUnchanged ==
    ASSUME IInv, UNCHANGED <<endpoints, rows, dispatcher, posts, received>>
    PROVE  Safe'
<1>1. Administers
  BY DEF Administers, endpoints, rows, dispatcher
<1>2. KeysAreValid'
  BY DEF IInv, Safe, KeysAreValid, Existing, Present, endpoints, rows
<1> QED
  BY <1>1, <1>2, AdministersSafely

\* No request of the API, however it interleaves with the dispatcher, breaks it.
LEMMA SafeRequest ==
    ASSUME IInv, NEW s \in Session, Request(s)
    PROVE  Safe'
<1>t. TypeOK
  BY DEF IInv, Typed
<1>r. session[s] \in Requests
  BY <1>t DEF TypeOK
<1>s. /\ Table \in TableType
      /\ \A d \in Delivery : Table.status[d] = status[d] /\ Table.attempts[d] = attempts[d]
  BY <1>t, TableTypes DEF Table
<1>k. \A d \in Existing : dest[d] \in Present
  BY DEF IInv, Safe, KeysAreValid
<1>1. CASE \/ BeginWrite(s) \/ BeginUpdate(s) \/ BeginDelete(s) \/ BeginRedeliver(s)
           \/ BeginRemove(s) \/ KeyViolation(s) \/ Return(s)
  <2>1. UNCHANGED <<endpoints, rows, dispatcher, posts, received>>
    BY <1>1 DEF BeginWrite, BeginUpdate, BeginDelete, BeginRedeliver, BeginRemove,
                Begin, KeyViolation, Return, history
  <2> QED
    BY <2>1, SafeUnchanged
<1>2. CASE CommitWrite(s)
  <2>1. /\ session[s].to \in SUBSET Endpoint
        /\ session[s].to \subseteq Present
        /\ Enqueue(session[s].to, Table)
        /\ UNCHANGED <<epState, pc, batch, cur, loaded, answer, posts, received>>
    BY <1>2, <1>r, RequestFields DEF CommitWrite, Committing, KeysHold, endpoints,
                                     dispatcher, history
  <2>2. Present' = Present
    BY <2>1 DEF Present
  <2> QED
    BY <1>s, <1>k, <2>1, <2>2, EnqueueSafely DEF Existing
<1>3. CASE CreateEndpoint(s)
  <2>1. PICK e \in Endpoint, on \in {"on", "off"}, filter \in Filters :
          LET self == IF on = "on" /\ EndpointKind \in filter THEN {e} ELSE {} IN
          /\ epState[e] = "unused"
          /\ epState' = [epState EXCEPT ![e] = on]
          /\ Enqueue(Targets(EndpointKind) \cup self, Table)
    BY <1>3 DEF CreateEndpoint
  <2> DEFINE to == Targets(EndpointKind) \cup
                   (IF on = "on" /\ EndpointKind \in filter THEN {e} ELSE {})
  <2>2. /\ to \in SUBSET Endpoint
        /\ Present \subseteq Present'
        /\ to \subseteq Present'
        /\ \A x \in Endpoint : epState[x] = "deleted" => epState'[x] = "deleted"
    BY <1>t, <2>1 DEF Targets, Present, TypeOK
  <2>3. /\ Enqueue(to, Table)
        /\ UNCHANGED <<pc, batch, cur, loaded, answer, posts, received>>
    BY <1>3, <2>1 DEF CreateEndpoint, dispatcher, history
  <2> HIDE DEF to
  <2> QED
    BY <1>s, <1>k, <2>2, <2>3, EnqueueSafely DEF Existing
<1>4. CASE CommitUpdate(s)
  <2>1. /\ session[s].to \in SUBSET Endpoint
        /\ session[s].to \subseteq Present
        /\ session[s].ep \in Endpoint
        /\ session[s].set \in {"on", "off"}
        /\ UNCHANGED <<pc, batch, cur, loaded, answer, posts, received>>
    BY <1>4, <1>r, RequestFields DEF CommitUpdate, Committing, KeysHold, dispatcher, history
  <2>2. CASE session[s].ep \in Present
    <3>1. Present' = Present
      BY <1>4, <1>t, <2>1, <2>2 DEF CommitUpdate, Flushed, Present, TypeOK
    <3>2. \A x \in Endpoint : epState[x] = "deleted" => epState'[x] = "deleted"
      BY <1>4, <1>t, <2>1, <2>2 DEF CommitUpdate, Present, TypeOK
    <3>3. Enqueue(session[s].to, Table)
      BY <1>4, <2>2 DEF CommitUpdate
    <3> QED
      BY <1>s, <1>k, <2>1, <3>1, <3>2, <3>3, EnqueueSafely DEF Existing
  <2>3. CASE session[s].ep \notin Present
    BY <1>4, <2>1, <2>3, SafeUnchanged DEF CommitUpdate, dispatcher
  <2> QED
    BY <2>2, <2>3
<1>5. CASE CommitDelete(s)
  <2> DEFINE cascaded == {d \in Existing : dest[d] = session[s].ep}
             to == session[s].to \ {session[s].ep}
  <2>1. /\ to \in SUBSET Endpoint
        /\ session[s].to \subseteq Present
        /\ session[s].ep \in Endpoint
        /\ epState' = [epState EXCEPT ![session[s].ep] = "deleted"]
        /\ Enqueue(to, Deleted(cascaded))
        /\ UNCHANGED <<pc, batch, cur, loaded, answer, posts, received>>
    BY <1>5, <1>r, RequestFields DEF CommitDelete, Committing, KeysHold, dispatcher, history
  <2>2. Present' = Present \ {session[s].ep}
    BY <1>t, <2>1 DEF Present, TypeOK
  <2>3. \A x \in Endpoint : epState[x] = "deleted" => epState'[x] = "deleted"
    BY <1>t, <2>1 DEF TypeOK
  <2>4. /\ cascaded \in SUBSET Delivery
        /\ Deleted(cascaded) \in TableType
    BY <1>t, TableTypes DEF Existing
  <2>5. \A d \in Delivery :
          /\ Deleted(cascaded).status[d] = IF d \in cascaded THEN "gone" ELSE status[d]
          /\ Deleted(cascaded).attempts[d] = IF d \in cascaded THEN 0 ELSE attempts[d]
    BY DEF Deleted
  <2>6. \A d \in Delivery :
          Deleted(cascaded).status[d] \notin {"none", "gone"} =>
              d \in Existing /\ dest[d] \in Present'
    BY <1>k, <2>2, <2>5 DEF Existing
  <2>7. to \subseteq Present'
    BY <2>1, <2>2
  <2> HIDE DEF to, cascaded
  <2> QED
    BY <2>1, <2>3, <2>4, <2>5, <2>6, <2>7, EnqueueSafely
<1>6. CASE CommitRedeliver(s)
  <2> DEFINE r == session[s]
             table == Requeued(r.row, r.status, r.attempts)
  <2>1. /\ r.to \in SUBSET Endpoint
        /\ r.to \subseteq Present
        /\ r.row \in Delivery
        /\ UNCHANGED <<epState, wants, pc, batch, cur, loaded, answer, posts, received>>
    BY <1>6, <1>r, RequestFields DEF CommitRedeliver, Committing, KeysHold, endpoints,
                                     dispatcher
  <2>2. Present' = Present
    BY <2>1 DEF Present
  <2>3. CASE r.row \in Existing
    <3>1. Enqueue(r.to, table)
      BY <1>6, <2>3 DEF CommitRedeliver
    <3>2. table \in TableType
      BY <1>t, <2>1, RequeuedType
    <3>3. \A d \in Delivery :
            /\ table.status[d] =
                 IF d = r.row THEN Flushed(r.status, "pending", status[d]) ELSE status[d]
            /\ table.attempts[d] =
                 IF d = r.row THEN Flushed(r.attempts, 0, attempts[d]) ELSE attempts[d]
      BY <1>t DEF Requeued, TypeOK
    <3>4. \A d \in Delivery : /\ table.status[d] \in {status[d], "pending", "gone"}
                              /\ table.attempts[d] \in {attempts[d], 0}
                              /\ d \notin Existing => table.status[d] = status[d]
      BY <2>3, <3>3 DEF Flushed
    <3>5. \A d \in Delivery : table.status[d] \notin {"none", "gone"} =>
                                  d \in Existing /\ dest[d] \in Present'
      BY <1>k, <2>2, <3>4 DEF Existing
    <3> HIDE DEF table
    <3> QED
      BY <2>1, <2>2, <3>1, <3>2, <3>4, <3>5, EnqueueSafely
  <2>4. CASE r.row \notin Existing
    BY <1>6, <2>1, <2>4, SafeUnchanged DEF CommitRedeliver, endpoints, dispatcher
  <2> QED
    BY <2>3, <2>4
<1>7. CASE CommitRemove(s)
  <2> DEFINE row == session[s].row
  <2>1. /\ session[s].to \in SUBSET Endpoint
        /\ session[s].to \subseteq Present
        /\ row \in Delivery
        /\ Enqueue(session[s].to, Deleted({row}))
        /\ UNCHANGED <<epState, pc, batch, cur, loaded, answer, posts, received>>
    BY <1>7, <1>r, RequestFields DEF CommitRemove, Committing, KeysHold, endpoints,
                                     dispatcher, history
  <2>2. Present' = Present
    BY <2>1 DEF Present
  <2>3. Deleted({row}) \in TableType
    BY <1>t, <2>1, TableTypes
  <2>4. \A d \in Delivery :
          /\ Deleted({row}).status[d] = IF d \in {row} THEN "gone" ELSE status[d]
          /\ Deleted({row}).attempts[d] = IF d \in {row} THEN 0 ELSE attempts[d]
    BY DEF Deleted
  <2>5. \A d \in Delivery :
          Deleted({row}).status[d] \notin {"none", "gone"} =>
              d \in Existing /\ dest[d] \in Present'
    BY <1>k, <2>2, <2>4 DEF Existing
  <2> QED
    BY <2>1, <2>2, <2>3, <2>4, <2>5, EnqueueSafely
<1> QED
  BY <1>1, <1>2, <1>3, <1>4, <1>5, <1>6, <1>7 DEF Request

-----------------------------------------------------------------------------
(* Safety of the dispatcher.                                               *)

\* While the dispatcher lets go of what it holds, only the rows matter.
LEMMA LetGoSafely ==
    ASSUME IInv, LetGo, batch' = {}, pc' = "wait",
           UNCHANGED <<epState, status, attempts, dest, posts, received>>
    PROVE  Safe'
<1> USE DEF IInv, Typed, Safe
<1>1. HandIsTaken' /\ AnswerIsTrue'
  BY DEF HandIsTaken, AnswerIsTrue
<1>2. KeysAreValid'
  BY DEF KeysAreValid, Existing, Present
<1>3. AttemptsAreOffers'
  BY DEF AttemptsAreOffers, Offered
<1>4. DeliveredWasReceived' /\ DeadWasOffered'
  BY DEF DeliveredWasReceived, DeadWasOffered
<1>5. InHandIsOwed'
  BY DEF InHandIsOwed, LetGo
<1> QED
  BY <1>1, <1>2, <1>3, <1>4, <1>5

\* The recovery and the claim move rows between "pending" and "delivering".
LEMMA SafeClaim ==
    ASSUME IInv, RecoverStale \/ SelectBatch \/ CommitClaim
    PROVE  Safe'
<1> USE DEF IInv, Typed, Safe
<1>1. CASE RecoverStale
  <2>1. /\ \A d \in Delivery : status'[d] \in {status[d], "pending"}
        /\ \A d \in Delivery : status[d] # status'[d] => status[d] = "delivering"
        /\ pc' = "claim"
        /\ UNCHANGED <<epState, attempts, dest, batch, cur, loaded, answer, posts, received>>
    BY <1>1 DEF RecoverStale, Stale, TypeOK, endpoints, history
  <2>2. HandIsTaken' /\ AnswerIsTrue' /\ AttemptsAreOffers'
    BY <2>1 DEF HandIsTaken, AnswerIsTrue, AttemptsAreOffers, Offered
  <2>3. KeysAreValid'
    BY <2>1 DEF KeysAreValid, Existing, Present
  <2>4. DeliveredWasReceived' /\ DeadWasOffered'
    BY <2>1 DEF DeliveredWasReceived, DeadWasOffered
  <2>5. InHandIsOwed'
    BY <2>1 DEF InHandIsOwed, TypeOK
  <2> QED
    BY <2>2, <2>3, <2>4, <2>5
<1>2. CASE SelectBatch
  <2>1. /\ batch' \subseteq Due
        /\ pc' = "flush"
        /\ UNCHANGED <<epState, status, attempts, dest, cur, loaded, answer, posts, received>>
    BY <1>2 DEF SelectBatch, endpoints, rows, history
  <2>2. HandIsTaken' /\ AnswerIsTrue' /\ AttemptsAreOffers'
    BY <2>1 DEF HandIsTaken, AnswerIsTrue, AttemptsAreOffers, Offered
  <2>3. KeysAreValid'
    BY <2>1 DEF KeysAreValid, Existing, Present
  <2>4. DeliveredWasReceived' /\ DeadWasOffered'
    BY <2>1 DEF DeliveredWasReceived, DeadWasOffered
  <2>5. InHandIsOwed'
    BY <2>1 DEF InHandIsOwed, Due
  <2> QED
    BY <2>2, <2>3, <2>4, <2>5
<1>3. CASE CommitClaim /\ batch \subseteq Existing
  <2>1. /\ \A d \in Delivery : status'[d] = IF d \in batch THEN "delivering" ELSE status[d]
        /\ pc' = "next"
        /\ UNCHANGED <<epState, attempts, dest, batch, cur, loaded, answer, posts, received>>
    BY <1>3 DEF CommitClaim, endpoints, history
  <2>2. HandIsTaken' /\ AnswerIsTrue' /\ AttemptsAreOffers'
    BY <2>1 DEF HandIsTaken, AnswerIsTrue, AttemptsAreOffers, Offered
  <2>3. KeysAreValid'
    BY <1>3, <2>1 DEF KeysAreValid, Existing, Present
  <2>4. DeliveredWasReceived' /\ DeadWasOffered'
    BY <2>1 DEF DeliveredWasReceived, DeadWasOffered
  <2>5. InHandIsOwed'
    BY <2>1 DEF InHandIsOwed, TypeOK
  <2> QED
    BY <2>2, <2>3, <2>4, <2>5
<1>4. CASE CommitClaim /\ ~(batch \subseteq Existing)
  BY <1>4, LetGoSafely DEF CommitClaim, Abort, endpoints, history
<1> QED
  BY <1>1, <1>2, <1>3, <1>4

\* Taking up a row, looking its endpoint up and posting it.
LEMMA SafeHandling ==
    ASSUME IInv, RefreshRow \/ LookupEndpoint \/ PostRow
    PROVE  Safe'
<1> USE DEF IInv, Typed, Safe
<1>1. CASE RefreshRow
  <2>1. PICK d \in batch :
          IF d \in Existing
          THEN /\ cur' = d
               /\ batch' = batch \ {d}
               /\ loaded' = [status |-> status[d], attempts |-> attempts[d]]
               /\ pc' = "lookup"
               /\ UNCHANGED answer
          ELSE Abort
    BY <1>1 DEF RefreshRow
  <2>2. UNCHANGED <<epState, status, attempts, dest, posts, received>>
    BY <1>1 DEF RefreshRow, endpoints, rows, history
  <2>3. CASE d \in Existing
    <3>1. d \in Delivery /\ status[d] # "none"
      BY <2>3 DEF Existing
    <3>2. /\ cur' = d
          /\ batch' = batch \ {d}
          /\ loaded'.attempts = attempts[d]
          /\ pc' = "lookup"
      BY <2>1, <2>3
    <3>3. HandIsTaken' /\ AnswerIsTrue'
      BY <2>2, <3>1, <3>2 DEF HandIsTaken, AnswerIsTrue
    <3>4. AttemptsAreOffers'
      BY <2>2, <3>1, <3>2 DEF AttemptsAreOffers, Offered
    <3>5. KeysAreValid'
      BY <2>2 DEF KeysAreValid, Existing, Present
    <3>6. DeliveredWasReceived' /\ DeadWasOffered'
      BY <2>2 DEF DeliveredWasReceived, DeadWasOffered
    <3>7. InHandIsOwed'
      BY <2>2, <3>1, <3>2 DEF InHandIsOwed, TypeOK
    <3> QED
      BY <3>3, <3>4, <3>5, <3>6, <3>7
  <2>4. CASE d \notin Existing
    BY <2>1, <2>2, <2>4, LetGoSafely DEF Abort
  <2> QED
    BY <2>3, <2>4
<1>2. CASE LookupEndpoint
  <2>1. /\ pc = "lookup"
        /\ pc' \in {"post", "write"}
        /\ pc' = "write" => answer' \in {"disabled", "no endpoint"}
        /\ pc' = "write" /\ answer' = "no endpoint" => epState[dest[cur]] = "deleted"
        /\ UNCHANGED <<epState, status, attempts, dest, batch, cur, loaded, posts, received>>
    BY <1>2 DEF LookupEndpoint, endpoints, rows, history
  <2>2. HandIsTaken' /\ AnswerIsTrue' /\ AttemptsAreOffers'
    BY <2>1 DEF HandIsTaken, AnswerIsTrue, AttemptsAreOffers, Offered
  <2>3. KeysAreValid'
    BY <2>1 DEF KeysAreValid, Existing, Present
  <2>4. DeliveredWasReceived' /\ DeadWasOffered' /\ InHandIsOwed'
    BY <2>1 DEF DeliveredWasReceived, DeadWasOffered, InHandIsOwed
  <2> QED
    BY <2>2, <2>3, <2>4
<1>3. CASE PostRow
  <2>1. /\ pc = "post" /\ pc' = "write"
        /\ posts' = [posts EXCEPT ![cur] = IF @ < MaxAttempts THEN @ + 1 ELSE @]
        /\ answer' \in {"ok", "error"}
        /\ received' \in {received, [received EXCEPT ![cur] = IF @ < 2 THEN @ + 1 ELSE @]}
        /\ answer' = "ok" => received' = [received EXCEPT ![cur] = IF @ < 2 THEN @ + 1 ELSE @]
        /\ UNCHANGED <<epState, status, attempts, dest, batch, cur, loaded>>
    BY <1>3 DEF PostRow, Receive, endpoints, rows
  <2>2. posts \in [Delivery -> 0..MaxAttempts] /\ received \in [Delivery -> 0..2]
    BY DEF TypeOK
  <2>3. cur \in Delivery
    BY <2>1 DEF HandIsRow
  <2>4. \A d \in Delivery : received'[d] >= received[d]
    BY <2>1, <2>2, <2>3
  <2>5. answer' = "ok" => received'[cur] > 0
    BY <2>1, <2>2, <2>3
  <2>6. \A d \in Delivery, n \in Nat : Offered(d, n) => Offered(d, n)'
    BY <2>1, <2>2, <2>3, BackoffAssumption DEF Offered
  <2>7. \A n \in Nat : Offered(cur, n) => posts'[cur] = MaxAttempts \/ n + 1 <= posts'[cur]
    BY <2>1, <2>2, <2>3, BackoffAssumption DEF Offered
  <2>8. HandIsTaken' /\ AnswerIsTrue'
    BY <2>1, <2>5 DEF HandIsTaken, AnswerIsTrue
  <2>9. AttemptsAreOffers'
    <3>1. attempts \in [Delivery -> Nat] /\ loaded.attempts \in Nat
      BY DEF TypeOK
    <3>2. Offered(cur, loaded.attempts)
      BY <2>1 DEF AttemptsAreOffers
    <3>3. \A d \in Delivery : Offered(d, attempts[d])'
      BY <2>1, <2>6, <3>1 DEF AttemptsAreOffers, Offered
    <3>4. Offered(cur, loaded.attempts)' /\ Offered(cur, loaded.attempts + 1)'
      BY <2>1, <2>3, <2>6, <2>7, <3>1, <3>2 DEF Offered
    <3> QED
      BY <3>3, <3>4 DEF AttemptsAreOffers
  <2>10. KeysAreValid'
    BY <2>1 DEF KeysAreValid, Existing, Present
  <2>11. DeliveredWasReceived'
    BY <2>1, <2>2, <2>4 DEF DeliveredWasReceived
  <2>12. DeadWasOffered'
    BY <2>1, <2>2, <2>3 DEF DeadWasOffered
  <2>13. InHandIsOwed'
    BY <2>1 DEF InHandIsOwed
  <2> QED
    BY <2>8, <2>9, <2>10, <2>11, <2>12, <2>13
<1> QED
  BY <1>1, <1>2, <1>3

\* Committing the outcome, ending the batch and purging.
LEMMA SafeSettling ==
    ASSUME IInv, CommitOutcome \/ EndBatch \/ PurgeDelivered
    PROVE  Safe'
<1> USE DEF IInv, Typed, Safe
<1>1. CASE CommitOutcome /\ cur \in Existing
  <2>1. /\ pc = "write" /\ pc' = "next"
        /\ status' = [status EXCEPT ![cur] = Flushed(loaded.status, NextStatus, @)]
        /\ attempts' = IF answer = "error"
                       THEN [attempts EXCEPT ![cur] = loaded.attempts + 1]
                       ELSE attempts
        /\ cur' = NoDelivery
        /\ UNCHANGED <<epState, dest, batch, posts, received>>
    BY <1>1 DEF CommitOutcome, LetGo, endpoints, history
  <2>2. /\ cur \in Delivery /\ cur \notin batch
        /\ status[cur] \in {"pending", "delivering"}
    BY <1>1, <2>1, IdsAssumption DEF HandIsRow, HandIsTaken, InHandIsOwed, Existing
  <2>3. answer \in {"ok", "error", "disabled"}
    BY <1>1, <2>1 DEF AnswerIsTrue, KeysAreValid, Present, HandIsRow, TypeOK
  <2>4. /\ status'[cur] \in {"pending", "delivering", "delivered", "dead"}
        /\ status'[cur] = "delivered" => answer = "ok"
        /\ status'[cur] = "dead" => answer = "error" /\ Exhausted
        /\ \A d \in Delivery \ {cur} : status'[d] = status[d]
    BY <2>1, <2>2, <2>3 DEF Flushed, NextStatus, TypeOK
  <2>5. HandIsTaken' /\ AnswerIsTrue'
    BY <2>1 DEF HandIsTaken, AnswerIsTrue
  <2>6. AttemptsAreOffers'
    BY <2>1, <2>2 DEF AttemptsAreOffers, Offered, TypeOK
  <2>7. KeysAreValid'
    BY <1>1, <2>1, <2>4 DEF KeysAreValid, Existing, Present
  <2>8. DeliveredWasReceived'
    BY <2>1, <2>4 DEF DeliveredWasReceived, AnswerIsTrue
  <2>9. DeadWasOffered'
    <3>1. posts \in [Delivery -> 0..MaxAttempts] /\ loaded.attempts \in Nat
      BY DEF TypeOK
    <3>2. status'[cur] = "dead" => posts[cur] = MaxAttempts
      BY <2>1, <2>2, <2>4, <3>1, BackoffAssumption DEF AttemptsAreOffers, Offered, Exhausted
    <3> QED
      BY <2>1, <2>4, <3>2 DEF DeadWasOffered
  <2>10. InHandIsOwed'
    BY <2>1, <2>2, <2>4 DEF InHandIsOwed, TypeOK
  <2> QED
    BY <2>5, <2>6, <2>7, <2>8, <2>9, <2>10
<1>2. CASE CommitOutcome /\ cur \notin Existing
  BY <1>2, LetGoSafely DEF CommitOutcome, Abort, endpoints, history
<1>3. CASE EndBatch
  <2>1. /\ pc' = "purge"
        /\ UNCHANGED <<epState, status, attempts, dest, batch, cur, posts, received>>
    BY <1>3 DEF EndBatch, endpoints, rows, history
  <2>2. HandIsTaken' /\ AnswerIsTrue'
    BY <2>1 DEF HandIsTaken, AnswerIsTrue
  <2>3. AttemptsAreOffers'
    BY <2>1 DEF AttemptsAreOffers, Offered
  <2>4. KeysAreValid'
    BY <2>1 DEF KeysAreValid, Existing, Present
  <2>5. DeliveredWasReceived' /\ DeadWasOffered' /\ InHandIsOwed'
    BY <2>1 DEF DeliveredWasReceived, DeadWasOffered, InHandIsOwed
  <2> QED
    BY <2>2, <2>3, <2>4, <2>5
<1>4. CASE PurgeDelivered
  <2>1. /\ pc' = "wait"
        /\ \A d \in Delivery : /\ status'[d] \in {status[d], "gone"}
                               /\ attempts'[d] \in {attempts[d], 0}
        /\ UNCHANGED <<epState, dest, batch, cur, posts, received>>
    BY <1>4 DEF PurgeDelivered, Deleted, endpoints, history
  <2>2. HandIsTaken' /\ AnswerIsTrue'
    BY <2>1 DEF HandIsTaken, AnswerIsTrue
  <2>3. AttemptsAreOffers'
    <3>1. posts \in [Delivery -> 0..MaxAttempts]
      BY DEF TypeOK
    <3> QED
      BY <2>1, <3>1, BackoffAssumption DEF AttemptsAreOffers, Offered
  <2>4. KeysAreValid'
    BY <2>1 DEF KeysAreValid, Existing, Present
  <2>5. DeliveredWasReceived' /\ DeadWasOffered'
    BY <2>1 DEF DeliveredWasReceived, DeadWasOffered
  <2>6. InHandIsOwed'
    BY <2>1 DEF InHandIsOwed, TypeOK
  <2> QED
    BY <2>2, <2>3, <2>4, <2>5, <2>6
<1> QED
  BY <1>1, <1>2, <1>3, <1>4

-----------------------------------------------------------------------------
(* The invariant, and what follows from it.                                *)

\* The empty outbox satisfies the invariant ...
LEMMA InvariantInit == Init => IInv
<1> SUFFICES ASSUME Init PROVE IInv
  OBVIOUS
<1>1. Typed
  BY TypedInit
<1>2. HandIsTaken /\ AnswerIsTrue
  BY DEF Init, HandIsTaken, AnswerIsTrue
<1>3. KeysAreValid
  BY DEF Init, KeysAreValid, Existing
<1>4. AttemptsAreOffers
  BY BackoffAssumption DEF Init, AttemptsAreOffers, Offered
<1>5. DeliveredWasReceived /\ DeadWasOffered
  BY DEF Init, DeliveredWasReceived, DeadWasOffered
<1>6. InHandIsOwed
  BY DEF Init, InHandIsOwed
<1> QED
  BY <1>1, <1>2, <1>3, <1>4, <1>5, <1>6 DEF IInv, Safe

\* ... and every step of a request, the dispatcher, the clock or a crash
\* keeps it.
LEMMA InvariantNext == IInv /\ [Next]_vars => IInv'
<1> SUFFICES ASSUME IInv, [Next]_vars PROVE IInv'
  OBVIOUS
<1>1. Typed'
  BY TypedNext DEF IInv
<1>2. CASE \E s \in Session : Request(s)
  BY <1>1, <1>2, SafeRequest DEF IInv
<1>3. CASE Dispatch
  BY <1>1, <1>3, SafeClaim, SafeHandling, SafeSettling DEF IInv, Dispatch
<1>4. CASE Tick \/ RetentionPasses
  <2>1. UNCHANGED <<epState, status, attempts, dest, pc, batch, cur, loaded, answer,
                    posts, received>>
    BY <1>4 DEF Tick, RetentionPasses, endpoints, dispatcher, history
  <2>2. Administers
    BY <2>1 DEF Administers
  <2>3. KeysAreValid'
    BY <2>1 DEF IInv, Safe, KeysAreValid, Existing, Present
  <2> QED
    BY <1>1, <2>2, <2>3, AdministersSafely DEF IInv
<1>5. CASE Crash
  BY <1>1, <1>5, LetGoSafely DEF Crash, Abort, endpoints, rows, IInv
<1>6. CASE UNCHANGED vars
  BY <1>1, <1>6, SafeUnchanged DEF vars, history, IInv
<1> QED
  BY <1>2, <1>3, <1>4, <1>5, <1>6 DEF Next

\* The inductive invariant holds of every state of the outbox, so what follows
\* from it does.
THEOREM Invariant == Spec => []IInv
  BY InvariantInit, InvariantNext, PTL DEF Spec

\* At least once: a row marked delivered was taken by its receiver.
THEOREM DeliveredIsReceived == Spec => []DeliveredWasReceived
<1>1. IInv => DeliveredWasReceived
  BY DEF IInv, Safe
<1> QED
  BY <1>1, Invariant, PTL

\* A dead letter was offered MaxAttempts times, however often the process
\* died and whatever the administrators did.
THEOREM DeadIsOffered == Spec => []DeadWasOffered
<1>1. IInv => DeadWasOffered
  BY DEF IInv, Safe
<1> QED
  BY <1>1, Invariant, PTL

\* The dispatcher never handles a row that is settled.
THEOREM HandledIsOwed == Spec => []InHandIsOwed
<1>1. IInv => InHandIsOwed
  BY DEF IInv, Safe
<1> QED
  BY <1>1, Invariant, PTL

-----------------------------------------------------------------------------
(* What a step does to the rows, as their receivers and operators see it.  *)

\* The requests that act on a row act on one that was once stored.
RequestsNameRows ==
    \A s \in Session :
        session[s].op \in {"redeliver", "remove"} => status[session[s].row] # "none"

\* A row nobody works on is recorded, removed, put back in the queue after its
\* claim went stale or after an operator asked for it, or left as it is.
Administered(d) ==
    \/ status'[d] = status[d]
    \/ status[d] = "none" /\ status'[d] = "pending"
    \/ d \in Existing /\ status'[d] = "gone"
    \/ status[d] = "delivering" /\ status'[d] = "pending"
    \/ d \in Existing /\ status'[d] = "pending" /\ d \in excused'

RowsAdministered ==
    /\ \A d \in Delivery : Administered(d)
    /\ excused \subseteq excused'
    /\ UNCHANGED <<posts, received>>

\* Enqueuing does no more than its table when that only removes rows or puts
\* them back on request.
LEMMA EnqueueAdministers ==
    ASSUME TypeOK, NEW STATE to, NEW STATE table,
           to \in SUBSET Endpoint, table \in TableType, Enqueue(to, table),
           \A d \in Delivery :
              \/ table.status[d] = status[d]
              \/ d \in Existing /\ table.status[d] = "gone"
              \/ d \in Existing /\ table.status[d] = "pending" /\ d \in excused',
           excused \subseteq excused', UNCHANGED <<posts, received>>
    PROVE  RowsAdministered
<1>0. dest \in [Delivery -> Endpoint]
  BY DEF TypeOK
<1>1. PICK new \in SUBSET Delivery :
              /\ \A d \in new : status[d] = "none"
              /\ status' = [d \in Delivery |->
                              IF d \in new THEN "pending" ELSE table.status[d]]
  BY <1>0, EnqueueEffect
<1> QED
  BY <1>1 DEF RowsAdministered, Administered

\* Every request of the API, whatever committed since it read, is such a step.
LEMMA RequestAdministers ==
    ASSUME TypeOK, RequestsNameRows, NEW s \in Session, Request(s)
    PROVE  RowsAdministered
<1>r. session[s] \in Requests
  BY DEF TypeOK
<1>s. Table \in TableType /\ \A d \in Delivery : Table.status[d] = status[d]
  BY TableTypes DEF Table
<1>d. ASSUME NEW D \in SUBSET Delivery, \A d \in D : status[d] # "none"
      PROVE  /\ Deleted(D) \in TableType
             /\ \A d \in Delivery :
                  \/ Deleted(D).status[d] = status[d]
                  \/ d \in Existing /\ Deleted(D).status[d] = "gone"
  BY <1>d, TableTypes DEF Deleted, Existing
<1>1. CASE \/ BeginWrite(s) \/ BeginUpdate(s) \/ BeginDelete(s) \/ BeginRedeliver(s)
           \/ BeginRemove(s) \/ KeyViolation(s) \/ Return(s)
  BY <1>1 DEF BeginWrite, BeginUpdate, BeginDelete, BeginRedeliver, BeginRemove, Begin,
              KeyViolation, Return, rows, history, RowsAdministered, Administered
<1>2. CASE CommitWrite(s)
  <2>1. session[s].to \in SUBSET Endpoint
    BY <1>2, <1>r, RequestFields DEF CommitWrite, Committing
  <2> QED
    BY <1>2, <1>s, <2>1, EnqueueAdministers DEF CommitWrite, history
<1>3. CASE CreateEndpoint(s)
  <2>1. PICK e \in Endpoint, on \in {"on", "off"}, filter \in Filters :
          LET self == IF on = "on" /\ EndpointKind \in filter THEN {e} ELSE {} IN
          Enqueue(Targets(EndpointKind) \cup self, Table)
    BY <1>3 DEF CreateEndpoint
  <2> DEFINE to == Targets(EndpointKind) \cup
                   (IF on = "on" /\ EndpointKind \in filter THEN {e} ELSE {})
  <2>2. to \in SUBSET Endpoint /\ Enqueue(to, Table)
    BY <2>1 DEF Targets
  <2>3. UNCHANGED history
    BY <1>3 DEF CreateEndpoint
  <2> HIDE DEF to
  <2> QED
    BY <1>s, <2>2, <2>3, EnqueueAdministers DEF history
<1>4. CASE CommitUpdate(s)
  <2>1. session[s].to \in SUBSET Endpoint /\ UNCHANGED history
    BY <1>4, <1>r, RequestFields DEF CommitUpdate, Committing
  <2>2. CASE session[s].ep \in Present
    <3>1. Enqueue(session[s].to, Table)
      BY <1>4, <2>2 DEF CommitUpdate
    <3> QED
      BY <1>s, <2>1, <3>1, EnqueueAdministers DEF history
  <2>3. CASE session[s].ep \notin Present
    BY <1>4, <2>1, <2>3 DEF CommitUpdate, rows, history, RowsAdministered, Administered
  <2> QED
    BY <2>2, <2>3
<1>5. CASE CommitDelete(s)
  <2> DEFINE cascaded == {d \in Existing : dest[d] = session[s].ep}
  <2>1. /\ session[s].to \ {session[s].ep} \in SUBSET Endpoint
        /\ Enqueue(session[s].to \ {session[s].ep}, Deleted(cascaded))
        /\ UNCHANGED history
    BY <1>5, <1>r, RequestFields DEF CommitDelete, Committing
  <2>2. cascaded \in SUBSET Delivery /\ \A d \in cascaded : status[d] # "none"
    BY DEF Existing
  <2> HIDE DEF cascaded
  <2>3. /\ Deleted(cascaded) \in TableType
        /\ \A d \in Delivery :
                  \/ Deleted(cascaded).status[d] = status[d]
                  \/ d \in Existing /\ Deleted(cascaded).status[d] = "gone"
    BY <1>d, <2>2
  <2> QED
    BY <2>1, <2>3, EnqueueAdministers DEF history
<1>6. CASE CommitRedeliver(s)
  <2> DEFINE r == session[s]
             table == Requeued(r.row, r.status, r.attempts)
  <2>1. /\ r.to \in SUBSET Endpoint /\ r.row \in Delivery
        /\ UNCHANGED <<posts, received>>
    BY <1>6, <1>r, RequestFields DEF CommitRedeliver, Committing
  <2>2. CASE r.row \in Existing
    <3>1. /\ Enqueue(r.to, table)
          /\ excused' = IF r.status = "pending" THEN excused ELSE excused \cup {r.row}
      BY <1>6, <2>2 DEF CommitRedeliver
    <3>2. table \in TableType
      BY <2>1, RequeuedType
    <3>3. \A d \in Delivery :
            table.status[d] =
              IF d = r.row THEN Flushed(r.status, "pending", status[d]) ELSE status[d]
      BY DEF Requeued, TypeOK
    <3> HIDE DEF table
    <3> QED
      BY <2>1, <2>2, <3>1, <3>2, <3>3, EnqueueAdministers DEF Flushed
  <2>3. CASE r.row \notin Existing
    BY <1>6, <2>1, <2>3 DEF CommitRedeliver, rows, RowsAdministered, Administered
  <2> QED
    BY <2>2, <2>3
<1>7. CASE CommitRemove(s)
  <2> DEFINE row == session[s].row
  <2>1. /\ session[s].to \in SUBSET Endpoint
        /\ row \in Delivery
        /\ status[row] # "none"
        /\ Enqueue(session[s].to, Deleted({row}))
        /\ UNCHANGED history
    BY <1>7, <1>r, RequestFields DEF CommitRemove, Committing, RequestsNameRows
  <2>2. /\ Deleted({row}) \in TableType
        /\ \A d \in Delivery :
                  \/ Deleted({row}).status[d] = status[d]
                  \/ d \in Existing /\ Deleted({row}).status[d] = "gone"
    BY <1>d, <2>1
  <2> QED
    BY <2>1, <2>2, EnqueueAdministers DEF history
<1> QED
  BY <1>1, <1>2, <1>3, <1>4, <1>5, <1>6, <1>7 DEF Request

\* So are the recovery of stale claims and the purge ...
LEMMA UpkeepAdministers ==
    ASSUME TypeOK, RecoverStale \/ PurgeDelivered
    PROVE  RowsAdministered
<1>1. CASE RecoverStale
  BY <1>1 DEF RecoverStale, Stale, TypeOK, history, RowsAdministered, Administered
<1>2. CASE PurgeDelivered
  BY <1>2 DEF PurgeDelivered, Deleted, Existing, TypeOK, history, RowsAdministered,
              Administered
<1> QED
  BY <1>1, <1>2

\* ... and, but for the excuse a crash may add, every step that leaves the
\* statuses alone.
LEMMA IdleAdministers ==
    ASSUME UNCHANGED <<status, posts, received>>, excused \subseteq excused'
    PROVE  RowsAdministered
  BY DEF RowsAdministered, Administered

\* The dispatcher's own commits take no row back to where it was not stored.
LEMMA OutcomeKeepsRows ==
    ASSUME Typed, CommitClaim \/ CommitOutcome
    PROVE  \A d \in Delivery : status[d] # "none" => status'[d] # "none"
<1>1. CASE CommitClaim
  BY <1>1 DEF CommitClaim, Typed, TypeOK
<1>2. CASE CommitOutcome
  <2>1. NextStatus # "none"
    BY <1>2 DEF CommitOutcome, NextStatus, Typed, TypeOK, HandIsRow
  <2> QED
    BY <1>2, <2>1 DEF CommitOutcome, Flushed, Typed, TypeOK, HandIsRow
<1> QED
  BY <1>1, <1>2

\* Each step of the system is one of these.
LEMMA StepsOfRows ==
    ASSUME Typed, RequestsNameRows, [Next]_vars
    PROVE  RowsAdministered \/ CommitClaim \/ PostRow \/ CommitOutcome
<1>t. TypeOK
  BY DEF Typed
<1>1. CASE \E s \in Session : Request(s)
  BY <1>1, <1>t, RequestAdministers
<1>2. CASE Dispatch
  <2>1. CASE SelectBatch \/ RefreshRow \/ LookupEndpoint \/ EndBatch
    BY <2>1, IdleAdministers DEF SelectBatch, RefreshRow, LookupEndpoint, EndBatch,
                                 rows, history
  <2> QED
    BY <1>2, <1>t, <2>1, UpkeepAdministers DEF Dispatch
<1>3. CASE Tick \/ RetentionPasses \/ Crash \/ UNCHANGED vars
  BY <1>3, IdleAdministers DEF Tick, RetentionPasses, Crash, vars, rows, history
<1> QED
  BY <1>1, <1>2, <1>3 DEF Next

\* A row once stored may be removed but its id is not free again.
LEMMA RowsAreNotForgotten ==
    ASSUME Typed, RequestsNameRows, [Next]_vars
    PROVE  \A d \in Delivery : status[d] # "none" => status'[d] # "none"
<1>1. CASE RowsAdministered
  BY <1>1 DEF RowsAdministered, Administered
<1>2. CASE PostRow
  BY <1>2 DEF PostRow, rows
<1> QED
  BY <1>1, <1>2, OutcomeKeepsRows, StepsOfRows

\* Hence a request keeps naming a row that was stored.
LEMMA RequestsNameRowsNext ==
    ASSUME Typed, RequestsNameRows, [Next]_vars
    PROVE  RequestsNameRows'
<1> SUFFICES ASSUME NEW s \in Session, session'[s].op \in {"redeliver", "remove"}
             PROVE  status'[session'[s].row] # "none"
  BY DEF RequestsNameRows
<1>t. session \in [Session -> Requests] /\ \A d \in Existing : d \in Delivery
  BY DEF Typed, TypeOK, Existing
<1>1. CASE session'[s] = session[s]
  <2>1. session[s].row \in Delivery
    BY <1>t, <1>1, RequestFields
  <2> QED
    BY <1>1, <2>1, RowsAreNotForgotten DEF RequestsNameRows
<1>2. CASE session'[s] # session[s]
  <2>1. PICK x \in Session : Request(x)
    <3>1. CASE Crash
      BY <1>2, <3>1 DEF Crash, Idle
    <3> QED
      BY <1>2, <3>1 DEF Next, Dispatch, Tick, RetentionPasses, vars, RecoverStale,
         SelectBatch, CommitClaim, RefreshRow, LookupEndpoint, PostRow, CommitOutcome,
         EndBatch, PurgeDelivered
  <2>2. CASE BeginRedeliver(x) \/ BeginRemove(x)
    BY <1>2, <1>t, <2>2 DEF BeginRedeliver, BeginRemove, Begin, rows, Existing
  <2>3. CASE ~(BeginRedeliver(x) \/ BeginRemove(x))
    BY <1>2, <1>t, <2>1, <2>3 DEF Request, BeginWrite, CommitWrite, CreateEndpoint, BeginUpdate,
       CommitUpdate, BeginDelete, CommitDelete, CommitRedeliver, CommitRemove,
       KeyViolation, Return, Begin, Committing, Idle
  <2> QED
    BY <2>2, <2>3
<1> QED
  BY <1>1, <1>2

-----------------------------------------------------------------------------
(* Duplicates.                                                             *)

\* A row may still be posted without an excuse only if nobody has had it ...
Fresh(d) == received[d] = 0 \/ d \in excused

\* ... and once its receiver has had it, the outcome is about to be committed.
OutcomePends(d) == pc = "write" /\ cur = d /\ answer = "ok"

ReceiptsAreKept ==
    /\ DuplicatesAreExcused
    /\ \A d \in Delivery :
          status[d] \notin {"delivered", "gone"} => Fresh(d) \/ OutcomePends(d)
    /\ pc \in {"lookup", "post", "write"} =>
          /\ Fresh(cur) \/ OutcomePends(cur)
          /\ loaded.status \in {"pending", "delivering"}

\* Administering the rows makes none of them postable again without an excuse.
LEMMA AdministeringKeepsReceipts ==
    ASSUME IInv, ReceiptsAreKept, RowsAdministered, UNCHANGED dispatcher
    PROVE  ReceiptsAreKept'
<1>t. HandIsRow /\ received \in [Delivery -> 0..2]
  BY DEF IInv, Typed, TypeOK
<1>1. /\ \A d \in Delivery : Fresh(d) => Fresh(d)'
      /\ \A d \in Delivery : OutcomePends(d) <=> OutcomePends(d)'
      /\ \A d \in Delivery : d \in excused' => Fresh(d)'
  BY DEF RowsAdministered, Fresh, OutcomePends, dispatcher
<1>2. DuplicatesAreExcused'
  BY DEF RowsAdministered, ReceiptsAreKept, DuplicatesAreExcused
<1>3. ASSUME NEW d \in Delivery, status'[d] \notin {"delivered", "gone"}
      PROVE  Fresh(d)' \/ OutcomePends(d)'
  BY <1>1, <1>3 DEF RowsAdministered, Administered, ReceiptsAreKept
<1>4. pc' \in {"lookup", "post", "write"} =>
          /\ Fresh(cur)' \/ OutcomePends(cur)'
          /\ loaded'.status \in {"pending", "delivering"}
  BY <1>1, <1>t DEF RowsAdministered, ReceiptsAreKept, HandIsRow, Fresh, OutcomePends, dispatcher
<1> QED
  BY <1>2, <1>3, <1>4 DEF ReceiptsAreKept

\* When the dispatcher has no row in hand after a step, it is enough that no
\* settled row is put back and that a pending outcome is committed or excused.
LEMMA LettingGoKeepsReceipts ==
    ASSUME ReceiptsAreKept, UNCHANGED received, excused \subseteq excused',
           pc' \notin {"lookup", "post", "write"},
           \A d \in Delivery :
              status'[d] \notin {"delivered", "gone"} =>
                  /\ status[d] \notin {"delivered", "gone"}
                  /\ OutcomePends(d) => d \in excused'
    PROVE  ReceiptsAreKept'
<1>1. \A d \in Delivery : Fresh(d) \/ d \in excused' => Fresh(d)'
  BY DEF Fresh
<1>2. DuplicatesAreExcused'
  BY DEF ReceiptsAreKept, DuplicatesAreExcused
<1>3. ASSUME NEW d \in Delivery, status'[d] \notin {"delivered", "gone"}
      PROVE  Fresh(d)'
  BY <1>1, <1>3 DEF ReceiptsAreKept
<1> QED
  BY <1>2, <1>3 DEF ReceiptsAreKept

\* Taking up a row and looking its endpoint up.
LEMMA TakingUpKeepsReceipts ==
    ASSUME IInv, ReceiptsAreKept, RefreshRow \/ LookupEndpoint
    PROVE  ReceiptsAreKept'
<1>1. CASE RefreshRow
  <2>1. PICK d \in batch :
          IF d \in Existing
          THEN /\ cur' = d
               /\ loaded' = [status |-> status[d], attempts |-> attempts[d]]
               /\ pc' = "lookup"
          ELSE Abort
    BY <1>1 DEF RefreshRow
  <2>2. pc = "next" /\ UNCHANGED <<status, received, excused>>
    BY <1>1 DEF RefreshRow, rows, history
  <2>3. \A x \in Delivery : ~OutcomePends(x)
    BY <2>2 DEF OutcomePends
  <2>4. CASE d \in Existing
    <3>1. d \in Delivery /\ status[d] \in {"pending", "delivering"}
      BY <2>4, IdsAssumption DEF IInv, Typed, Safe, TypeOK, InHandIsOwed, Existing
    <3>2. Fresh(d) /\ Fresh(d)' /\ \A x \in Delivery : Fresh(x) => Fresh(x)'
      BY <2>2, <2>3, <3>1 DEF ReceiptsAreKept, Fresh
    <3>3. DuplicatesAreExcused'
      BY <2>2 DEF ReceiptsAreKept, DuplicatesAreExcused
    <3> QED
      BY <2>1, <2>2, <2>3, <2>4, <3>1, <3>2, <3>3 DEF ReceiptsAreKept, Fresh, OutcomePends
  <2>5. CASE d \notin Existing
    BY <2>1, <2>2, <2>3, <2>5, LettingGoKeepsReceipts DEF Abort
  <2> QED
    BY <2>4, <2>5
<1>2. CASE LookupEndpoint
  <2>1. /\ pc = "lookup" /\ pc' \in {"post", "write"}
        /\ pc' = "write" => answer' # "ok"
        /\ UNCHANGED <<status, cur, loaded, received, excused>>
    BY <1>2 DEF LookupEndpoint, rows, history
  <2>2. \A x : ~OutcomePends(x) /\ ~OutcomePends(x)'
    BY <2>1 DEF OutcomePends
  <2> QED
    BY <2>1, <2>2 DEF ReceiptsAreKept, DuplicatesAreExcused, Fresh
<1> QED
  BY <1>1, <1>2

\* A POST is of a fresh row; taken by the receiver, it is answered or excused.
LEMMA PostingKeepsReceipts ==
    ASSUME IInv, ReceiptsAreKept, PostRow
    PROVE  ReceiptsAreKept'
<1>1. /\ pc = "post" /\ pc' = "write"
      /\ UNCHANGED <<status, cur, loaded>>
      /\ \/ answer' = "ok" /\ Receive(cur) /\ excused' = excused
         \/ answer' = "error" /\ Receive(cur) /\ excused' = excused \cup {cur}
         \/ answer' = "error" /\ UNCHANGED <<received, excused>>
  BY DEF PostRow, rows
<1>2. cur \in Delivery /\ received \in [Delivery -> 0..2]
  BY <1>1 DEF IInv, Typed, TypeOK, HandIsRow
<1>3. \A d \in Delivery : ~OutcomePends(d)
  BY <1>1 DEF OutcomePends
<1>4. Fresh(cur) /\ loaded'.status \in {"pending", "delivering"}
  BY <1>1, <1>2, <1>3 DEF ReceiptsAreKept
<1>5. \A d \in Delivery \ {cur} : received'[d] = received[d]
  BY <1>1, <1>2 DEF Receive
<1>6. received'[cur] \in {received[cur], received[cur] + 1}
  BY <1>1, <1>2 DEF Receive
<1>7. \/ OutcomePends(cur)'
      \/ Fresh(cur)'
  BY <1>1, <1>4 DEF OutcomePends, Fresh
<1>8. \A d \in Delivery \ {cur} : Fresh(d) => Fresh(d)'
  BY <1>1, <1>5 DEF Fresh
<1>9. DuplicatesAreExcused'
  <2>1. ASSUME NEW d \in Delivery, received'[d] > 1
        PROVE  d \in excused'
    <3>1. CASE d = cur
      BY <1>1, <1>2, <1>4, <1>6, <2>1, <3>1 DEF Fresh
    <3>2. CASE d # cur
      BY <1>1, <1>5, <2>1, <3>2 DEF ReceiptsAreKept, DuplicatesAreExcused
    <3> QED
      BY <3>1, <3>2
  <2> QED
    BY <2>1 DEF DuplicatesAreExcused
<1>10. ASSUME NEW d \in Delivery, status'[d] \notin {"delivered", "gone"}
       PROVE  Fresh(d)' \/ OutcomePends(d)'
  <2>1. CASE d = cur
    BY <1>1, <1>7, <2>1 DEF Fresh, OutcomePends
  <2>2. CASE d # cur
    BY <1>1, <1>3, <1>8, <1>10, <2>2 DEF ReceiptsAreKept
  <2> QED
    BY <2>1, <2>2
<1>11. Fresh(cur)' \/ OutcomePends(cur)'
  BY <1>7
<1> QED
  BY <1>4, <1>9, <1>10, <1>11 DEF ReceiptsAreKept

\* Committing a claim or an outcome.
LEMMA CommittingKeepsReceipts ==
    ASSUME IInv, ReceiptsAreKept, CommitClaim \/ CommitOutcome
    PROVE  ReceiptsAreKept'
<1>1. CASE CommitClaim
  <2>1. /\ pc = "flush" /\ pc' \in {"next", "wait"}
        /\ UNCHANGED <<received, excused>>
    BY <1>1 DEF CommitClaim, Abort, history
  <2>2. \A d \in Delivery : status'[d] # status[d] => status[d] \in {"pending", "delivering"}
    <3>1. CASE batch \subseteq Existing
      <4>1. \A d \in batch : status[d] \in {"pending", "delivering"}
        BY <3>1, IdsAssumption DEF IInv, Safe, InHandIsOwed, Existing
      <4> QED
        BY <1>1, <3>1, <4>1 DEF CommitClaim
    <3>2. CASE ~(batch \subseteq Existing)
      BY <1>1, <3>2 DEF CommitClaim
    <3> QED
      BY <3>1, <3>2
  <2>3. \A d \in Delivery : ~OutcomePends(d)
    BY <2>1 DEF OutcomePends
  <2> QED
    BY <2>1, <2>2, <2>3, LettingGoKeepsReceipts
<1>2. CASE CommitOutcome
  <2>1. /\ pc = "write" /\ pc' \in {"next", "wait"}
        /\ UNCHANGED <<received, excused>>
    BY <1>2 DEF CommitOutcome, Abort, history
  <2>2. /\ cur \in Delivery /\ status \in [Delivery -> Statuses]
        /\ loaded.status \in {"pending", "delivering"}
    BY <2>1 DEF IInv, Typed, TypeOK, HandIsRow, ReceiptsAreKept
  <2>3. CASE cur \in Existing
    <3>1. status' = [status EXCEPT ![cur] = Flushed(loaded.status, NextStatus, @)]
      BY <1>2, <2>3 DEF CommitOutcome
    <3>2. status[cur] \in {"pending", "delivering"}
      BY <2>2, <2>3, IdsAssumption DEF IInv, Safe, InHandIsOwed, Existing
    <3>3. OutcomePends(cur) => status'[cur] = "delivered"
      BY <2>2, <3>1 DEF OutcomePends, Flushed, NextStatus
    <3>4. \A d \in Delivery \ {cur} : status'[d] = status[d] /\ ~OutcomePends(d)
      BY <2>2, <3>1 DEF OutcomePends
    <3> QED
      BY <2>1, <2>2, <3>2, <3>3, <3>4, LettingGoKeepsReceipts
  <2>4. CASE cur \notin Existing
    <3>1. UNCHANGED status
      BY <1>2, <2>4 DEF CommitOutcome
    <3>2. status[cur] = "gone"
      BY <2>1, <2>2, <2>4 DEF Existing, IInv, Safe, HandIsTaken
    <3> QED
      BY <2>1, <3>1, <3>2, LettingGoKeepsReceipts DEF OutcomePends
  <2> QED
    BY <2>3, <2>4
<1> QED
  BY <1>1, <1>2

\* Every step keeps what is known of the receipts.
LEMMA ReceiptsNext ==
    ASSUME IInv, RequestsNameRows, ReceiptsAreKept, [Next]_vars
    PROVE  ReceiptsAreKept'
<1>t. TypeOK
  BY DEF IInv, Typed
<1>1. CASE \E s \in Session : Request(s)
  <2>1. UNCHANGED dispatcher
    BY <1>1 DEF Request, BeginWrite, CommitWrite, CreateEndpoint, BeginUpdate, CommitUpdate,
       BeginDelete, CommitDelete, BeginRedeliver, CommitRedeliver, BeginRemove,
       CommitRemove, KeyViolation, Return, Begin, Committing
  <2> QED
    BY <1>1, <1>t, <2>1, RequestAdministers, AdministeringKeepsReceipts
<1>2. CASE Dispatch
  <2>1. CASE RecoverStale \/ SelectBatch \/ EndBatch \/ PurgeDelivered
    <3>1. /\ pc \notin {"lookup", "post", "write"}
          /\ pc' \notin {"lookup", "post", "write"}
          /\ UNCHANGED <<received, excused>>
      BY <2>1 DEF RecoverStale, SelectBatch, EndBatch, PurgeDelivered, history
    <3>2. \A d \in Delivery : status'[d] \notin {"delivered", "gone"} =>
                                  status[d] \notin {"delivered", "gone"}
      BY <2>1, <1>t DEF RecoverStale, Stale, SelectBatch, EndBatch, PurgeDelivered, Deleted,
                  rows, TypeOK
    <3> QED
      BY <3>1, <3>2, LettingGoKeepsReceipts DEF OutcomePends
  <2> QED
    BY <1>2, <2>1, TakingUpKeepsReceipts, PostingKeepsReceipts, CommittingKeepsReceipts
       DEF Dispatch
<1>3. CASE Tick \/ RetentionPasses \/ UNCHANGED vars
  <2>1. UNCHANGED <<status, posts, received, excused, dispatcher>>
    BY <1>3 DEF Tick, RetentionPasses, vars, rows, history
  <2> QED
    BY <2>1, IdleAdministers, AdministeringKeepsReceipts
<1>4. CASE Crash
  <2>1. /\ pc' = "wait" /\ UNCHANGED <<status, received>>
        /\ excused' = IF pc = "write" /\ answer = "ok" THEN excused \cup {cur} ELSE excused
    BY <1>4 DEF Crash, Abort, rows
  <2> QED
    BY <2>1, LettingGoKeepsReceipts DEF OutcomePends
<1> QED
  BY <1>1, <1>2, <1>3, <1>4 DEF Next

\* The invariant of the rows with that of the requests and of the receipts.
Kept == IInv /\ RequestsNameRows /\ ReceiptsAreKept

LEMMA KeptAlways == Spec => []Kept
<1>1. Init => Kept
  <2> SUFFICES ASSUME Init PROVE Kept
    OBVIOUS
  <2>1. RequestsNameRows
    BY DEF Init, RequestsNameRows, Idle
  <2>2. ReceiptsAreKept
    BY DEF Init, ReceiptsAreKept, DuplicatesAreExcused, Fresh
  <2> QED
    BY <2>1, <2>2, InvariantInit DEF Kept
<1>2. Kept /\ [Next]_vars => Kept'
  BY InvariantNext, RequestsNameRowsNext, ReceiptsNext DEF Kept, IInv
<1> QED
  BY <1>1, <1>2, PTL DEF Spec

\* A receiver has an event twice only after a lost answer, a crash between the
\* POST and the commit of its outcome, or an operator's redelivery.
THEOREM DuplicatesHaveExcuses == Spec => []DuplicatesAreExcused
<1>1. Kept => DuplicatesAreExcused
  BY DEF Kept, ReceiptsAreKept
<1> QED
  BY <1>1, KeptAlways, PTL

-----------------------------------------------------------------------------
(* The outbox implements its contract.                                     *)

\* Where an event stands, by the status of its row, and who has had it.
Promise == [d \in Delivery |->
              CASE status[d] = "none" -> "absent"
                [] Waiting(d)         -> "owed"
                [] status[d] = "gone" -> "removed"
                [] OTHER              -> status[d]]
Takers == {d \in Delivery : received[d] > 0}

\* The contract's actions, in terms of these.
LEMMA ContractActions ==
    /\ Contract!Administer <=>
          /\ \E new, again, gone \in SUBSET Delivery :
              /\ \A d \in new : Promise[d] = "absent"
              /\ \A d \in again : Promise[d] \in {"owed", "delivered", "dead"}
              /\ \A d \in gone : Promise[d] \in {"owed", "delivered", "dead"}
              /\ again \cap gone = {}
              /\ Promise' = [d \in Delivery |->
                               CASE d \in new \cup again -> "owed"
                                 [] d \in gone           -> "removed"
                                 [] OTHER                -> Promise[d]]
          /\ UNCHANGED <<posts, Takers>>
    /\ \A d : Contract!Offer(d) <=>
          /\ Promise[d] \in {"owed", "removed"}
          /\ posts' = [posts EXCEPT ![d] = IF @ < MaxAttempts THEN @ + 1 ELSE @]
          /\ Takers' \in {Takers, Takers \cup {d}}
          /\ UNCHANGED Promise
    /\ \A d : Contract!Confirm(d) <=>
          /\ Promise[d] = "owed"
          /\ d \in Takers
          /\ Promise' = [Promise EXCEPT ![d] = "delivered"]
          /\ UNCHANGED <<posts, Takers>>
    /\ \A d : Contract!GiveUp(d) <=>
          /\ Promise[d] = "owed"
          /\ posts[d] = MaxAttempts
          /\ Promise' = [Promise EXCEPT ![d] = "dead"]
          /\ UNCHANGED <<posts, Takers>>
  BY DEF Promise, Takers, Contract!Administer, Contract!Offer, Contract!Confirm,
         Contract!GiveUp

\* What changes neither the promises nor the history is a stutter of the contract.
LEMMA ContractStutters ==
    ASSUME UNCHANGED <<Promise, posts, Takers>>
    PROVE  UNCHANGED Contract!vars
  BY DEF Promise, Takers, Contract!vars

\* The empty outbox has promised nothing.
LEMMA ContractInit == Init => Contract!Init
  BY DEF Init, Contract!Init, Waiting

\* Where each status puts an event.
LEMMA PromiseOf ==
    ASSUME TypeOK, NEW d \in Delivery
    PROVE  /\ status[d] = "none" => Promise[d] = "absent"
           /\ status[d] \in {"pending", "delivering"} => Promise[d] = "owed"
           /\ status[d] = "delivered" => Promise[d] = "delivered"
           /\ status[d] = "dead" => Promise[d] = "dead"
           /\ status[d] = "gone" => Promise[d] = "removed"
           /\ d \in Existing => Promise[d] \in {"owed", "delivered", "dead"}
  BY DEF Promise, Waiting, TypeOK, Statuses, Existing

\* Administering the rows is the contract's Administer.
LEMMA AdministerMaps ==
    ASSUME TypeOK, TypeOK', RowsAdministered
    PROVE  Contract!Administer
<1> DEFINE new   == {d \in Delivery : status[d] = "none" /\ status'[d] = "pending"}
           again == {d \in Existing : status'[d] = "pending"}
           gone  == {d \in Existing : status'[d] = "gone"}
<1>1. /\ new \in SUBSET Delivery /\ again \in SUBSET Delivery /\ gone \in SUBSET Delivery
      /\ again \cap gone = {}
  BY DEF Existing
<1>2. /\ \A d \in new : Promise[d] = "absent"
      /\ \A d \in again : Promise[d] \in {"owed", "delivered", "dead"}
      /\ \A d \in gone : Promise[d] \in {"owed", "delivered", "dead"}
  BY PromiseOf DEF Existing
<1>3. ASSUME NEW d \in Delivery
      PROVE  Promise'[d] = CASE d \in new \cup again -> "owed"
                             [] d \in gone           -> "removed"
                             [] OTHER                -> Promise[d]
  <2>1. /\ status'[d] = "pending" => Promise'[d] = "owed"
        /\ status'[d] = "gone" => Promise'[d] = "removed"
        /\ status'[d] = status[d] => Promise'[d] = Promise[d]
    BY DEF Promise, Waiting
  <2>2. CASE d \in new \cup again
    BY <2>1, <2>2
  <2>3. CASE d \in gone
    BY <2>1, <2>3
  <2>4. CASE d \notin new \cup again \cup gone
    <3>1. status'[d] = status[d]
      BY <2>4 DEF RowsAdministered, Administered, Existing
    <3> QED
      BY <2>1, <2>4, <3>1
  <2> HIDE DEF new, again, gone
  <2> QED
    BY <1>1, <2>1, <2>2, <2>3, <2>4
<1>4. Promise' = [d \in Delivery |->
                    CASE d \in new \cup again -> "owed"
                      [] d \in gone           -> "removed"
                      [] OTHER                -> Promise[d]]
  <2>1. Promise' = [d \in Delivery |-> Promise'[d]]
    BY DEF Promise
  <2> HIDE DEF new, again, gone
  <2> QED
    BY <1>3, <2>1
<1>5. UNCHANGED <<posts, Takers>>
  BY DEF RowsAdministered, Takers
<1> HIDE DEF new, again, gone
<1> QED
  BY <1>1, <1>2, <1>4, <1>5, ContractActions

\* A POST is an offer of an event that is owed or was removed meanwhile.
LEMMA PostMaps ==
    ASSUME IInv, PostRow
    PROVE  \E d \in Delivery : Contract!Offer(d)
<1>1. cur \in Delivery /\ TypeOK /\ received \in [Delivery -> 0..2]
  BY DEF PostRow, IInv, Typed, TypeOK, HandIsRow
<1>2. status[cur] \in {"pending", "delivering", "gone"}
  BY <1>1, IdsAssumption DEF IInv, Safe, InHandIsOwed
<1>3. Promise[cur] \in {"owed", "removed"}
  BY <1>1, <1>2, PromiseOf
<1>4. UNCHANGED Promise
  BY DEF PostRow, rows, Promise, Waiting
<1>5. posts' = [posts EXCEPT ![cur] = IF @ < MaxAttempts THEN @ + 1 ELSE @]
  BY DEF PostRow
<1>6. Takers' \in {Takers, Takers \cup {cur}}
  <2>1. CASE UNCHANGED received
    BY <2>1 DEF Takers
  <2>2. CASE Receive(cur)
    <3>1. \A d \in Delivery : d \in Takers' <=> d \in Takers \cup {cur}
      BY <1>1, <2>2 DEF Receive, Takers
    <3> QED
      BY <1>1, <3>1 DEF Takers
  <2> QED
    BY <2>1, <2>2 DEF PostRow
<1> QED
  BY <1>1, <1>3, <1>4, <1>5, <1>6, ContractActions

\* Claiming rows changes nothing the contract speaks of.
LEMMA ClaimMaps ==
    ASSUME IInv, CommitClaim
    PROVE  UNCHANGED Contract!vars
<1>1. UNCHANGED <<posts, received>>
  BY DEF CommitClaim, history
<1>2. ASSUME NEW d \in Delivery
      PROVE  \/ status'[d] = status[d]
             \/ status[d] = "pending" /\ status'[d] = "delivering"
  BY IdsAssumption DEF CommitClaim, IInv, Typed, Safe, TypeOK, InHandIsOwed, Existing
<1>3. UNCHANGED Promise
  BY <1>2 DEF Promise, Waiting
<1> QED
  BY <1>1, <1>3, ContractStutters DEF Takers

\* An outcome confirms an event its receiver has had, gives up one that was
\* offered MaxAttempts times, or leaves it owed.
LEMMA OutcomeMaps ==
    ASSUME Kept, CommitOutcome
    PROVE  \/ \E d \in Delivery : Contract!Confirm(d) \/ Contract!GiveUp(d)
           \/ UNCHANGED Contract!vars
<1>1. /\ pc = "write" /\ UNCHANGED <<posts, received, Takers>>
  BY DEF CommitOutcome, history, Takers
<1>2. /\ TypeOK /\ cur \in Delivery /\ loaded.status \in {"pending", "delivering"}
      /\ status \in [Delivery -> Statuses]
      /\ posts \in [Delivery -> 0..MaxAttempts] /\ loaded.attempts \in Nat
  BY <1>1 DEF Kept, IInv, Typed, TypeOK, HandIsRow, ReceiptsAreKept
<1>3. CASE cur \notin Existing
  <2>1. UNCHANGED Promise
    BY <1>3 DEF CommitOutcome, Promise, Waiting
  <2> QED
    BY <1>1, <2>1, ContractStutters
<1>4. CASE cur \in Existing
  <2>1. status[cur] \in {"pending", "delivering"}
    BY <1>2, <1>4, IdsAssumption DEF Kept, IInv, Safe, InHandIsOwed, Existing
  <2>2. answer \in {"ok", "error", "disabled"}
    BY <1>1, <1>2, <1>4 DEF Kept, IInv, Typed, Safe, AnswerIsTrue, KeysAreValid, Present,
                            HandIsRow, TypeOK
  <2>3. status' = [status EXCEPT ![cur] = Flushed(loaded.status, NextStatus, @)]
    BY <1>4 DEF CommitOutcome
  <2>4. /\ Promise[cur] = "owed"
        /\ \A d \in Delivery \ {cur} : Promise'[d] = Promise[d]
        /\ status'[cur] \in {"pending", "delivering"} => Promise'[cur] = "owed"
        /\ status'[cur] \in {"delivered", "dead"} => Promise'[cur] = status'[cur]
    BY <1>2, <2>1, <2>3 DEF Promise, Waiting
  <2>5. /\ Promise = [d \in Delivery |-> Promise[d]]
        /\ Promise' = [d \in Delivery |-> Promise'[d]]
    BY DEF Promise
  <2>6. CASE answer = "ok"
    <3>1. status'[cur] = "delivered"
      BY <1>2, <2>3, <2>6 DEF Flushed, NextStatus
    <3>2. Promise' = [Promise EXCEPT ![cur] = "delivered"]
      BY <1>2, <2>4, <2>5, <3>1
    <3>3. cur \in Takers
      BY <1>1, <1>2, <2>6 DEF Kept, IInv, Safe, AnswerIsTrue, Takers
    <3> QED
      BY <1>1, <1>2, <2>4, <3>2, <3>3, ContractActions
  <2>7. CASE answer = "error" /\ Exhausted
    <3>1. status'[cur] = "dead"
      BY <1>2, <2>3, <2>7 DEF Flushed, NextStatus
    <3>2. Promise' = [Promise EXCEPT ![cur] = "dead"]
      BY <1>2, <2>4, <2>5, <3>1
    <3>3. posts[cur] = MaxAttempts
      BY <1>1, <1>2, <2>7, BackoffAssumption DEF Kept, IInv, Safe, AttemptsAreOffers,
                                                 Offered, Exhausted
    <3> QED
      BY <1>1, <1>2, <2>4, <3>2, <3>3, ContractActions
  <2>8. CASE answer = "disabled" \/ (answer = "error" /\ ~Exhausted)
    <3>1. NextStatus = "pending"
      BY <2>8 DEF NextStatus
    <3>2. status'[cur] \in {"pending", "delivering"}
      BY <1>2, <2>1, <2>3, <3>1 DEF Flushed
    <3>3. UNCHANGED Promise
      BY <2>4, <2>5, <3>2
    <3> QED
      BY <1>1, <3>3, ContractStutters
  <2> QED
    BY <2>2, <2>6, <2>7, <2>8
<1> QED
  BY <1>3, <1>4

\* Every step of the outbox is a step of the contract or changes nothing in it.
LEMMA StepMaps ==
    ASSUME Kept, Kept', [Next]_vars
    PROVE  [Contract!Next]_(Contract!vars)
<1>t. IInv /\ Typed /\ TypeOK /\ TypeOK' /\ RequestsNameRows
  BY DEF Kept, IInv, Typed
<1>1. CASE RowsAdministered
  BY <1>t, <1>1, AdministerMaps DEF Contract!Next
<1>2. CASE CommitClaim
  BY <1>t, <1>2, ClaimMaps
<1>3. CASE PostRow
  BY <1>t, <1>3, PostMaps DEF Contract!Next
<1>4. CASE CommitOutcome
  BY <1>t, <1>4, OutcomeMaps DEF Contract!Next
<1> QED
  BY <1>t, <1>1, <1>2, <1>3, <1>4, StepsOfRows

\* The tables, the dispatcher and the administrators together do what the
\* contract says: an event stays owed until its receiver has had it, until it
\* was offered MaxAttempts times, or until somebody removes it.
THEOREM OutboxImplementsContract == Spec => ImplementsContract
<1>1. Kept /\ Kept' /\ [Next]_vars => [Contract!Next]_(Contract!vars)
  BY StepMaps
<1> QED
  BY <1>1, ContractInit, KeptAlways, PTL DEF Spec, ImplementsContract, Contract!Spec
=============================================================================
