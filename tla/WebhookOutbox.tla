---------------------------- MODULE WebhookOutbox ----------------------------
(***************************************************************************)
(* The outbound webhooks of IPForge: a transactional outbox filled by      *)
(* write_audit (core/audit.py, webhook_outbox.py), the admin API over      *)
(* endpoints and deliveries (api/webhooks.py), and the one dispatcher      *)
(* thread that claims, posts and retries rows (webhook_dispatcher.py).     *)
(*                                                                         *)
(* A request of the API is a database session: it reads when it begins and *)
(* writes when it commits, and anything may commit in between (PostgreSQL  *)
(* READ COMMITTED).  The ORM writes only the columns whose new value       *)
(* differs from the value the session loaded (operator Flushed), and       *)
(* raises when the row it updates has disappeared.                         *)
(*                                                                         *)
(* Time: age[d] is "now - next_attempt_at" of row d in clock units,        *)
(* negative while the row is backing off, saturated at ClaimTimeout.  Only  *)
(* the age of a waiting row is ever looked at; that of a settled row is     *)
(* zero here, and so are the columns of a row that was deleted.             *)
(***************************************************************************)
EXTENDS Integers, Sequences, FiniteSets, Functions

CONSTANTS
    Endpoint,      \* ids of webhook_endpoints rows, each used at most once
    Delivery,      \* ids of webhook_deliveries rows, each used at most once
    NoDelivery,    \* no row
    Session,       \* API requests that may be in progress together
    WriteKind,     \* (resource_type, action) pairs of the other audited writes
    Filters,       \* the event filters an administrator may configure
    Backoff,       \* BACKOFF_MINUTES, in clock units
    MaxAttempts,   \* MAX_ATTEMPTS
    ClaimTimeout,  \* CLAIM_TIMEOUT_MINUTES, in clock units
    BatchLimit,    \* rows claimed by a tick (.limit(50))
    MaxCrashes,    \* bound: process restarts
    MaxRedeliver   \* bound: redeliver requests

EndpointKind == "webhook_endpoint"
DeliveryKind == "webhook_delivery"
Kind == WriteKind \cup {EndpointKind, DeliveryKind}

ASSUME BackoffAssumption ==
    /\ MaxAttempts \in Nat \ {0}
    /\ Backoff \in Seq(Nat)
    /\ Len(Backoff) >= MaxAttempts - 1
ASSUME LimitsAssumption ==
    /\ ClaimTimeout \in Nat
    /\ BatchLimit \in Nat \ {0}
    /\ MaxCrashes \in Nat
    /\ MaxRedeliver \in Nat
ASSUME IdsAssumption ==
    /\ NoDelivery \notin Delivery
    /\ Endpoint # {}
ASSUME FiltersAssumption == Filters \subseteq SUBSET Kind

VARIABLES
    epState,    \* endpoint rows: "unused", "on", "off", "deleted"
    wants,      \* the kinds an endpoint's filters let through
    status,     \* delivery rows: "none" (no row yet), the statuses, "gone"
    attempts,
    age,        \* now - next_attempt_at
    dest,       \* endpoint_id
    old,        \* rows created more than RETENTION_DAYS ago
    session,    \* what each API request has read and is about to commit
    pc,         \* where the dispatcher thread is
    batch,      \* claimed rows it has not taken up yet
    cur,        \* the row in hand
    loaded,     \* status and attempts of that row as the session loaded them
    answer,     \* how its delivery went
    posts,      \* history: POSTs sent for each row, counted up to MaxAttempts
    received,   \* history: POSTs the receiver took, counted up to two
    excused,    \* history: rows that may be posted again after being received
    crashes, redeliveries

endpoints  == <<epState, wants>>
rows       == <<status, attempts, age, dest, old>>
dispatcher == <<pc, batch, cur, loaded, answer>>
history    == <<posts, received, excused>>
bounds     == <<crashes, redeliveries>>
vars == <<endpoints, rows, session, dispatcher, history, bounds>>

Statuses == {"none", "pending", "delivering", "delivered", "dead", "gone"}
Existing == {d \in Delivery : status[d] \notin {"none", "gone"}}
Present  == {e \in Endpoint : epState[e] \in {"on", "off"}}
Idle     == [op |-> "idle"]

\* A changed attribute is written, an unchanged one is left to the database.
Flushed(was, new, inDb) == IF new = was THEN inDb ELSE new

-----------------------------------------------------------------------------
(* Filling the outbox: enqueue_webhooks, called by write_audit.            *)

\* The enabled endpoints whose filters match, as the session sees them.
Targets(kind) == {e \in Endpoint : epState[e] = "on" /\ kind \in wants[e]}

\* The delivery rows as the caller's own writes leave them.
Table == [status |-> status, attempts |-> attempts, age |-> age, old |-> old]
Deleted(D) ==
    [status   |-> [d \in Delivery |-> IF d \in D THEN "gone" ELSE status[d]],
     attempts |-> [d \in Delivery |-> IF d \in D THEN 0 ELSE attempts[d]],
     age      |-> [d \in Delivery |-> IF d \in D THEN 0 ELSE age[d]],
     old      |-> old \ D]

\* Row d is back in the queue; "was" and "made" are its status and attempts
\* as the session loaded them.
Requeued(d, was, made) ==
    [status   |-> [status EXCEPT ![d] = Flushed(was, "pending", @)],
     attempts |-> [attempts EXCEPT ![d] = Flushed(made, 0, @)],
     age      |-> [age EXCEPT ![d] = 0],
     old      |-> old]

\* The commit of a session: its own writes and a row for each endpoint in
\* "to", pending, with no attempt made and due now.
Enqueue(to, table) ==
    \E id \in Injection(to, {d \in Delivery : status[d] = "none"}) :
        LET new == {id[e] : e \in to} IN
        /\ status' = [d \in Delivery |->
                        IF d \in new THEN "pending" ELSE table.status[d]]
        /\ attempts' = table.attempts
        /\ age' = table.age
        /\ dest' = [d \in Delivery |->
                      IF d \in new THEN CHOOSE e \in to : id[e] = d ELSE dest[d]]
        /\ old' = table.old

\* The foreign key of the new rows holds: no target was deleted meanwhile.
KeysHold(to) == to \subseteq Present

\* The commit of session s is refused by that foreign key and the request,
\* audited write included, ends in an error.
KeyViolation(s) ==
    /\ session[s].op \notin {"idle", "failed"}
    /\ ~KeysHold(session[s].to)
    /\ session' = [session EXCEPT ![s] = [op |-> "failed"]]
    /\ UNCHANGED <<endpoints, rows, dispatcher, history, bounds>>

Return(s) ==
    /\ session[s].op = "failed"
    /\ session' = [session EXCEPT ![s] = Idle]
    /\ UNCHANGED <<endpoints, rows, dispatcher, history, bounds>>

Begin(s, request) ==
    /\ session[s] = Idle
    /\ session' = [session EXCEPT ![s] = request]
    /\ UNCHANGED <<endpoints, rows, dispatcher, history>>

Committing(s, op) ==
    /\ session[s].op = op
    /\ session' = [session EXCEPT ![s] = Idle]
    /\ UNCHANGED <<dispatcher, bounds>>

\* Any audited write of the rest of the application.
BeginWrite(s) ==
    /\ \E kind \in WriteKind : Begin(s, [op |-> "write", to |-> Targets(kind)])
    /\ UNCHANGED bounds

CommitWrite(s) ==
    /\ Committing(s, "write")
    /\ KeysHold(session[s].to)
    /\ Enqueue(session[s].to, Table)
    /\ UNCHANGED <<endpoints, history>>

-----------------------------------------------------------------------------
(* The admin API over endpoints.                                           *)

\* create_endpoint flushes the row before auditing, so an enabled endpoint
\* that wants its own creation hears of it.
CreateEndpoint(s) ==
    /\ session[s] = Idle
    /\ \E e \in Endpoint, on \in {"on", "off"}, filter \in Filters :
        LET self == IF on = "on" /\ EndpointKind \in filter THEN {e} ELSE {} IN
        /\ epState[e] = "unused"
        /\ epState' = [epState EXCEPT ![e] = on]
        /\ wants' = [wants EXCEPT ![e] = filter]
        /\ Enqueue(Targets(EndpointKind) \cup self, Table)
    /\ UNCHANGED <<session, dispatcher, history, bounds>>

\* update_endpoint changes the object without flushing before the audit reads
\* the endpoints: "enabled" is filtered in SQL on the stored value, the event
\* filters are matched on the object's new value.
BeginUpdate(s) ==
    /\ \E e \in Present, on \in {"on", "off"}, filter \in Filters :
        Begin(s, [op |-> "update", ep |-> e, set |-> on, was |-> epState[e],
                  filter |-> filter,
                  to |-> (Targets(EndpointKind) \ {e}) \cup
                         (IF epState[e] = "on" /\ EndpointKind \in filter
                          THEN {e} ELSE {})])
    /\ UNCHANGED bounds

CommitUpdate(s) ==
    LET r == session[s] IN
    /\ Committing(s, "update")
    /\ KeysHold(r.to)
    /\ IF r.ep \in Present
       THEN /\ epState' = [epState EXCEPT ![r.ep] = Flushed(r.was, r.set, @)]
            /\ wants' = [wants EXCEPT ![r.ep] = r.filter]
            /\ Enqueue(r.to, Table)
       ELSE UNCHANGED <<endpoints, rows>>   \* the row has disappeared
    /\ UNCHANGED history

\* delete_endpoint takes the endpoint's rows with it, those the audit of the
\* deletion has just addressed to it included.
BeginDelete(s) ==
    /\ \E e \in Present :
        Begin(s, [op |-> "delete", ep |-> e, to |-> Targets(EndpointKind)])
    /\ UNCHANGED bounds

CommitDelete(s) ==
    LET r == session[s]
        cascaded == {d \in Existing : dest[d] = r.ep}
    IN
    /\ Committing(s, "delete")
    /\ KeysHold(r.to)
    /\ epState' = [epState EXCEPT ![r.ep] = "deleted"]
    /\ Enqueue(r.to \ {r.ep}, Deleted(cascaded))
    /\ UNCHANGED <<wants, history>>
-----------------------------------------------------------------------------
(* The admin API over deliveries.                                          *)

\* redeliver answers 409 for a row it sees in flight.
BeginRedeliver(s) ==
    /\ redeliveries < MaxRedeliver
    /\ redeliveries' = redeliveries + 1
    /\ \E d \in Existing :
        /\ status[d] # "delivering"
        /\ Begin(s, [op |-> "redeliver", row |-> d, status |-> status[d],
                     attempts |-> attempts[d], to |-> Targets(DeliveryKind)])
    /\ UNCHANGED crashes

CommitRedeliver(s) ==
    LET r == session[s] IN
    /\ Committing(s, "redeliver")
    /\ KeysHold(r.to)
    /\ IF r.row \in Existing
       THEN /\ Enqueue(r.to, Requeued(r.row, r.status, r.attempts))
            /\ excused' = IF r.status = "pending" THEN excused
                                                  ELSE excused \cup {r.row}
       ELSE UNCHANGED <<rows, excused>>     \* the row has disappeared
    /\ UNCHANGED <<endpoints, posts, received>>

\* delete_delivery has no guard against a row in flight.
BeginRemove(s) ==
    /\ \E d \in Existing :
        Begin(s, [op |-> "remove", row |-> d, to |-> Targets(DeliveryKind)])
    /\ UNCHANGED bounds

CommitRemove(s) ==
    LET r == session[s] IN
    /\ Committing(s, "remove")
    /\ KeysHold(r.to)
    /\ Enqueue(r.to, Deleted({r.row}))
    /\ UNCHANGED <<endpoints, history>>

-----------------------------------------------------------------------------
(* The dispatcher thread.                                                  *)

\* _deliver_one returns and its locals are gone.
NotLoaded == [status |-> "none", attempts |-> 0]
LetGo ==
    /\ cur' = NoDelivery
    /\ loaded' = NotLoaded
    /\ answer' = "none"

\* An exception leaves dispatch_tick: the loop logs it and the tick is over.
Abort ==
    /\ pc' = "wait"
    /\ batch' = {}
    /\ LetGo

\* Claims older than the cutoff, by their due time, go back to the queue.
\* Mutant: the recovery looks for the wrong status.
StaleMissed(d) == status[d] = "pending" /\ age[d] >= ClaimTimeout
Stale(d) == status[d] = "delivering" /\ age[d] >= ClaimTimeout

RecoverStale ==
    /\ pc = "wait"
    /\ pc' = "claim"
    /\ status' = [d \in Delivery |-> IF Stale(d) THEN "pending" ELSE status[d]]
    /\ UNCHANGED <<attempts, age, dest, old, batch, cur, loaded, answer,
                   endpoints, session, history, bounds>>

Due == {d \in Delivery : /\ status[d] = "pending"
                         /\ age[d] >= 0
                         /\ epState[dest[d]] = "on"}

\* The query has no order, so a tick may pick any BatchLimit of the due rows.
SelectBatch ==
    /\ pc = "claim"
    /\ \E B \in SUBSET Due :
        /\ Cardinality(B) <= BatchLimit
        /\ B # Due => Cardinality(B) = BatchLimit
        /\ batch' = B
    /\ pc' = "flush"
    /\ UNCHANGED <<cur, loaded, answer, endpoints, rows, session, history, bounds>>

\* The claim is committed for the whole batch, or for none of it when a row
\* was removed after the query.
CommitClaim ==
    /\ pc = "flush"
    /\ IF batch \subseteq Existing
       THEN /\ status' = [d \in Delivery |->
                            IF d \in batch THEN "delivering" ELSE status[d]]
            /\ pc' = "next"
            /\ UNCHANGED <<batch, cur, loaded, answer>>
       ELSE /\ Abort
            /\ UNCHANGED status
    /\ UNCHANGED <<attempts, age, dest, old, endpoints, session, history, bounds>>

\* _deliver_one refreshes the row (the commit before expired it); a row that
\* has disappeared raises, and the rest of the batch stays "delivering".
RefreshRow ==
    /\ pc = "next"
    /\ \E d \in batch :
        IF d \in Existing
        THEN /\ cur' = d
             /\ batch' = batch \ {d}
             /\ loaded' = [status |-> status[d], attempts |-> attempts[d]]
             /\ pc' = "lookup"
             /\ UNCHANGED answer
        ELSE Abort
    /\ UNCHANGED <<endpoints, rows, session, history, bounds>>

\* The endpoint is read again so that a deletion or a disabling after the
\* claim is honoured.
LookupEndpoint ==
    /\ pc = "lookup"
    /\ \/ /\ epState[dest[cur]] = "on"
          /\ pc' = "post"
          /\ UNCHANGED answer
       \/ /\ epState[dest[cur]] = "off"
          /\ pc' = "write"
          /\ answer' = "disabled"
       \/ /\ epState[dest[cur]] = "deleted"
          /\ pc' = "write"
          /\ answer' = "no endpoint"
    /\ UNCHANGED <<batch, cur, loaded, endpoints, rows, session, history, bounds>>

\* One POST: taken by the receiver and answered 2xx; taken but the answer is
\* lost (a timeout) or not 2xx; or not taken at all.
Receive(d) == received' = [received EXCEPT ![d] = IF @ < 2 THEN @ + 1 ELSE @]
PostRow ==
    /\ pc = "post"
    /\ pc' = "write"
    /\ posts' = [posts EXCEPT ![cur] = IF @ < MaxAttempts THEN @ + 1 ELSE @]
    /\ \/ /\ answer' = "ok"
          /\ Receive(cur)
          /\ UNCHANGED excused
       \/ /\ answer' = "error"
          /\ Receive(cur)
          /\ excused' = excused \cup {cur}
       \/ /\ answer' = "error"
          /\ UNCHANGED <<received, excused>>
    /\ UNCHANGED <<batch, cur, loaded, endpoints, rows, session, bounds>>

\* The status and the retry that each answer calls for (_schedule_retry).
\* Mutant: the row is given up one attempt early.
ExhaustedEarly == loaded.attempts + 2 >= MaxAttempts
Exhausted == loaded.attempts + 1 >= MaxAttempts

\* Mutants: an answer that is not 2xx counts as a delivery; a delivery is
\* never recorded; a failure gets a status of its own.
NextStatusOnAnyAnswer ==
    CASE answer \in {"ok", "error"} -> "delivered"
      [] answer = "disabled"        -> "pending"
      [] answer = "no endpoint"     -> "dead"
NextStatusUnmarked ==
    CASE answer \in {"ok", "disabled"} -> "pending"
      [] answer = "no endpoint"        -> "dead"
      [] answer = "error"              -> IF Exhausted THEN "dead" ELSE "pending"
NextStatus ==
    CASE answer = "ok"          -> "delivered"
      [] answer = "disabled"    -> "pending"
      [] answer = "no endpoint" -> "dead"
      [] answer = "error"       -> IF Exhausted THEN "dead" ELSE "pending"

\* The outcome is committed; a row that has disappeared raises.
CommitOutcome ==
    /\ pc = "write"
    /\ IF cur \in Existing
       THEN /\ status' = [status EXCEPT ![cur] = Flushed(loaded.status, NextStatus, @)]
            /\ attempts' = IF answer = "error"
                           THEN [attempts EXCEPT ![cur] = loaded.attempts + 1]
                           ELSE attempts
            /\ age' = CASE answer = "error" /\ ~Exhausted ->
                             [age EXCEPT ![cur] = -Backoff[loaded.attempts + 1]]
                        [] NextStatus = "pending" -> age
                        [] OTHER -> [age EXCEPT ![cur] = 0]
            /\ pc' = "next"
            /\ LetGo
            /\ UNCHANGED batch
       ELSE /\ Abort
            /\ UNCHANGED <<status, attempts, age>>
    /\ UNCHANGED <<dest, old, endpoints, session, history, bounds>>

EndBatch ==
    /\ pc = "next"
    /\ batch = {}
    /\ pc' = "purge"
    /\ UNCHANGED <<batch, cur, loaded, answer, endpoints, rows, session, history, bounds>>

\* purge_delivered, when the hourly purge is due.
PurgeDelivered ==
    /\ pc = "purge"
    /\ pc' = "wait"
    /\ \/ LET purged == {d \in old : status[d] = "delivered"} IN
          /\ status' = Deleted(purged).status
          /\ attempts' = Deleted(purged).attempts
          /\ old' = old \ purged
       \/ UNCHANGED <<status, attempts, old>>
    /\ UNCHANGED <<age, dest, batch, cur, loaded, answer,
                   endpoints, session, history, bounds>>

-----------------------------------------------------------------------------
(* Time and the process.                                                   *)

Waiting(d) == status[d] \in {"pending", "delivering"}

\* Time passes.  Only a waiting row's age is ever looked at, so the others
\* are left where they are.  The recovery and the claim of a tick use one "now",
\* hence the first guard.
Tick ==
    /\ pc # "claim"
    /\ \E d \in Delivery : Waiting(d) /\ age[d] < ClaimTimeout
    /\ age' = [d \in Delivery |-> IF Waiting(d) /\ age[d] < ClaimTimeout
                                  THEN age[d] + 1 ELSE age[d]]
    /\ UNCHANGED <<status, attempts, dest, old, endpoints, session, dispatcher,
                   history, bounds>>

\* RETENTION_DAYS pass.
RetentionPasses ==
    /\ pc = "wait"
    /\ \A s \in Session : session[s] = Idle
    /\ old' = Existing
    /\ age' = [d \in Delivery |-> IF Waiting(d) THEN ClaimTimeout ELSE age[d]]
    /\ UNCHANGED <<status, attempts, dest, endpoints, session, dispatcher,
                   history, bounds>>

\* The API process dies and is started again: what was not committed is lost,
\* and so is the outcome of a POST already answered.
Crash ==
    /\ crashes < MaxCrashes
    /\ crashes' = crashes + 1
    /\ Abort
    /\ session' = [s \in Session |-> Idle]
    /\ excused' = IF pc = "write" /\ answer = "ok" THEN excused \cup {cur} ELSE excused
    /\ UNCHANGED <<endpoints, rows, posts, received, redeliveries>>

-----------------------------------------------------------------------------
Init ==
    /\ epState \in [Endpoint -> {"unused", "on", "off"}]
    /\ wants \in [Endpoint -> Filters]
    /\ status = [d \in Delivery |-> "none"]
    /\ attempts = [d \in Delivery |-> 0]
    /\ age = [d \in Delivery |-> 0]
    /\ dest \in {[d \in Delivery |-> e] : e \in {CHOOSE e \in Endpoint : TRUE}}
    /\ old = {}
    /\ session = [s \in Session |-> Idle]
    /\ pc = "wait"
    /\ batch = {}
    /\ cur = NoDelivery
    /\ loaded = NotLoaded
    /\ answer = "none"
    /\ posts = [d \in Delivery |-> 0]
    /\ received = [d \in Delivery |-> 0]
    /\ excused = {}
    /\ crashes = 0
    /\ redeliveries = 0

Request(s) ==
    \/ BeginWrite(s) \/ CommitWrite(s)
    \/ CreateEndpoint(s)
    \/ BeginUpdate(s) \/ CommitUpdate(s)
    \/ BeginDelete(s) \/ CommitDelete(s)
    \/ BeginRedeliver(s) \/ CommitRedeliver(s)
    \/ BeginRemove(s) \/ CommitRemove(s)
    \/ KeyViolation(s) \/ Return(s)

Dispatch ==
    \/ RecoverStale \/ SelectBatch \/ CommitClaim
    \/ RefreshRow \/ LookupEndpoint \/ PostRow \/ CommitOutcome
    \/ EndBatch \/ PurgeDelivered

Next ==
    \/ \E s \in Session : Request(s)
    \/ Dispatch
    \/ Tick
    \/ RetentionPasses
    \/ Crash

Spec == Init /\ [][Next]_vars

\* The dispatcher is a loop that never exits and whose POSTs time out; the
\* clock never stops for good (strong fairness: Tick is disabled for a moment
\* in every round of the loop).  Nothing is assumed of administrators or of
\* other requests.
FairSpec == Spec /\ WF_vars(Dispatch) /\ SF_vars(Tick)

-----------------------------------------------------------------------------
(* Properties.                                                             *)

Requests ==
    {Idle, [op |-> "failed"]}
    \cup [op : {"write"}, to : SUBSET Endpoint]
    \cup [op : {"update"}, ep : Endpoint, set : {"on", "off"}, was : {"on", "off"},
          filter : Filters, to : SUBSET Endpoint]
    \cup [op : {"delete"}, ep : Endpoint, to : SUBSET Endpoint]
    \cup [op : {"redeliver"}, row : Delivery, status : Statuses,
          attempts : Nat, to : SUBSET Endpoint]
    \cup [op : {"remove"}, row : Delivery, to : SUBSET Endpoint]

\* The values the tables, the requests and the dispatcher's locals range over.
TypeOK ==
    /\ epState \in [Endpoint -> {"unused", "on", "off", "deleted"}]
    /\ wants \in [Endpoint -> Filters]
    /\ status \in [Delivery -> Statuses]
    /\ attempts \in [Delivery -> Nat]
    /\ age \in [Delivery -> Int]
    /\ dest \in [Delivery -> Endpoint]
    /\ old \subseteq Delivery
    /\ session \in [Session -> Requests]
    /\ pc \in {"wait", "claim", "flush", "next", "lookup", "post", "write", "purge"}
    /\ batch \subseteq Delivery
    /\ cur \in Delivery \cup {NoDelivery}
    /\ loaded \in [status : Statuses, attempts : Nat]
    /\ answer \in {"none", "ok", "error", "disabled", "no endpoint"}
    /\ posts \in [Delivery -> 0..MaxAttempts]
    /\ received \in [Delivery -> 0..2]
    /\ excused \subseteq Delivery
    /\ crashes \in 0..MaxCrashes
    /\ redeliveries \in 0..MaxRedeliver

\* A row marked delivered was taken by its receiver, whatever crashed, was
\* redelivered or deleted around the POST (the outcome is committed last).
DeliveredWasReceived == \A d \in Delivery : status[d] = "delivered" => received[d] > 0

\* A dead letter was offered MaxAttempts times: neither a crash, nor a claim
\* recovered, nor an endpoint disabled after the claim uses up an attempt.
DeadWasOffered == \A d \in Delivery : status[d] = "dead" => posts[d] = MaxAttempts

\* Delivery is at least once, and a second receipt always has one of three
\* causes: the first answer was lost, the process died before the outcome was
\* committed, or an operator asked for a redelivery.
DuplicatesAreExcused == \A d \in Delivery : received[d] > 1 => d \in excused

\* The dispatcher only handles rows that are still owed or were removed under
\* its hands, so no outcome it commits can overwrite a settled row.
InHandIsOwed ==
    \A d \in (batch \cup {cur}) \ {NoDelivery} :
         status[d] \in {"pending", "delivering", "gone"}

\* The outbox does what its contract says.
Contract == INSTANCE OutboxContract WITH
    promise <- [d \in Delivery |->
                  CASE status[d] = "none" -> "absent"
                    [] Waiting(d)         -> "owed"
                    [] status[d] = "gone" -> "removed"
                    [] OTHER              -> status[d]],
    offered <- posts,
    received <- {d \in Delivery : received[d] > 0}
ImplementsContract == Contract!Spec

\* A row whose endpoint stays enabled is settled in the end: delivered, dead
\* or removed, also when a tick was aborted or the process died.  No row is left
\* in flight for ever, not even one whose endpoint has been disabled: a claim is
\* released by its delivery or by the stale recovery.
OwedIsSettled ==
    \A d \in Delivery :
        /\ Waiting(d) ~> (~Waiting(d) \/ epState[dest[d]] # "on")
        /\ status[d] = "delivering" ~> status[d] # "delivering"

\* What core/audit.py says: "Never let webhook plumbing break the audited
\* operation itself."
PlumbingNeverBreaksWrite == \A s \in Session : session[s].op # "failed"

\* What webhook_dispatcher.py says of the stale recovery: "Only ever fires
\* across a process restart".
RecoveryOnlyAfterRestart ==
    [][crashes = 0 /\ pc = "wait" /\ pc' = "claim" => status' = status]_vars

\* What the user guide says: "a delivery whose endpoint is deleted mid-flight
\* is dead-lettered".
DeletedMidFlightIsDead ==
    [][\A d \in Delivery :
         status[d] = "delivering" /\ status'[d] = "gone" => epState'[dest[d]] # "deleted"]_vars
=============================================================================
