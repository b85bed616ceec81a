--------------------------- MODULE AlertingProofs ---------------------------
(***************************************************************************)
(* Proofs about Alerting, for any rules, resources, cadences and number of *)
(* triggers, faults and restarts.                                          *)
(*                                                                         *)
(* Recording an event, offering it and marking it are three transactions,  *)
(* between which anything may be acknowledged, deleted, or fail.  The      *)
(* invariant says what is true of an event in each gap.                    *)
(***************************************************************************)
EXTENDS Alerting, FiniteSetTheorems, TLAPS

-----------------------------------------------------------------------------
(* The inductive invariant.                                                *)

Delivering(i) == pc = "deliver" /\ cur = i
Marking(i) == pc = "fired" /\ cur = i

\* An event that fires, or is about to be offered, was not offered in vain.
LateOnce ==
    \A i \in EventId : /\ offers[i].late <= 1
                       /\ events[i].state = "firing" \/ Delivering(i) => offers[i].late = 0

\* A firing event is no older than its last offer, but between the offer and
\* its mark, or if the mark was lost.
AgeAgrees ==
    \A i \in EventId :
        events[i].state = "firing" /\ offers[i].sent /\ i \notin cut /\ ~Marking(i)
        => events[i].age <= offers[i].quiet

\* An event that is about to be offered again is due.
DueAgain ==
    \A i \in EventId : Delivering(i) /\ offers[i].sent /\ i \notin cut =>
        \A r \in Rule : events[i].rule = r => Renotify[r] # 0 /\ offers[i].quiet >= Renotify[r]

History == OneFiringEvent /\ RecordedIsOffered /\ LateOnce /\ AgeAgrees /\ DueAgain

\* What the dispatcher looks at to resolve it has been recorded.
TodoRecorded == pc = "resolve" => \A p \in todo : events[p[1]].state # "none"

IInv == TypeOK /\ History /\ TodoRecorded

-----------------------------------------------------------------------------
(* Types.                                                                  *)

LEMMA Bounds == /\ MaxAge \in Nat /\ MaxLevel \in Nat /\ MaxUpsets \in Nat
                /\ 0 \notin EventId /\ NoRule \notin Rule
                /\ \A r \in Rule : Renotify[r] \in 0..MaxAge
BY AlertAssumption

LEMMA RowEdits ==
    ASSUME NEW e \in EventRow
    PROVE  /\ Fired(e) \in EventRow /\ Fired(e).rule = e.rule /\ Fired(e).key = e.key
           /\ Fired(e).state = e.state /\ Fired(e).age = 0
           /\ [e EXCEPT !.rule = NoRule] \in EventRow
           /\ [e EXCEPT !.state = "resolved", !.age = 0] \in EventRow
           /\ [e EXCEPT !.age = 0] \in EventRow
           /\ [e EXCEPT !.age = Older(@)] \in EventRow
<1>1. 0 \in 0..MaxAge /\ Older(e.age) \in 0..MaxAge
  BY Bounds DEF Older, EventRow
<1> QED
  BY <1>1 DEF Fired, EventRow

LEMMA ResolvedIs ==
    ASSUME TypeOK, NEW i \in EventId
    PROVE  Resolved(i) = [events EXCEPT ![i] = [events[i] EXCEPT !.state = "resolved", !.age = 0]]
BY DEF Resolved, TypeOK, EventRow

LEMMA QueueTyped ==
    ASSUME TypeOK
    PROVE  /\ batch # <<>> => Key \in Resource /\ Rest \in Seq(Resource)
           /\ \A k \in Resource : Append(queue, k) \in Seq(Resource)
           /\ Elements(queue) \cup Elements(batch) \subseteq Resource
BY DEF TypeOK, Key, Rest, Elements

\* The triggers of the thresholds are as many as there are rules and subnets to
\* combine.
LEMMA ExceededTyped ==
    ASSUME TypeOK, NEW order \in [1..Cardinality(Exceeded) -> Exceeded]
    PROVE  queue \o [n \in DOMAIN order |-> order[n][2]] \in Seq(Resource)
<1>1. IsFiniteSet(Watch) /\ IsFiniteSet(Subnet)
  BY AlertAssumption, FS_Subset
<1>2. IsFiniteSet(Watch \X Subnet)
  BY <1>1, FS_Product
<1>3. IsFiniteSet(Exceeded)
  BY <1>2, FS_Subset DEF Exceeded
<1>4. Cardinality(Exceeded) \in Nat
  BY <1>3, FS_CardinalityType
<1>5. \A n \in 1..Cardinality(Exceeded) : order[n][2] \in Resource
  BY DEF Exceeded, Resource
<1> DEFINE m == Cardinality(Exceeded)
           new == [n \in DOMAIN order |-> order[n][2]]
<1>6. new \in [1..m -> Resource]
  BY <1>5
<1>7. new \in Seq(Resource)
  BY <1>4, <1>6
<1> HIDE DEF new
<1> QED
  BY <1>7 DEF TypeOK, new

LEMMA TypeInit == Init => TypeOK
<1> SUFFICES ASSUME Init PROVE TypeOK
  OBVIOUS
<1>1. Event(NoRule, CHOOSE k \in Resource : TRUE, "none") \in EventRow
  BY AlertAssumption, Bounds DEF Event, EventRow
<1>2. NeverOffered \in OfferRow
  BY Bounds DEF NeverOffered, OfferRow
<1> QED
  <2>1. /\ rule \in [Rule -> {"none", "on", "off", "gone"}]
        /\ level \in [Subnet -> 0..MaxLevel]
        /\ address \in [Addr -> {"none", "discovered", "marked"}]
    BY Bounds DEF Init
  <2>2. events \in [EventId -> EventRow] /\ offers \in [EventId -> OfferRow]
    BY <1>1, <1>2 DEF Init
  <2>3. queue \in Seq(Resource) /\ batch \in Seq(Resource)
    BY DEF Init
  <2>4. /\ pc = "wait" /\ batch = <<>> /\ todo = {} /\ cur = 0 /\ upsets = 0
        /\ loaded = FALSE /\ broken = FALSE /\ reported = {} /\ cut = {} /\ lost = {}
    BY DEF Init
  <2>5. 0 \in 0..MaxUpsets
    BY Bounds
  <2> QED
    BY <2>1, <2>2, <2>3, <2>4, <2>5, Bounds DEF TypeOK

LEMMA TypeNext ==
    ASSUME TypeOK, [Next]_vars
    PROVE  TypeOK'
<1> USE Bounds
<1> USE DEF Goto, tables, dispatcher, history
<1>1. CASE UNCHANGED vars
  BY <1>1 DEF vars, TypeOK
<1>2. ASSUME NEW a \in Addr, Report(a) PROVE TypeOK'
  <2>1. a \in Resource
    BY DEF Resource
  <2>2. queue' \in Seq(Resource)
    BY <1>2, <2>1, QueueTyped DEF Report, Emit
  <2> QED
    BY <1>2, <2>2 DEF Report, TypeOK
<1>3. ASSUME NEW a \in Addr, CommitDiscovery(a) PROVE TypeOK'
  BY <1>3 DEF CommitDiscovery, TypeOK
<1>4. ASSUME NEW s \in Subnet, NEW n \in 0..MaxLevel, SetLevel(s, n) PROVE TypeOK'
  BY <1>4 DEF SetLevel, TypeOK
<1>5. ASSUME NEW r \in Rule, SwitchRule(r) PROVE TypeOK'
  BY <1>5 DEF SwitchRule, TypeOK
<1>6. ASSUME NEW r \in Rule, DeleteRule(r) PROVE TypeOK'
  <2>1. events' \in [EventId -> EventRow]
    BY <1>6, RowEdits DEF DeleteRule, TypeOK
  <2> QED
    BY <1>6, <2>1 DEF DeleteRule, TypeOK
<1>7. ASSUME NEW i \in EventId, events' = Resolved(i) PROVE events' \in [EventId -> EventRow]
  <2> DEFINE e == [events[i] EXCEPT !.state = "resolved", !.age = 0]
  <2>1. events \in [EventId -> EventRow] /\ events[i] \in EventRow
    BY DEF TypeOK
  <2>2. e \in EventRow
    BY <2>1, RowEdits
  <2>3. events' = [events EXCEPT ![i] = e]
    BY <1>7, ResolvedIs
  <2> HIDE DEF e
  <2> QED
    BY <2>1, <2>2, <2>3
<1>8. ASSUME NEW i \in EventId, Acknowledge(i) PROVE TypeOK'
  <2>1. events' \in [EventId -> EventRow]
    BY <1>7, <1>8 DEF Acknowledge
  <2> QED
    BY <1>8, <2>1 DEF Acknowledge, TypeOK
<1>9. CASE Drain
  BY <1>9 DEF Drain, TypeOK
<1>10. CASE LoadRules
  BY <1>10, QueueTyped DEF LoadRules, EndTrigger, TypeOK
<1>11. ASSUME NEW r \in Rule, ApplyRule(r) PROVE TypeOK'
  <2>1. pc = "rule" /\ batch # <<>> /\ Key \in Resource /\ todo \subseteq Rule
    BY <1>11, QueueTyped DEF ApplyRule, TypeOK
  <2>2. UNCHANGED <<rule, level, address, queue, batch, reported, upsets>>
    BY <1>11 DEF ApplyRule
  <2>3. CASE Record(r)
    <3>1. NewId \in EventId
      BY <2>3 DEF Record, NewId
    <3>2. Event(r, Key, "firing") \in EventRow /\ NeverOffered \in OfferRow
      BY <2>1 DEF Event, EventRow, NeverOffered, OfferRow
    <3>3. /\ events' \in [EventId -> EventRow] /\ offers' \in [EventId -> OfferRow]
          /\ cut' \subseteq EventId /\ cur' \in EventId /\ pc' = "deliver"
      BY <2>3, <3>1, <3>2 DEF Record, AfterRecord, TypeOK
    <3> QED
      BY <2>1, <2>2, <2>3, <3>3 DEF Record, TypeOK
  <2>4. CASE Again(r)
    <3>1. cur' \in EventId
      BY <2>4 DEF Again, FindFiring
    <3> QED
      BY <2>1, <2>2, <2>4, <3>1 DEF Again, TypeOK
  <2>5. CASE Touch(r)
    <3>1. events' \in [EventId -> EventRow]
      BY <2>5, RowEdits DEF Touch, FindFiring, TypeOK
    <3> QED
      BY <2>1, <2>2, <2>5, <3>1 DEF Touch, TypeOK
  <2>6. CASE RuleVanished(r)
    BY <2>1, <2>2, <2>6 DEF RuleVanished, EndTrigger, TypeOK
  <2> QED
    BY <1>11, <2>3, <2>4, <2>5, <2>6 DEF ApplyRule
<1>12. CASE AllApplied
  BY <1>12 DEF AllApplied, EndTrigger, TypeOK
<1>13. CASE Offer
  <2>1. cur \in EventId /\ batch # <<>> /\ Key \in Resource /\ pc = "deliver"
    BY <1>13, QueueTyped DEF Offer, TypeOK
  <2>2. CASE events[cur].rule = NoRule /\ ~loaded
    BY <1>13, <2>1, <2>2 DEF Offer, EndTrigger, TypeOK
  <2>3. CASE ~(events[cur].rule = NoRule /\ ~loaded)
    <3> DEFINE o == offers[cur]
               e == events[cur]
               n == [sent |-> TRUE, quiet |-> 0,
                     late |-> IF e.state = "firing" \/ o.late = 2 THEN o.late ELSE o.late + 1]
    <3>1. offers' = [offers EXCEPT ![cur] = n]
      BY <1>13, <2>3 DEF Offer
    <3>2. n \in OfferRow
      BY <2>1 DEF TypeOK, OfferRow
    <3> HIDE DEF n
    <3>3. offers' \in [EventId -> OfferRow]
      BY <3>1, <3>2 DEF TypeOK
    <3> QED
      BY <1>13, <2>1, <2>3, <3>3 DEF Offer, TypeOK
  <2> QED
    BY <2>2, <2>3
<1>14. CASE Mark
  <2>1. events' \in [EventId -> EventRow]
    BY <1>14, RowEdits DEF Mark, TypeOK
  <2> QED
    BY <1>14, <2>1 DEF Mark, TypeOK
<1>15. CASE Automate
  <2>1. batch' \in Seq(Resource)
    BY <1>15, QueueTyped DEF Automate, TypeOK
  <2>2. address' \in [Addr -> {"none", "discovered", "marked"}]
    BY <1>15 DEF Automate, TypeOK
  <2>3. cur \notin EventId /\ todo = todo'
    BY <1>15 DEF Automate, TypeOK
  <2> QED
    BY <1>15, <2>1, <2>2, <2>3 DEF Automate, TypeOK
<1>16. CASE Evaluate
  <2>1. CASE broken
    BY <1>16, <2>1 DEF Evaluate, TypeOK
  <2>2. CASE ~broken
    <3>1. queue' \in Seq(Resource)
      BY <1>16, <2>2, ExceededTyped DEF Evaluate
    <3>2. todo' \subseteq EventId \X (Rule \cup {NoRule})
      BY <1>16, <2>2 DEF Evaluate, TypeOK, EventRow
    <3> QED
      BY <1>16, <2>2, <3>1, <3>2 DEF Evaluate, TypeOK
  <2> QED
    BY <2>1, <2>2
<1>17. ASSUME NEW i \in EventId, NEW r \in Rule \cup {NoRule}, ResolveOne(i, r) PROVE TypeOK'
  <2>1. events' \in [EventId -> EventRow] /\ loaded' \in BOOLEAN
    BY <1>7, <1>17 DEF ResolveOne, TypeOK
  <2> QED
    BY <1>17, <2>1 DEF ResolveOne, TypeOK
<1>18. CASE EndTick
  BY <1>18 DEF EndTick, TypeOK
<1>19. CASE Fault
  <2>1. /\ UNCHANGED <<rule, level, address, events, queue, batch, offers, reported>>
        /\ broken' = TRUE /\ upsets' = upsets + 1 /\ upsets < MaxUpsets /\ pc # "wait"
    BY <1>19 DEF Fault
  <2>2. upsets' \in 0..MaxUpsets
    BY <2>1 DEF TypeOK
  <2>3. cut' \subseteq EventId
    BY <1>19 DEF Fault, TypeOK
  <2>4. CASE pc \in {"rule", "deliver", "fired"}
    <3>1. Key \in Resource /\ batch # <<>>
      BY <2>4, QueueTyped DEF TypeOK
    <3>2. pc' = "automate" /\ todo' = {} /\ loaded' = FALSE /\ cur' = 0 /\ lost' = lost \cup {Key}
      BY <1>19, <2>4 DEF Fault, EndTrigger
    <3> QED
      BY <2>1, <2>2, <2>3, <3>1, <3>2 DEF TypeOK
  <2>5. CASE pc \notin {"rule", "deliver", "fired"}
    <3>1. todo' = {} /\ UNCHANGED <<pc, cur, loaded, lost>>
      BY <1>19, <2>5 DEF Fault
    <3> QED
      BY <2>1, <2>2, <2>3, <3>1 DEF TypeOK
  <2> QED
    BY <2>4, <2>5
<1>20. CASE Crash
  <2>1. /\ UNCHANGED <<rule, level, address, events, offers, reported>>
        /\ upsets' = upsets + 1 /\ upsets < MaxUpsets
        /\ pc' = "wait" /\ todo' = {} /\ cur' = 0 /\ loaded' = FALSE /\ broken' = FALSE
        /\ lost' = lost \cup Elements(queue) \cup Elements(batch)
    BY <1>20 DEF Crash
  <2>2. queue' \in Seq(Resource) /\ batch' \in Seq(Resource) /\ batch' = <<>>
    BY <1>20 DEF Crash
  <2>3. cut' \subseteq EventId
    BY <1>20 DEF Crash, TypeOK
  <2>4. upsets' \in 0..MaxUpsets /\ lost' \subseteq Resource
    BY <2>1, QueueTyped DEF TypeOK
  <2> QED
    BY <2>1, <2>2, <2>3, <2>4 DEF TypeOK
<1>21. CASE TimePasses
  <2>1. events' \in [EventId -> EventRow]
    BY <1>21, RowEdits DEF TimePasses, TypeOK
  <2>2. \A o \in OfferRow : [o EXCEPT !.quiet = Older(@)] \in OfferRow
    BY DEF OfferRow, Older
  <2>3. offers' \in [EventId -> OfferRow]
    BY <1>21, <2>2 DEF TimePasses, TypeOK
  <2> QED
    BY <1>21, <2>1, <2>3 DEF TimePasses, TypeOK
<1> QED
  BY <1>1, <1>2, <1>3, <1>4, <1>5, <1>6, <1>8, <1>9, <1>10, <1>11, <1>12, <1>13, <1>14, <1>15,
     <1>16, <1>17, <1>18, <1>19, <1>20, <1>21 DEF Next, Dispatch

-----------------------------------------------------------------------------
(* The history of an event.                                                *)

\* Steps that leave the events and their offers alone: one that gives up the
\* event in hand notes it.
LEMMA OffHand ==
    ASSUME IInv, events' = events, offers' = offers, cut \subseteq cut',
           pc' \notin {"deliver", "fired"} \/ (pc' = pc /\ cur' = cur),
           (pc' = pc /\ cur' = cur) \/ pc \notin {"deliver", "fired"} \/ cur \in cut'
    PROVE  History'
<1>1. OneFiringEvent'
  BY DEF IInv, History, OneFiringEvent
<1>2. RecordedIsOffered'
  BY DEF IInv, History, RecordedIsOffered
<1>3. \A i \in EventId : (Delivering(i)' => Delivering(i)) /\ (Marking(i)' => Marking(i))
  BY DEF Delivering, Marking
<1>4. LateOnce'
  BY <1>3 DEF IInv, History, LateOnce
<1>5. AgeAgrees'
  <2>1. \A i \in EventId : i \notin cut' => i \notin cut /\ (Marking(i) => Marking(i)')
    BY DEF Marking
  <2> QED
    BY <2>1 DEF IInv, History, AgeAgrees
<1>6. DueAgain'
  BY <1>3 DEF IInv, History, DueAgain
<1> QED
  BY <1>1, <1>2, <1>4, <1>5, <1>6 DEF History

\* An event that is acknowledged, or resolved by the dispatcher.
LEMMA ResolvedKeeps ==
    ASSUME IInv, NEW i \in EventId, events' = Resolved(i), events[i].state # "none",
           UNCHANGED <<offers, cut, pc, cur>>
    PROVE  History'
<1>1. TypeOK /\ events \in [EventId -> EventRow]
  BY DEF IInv, TypeOK
<1>2. \A j \in EventId : j # i => events'[j] = events[j]
  BY <1>1, ResolvedIs
<1>3. events'[i].state = "resolved" /\ events'[i].rule = events[i].rule
  <2>1. events'[i] = [events[i] EXCEPT !.state = "resolved", !.age = 0]
    BY <1>1, ResolvedIs
  <2> QED
    BY <1>1, <2>1 DEF EventRow
<1>4. OneFiringEvent'
  BY <1>2, <1>3 DEF IInv, History, OneFiringEvent
<1>5. RecordedIsOffered'
  BY <1>2, <1>3 DEF IInv, History, RecordedIsOffered
<1>6. LateOnce'
  BY <1>2, <1>3 DEF IInv, History, LateOnce, Delivering
<1>7. AgeAgrees'
  BY <1>2, <1>3 DEF IInv, History, AgeAgrees, Marking
<1>8. DueAgain'
  BY <1>2, <1>3 DEF IInv, History, DueAgain, Delivering
<1> QED
  BY <1>4, <1>5, <1>6, <1>7, <1>8 DEF History

\* The events of a deleted rule have none.
LEMMA DeleteKeeps ==
    ASSUME IInv, NEW r \in Rule, DeleteRule(r)
    PROVE  History'
<1>1. events \in [EventId -> EventRow]
  BY DEF IInv, TypeOK
<1>2. UNCHANGED <<offers, cut, pc, cur>>
  BY DEF DeleteRule, dispatcher, history
<1>3. \A i \in EventId :
        /\ events'[i].state = events[i].state /\ events'[i].key = events[i].key
        /\ events'[i].age = events[i].age /\ events'[i].rule \in {events[i].rule, NoRule}
  BY <1>1 DEF DeleteRule, EventRow
<1>4. OneFiringEvent'
  BY <1>3 DEF IInv, History, OneFiringEvent
<1>5. RecordedIsOffered'
  BY <1>2, <1>3 DEF IInv, History, RecordedIsOffered
<1>6. LateOnce'
  BY <1>2, <1>3 DEF IInv, History, LateOnce, Delivering
<1>7. AgeAgrees'
  BY <1>2, <1>3 DEF IInv, History, AgeAgrees, Marking
<1>8. DueAgain'
  BY <1>2, <1>3, Bounds DEF IInv, History, DueAgain, Delivering
<1> QED
  BY <1>4, <1>5, <1>6, <1>7, <1>8 DEF History

\* Steps that make a firing event as young as it can be.
LEMMA YoungerKeeps ==
    ASSUME IInv, NEW i \in EventId, NEW e, e = Fired(events[i]), UNCHANGED <<offers, cut>>,
           events' = [events EXCEPT ![i] = e],
           pc = "rule" \/ (pc = "fired" /\ cur = i), pc' = "rule"
    PROVE  History'
<1>1. events \in [EventId -> EventRow] /\ offers \in [EventId -> OfferRow]
  BY DEF IInv, TypeOK
<1>2. \A j \in EventId :
        /\ events'[j].state = events[j].state /\ events'[j].key = events[j].key
        /\ events'[j].rule = events[j].rule
        /\ j # i => events'[j].age = events[j].age
        /\ j = i => events'[j].age = 0
  BY <1>1, RowEdits
<1>3. OneFiringEvent'
  BY <1>2 DEF IInv, History, OneFiringEvent
<1>4. RecordedIsOffered'
  BY <1>2 DEF IInv, History, RecordedIsOffered
<1>5. \A j \in EventId : ~Delivering(j)' /\ ~Marking(j)' /\ (j # i => ~Marking(j))
  BY DEF Delivering, Marking
<1>6. LateOnce'
  BY <1>2, <1>5 DEF IInv, History, LateOnce
<1>7. AgeAgrees'
  <2>1. \A j \in EventId : offers[j].quiet >= 0
    BY <1>1 DEF OfferRow
  <2> QED
    BY <1>2, <1>5, <2>1 DEF IInv, History, AgeAgrees
<1>8. DueAgain'
  BY <1>5 DEF DueAgain
<1> QED
  BY <1>3, <1>4, <1>6, <1>7, <1>8 DEF History

LEMMA TouchKeeps ==
    ASSUME IInv, NEW r \in Rule, pc = "rule", Touch(r)
    PROVE  History'
<1>1. PICK i \in FindFiring(r, Key) : events' = [events EXCEPT ![i].age = 0]
  BY DEF Touch
<1> DEFINE e == Fired(events[i])
<1>2. i \in EventId /\ events \in [EventId -> EventRow]
  BY <1>1 DEF FindFiring, IInv, TypeOK
<1>3. events' = [events EXCEPT ![i] = e]
  BY <1>1, <1>2 DEF Fired
<1>4. UNCHANGED <<offers, cut, pc>>
  BY DEF Touch
<1>5. e = Fired(events[i])
  OBVIOUS
<1> HIDE DEF e
<1> QED
  BY <1>2, <1>3, <1>4, <1>5, YoungerKeeps

LEMMA MarkKeeps ==
    ASSUME IInv, Mark
    PROVE  History'
<1>1. cur \in EventId /\ pc = "fired" /\ pc' = "rule"
  BY DEF Mark, Goto, IInv, TypeOK
<1> DEFINE e == Fired(events[cur])
<1>2. UNCHANGED <<offers, cut>> /\ events' = [events EXCEPT ![cur] = e]
  BY DEF Mark, history
<1>3. e = Fired(events[cur])
  OBVIOUS
<1> HIDE DEF e
<1> QED
  BY <1>1, <1>2, <1>3, YoungerKeeps

\* A new event has the key that no firing one has.
LEMMA RecordKeeps ==
    ASSUME IInv, NEW r \in Rule, pc = "rule", Record(r)
    PROVE  History'
<1>1. /\ events \in [EventId -> EventRow] /\ offers \in [EventId -> OfferRow]
      /\ NewId \in EventId
  BY DEF IInv, TypeOK, Record, NewId
<1> DEFINE n == NewId
           e == Event(r, Key, "firing")
<1>2. /\ events' = [events EXCEPT ![n] = e] /\ offers' = [offers EXCEPT ![n] = NeverOffered]
      /\ cut' = cut \ {n} /\ cur' = n /\ pc' = "deliver"
  BY DEF Record, AfterRecord, Goto
<1>3. n \in EventId
  BY <1>1
<1>4. e.rule = r /\ e.key = Key /\ e.state = "firing"
  BY DEF Event
<1>5. NeverOffered.sent = FALSE /\ NeverOffered.late = 0
  BY DEF NeverOffered
<1> HIDE DEF n, e
<1>6. /\ events'[n] = e /\ offers'[n] = NeverOffered
      /\ \A i \in EventId : i # n => events'[i] = events[i] /\ offers'[i] = offers[i]
  BY <1>1, <1>2, <1>3
<1>7. OneFiringEvent'
  <2>1. \A i \in EventId : events[i].state = "firing" /\ events[i].rule = r => events[i].key # Key
    BY DEF Record, NoEvent, FindFiring
  <2> QED
    BY <1>4, <1>6, <2>1 DEF IInv, History, OneFiringEvent
<1>8. RecordedIsOffered'
  BY <1>2, <1>6 DEF IInv, History, RecordedIsOffered
<1>9. LateOnce'
  BY <1>2, <1>5, <1>6 DEF IInv, History, LateOnce, Delivering
<1>10. AgeAgrees'
  BY <1>2, <1>5, <1>6 DEF IInv, History, AgeAgrees, Marking
<1>11. DueAgain'
  BY <1>2, <1>5, <1>6 DEF DueAgain, Delivering
<1> QED
  BY <1>7, <1>8, <1>9, <1>10, <1>11 DEF History

\* An event is offered again when it is due.
LEMMA AgainKeeps ==
    ASSUME IInv, NEW r \in Rule, pc = "rule", Again(r)
    PROVE  History'
<1>1. PICK i \in FindFiring(r, Key) : ShouldRenotify(r, i) /\ cur' = i
  BY DEF Again
<1>2. pc' = "deliver" /\ UNCHANGED <<events, offers, cut>>
  BY DEF Again, Goto
<1>3. i \in EventId /\ events[i].rule = r /\ events[i].state = "firing"
  BY <1>1 DEF FindFiring
<1>4. OneFiringEvent' /\ RecordedIsOffered'
  BY <1>2 DEF IInv, History, OneFiringEvent, RecordedIsOffered
<1>5. LateOnce'
  BY <1>1, <1>2, <1>3 DEF IInv, History, LateOnce, Delivering
<1>6. AgeAgrees'
  BY <1>2 DEF IInv, History, AgeAgrees, Marking
<1>7. DueAgain'
  <2>1. offers[i].sent /\ i \notin cut => events[i].age <= offers[i].quiet
    BY <1>3 DEF IInv, History, AgeAgrees, Marking
  <2>2. Renotify[r] # 0 /\ events[i].age >= Renotify[r]
    BY <1>1 DEF ShouldRenotify
  <2>3. Renotify[r] \in Nat /\ events[i].age \in Nat /\ offers[i].quiet \in Nat
    BY <1>3, Bounds DEF IInv, TypeOK, EventRow, OfferRow
  <2>4. offers[i].sent /\ i \notin cut => offers[i].quiet >= Renotify[r]
    BY <2>1, <2>2, <2>3
  <2> QED
    BY <1>1, <1>2, <1>3, <2>2, <2>4 DEF DueAgain, Delivering
<1> QED
  BY <1>4, <1>5, <1>6, <1>7 DEF History

\* An event in hand is offered once, whatever has become of it.
LEMMA OfferKeeps ==
    ASSUME IInv, Offer
    PROVE  History'
<1>1. /\ offers \in [EventId -> OfferRow] /\ cur \in EventId /\ pc = "deliver"
      /\ events' = events
  BY DEF IInv, TypeOK, Offer, tables
<1>2. CASE events[cur].rule = NoRule /\ ~loaded
  <2>1. /\ offers' = offers /\ cut' = cut \cup {cur} /\ pc' = "automate"
    BY <1>2 DEF Offer, EndTrigger, Goto
  <2> QED
    BY <1>1, <2>1, OffHand
<1>3. CASE ~(events[cur].rule = NoRule /\ ~loaded)
  <2>1. offers[cur].late = 0 /\ Delivering(cur)
    BY <1>1 DEF IInv, History, LateOnce, Delivering
  <2> DEFINE n == [sent |-> TRUE, quiet |-> 0,
                   late |-> IF events[cur].state = "firing" \/ offers[cur].late = 2
                            THEN offers[cur].late ELSE offers[cur].late + 1]
  <2>2. /\ offers' = [offers EXCEPT ![cur] = n] /\ pc' = "fired" /\ cur' = cur /\ cut' = cut
    BY <1>3 DEF Offer, Goto
  <2>3. n.sent = TRUE /\ n.late = IF events[cur].state = "firing" THEN 0 ELSE 1
    BY <2>1
  <2> HIDE DEF n
  <2>4. offers'[cur] = n /\ \A i \in EventId : i # cur => offers'[i] = offers[i]
    BY <1>1, <2>2
  <2>5. OneFiringEvent'
    BY <1>1 DEF IInv, History, OneFiringEvent
  <2>6. RecordedIsOffered'
    BY <1>1, <2>2, <2>3, <2>4 DEF IInv, History, RecordedIsOffered
  <2>7. LateOnce'
    BY <1>1, <2>2, <2>3, <2>4 DEF IInv, History, LateOnce, Delivering
  <2>8. AgeAgrees'
    BY <1>1, <2>2, <2>4 DEF IInv, History, AgeAgrees, Marking
  <2>9. DueAgain'
    BY <2>2 DEF DueAgain, Delivering
  <2> QED
    BY <2>5, <2>6, <2>7, <2>8, <2>9 DEF History
<1> QED
  BY <1>2, <1>3

\* Time passes for an event and for its last offer alike.
LEMMA TimeKeeps ==
    ASSUME IInv, TimePasses
    PROVE  History'
<1>1. events \in [EventId -> EventRow] /\ offers \in [EventId -> OfferRow]
  BY DEF IInv, TypeOK
<1>2. UNCHANGED <<cut, pc, cur>>
  BY DEF TimePasses, dispatcher
<1>3. \A i \in EventId :
        /\ events'[i].state = events[i].state /\ events'[i].key = events[i].key
        /\ events'[i].rule = events[i].rule
        /\ events[i].state = "firing" => events'[i].age = Older(events[i].age)
  BY <1>1 DEF TimePasses, EventRow
<1>4. \A i \in EventId :
        /\ offers'[i].sent = offers[i].sent /\ offers'[i].late = offers[i].late
        /\ events[i].state = "firing" => offers'[i].quiet = Older(offers[i].quiet)
        /\ events[i].state # "firing" => offers'[i].quiet = offers[i].quiet
  BY <1>1 DEF TimePasses, OfferRow
<1>5. \A i \in EventId : events[i].age \in 0..MaxAge /\ offers[i].quiet \in 0..MaxAge
  BY <1>1 DEF EventRow, OfferRow
<1>6. \A m, n \in 0..MaxAge : Older(n) >= n /\ (m <= n => Older(m) <= Older(n))
  BY Bounds DEF Older
<1>7. OneFiringEvent'
  BY <1>3 DEF IInv, History, OneFiringEvent
<1>8. RecordedIsOffered'
  BY <1>2, <1>3, <1>4 DEF IInv, History, RecordedIsOffered
<1>9. LateOnce'
  BY <1>2, <1>3, <1>4 DEF IInv, History, LateOnce, Delivering
<1>10. AgeAgrees'
  <2> SUFFICES ASSUME NEW i \in EventId, events[i].state = "firing", offers[i].sent, i \notin cut,
                      ~Marking(i)
               PROVE  events'[i].age <= offers'[i].quiet
    BY <1>2, <1>3, <1>4 DEF AgeAgrees, Marking
  <2>1. events[i].age <= offers[i].quiet
    BY DEF IInv, History, AgeAgrees
  <2> QED
    BY <1>3, <1>4, <1>5, <1>6, <2>1
<1>11. DueAgain'
  <2> SUFFICES ASSUME NEW i \in EventId, Delivering(i), offers[i].sent, i \notin cut,
                      NEW r \in Rule, events[i].rule = r
               PROVE  Renotify[r] # 0 /\ offers'[i].quiet >= Renotify[r]
    BY <1>2, <1>3, <1>4 DEF DueAgain, Delivering
  <2>1. Renotify[r] # 0 /\ offers[i].quiet >= Renotify[r]
    BY DEF IInv, History, DueAgain
  <2>2. Renotify[r] \in Nat /\ offers[i].quiet \in Nat /\ offers'[i].quiet \in Nat
        /\ offers'[i].quiet >= offers[i].quiet
    BY <1>4, <1>5, <1>6, Bounds DEF Older
  <2> QED
    BY <2>1, <2>2
<1> QED
  BY <1>7, <1>8, <1>9, <1>10, <1>11 DEF History

LEMMA HistoryNext ==
    ASSUME IInv, [Next]_vars
    PROVE  History'
<1> USE DEF Goto, tables, dispatcher, history
<1>1. CASE UNCHANGED vars
  BY <1>1, OffHand DEF vars
<1>2. ASSUME NEW a \in Addr, Report(a) \/ CommitDiscovery(a) PROVE History'
  BY <1>2, OffHand DEF Report, CommitDiscovery
<1>3. ASSUME NEW s \in Subnet, NEW n \in 0..MaxLevel, SetLevel(s, n) PROVE History'
  BY <1>3, OffHand DEF SetLevel
<1>4. ASSUME NEW r \in Rule, SwitchRule(r) PROVE History'
  BY <1>4, OffHand DEF SwitchRule
<1>5. ASSUME NEW i \in EventId, Acknowledge(i) PROVE History'
  BY <1>5, ResolvedKeeps DEF Acknowledge
<1>6. CASE Drain \/ LoadRules \/ AllApplied \/ Automate \/ Evaluate \/ EndTick
  <2>1. events' = events /\ offers' = offers /\ cut' = cut
    BY <1>6 DEF Drain, LoadRules, EndTrigger, AllApplied, Automate, Evaluate, EndTick
  <2>2. pc \notin {"deliver", "fired"} /\ pc' \notin {"deliver", "fired"}
    BY <1>6 DEF Drain, LoadRules, EndTrigger, AllApplied, Automate, Evaluate, EndTick
  <2> QED
    BY <2>1, <2>2, OffHand
<1>7. ASSUME NEW r \in Rule, ApplyRule(r) PROVE History'
  <2>1. pc = "rule"
    BY <1>7 DEF ApplyRule
  <2>2. CASE RuleVanished(r)
    <3>1. events' = events /\ offers' = offers /\ cut' = cut /\ pc' = "automate"
      BY <2>2 DEF RuleVanished, EndTrigger
    <3> QED
      BY <2>1, <3>1, OffHand
  <2> QED
    BY <1>7, <2>1, <2>2, RecordKeeps, AgainKeeps, TouchKeeps DEF ApplyRule
<1>8. ASSUME NEW i \in EventId, NEW r \in Rule \cup {NoRule}, ResolveOne(i, r) PROVE History'
  <2>1. UNCHANGED <<offers, cut, pc, cur>> /\ pc = "resolve"
    BY <1>8 DEF ResolveOne
  <2>2. CASE events' = events
    BY <2>1, <2>2, OffHand
  <2>3. CASE events' = Resolved(i)
    <3>1. events[i].state # "none"
      BY <1>8, <2>1 DEF ResolveOne, IInv, TodoRecorded
    <3> QED
      BY <2>1, <2>3, <3>1, ResolvedKeeps
  <2> QED
    BY <1>8, <2>2, <2>3 DEF ResolveOne
<1>9. CASE Fault \/ Crash
  <2>1. events' = events /\ offers' = offers /\ cut \subseteq cut'
        /\ (pc \in {"deliver", "fired"} => cur \in cut')
    BY <1>9 DEF Fault, Crash
  <2>2. pc' \notin {"deliver", "fired"}
    BY <1>9 DEF Fault, Crash, EndTrigger
  <2> QED
    BY <2>1, <2>2, OffHand
<1>10. CASE Offer
  BY <1>10, OfferKeeps
<1>11. CASE Mark
  BY <1>11, MarkKeeps
<1>12. CASE TimePasses
  BY <1>12, TimeKeeps
<1>13. ASSUME NEW r \in Rule, DeleteRule(r) PROVE History'
  BY <1>13, DeleteKeeps
<1> QED
  BY <1>1, <1>2, <1>3, <1>4, <1>5, <1>6, <1>7, <1>8, <1>9, <1>10, <1>11, <1>12, <1>13
     DEF Next, Dispatch

\* An event stays recorded.
LEMMA RecordedStays ==
    ASSUME IInv, [Next]_vars
    PROVE  \A i \in EventId : events[i].state # "none" => events'[i].state # "none"
<1> SUFFICES ASSUME NEW j \in EventId, events[j].state # "none" PROVE events'[j].state # "none"
  OBVIOUS
<1> USE DEF tables
<1>1. events \in [EventId -> EventRow] /\ TypeOK
  BY DEF IInv, TypeOK
<1>2. ASSUME NEW i \in EventId, events' = Resolved(i) PROVE events'[j].state # "none"
  <2> DEFINE e == [events[i] EXCEPT !.state = "resolved", !.age = 0]
  <2>1. e.state = "resolved"
    BY <1>1 DEF EventRow
  <2>2. events' = [events EXCEPT ![i] = e]
    BY <1>1, <1>2, ResolvedIs
  <2> HIDE DEF e
  <2> QED
    BY <1>1, <2>1, <2>2
<1>3. ASSUME NEW r \in Rule, ApplyRule(r) PROVE events'[j].state # "none"
  <2>1. CASE Record(r)
    <3> DEFINE e == Event(r, Key, "firing")
    <3>1. e.state = "firing"
      BY DEF Event
    <3>2. events' = [events EXCEPT ![NewId] = e]
      BY <2>1 DEF Record
    <3> HIDE DEF e
    <3> QED
      BY <1>1, <3>1, <3>2
  <2>2. CASE Touch(r)
    BY <1>1, <2>2 DEF Touch, EventRow
  <2> QED
    BY <1>3, <2>1, <2>2 DEF ApplyRule, Again, RuleVanished
<1>4. ASSUME NEW r \in Rule, DeleteRule(r) PROVE events'[j].state # "none"
  BY <1>1, <1>4 DEF DeleteRule, EventRow
<1>5. CASE Mark
  BY <1>1, <1>5 DEF Mark, Fired, EventRow
<1>6. CASE TimePasses
  BY <1>1, <1>6 DEF TimePasses, EventRow
<1>7. ASSUME events' = events PROVE events'[j].state # "none"
  BY <1>7
<1> QED
  BY <1>2, <1>3, <1>4, <1>5, <1>6, <1>7 DEF Next, Dispatch, vars, Drain, LoadRules, AllApplied,
     Offer, Automate, Evaluate, EndTick, ResolveOne, Fault, Crash, Report, CommitDiscovery,
     SetLevel, SwitchRule, Acknowledge

LEMMA TodoNext ==
    ASSUME IInv, [Next]_vars
    PROVE  TodoRecorded'
<1> USE DEF Goto, tables, dispatcher, EndTrigger
<1>1. CASE Evaluate
  BY <1>1 DEF Evaluate, TodoRecorded
<1>2. CASE ~Evaluate
  <2>1. pc' = "resolve" => pc = "resolve" /\ todo' \subseteq todo
    BY <1>2 DEF IInv, TypeOK, Next, Dispatch, vars, Drain, LoadRules, AllApplied, ApplyRule,
       Record, AfterRecord, Again, Touch, RuleVanished, Mark, TimePasses, DeleteRule, Offer,
       Automate, EndTick, ResolveOne, Fault, Crash, Report, CommitDiscovery, SetLevel,
       SwitchRule, Acknowledge
  <2>2. pc = "resolve" => \A p \in todo : p[1] \in EventId
    BY DEF IInv, TypeOK
  <2> QED
    BY <2>1, <2>2, RecordedStays DEF IInv, TodoRecorded
<1> QED
  BY <1>1, <1>2

LEMMA IInvHolds == Spec => []IInv
<1>1. Init => IInv
  <2> SUFFICES ASSUME Init PROVE IInv
    OBVIOUS
  <2>1. \A i \in EventId : events[i].state = "none" /\ offers[i].late = 0
    BY DEF Init, Event, NeverOffered
  <2>2. pc = "wait"
    BY DEF Init
  <2> QED
    BY <2>1, <2>2, TypeInit
       DEF IInv, TodoRecorded, History, OneFiringEvent, RecordedIsOffered, LateOnce, AgeAgrees,
           DueAgain, Delivering
<1>2. IInv /\ [Next]_vars => IInv'
  BY TypeNext, HistoryNext, TodoNext DEF IInv
<1> QED
  BY <1>1, <1>2, PTL DEF Spec

-----------------------------------------------------------------------------
(* Theorems.                                                               *)

\* Every value has its type, and the dispatcher has an event in hand exactly
\* while it delivers one.
THEOREM AlertingTypes == Spec => []TypeOK
BY IInvHolds, PTL DEF IInv

\* A rule has one firing event for a resource.
THEOREM OneFires == Spec => []OneFiringEvent
BY IInvHolds, PTL DEF IInv, History

\* No event is recorded and silently never offered.
THEOREM RecordsAreOffered == Spec => []RecordedIsOffered
BY IInvHolds, PTL DEF IInv, History

\* An event that was acknowledged is offered once more at most.
THEOREM AcknowledgedStaysQuiet == Spec => []AcknowledgedIsQuiet
<1>1. IInv => AcknowledgedIsQuiet
  BY DEF IInv, History, LateOnce, AcknowledgedIsQuiet
<1> QED
  BY <1>1, IInvHolds, PTL

\* The cadence of a rule is kept.
THEOREM OffersKeepCadence == Spec => OffersAreSpaced
<1>1. IInv /\ [Next]_vars =>
        [pc = "deliver" /\ pc' = "fired" /\ offers[cur].sent /\ cur \notin cut
         => \A r \in Rule : events[cur].rule = r
                            => Renotify[r] # 0 /\ offers[cur].quiet >= Renotify[r]]_vars
  <2> SUFFICES ASSUME IInv, pc = "deliver", offers[cur].sent, cur \notin cut,
                      NEW r \in Rule, events[cur].rule = r
               PROVE  Renotify[r] # 0 /\ offers[cur].quiet >= Renotify[r]
    OBVIOUS
  <2>1. cur \in EventId
    BY DEF IInv, TypeOK
  <2> QED
    BY <2>1 DEF IInv, History, DueAgain, Delivering
<1> QED
  BY <1>1, IInvHolds, PTL DEF Spec, OffersAreSpaced
=============================================================================
