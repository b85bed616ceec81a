------------------------------ MODULE Alerting ------------------------------
(***************************************************************************)
(* Alerting (the package alerting) and automation (automation.py).         *)
(*                                                                         *)
(* Requests, sweeps and syncs put triggers into a queue in memory.  Once   *)
(* per interval the dispatcher thread opens a session, drains the queue,   *)
(* matches each trigger with the enabled rules, records and delivers an    *)
(* event per rule and resource, runs the automation rules, looks at the    *)
(* thresholds and resolves the utilization events whose subnet has         *)
(* emptied.  Meanwhile operators acknowledge events and administrators     *)
(* switch, create and delete rules.                                        *)
(*                                                                         *)
(* The session of a tick is never rolled back: an error of the database in *)
(* it makes every later query of the tick raise (broken).                  *)
(*                                                                         *)
(* A resource is a subnet, watched by utilization rules, or an address,    *)
(* reported once by the sweep that discovers it.  Utilization is a level   *)
(* 0..MaxLevel.  Channels are left out: an event is offered to the         *)
(* channels of its rule, and an offer that fails is never repeated.        *)
(***************************************************************************)
EXTENDS Integers, Sequences, FiniteSets

CONSTANTS
    Rule,          \* alert rules: ids, never used twice
    Subnet, Addr,  \* resources
    Watch,         \* the rules of trigger type utilization; the others: rogue
    Threshold,     \* condition["threshold_pct"] of a utilization rule
    Margin,        \* the hysteresis of _resolve_stale_firing
    Renotify,      \* renotify_minutes of a rule, 0 for None
    MaxLevel,
    EventId,       \* bound: rows of alerting_events
    MaxAge,        \* bound: where the age of an event saturates
    MaxUpsets,     \* bound: database errors, restarts and edits of rules, together
    NoRule

Resource == Subnet \cup Addr

ASSUME AlertAssumption ==
    /\ Watch \subseteq Rule
    /\ Threshold \in [Watch -> 0..MaxLevel] /\ Margin \in Nat
    /\ Renotify \in [Rule -> 0..MaxAge]
    /\ Subnet \cap Addr = {}
    /\ {MaxLevel, MaxAge, MaxUpsets} \subseteq Nat
    /\ EventId \subseteq Nat \ {0}
    /\ NoRule \notin Rule
    /\ Resource # {} /\ IsFiniteSet(Rule) /\ IsFiniteSet(Subnet)

\* A row of alerting_events, and what is remembered of its offers.
EventRow == [rule : Rule \cup {NoRule}, key : Resource, age : 0..MaxAge,
             state : {"none", "firing", "resolved"}]
OfferRow == [sent : BOOLEAN, late : 0..2, quiet : 0..MaxAge]

VARIABLES
    rule,      \* alert_rules: "none" (no row yet), "on", "off", "gone"
    level,     \* utilization of each subnet
    address,   \* ip_addresses: "none", "discovered", "marked" by an automation rule
    events,    \* alerting_events: [rule, key, state, age], age since last_fired_at
               \* while it fires
    queue,     \* triggers: resources
    pc, batch, \* the dispatcher: where it is, drained triggers still to process
    todo,      \* rules still to apply to the first of them, or events to look
               \* at, with the rule of each
    loaded,    \* no commit has expired what the session has read of them
    cur,       \* the event in hand
    broken,    \* the session needs a rollback
    offers,    \* history, per event: [sent, late, quiet]: offered, offers
               \* begun after it was resolved, time since the last one
    reported,  \* history: addresses a sweep has reported
    cut,       \* history: events whose delivery was cut short
    lost,      \* history: resources a trigger of which was lost
    upsets

tables     == <<rule, level, address, events>>
dispatcher == <<pc, batch, todo, loaded, cur, broken>>
history    == <<offers, reported, cut, lost>>
vars == <<tables, queue, dispatcher, history, upsets>>

Elements(s) == {s[i] : i \in DOMAIN s}
Goto(label) == pc' = label
Event(r, k, state) == [rule |-> r, key |-> k, state |-> state, age |-> 0]
NeverOffered == [sent |-> FALSE, late |-> 0, quiet |-> 0]

\* AlertRule.trigger_type == te.trigger_type: a trigger is not of one rule.
Matches(r, k) == (r \in Watch) = (k \in Subnet)
Older(n) == IF n < MaxAge THEN n + 1 ELSE n

-----------------------------------------------------------------------------
(* Those who emit triggers.                                                *)

Emit(k) == queue' = Append(queue, k)

\* scan_subnet emits while it pings; the row it adds is committed later.
Report(a) ==
    /\ a \notin reported
    /\ reported' = reported \cup {a}
    /\ Emit(a)
    /\ UNCHANGED <<tables, dispatcher, offers, cut, lost, upsets>>

CommitDiscovery(a) ==
    /\ a \in reported /\ address[a] = "none"
    /\ address' = [address EXCEPT ![a] = "discovered"]
    /\ UNCHANGED <<rule, level, events, queue, dispatcher, history, upsets>>

\* Addresses of a subnet are assigned and released, one level at a time.
SetLevel(s, n) ==
    /\ n \in {level[s] - 1, level[s] + 1}
    /\ level' = [level EXCEPT ![s] = n]
    /\ UNCHANGED <<rule, address, events, queue, dispatcher, offers, reported, cut, lost, upsets>>

-----------------------------------------------------------------------------
(* The API: rules and acknowledgements, each one transaction.              *)

SwitchRule(r) ==
    /\ rule[r] \in {"none", "on", "off"}
    /\ upsets < MaxUpsets /\ upsets' = upsets + 1
    /\ rule' = [rule EXCEPT ![r] = IF @ = "on" THEN "off" ELSE "on"]
    /\ UNCHANGED <<level, address, events, queue, dispatcher, history>>

\* The events of a deleted rule stay, without a rule (ON DELETE SET NULL).
DeleteRule(r) ==
    /\ rule[r] \in {"on", "off"}
    /\ upsets < MaxUpsets /\ upsets' = upsets + 1
    /\ rule' = [rule EXCEPT ![r] = "gone"]
    /\ events' = [i \in EventId |->
                    IF events[i].rule = r THEN [events[i] EXCEPT !.rule = NoRule]
                    ELSE events[i]]
    /\ UNCHANGED <<level, address, queue, dispatcher, history>>

\* Nothing reads the age of a resolved event.
Resolved(i) == [events EXCEPT ![i].state = "resolved", ![i].age = 0]

Acknowledge(i) ==
    /\ events[i].state = "firing"
    /\ events' = Resolved(i)
    /\ UNCHANGED <<rule, level, address, queue, dispatcher, history, upsets>>

-----------------------------------------------------------------------------
(* One tick of the dispatcher.                                             *)

Drain ==
    /\ pc = "wait"
    /\ batch' = queue /\ queue' = <<>>
    /\ broken' = FALSE
    /\ Goto("trigger")
    /\ UNCHANGED <<tables, todo, loaded, cur, history, upsets>>

Key == Head(batch)

\* _process_trigger ends, by an exception or not, and run_automation has its
\* turn; an exception of one rule is the end of the trigger for all of them.
EndTrigger ==
    /\ Goto("automate")
    /\ todo' = {} /\ loaded' = FALSE
    /\ cur' = 0

LoadRules ==
    /\ pc = "trigger" /\ batch # <<>>
    /\ IF broken
       THEN /\ EndTrigger
            /\ lost' = lost \cup {Key}
       ELSE /\ todo' = {r \in Rule : rule[r] = "on" /\ Matches(r, Key)}
            /\ loaded' = TRUE
            /\ Goto("rule")
            /\ UNCHANGED <<cur, lost>>
    /\ UNCHANGED <<tables, queue, batch, broken, offers, reported, cut, upsets>>

\* find_firing.
\* Mutant: it finds only what need not be sent again.
FindFresh(r, k) ==
    {i \in EventId : /\ events[i].rule = r /\ events[i].key = k
                     /\ events[i].state = "firing" /\ events[i].age < MaxAge}
FindFiring(r, k) ==
    {i \in EventId : /\ events[i].rule = r /\ events[i].key = k
                     /\ events[i].state = "firing"}

\* should_renotify.
ShouldRenotify(r, i) == Renotify[r] # 0 /\ events[i].age >= Renotify[r]

NoEvent(r) == FindFiring(r, Key) = {}

\* The row of a new event: one of those that do not fire, which nothing reads
\* any more, is given up for it.
NewId == CHOOSE i \in EventId : events[i].state # "firing"

\* A new event is delivered.
\* Mutant: a rule with a cadence waits for it.
AfterRecordByCadence(r) == IF Renotify[r] = 0 THEN "deliver" ELSE "rule"
AfterRecord(r) == "deliver"

\* A first trigger is recorded and then delivered ...
Record(r) ==
    /\ rule[r] # "gone" /\ NoEvent(r)
    /\ \E i \in EventId : events[i].state # "firing"    \* the bound
    /\ events' = [events EXCEPT ![NewId] = Event(r, Key, "firing")]
    /\ offers' = [offers EXCEPT ![NewId] = NeverOffered]
    /\ cut' = cut \ {NewId}
    /\ cur' = NewId
    /\ loaded' = FALSE
    /\ todo' = todo \ {r}
    /\ Goto(AfterRecord(r))
    /\ UNCHANGED <<broken, lost>>

\* ... one of an event that is due again is delivered again ...
Again(r) ==
    /\ rule[r] # "gone"
    /\ \E i \in FindFiring(r, Key) :
         /\ ShouldRenotify(r, i)
         /\ cur' = i
    /\ loaded' = TRUE
    /\ todo' = todo \ {r}
    /\ Goto("deliver")
    /\ UNCHANGED <<events, offers, broken, cut, lost>>

\* ... and any other one makes the event a little younger.
Touch(r) ==
    /\ rule[r] # "gone"
    /\ \E i \in FindFiring(r, Key) :
         /\ ~ShouldRenotify(r, i)
         /\ events' = [events EXCEPT ![i].age = 0]
    /\ loaded' = FALSE
    /\ todo' = todo \ {r}
    /\ UNCHANGED <<pc, cur, offers, broken, cut, lost>>

\* A rule deleted meanwhile: its attributes cannot be read again, or the event
\* recorded with the ones in memory violates the foreign key.
RuleVanished(r) ==
    /\ rule[r] = "gone"
    /\ EndTrigger
    /\ lost' = lost \cup {Key}
    /\ broken' \in IF loaded THEN {TRUE} ELSE BOOLEAN
    /\ UNCHANGED <<events, offers, cut>>

ApplyRule(r) ==
    /\ pc = "rule" /\ r \in todo
    /\ Record(r) \/ Again(r) \/ Touch(r) \/ RuleVanished(r)
    /\ UNCHANGED <<rule, level, address, queue, batch, reported, upsets>>

AllApplied ==
    /\ pc = "rule" /\ todo = {}
    /\ EndTrigger
    /\ UNCHANGED <<tables, queue, batch, broken, history, upsets>>

\* _deliver reads the channels of the rule, and offers the event to them.
Offer ==
    LET e == events[cur] IN
    /\ pc = "deliver"
    /\ IF e.rule = NoRule /\ ~loaded
       THEN /\ EndTrigger
            /\ cut' = cut \cup {cur}
            /\ lost' = lost \cup {Key}
            /\ UNCHANGED offers
       ELSE /\ Goto("fired")
            /\ offers' = [offers EXCEPT ![cur] =
                 [sent |-> TRUE, quiet |-> 0,
                  late |-> IF e.state = "firing" \/ @.late = 2 THEN @.late ELSE @.late + 1]]
            /\ UNCHANGED <<todo, cur, loaded, cut, lost>>
    /\ UNCHANGED <<tables, queue, batch, broken, reported, upsets>>

\* The event is marked: its deliveries and last_fired_at.
\* Mutants: last_fired_at is left alone; the whole row is written back as it
\* was read.
FiredAgeKept(e) == e
FiredAsRead(e) == [e EXCEPT !.age = 0, !.state = "firing"]
Fired(e) == [e EXCEPT !.age = 0]

Mark ==
    /\ pc = "fired"
    /\ events' = [events EXCEPT ![cur] = Fired(@)]
    /\ loaded' = FALSE
    /\ cur' = 0
    /\ Goto("rule")
    /\ UNCHANGED <<rule, level, address, queue, batch, todo, broken, history, upsets>>

\* The triggers left.
\* Mutant: one trigger per tick.
RestGivenUp == <<>>
Rest == Tail(batch)

\* run_automation: a rogue address that has a row is marked.
Automate ==
    /\ pc = "automate"
    /\ address' = IF ~broken /\ Key \in Addr /\ address[Key] # "none"
                  THEN [address EXCEPT ![Key] = "marked"] ELSE address
    /\ batch' = Rest
    /\ Goto("trigger")
    /\ UNCHANGED <<rule, level, events, queue, todo, loaded, cur, broken, history, upsets>>

\* eval_utilization: for every enabled rule whose threshold a subnet has reached
\* a trigger is emitted for the subnet.  On a broken session the tick is over.
Exceeded ==
    {p \in Watch \X Subnet : rule[p[1]] = "on" /\ level[p[2]] >= Threshold[p[1]]}

Evaluate ==
    /\ pc = "trigger" /\ batch = <<>>
    /\ IF broken
       THEN /\ Goto("wait")
            /\ UNCHANGED <<queue, todo>>
       ELSE /\ Goto("resolve")
            /\ \E order \in [1..Cardinality(Exceeded) -> Exceeded] :
                 /\ Exceeded \subseteq Elements(order)
                 /\ queue' = queue \o [n \in DOMAIN order |-> order[n][2]]
            /\ todo' = {<<i, events[i].rule>> : i \in {j \in EventId : events[j].state = "firing"}}
    /\ loaded' = ~broken
    /\ UNCHANGED <<tables, batch, cur, broken, history, upsets>>

\* The utilization has fallen below the threshold less the margin.
\* Mutant: any fall below the threshold less twice the margin.
ClearedFar(r, s) == level[s] < Threshold[r] - 2 * Margin
Cleared(r, s) ==
    level[s] < IF Threshold[r] > Margin THEN Threshold[r] - Margin ELSE 0

\* _resolve_stale_firing, one event at a time; of a rule deleted meanwhile the
\* threshold may still be in memory.
ResolveOne(i, r) ==
    /\ pc = "resolve" /\ <<i, r>> \in todo
    /\ todo' = todo \ {<<i, r>>}
    /\ IF r \in Watch /\ (rule[r] # "gone" \/ loaded) /\ Cleared(r, events[i].key)
       THEN events' = Resolved(i) /\ loaded' = FALSE
       ELSE UNCHANGED <<events, loaded>>
    /\ UNCHANGED <<rule, level, address, queue, pc, batch, cur, broken, history, upsets>>

EndTick ==
    /\ pc = "resolve" /\ todo = {}
    /\ Goto("wait")
    /\ loaded' = FALSE
    /\ UNCHANGED <<tables, queue, batch, todo, cur, broken, history, upsets>>

-----------------------------------------------------------------------------
(* What goes wrong, and time.                                              *)

\* The database raises in a tick: what is in progress is given up.
Fault ==
    /\ upsets < MaxUpsets /\ upsets' = upsets + 1
    /\ pc # "wait" /\ ~broken
    /\ broken' = TRUE
    /\ cut' = IF pc \in {"deliver", "fired"} THEN cut \cup {cur} ELSE cut
    /\ IF pc \in {"rule", "deliver", "fired"}
       THEN EndTrigger /\ lost' = lost \cup {Key}
       ELSE todo' = {} /\ UNCHANGED <<pc, cur, loaded, lost>>
    /\ UNCHANGED <<tables, queue, batch, offers, reported>>

\* The process dies with the queue, and with what was drained from it.
Crash ==
    /\ upsets < MaxUpsets /\ upsets' = upsets + 1
    /\ lost' = lost \cup Elements(queue) \cup Elements(batch)
    /\ cut' = IF pc \in {"deliver", "fired"} THEN cut \cup {cur} ELSE cut
    /\ queue' = <<>> /\ batch' = <<>> /\ todo' = {} /\ cur' = 0
    /\ broken' = FALSE /\ loaded' = FALSE
    /\ Goto("wait")
    /\ UNCHANGED <<tables, offers, reported>>

TimePasses ==
    LET Firing == {i \in EventId : events[i].state = "firing"} IN
    /\ \E i \in Firing : events[i].age < MaxAge \/ offers[i].quiet < MaxAge
    /\ events' = [i \in EventId |-> IF i \in Firing THEN [events[i] EXCEPT !.age = Older(@)]
                                   ELSE events[i]]
    /\ offers' = [i \in EventId |-> IF i \in Firing THEN [offers[i] EXCEPT !.quiet = Older(@)]
                                   ELSE offers[i]]
    /\ UNCHANGED <<rule, level, address, queue, dispatcher, reported, cut, lost, upsets>>

-----------------------------------------------------------------------------
Init ==
    /\ rule \in [Rule -> {"none", "on"}]
    /\ level = [s \in Subnet |-> 0]
    /\ address = [a \in Addr |-> "none"]
    /\ events = [i \in EventId |-> Event(NoRule, CHOOSE k \in Resource : TRUE, "none")]
    /\ queue = <<>>
    /\ pc = "wait" /\ batch = <<>> /\ todo = {} /\ loaded = FALSE /\ cur = 0 /\ broken = FALSE
    /\ offers = [i \in EventId |-> NeverOffered]
    /\ reported = {} /\ cut = {} /\ lost = {}
    /\ upsets = 0

Dispatch ==
    \/ Drain \/ LoadRules \/ AllApplied \/ Offer \/ Mark \/ Automate \/ Evaluate \/ EndTick
    \/ \E r \in Rule : ApplyRule(r)
    \/ \E i \in EventId, r \in Rule \cup {NoRule} : ResolveOne(i, r)

Next ==
    \/ Dispatch \/ Fault \/ Crash \/ TimePasses
    \/ \E a \in Addr : Report(a) \/ CommitDiscovery(a)
    \/ \E s \in Subnet, n \in 0..MaxLevel : SetLevel(s, n)
    \/ \E r \in Rule : SwitchRule(r) \/ DeleteRule(r)
    \/ \E i \in EventId : Acknowledge(i)

Spec == Init /\ [][Next]_vars

\* The dispatcher loops whatever happens in a tick, a sweep commits what it has
\* reported, and time passes.
FairSpec ==
    /\ Spec
    /\ WF_vars(Dispatch) /\ WF_vars(TimePasses)
    /\ \A a \in Addr : WF_vars(CommitDiscovery(a))

-----------------------------------------------------------------------------
(* Properties.                                                             *)

\* The variables have their types; the dispatcher has an event in hand exactly
\* while it delivers one.
TypeOK ==
    /\ rule \in [Rule -> {"none", "on", "off", "gone"}]
    /\ level \in [Subnet -> 0..MaxLevel]
    /\ address \in [Addr -> {"none", "discovered", "marked"}]
    /\ events \in [EventId -> EventRow]
    /\ queue \in Seq(Resource) /\ batch \in Seq(Resource)
    /\ pc \in {"wait", "trigger", "rule", "deliver", "fired", "automate", "resolve"}
    /\ pc \in {"rule", "deliver", "fired", "automate"} => batch # <<>>
    /\ pc \in {"wait", "resolve"} => batch = <<>>
    /\ todo \subseteq IF pc = "resolve" THEN EventId \X (Rule \cup {NoRule}) ELSE Rule
    /\ pc \in {"deliver", "fired"} <=> cur \in EventId
    /\ loaded \in BOOLEAN /\ broken \in BOOLEAN
    /\ offers \in [EventId -> OfferRow]
    /\ reported \subseteq Addr /\ cut \subseteq EventId /\ lost \subseteq Resource
    /\ upsets \in 0..MaxUpsets

\* However many triggers repeat it, and whatever is acknowledged between the
\* lookup and the insert, a rule has one firing event for a resource
\* (state.py:8).
OneFiringEvent ==
    \A i, j \in EventId :
        /\ i # j /\ events[i].state = "firing" /\ events[j].state = "firing"
        /\ events[i].rule = events[j].rule /\ events[i].rule # NoRule
        => events[i].key # events[j].key

\* An event that exists was offered to its channels, is about to be, or its
\* tick was cut short by a crash, a database error or the deletion of its rule:
\* recording and delivering are two transactions (dispatcher.py:69-75).
RecordedIsOffered ==
    \A i \in EventId :
        events[i].state # "none" => offers[i].sent \/ i \in cut \/ (pc = "deliver" /\ cur = i)

\* "Operators can acknowledge a firing event to stop re-notifications"
\* (user-guide.html:1140): at most the one under way is still sent.
AcknowledgedIsQuiet == \A i \in EventId : offers[i].late <= 1

\* Between two offers of an event the cadence of its rule passes, and without
\* a cadence there is one offer only (state.py:20), unless the tick died
\* between the offer and its record.
OffersAreSpaced ==
    [][pc = "deliver" /\ pc' = "fired" /\ offers[cur].sent /\ cur \notin cut
       => \A r \in Rule : events[cur].rule = r
                          => Renotify[r] # 0 /\ offers[cur].quiet >= Renotify[r]]_vars

\* A trigger leads to an event of each rule that stays enabled, unless the tick
\* or the process that held it broke (user-guide.html:1098-1136).
TriggerIsNoticed ==
    \A r \in Rule, k \in Resource :
        k \in Elements(queue) /\ rule[r] = "on" /\ Matches(r, k)
        ~> FindFiring(r, k) # {} \/ rule[r] # "on" \/ k \in lost

\* An event of a subnet that has emptied, and stays so, is resolved without
\* anybody's help (dispatcher.py:84-116).
ClearedIsResolved ==
    \A i \in EventId, r \in Watch, s \in Subnet :
        LET Stands == /\ events[i].state = "firing" /\ events[i].rule = r /\ events[i].key = s
                      /\ level[s] + Margin < Threshold[r]
        IN Stands ~> ~Stands

\* "minutes between re-sends while an event remains in firing state"
\* (user-guide.html:1138): an event that stays firing on a subnet that stays
\* over the threshold is sent again and again.
FiringIsResent ==
    \A i \in EventId, r \in Watch, s \in Subnet :
        LET Stands == /\ events[i].state = "firing" /\ events[i].rule = r /\ events[i].key = s
                      /\ level[s] >= Threshold[r] /\ rule[r] = "on" /\ Renotify[r] # 0
        IN []<>(~Stands) \/ []<>(pc = "fired" /\ cur = i)

\* "A subnet's utilization crosses the rule threshold" (user-guide.html:1113):
\* of a subnet that never reaches the threshold of a rule, the rule has no event.
EventExceedsItsRule ==
    \A r \in Watch, s \in Subnet :
        [](level[s] < Threshold[r])
        => [](\A i \in EventId : events[i].rule = r => events[i].key # s)

\* "tag every newly-discovered device" (user-guide.html:1143).
DiscoveredIsMarked ==
    \A a \in Addr : address[a] = "discovered" ~> address[a] = "marked" \/ a \in lost
=============================================================================
