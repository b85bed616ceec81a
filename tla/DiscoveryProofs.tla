-------------------------- MODULE DiscoveryProofs --------------------------
(***************************************************************************)
(* Proofs about Discovery, for any devices, MACs, addresses, networks and  *)
(* number of polls at once.                                                *)
(*                                                                         *)
(* That open events do not pile up rests on a count: a detection that is   *)
(* about to insert an event found none open, so for each event those open  *)
(* and those about to be inserted are together no more than the polls.     *)
(***************************************************************************)
EXTENDS Discovery, FiniteSetTheorems, WellFoundedInduction, TLAPS

-----------------------------------------------------------------------------
(* The inductive invariant.                                                *)

\* A poll is of a device that was configured.
PollsAreOfDevices ==
    \A p \in Polls : poll[p].pc # "idle" =>
        poll[p].device \in Devices /\ device[poll[p].device] # "absent"

\* A MAC that was seen stays seen: the row of mac_last_seen that a detection
\* loaded is still there when it commits.
RowsStay ==
    \A p \in Polls, m \in Macs :
        poll[p].pc = "commit" /\ poll[p].was[m] # Unseen =>
            poll[p].now[m] # Unseen /\ seen[m] # Unseen

\* The event a sweep writes has no MAC, that of a detection has one.
SweepsEventsDiffer ==
    \A p \in Polls, ip \in IPs : Event("rogue_device", NoMac, ip) \notin poll[p].added

\* The detections that are about to insert an event.
Adding(k) == {p \in Polls : poll[p].pc = "commit" /\ k \in poll[p].added}
Counted == \A k \in EventKey : open[k] + Cardinality(Adding(k)) <= Cardinality(Polls)

Typed == TypeOK /\ PollsAreOfDevices /\ RowsStay
IInv == Typed /\ SweepsEventsDiffer /\ Counted

-----------------------------------------------------------------------------
(* Lemmas about the operators.                                             *)

\* A set of places in a sequence has a last one.
LEMMA LastExists ==
    ASSUME NEW n \in Nat, NEW S \in SUBSET (1..n), S # {}
    PROVE  Max(S) \in S /\ \A x \in S : x <= Max(S)
<1> DEFINE T == {n - x : x \in S}
<1>0. \A x \in S : x \in Nat /\ n - x \in Nat
  OBVIOUS
<1>1. T \subseteq Nat /\ T # {}
  <2>1. T \subseteq Nat
    BY <1>0
  <2>2. PICK x \in S : TRUE
    OBVIOUS
  <2>3. n - x \in T
    BY <2>2
  <2> QED
    BY <2>1, <2>3
<1>2. PICK t \in T : \A y \in T : <<y, t>> \notin OpToRel(<, Nat)
  BY <1>1, WFMin, NatLessThanWellFounded
<1>3. \A y \in T : ~(y < t)
  BY <1>1, <1>2 DEF OpToRel
<1>4. PICK x \in S : t = n - x
  BY <1>2
<1>5. \A y \in S : x >= y
  BY <1>3, <1>4
<1> QED
  BY <1>5 DEF Max

\* The order of a query is one of its rows.
LEMMA OrderIsOfRows ==
    ASSUME NEW rows, IsFiniteSet(rows), NEW order \in SetToSeqs(rows)
    PROVE  /\ Cardinality(rows) \in Nat
           /\ order \in [1..Cardinality(rows) -> rows]
BY FS_CardinalityType DEF SetToSeqs

\* mac_last_seen after a detection keeps its type and every MAC it had.
LEMMA SeenAfterType ==
    ASSUME TypeOK, NEW order \in SetToSeqs(found)
    PROVE  /\ SeenAfter(order) \in [Macs -> Where \cup {Unseen}]
           /\ \A m \in Macs : seen[m] # Unseen => SeenAfter(order)[m] # Unseen
<1>1. IsFiniteSet(found)
  BY FS_Subset, ModelAssumption DEF TypeOK
<1>2. Cardinality(found) \in Nat /\ order \in [1..Cardinality(found) -> found]
  BY <1>1, OrderIsOfRows
<1> SUFFICES ASSUME NEW m \in Macs
             PROVE  /\ SeenAfter(order)[m] \in Where \cup {Unseen}
                    /\ seen[m] # Unseen => SeenAfter(order)[m] # Unseen
  BY DEF SeenAfter
<1> DEFINE at == {i \in DOMAIN order : order[i].mac = m}
<1>3. CASE at = {}
  BY <1>3 DEF SeenAfter, TypeOK
<1>4. CASE at # {}
  <2>1. Max(at) \in at
    BY <1>2, <1>4, LastExists
  <2>2. order[Max(at)] \in Row
    BY <2>1, <1>2 DEF TypeOK
  <2>3. SeenAfter(order)[m] = [device |-> order[Max(at)].device, port |-> order[Max(at)].port]
    BY <1>4 DEF SeenAfter
  <2> HIDE DEF at
  <2>4. SeenAfter(order)[m] \in Where
    BY <2>2, <2>3 DEF Row, Where
  <2> QED
    BY <2>4, NamesAssumption
<1> QED
  BY <1>3, <1>4

\* The events of a detection are events, and none is one of a sweep.
LEMMA DetectedType ==
    ASSUME TypeOK, NEW order \in SetToSeqs(found),
           NEW k \in NewMacs(order) \cup Moves(order) \cup Conflicts(found) \cup Rogues(found)
    PROVE  /\ k \in EventKey
           /\ \A ip \in IPs : k # Event("rogue_device", NoMac, ip)
<1>1. IsFiniteSet(found)
  BY FS_Subset, ModelAssumption DEF TypeOK
<1>2. Cardinality(found) \in Nat /\ order \in [1..Cardinality(found) -> found]
  BY <1>1, OrderIsOfRows
<1>3. \A i \in DOMAIN order : order[i] \in Row
  BY <1>2 DEF TypeOK
<1>4. CASE k \in NewMacs(order)
  BY <1>3, <1>4 DEF NewMacs, Event, EventKey, Row
<1>5. CASE k \in Moves(order)
  BY <1>3, <1>5 DEF Moves, Event, EventKey, Row
<1>6. CASE k \in Conflicts(found)
  BY <1>6 DEF Conflicts, Event, EventKey
<1>7. CASE k \in Rogues(found)
  BY <1>7, NamesAssumption DEF Rogues, Event, EventKey, Row, TypeOK
<1> QED
  BY <1>4, <1>5, <1>6, <1>7

\* What a commit makes of a row of mac_last_seen.
LEMMA EntryType ==
    ASSUME NEW was \in Where \cup {Unseen}, NEW new \in Where \cup {Unseen},
           NEW inDb \in Where \cup {Unseen},
           was # Unseen => new # Unseen /\ inDb # Unseen
    PROVE  /\ Entry(was, new, inDb) \in Where \cup {Unseen}
           /\ inDb # Unseen => Entry(was, new, inDb) # Unseen
BY NamesAssumption DEF Entry, Flushed, Where

\* The endpoints of a poll have its device.
LEMMA AnswerTypes ==
    ASSUME NEW d \in Devices, NEW es \in SUBSET Endpoint
    PROVE  /\ RowsOf(d, es) \subseteq Row
           /\ \A r \in RowsOf(d, es) : r.device = d
           /\ \A bridge, arp \in BOOLEAN : Merged(es, bridge, arp) \in SUBSET Endpoint
<1>1. RowsOf(d, es) \subseteq Row /\ \A r \in RowsOf(d, es) : r.device = d
  BY DEF RowsOf, Row, Endpoint
<1>2. \A bridge, arp \in BOOLEAN : Merged(es, bridge, arp) \in SUBSET Endpoint
  BY DEF Merged, Endpoint
<1> QED
  BY <1>1, <1>2

LEMMA IdleType == Idle \in Poll /\ Idle.pc = "idle" /\ Idle.added = {}
BY DEF Idle, Poll


-----------------------------------------------------------------------------
(* Type correctness.                                                       *)

LEMMA TypedInit == Init => Typed
<1> SUFFICES ASSUME Init PROVE Typed
  OBVIOUS
<1>1. \A p \in Polls : poll[p] = Idle
  BY DEF Init
<1>2. TypeOK
  BY IdleType, ModelAssumption DEF Init, TypeOK
<1>3. PollsAreOfDevices /\ RowsStay
  BY <1>1, IdleType DEF PollsAreOfDevices, RowsStay
<1> QED
  BY <1>2, <1>3 DEF Typed

\* A step that only moves poll p on, to a state that is well typed, of the same
\* device or of one that is configured, and not to its commit.
LEMMA PollMoves ==
    ASSUME Typed, NEW p \in Polls, NEW new \in Poll, poll' = [poll EXCEPT ![p] = new],
           new.pc # "idle" => new.device \in Devices /\ device'[new.device] # "absent",
           \A d \in Devices : device[d] # "absent" => device'[d] # "absent",
           new.pc = "commit" => \A m \in Macs : new.was[m] # Unseen =>
                                    new.now[m] # Unseen /\ seen'[m] # Unseen,
           \A m \in Macs : seen[m] # Unseen => seen'[m] # Unseen
    PROVE  /\ poll' \in [Polls -> Poll]
           /\ PollsAreOfDevices' /\ RowsStay'
<1>1. poll \in [Polls -> Poll]
  BY DEF Typed, TypeOK
<1>2. \A q \in Polls : poll'[q] = IF q = p THEN new ELSE poll[q]
  BY <1>1
<1>3. poll' \in [Polls -> Poll]
  BY <1>1
<1>4. PollsAreOfDevices'
  BY <1>1, <1>2 DEF Typed, PollsAreOfDevices
<1>5. RowsStay'
  BY <1>1, <1>2 DEF Typed, RowsStay
<1> QED
  BY <1>3, <1>4, <1>5

\* Nothing of the polls changes.
LEMMA PollsStay ==
    ASSUME Typed, poll' = poll, seen' = seen,
           \A d \in Devices : device[d] # "absent" => device'[d] # "absent"
    PROVE  poll' \in [Polls -> Poll] /\ PollsAreOfDevices' /\ RowsStay'
BY DEF Typed, TypeOK, PollsAreOfDevices, RowsStay

LEMMA UpsetType == ASSUME Typed, Upset PROVE upsets' \in 0..MaxUpsets /\ rewires' = rewires
BY ModelAssumption DEF Typed, TypeOK, Upset

LEMMA StatusType ==
    ASSUME Typed, NEW d \in Devices, NEW s, SetStatus(d, s) PROVE running' \subseteq Devices
BY DEF Typed, TypeOK, SetStatus

LEMMA TypedBegin ==
    ASSUME Typed, NEW p \in Polls, NEW d \in Devices, LoopStart(p, d) \/ PollNow(p, d)
    PROVE  Typed'
<1> DEFINE new == [Idle EXCEPT !.pc = "begin", !.device = d]
<1>1. new \in Poll /\ new.pc = "begin" /\ new.device = d
  BY IdleType DEF Idle, Poll
<1>2. /\ poll' = [poll EXCEPT ![p] = new]
      /\ device[d] # "absent" /\ device' = device /\ seen' = seen
      /\ UNCHANGED <<net, tables, rewires>>
      /\ Upset \/ upsets' = upsets
  BY DEF LoopStart, PollNow, tables, bounds, Upset
<1> HIDE DEF new
<1>3. poll' \in [Polls -> Poll] /\ PollsAreOfDevices' /\ RowsStay'
  BY <1>1, <1>2, PollMoves
<1>4. upsets' \in 0..MaxUpsets
  BY <1>2, UpsetType DEF Typed, TypeOK
<1> QED
  BY <1>2, <1>3, <1>4 DEF Typed, TypeOK, tables

LEMMA TypedAsk == ASSUME Typed, NEW p \in Polls, Ask(p) PROVE Typed'
<1> DEFINE d == poll[p].device
<1>1. poll[p] \in Poll /\ poll[p].pc = "begin" /\ d \in Devices /\ device[d] # "absent"
  BY DEF Ask, Typed, TypeOK, PollsAreOfDevices
<1>2. UNCHANGED <<net, device, found, seen, recorded, open>>
  BY DEF Ask
<1>3. CASE device[d] = "gone"
  <2>1. poll' = [poll EXCEPT ![p] = Idle] /\ UNCHANGED <<running, bounds>>
    BY <1>3 DEF Ask
  <2>2. poll' \in [Polls -> Poll] /\ PollsAreOfDevices' /\ RowsStay'
    BY <1>2, <2>1, IdleType, PollMoves
  <2> QED
    BY <1>2, <2>1, <2>2 DEF Typed, TypeOK, bounds
<1>4. CASE device[d] # "gone"
  <2>1. PICK bridge \in BOOLEAN, arp \in BOOLEAN :
            /\ IF bridge /\ arp THEN UNCHANGED bounds ELSE Upset
            /\ SetStatus(d, "running")
            /\ poll' = [poll EXCEPT ![p].pc = "clear", ![p].got = Merged(net[d], bridge, arp)]
    BY <1>4 DEF Ask
  <2> DEFINE got == Merged(net[d], bridge, arp)
             new == [poll[p] EXCEPT !.pc = "clear", !.got = got]
  <2>2. net[d] \in SUBSET Endpoint
    BY <1>1, ModelAssumption DEF Typed, TypeOK
  <2>3. got \in SUBSET Endpoint
    BY <1>1, <2>2, AnswerTypes
  <2> HIDE DEF got
  <2>4. new \in Poll /\ new.pc = "clear" /\ new.device = d
    BY <1>1, <2>3 DEF Poll
  <2>5. poll' = [poll EXCEPT ![p] = new]
    BY <2>1 DEF Typed, TypeOK, got
  <2> HIDE DEF new
  <2>6. poll' \in [Polls -> Poll] /\ PollsAreOfDevices' /\ RowsStay'
    BY <1>1, <1>2, <2>4, <2>5, PollMoves
  <2>7. rewires' \in 0..MaxRewires /\ upsets' \in 0..MaxUpsets
    BY <2>1, UpsetType DEF Typed, TypeOK, bounds
  <2>8. running' \subseteq Devices
    BY <1>1, <2>1, StatusType
  <2> QED
    BY <1>2, <2>6, <2>7, <2>8 DEF Typed, TypeOK
<1> QED
  BY <1>3, <1>4

LEMMA TypedClear == ASSUME Typed, NEW p \in Polls, Clear(p) PROVE Typed'
<1> DEFINE new == [poll[p] EXCEPT !.pc = "store", !.gone = Gone(p)]
<1>1. poll[p] \in Poll /\ poll[p].pc = "clear" /\ Gone(p) \subseteq Row
  BY DEF Clear, Typed, TypeOK, Gone, RowsFor
<1>2. new \in Poll /\ new.pc = "store" /\ new.device = poll[p].device
  BY <1>1 DEF Poll
<1>3. poll' = [poll EXCEPT ![p] = new]
  BY DEF Clear, Typed, TypeOK
<1>4. UNCHANGED <<net, tables, bounds>>
  BY DEF Clear
<1>5. new.device \in Devices /\ device'[new.device] # "absent"
  BY <1>1, <1>2, <1>4 DEF Typed, PollsAreOfDevices, tables
<1> HIDE DEF new
<1>6. poll' \in [Polls -> Poll] /\ PollsAreOfDevices' /\ RowsStay'
  BY <1>2, <1>3, <1>4, <1>5, PollMoves DEF tables
<1> QED
  BY <1>4, <1>6 DEF Typed, TypeOK, tables, bounds

\* A poll that ends in any way.
LEMMA TypedEnd ==
    ASSUME Typed, NEW p \in Polls, NEW s, SetStatus(poll[p].device, s),
           poll' = [poll EXCEPT ![p] = Idle], poll[p].pc # "idle",
           UNCHANGED <<net, device, found, recorded>>,
           seen' \in [Macs -> Where \cup {Unseen}], open' \in [EventKey -> Nat],
           \A m \in Macs : seen[m] # Unseen => seen'[m] # Unseen,
           rewires' \in 0..MaxRewires, upsets' \in 0..MaxUpsets
    PROVE  Typed'
<1>1. poll' \in [Polls -> Poll] /\ PollsAreOfDevices' /\ RowsStay'
  BY IdleType, PollMoves
<1>2. running' \subseteq Devices
  BY StatusType DEF Typed, PollsAreOfDevices
<1> QED
  BY <1>1, <1>2 DEF Typed, TypeOK

LEMMA TypedStore == ASSUME Typed, NEW p \in Polls, Store(p) PROVE Typed'
<1> DEFINE d == poll[p].device
           new == [poll[p] EXCEPT !.pc = "detect", !.got = {}, !.gone = {}]
<1>1. poll[p] \in Poll /\ poll[p].pc = "store" /\ d \in Devices /\ device[d] # "absent"
  BY DEF Store, Typed, TypeOK, PollsAreOfDevices
<1>2. UNCHANGED <<net, device, recorded, bounds>>
  BY DEF Store
<1>3. CASE device[d] = "gone" /\ poll[p].got # {}
  <2>1. Failed(p)
    BY <1>3 DEF Store
  <2> QED
    BY <1>1, <1>2, <2>1, TypedEnd DEF Failed, Typed, TypeOK, bounds
<1>4. CASE ~(device[d] = "gone" /\ poll[p].got # {})
  <2>1. /\ found' = (found \ poll[p].gone) \cup RowsOf(d, poll[p].got)
        /\ poll' = [poll EXCEPT ![p].pc = "detect", ![p].got = {}, ![p].gone = {}]
        /\ UNCHANGED <<running, seen, open>>
    BY <1>4 DEF Store
  <2>2. new \in Poll /\ new.pc = "detect" /\ new.device = d
    BY <1>1 DEF Poll
  <2>3. poll' = [poll EXCEPT ![p] = new]
    BY <2>1 DEF Typed, TypeOK
  <2> HIDE DEF new
  <2>4. poll' \in [Polls -> Poll] /\ PollsAreOfDevices' /\ RowsStay'
    BY <1>1, <1>2, <2>1, <2>2, <2>3, PollMoves
  <2>5. poll[p].got \in SUBSET Endpoint
    BY <1>1 DEF Poll
  <2>6. RowsOf(d, poll[p].got) \subseteq Row /\ \A r \in RowsOf(d, poll[p].got) : r.device = d
    BY <1>1, <2>5, AnswerTypes
  <2>7. \A r \in RowsOf(d, poll[p].got) : device[r.device] \in {"on", "off"}
    <3>1. poll[p].got = {} => RowsOf(d, poll[p].got) = {}
      BY DEF RowsOf
    <3> QED
      BY <1>1, <1>4, <2>6, <3>1 DEF Typed, TypeOK
  <2>8. found' \subseteq Row /\ \A r \in found' : device'[r.device] \in {"on", "off"}
    BY <1>2, <2>1, <2>6, <2>7 DEF Typed, TypeOK
  <2> QED
    BY <1>2, <2>1, <2>4, <2>8 DEF Typed, TypeOK, bounds
<1> QED
  BY <1>3, <1>4

\* What a detection is about to write.
LEMMA TypedDetect ==
    ASSUME Typed, NEW p \in Polls, Detect(p)
    PROVE  /\ Typed'
           /\ poll' = [poll EXCEPT ![p] = poll'[p]]
           /\ \A k \in poll'[p].added : ~Reported(k)
           /\ \A ip \in IPs : Event("rogue_device", NoMac, ip) \notin poll'[p].added
<1>1. PICK order \in SetToSeqs(found) :
          LET keys == NewMacs(order) \cup Moves(order) \cup Conflicts(found) \cup Rogues(found) IN
          poll' = [poll EXCEPT ![p].pc = "commit", ![p].was = seen, ![p].now = SeenAfter(order),
                               ![p].added = {k \in keys : ~Reported(k)}]
  BY DEF Detect
<1> DEFINE keys == NewMacs(order) \cup Moves(order) \cup Conflicts(found) \cup Rogues(found)
           added == {k \in keys : ~Reported(k)}
           now == SeenAfter(order)
           new == [poll[p] EXCEPT !.pc = "commit", !.was = seen, !.now = now, !.added = added]
<1>2. UNCHANGED <<net, tables, bounds>>
  BY DEF Detect
<1>3. poll[p] \in Poll /\ poll[p].pc = "detect" /\ seen \in [Macs -> Where \cup {Unseen}]
  BY DEF Detect, Typed, TypeOK
<1>4. /\ now \in [Macs -> Where \cup {Unseen}]
      /\ \A m \in Macs : seen[m] # Unseen => now[m] # Unseen
  BY SeenAfterType DEF Typed
<1>5. /\ added \subseteq EventKey /\ \A k \in added : ~Reported(k)
      /\ \A ip \in IPs : Event("rogue_device", NoMac, ip) \notin added
  BY DetectedType DEF Typed
<1>6. poll' = [poll EXCEPT ![p].pc = "commit", ![p].was = seen, ![p].now = now,
                           ![p].added = added]
  BY <1>1
<1> HIDE DEF keys, added, now
<1>7. /\ new \in Poll /\ new.pc = "commit" /\ new.device = poll[p].device
      /\ new.was = seen /\ new.now = now /\ new.added = added
  BY <1>3, <1>4, <1>5 DEF Poll
<1>8. poll' = [poll EXCEPT ![p] = new]
  BY <1>6 DEF Typed, TypeOK
<1>9. new.device \in Devices /\ device'[new.device] # "absent"
  BY <1>2, <1>3, <1>7 DEF Typed, PollsAreOfDevices, tables
<1> HIDE DEF new
<1>10. poll' \in [Polls -> Poll] /\ PollsAreOfDevices' /\ RowsStay'
  BY <1>2, <1>4, <1>7, <1>8, <1>9, PollMoves DEF tables
<1>11. poll'[p] = new
  BY <1>8 DEF Typed, TypeOK
<1>12. Typed'
  BY <1>2, <1>10 DEF Typed, TypeOK, tables, bounds
<1> QED
  BY <1>5, <1>7, <1>8, <1>11, <1>12

LEMMA TypedCommit ==
    ASSUME Typed, NEW p \in Polls, CommitEvents(p) PROVE Typed'
<1>1. poll[p] \in Poll /\ poll[p].pc = "commit"
  BY DEF CommitEvents, Typed, TypeOK
<1>2. UNCHANGED <<net, device, recorded, bounds>>
  BY DEF CommitEvents
<1>3. CASE Collides(p)
  <2>1. Failed(p)
    BY <1>3 DEF CommitEvents
  <2> QED
    BY <1>1, <1>2, <2>1, TypedEnd DEF Failed, Typed, TypeOK, bounds
<1>4. CASE ~Collides(p)
  <2>1. /\ seen' = [m \in Macs |-> Entry(poll[p].was[m], poll[p].now[m], seen[m])]
        /\ open' = [k \in EventKey |-> IF k \in poll[p].added THEN open[k] + 1 ELSE open[k]]
        /\ SetStatus(poll[p].device, "ok")
        /\ poll' = [poll EXCEPT ![p] = Idle]
        /\ UNCHANGED found
    BY <1>4 DEF CommitEvents
  <2>2. \A m \in Macs :
            /\ poll[p].was[m] \in Where \cup {Unseen} /\ poll[p].now[m] \in Where \cup {Unseen}
            /\ seen[m] \in Where \cup {Unseen}
            /\ poll[p].was[m] # Unseen => poll[p].now[m] # Unseen /\ seen[m] # Unseen
    BY <1>1 DEF Typed, TypeOK, RowsStay, Poll
  <2>3. \A m \in Macs :
            /\ seen'[m] \in Where \cup {Unseen}
            /\ seen[m] # Unseen => seen'[m] # Unseen
    <3> SUFFICES ASSUME NEW m \in Macs
                 PROVE  /\ seen'[m] \in Where \cup {Unseen}
                        /\ seen[m] # Unseen => seen'[m] # Unseen
      OBVIOUS
    <3> DEFINE was == poll[p].was[m]
               now == poll[p].now[m]
               inDb == seen[m]
    <3>1. seen'[m] = Entry(was, now, inDb)
      BY <2>1
    <3>2. /\ was \in Where \cup {Unseen} /\ now \in Where \cup {Unseen}
          /\ inDb \in Where \cup {Unseen}
          /\ was # Unseen => now # Unseen /\ inDb # Unseen
      BY <2>2
    <3>3. inDb = seen[m]
      OBVIOUS
    <3> HIDE DEF was, now, inDb
    <3>4. /\ Entry(was, now, inDb) \in Where \cup {Unseen}
          /\ inDb # Unseen => Entry(was, now, inDb) # Unseen
      BY <3>2, EntryType
    <3> QED
      BY <3>1, <3>3, <3>4
  <2>4. seen' \in [Macs -> Where \cup {Unseen}]
    BY <2>1, <2>3
  <2>5. open' \in [EventKey -> Nat]
    BY <2>1 DEF Typed, TypeOK
  <2> QED
    BY <1>1, <1>2, <2>1, <2>3, <2>4, <2>5, TypedEnd DEF Typed, TypeOK, bounds
<1> QED
  BY <1>3, <1>4

LEMMA TypedFails == ASSUME Typed, NEW p \in Polls, PollFails(p) PROVE Typed'
<1>1. upsets' \in 0..MaxUpsets /\ rewires' \in 0..MaxRewires
  BY UpsetType DEF PollFails, Typed, TypeOK
<1> QED
  BY <1>1, TypedEnd DEF PollFails, Failed, Typed, TypeOK

LEMMA TypedCrash == ASSUME Typed, Crash PROVE Typed'
<1>1. upsets' \in 0..MaxUpsets /\ rewires' \in 0..MaxRewires
  BY UpsetType DEF Crash, Typed, TypeOK
<1>2. poll' = [p \in Polls |-> Idle] /\ UNCHANGED <<net, tables>>
  BY DEF Crash
<1>3. poll' \in [Polls -> Poll] /\ PollsAreOfDevices' /\ RowsStay'
  BY <1>2, IdleType DEF PollsAreOfDevices, RowsStay
<1> QED
  BY <1>1, <1>2, <1>3 DEF Typed, TypeOK, tables

LEMMA TypedCreate == ASSUME Typed, NEW d \in Devices, CreateDevice(d) PROVE Typed'
<1>1. /\ device' = [device EXCEPT ![d] = "on"]
      /\ UNCHANGED <<net, running, found, seen, recorded, open, poll, bounds>>
  BY DEF CreateDevice
<1>2. /\ device' \in [Devices -> {"absent", "on", "off", "gone"}]
      /\ \A e \in Devices : device[e] # "absent" => device'[e] # "absent"
      /\ \A e \in Devices : device[e] \in {"on", "off"} => device'[e] \in {"on", "off"}
  BY <1>1 DEF Typed, TypeOK
<1>3. poll' \in [Polls -> Poll] /\ PollsAreOfDevices' /\ RowsStay'
  BY <1>1, <1>2, PollsStay
<1>4. \A r \in found : r.device \in Devices
  BY DEF Typed, TypeOK, Row
<1> QED
  BY <1>1, <1>2, <1>3, <1>4 DEF Typed, TypeOK, bounds

LEMMA TypedEdit == ASSUME Typed, NEW d \in Devices, EditDevice(d) PROVE Typed'
<1>1. upsets' \in 0..MaxUpsets /\ rewires' \in 0..MaxRewires
  BY UpsetType DEF EditDevice, Typed, TypeOK
<1>2. /\ found' = {r \in found : device'[r.device] # "gone"}
      /\ UNCHANGED <<net, running, seen, recorded, open, poll>>
  BY DEF EditDevice
<1>3. /\ device' \in [Devices -> {"absent", "on", "off", "gone"}]
      /\ \A e \in Devices : device[e] # "absent" => device'[e] # "absent"
      /\ \A e \in Devices : device[e] \in {"on", "off"} => device'[e] \in {"on", "off", "gone"}
  BY DEF EditDevice, UpdateDevice, DeleteDevice, Typed, TypeOK
<1>4. poll' \in [Polls -> Poll] /\ PollsAreOfDevices' /\ RowsStay'
  BY <1>2, <1>3, PollsStay
<1>5. \A r \in found : r.device \in Devices
  BY DEF Typed, TypeOK, Row
<1> QED
  BY <1>1, <1>2, <1>3, <1>4, <1>5 DEF Typed, TypeOK

LEMMA TypedClose ==
    ASSUME Typed, NEW k \in EventKey, Acknowledge(k) \/ Quarantine(k) PROVE Typed'
<1>1. Closed(k)
  BY DEF Acknowledge, Quarantine
<1>2. upsets' \in 0..MaxUpsets /\ rewires' \in 0..MaxRewires
  BY <1>1, UpsetType DEF Closed, Typed, TypeOK
<1>3. UNCHANGED <<net, device, running, found, seen, poll>>
  BY <1>1 DEF Closed
<1>4. open' \in [EventKey -> Nat]
  BY <1>1 DEF Closed, Typed, TypeOK
<1>5. recorded' \subseteq IPs
  BY ModelAssumption DEF Acknowledge, Quarantine, Typed, TypeOK
<1>6. poll' \in [Polls -> Poll] /\ PollsAreOfDevices' /\ RowsStay'
  BY <1>3, PollsStay
<1> QED
  BY <1>2, <1>3, <1>4, <1>5, <1>6 DEF Typed, TypeOK

LEMMA TypedScan == ASSUME Typed, NEW ip \in IPs, ScanFinds(ip) PROVE Typed'
<1>1. upsets' \in 0..MaxUpsets /\ rewires' \in 0..MaxRewires
  BY UpsetType DEF ScanFinds, Typed, TypeOK
<1>2. UNCHANGED <<net, device, running, found, seen, poll>>
  BY DEF ScanFinds
<1>3. open' \in [EventKey -> Nat]
  <2> DEFINE k == Event("rogue_device", NoMac, ip)
  <2>1. open' = [open EXCEPT ![k] = IF Reported(k) THEN @ ELSE @ + 1]
    BY DEF ScanFinds
  <2>2. k \in EventKey /\ open \in [EventKey -> Nat]
    BY DEF Event, EventKey, Typed, TypeOK
  <2> HIDE DEF k
  <2> QED
    BY <2>1, <2>2
<1>4. recorded' \subseteq IPs
  BY DEF ScanFinds, Typed, TypeOK
<1>5. poll' \in [Polls -> Poll] /\ PollsAreOfDevices' /\ RowsStay'
  BY <1>2, PollsStay
<1> QED
  BY <1>1, <1>2, <1>3, <1>4, <1>5 DEF Typed, TypeOK

LEMMA TypedRewire == ASSUME Typed, Rewire PROVE Typed'
<1>1. rewires' \in 0..MaxRewires /\ net' \in Nets
  BY ModelAssumption DEF Rewire, Typed, TypeOK
<1>2. UNCHANGED <<tables, poll, upsets>>
  BY DEF Rewire
<1>3. poll' \in [Polls -> Poll] /\ PollsAreOfDevices' /\ RowsStay'
  BY <1>2, PollsStay DEF tables
<1> QED
  BY <1>1, <1>2, <1>3 DEF Typed, TypeOK, tables

-----------------------------------------------------------------------------
(* The count of events.                                                    *)

\* Nothing is about to be inserted that was not before, and nothing was.
LEMMA CountFalls ==
    ASSUME IInv, Typed', NEW k \in EventKey,
           open'[k] <= open[k], Adding(k)' \subseteq Adding(k)
    PROVE  open'[k] + Cardinality(Adding(k)') <= Cardinality(Polls)
<1>1. IsFiniteSet(Polls) /\ Adding(k) \subseteq Polls
  BY ModelAssumption DEF Adding
<1>2. IsFiniteSet(Adding(k)) /\ Cardinality(Polls) \in Nat
  BY <1>1, FS_Subset, FS_CardinalityType
<1>3. /\ Cardinality(Adding(k)) \in Nat /\ Cardinality(Adding(k)') \in Nat
      /\ Cardinality(Adding(k)') <= Cardinality(Adding(k))
  BY <1>2, FS_Subset, FS_CardinalityType
<1>4. open[k] \in Nat /\ open'[k] \in Nat
  BY DEF IInv, Typed, TypeOK
<1>5. open[k] + Cardinality(Adding(k)) <= Cardinality(Polls)
  BY DEF IInv, Counted
<1> QED
  BY <1>2, <1>3, <1>4, <1>5

\* A step in which no event is opened and no detection comes to its commit.
LEMMA QuietStep ==
    ASSUME IInv, Typed', \A k \in EventKey : open'[k] <= open[k],
           \A q \in Polls : /\ poll'[q].added \subseteq poll[q].added
                            /\ poll'[q].pc = "commit" => poll[q].pc = "commit"
    PROVE  IInv'
<1>1. \A k \in EventKey : Adding(k)' \subseteq Adding(k)
  BY DEF Adding
<1>2. Counted'
  BY <1>1, CountFalls DEF Counted
<1>3. SweepsEventsDiffer'
  BY DEF IInv, SweepsEventsDiffer
<1> QED
  BY <1>2, <1>3 DEF IInv

\* The same of a step that changes no events and moves one poll on.
LEMMA QuietPoll ==
    ASSUME IInv, Typed', NEW p \in Polls, open' = open, poll' = [poll EXCEPT ![p] = poll'[p]],
           poll'[p].added \subseteq poll[p].added, poll'[p].pc # "commit"
    PROVE  IInv'
<1>1. \A k \in EventKey : open[k] \in Nat
  BY DEF IInv, Typed, TypeOK
<1>2. \A q \in Polls : q # p => poll'[q] = poll[q]
  BY DEF IInv, Typed, TypeOK
<1> QED
  BY <1>1, <1>2, QuietStep

LEMMA CountedDetect == ASSUME IInv, NEW p \in Polls, Detect(p) PROVE IInv'
<1>1. /\ Typed'
      /\ poll' = [poll EXCEPT ![p] = poll'[p]]
      /\ \A k \in poll'[p].added : ~Reported(k)
      /\ \A ip \in IPs : Event("rogue_device", NoMac, ip) \notin poll'[p].added
  BY TypedDetect DEF IInv
<1>2. open' = open /\ \A q \in Polls : q # p => poll'[q] = poll[q]
  BY <1>1 DEF Detect, tables, IInv, Typed, TypeOK
<1>3. SweepsEventsDiffer'
  BY <1>1, <1>2 DEF IInv, SweepsEventsDiffer
<1>4. ASSUME NEW k \in EventKey
      PROVE  open'[k] + Cardinality(Adding(k)') <= Cardinality(Polls)
  <2>1. open[k] \in Nat /\ open'[k] = open[k]
    BY <1>2 DEF IInv, Typed, TypeOK
  <2>2. CASE k \in poll'[p].added
    <3>1. open'[k] = 0
      BY <1>1, <2>1, <2>2 DEF Reported
    <3>2. Adding(k)' \subseteq Polls
      BY DEF Adding
    <3>3. /\ Cardinality(Adding(k)') \in Nat /\ Cardinality(Polls) \in Nat
          /\ Cardinality(Adding(k)') <= Cardinality(Polls)
      BY <3>2, FS_Subset, FS_CardinalityType, ModelAssumption
    <3> QED
      BY <3>1, <3>3
  <2>3. CASE k \notin poll'[p].added
    <3>1. Adding(k)' \subseteq Adding(k)
      BY <1>2, <2>3 DEF Adding
    <3> QED
      BY <1>1, <2>1, <3>1, CountFalls
  <2> QED
    BY <2>2, <2>3
<1>5. Counted'
  BY <1>4 DEF Counted
<1> QED
  BY <1>1, <1>3, <1>5 DEF IInv

\* What a detection inserts leaves those about to be inserted.
LEMMA CountedCommit == ASSUME IInv, NEW p \in Polls, CommitEvents(p) PROVE IInv'
<1>1. Typed'
  BY TypedCommit DEF IInv
<1>2. poll[p].pc = "commit" /\ poll' = [poll EXCEPT ![p] = Idle]
  BY DEF CommitEvents, Failed
<1>3. poll'[p] = Idle /\ \A q \in Polls : q # p => poll'[q] = poll[q]
  BY <1>2 DEF IInv, Typed, TypeOK
<1>4. CASE Collides(p)
  <2>1. open' = open
    BY <1>4 DEF CommitEvents, Failed
  <2>2. poll' = [poll EXCEPT ![p] = poll'[p]]
    BY <1>2, <1>3
  <2> QED
    BY <1>1, <1>3, <2>1, <2>2, IdleType, QuietPoll
<1>5. CASE ~Collides(p)
  <2>1. open' = [k \in EventKey |-> IF k \in poll[p].added THEN open[k] + 1 ELSE open[k]]
    BY <1>5 DEF CommitEvents
  <2>2. ASSUME NEW k \in EventKey
        PROVE  open'[k] + Cardinality(Adding(k)') <= Cardinality(Polls)
    <3>1. Adding(k)' = Adding(k) \ {p}
      BY <1>3, IdleType DEF Adding
    <3>2. open[k] \in Nat /\ open[k] + Cardinality(Adding(k)) <= Cardinality(Polls)
      BY DEF IInv, Typed, TypeOK, Counted
    <3>3. IsFiniteSet(Adding(k)) /\ Cardinality(Polls) \in Nat
      BY FS_Subset, FS_CardinalityType, ModelAssumption DEF Adding
    <3>4. CASE k \in poll[p].added
      <4>1. p \in Adding(k)
        BY <1>2, <3>4 DEF Adding
      <4>2. Cardinality(Adding(k) \ {p}) = Cardinality(Adding(k)) - 1
        BY <3>3, <4>1, FS_RemoveElement
      <4>3. Cardinality(Adding(k)) \in Nat /\ open'[k] = open[k] + 1
        BY <2>1, <3>3, <3>4, FS_CardinalityType
      <4> QED
        BY <3>1, <3>2, <3>3, <4>2, <4>3
    <3>5. CASE k \notin poll[p].added
      <4>1. open'[k] = open[k]
        BY <2>1, <3>5
      <4> QED
        BY <1>1, <3>1, <3>2, <4>1, CountFalls
    <3> QED
      BY <3>4, <3>5
  <2>3. Counted'
    BY <2>2 DEF Counted
  <2>4. SweepsEventsDiffer'
    BY <1>3, IdleType DEF IInv, SweepsEventsDiffer
  <2> QED
    BY <1>1, <2>3, <2>4 DEF IInv
<1> QED
  BY <1>4, <1>5

\* No detection is about to insert what a sweep does.
LEMMA CountedScan == ASSUME IInv, NEW ip \in IPs, ScanFinds(ip) PROVE IInv'
<1> DEFINE e == Event("rogue_device", NoMac, ip)
<1>1. Typed'
  BY TypedScan DEF IInv
<1>2. poll' = poll
  BY DEF ScanFinds
<1>3. open' = [open EXCEPT ![e] = IF Reported(e) THEN @ ELSE @ + 1]
  BY DEF ScanFinds
<1>4. e \in EventKey
  BY DEF Event, EventKey
<1>5. Adding(e) = {}
  BY DEF IInv, SweepsEventsDiffer, Adding
<1> HIDE DEF e
<1>6. \A k \in EventKey : open[k] \in Nat /\ Adding(k)' = Adding(k)
  BY <1>2 DEF IInv, Typed, TypeOK, Adding
<1>7. open'[e] = (IF open[e] > 0 THEN open[e] ELSE 1) /\ \A k \in EventKey \ {e} : open'[k] = open[k]
  BY <1>3, <1>4, <1>6 DEF Reported, IInv, Typed, TypeOK
<1>8. Cardinality(Polls) \in Nat /\ Cardinality(Polls) # 0
  BY FS_CardinalityType, FS_EmptySet, ModelAssumption
<1>9. ASSUME NEW k \in EventKey
      PROVE  open'[k] + Cardinality(Adding(k)') <= Cardinality(Polls)
  <2>1. CASE k = e /\ open[e] = 0
    <3>1. open'[k] = 1 /\ Cardinality(Adding(k)') = 0
      BY <1>5, <1>6, <1>7, <2>1, FS_EmptySet
    <3> QED
      BY <1>8, <3>1
  <2>2. CASE ~(k = e /\ open[e] = 0)
    <3>1. open'[k] = open[k]
      BY <1>4, <1>6, <1>7, <2>2
    <3>2. open'[k] <= open[k]
      BY <1>6, <3>1
    <3> QED
      BY <1>1, <1>6, <3>2, CountFalls
  <2> QED
    BY <2>1, <2>2
<1>10. Counted'
  BY <1>9 DEF Counted
<1>11. SweepsEventsDiffer'
  BY <1>2 DEF IInv, SweepsEventsDiffer
<1> QED
  BY <1>1, <1>10, <1>11 DEF IInv

LEMMA CountedClose ==
    ASSUME IInv, NEW k \in EventKey, Acknowledge(k) \/ Quarantine(k) PROVE IInv'
<1>1. Typed'
  BY TypedClose DEF IInv
<1>2. Closed(k)
  BY DEF Acknowledge, Quarantine
<1>3. poll' = poll /\ open[k] > 0 /\ open' = [open EXCEPT ![k] = @ - 1]
  BY <1>2 DEF Closed
<1>4. \A j \in EventKey : open'[j] <= open[j]
  BY <1>3 DEF IInv, Typed, TypeOK
<1> QED
  BY <1>1, <1>3, <1>4, QuietStep

-----------------------------------------------------------------------------
(* The inductive invariant holds.                                          *)

LEMMA IInvInit == Init => IInv
<1> SUFFICES ASSUME Init PROVE IInv
  OBVIOUS
<1>1. Typed
  BY TypedInit
<1>2. \A p \in Polls : poll[p].pc = "idle" /\ poll[p].added = {}
  BY IdleType DEF Init
<1>3. SweepsEventsDiffer
  BY <1>2 DEF SweepsEventsDiffer
<1>4. Cardinality(Polls) \in Nat
  BY FS_CardinalityType, ModelAssumption
<1>5. \A k \in EventKey : open[k] = 0 /\ Adding(k) = {}
  BY <1>2 DEF Init, Adding
<1>6. Cardinality({}) = 0
  BY FS_EmptySet
<1>7. Counted
  BY <1>4, <1>5, <1>6 DEF Counted
<1> QED
  BY <1>1, <1>3, <1>7 DEF IInv

LEMMA IInvNext == IInv /\ [Next]_vars => IInv'
<1> SUFFICES ASSUME IInv, [Next]_vars PROVE IInv'
  OBVIOUS
<1>0. Typed /\ poll \in [Polls -> Poll] /\ \A k \in EventKey : open[k] \in Nat
  BY DEF IInv, Typed, TypeOK
<1>1. ASSUME NEW p \in Polls, NEW d \in Devices, LoopStart(p, d) \/ PollNow(p, d) PROVE IInv'
  <2>1. Typed'
    BY <1>0, <1>1, TypedBegin
  <2>2. /\ poll' = [poll EXCEPT ![p] = [Idle EXCEPT !.pc = "begin", !.device = d]]
        /\ open' = open
    BY <1>1 DEF LoopStart, PollNow, tables
  <2>3. poll'[p] = [Idle EXCEPT !.pc = "begin", !.device = d]
    BY <1>0, <2>2
  <2>4. poll'[p].added = {} /\ poll'[p].pc # "commit"
    BY <2>3 DEF Idle
  <2>5. poll' = [poll EXCEPT ![p] = poll'[p]]
    BY <2>2, <2>3
  <2> QED
    BY <2>1, <2>2, <2>4, <2>5, QuietPoll
<1>2. ASSUME NEW p \in Polls, Ask(p) PROVE IInv'
  <2>1. Typed'
    BY <1>0, <1>2, TypedAsk
  <2>2. poll[p] \in Poll /\ open' = open
    BY <1>0, <1>2 DEF Ask
  <2>3. CASE poll' = [poll EXCEPT ![p] = Idle]
    <3>1. poll'[p] = Idle
      BY <1>0, <2>3
    <3> QED
      BY <2>1, <2>2, <2>3, <3>1, IdleType, QuietPoll
  <2>4. CASE \E got : poll' = [poll EXCEPT ![p].pc = "clear", ![p].got = got]
    <3>1. PICK got : poll' = [poll EXCEPT ![p].pc = "clear", ![p].got = got]
      BY <2>4
    <3>2. poll'[p] = [poll[p] EXCEPT !.pc = "clear", !.got = got]
      BY <1>0, <3>1
    <3>3. poll'[p].pc = "clear" /\ poll'[p].added = poll[p].added
      BY <2>2, <3>2 DEF Poll
    <3>4. poll' = [poll EXCEPT ![p] = poll'[p]]
      BY <1>0, <3>1, <3>2
    <3> QED
      BY <2>1, <2>2, <3>3, <3>4, QuietPoll
  <2> QED
    BY <1>2, <2>3, <2>4 DEF Ask
<1>3. ASSUME NEW p \in Polls, Clear(p) PROVE IInv'
  <2>1. Typed'
    BY <1>0, <1>3, TypedClear
  <2>2. poll[p] \in Poll /\ open' = open
    BY <1>0, <1>3 DEF Clear, tables
  <2>3. poll' = [poll EXCEPT ![p].pc = "store", ![p].gone = Gone(p)]
    BY <1>3 DEF Clear
  <2>4. poll'[p] = [poll[p] EXCEPT !.pc = "store", !.gone = Gone(p)]
    BY <1>0, <2>3
  <2>5. poll'[p].pc = "store" /\ poll'[p].added = poll[p].added
    BY <2>2, <2>4 DEF Poll
  <2>6. poll' = [poll EXCEPT ![p] = poll'[p]]
    BY <1>0, <2>3, <2>4
  <2> QED
    BY <2>1, <2>2, <2>5, <2>6, QuietPoll
<1>4. ASSUME NEW p \in Polls, Store(p) PROVE IInv'
  <2>1. Typed'
    BY <1>0, <1>4, TypedStore
  <2>2. poll[p] \in Poll /\ open' = open
    BY <1>0, <1>4 DEF Store, Failed
  <2>3. CASE poll' = [poll EXCEPT ![p] = Idle]
    <3>1. poll'[p] = Idle
      BY <1>0, <2>3
    <3> QED
      BY <2>1, <2>2, <2>3, <3>1, IdleType, QuietPoll
  <2>4. CASE poll' = [poll EXCEPT ![p].pc = "detect", ![p].got = {}, ![p].gone = {}]
    <3>1. poll'[p] = [poll[p] EXCEPT !.pc = "detect", !.got = {}, !.gone = {}]
      BY <1>0, <2>4
    <3>2. poll'[p].pc = "detect" /\ poll'[p].added = poll[p].added
      BY <2>2, <3>1 DEF Poll
    <3>3. poll' = [poll EXCEPT ![p] = poll'[p]]
      BY <1>0, <2>4, <3>1
    <3> QED
      BY <2>1, <2>2, <3>2, <3>3, QuietPoll
  <2> QED
    BY <1>4, <2>3, <2>4 DEF Store, Failed
<1>5. ASSUME NEW p \in Polls, Detect(p) PROVE IInv'
  BY <1>5, CountedDetect
<1>6. ASSUME NEW p \in Polls, CommitEvents(p) PROVE IInv'
  BY <1>6, CountedCommit
<1>7. ASSUME NEW p \in Polls, PollFails(p) PROVE IInv'
  <2>1. Typed'
    BY <1>0, <1>7, TypedFails
  <2>2. poll' = [poll EXCEPT ![p] = Idle] /\ open' = open
    BY <1>7 DEF PollFails, Failed
  <2>3. poll'[p] = Idle
    BY <1>0, <2>2
  <2> QED
    BY <2>1, <2>2, <2>3, IdleType, QuietPoll
<1>8. ASSUME Crash PROVE IInv'
  <2>1. Typed'
    BY <1>0, <1>8, TypedCrash
  <2>2. poll' = [p \in Polls |-> Idle] /\ open' = open
    BY <1>8 DEF Crash, tables
  <2> QED
    BY <1>0, <2>1, <2>2, IdleType, QuietStep
<1>9. ASSUME NEW d \in Devices, CreateDevice(d) \/ EditDevice(d) PROVE IInv'
  <2>1. Typed'
    BY <1>0, <1>9, TypedCreate, TypedEdit
  <2>2. open' = open /\ poll' = poll
    BY <1>9 DEF CreateDevice, EditDevice
  <2> QED
    BY <1>0, <2>1, <2>2, QuietStep
<1>10. ASSUME NEW k \in EventKey, Acknowledge(k) \/ Quarantine(k) PROVE IInv'
  BY <1>10, CountedClose
<1>11. ASSUME NEW ip \in IPs, ScanFinds(ip) PROVE IInv'
  BY <1>11, CountedScan
<1>12. ASSUME Rewire PROVE IInv'
  <2>1. Typed'
    BY <1>0, <1>12, TypedRewire
  <2>2. open' = open /\ poll' = poll
    BY <1>12 DEF Rewire, tables
  <2> QED
    BY <1>0, <2>1, <2>2, QuietStep
<1>13. ASSUME UNCHANGED vars PROVE IInv'
  <2>1. Typed'
    BY <1>0, <1>13 DEF vars, tables, bounds, Typed, TypeOK, PollsAreOfDevices, RowsStay
  <2>2. open' = open /\ poll' = poll
    BY <1>13 DEF vars, tables
  <2> QED
    BY <1>0, <2>1, <2>2, QuietStep
<1>14. CASE Next
  BY <1>14, <1>1, <1>2, <1>3, <1>4, <1>5, <1>6, <1>7, <1>8, <1>9, <1>10, <1>11, <1>12
  DEF Next, Step
<1> QED
  BY <1>13, <1>14

LEMMA IInvHolds == Spec => []IInv
BY IInvInit, IInvNext, PTL DEF Spec

-----------------------------------------------------------------------------
(* Theorems.                                                               *)

\* The variables of discovery keep their types, a poll under way is of a device
\* that was configured, and an endpoint of one that still is.
THEOREM DiscoveryTypes == Spec => []TypeOK
<1>1. IInv => TypeOK
  BY DEF IInv, Typed
<1> QED
  BY <1>1, IInvHolds, PTL

\* However polls overlap, fail and are repeated, and whoever acknowledges what
\* meanwhile, the open events of one kind are no more than the polls at once.
THEOREM EventsDoNotPileUp == Spec => []EventsAreOnce
<1>1. IInv => EventsAreOnce
  <2> SUFFICES ASSUME IInv, NEW k \in EventKey PROVE open[k] <= Cardinality(Polls)
    BY DEF EventsAreOnce
  <2>1. Adding(k) \subseteq Polls /\ open[k] \in Nat
    BY DEF Adding, IInv, Typed, TypeOK
  <2>2. Cardinality(Adding(k)) \in Nat /\ Cardinality(Polls) \in Nat
    BY <2>1, FS_Subset, FS_CardinalityType, ModelAssumption
  <2>3. open[k] + Cardinality(Adding(k)) <= Cardinality(Polls)
    BY DEF IInv, Counted
  <2> QED
    BY <2>1, <2>2, <2>3
<1> QED
  BY <1>1, IInvHolds, PTL
=============================================================================
