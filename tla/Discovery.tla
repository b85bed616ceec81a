----------------------------- MODULE Discovery -----------------------------
(***************************************************************************)
(* Network discovery (discovery/runner.py, discovery/snmp.py,              *)
(* api/discovery.py) and the security events drawn from it (security.py,   *)
(* api/security.py).  A poll of a device asks it for its tables, replaces  *)
(* the endpoints recorded for it, and then looks at the endpoints of all   *)
(* devices for addresses in conflict, devices nobody recorded, new MACs    *)
(* and MACs that moved.                                                    *)
(*                                                                         *)
(* Polls run in threads, started by a loop or by hand; nothing keeps two   *)
(* of one device apart.  mac_last_seen has the MAC as its key; events have *)
(* none but the query that looks for an open one of the same kind.         *)
(***************************************************************************)
EXTENDS Naturals, FiniteSets, SequencesExt

CONSTANTS
    Devices, Macs, IPs, Ports,
    Polls,          \* threads
    Nets,           \* what the tables of all devices may show
    Covered,        \* addresses that lie in a subnet
    FirstNets, FirstDevices,   \* the network and the devices at first
    MaxRewires,     \* bound: changes of the network
    MaxUpsets,      \* bound: unanswered walks, errors, restarts, finds of sweeps,
                    \* acts of operators
    NoIp, NoPort, NoMac, Unseen, None

Endpoint == [mac : Macs, ip : IPs \cup {NoIp}, port : Ports \cup {NoPort}]
Where == [device : Devices, port : Ports \cup {NoPort}]
Row == [device : Devices, mac : Macs, ip : IPs \cup {NoIp}, port : Ports \cup {NoPort}]
EventKey == [type : {"new_mac", "mac_move", "ip_conflict", "rogue_device"},
             mac : Macs \cup {NoMac}, ip : IPs \cup {NoIp}]

ASSUME ModelAssumption ==
    /\ Nets \subseteq [Devices -> SUBSET Endpoint]
    /\ \A n \in Nets : \A d \in Devices : \A e, f \in n[d] : e.mac = f.mac => e = f
    /\ Covered \subseteq IPs /\ FirstNets \subseteq Nets /\ FirstDevices \subseteq Devices
    /\ {MaxRewires, MaxUpsets} \subseteq Nat
    /\ IsFiniteSet(Row) /\ IsFiniteSet(Polls) /\ Polls # {}
ASSUME NamesAssumption ==
    NoIp \notin IPs /\ NoPort \notin Ports /\ NoMac \notin Macs /\ None \notin Devices
    /\ Unseen \notin Where

VARIABLES
    net,        \* what each device would answer
    device,     \* network_devices
    running,    \* devices whose sync_status says so; "ok" and "error" only show
    found,      \* discovered_endpoints
    seen,       \* mac_last_seen: device and port, or Unseen
    recorded,   \* ip_addresses
    open,       \* security events that nobody has acknowledged: how many of each
    poll,       \* the threads
    rewires, upsets

tables == <<device, running, found, seen, recorded, open>>
bounds == <<rewires, upsets>>
vars == <<net, tables, poll, bounds>>

Event(type, mac, ip) == [type |-> type, mac |-> mac, ip |-> ip]
Flushed(was, new, inDb) == IF new = was THEN inDb ELSE new
Upset == upsets < MaxUpsets /\ upsets' = upsets + 1 /\ UNCHANGED rewires

\* got: the answer of the device; gone: the rows the poll has deleted; was, now:
\* mac_last_seen as loaded and as changed; added: the events to insert.
Idle == [pc |-> "idle", device |-> None, got |-> {}, gone |-> {}, was |-> [m \in Macs |-> Unseen],
         now |-> [m \in Macs |-> Unseen], added |-> {}]

RowsOf(d, es) == {[device |-> d, mac |-> e.mac, ip |-> e.ip, port |-> e.port] : e \in es}
RowsFor(d) == {r \in found : r.device = d}

-----------------------------------------------------------------------------
(* One poll.                                                               *)

\* _set_status: a poll ends with "ok" or "error", which no step looks at.
SetStatus(d, s) == running' = IF s = "running" THEN running \cup {d} ELSE running \ {d}

\* discovery_poller_loop, for one device, once its interval has passed.
LoopStart(p, d) ==
    /\ poll[p].pc = "idle"
    /\ device[d] = "on" /\ d \notin running
    /\ poll' = [poll EXCEPT ![p] = [Idle EXCEPT !.pc = "begin", !.device = d]]
    /\ UNCHANGED <<net, tables, bounds>>

PollNow(p, d) ==
    /\ poll[p].pc = "idle"
    /\ device[d] \in {"on", "off"}
    /\ Upset
    /\ poll' = [poll EXCEPT ![p] = [Idle EXCEPT !.pc = "begin", !.device = d]]
    /\ UNCHANGED <<net, tables>>

\* The answer merged from the tables that were answered: a walk that fails is
\* logged and leaves its table empty, which is no error of the poll.
Merged(es, bridge, arp) ==
    {[mac |-> e.mac, ip |-> IF arp THEN e.ip ELSE NoIp,
      port |-> IF bridge THEN e.port ELSE NoPort] :
        e \in {e \in es : (bridge /\ e.port # NoPort) \/ (arp /\ e.ip # NoIp)}}

\* The status is committed before the device is asked, which takes its time: that
\* of the steps that follow.
Ask(p) ==
    LET d == poll[p].device IN
    /\ poll[p].pc = "begin"
    /\ IF device[d] = "gone"
       THEN poll' = [poll EXCEPT ![p] = Idle] /\ UNCHANGED <<running, bounds>>
       ELSE \E bridge, arp \in BOOLEAN :
                /\ IF bridge /\ arp THEN UNCHANGED bounds ELSE Upset
                /\ SetStatus(d, "running")
                /\ poll' = [poll EXCEPT ![p].pc = "clear", ![p].got = Merged(net[d], bridge, arp)]
    /\ UNCHANGED <<net, device, found, seen, recorded, open>>

\* The DELETE takes the rows there are when it runs.  Of two polls of a device
\* that take the same rows the second waits for the first, which makes no
\* difference to what they leave; here either may commit first.
\* Mutant: the rows of an earlier poll stay.
NothingGone(p) == {}
Gone(p) == RowsFor(poll[p].device)
Clear(p) ==
    /\ poll[p].pc = "clear"
    /\ poll' = [poll EXCEPT ![p].pc = "store", ![p].gone = Gone(p)]
    /\ UNCHANGED <<net, tables, bounds>>

Failed(p) ==
    /\ SetStatus(poll[p].device, "error")
    /\ poll' = [poll EXCEPT ![p] = Idle]
    /\ UNCHANGED <<found, seen, open>>

\* The endpoints are committed; their foreign key fails if the device is gone.
Store(p) ==
    LET d == poll[p].device IN
    /\ poll[p].pc = "store"
    /\ IF device[d] = "gone" /\ poll[p].got # {}
       THEN Failed(p)
       ELSE /\ found' = (found \ poll[p].gone) \cup RowsOf(d, poll[p].got)
            /\ poll' = [poll EXCEPT ![p].pc = "detect", ![p].got = {}, ![p].gone = {}]
            /\ UNCHANGED <<running, seen, open>>
    /\ UNCHANGED <<net, device, recorded, bounds>>

\* detect_security goes through the endpoints in the order of the query, which is
\* any: a MAC is new, or has another port than the endpoint before it, or before
\* the first what mac_last_seen said; a port that is not known is not another one.
Moved(prev, r) == prev.port # NoPort /\ r.port # NoPort /\ r.port # prev.port
Earlier(order, i) == {j \in 1..(i - 1) : order[j].mac = order[i].mac}
Prev(order, i) ==
    IF Earlier(order, i) = {} THEN seen[order[i].mac] ELSE order[Max(Earlier(order, i))]
NewMacs(order) ==
    {Event("new_mac", order[i].mac, order[i].ip) :
        i \in {i \in DOMAIN order : Prev(order, i) = Unseen}}
Moves(order) ==
    {Event("mac_move", order[i].mac, order[i].ip) :
        i \in {i \in DOMAIN order : Prev(order, i) # Unseen /\ Moved(Prev(order, i), order[i])}}
\* mac_last_seen after the last of them.
SeenAfter(order) ==
    [m \in Macs |->
        LET at == {i \in DOMAIN order : order[i].mac = m} IN
        IF at = {} THEN seen[m]
        ELSE [device |-> order[Max(at)].device, port |-> order[Max(at)].port]]

MacsAt(rows, ip) == {r.mac : r \in {r \in rows : r.ip = ip}}
Conflicts(rows) ==
    {Event("ip_conflict", NoMac, ip) : ip \in {ip \in IPs : Cardinality(MacsAt(rows, ip)) > 1}}
Rogues(rows) ==
    {Event("rogue_device", r.mac, r.ip) : r \in {r \in rows : r.ip # NoIp /\ r.ip \notin recorded}}

\* emit_security_event: an open event of the same kind is refreshed, which an
\* acknowledgement in between makes vain.
\* Mutant: it is not looked for.
NotReported(k) == FALSE
Reported(k) == open[k] > 0

Detect(p) ==
    /\ poll[p].pc = "detect"
    /\ \E order \in SetToSeqs(found) :
        LET keys == NewMacs(order) \cup Moves(order) \cup Conflicts(found) \cup Rogues(found) IN
        poll' = [poll EXCEPT ![p].pc = "commit", ![p].was = seen, ![p].now = SeenAfter(order),
                             ![p].added = {k \in keys : ~Reported(k)}]
    /\ UNCHANGED <<net, tables, bounds>>

\* A row for a MAC that another detection has inserted meanwhile.
Collides(p) ==
    \E m \in Macs : poll[p].was[m] = Unseen /\ poll[p].now[m] # Unseen /\ seen[m] # Unseen
Entry(was, new, inDb) ==
    IF was = Unseen THEN (IF new = Unseen THEN inDb ELSE new)
    ELSE [device |-> Flushed(was.device, new.device, inDb.device),
          port |-> Flushed(was.port, new.port, inDb.port)]

CommitEvents(p) ==
    /\ poll[p].pc = "commit"
    /\ IF Collides(p)
       THEN Failed(p)
       ELSE /\ seen' = [m \in Macs |-> Entry(poll[p].was[m], poll[p].now[m], seen[m])]
            /\ open' = [k \in EventKey |-> IF k \in poll[p].added THEN open[k] + 1 ELSE open[k]]
            /\ SetStatus(poll[p].device, "ok")
            /\ poll' = [poll EXCEPT ![p] = Idle]
            /\ UNCHANGED found
    /\ UNCHANGED <<net, device, recorded, bounds>>

\* The walk raises, or the database refuses a statement or a commit.
PollFails(p) ==
    /\ poll[p].pc \in {"clear", "store", "detect", "commit"}
    /\ Upset
    /\ Failed(p)
    /\ UNCHANGED <<net, device, recorded>>

\* The process dies; the status is left as it is.
Crash ==
    /\ Upset
    /\ poll' = [p \in Polls |-> Idle]
    /\ UNCHANGED <<net, tables>>

-----------------------------------------------------------------------------
(* The API, and the rest of the system.                                    *)

CreateDevice(d) ==
    /\ device[d] = "absent"
    /\ device' = [device EXCEPT ![d] = "on"]
    /\ UNCHANGED <<net, running, found, seen, recorded, open, poll, bounds>>

UpdateDevice(d) ==
    /\ device[d] \in {"on", "off"}
    /\ device' = [device EXCEPT ![d] = IF @ = "on" THEN "off" ELSE "on"]

\* Its endpoints go with it.
DeleteDevice(d) ==
    /\ device[d] \in {"on", "off"}
    /\ device' = [device EXCEPT ![d] = "gone"]

EditDevice(d) ==
    /\ Upset
    /\ UpdateDevice(d) \/ DeleteDevice(d)
    /\ found' = {r \in found : device'[r.device] # "gone"}
    /\ UNCHANGED <<net, running, seen, recorded, open, poll>>

Closed(k) ==
    /\ open[k] > 0
    /\ Upset
    /\ open' = [open EXCEPT ![k] = @ - 1]
    /\ UNCHANGED <<net, device, running, found, seen, poll>>

Acknowledge(k) == Closed(k) /\ UNCHANGED recorded

\* The address becomes deprecated, and is recorded first if it lies in a subnet.
Quarantine(k) ==
    /\ k.ip \in recorded \cup Covered
    /\ recorded' = recorded \cup {k.ip}
    /\ Closed(k)

\* scan_subnet records a host that nobody did, and says so.
ScanFinds(ip) ==
    LET k == Event("rogue_device", NoMac, ip) IN
    /\ Upset
    /\ ip \in Covered \ recorded
    /\ recorded' = recorded \cup {ip}
    /\ open' = [open EXCEPT ![k] = IF Reported(k) THEN @ ELSE @ + 1]
    /\ UNCHANGED <<net, device, running, found, seen, poll>>

Rewire ==
    /\ rewires < MaxRewires
    /\ rewires' = rewires + 1
    /\ net' \in Nets \ {net}
    /\ UNCHANGED <<tables, poll, upsets>>

-----------------------------------------------------------------------------
Init ==
    /\ net \in FirstNets
    /\ device = [d \in Devices |-> IF d \in FirstDevices THEN "on" ELSE "absent"]
    /\ running = {}
    /\ found = {}
    /\ seen = [m \in Macs |-> Unseen]
    /\ recorded = {}
    /\ open = [k \in EventKey |-> 0]
    /\ poll = [p \in Polls |-> Idle]
    /\ rewires = 0 /\ upsets = 0

Step(p) ==
    \/ Ask(p) \/ Clear(p) \/ Store(p)
    \/ Detect(p) \/ CommitEvents(p)

Next ==
    \/ \E p \in Polls : \/ \E d \in Devices : LoopStart(p, d) \/ PollNow(p, d)
                        \/ Step(p) \/ PollFails(p)
    \/ \E d \in Devices : CreateDevice(d) \/ EditDevice(d)
    \/ \E k \in EventKey : Acknowledge(k) \/ Quarantine(k)
    \/ \E ip \in IPs : ScanFinds(ip)
    \/ Crash \/ Rewire

Spec == Init /\ [][Next]_vars

\* Threads are run, intervals pass, and the loop comes round to every device: it
\* makes a thread for each, of which the model has few.
FairSpec ==
    /\ Spec
    /\ \A p \in Polls : WF_vars(Step(p))
    /\ \A d \in Devices : SF_vars(\E p \in Polls : LoopStart(p, d))

-----------------------------------------------------------------------------
(* Properties.                                                             *)

Poll == [pc : {"idle", "begin", "clear", "store", "detect", "commit"},
         device : Devices \cup {None}, got : SUBSET Endpoint, gone : SUBSET Row,
         was : [Macs -> Where \cup {Unseen}], now : [Macs -> Where \cup {Unseen}],
         added : SUBSET EventKey]

\* Values of the variables; an endpoint has a device.
TypeOK ==
    /\ net \in Nets
    /\ device \in [Devices -> {"absent", "on", "off", "gone"}]
    /\ running \subseteq Devices
    /\ found \subseteq Row
    /\ \A r \in found : device[r.device] \in {"on", "off"}
    /\ seen \in [Macs -> Where \cup {Unseen}]
    /\ recorded \subseteq IPs
    /\ open \in [EventKey -> Nat]
    /\ poll \in [Polls -> Poll]
    /\ rewires \in 0..MaxRewires /\ upsets \in 0..MaxUpsets

\* "Duplicate events are de-duplicated rather than re-created" (user guide):
\* polls, sweeps, acknowledgements and failed detections may alternate as they
\* will, there are never more open events of a kind than detections ran at once.
EventsAreOnce == \A k \in EventKey : open[k] <= Cardinality(Polls)

\* A poll that died left its status behind, and the loop waits for it.
Stuck(d) == d \in running /\ ~\E p \in Polls : poll[p].device = d
Watched(d) == device[d] = "on" /\ ~Stuck(d)
OnTheWire == UNION {RowsOf(d, net[d]) : d \in {d \in Devices : Watched(d)}}

\* Polled again and again, the endpoints of a device come to be what it shows,
\* whatever failed, overlapped or was half answered before; and two MACs that
\* keep claiming one address are reported, again after each acknowledgement.
DiscoveryCatchesUp ==
    /\ \A d \in Devices : <>[]Watched(d) => <>[](RowsFor(d) = RowsOf(d, net[d]))
    /\ \A ip \in IPs :
        <>[](Cardinality(MacsAt(OnTheWire, ip)) > 1)
            => []<>(open[Event("ip_conflict", NoMac, ip)] > 0)
=============================================================================
