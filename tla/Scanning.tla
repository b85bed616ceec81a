------------------------------ MODULE Scanning ------------------------------
(***************************************************************************)
(* Ping sweeps of subnets (scan.py) started by the scheduler thread and by *)
(* POST /scan/subnets/{id} (api/scan.py).                                  *)
(*                                                                         *)
(* Every sweep has a thread and a session of its own.  A lock in memory    *)
(* keeps two sweeps of one subnet apart; the row scan:<id> of the status   *)
(* table is what the scheduler and the API look at.  A sweep commits four  *)
(* times: its results and the addresses it discovered, the day's history,  *)
(* the alerts, the status.  Subnets may be nested: an address swept for a  *)
(* subnet is then swept for its parent as well, and the address and        *)
(* history tables have one row for both.                                   *)
(*                                                                         *)
(* Time is abstracted to two facts: the interval of a subnet has elapsed   *)
(* since its status was written (due), and its results have outlived the   *)
(* retention.  All steps happen on one day.                                *)
(***************************************************************************)
EXTENDS Integers, Sequences, FiniteSets

CONSTANTS
    Subnet,
    Host,          \* addresses
    Hosts,         \* the host addresses of each subnet
    Worker,        \* sweeps that may be in progress together
    Ranges,        \* sets of hosts an explicit start_ip..end_ip may ask for
    Prunes,        \* whether the interval may exceed the retention of results
    MaxCount,      \* bound: where the day's counts saturate
    MaxFaults,     \* bound: database errors
    MaxCrashes,    \* bound: process restarts
    Nobody

ASSUME ScanAssumption ==
    /\ Subnet # {}
    /\ Hosts \in [Subnet -> SUBSET Host]
    /\ Ranges \subseteq SUBSET Host
    /\ Prunes \in BOOLEAN
    /\ MaxCount \in Nat \ {0} /\ MaxFaults \in Nat /\ MaxCrashes \in Nat
    /\ Nobody \notin Worker

VARIABLES
    status,    \* sync_status rows: "never" (no row), "running", "ok", "error"
    due,       \* subnets whose interval has elapsed since synced_at
    known,     \* addresses that have an ip_addresses row
    results,   \* the two newest sweeps in scan_results, of each subnet
    day,       \* scan_history_daily.total_count, 0 where there is no row
    lock,      \* _subnet_locks
    pc, job,   \* each sweep: where it is, [subnet, range] it was started with
    seen,      \* what it read and found: [up, existing]
    counts,    \* the history rows as it loaded them
    told,      \* history: reachability as alerts tell it, per subnet and host
    sampled,   \* history: results committed for each host
    uncounted, \* history: hosts with a result whose sweep died before counting it
    missed,    \* history: subnets with a sweep that died before alerting
    stranded,  \* history: subnets whose status nobody will write any more
    faults, crashes

tables  == <<status, due, known, results, day>>
local   == <<pc, job, seen, counts>>
history == <<told, sampled, uncounted, missed, stranded>>
bounds  == <<faults, crashes>>
vars == <<tables, lock, local, history, bounds>>

\* The arguments and variables of a sweep that is not in progress.
NoJob == [subnet |-> CHOOSE s \in Subnet : TRUE, range |-> {}]
NothingSeen == [up |-> {}, existing |-> {}]
NoCounts == [h \in Host |-> 0]

Goto(w, label) == pc' = [pc EXCEPT ![w] = label]
Scan(up, scanned) == [up |-> up, scanned |-> scanned]
Counted(n) == IF n < MaxCount THEN n + 1 ELSE n

\* _set_scan_status: the row is written and its clock starts again.
SetStatus(s, value) ==
    /\ status' = [status EXCEPT ![s] = value]
    /\ due' = due \ {s}

-----------------------------------------------------------------------------
(* Starting a sweep.                                                       *)

Begin(w, s, range) ==
    /\ pc[w] = "idle"
    /\ Goto(w, "started")
    /\ job' = [job EXCEPT ![w] = [subnet |-> s, range |-> range]]
    /\ UNCHANGED <<tables, lock, seen, counts, history, bounds>>

\* trigger_scan answers 409 while the status is "running".
Trigger(w, s) ==
    /\ status[s] # "running"
    /\ \E range \in Ranges \cup {Hosts[s]} : Begin(w, s, range)

\* A tick of scan_scheduler_loop, as far as subnet s is concerned.
\* Mutant: a sweep that failed is not repeated.
ReadyAfterOk(s) == status[s] \in {"never", "ok"} /\ s \in due
Ready(s) == status[s] # "running" /\ s \in due
SchedulerTick(w, s) ==
    /\ Ready(s)
    /\ Begin(w, s, Hosts[s])

-----------------------------------------------------------------------------
(* The sweep: scan_subnet.                                                 *)

\* A sweep that does not get the lock is dropped.
\* Mutant: the status row is looked at in place of the lock.
FreeByStatus(s) == status[s] # "running"
Free(s) == lock[s] = Nobody
Acquire(w) ==
    LET s == job[w].subnet IN
    /\ pc[w] = "started"
    /\ IF Free(s)
       THEN /\ lock' = [lock EXCEPT ![s] = w]
            /\ Goto(w, "announce")
            /\ UNCHANGED job
       ELSE /\ Goto(w, "idle")
            /\ job' = [job EXCEPT ![w] = NoJob]
            /\ UNCHANGED lock
    /\ UNCHANGED <<tables, seen, counts, history, bounds>>

Announce(w) ==
    /\ pc[w] = "announce"
    /\ SetStatus(job[w].subnet, "running")
    /\ stranded' = stranded \ {job[w].subnet}
    /\ Goto(w, "sweep")
    /\ UNCHANGED <<known, results, day, lock, job, seen, counts, told, sampled,
                   uncounted, missed, bounds>>

\* _get_host_list: start_ip and end_ip must both be within the subnet.
Within(j) == j.range \subseteq Hosts[j.subnet]

\* A range outside the subnet is refused; otherwise the known addresses are
\* read and every host is pinged.
Sweep(w) ==
    LET j == job[w] IN
    /\ pc[w] = "sweep"
    /\ IF Within(j)
       THEN /\ \E up \in SUBSET j.range :
                  seen' = [seen EXCEPT ![w] = [up |-> up, existing |-> known]]
            /\ Goto(w, "commit")
       ELSE /\ Goto(w, "failed")
            /\ UNCHANGED seen
    /\ UNCHANGED <<tables, lock, job, counts, history, bounds>>

\* The results and the discovered addresses are committed together; an
\* address somebody else has inserted meanwhile refuses them all.
CommitResults(w) ==
    LET s == job[w].subnet
        discovered == seen[w].up \ seen[w].existing
        newest == Scan(seen[w].up, job[w].range)
    IN
    /\ pc[w] = "commit"
    /\ IF discovered \cap known = {}
       THEN /\ known' = known \cup discovered
            /\ results' = [results EXCEPT ![s] =
                             IF @ = <<>> THEN <<newest>> ELSE <<@[Len(@)], newest>>]
            /\ sampled' = [h \in Host |-> IF h \in job[w].range
                                          THEN Counted(sampled[h]) ELSE sampled[h]]
            /\ Goto(w, "load")
       ELSE /\ Goto(w, "failed")
            /\ UNCHANGED <<known, results, sampled>>
    /\ UNCHANGED <<status, due, day, lock, job, seen, counts, told, uncounted,
                   missed, stranded, bounds>>

\* _update_last_seen locks the rows of the hosts that are up until the history
\* is committed: a second sweep that found one of them up waits here.
LastSeenLocked(w) ==
    \E v \in Worker \ {w} : pc[v] = "count" /\ seen[v].up \cap seen[w].up # {}

\* _upsert_daily_history reads each row and computes its new count from it ...
LoadHistory(w) ==
    /\ pc[w] = "load"
    /\ ~LastSeenLocked(w)
    /\ counts' = [counts EXCEPT ![w] = day]
    /\ Goto(w, "count")
    /\ UNCHANGED <<tables, lock, job, seen, history, bounds>>

\* What the commit of a sweep's history fails on: a row both inserted.
Clash(w) == \E h \in job[w].range : counts[w][h] = 0 /\ day[h] # 0

\* ... and the count it computed is what it writes.
\* Mutant: every sweep starts the day's row afresh.
WrittenAfresh(w, h) == 1
Written(w, h) == Counted(counts[w][h])

CommitHistory(w) ==
    /\ pc[w] = "count"
    /\ IF Clash(w)
       THEN /\ Goto(w, "failed")
            /\ UNCHANGED day
       ELSE /\ day' = [h \in Host |-> IF h \in job[w].range THEN Written(w, h) ELSE day[h]]
            /\ Goto(w, "detect")
    /\ UNCHANGED <<status, due, known, results, lock, job, seen, counts, history, bounds>>

\* The hosts of the newest sweep whose reachability differs from the sweep
\* before, of those both looked at.
\* Mutant: only hosts that went down are reported.
ChangesDown(s) ==
    IF Len(results[s]) < 2 THEN {} ELSE results[s][1].up \ results[s][2].up
Changes(s) ==
    IF Len(results[s]) < 2 THEN {}
    ELSE LET prev == results[s][1]
             cur  == results[s][2]
         IN {h \in prev.scanned \cap cur.scanned : (h \in prev.up) # (h \in cur.up)}

\* _detect_reachability_changes: went_unreachable and came_back alerts.
Detect(w) ==
    LET s == job[w].subnet
        newest == results[s][Len(results[s])]
        Now(h) == IF h \in newest.up THEN "up" ELSE "down"
    IN
    /\ pc[w] = "detect"
    /\ told' = [told EXCEPT ![s] = [h \in Host |->
                  IF h \in Changes(s) \/ (h \in newest.scanned /\ @[h] = "unknown")
                  THEN Now(h) ELSE @[h]]]
    /\ Goto(w, "reconcile")
    /\ UNCHANGED <<tables, lock, job, seen, counts, sampled, uncounted, missed,
                   stranded, bounds>>

\* detect_drift and remediate_drift may raise; what is committed stays.
Reconcile(w) ==
    /\ pc[w] = "reconcile"
    /\ \E outcome \in {"finish", "failed"} : Goto(w, outcome)
    /\ UNCHANGED <<tables, lock, job, seen, counts, history, bounds>>

\* The last status is written before the lock is released.
\* Mutant: the handler of an exception does not write it.
OutcomeOkOnly(w) == IF pc[w] = "finish" THEN "ok" ELSE status[job[w].subnet]
Outcome(w) == IF pc[w] = "finish" THEN "ok" ELSE "error"

Conclude(w) ==
    /\ pc[w] \in {"finish", "failed"}
    /\ SetStatus(job[w].subnet, Outcome(w))
    /\ Goto(w, "release")
    /\ UNCHANGED <<known, results, day, lock, job, seen, counts, history, bounds>>

ReleaseLock(w) ==
    /\ pc[w] = "release"
    /\ lock' = [lock EXCEPT ![job[w].subnet] = Nobody]
    /\ Goto(w, "idle")
    /\ job' = [job EXCEPT ![w] = NoJob]
    /\ seen' = [seen EXCEPT ![w] = NothingSeen]
    /\ counts' = [counts EXCEPT ![w] = NoCounts]
    /\ UNCHANGED <<tables, history, bounds>>

-----------------------------------------------------------------------------
(* What goes wrong, and the rest of the system.                            *)

\* Where the results of a sweep are committed and the history, or the alerts,
\* are not.
Uncounted(w) == IF pc[w] \in {"load", "count"} THEN job[w].range ELSE {}
Unalerted(w) == IF pc[w] \in {"load", "count", "detect"} THEN {job[w].subnet} ELSE {}
Sweeping == {"announce", "sweep", "commit", "load", "count", "detect", "reconcile",
             "finish", "failed"}

\* The database raises in a sweep: the handler writes "error", or cannot.
Fault(w) ==
    /\ faults < MaxFaults
    /\ faults' = faults + 1
    /\ pc[w] \in Sweeping
    /\ uncounted' = uncounted \cup Uncounted(w)
    /\ missed' = missed \cup Unalerted(w)
    /\ \/ /\ pc[w] # "failed"
          /\ Goto(w, "failed")
          /\ UNCHANGED stranded
       \/ /\ Goto(w, "release")
          /\ stranded' = stranded \cup {job[w].subnet}
    /\ UNCHANGED <<tables, lock, job, seen, counts, told, sampled, crashes>>

\* The process dies with its threads and locks; main.lifespan does not touch
\* the status rows when it starts again.
Crash ==
    /\ crashes < MaxCrashes
    /\ crashes' = crashes + 1
    /\ pc' = [w \in Worker |-> "idle"]
    /\ job' = [w \in Worker |-> NoJob]
    /\ seen' = [w \in Worker |-> NothingSeen]
    /\ counts' = [w \in Worker |-> NoCounts]
    /\ lock' = [s \in Subnet |-> Nobody]
    /\ uncounted' = uncounted \cup UNION {Uncounted(w) : w \in Worker}
    /\ missed' = missed \cup UNION {Unalerted(w) : w \in Worker}
    /\ stranded' = stranded \cup {s \in Subnet : status[s] = "running"}
    /\ UNCHANGED <<tables, told, sampled, faults>>

\* The interval of a subnet elapses.
Elapse(s) ==
    /\ s \notin due
    /\ due' = due \cup {s}
    /\ UNCHANGED <<status, known, results, day, lock, local, history, bounds>>

\* The scheduler prunes results older than _SCAN_RESULT_RETENTION_DAYS, under
\* the feet of a sweep too; what the sweep itself wrote is new.
Prune(s) ==
    LET fresh == IF \E w \in Worker : Unalerted(w) = {s} THEN 1 ELSE 0 IN
    /\ Prunes
    /\ Len(results[s]) > fresh
    /\ results' = [results EXCEPT ![s] = SubSeq(@, Len(@) - fresh + 1, Len(@))]
    /\ UNCHANGED <<status, due, known, day, lock, local, history, bounds>>

\* An allocation, an import or an operator adds a row.
AddAddress(h) ==
    /\ h \notin known
    /\ known' = known \cup {h}
    /\ UNCHANGED <<status, due, results, day, lock, local, history, bounds>>

-----------------------------------------------------------------------------
Init ==
    /\ status = [s \in Subnet |-> "never"]
    /\ due = Subnet
    /\ known \in SUBSET Host
    /\ results = [s \in Subnet |-> <<>>]
    /\ day = NoCounts
    /\ lock = [s \in Subnet |-> Nobody]
    /\ pc = [w \in Worker |-> "idle"]
    /\ job = [w \in Worker |-> NoJob]
    /\ seen = [w \in Worker |-> NothingSeen]
    /\ counts = [w \in Worker |-> NoCounts]
    /\ told = [s \in Subnet |-> [h \in Host |-> "unknown"]]
    /\ sampled = NoCounts
    /\ uncounted = {} /\ missed = {} /\ stranded = {}
    /\ faults = 0 /\ crashes = 0

Step(w) ==
    \/ Acquire(w) \/ Announce(w) \/ Sweep(w) \/ CommitResults(w)
    \/ LoadHistory(w) \/ CommitHistory(w) \/ Detect(w) \/ Reconcile(w)
    \/ Conclude(w) \/ ReleaseLock(w)

Next ==
    \/ \E w \in Worker : Step(w) \/ Fault(w)
    \/ \E w \in Worker, s \in Subnet : Trigger(w, s) \/ SchedulerTick(w, s)
    \/ \E s \in Subnet : Elapse(s) \/ Prune(s)
    \/ \E h \in Host : AddAddress(h)
    \/ Crash

Spec == Init /\ [][Next]_vars

\* Threads are scheduled.  The scheduler ticks once a minute and starts a new
\* thread whatever the others do: that it finds one of the model's workers idle
\* again and again is enough.
FairSpec ==
    /\ Spec
    /\ \A w \in Worker : WF_vars(Step(w))
    /\ \A s \in Subnet : SF_vars(\E w \in Worker : SchedulerTick(w, s))

-----------------------------------------------------------------------------
(* Properties.                                                             *)

\* The variables have their types, and the results of a subnet are results
\* about hosts of that subnet.
TypeOK ==
    /\ status \in [Subnet -> {"never", "running", "ok", "error"}]
    /\ due \subseteq Subnet /\ known \subseteq Host
    /\ results \in [Subnet -> Seq([up : SUBSET Host, scanned : SUBSET Host])]
    /\ \A s \in Subnet :
         /\ Len(results[s]) <= 2
         /\ \A i \in DOMAIN results[s] :
              /\ results[s][i].scanned \subseteq Hosts[s]
              /\ results[s][i].up \subseteq results[s][i].scanned
    /\ day \in [Host -> 0..MaxCount] /\ sampled \in [Host -> 0..MaxCount]
    /\ lock \in [Subnet -> Worker \cup {Nobody}]
    /\ pc \in [Worker -> Sweeping \cup {"idle", "started", "release"}]
    /\ job \in [Worker -> [subnet : Subnet, range : SUBSET Host]]
    /\ seen \in [Worker -> [up : SUBSET Host, existing : SUBSET Host]]
    /\ counts \in [Worker -> [Host -> 0..MaxCount]]
    /\ told \in [Subnet -> [Host -> {"unknown", "up", "down"}]]
    /\ uncounted \subseteq Host /\ missed \subseteq Subnet /\ stranded \subseteq Subnet
    /\ faults \in 0..MaxFaults /\ crashes \in 0..MaxCrashes

\* However sweeps are started, by hand or by the scheduler, before or after
\* the status row of another is written, at most one per subnet is past the
\* lock (scan.py:201-204).
OneSweepPerSubnet ==
    \A v, w \in Worker :
        /\ v # w
        /\ {pc[v], pc[w]} \subseteq Sweeping \cup {"release"}
        => job[v].subnet # job[w].subnet

\* The row both starters look at tells the truth: unless the process died or
\* the database refused the last write, "running" is the status of exactly
\* the subnets a sweep is at work on.
StatusIsTrue ==
    \A s \in Subnet :
        /\ status[s] = "running" =>
             s \in stranded \/ \E w \in Worker : pc[w] \in Sweeping /\ job[w].subnet = s
        /\ \A w \in Worker :
             pc[w] \in Sweeping \ {"announce", "failed"} /\ job[w].subnet = s
             => status[s] = "running"

\* Between sweeps, what the alerts of a subnet last told of a host is what the
\* newest sweep found, unless a sweep died between its results and its alerts:
\* no transition is lost and none is told twice (scan.py:144-192).
AlertsAreCurrent ==
    \A s \in Subnet \ missed :
        results[s] # <<>> /\ (\A w \in Worker : Unalerted(w) # {s})
        => LET newest == results[s][Len(results[s])] IN
           \A h \in newest.scanned :
               told[s][h] = IF h \in newest.up THEN "up" ELSE "down"

\* Once no sweep is between its results and its history, the day's row of a
\* host counts every sweep of it whose results were committed, unless one died
\* in between (scan.py:118-141).
HistoryCountsScans ==
    (\A w \in Worker : Uncounted(w) = {})
    => \A h \in Host \ uncounted : day[h] = sampled[h]

\* A subnet whose interval has elapsed is swept (scan.py:354-363), whatever
\* failed before, unless its status row was left behind by a dead sweep.
DueIsScanned == \A s \in Subnet : s \in due ~> s \notin due \/ s \in stranded

\* What the user guide says of the scheduler: it "runs pending scans".
PendingIsScanned == \A s \in Subnet : s \in due ~> s \notin due
=============================================================================
