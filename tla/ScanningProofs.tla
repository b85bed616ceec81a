--------------------------- MODULE ScanningProofs ---------------------------
(***************************************************************************)
(* Proofs about Scanning, for any subnets, hosts, ranges, number of sweeps *)
(* in progress and number of database errors and restarts.                 *)
(*                                                                         *)
(* The lock is what the argument rests on: a sweep past Acquire holds the  *)
(* lock of its subnet until it is idle again.  When subnets do not share   *)
(* hosts, that makes the read-modify-write of the history atomic, and no   *)
(* sweep comes between the results of another one and its alerts.          *)
(***************************************************************************)
EXTENDS Scanning, SequenceTheorems, TLAPS

-----------------------------------------------------------------------------
(* The inductive invariant.                                                *)

\* Past the check of its range a sweep is about hosts of its subnet.
SweepIsWithin ==
    \A w \in Worker :
        /\ pc[w] \in {"commit", "load", "count", "detect"} => Within(job[w])
        /\ pc[w] = "commit" => seen[w].up \subseteq job[w].range

\* A sweep past Acquire holds the lock of its subnet.
LockIsHeld ==
    \A w \in Worker :
        pc[w] \in Sweeping \cup {"release"} => lock[job[w].subnet] = w

Typed == TypeOK /\ SweepIsWithin
IInv == Typed /\ LockIsHeld /\ StatusIsTrue

-----------------------------------------------------------------------------
(* Type correctness.                                                       *)

Results == [up : SUBSET Host, scanned : SUBSET Host]
Places == Sweeping \cup {"idle", "started", "release"}

LEMMA NoJobType == NoJob \in [subnet : Subnet, range : SUBSET Host]
BY ScanAssumption DEF NoJob

LEMMA NothingTypes ==
    /\ NothingSeen \in [up : SUBSET Host, existing : SUBSET Host]
    /\ NoCounts \in [Host -> 0..MaxCount]
BY ScanAssumption DEF NothingSeen, NoCounts

LEMMA CountedType == ASSUME NEW n \in 0..MaxCount PROVE Counted(n) \in 0..MaxCount
BY ScanAssumption DEF Counted

LEMMA TypedInit == Init => Typed
<1> SUFFICES ASSUME Init PROVE Typed
  OBVIOUS
<1>1. results \in [Subnet -> Seq(Results)] /\ \A s \in Subnet : results[s] = <<>>
  BY DEF Init
<1>2. \A s \in Subnet : Len(results[s]) = 0 /\ DOMAIN results[s] = {}
  BY <1>1
<1>3. faults \in 0..MaxFaults /\ crashes \in 0..MaxCrashes
  BY ScanAssumption DEF Init
<1>4. day \in [Host -> 0..MaxCount] /\ sampled \in [Host -> 0..MaxCount]
      /\ counts \in [Worker -> [Host -> 0..MaxCount]]
      /\ seen \in [Worker -> [up : SUBSET Host, existing : SUBSET Host]]
  BY NothingTypes DEF Init
<1>5. job \in [Worker -> [subnet : Subnet, range : SUBSET Host]]
  BY NoJobType DEF Init
<1>6. TypeOK
  BY <1>1, <1>2, <1>3, <1>4, <1>5 DEF Init, TypeOK, Results
<1>7. SweepIsWithin
  BY DEF Init, SweepIsWithin
<1> QED
  BY <1>6, <1>7 DEF Typed

\* The parts of the state a step of one sweep leaves alone, and the rest.
LEMMA TypedBegin ==
    ASSUME Typed, NEW w \in Worker, NEW s \in Subnet, NEW range \in SUBSET Host,
           Begin(w, s, range)
    PROVE  Typed'
<1>1. job' \in [Worker -> [subnet : Subnet, range : SUBSET Host]]
  BY DEF Begin, Typed, TypeOK
<1>2. pc' \in [Worker -> Places] /\ pc' = [pc EXCEPT ![w] = "started"]
  BY DEF Begin, Goto, Typed, TypeOK, Places
<1>3. TypeOK'
  BY <1>1, <1>2 DEF Begin, Typed, TypeOK, tables, history, bounds, Places
<1>4. SweepIsWithin'
  BY <1>1, <1>2 DEF Begin, Typed, TypeOK, SweepIsWithin, Within, Places
<1> QED
  BY <1>3, <1>4 DEF Typed

LEMMA TypedStep ==
    ASSUME Typed, NEW w \in Worker, Step(w)
    PROVE  Typed'
<1> USE DEF Typed
<1>0. /\ job[w] \in [subnet : Subnet, range : SUBSET Host]
      /\ seen[w] \in [up : SUBSET Host, existing : SUBSET Host]
      /\ counts[w] \in [Host -> 0..MaxCount]
      /\ pc \in [Worker -> Places]
  BY DEF TypeOK, Places
<1>1. CASE Acquire(w)
  <2>1. job' \in [Worker -> [subnet : Subnet, range : SUBSET Host]]
    BY <1>1, NoJobType DEF Acquire, TypeOK
  <2>2. lock' \in [Subnet -> Worker \cup {Nobody}]
    BY <1>1 DEF Acquire, TypeOK
  <2>3. /\ pc' \in [Worker -> Places]
        /\ \A v \in Worker : pc'[v] \in {"commit", "load", "count", "detect"} =>
                               pc'[v] = pc[v] /\ job'[v] = job[v]
    BY <1>0, <1>1 DEF Acquire, Goto, Places, Sweeping, TypeOK
  <2>4. TypeOK'
    BY <1>1, <2>1, <2>2, <2>3 DEF Acquire, TypeOK, tables, history, bounds, Places
  <2>5. SweepIsWithin'
    BY <1>1, <2>3 DEF Acquire, SweepIsWithin, Within
  <2> QED
    BY <2>4, <2>5
<1>2. CASE Announce(w)
  <2>1. pc' \in [Worker -> Places] /\ pc' = [pc EXCEPT ![w] = "sweep"]
    BY <1>0, <1>2 DEF Announce, Goto, Places, Sweeping
  <2>2. TypeOK'
    BY <1>0, <1>2, <2>1 DEF Announce, SetStatus, TypeOK, Places, bounds
  <2>3. SweepIsWithin'
    BY <1>0, <1>2, <2>1 DEF Announce, SweepIsWithin, Within
  <2> QED
    BY <2>2, <2>3
<1>3. CASE Sweep(w)
  <2>1. /\ pc' \in [Worker -> Places]
        /\ pc' = [pc EXCEPT ![w] = IF Within(job[w]) THEN "commit" ELSE "failed"]
    BY <1>0, <1>3 DEF Sweep, Goto, Places, Sweeping
  <2>2. seen' \in [Worker -> [up : SUBSET Host, existing : SUBSET Host]]
    <3>1. seen' \in {seen} \cup {[seen EXCEPT ![w] = [up |-> up, existing |-> known]] :
                               up \in SUBSET job[w].range}
      BY <1>3 DEF Sweep
    <3>2. known \subseteq Host
          /\ seen \in [Worker -> [up : SUBSET Host, existing : SUBSET Host]]
      BY DEF TypeOK
    <3> QED
      BY <1>0, <3>1, <3>2
  <2>3. Within(job[w]) => seen'[w].up \subseteq job[w].range
    BY <1>3 DEF Sweep, TypeOK
  <2>4. TypeOK'
    BY <1>3, <2>1, <2>2 DEF Sweep, TypeOK, Places, tables, history, bounds
  <2>5. \A v \in Worker \ {w} : seen'[v] = seen[v] /\ pc'[v] = pc[v]
    BY <1>0, <1>3, <2>1 DEF Sweep, TypeOK
  <2>6. SweepIsWithin'
    BY <1>0, <1>3, <2>1, <2>3, <2>5 DEF Sweep, SweepIsWithin, Within
  <2> QED
    BY <2>4, <2>6
<1>4. CASE CommitResults(w)
  <2> DEFINE s == job[w].subnet
             newest == Scan(seen[w].up, job[w].range)
             after == IF results[s] = <<>> THEN <<newest>>
                      ELSE <<results[s][Len(results[s])], newest>>
  <2>0. s \in Subnet /\ newest \in Results /\ results \in [Subnet -> Seq(Results)]
    BY <1>0 DEF Results, Scan, TypeOK
  <2>1. newest.scanned \subseteq Hosts[s] /\ newest.up \subseteq newest.scanned
    BY <1>4 DEF CommitResults, SweepIsWithin, Within, Scan
  <2>2. results[s] # <<>> => Len(results[s]) \in DOMAIN results[s]
    BY <2>0
  <2>3. after \in Seq(Results) /\ Len(after) <= 2
    BY <2>0, <2>2
  <2>4. \A i \in DOMAIN after : after[i].scanned \subseteq Hosts[s]
                                /\ after[i].up \subseteq after[i].scanned
    <3> HIDE DEF newest
    <3> QED
      BY <2>0, <2>1, <2>2 DEF TypeOK
  <2>5. results' \in {results, [results EXCEPT ![s] = after]}
    BY <1>4 DEF CommitResults
  <2>6. /\ results' \in [Subnet -> Seq(Results)]
        /\ \A t \in Subnet :
             /\ Len(results'[t]) <= 2
             /\ \A i \in DOMAIN results'[t] :
                  /\ results'[t][i].scanned \subseteq Hosts[t]
                  /\ results'[t][i].up \subseteq results'[t][i].scanned
    <3>1. \A t \in Subnet :
            /\ Len(results[t]) <= 2
            /\ \A i \in DOMAIN results[t] :
                 /\ results[t][i].scanned \subseteq Hosts[t]
                 /\ results[t][i].up \subseteq results[t][i].scanned
      BY DEF TypeOK
    <3>2. \A t \in Subnet : results'[t] = results[t] \/ (t = s /\ results'[t] = after)
      BY <2>0, <2>5
    <3>3. results' \in [Subnet -> Seq(Results)]
      BY <2>0, <2>3, <2>5
    <3> HIDE DEF after, s
    <3> QED
      BY <2>3, <2>4, <3>1, <3>2, <3>3
  <2>7. sampled' \in [Host -> 0..MaxCount]
    <3>1. sampled \in [Host -> 0..MaxCount]
      BY DEF TypeOK
    <3>2. \A h \in Host : Counted(sampled[h]) \in 0..MaxCount
      BY <3>1, CountedType
    <3>3. sampled' \in {sampled, [h \in Host |-> IF h \in job[w].range
                                  THEN Counted(sampled[h]) ELSE sampled[h]]}
      BY <1>4 DEF CommitResults
    <3> QED
      BY <3>1, <3>2, <3>3
  <2>8. known' \subseteq Host
    BY <1>0, <1>4 DEF CommitResults, TypeOK
  <2>9. /\ pc' \in [Worker -> Places]
        /\ \/ pc' = [pc EXCEPT ![w] = "load"]
           \/ pc' = [pc EXCEPT ![w] = "failed"]
    BY <1>0, <1>4 DEF CommitResults, Goto, Places, Sweeping
  <2>10. TypeOK'
    BY <1>4, <2>6, <2>7, <2>8, <2>9 DEF CommitResults, TypeOK, Places, bounds, Results
  <2>11. SweepIsWithin'
    BY <1>0, <1>4, <2>9 DEF CommitResults, SweepIsWithin, Within
  <2> QED
    BY <2>10, <2>11
<1>5. CASE LoadHistory(w)
  <2>1. pc' \in [Worker -> Places] /\ pc' = [pc EXCEPT ![w] = "count"]
    BY <1>0, <1>5 DEF LoadHistory, Goto, Places, Sweeping
  <2>2. TypeOK'
    BY <1>5, <2>1 DEF LoadHistory, TypeOK, Places, tables, history, bounds
  <2>3. SweepIsWithin'
    BY <1>0, <1>5, <2>1 DEF LoadHistory, SweepIsWithin, Within
  <2> QED
    BY <2>2, <2>3
<1>6. CASE CommitHistory(w)
  <2>1. /\ pc' \in [Worker -> Places]
        /\ \/ pc' = [pc EXCEPT ![w] = "detect"]
           \/ pc' = [pc EXCEPT ![w] = "failed"]
    BY <1>0, <1>6 DEF CommitHistory, Goto, Places, Sweeping
  <2>2. day' \in [Host -> 0..MaxCount]
    <3>1. \A h \in Host : Written(w, h) \in 0..MaxCount
      BY <1>0, CountedType DEF Written
    <3> QED
      BY <1>6, <3>1 DEF CommitHistory, TypeOK
  <2>3. TypeOK'
    BY <1>6, <2>1, <2>2 DEF CommitHistory, TypeOK, Places, history, bounds
  <2>4. SweepIsWithin'
    BY <1>0, <1>6, <2>1 DEF CommitHistory, SweepIsWithin, Within
  <2> QED
    BY <2>3, <2>4
<1>7. CASE Detect(w)
  <2>1. pc' \in [Worker -> Places] /\ pc' = [pc EXCEPT ![w] = "reconcile"]
    BY <1>0, <1>7 DEF Detect, Goto, Places, Sweeping
  <2>2. told' \in [Subnet -> [Host -> {"unknown", "up", "down"}]]
    <3>1. told \in [Subnet -> [Host -> {"unknown", "up", "down"}]]
      BY DEF TypeOK
    <3> QED
      BY <1>0, <1>7, <3>1 DEF Detect
  <2>3. TypeOK'
    BY <1>7, <2>1, <2>2 DEF Detect, TypeOK, Places, tables, bounds
  <2>4. SweepIsWithin'
    BY <1>0, <1>7, <2>1 DEF Detect, SweepIsWithin, Within
  <2> QED
    BY <2>3, <2>4
<1>8. CASE Reconcile(w)
  <2>1. /\ pc' \in [Worker -> Places]
        /\ \/ pc' = [pc EXCEPT ![w] = "finish"]
           \/ pc' = [pc EXCEPT ![w] = "failed"]
    BY <1>0, <1>8 DEF Reconcile, Goto, Places, Sweeping
  <2>2. TypeOK'
    BY <1>8, <2>1 DEF Reconcile, TypeOK, Places, tables, history, bounds
  <2>3. SweepIsWithin'
    BY <1>0, <1>8, <2>1 DEF Reconcile, SweepIsWithin, Within
  <2> QED
    BY <2>2, <2>3
<1>9. CASE Conclude(w)
  <2>1. pc' \in [Worker -> Places] /\ pc' = [pc EXCEPT ![w] = "release"]
    BY <1>0, <1>9 DEF Conclude, Goto, Places
  <2>2. TypeOK'
    BY <1>0, <1>9, <2>1 DEF Conclude, SetStatus, Outcome, TypeOK, Places, history, bounds
  <2>3. SweepIsWithin'
    BY <1>0, <1>9, <2>1 DEF Conclude, SweepIsWithin, Within
  <2> QED
    BY <2>2, <2>3
<1>10. CASE ReleaseLock(w)
  <2>1. pc' \in [Worker -> Places] /\ pc' = [pc EXCEPT ![w] = "idle"]
    BY <1>0, <1>10 DEF ReleaseLock, Goto, Places
  <2>2. /\ job' \in [Worker -> [subnet : Subnet, range : SUBSET Host]]
        /\ seen' \in [Worker -> [up : SUBSET Host, existing : SUBSET Host]]
        /\ counts' \in [Worker -> [Host -> 0..MaxCount]]
        /\ lock' \in [Subnet -> Worker \cup {Nobody}]
    BY <1>10, NoJobType, NothingTypes DEF ReleaseLock, TypeOK
  <2>3. TypeOK'
    BY <1>10, <2>1, <2>2 DEF ReleaseLock, TypeOK, Places, tables, history, bounds
  <2>4. \A v \in Worker \ {w} : seen'[v] = seen[v] /\ pc'[v] = pc[v] /\ job'[v] = job[v]
    BY <1>0, <1>10, <2>1 DEF ReleaseLock, TypeOK
  <2>5. SweepIsWithin'
    BY <1>0, <2>1, <2>4 DEF SweepIsWithin, Within
  <2> QED
    BY <2>3, <2>5
<1> QED
  BY <1>1, <1>2, <1>3, <1>4, <1>5, <1>6, <1>7, <1>8, <1>9, <1>10 DEF Step

LEMMA FaultEffect ==
    ASSUME Typed, NEW w \in Worker, Fault(w)
    PROVE  /\ pc' \in [Worker -> Places]
           /\ pc' \in {[pc EXCEPT ![w] = "failed"], [pc EXCEPT ![w] = "release"]}
           /\ stranded' \subseteq Subnet
BY DEF Fault, Goto, Places, Sweeping, Typed, TypeOK

LEMMA TypedFault ==
    ASSUME Typed, NEW w \in Worker, Fault(w)
    PROVE  Typed'
<1> USE DEF Typed
<1>1. faults' \in 0..MaxFaults
  <2>1. faults \in 0..MaxFaults /\ faults < MaxFaults /\ faults' = faults + 1
    BY DEF Fault, TypeOK
  <2> QED
    BY <2>1, ScanAssumption
<1>2. uncounted' \subseteq Host /\ missed' \subseteq Subnet
  <2>1. job[w].subnet \in Subnet /\ job[w].range \subseteq Host
    BY DEF TypeOK
  <2>2. Uncounted(w) \subseteq Host /\ Unalerted(w) \subseteq Subnet
    BY <2>1 DEF Uncounted, Unalerted
  <2> QED
    BY <2>2 DEF Fault, TypeOK
<1>3. TypeOK'
  BY <1>1, <1>2, FaultEffect DEF Fault, TypeOK, Places, tables
<1>4. SweepIsWithin'
  <2>1. pc \in [Worker -> Places] /\ UNCHANGED <<job, seen>>
    BY DEF Fault, TypeOK, Places
  <2> QED
    BY <2>1, FaultEffect DEF SweepIsWithin, Within
<1> QED
  BY <1>3, <1>4

LEMMA TypedCrash ==
    ASSUME Typed, Crash
    PROVE  Typed'
<1> USE DEF Typed
<1>1. crashes' \in 0..MaxCrashes
  <2>1. crashes \in 0..MaxCrashes /\ crashes < MaxCrashes /\ crashes' = crashes + 1
    BY DEF Crash, TypeOK
  <2> QED
    BY <2>1, ScanAssumption
<1>2. uncounted' \subseteq Host /\ missed' \subseteq Subnet
  <2>1. \A w \in Worker : job[w].subnet \in Subnet /\ job[w].range \subseteq Host
    BY DEF TypeOK
  <2>2. \A w \in Worker : Uncounted(w) \subseteq Host /\ Unalerted(w) \subseteq Subnet
    BY <2>1 DEF Uncounted, Unalerted
  <2> QED
    BY <2>2 DEF Crash, TypeOK
<1>3. /\ job' \in [Worker -> [subnet : Subnet, range : SUBSET Host]]
      /\ seen' \in [Worker -> [up : SUBSET Host, existing : SUBSET Host]]
      /\ counts' \in [Worker -> [Host -> 0..MaxCount]]
      /\ pc' \in [Worker -> Places] /\ \A w \in Worker : pc'[w] = "idle"
      /\ lock' \in [Subnet -> Worker \cup {Nobody}]
      /\ stranded' \subseteq Subnet
  BY NoJobType, NothingTypes DEF Crash, Places, TypeOK
<1>4. TypeOK'
  BY <1>1, <1>2, <1>3 DEF Crash, TypeOK, Places, tables
<1>5. SweepIsWithin'
  BY <1>3 DEF SweepIsWithin
<1> QED
  BY <1>4, <1>5

LEMMA TypedPrune ==
    ASSUME Typed, NEW s \in Subnet, Prune(s)
    PROVE  Typed'
<1> USE DEF Typed
<1> DEFINE fresh == IF \E w \in Worker : Unalerted(w) = {s} THEN 1 ELSE 0
           old == results[s]
           kept == SubSeq(old, Len(old) - fresh + 1, Len(old))
<1>1. old \in Seq(Results) /\ Len(old) <= 2 /\ fresh \in {0, 1} /\ Len(old) > fresh
  BY DEF Prune, TypeOK, Results
<1>2. results' = [results EXCEPT ![s] = kept]
  BY DEF Prune
<1>3. Len(old) \in DOMAIN old /\ old[Len(old)] \in Results
  BY <1>1
<1>4. /\ kept \in Seq(Results)
      /\ Len(kept) = fresh
      /\ \A i \in 1..Len(kept) : kept[i] = old[Len(old)]
  <2> HIDE DEF old, fresh
  <2>1. /\ Len(old) - fresh + 1 \in 1..Len(old)+1 /\ Len(old) \in 0..Len(old)
    BY <1>1
  <2>2. /\ Len(kept) = Len(old) - (Len(old) - fresh + 1) + 1
        /\ kept \in Seq(Results)
        /\ \A i \in 1..Len(kept) : kept[i] = old[Len(old) - fresh + 1 + i - 1]
    BY <1>1, <2>1, SubSeqProperties
  <2> HIDE DEF kept
  <2> QED
    BY <1>1, <2>2
<1>5. Len(kept) <= 2 /\ DOMAIN kept = 1..Len(kept)
  <2> HIDE DEF kept, fresh
  <2> QED
    BY <1>1, <1>4
<1>6. \A i \in DOMAIN kept : kept[i] = old[Len(old)]
  BY <1>4, <1>5
<1>7. /\ results' \in [Subnet -> Seq(Results)]
      /\ \A t \in Subnet :
           /\ Len(results'[t]) <= 2
           /\ \A i \in DOMAIN results'[t] :
                /\ results'[t][i].scanned \subseteq Hosts[t]
                /\ results'[t][i].up \subseteq results'[t][i].scanned
  <2>1. /\ results \in [Subnet -> Seq(Results)]
        /\ \A t \in Subnet :
             /\ Len(results[t]) <= 2
             /\ \A i \in DOMAIN results[t] :
                  /\ results[t][i].scanned \subseteq Hosts[t]
                  /\ results[t][i].up \subseteq results[t][i].scanned
    BY DEF TypeOK, Results
  <2>2. \A t \in Subnet : results'[t] = IF t = s THEN kept ELSE results[t]
    BY <1>2, <2>1
  <2>3. results' \in [Subnet -> Seq(Results)]
    BY <1>2, <1>4, <2>1
  <2>4. \A i \in DOMAIN kept : /\ kept[i].scanned \subseteq Hosts[s]
                               /\ kept[i].up \subseteq kept[i].scanned
    BY <1>3, <1>6, <2>1
  <2> HIDE DEF kept
  <2> QED
    BY <1>5, <2>1, <2>2, <2>3, <2>4
<1>8. TypeOK'
  BY <1>7 DEF Prune, TypeOK, Results, local, history, bounds
<1>9. SweepIsWithin'
  BY DEF Prune, SweepIsWithin, Within, local
<1> QED
  BY <1>8, <1>9

LEMMA TypedNext == Typed /\ [Next]_vars => Typed'
<1> SUFFICES ASSUME Typed, [Next]_vars PROVE Typed'
  OBVIOUS
<1>1. ASSUME NEW w \in Worker, NEW s \in Subnet, Trigger(w, s)
      PROVE  Typed'
  BY <1>1, ScanAssumption, TypedBegin DEF Trigger
<1>2. ASSUME NEW w \in Worker, NEW s \in Subnet, SchedulerTick(w, s)
      PROVE  Typed'
  BY <1>2, ScanAssumption, TypedBegin DEF SchedulerTick
<1>3. ASSUME NEW s \in Subnet, Elapse(s)
      PROVE  Typed'
  BY <1>3 DEF Elapse, Typed, TypeOK, SweepIsWithin, Within, local, history, bounds
<1>4. ASSUME NEW h \in Host, AddAddress(h)
      PROVE  Typed'
  BY <1>4 DEF AddAddress, Typed, TypeOK, SweepIsWithin, Within, local, history, bounds
<1>5. CASE UNCHANGED vars
  BY <1>5 DEF Typed, TypeOK, SweepIsWithin, Within, vars, tables, local, history, bounds
<1> QED
  BY <1>1, <1>2, <1>3, <1>4, <1>5, TypedStep, TypedFault, TypedCrash, TypedPrune DEF Next

\* Type correctness: whatever is swept, pruned, interrupted or refused, the
\* two newest sweeps kept of a subnet are about hosts of that subnet.
THEOREM TypeCorrect == Spec => []TypeOK
<1>1. Typed => TypeOK
  BY DEF Typed
<1> QED
  BY <1>1, TypedInit, TypedNext, PTL DEF Spec

-----------------------------------------------------------------------------
(* The lock and the status row.                                            *)

Past == Sweeping \cup {"release"}

LEMMA LockExcludes ==
    ASSUME Typed, LockIsHeld, NEW v \in Worker, NEW w \in Worker, v # w,
           pc[v] \in Past, pc[w] \in Past
    PROVE  job[v].subnet # job[w].subnet
BY DEF LockIsHeld, Past

\* What a step of sweep w leaves alone, and the locks it finds.
LEMMA OthersKept ==
    ASSUME Typed, NEW w \in Worker, Step(w) \/ Fault(w)
    PROVE  \A v \in Worker \ {w} : pc'[v] = pc[v] /\ job'[v] = job[v]
BY DEF Typed, TypeOK, Step, Fault, Acquire, Announce, Sweep, CommitResults, LoadHistory,
       CommitHistory, Detect, Reconcile, Conclude, ReleaseLock, Goto

LEMMA LockStep ==
    ASSUME Typed, LockIsHeld, NEW w \in Worker, Step(w) \/ Fault(w)
    PROVE  LockIsHeld'
<1> SUFFICES ASSUME NEW v \in Worker, (pc[v] \in Past)'
             PROVE  (lock[job[v].subnet] = v)'
  BY DEF LockIsHeld, Past
<1>0. /\ pc \in [Worker -> Places] /\ lock \in [Subnet -> Worker \cup {Nobody}]
      /\ \A u \in Worker : job[u].subnet \in Subnet
      /\ job \in [Worker -> [subnet : Subnet, range : SUBSET Host]]
  BY DEF Typed, TypeOK, Places
<1>1. CASE Acquire(w)
  <2>1. CASE v = w
    BY <1>0, <1>1, <2>1 DEF Acquire, Goto, Past, Sweeping
  <2>2. CASE v # w
    <3>1. lock[job[v].subnet] = v
      BY <1>1, <2>2, OthersKept DEF LockIsHeld, Past
    <3>2. Free(job[w].subnet) => job[v].subnet # job[w].subnet
      BY <3>1, ScanAssumption DEF Free
    <3> QED
      BY <1>0, <1>1, <2>2, <3>1, <3>2, OthersKept DEF Acquire
  <2> QED
    BY <2>1, <2>2
<1>2. CASE ReleaseLock(w)
  <2>1. pc'[w] = "idle" /\ w # v
    BY <1>0, <1>2 DEF ReleaseLock, Goto, Past, Sweeping
  <2>2. lock[job[v].subnet] = v /\ lock[job[w].subnet] = w
    BY <1>2, <2>1, OthersKept DEF LockIsHeld, Past, ReleaseLock
  <2> QED
    BY <1>0, <1>2, <2>1, <2>2, OthersKept DEF ReleaseLock
<1>3. CASE ~Acquire(w) /\ ~ReleaseLock(w)
  <2>1. lock' = lock /\ job' = job
    BY <1>3 DEF Step, Fault, Announce, Sweep, CommitResults, LoadHistory,
                CommitHistory, Detect, Reconcile, Conclude, tables
  <2>2. pc[w] \in Past
    BY <1>3 DEF Step, Fault, Announce, Sweep, CommitResults, LoadHistory,
                CommitHistory, Detect, Reconcile, Conclude, Past, Sweeping
  <2> QED
    BY <2>1, <2>2, OthersKept DEF LockIsHeld, Past
<1> QED
  BY <1>1, <1>2, <1>3

\* The status row while sweep w takes a step.
LEMMA StatusStep ==
    ASSUME Typed, LockIsHeld, StatusIsTrue, NEW w \in Worker, Step(w) \/ Fault(w)
    PROVE  StatusIsTrue'
<1> DEFINE s == job[w].subnet
<1>0. /\ pc \in [Worker -> Places] /\ s \in Subnet /\ stranded \subseteq Subnet
      /\ status \in [Subnet -> {"never", "running", "ok", "error"}]
      /\ job \in [Worker -> [subnet : Subnet, range : SUBSET Host]]
  BY DEF Typed, TypeOK, Places
<1>1. \A v \in Worker \ {w} : pc'[v] = pc[v] /\ job'[v] = job[v]
  BY OthersKept
<1>2. CASE Acquire(w)
  <2>1. UNCHANGED <<status, stranded>> /\ pc[w] = "started"
    BY <1>2 DEF Acquire, tables, history
  <2>2. pc'[w] \in {"idle", "announce"}
    BY <1>0, <1>2 DEF Acquire, Goto
  <2> QED
    BY <1>1, <2>1, <2>2 DEF StatusIsTrue, Sweeping
<1>3. CASE ~Acquire(w)
  <2>0. pc[w] \in Past
    BY <1>3 DEF Step, Fault, Announce, Sweep, CommitResults, LoadHistory, CommitHistory,
                Detect, Reconcile, Conclude, ReleaseLock, Past, Sweeping
  <2>1. \A v \in Worker \ {w} : pc[v] \in Past => job[v].subnet # s
    BY <2>0, LockExcludes
  <2>2. \A t \in Subnet \ {s} : status'[t] = status[t]
    BY <1>0, <1>3 DEF Step, Fault, Announce, SetStatus, Sweep, CommitResults, LoadHistory,
                      CommitHistory, Detect, Reconcile, Conclude, ReleaseLock, tables
  <2>3. \A t \in Subnet \ {s} : t \in stranded => t \in stranded'
    BY <1>3 DEF Step, Fault, Announce, SetStatus, Sweep, CommitResults, LoadHistory,
                CommitHistory, Detect, Reconcile, Conclude, ReleaseLock, history
  <2>4. ReleaseLock(w) \/ job'[w] = job[w]
    BY <1>0, <1>3 DEF Step, Fault, Announce, Sweep, CommitResults, LoadHistory, CommitHistory,
                      Detect, Reconcile, Conclude
  <2>5. \A t \in Subnet \ {s} :
          /\ status'[t] = "running" =>
               t \in stranded' \/ \E v \in Worker : pc'[v] \in Sweeping /\ job'[v].subnet = t
          /\ \A v \in Worker :
               pc'[v] \in Sweeping \ {"announce", "failed"} /\ job'[v].subnet = t
               => status'[t] = "running"
    <3>1. pc'[w] \in Sweeping => job'[w] = job[w]
      BY <1>0, <2>4 DEF ReleaseLock, Goto, Sweeping
    <3> QED
      BY <1>1, <2>2, <2>3, <3>1 DEF StatusIsTrue
  <2>6. status'[s] = "running" =>
          s \in stranded' \/ \E v \in Worker : pc'[v] \in Sweeping /\ job'[v].subnet = s
    <3>1. CASE ReleaseLock(w)
      BY <1>0, <1>1, <2>0, <3>1 DEF StatusIsTrue, ReleaseLock, tables, history, Sweeping
    <3>2. CASE Conclude(w)
      BY <1>0, <3>2 DEF Conclude, SetStatus, Outcome
    <3>3. CASE Fault(w)
      <4>1. job' = job /\ (s \in stranded' \/ pc'[w] = "failed")
        BY <1>0, <3>3 DEF Fault, Goto
      <4> QED
        BY <4>1 DEF Sweeping
    <3>4. CASE ~ReleaseLock(w) /\ ~Conclude(w) /\ ~Fault(w)
      <4>1. pc'[w] \in Sweeping
        BY <1>0, <1>3, <3>4 DEF Step, Announce, Sweep, CommitResults, LoadHistory,
                           CommitHistory, Detect, Reconcile, Goto, Sweeping
      <4> QED
        BY <2>4, <3>4, <4>1
    <3> QED
      BY <3>1, <3>2, <3>3, <3>4
  <2>7. \A v \in Worker :
          pc'[v] \in Sweeping \ {"announce", "failed"} /\ job'[v].subnet = s
          => status'[s] = "running"
    <3> SUFFICES ASSUME NEW v \in Worker, pc'[v] \in Sweeping \ {"announce", "failed"},
                        job'[v].subnet = s
                 PROVE  status'[s] = "running"
      OBVIOUS
    <3>1. v = w
      BY <1>1, <2>1 DEF Past
    <3>2. CASE Announce(w)
      BY <1>0, <3>2 DEF Announce, SetStatus
    <3>3. CASE ~Announce(w)
      <4>1. /\ pc[w] \in Sweeping \ {"announce", "failed"}
            /\ status' = status
        BY <1>0, <1>3, <3>1, <3>3, FaultEffect
           DEF Step, Fault, Sweep, CommitResults, LoadHistory, CommitHistory, Detect,
               Reconcile, Conclude, ReleaseLock, Goto, Sweeping, tables
      <4> QED
        BY <1>0, <4>1 DEF StatusIsTrue
    <3> QED
      BY <3>2, <3>3
  <2> QED
    BY <2>5, <2>6, <2>7 DEF StatusIsTrue
<1> QED
  BY <1>2, <1>3

LEMMA LockAndStatusBegin ==
    ASSUME Typed, LockIsHeld, StatusIsTrue, NEW w \in Worker, NEW s \in Subnet,
           NEW range \in SUBSET Host, Begin(w, s, range)
    PROVE  LockIsHeld' /\ StatusIsTrue'
<1>1. /\ pc[w] = "idle" /\ pc'[w] = "started"
      /\ \A v \in Worker \ {w} : pc'[v] = pc[v] /\ job'[v] = job[v]
      /\ UNCHANGED <<lock, status, stranded>>
  BY DEF Begin, Goto, Typed, TypeOK, tables, history
<1>2. \A v \in Worker : pc[v] \in Past \/ pc'[v] \in Past =>
                           pc'[v] = pc[v] /\ job'[v] = job[v]
  BY <1>1 DEF Past, Sweeping
<1>3. LockIsHeld'
  BY <1>1, <1>2 DEF LockIsHeld, Past
<1>4. StatusIsTrue'
  BY <1>1, <1>2 DEF StatusIsTrue, Past
<1> QED
  BY <1>3, <1>4

\* A restart leaves no sweep past the lock, and strands what is running.
LEMMA LockAndStatusCrash ==
    ASSUME Typed, Crash
    PROVE  LockIsHeld' /\ StatusIsTrue'
<1>1. \A w \in Worker : pc'[w] = "idle"
  BY DEF Crash
<1>2. \A s \in Subnet : status'[s] = "running" => s \in stranded'
  BY DEF Crash, tables
<1> QED
  BY <1>1, <1>2 DEF LockIsHeld, StatusIsTrue, Sweeping

-----------------------------------------------------------------------------
(* The theorems.                                                           *)

LEMMA InvariantInit == Init => IInv
<1> SUFFICES ASSUME Init PROVE IInv
  OBVIOUS
<1>1. LockIsHeld
  BY DEF Init, LockIsHeld, Sweeping
<1>2. StatusIsTrue
  BY DEF Init, StatusIsTrue, Sweeping
<1> QED
  BY <1>1, <1>2, TypedInit DEF IInv

LEMMA InvariantNext == IInv /\ [Next]_vars => IInv'
<1> SUFFICES ASSUME IInv, [Next]_vars PROVE LockIsHeld' /\ StatusIsTrue'
  BY TypedNext DEF IInv
<1> USE DEF IInv
<1>1. ASSUME NEW w \in Worker, Step(w) \/ Fault(w)
      PROVE  LockIsHeld' /\ StatusIsTrue'
  BY <1>1, LockStep, StatusStep
<1>2. ASSUME NEW w \in Worker, NEW s \in Subnet, Trigger(w, s)
      PROVE  LockIsHeld' /\ StatusIsTrue'
  BY <1>2, ScanAssumption, LockAndStatusBegin DEF Trigger
<1>3. ASSUME NEW w \in Worker, NEW s \in Subnet, SchedulerTick(w, s)
      PROVE  LockIsHeld' /\ StatusIsTrue'
  BY <1>3, ScanAssumption, LockAndStatusBegin DEF SchedulerTick
<1>4. ASSUME UNCHANGED <<status, lock, pc, job, stranded>>
      PROVE  LockIsHeld' /\ StatusIsTrue'
  BY <1>4 DEF LockIsHeld, StatusIsTrue
<1>5. ASSUME NEW s \in Subnet, Elapse(s) \/ Prune(s)
      PROVE  LockIsHeld' /\ StatusIsTrue'
  BY <1>4, <1>5 DEF Elapse, Prune, local, history
<1>6. ASSUME NEW h \in Host, AddAddress(h)
      PROVE  LockIsHeld' /\ StatusIsTrue'
  BY <1>4, <1>6 DEF AddAddress, local, history
<1>7. CASE UNCHANGED vars
  BY <1>4, <1>7 DEF vars, tables, local, history
<1> QED
  BY <1>1, <1>2, <1>3, <1>5, <1>6, <1>7, LockAndStatusCrash DEF Next

\* The inductive invariant holds for any number of subnets and sweeps.
THEOREM Invariant == Spec => []IInv
BY InvariantInit, InvariantNext, PTL DEF Spec

\* Mutual exclusion: however the starts by hand and by the scheduler, the
\* failures and the restarts fall, two sweeps of a subnet are never past
\* _subnet_locks together.
THEOREM OneSweep == Spec => []OneSweepPerSubnet
<1>1. IInv => OneSweepPerSubnet
  <2> SUFFICES ASSUME IInv, NEW v \in Worker, NEW w \in Worker, v # w,
                      {pc[v], pc[w]} \subseteq Past
               PROVE  job[v].subnet # job[w].subnet
    BY DEF OneSweepPerSubnet, Past
  <2> QED
    BY LockExcludes DEF IInv
<1> QED
  BY <1>1, Invariant, PTL

\* The status row tells the truth: a subnet is "running" only while a sweep is
\* at work on it, or when the restart or the refused write that left the row
\* behind is on record; and a sweep at work is always announced.
THEOREM StatusTrue == Spec => []StatusIsTrue
<1>1. IInv => StatusIsTrue
  BY DEF IInv
<1> QED
  BY <1>1, Invariant, PTL

-----------------------------------------------------------------------------
(* The day's history.                                                      *)

\* No address is in two subnets.
Disjoint == \A s, t \in Subnet : s # t => Hosts[s] \cap Hosts[t] = {}

\* Of a host whose sweeps were all counted or are being counted, the row lacks
\* exactly the sweep in progress, and that sweep has read the row as it is.
HistoryAgrees ==
    /\ \A h \in Host \ uncounted :
         sampled[h] = IF \E w \in Worker : h \in Uncounted(w) THEN Counted(day[h])
                      ELSE day[h]
    /\ \A w \in Worker :
         pc[w] = "count" => \A h \in job[w].range : counts[w][h] = day[h]

\* Sweeps that have found something are about different hosts.
LEMMA RangesDisjoint ==
    ASSUME Disjoint, Typed, LockIsHeld, NEW v \in Worker, NEW w \in Worker, v # w,
           pc[v] \in {"load", "count"}, pc[w] \in {"commit", "load", "count"}
    PROVE  job[v].range \cap job[w].range = {}
<1>1. job[v].subnet \in Subnet /\ job[w].subnet \in Subnet
  BY DEF Typed, TypeOK
<1>2. job[v].subnet # job[w].subnet
  BY LockExcludes DEF Past, Sweeping
<1>3. Within(job[v]) /\ Within(job[w])
  BY DEF Typed, SweepIsWithin
<1> QED
  BY <1>1, <1>2, <1>3 DEF Disjoint, Within

\* What a sweep is about to count while a step of sweep w is taken.
LEMMA UncountedOthers ==
    ASSUME Typed, NEW w \in Worker, Step(w) \/ Fault(w)
    PROVE  \A v \in Worker \ {w} : Uncounted(v)' = Uncounted(v)
BY OthersKept DEF Uncounted

LEMMA HistoryCommitResults ==
    ASSUME Disjoint, Typed, LockIsHeld, HistoryAgrees, NEW w \in Worker, CommitResults(w)
    PROVE  HistoryAgrees'
<1> DEFINE range == job[w].range
<1>0. /\ pc \in [Worker -> Places] /\ pc[w] = "commit"
      /\ UNCHANGED <<day, job, counts, uncounted>>
  BY DEF CommitResults, Typed, TypeOK, Places
<1>1. \A v \in Worker \ {w} : pc'[v] = pc[v] /\ Uncounted(v)' = Uncounted(v)
  BY OthersKept, UncountedOthers DEF Step
<1>2. Uncounted(w) = {}
  BY <1>0 DEF Uncounted
<1>3. \A v \in Worker : Uncounted(v) \cap range = {}
  BY <1>0, RangesDisjoint DEF Uncounted
<1>4. ASSUME NEW h \in Host \ uncounted
      PROVE  (sampled[h] = IF \E v \in Worker : h \in Uncounted(v) THEN Counted(day[h])
                           ELSE day[h])'
  <2>1. CASE pc'[w] = "failed"
    <3>1. sampled' = sampled /\ Uncounted(w)' = {}
      BY <1>0, <2>1 DEF CommitResults, Goto, Uncounted
    <3> QED
      BY <1>0, <1>1, <1>2, <3>1 DEF HistoryAgrees, Counted
  <2>2. CASE pc'[w] = "load" /\ h \in range
    <3>1. Uncounted(w)' = range /\ sampled'[h] = Counted(sampled[h])
      BY <1>0, <2>2 DEF CommitResults, Goto, Uncounted
    <3>2. sampled[h] = day[h]
      BY <1>3, <2>2 DEF HistoryAgrees
    <3> QED
      BY <1>0, <2>2, <3>1, <3>2 DEF Counted
  <2>3. CASE pc'[w] = "load" /\ h \notin range
    <3>1. Uncounted(w)' = range /\ sampled'[h] = sampled[h]
      BY <1>0, <2>3 DEF CommitResults, Goto, Uncounted
    <3> QED
      BY <1>0, <1>1, <1>2, <2>3, <3>1 DEF HistoryAgrees, Counted
  <2> QED
    BY <1>0, <2>1, <2>2, <2>3 DEF CommitResults, Goto
<1>5. \A v \in Worker : pc'[v] = "count" => pc[v] = "count"
  BY <1>0, <1>1 DEF CommitResults, Goto
<1> QED
  BY <1>0, <1>4, <1>5 DEF HistoryAgrees

LEMMA HistoryCommit ==
    ASSUME Disjoint, Typed, LockIsHeld, HistoryAgrees, NEW w \in Worker, CommitHistory(w)
    PROVE  HistoryAgrees'
<1> DEFINE range == job[w].range
<1>0. /\ pc \in [Worker -> Places] /\ pc[w] = "count" /\ range \subseteq Host
      /\ UNCHANGED <<job, counts, sampled, uncounted>>
  BY DEF CommitHistory, Typed, TypeOK, Places, history
<1>1. \A v \in Worker \ {w} : pc'[v] = pc[v] /\ Uncounted(v)' = Uncounted(v)
  BY OthersKept, UncountedOthers DEF Step
<1>2. \A h \in range : counts[w][h] = day[h]
  BY <1>0 DEF HistoryAgrees
<1>3. /\ pc' = [pc EXCEPT ![w] = "detect"]
      /\ \A h \in Host : day'[h] = IF h \in range THEN Counted(day[h]) ELSE day[h]
  <2>1. ~Clash(w)
    BY <1>2 DEF Clash
  <2> QED
    BY <1>2, <2>1 DEF CommitHistory, Goto, Written
<1>4. Uncounted(w) = range /\ Uncounted(w)' = {}
  BY <1>0, <1>3 DEF Uncounted
<1>5. \A v \in Worker \ {w} : Uncounted(v) \cap range = {}
  BY <1>0, RangesDisjoint DEF Uncounted
<1>6. ASSUME NEW h \in Host \ uncounted
      PROVE  (sampled[h] = IF \E v \in Worker : h \in Uncounted(v) THEN Counted(day[h])
                           ELSE day[h])'
  <2>1. CASE h \in range
    BY <1>0, <1>1, <1>3, <1>4, <1>5, <2>1 DEF HistoryAgrees
  <2>2. CASE h \notin range
    BY <1>0, <1>1, <1>3, <1>4, <2>2 DEF HistoryAgrees, Counted
  <2> QED
    BY <2>1, <2>2
<1>7. ASSUME NEW v \in Worker, pc'[v] = "count", NEW h \in job[v].range
      PROVE  counts[v][h] = day'[h]
  <2>1. v # w /\ pc[v] = "count"
    BY <1>0, <1>1, <1>3, <1>7
  <2>2. h \notin range /\ counts[v][h] = day[h]
    BY <1>5, <1>7, <2>1 DEF HistoryAgrees, Uncounted
  <2>3. h \in Host
    BY <1>7 DEF Typed, TypeOK
  <2> QED
    BY <1>3, <2>2, <2>3
<1> QED
  BY <1>0, <1>6, <1>7 DEF HistoryAgrees

LEMMA HistoryLoad ==
    ASSUME Typed, HistoryAgrees, NEW w \in Worker, LoadHistory(w)
    PROVE  HistoryAgrees'
<1>0. /\ pc \in [Worker -> Places] /\ pc[w] = "load"
      /\ UNCHANGED <<job, day, sampled, uncounted>>
      /\ pc' = [pc EXCEPT ![w] = "count"]
  BY DEF LoadHistory, Goto, Typed, TypeOK, Places, tables, history
<1>1. /\ counts \in [Worker -> [Host -> 0..MaxCount]]
      /\ counts' = [counts EXCEPT ![w] = day]
  BY DEF LoadHistory, Typed, TypeOK
<1>2. \A v \in Worker : Uncounted(v)' = Uncounted(v)
  BY <1>0 DEF Uncounted
<1>3. ASSUME NEW v \in Worker, pc'[v] = "count", NEW h \in job[v].range
      PROVE  counts'[v][h] = day[h]
  BY <1>0, <1>1, <1>3 DEF HistoryAgrees
<1> QED
  BY <1>0, <1>2, <1>3 DEF HistoryAgrees

\* The steps that neither begin nor end what has to be counted.
LEMMA HistoryKept ==
    ASSUME HistoryAgrees, UNCHANGED <<day, counts, sampled, uncounted>>,
           \A v \in Worker : \/ pc'[v] = pc[v] /\ job'[v] = job[v]
                             \/ {pc[v], pc'[v]} \cap {"load", "count"} = {}
    PROVE  HistoryAgrees'
<1>1. \A v \in Worker : Uncounted(v)' = Uncounted(v)
  BY DEF Uncounted
<1>2. \A v \in Worker : pc'[v] = "count" => pc[v] = "count" /\ job'[v] = job[v]
  OBVIOUS
<1> QED
  BY <1>1, <1>2 DEF HistoryAgrees

LEMMA HistoryStep ==
    ASSUME Disjoint, Typed, LockIsHeld, HistoryAgrees, NEW w \in Worker, Step(w)
    PROVE  HistoryAgrees'
<1>0. pc \in [Worker -> Places]
  BY DEF Typed, TypeOK, Places
<1>1. \A v \in Worker \ {w} : pc'[v] = pc[v] /\ job'[v] = job[v]
  BY OthersKept
<1>2. CASE Acquire(w) \/ Announce(w) \/ Sweep(w) \/ Detect(w) \/ Reconcile(w) \/ Conclude(w)
  <2>1. UNCHANGED <<day, counts, sampled, uncounted>>
    BY <1>2 DEF Acquire, Announce, Sweep, Detect, Reconcile, Conclude, tables, history
  <2>2. {pc[w], pc'[w]} \cap {"load", "count"} = {}
    BY <1>0, <1>2 DEF Acquire, Announce, Sweep, Detect, Reconcile, Conclude, Goto
  <2> QED
    BY <1>1, <2>1, <2>2, HistoryKept
<1>3. CASE ReleaseLock(w)
  <2>1. /\ UNCHANGED <<day, sampled, uncounted>> /\ pc[w] = "release" /\ pc'[w] = "idle"
        /\ \A v \in Worker \ {w} : counts'[v] = counts[v]
    BY <1>0, <1>3 DEF ReleaseLock, Goto, Typed, TypeOK, tables, history
  <2>2. \A v \in Worker : Uncounted(v)' = Uncounted(v)
    BY <1>1, <2>1 DEF Uncounted
  <2> QED
    BY <1>1, <2>1, <2>2 DEF HistoryAgrees
<1> QED
  BY <1>2, <1>3, HistoryCommitResults, HistoryLoad, HistoryCommit DEF Step

LEMMA HistoryFault ==
    ASSUME Typed, HistoryAgrees, NEW w \in Worker, Fault(w)
    PROVE  HistoryAgrees'
<1>1. /\ UNCHANGED <<day, job, counts, sampled>>
      /\ uncounted' = uncounted \cup Uncounted(w)
      /\ pc'[w] \in {"failed", "release"}
  BY FaultEffect DEF Fault, tables, Typed, TypeOK
<1>2. \A v \in Worker \ {w} : pc'[v] = pc[v] /\ Uncounted(v)' = Uncounted(v)
  BY OthersKept, UncountedOthers
<1>3. Uncounted(w)' = {}
  BY <1>1 DEF Uncounted
<1>4. \A v \in Worker : pc'[v] = "count" => pc[v] = "count"
  BY <1>1, <1>2
<1>5. \A h \in Host \ uncounted' :
        (\E v \in Worker : h \in Uncounted(v)') <=> (\E v \in Worker : h \in Uncounted(v))
  BY <1>1, <1>2, <1>3
<1> QED
  BY <1>1, <1>4, <1>5 DEF HistoryAgrees

LEMMA HistoryCrash ==
    ASSUME Typed, HistoryAgrees, Crash
    PROVE  HistoryAgrees'
<1>1. /\ UNCHANGED <<day, sampled>>
      /\ uncounted' = uncounted \cup UNION {Uncounted(w) : w \in Worker}
      /\ \A w \in Worker : pc'[w] = "idle"
  BY DEF Crash, tables
<1>2. \A w \in Worker : Uncounted(w)' = {}
  BY <1>1 DEF Uncounted
<1>3. \A h \in Host \ uncounted' : sampled[h] = day[h]
  BY <1>1 DEF HistoryAgrees
<1> QED
  BY <1>1, <1>2, <1>3 DEF HistoryAgrees

LEMMA HistoryNext ==
    ASSUME Disjoint, IInv, HistoryAgrees, [Next]_vars
    PROVE  HistoryAgrees'
<1> USE DEF IInv
<1>1. ASSUME NEW w \in Worker, NEW s \in Subnet, Trigger(w, s) \/ SchedulerTick(w, s)
      PROVE  HistoryAgrees'
  <2>1. PICK range : Begin(w, s, range)
    BY <1>1 DEF Trigger, SchedulerTick
  <2>2. /\ pc[w] = "idle" /\ pc'[w] = "started"
        /\ \A v \in Worker \ {w} : pc'[v] = pc[v] /\ job'[v] = job[v]
    BY <2>1 DEF Begin, Goto, Typed, TypeOK
  <2>3. UNCHANGED <<day, counts, sampled, uncounted>>
    BY <2>1 DEF Begin, tables, history
  <2> QED
    BY <2>2, <2>3, HistoryKept
<1>2. ASSUME NEW s \in Subnet, Elapse(s) \/ Prune(s)
      PROVE  HistoryAgrees'
  BY <1>2, HistoryKept DEF Elapse, Prune, local, history
<1>3. ASSUME NEW h \in Host, AddAddress(h)
      PROVE  HistoryAgrees'
  BY <1>3, HistoryKept DEF AddAddress, local, history
<1>4. CASE UNCHANGED vars
  BY <1>4, HistoryKept DEF vars, tables, local, history
<1> QED
  BY <1>1, <1>2, <1>3, <1>4, HistoryStep, HistoryFault, HistoryCrash DEF Next

\* When no address is in two subnets, the row of a host counts every sweep of
\* it that was not cut short: the read-modify-write of _upsert_daily_history
\* loses no update, because the lock of the subnet covers all its hosts.
THEOREM HistoryCounts ==
    ASSUME Disjoint
    PROVE  Spec => []HistoryCountsScans
<1>1. Init => IInv /\ HistoryAgrees
  <2> SUFFICES ASSUME Init PROVE HistoryAgrees
    BY InvariantInit
  <2>1. \A w \in Worker : pc[w] = "idle"
    BY DEF Init
  <2>2. \A h \in Host : sampled[h] = day[h]
    BY DEF Init
  <2> QED
    BY <2>1, <2>2 DEF HistoryAgrees, Uncounted
<1>2. IInv /\ HistoryAgrees /\ [Next]_vars => (IInv /\ HistoryAgrees)'
  BY InvariantNext, HistoryNext
<1>3. HistoryAgrees => HistoryCountsScans
  BY DEF HistoryAgrees, HistoryCountsScans
<1> QED
  BY <1>1, <1>2, <1>3, PTL DEF Spec

-----------------------------------------------------------------------------
(* The alerts.                                                             *)

\* Every sweep is of a whole subnet, and the interval is shorter than the
\* retention of the results.
WholeSweeps == Ranges = {} /\ ~Prunes

RangeIsWhole == \A w \in Worker : pc[w] # "idle" => job[w].range = Hosts[job[w].subnet]

Open(s) == \E w \in Worker : Unalerted(w) = {s}
Said(scan, h) == IF h \in scan.up THEN "up" ELSE "down"
Latest(s) == results[s][Len(results[s])]

\* Between its results and its alerts a sweep of s finds told what the sweep
\* before it found; otherwise told is what the newest sweep found.
ToldOf(s) ==
    IF Open(s)
    THEN /\ results[s] # <<>>
         /\ \A h \in Hosts[s] :
              told[s][h] = IF Len(results[s]) = 2 THEN Said(results[s][1], h) ELSE "unknown"
    ELSE \A h \in Hosts[s] :
           told[s][h] = IF results[s] = <<>> THEN "unknown" ELSE Said(Latest(s), h)

AllScanned(s) == \A i \in DOMAIN results[s] : results[s][i].scanned = Hosts[s]

AlertsAgree ==
    /\ RangeIsWhole
    /\ \A s \in Subnet : AllScanned(s)
    /\ \A s \in Subnet \ missed : ToldOf(s)

LEMMA RangeKept ==
    ASSUME WholeSweeps, Typed, RangeIsWhole, [Next]_vars
    PROVE  RangeIsWhole'
<1>0. /\ pc \in [Worker -> Places]
      /\ job \in [Worker -> [subnet : Subnet, range : SUBSET Host]]
  BY DEF Typed, TypeOK, Places
<1>1. ASSUME NEW w \in Worker, Step(w) \/ Fault(w)
      PROVE  RangeIsWhole'
  <2>1. \A v \in Worker \ {w} : pc'[v] = pc[v] /\ job'[v] = job[v]
    BY <1>1, OthersKept
  <2>2. pc'[w] = "idle" \/ (pc[w] # "idle" /\ job'[w] = job[w])
    BY <1>0, <1>1 DEF Step, Fault, Acquire, Announce, Sweep, CommitResults, LoadHistory,
                      CommitHistory, Detect, Reconcile, Conclude, ReleaseLock, Goto, Sweeping
  <2> QED
    BY <2>1, <2>2 DEF RangeIsWhole
<1>2. ASSUME NEW w \in Worker, NEW s \in Subnet, Trigger(w, s) \/ SchedulerTick(w, s)
      PROVE  RangeIsWhole'
  <2>1. Begin(w, s, Hosts[s])
    BY <1>2 DEF Trigger, SchedulerTick, WholeSweeps
  <2>2. /\ job'[w].range = Hosts[s] /\ job'[w].subnet = s
        /\ \A v \in Worker \ {w} : pc'[v] = pc[v] /\ job'[v] = job[v]
    BY <1>0, <2>1 DEF Begin, Goto
  <2> QED
    BY <2>2 DEF RangeIsWhole
<1>3. CASE Crash
  BY <1>3 DEF Crash, RangeIsWhole
<1>4. ASSUME UNCHANGED <<pc, job>>
      PROVE  RangeIsWhole'
  BY <1>4 DEF RangeIsWhole
<1> QED
  BY <1>1, <1>2, <1>3, <1>4 DEF Next, Elapse, Prune, AddAddress, vars, local

\* A sweep between its results and its alerts is the only one of its subnet.
LEMMA OpenAlone ==
    ASSUME Typed, LockIsHeld, NEW v \in Worker, NEW w \in Worker, v # w, pc[w] \in Past
    PROVE  Unalerted(v) # {job[w].subnet}
<1>1. pc[v] \in Past => job[v].subnet # job[w].subnet
  BY LockExcludes
<1> QED
  BY <1>1 DEF Unalerted, Past, Sweeping

LEMMA UnalertedOthers ==
    ASSUME Typed, NEW w \in Worker, Step(w) \/ Fault(w)
    PROVE  \A v \in Worker \ {w} : Unalerted(v)' = Unalerted(v)
BY OthersKept DEF Unalerted

LEMMA AlertsCommitResults ==
    ASSUME IInv, AlertsAgree, NEW w \in Worker, NEW s \in Subnet, job[w].subnet = s,
           CommitResults(w), pc'[w] = "load"
    PROVE  /\ \A t \in Subnet : AllScanned(t)'
           /\ \A t \in Subnet \ missed : ToldOf(t)'
<1> DEFINE newest == Scan(seen[w].up, job[w].range)
           after == IF results[s] = <<>> THEN <<newest>> ELSE <<Latest(s), newest>>
<1> USE DEF IInv
<1>0. /\ pc \in [Worker -> Places] /\ pc[w] = "commit"
      /\ UNCHANGED <<told, missed, job>>
      /\ results \in [Subnet -> Seq(Results)]
  BY DEF CommitResults, Typed, TypeOK, Places, Results
<1>1. results' = [results EXCEPT ![s] = after]
  BY <1>0 DEF CommitResults, Goto, Latest
<1>2. newest.scanned = Hosts[s]
  BY <1>0 DEF AlertsAgree, RangeIsWhole, Scan
<1>3. results[s] # <<>> => Len(results[s]) \in DOMAIN results[s]
  BY <1>0
<1>4. /\ results[s] = <<>> => Len(after) = 1 /\ DOMAIN after = {1} /\ after[1] = newest
      /\ results[s] # <<>> => /\ Len(after) = 2 /\ DOMAIN after = {1, 2}
                              /\ after[1] = Latest(s) /\ after[2] = newest
      /\ after # <<>>
  <2> HIDE DEF newest
  <2> QED
    OBVIOUS
<1>5. results'[s] = after /\ \A t \in Subnet \ {s} : results'[t] = results[t]
  BY <1>0, <1>1
<1> HIDE DEF newest, after
<1>6. \A t \in Subnet : AllScanned(t)'
  BY <1>2, <1>3, <1>4, <1>5 DEF AlertsAgree, AllScanned, Latest
<1>7. /\ ~Open(s) /\ Open(s)'
      /\ \A t \in Subnet \ {s} : Open(t)' = Open(t)
  <2>1. \A v \in Worker \ {w} : Unalerted(v)' = Unalerted(v)
    BY UnalertedOthers DEF Step
  <2>2. Unalerted(w) = {} /\ Unalerted(w)' = {s}
    BY <1>0 DEF Unalerted
  <2>3. \A v \in Worker \ {w} : Unalerted(v) # {s}
    BY <1>0, OpenAlone DEF Past, Sweeping
  <2>4. Open(s)'
    BY <2>2 DEF Open
  <2>5. ~Open(s)
    BY <2>2, <2>3 DEF Open
  <2>6. ASSUME NEW t \in Subnet \ {s}
        PROVE  Open(t)' = Open(t)
    BY <2>1, <2>2 DEF Open
  <2> QED
    BY <2>4, <2>5, <2>6
<1>8. ASSUME NEW t \in Subnet \ missed
      PROVE  ToldOf(t)'
  <2>1. ToldOf(t)
    BY DEF AlertsAgree
  <2>2. CASE t = s
    <3>1. /\ results[s] = <<>> => \A h \in Hosts[s] : told[s][h] = "unknown"
          /\ results[s] # <<>> => \A h \in Hosts[s] : told[s][h] = Said(Latest(s), h)
      BY <1>7, <2>1, <2>2 DEF ToldOf
    <3>2. \A h \in Hosts[s] : told'[s][h] = IF Len(results'[s]) = 2
                                            THEN Said(results'[s][1], h) ELSE "unknown"
      <4>1. told' = told /\ results'[s] = after
        BY <1>0, <1>5
      <4>2. CASE results[s] = <<>>
        BY <1>4, <3>1, <4>1, <4>2
      <4>3. CASE results[s] # <<>>
        <5>1. Len(results'[s]) = 2 /\ results'[s][1] = Latest(s)
          BY <1>4, <4>1, <4>3
        <5> QED
          BY <3>1, <4>1, <4>3, <5>1 DEF Said
      <4> QED
        BY <4>2, <4>3
    <3>3. results'[s] # <<>> /\ Open(s)'
      BY <1>4, <1>5, <1>7
    <3> QED
      BY <2>2, <3>2, <3>3 DEF ToldOf, Said
  <2>3. CASE t # s
    BY <1>0, <1>5, <1>7, <2>1, <2>3 DEF ToldOf, Latest
  <2> QED
    BY <2>2, <2>3
<1> QED
  BY <1>6, <1>8

LEMMA AlertsDetect ==
    ASSUME IInv, AlertsAgree, NEW w \in Worker, NEW s \in Subnet, job[w].subnet = s,
           Detect(w)
    PROVE  \A t \in Subnet \ missed : ToldOf(t)'
<1> USE DEF IInv
<1>0. /\ pc \in [Worker -> Places] /\ pc[w] = "detect"
      /\ UNCHANGED <<results, missed, job>>
      /\ results \in [Subnet -> Seq(Results)] /\ Len(results[s]) <= 2
      /\ told \in [Subnet -> [Host -> {"unknown", "up", "down"}]]
      /\ Hosts[s] \subseteq Host
  <2>1. Hosts[s] \subseteq Host
    BY ScanAssumption
  <2>2. pc[w] = "detect" /\ UNCHANGED <<results, missed, job>>
    BY DEF Detect, tables
  <2>3. /\ pc \in [Worker -> Places] /\ results \in [Subnet -> Seq(Results)]
        /\ Len(results[s]) <= 2
        /\ told \in [Subnet -> [Host -> {"unknown", "up", "down"}]]
    BY DEF Typed, TypeOK, Places, Results
  <2> QED
    BY <2>1, <2>2, <2>3
<1>1. /\ Unalerted(w) = {s} /\ Unalerted(w)' = {}
  BY <1>0 DEF Detect, Goto, Unalerted
<1>2. /\ Open(s) /\ ~Open(s)'
      /\ \A t \in Subnet \ {s} : Open(t)' = Open(t)
  <2>1. \A v \in Worker \ {w} : Unalerted(v)' = Unalerted(v)
    BY UnalertedOthers DEF Step
  <2>2. \A v \in Worker \ {w} : Unalerted(v) # {s}
    BY <1>0, OpenAlone DEF Past, Sweeping
  <2>3. Open(s)
    BY <1>1 DEF Open
  <2>4. ~Open(s)'
    BY <1>1, <2>1, <2>2 DEF Open
  <2>5. ASSUME NEW t \in Subnet \ {s}
        PROVE  Open(t)' = Open(t)
    BY <1>1, <2>1 DEF Open
  <2> QED
    BY <2>3, <2>4, <2>5
<1>3. \A t \in Subnet \ {s} : told'[t] = told[t]
  BY <1>0 DEF Detect
<1>4. ASSUME s \notin missed, NEW h \in Hosts[s]
      PROVE  results[s] # <<>> /\ told'[s][h] = Said(Latest(s), h)
  <2>1. /\ results[s] # <<>>
        /\ told[s][h] = IF Len(results[s]) = 2 THEN Said(results[s][1], h) ELSE "unknown"
    BY <1>0, <1>2, <1>4 DEF AlertsAgree, ToldOf
  <2>2. Len(results[s]) \in {1, 2} /\ Len(results[s]) \in DOMAIN results[s]
        /\ 1 \in DOMAIN results[s]
    <3>1. results[s] \in Seq(Results) /\ results[s] # <<>> /\ Len(results[s]) <= 2
      BY <1>0, <2>1
    <3>2. Len(results[s]) \in Nat \ {0} /\ DOMAIN results[s] = 1..Len(results[s])
      BY <3>1, EmptySeq
    <3> DEFINE n == Len(results[s])
    <3>3. n \in {1, 2} /\ 1 \in 1..n /\ n \in 1..n
      <4>1. n \in Nat \ {0} /\ n <= 2
        BY <3>1, <3>2
      <4> HIDE DEF n
      <4> QED
        BY <4>1
    <3> QED
      BY <3>2, <3>3
  <2>3. Latest(s).scanned = Hosts[s] /\ results[s][1].scanned = Hosts[s]
    BY <1>0, <2>2 DEF AlertsAgree, AllScanned, Latest
  <2>4. told'[s][h] = IF h \in Changes(s) \/ told[s][h] = "unknown"
                      THEN Said(Latest(s), h) ELSE told[s][h]
    BY <1>0, <1>4, <2>3 DEF Detect, Latest, Said
  <2>5. CASE Len(results[s]) = 1
    BY <2>1, <2>4, <2>5
  <2>6. CASE Len(results[s]) = 2
    <3>1. h \in Changes(s) <=> (h \in results[s][1].up) # (h \in Latest(s).up)
      BY <1>4, <2>3, <2>6 DEF Changes, Latest
    <3> QED
      BY <2>1, <2>4, <2>6, <3>1 DEF Said
  <2> QED
    BY <2>1, <2>2, <2>5, <2>6
<1>5. ASSUME NEW t \in Subnet \ missed
      PROVE  ToldOf(t)'
  <2>1. CASE t = s
    BY <1>0, <1>2, <1>4, <2>1 DEF ToldOf, Latest
  <2>2. CASE t # s
    BY <1>0, <1>2, <1>3, <2>2 DEF AlertsAgree, ToldOf, Latest
  <2> QED
    BY <2>1, <2>2
<1> QED
  BY <1>0, <1>5

\* The steps that neither open nor close a sweep's alerts.
LEMMA AlertsKept ==
    ASSUME AlertsAgree, UNCHANGED <<told, results>>, missed \subseteq missed',
           \A w \in Worker : \/ Unalerted(w)' = Unalerted(w)
                             \/ Unalerted(w)' = {} /\ Unalerted(w) \subseteq missed'
    PROVE  /\ \A s \in Subnet : AllScanned(s)'
           /\ \A s \in Subnet \ missed' : ToldOf(s)'
<1>1. \A s \in Subnet : AllScanned(s)'
  BY DEF AlertsAgree, AllScanned
<1>2. ASSUME NEW s \in Subnet \ missed'
      PROVE  ToldOf(s)'
  <2>1. Open(s)' <=> Open(s)
    BY DEF Open
  <2> QED
    BY <2>1 DEF AlertsAgree, ToldOf, Latest
<1> QED
  BY <1>1, <1>2

LEMMA AlertsStep ==
    ASSUME IInv, HistoryAgrees, AlertsAgree, NEW w \in Worker, Step(w)
    PROVE  /\ \A s \in Subnet : AllScanned(s)'
           /\ \A s \in Subnet \ missed' : ToldOf(s)'
<1>0. pc \in [Worker -> Places] /\ job[w].subnet \in Subnet
  BY DEF IInv, Typed, TypeOK, Places
<1>1. \A v \in Worker \ {w} : Unalerted(v)' = Unalerted(v)
  BY UnalertedOthers DEF IInv
<1>2. CASE CommitResults(w)
  <2>1. missed' = missed
    BY <1>2 DEF CommitResults
  <2>2. CASE pc'[w] = "load"
    BY <1>0, <1>2, <2>1, <2>2, AlertsCommitResults
  <2>3. CASE pc'[w] # "load"
    <3>1. UNCHANGED <<told, results>>
      BY <1>0, <1>2, <2>3 DEF CommitResults, Goto
    <3>2. Unalerted(w) = {} /\ Unalerted(w)' = {}
      BY <1>0, <1>2, <2>3 DEF CommitResults, Goto, Unalerted
    <3> QED
      BY <1>1, <2>1, <3>1, <3>2, AlertsKept
  <2> QED
    BY <2>2, <2>3
<1>3. CASE Detect(w)
  <2>1. UNCHANGED <<results, missed>>
    BY <1>3 DEF Detect, tables
  <2>2. \A s \in Subnet : AllScanned(s)'
    BY <2>1 DEF AlertsAgree, AllScanned
  <2> QED
    BY <1>0, <1>3, <2>1, <2>2, AlertsDetect
<1>4. CASE CommitHistory(w)
  <2>1. UNCHANGED <<told, results, missed>>
    BY <1>4 DEF CommitHistory, history
  <2>2. ~Clash(w)
    BY <1>4 DEF CommitHistory, HistoryAgrees, Clash
  <2>3. Unalerted(w)' = Unalerted(w)
    BY <1>0, <1>4, <2>2 DEF CommitHistory, Goto, Unalerted
  <2> QED
    BY <1>1, <2>1, <2>3, AlertsKept
<1>5. CASE Acquire(w) \/ Announce(w) \/ Sweep(w) \/ LoadHistory(w) \/ Reconcile(w)
           \/ Conclude(w) \/ ReleaseLock(w)
  <2>1. UNCHANGED <<told, results, missed>>
    BY <1>5 DEF Acquire, Announce, Sweep, LoadHistory, Reconcile, Conclude, ReleaseLock,
                tables, history
  <2>2. Unalerted(w)' = Unalerted(w)
    <3>1. CASE LoadHistory(w)
      BY <1>0, <3>1 DEF LoadHistory, Goto, Unalerted
    <3>2. CASE ~LoadHistory(w)
      <4>1. /\ pc[w] \notin {"load", "count", "detect"}
            /\ pc'[w] \notin {"load", "count", "detect"}
        BY <1>0, <1>5, <3>2 DEF Acquire, Announce, Sweep, Reconcile, Conclude,
                                ReleaseLock, Goto
      <4> QED
        BY <4>1 DEF Unalerted
    <3> QED
      BY <3>1, <3>2
  <2>3. \A v \in Worker : Unalerted(v)' = Unalerted(v)
    BY <1>1, <2>2
  <2> QED
    BY <2>1, <2>3, AlertsKept
<1> QED
  BY <1>2, <1>3, <1>4, <1>5 DEF Step

LEMMA AlertsNext ==
    ASSUME WholeSweeps, IInv, HistoryAgrees, AlertsAgree, [Next]_vars
    PROVE  AlertsAgree'
<1> SUFFICES /\ \A s \in Subnet : AllScanned(s)'
             /\ \A s \in Subnet \ missed' : ToldOf(s)'
  BY RangeKept DEF AlertsAgree, IInv
<1>1. ASSUME NEW w \in Worker, Fault(w)
      PROVE  /\ \A s \in Subnet : AllScanned(s)'
             /\ \A s \in Subnet \ missed' : ToldOf(s)'
  <2>1. UNCHANGED <<told, results>> /\ missed' = missed \cup Unalerted(w)
    BY <1>1 DEF Fault, tables
  <2>2. Unalerted(w)' = {}
    <3>1. pc \in [Worker -> Places]
      BY DEF IInv, Typed, TypeOK, Places
    <3>2. pc'[w] \in {"failed", "release"}
      BY <1>1, <3>1, FaultEffect DEF IInv
    <3> QED
      BY <3>2 DEF Unalerted
  <2>3. \A v \in Worker \ {w} : Unalerted(v)' = Unalerted(v)
    BY <1>1, UnalertedOthers DEF IInv
  <2> QED
    BY <2>1, <2>2, <2>3, AlertsKept
<1>2. CASE Crash
  <2>1. /\ UNCHANGED <<told, results>>
        /\ missed' = missed \cup UNION {Unalerted(w) : w \in Worker}
    BY <1>2 DEF Crash, tables
  <2>2. \A w \in Worker : Unalerted(w)' = {}
    BY <1>2 DEF Crash, Unalerted
  <2> QED
    BY <2>1, <2>2, AlertsKept
<1>3. ASSUME NEW w \in Worker, NEW s \in Subnet, Trigger(w, s) \/ SchedulerTick(w, s)
      PROVE  /\ \A t \in Subnet : AllScanned(t)'
             /\ \A t \in Subnet \ missed' : ToldOf(t)'
  <2>1. PICK range : Begin(w, s, range)
    BY <1>3 DEF Trigger, SchedulerTick
  <2>2. UNCHANGED <<told, results, missed>>
    BY <2>1 DEF Begin, tables, history
  <2>3. \A v \in Worker : Unalerted(v)' = Unalerted(v)
    BY <2>1 DEF Begin, Goto, Unalerted, IInv, Typed, TypeOK
  <2> QED
    BY <2>2, <2>3, AlertsKept
<1>4. ASSUME UNCHANGED <<told, results, missed, pc, job>>
      PROVE  /\ \A s \in Subnet : AllScanned(s)'
             /\ \A s \in Subnet \ missed' : ToldOf(s)'
  BY <1>4, AlertsKept DEF Unalerted
<1>5. ASSUME NEW s \in Subnet, Elapse(s) \/ Prune(s)
      PROVE  UNCHANGED <<told, results, missed, pc, job>>
  BY <1>5 DEF Elapse, Prune, WholeSweeps, local, history
<1>6. ASSUME NEW h \in Host, AddAddress(h)
      PROVE  UNCHANGED <<told, results, missed, pc, job>>
  BY <1>6 DEF AddAddress, local, history
<1>7. CASE UNCHANGED vars
  BY <1>4, <1>7 DEF vars, tables, local, history
<1>8. ASSUME NEW w \in Worker, Step(w)
      PROVE  /\ \A s \in Subnet : AllScanned(s)'
             /\ \A s \in Subnet \ missed' : ToldOf(s)'
  BY <1>8, AlertsStep
<1> QED
  BY <1>1, <1>2, <1>3, <1>4, <1>5, <1>6, <1>7, <1>8 DEF Next

\* No transition is lost and none is told twice: when no address is in two
\* subnets, sweeps are of whole subnets and results outlive the interval, what
\* _detect_reachability_changes last told of a host is what the newest sweep of
\* its subnet found, unless a sweep died between its results and its alerts.
THEOREM AlertsCurrent ==
    ASSUME Disjoint, WholeSweeps
    PROVE  Spec => []AlertsAreCurrent
<1> DEFINE Inv == IInv /\ HistoryAgrees /\ AlertsAgree
<1>1. Init => Inv
  <2> SUFFICES ASSUME Init PROVE HistoryAgrees /\ AlertsAgree
    BY InvariantInit
  <2>1. \A w \in Worker : pc[w] = "idle" /\ Uncounted(w) = {} /\ Unalerted(w) = {}
    BY DEF Init, Uncounted, Unalerted
  <2>2. HistoryAgrees
    BY <2>1 DEF Init, HistoryAgrees
  <2>3. \A s \in Subnet : results[s] = <<>> /\ \A h \in Host : told[s][h] = "unknown"
    BY DEF Init
  <2>4. \A s \in Subnet : AllScanned(s) /\ ToldOf(s)
    BY <2>1, <2>3, ScanAssumption DEF AllScanned, ToldOf, Open
  <2> QED
    BY <2>1, <2>2, <2>4 DEF AlertsAgree, RangeIsWhole
<1>2. Inv /\ [Next]_vars => Inv'
  BY InvariantNext, HistoryNext, AlertsNext
<1>3. Inv => AlertsAreCurrent
  <2> SUFFICES ASSUME IInv, AlertsAgree, NEW s \in Subnet \ missed, results[s] # <<>>,
                      \A w \in Worker : Unalerted(w) # {s},
                      NEW h \in Latest(s).scanned
               PROVE  told[s][h] = Said(Latest(s), h)
    BY DEF AlertsAreCurrent, Latest, Said
  <2>1. results[s] \in Seq(Results)
    BY DEF IInv, Typed, TypeOK, Results
  <2>2. Len(results[s]) \in DOMAIN results[s]
    BY <2>1
  <2>3. h \in Hosts[s]
    BY <2>2 DEF AlertsAgree, AllScanned, Latest
  <2> QED
    BY <2>3 DEF AlertsAgree, ToldOf, Open
<1> HIDE DEF Inv
<1> QED
  BY <1>1, <1>2, <1>3, PTL DEF Spec
=============================================================================
