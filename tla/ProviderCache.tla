--------------------------- MODULE ProviderCache ---------------------------
(***************************************************************************)
(* sync.py: sync_dns and sync_dhcp copy what the DNS and the DHCP provider *)
(* hold into the cache tables, and from there into ip_addresses.  The two  *)
(* run side by side, each under a lock of its own; only the last phase,    *)
(* which writes addresses, is under a lock they share.                     *)
(*                                                                         *)
(* A record is an A record, a PTR record or a lease, of a name and an IP;  *)
(* it lies in a shard: a zone, or a DHCP scope.  The shards of a side are  *)
(* fetched together and stored together, each as it came or not at all.    *)
(* Cached rows are a set: a row that is there twice counts once.  The      *)
(* hostname of an address stands for its MAC too, which is filled in the   *)
(* same way.                                                               *)
(***************************************************************************)
EXTENDS Integers, FiniteSets, SequencesExt

CONSTANTS
    IPs, Names,
    Zones, Scopes,
    Forward,        \* the zone of A records
    RevZone,        \* the reverse zone of each IP, or NoZone
    ScopeOf,        \* the scope of each IP
    Spans,          \* exclusions a scope may have, within its subnet
    Offered,        \* the exclusions of each scope; all are in one subnet
    Worlds,         \* what providers, cache and tables hold at first
    Edits,          \* the records that others add or delete at the provider
    MaxUpsets,      \* bound: failed fetches and statements, lost answers,
                    \* restarts, changes by others and by administrators
    NoZone, None

Rec == [kind : {"A", "PTR", "lease"}, name : Names, ip : IPs]
Address == [name : Names \cup {None}, dns : BOOLEAN, dhcp : BOOLEAN, ptr : BOOLEAN]
Side == {"dns", "dhcp"}
Shard == Zones \cup Scopes
Shards(s) == IF s = "dns" THEN Zones ELSE Scopes
ShardOf(r) == CASE r.kind = "A" -> Forward
                [] r.kind = "PTR" -> RevZone[r.ip]
                [] r.kind = "lease" -> ScopeOf[r.ip]
At(rs, kind, ip) == {r \in rs : r.kind = kind /\ r.ip = ip}

ASSUME ModelAssumption ==
    /\ Forward \in Zones
    /\ RevZone \in [IPs -> Zones \cup {NoZone}] /\ ScopeOf \in [IPs -> Scopes]
    /\ Zones \cap Scopes = {} /\ NoZone \notin Shard /\ None \notin Names
    /\ Offered \in [Scopes -> SUBSET Spans]
    /\ Worlds \subseteq [remote : SUBSET Rec, cached : SUBSET Rec,
                         addr : [IPs -> Address \cup {None}], manual : SUBSET Spans]
    /\ Edits \subseteq Rec /\ MaxUpsets \in Nat

VARIABLES
    remote,     \* what the providers hold
    cached,     \* cache_dns_records and cache_dhcp_leases
    addr,       \* ip_addresses
    manual,     \* reserved ranges an operator made
    auto,       \* reserved ranges written by the sync
    excluded,   \* scopes kept out of the reserved ranges
    status,     \* sync_status
    sync,       \* the run of each side
    upsets

tables == <<addr, manual, auto, excluded, status>>
syncVars == <<remote, cached, tables, sync, upsets>>

\* got: the records of the shards fetched; rows, draft: addresses as loaded,
\* and the hostname found for each; raced: a request wrote addresses since.
NoRun == [pc |-> "idle", shards |-> {}, got |-> {}, rows |-> [ip \in IPs |-> None],
          draft |-> [ip \in IPs |-> None], raced |-> FALSE]
Goto(s, label) == sync' = [sync EXCEPT ![s].pc = label]
Upset == upsets < MaxUpsets /\ upsets' = upsets + 1
\* The runs after a request wrote addresses.
Raced == [s \in Side |-> [sync[s] EXCEPT !.raced = @ \/ sync[s].pc = "commit"]]

-----------------------------------------------------------------------------
(* One run.                                                                *)

\* By the background loop or by POST /sync/trigger; a run that finds the lock
\* taken does nothing.
Start(s) ==
    /\ sync[s].pc = "idle"
    /\ sync' = [sync EXCEPT ![s] = [NoRun EXCEPT !.pc = "fetch"]]
    /\ status' = [status EXCEPT ![s] = "running"]
    /\ UNCHANGED <<remote, cached, addr, manual, auto, excluded, upsets>>

\* A provider or a zone that does not answer keeps what is cached of it.
Fetch(s) ==
    /\ sync[s].pc = "fetch"
    /\ \E ok \in SUBSET Shards(s) :
        /\ IF ok = Shards(s) THEN UNCHANGED upsets ELSE Upset
        /\ sync' = [sync EXCEPT ![s].pc = "store", ![s].shards = ok,
                                ![s].got = {r \in remote : ShardOf(r) \in ok}]
    /\ UNCHANGED <<remote, cached, tables>>

\* Mutant: rows are added and never deleted.
RefilledOnTop(s) == cached \cup sync[s].got
Refilled(s) == {r \in cached : ShardOf(r) \notin sync[s].shards} \cup sync[s].got

Store(s) ==
    /\ sync[s].pc = "store"
    /\ cached' = Refilled(s)
    /\ sync' = [sync EXCEPT ![s] =
          [NoRun EXCEPT !.pc = IF s = "dhcp" THEN "ranges" ELSE "load"]]
    /\ UNCHANGED <<remote, tables, upsets>>

\* The ranges a provider's scopes add up to, less those an operator has made.
Aggregate(ok) == UNION {Offered[z] : z \in ok} \ manual
Rewritten(ok) == IF ok \cup excluded = {} THEN auto ELSE Aggregate(ok)
Kept == manual

\* _fetch_reserved_range_data of every scope that is not excluded, then
\* _write_reserved_ranges.  A scope that fails is left out of the sum.
WriteRanges ==
    /\ sync["dhcp"].pc = "ranges"
    /\ \E ok \in SUBSET (Scopes \ excluded) :
        /\ IF ok = Scopes \ excluded THEN UNCHANGED upsets ELSE Upset
        /\ auto' = Rewritten(ok)
    /\ manual' = Kept
    /\ Goto("dhcp", "load")
    /\ UNCHANGED <<remote, cached, addr, excluded, status>>

\* _ipam_write_lock.
WriteLockFree(s) == \A x \in Side : sync[x].pc \notin {"commit", "backfill"}

\* The hostname of a lease wins over that of a DNS record.
HostnamesFor(ip) ==
    LET leases == At(cached, "lease", ip)
    IN {r.name : r \in IF leases = {} THEN At(cached, "A", ip) ELSE leases}

\* _auto_populate_from_cache: addresses and cache are read,
Load(s) ==
    /\ sync[s].pc = "load"
    /\ WriteLockFree(s)
    /\ \E draft \in [IPs -> Names \cup {None}] :
        /\ \A ip \in IPs : IF HostnamesFor(ip) = {} THEN draft[ip] = None
                           ELSE draft[ip] \in HostnamesFor(ip)
        /\ sync' = [sync EXCEPT ![s].pc = "commit", ![s].rows = addr,
                                ![s].draft = draft, ![s].raced = FALSE]
    /\ UNCHANGED <<remote, cached, tables, upsets>>

\* then missing rows are inserted and missing hostnames filled in.
Inserts(s) == {ip \in IPs : sync[s].draft[ip] # None /\ sync[s].rows[ip] = None}
\* Mutant: a hostname is overwritten.
FillsAny(s) == {ip \in IPs : sync[s].draft[ip] # None /\ sync[s].rows[ip] # None}
Fills(s) == {ip \in IPs : /\ sync[s].draft[ip] # None /\ sync[s].rows[ip] # None
                          /\ sync[s].rows[ip].name = None}

\* An inserted address that is there by now, or an updated one that is gone,
\* fails the whole run.
Commit(s) ==
    /\ sync[s].pc = "commit"
    /\ IF \/ \E ip \in Inserts(s) : addr[ip] # None
          \/ \E ip \in Fills(s) : addr[ip] = None
       THEN /\ status' = [status EXCEPT ![s] = "error"]
            /\ sync' = [sync EXCEPT ![s] = NoRun]
            /\ UNCHANGED addr
       ELSE /\ addr' = [ip \in IPs |->
                  CASE ip \in Inserts(s) -> [name |-> sync[s].draft[ip], dns |-> FALSE,
                                             dhcp |-> FALSE, ptr |-> FALSE]
                    [] ip \in Fills(s) -> [addr[ip] EXCEPT !.name = sync[s].draft[ip]]
                    [] OTHER -> addr[ip]]
            /\ sync' = [sync EXCEPT ![s] = [NoRun EXCEPT !.pc = "backfill"]]
            /\ UNCHANGED status
    /\ UNCHANGED <<remote, cached, manual, auto, excluded, upsets>>

\* _backfill_dns_providers, _backfill_dhcp_providers.
Marked(s) ==
    [ip \in IPs |->
        IF addr[ip] = None \/ At(cached, IF s = "dns" THEN "A" ELSE "lease", ip) = {}
        THEN addr[ip]
        ELSE IF s = "dns" THEN [addr[ip] EXCEPT !.dns = TRUE]
        ELSE [addr[ip] EXCEPT !.dhcp = TRUE]]
Backfill(s) ==
    /\ sync[s].pc = "backfill"
    /\ addr' = Marked(s)
    /\ sync' = [sync EXCEPT ![s] = NoRun]
    /\ status' = [status EXCEPT ![s] = "ok"]
    /\ UNCHANGED <<remote, cached, manual, auto, excluded, upsets>>

\* A statement fails: what was committed stays.
RunFails(s) ==
    /\ sync[s].pc # "idle"
    /\ Upset
    /\ sync' = [sync EXCEPT ![s] = NoRun]
    /\ status' = [status EXCEPT ![s] = "error"]
    /\ UNCHANGED <<remote, cached, addr, manual, auto, excluded>>

-----------------------------------------------------------------------------
(* Others.                                                                 *)

\* purge_cache.
Purge(s) ==
    /\ Upset
    /\ cached' = {r \in cached : ShardOf(r) \notin Shards(s)}
    /\ UNCHANGED <<remote, tables, sync>>

\* set_scope_reserved_sync.
SetReservedSync(z) ==
    /\ Upset
    /\ excluded' = IF z \in excluded THEN excluded \ {z} ELSE excluded \cup {z}
    /\ UNCHANGED <<remote, cached, addr, manual, auto, status, sync>>

\* Somebody edits a record at the provider.
ProviderEdit(r) ==
    /\ Upset
    /\ remote' = IF r \in remote THEN remote \ {r} ELSE remote \cup {r}
    /\ UNCHANGED <<cached, tables, sync>>

\* The process ends: the status rows stay as they are.
SyncsDie ==
    /\ Upset
    /\ sync' = [s \in Side |-> NoRun]
    /\ UNCHANGED <<remote, cached, tables>>

SyncInit ==
    /\ \E w \in Worlds : remote = w.remote /\ cached = w.cached /\ addr = w.addr
                         /\ manual = w.manual
    /\ auto = {} /\ excluded = {}
    /\ status = [s \in Side |-> "never"]
    /\ sync = [s \in Side |-> NoRun]
    /\ upsets = 0

RunStep(s) ==
    \/ Start(s) \/ Fetch(s) \/ Store(s) \/ (s = "dhcp" /\ WriteRanges)
    \/ Load(s) \/ Commit(s) \/ Backfill(s)
=============================================================================
