---------------------------- MODULE DriftProofs ----------------------------
(***************************************************************************)
(* Proofs about Drift, for any subnets, addresses, providers and threads.  *)
(*                                                                         *)
(* What a pass read long ago decides what it writes now.  The argument is  *)
(* the same for all of it: whoever writes a row meanwhile marks its IP as  *)
(* touched, so for an untouched IP what was read is what is there.         *)
(***************************************************************************)
EXTENDS Drift, TLAPS

-----------------------------------------------------------------------------
(* The inductive invariant.                                                *)

\* Functions from some of the members of D, such as the empty one.
Maps(D, R) == {<<>>} \cup UNION {[K -> R] : K \in SUBSET D}

FoundRow == [sub : Subnets, det : DetailRow]
PlanRow == [review : SUBSET Key, fix : Maps(Key, DetailRow), pushed : SUBSET Key]
PassRow == [pc : {"idle", "read", "stored", "swept"}, scope : Scopes, sweeps : BOOLEAN,
            known : SUBSET Key, shut : SUBSET Key, found : Maps(Key, FoundRow),
            plan : PlanRow, truth : SUBSET Key, touched : SUBSET IPs]
OpRow == [pc : {"idle", "work"}, todo : Seq(IPs \X STRING), act : {"dismiss", "import", "delete"},
          done : SUBSET Key, rows : Maps(IPs, AddressRow), answer : SUBSET Key,
          failed : SUBSET Key]

Settled(row) == row # None => row \in AddressRow

\* The tables.  An item of a wrong hostname has the right one in its details.
AddrTyped ==
    /\ addr \in [IPs -> AddressRow \cup {None}]
    /\ \A ip \in IPs : addr[ip] # None => ip \in Block[addr[ip].sub]
    /\ managed \subseteq {ip \in IPs : addr[ip] # None}
RealTyped == real \in [IPs -> ProviderRow] /\ cache \in [IPs -> ProviderRow]
ItemTyped ==
    /\ item \in [Key -> ItemRow \cup {None}]
    /\ \A k \in Key : item[k] # None =>
         /\ k[1] \in Block[item[k].sub]
         /\ k[2] = "hostname_mismatch" => item[k].det.name # None
Tables == AddrTyped /\ RealTyped /\ ItemTyped

\* What a pass carries.  Its keys are of items that exist.
PassTyped ==
    /\ pass \in [Passes -> PassRow]
    /\ \A t \in Passes :
         /\ pass[t].pc # "swept" => pass[t].plan = NoPlan
         /\ pass[t].shut \subseteq pass[t].known
         /\ \A k \in DOMAIN pass[t].found :
              /\ k[1] \in Block[pass[t].found[k].sub]
              /\ k[2] = "hostname_mismatch" => pass[t].found[k].det.name # None
         /\ \A k \in DOMAIN pass[t].plan.fix :
              k[2] \in SAFE_CATEGORIES /\ (k[2] \in Orphans => InScope(All, k[1]))
KeysKnown ==
    \A t \in Passes :
        \A k \in pass[t].known \cup pass[t].plan.review \cup pass[t].plan.pushed
                   \cup DOMAIN pass[t].plan.fix : item[k] # None

\* What a bulk call has flushed.
OpTyped ==
    /\ op \in OpRow
    /\ DOMAIN op.rows \subseteq {k[1] : k \in op.done} /\ op.done \subseteq op.answer
    /\ \A ip \in DOMAIN op.rows : ip \in Block[op.rows[ip].sub]
    /\ \A k \in op.done : item[k] # None
    /\ op.failed = {} => op.answer = op.done

Typed == Tables /\ PassTyped /\ KeysKnown /\ OpTyped

\* What a pass found is all there was in its scope.
Complete(t) ==
    pass[t].pc = "read" =>
        \A k \in pass[t].truth :
            k \in DOMAIN pass[t].found \/ ~(pass[t].scope = All \/ InScope(pass[t].scope, k[1]))

LeaseMac(k) == FirstLease(k[1]).mac

\* Of an IP that nobody touched, a pass knows what is there.
Fresh(t) ==
    \A k \in Key : k[1] \notin pass[t].touched =>
        /\ pass[t].pc = "read" =>
             /\ k \in DOMAIN pass[t].found /\ k[2] = "mac_mismatch" =>
                  pass[t].found[k].det.mac = LeaseMac(k)
             /\ k \in pass[t].shut => ~Open(k)
        /\ pass[t].pc = "stored" =>
             (k[2] = "mac_mismatch" /\ Open(k) /\ pass[t].scope \in {All, item[k].sub} =>
                item[k].det.mac = LeaseMac(k))
        /\ pass[t].pc = "swept" =>
             (k \in DOMAIN pass[t].plan.fix =>
                /\ k[2] = "mac_mismatch" => pass[t].plan.fix[k].mac = LeaseMac(k)
                /\ k[1] \notin managed)

IInv == Typed /\ \A t \in Passes : Complete(t) /\ Fresh(t)

-----------------------------------------------------------------------------
(* Lemmas about the operators.                                             *)

LEMMA EmptyMap ==
    ASSUME NEW D, NEW R
    PROVE  <<>> \in Maps(D, R) /\ DOMAIN <<>> = {}
BY DEF Maps

LEMMA MapsDef ==
    ASSUME NEW D, NEW R, NEW f \in Maps(D, R)
    PROVE  DOMAIN f \subseteq D /\ \A x \in DOMAIN f : f[x] \in R
<1>1. CASE f = <<>>
  BY <1>1
<1>2. CASE f \in UNION {[K -> R] : K \in SUBSET D}
  BY <1>2
<1> QED
  BY <1>1, <1>2 DEF Maps

LEMMA MapsIntro ==
    ASSUME NEW D, NEW R, NEW K \in SUBSET D, NEW f \in [K -> R]
    PROVE  f \in Maps(D, R)
BY DEF Maps

\* The first row of a query that gives one is one of its rows.
LEMMA FirstRows ==
    ASSUME RealTyped, NEW ip \in IPs
    PROVE  /\ cache[ip] \in ProviderRow
           /\ cache[ip].dns # {} => FirstDns(ip) \in cache[ip].dns /\ FirstDns(ip) \in DnsRow
           /\ cache[ip].lease # {} => FirstLease(ip) \in cache[ip].lease /\ FirstLease(ip) \in LeaseRow
<1>1. cache[ip] \in ProviderRow
  BY DEF RealTyped
<1>2. cache[ip].dns \subseteq DnsRow /\ cache[ip].lease \subseteq LeaseRow
  BY <1>1 DEF ProviderRow
<1>3. cache[ip].dns # {} => FirstDns(ip) \in cache[ip].dns
  BY DEF FirstDns
<1>4. cache[ip].lease # {} => FirstLease(ip) \in cache[ip].lease
  BY DEF FirstLease
<1> QED
  BY <1>1, <1>2, <1>3, <1>4

LEMMA SubnetForIn ==
    ASSUME NEW s, NEW ip \in IPs, InScope(s, ip)
    PROVE  SubnetFor(s, ip) \in Subnets /\ ip \in Block[SubnetFor(s, ip)]
BY DEF InScope, SubnetFor

\* What holds of an IP in a narrow scope is in that scope.
LEMMA HoldsIn ==
    ASSUME AddrTyped, NEW s \in Scopes, NEW k \in Key, Holds(s, k[1], k[2]), addr[k[1]] = None
    PROVE  InScope(s, k[1])
BY DEF Holds, Own

LEMMA DetailsTyped ==
    ASSUME AddrTyped, RealTyped, NEW s \in Scopes, NEW k \in Key, Holds(s, k[1], k[2])
    PROVE  /\ Details(k[1], k[2]) \in DetailRow
           /\ k[2] = "hostname_mismatch" => Details(k[1], k[2]).name # None
           /\ k[2] = "mac_mismatch" => Details(k[1], k[2]).mac = LeaseMac(k)
<1> DEFINE ip == k[1]
<1> ip \in IPs
  BY DEF Key
<1> HIDE DEF ip
<1>1. /\ k[2] = "orphan_dns" => cache[ip].dns # {}
      /\ k[2] \in {"orphan_dhcp", "mac_mismatch"} => cache[ip].lease # {}
      /\ k[2] \in {"missing_dns", "hostname_mismatch"} => addr[ip] # None
      /\ k[2] = "hostname_mismatch" => addr[ip].host # None
  BY DEF Holds, Own, ip
<1>2. /\ k[2] = "orphan_dns" => FirstDns(ip) \in DnsRow
      /\ k[2] \in {"orphan_dhcp", "mac_mismatch"} => FirstLease(ip) \in LeaseRow
      /\ k[2] \in {"missing_dns", "hostname_mismatch"} => addr[ip] \in AddressRow
  BY <1>1, FirstRows DEF AddrTyped
<1>3. /\ k[2] = "orphan_dns" => FirstDns(ip).name \in Names
      /\ k[2] \in {"orphan_dhcp", "mac_mismatch"} =>
            FirstLease(ip).name \in Names /\ FirstLease(ip).mac \in Macs
      /\ k[2] \in {"missing_dns", "hostname_mismatch"} => addr[ip].host \in Names \cup {None}
  BY <1>2 DEF DnsRow, LeaseRow, AddressRow
<1>4. Details(ip, k[2]).name \in Names \cup {None} /\ Details(ip, k[2]).mac \in Macs \cup {None}
  BY <1>3 DEF Details
<1>5. Details(ip, k[2]) \in DetailRow
  BY <1>4 DEF Details, DetailRow
<1> QED
  BY <1>1, <1>5 DEF Details, LeaseMac, ip

LEMMA FoundTyped ==
    ASSUME AddrTyped, RealTyped, NEW s \in Scopes
    PROVE  /\ DOMAIN Found(s) = {k \in Key : Holds(s, k[1], k[2])}
           /\ Found(s) \in Maps(Key, FoundRow)
           /\ \A k \in DOMAIN Found(s) :
                /\ k[1] \in Block[Found(s)[k].sub]
                /\ k[2] = "hostname_mismatch" => Found(s)[k].det.name # None
                /\ k[2] = "mac_mismatch" => Found(s)[k].det.mac = LeaseMac(k)
<1> DEFINE D == {k \in Key : Holds(s, k[1], k[2])}
           Sub(k) == IF addr[k[1]] # None THEN addr[k[1]].sub ELSE SubnetFor(s, k[1])
<1>1. Found(s) = [k \in D |-> [sub |-> Sub(k), det |-> Details(k[1], k[2])]]
  BY DEF Found
<1>2. ASSUME NEW k \in D PROVE Sub(k) \in Subnets /\ k[1] \in Block[Sub(k)]
  <2>1. k[1] \in IPs
    BY DEF Key
  <2>2. CASE addr[k[1]] # None
    BY <2>1, <2>2 DEF AddrTyped, AddressRow
  <2>3. CASE addr[k[1]] = None
    BY <2>1, <2>3, HoldsIn, SubnetForIn
  <2> QED
    BY <2>2, <2>3
<1> HIDE DEF Sub
<1>3. \A k \in D : /\ Details(k[1], k[2]) \in DetailRow
                   /\ k[2] = "hostname_mismatch" => Details(k[1], k[2]).name # None
                   /\ k[2] = "mac_mismatch" => Details(k[1], k[2]).mac = LeaseMac(k)
  BY DetailsTyped
<1> HIDE DEF D
<1>4. Found(s) \in [D -> FoundRow]
  BY <1>1, <1>2, <1>3 DEF FoundRow
<1>5. Found(s) \in Maps(Key, FoundRow)
  BY <1>4, MapsIntro DEF D
<1> QED
  BY <1>1, <1>2, <1>3, <1>5 DEF D

\* A provider row that an action leaves.
LEMMA RenamedTyped ==
    ASSUME NEW R \in {DnsRow, LeaseRow}, NEW rows \in SUBSET R, NEW row \in R, NEW name \in Names
    PROVE  Rename(row, name) \in R /\ Renamed(rows, row, name) \in SUBSET R
<1>1. Rename(row, name) \in R
  <2>1. CASE R = DnsRow
    BY <2>1 DEF Rename, DnsRow
  <2>2. CASE R = LeaseRow
    BY <2>2 DEF Rename, LeaseRow
  <2> QED
    BY <2>1, <2>2
<1> QED
  BY <1>1 DEF Renamed

LEMMA AfterPushTyped ==
    ASSUME Tables, NEW P \in SUBSET Key, \A k \in P : item[k] # None /\ CanPush(k), NEW ip \in IPs
    PROVE  AfterPush(ip, P) \in ProviderRow
<1> DEFINE on(cat) == <<ip, cat>> \in P
           name(cat) == item[<<ip, cat>>].det.name
           one == CHOOSE s \in Sources : TRUE
           dns0 == IF on("orphan_dns") THEN real[ip].dns \ {FirstDns(ip)} ELSE real[ip].dns
           dns1 == IF on("missing_dns")
                   THEN dns0 \cup {[src |-> one, name |-> name("missing_dns")]} ELSE dns0
           lease0 == IF on("orphan_dhcp") THEN real[ip].lease \ {FirstLease(ip)} ELSE real[ip].lease
           dns2 == IF on("hostname_mismatch") /\ cache[ip].dns # {}
                   THEN Renamed(dns1, FirstDns(ip), name("hostname_mismatch")) ELSE dns1
           lease2 == IF on("hostname_mismatch") /\ cache[ip].lease # {}
                     THEN Renamed(lease0, FirstLease(ip), name("hostname_mismatch")) ELSE lease0
<1>1. real[ip] \in ProviderRow /\ real[ip].dns \in SUBSET DnsRow /\ real[ip].lease \in SUBSET LeaseRow
  BY DEF Tables, RealTyped, ProviderRow
<1>2. \A cat \in {"missing_dns", "hostname_mismatch"} : on(cat) => name(cat) \in Names
  <2> SUFFICES ASSUME NEW cat \in {"missing_dns", "hostname_mismatch"}, on(cat)
               PROVE  name(cat) \in Names
    OBVIOUS
  <2>1. <<ip, cat>> \in Key /\ item[<<ip, cat>>] # None /\ CanPush(<<ip, cat>>)
    OBVIOUS
  <2>2. item[<<ip, cat>>] \in ItemRow
    BY <2>1 DEF Tables, ItemTyped
  <2>3. name(cat) \in Names \cup {None}
    BY <2>2 DEF ItemRow, DetailRow
  <2>4. name(cat) # None
    BY <2>1 DEF CanPush, Tables, ItemTyped
  <2> QED
    BY <2>3, <2>4
<1>3. one \in Sources
  BY InputAssumption
<1> HIDE DEF one, name
<1>4. dns0 \in SUBSET DnsRow /\ lease0 \in SUBSET LeaseRow
  BY <1>1
<1> HIDE DEF dns0, lease0
<1>5. dns1 \in SUBSET DnsRow
  BY <1>2, <1>3, <1>4 DEF DnsRow
<1> HIDE DEF dns1
<1>6. dns2 \in SUBSET DnsRow
  <2>1. CASE on("hostname_mismatch") /\ cache[ip].dns # {}
    BY <1>2, <1>5, <2>1, FirstRows, RenamedTyped DEF Tables
  <2> QED
    BY <1>5, <2>1
<1>7. lease2 \in SUBSET LeaseRow
  <2>1. CASE on("hostname_mismatch") /\ cache[ip].lease # {}
    BY <1>2, <1>4, <2>1, FirstRows, RenamedTyped DEF Tables
  <2> QED
    BY <1>4, <2>1
<1> HIDE DEF dns2, lease2
<1>8. [real[ip] EXCEPT !.dns = dns2, !.lease = lease2] \in ProviderRow
  BY <1>1, <1>6, <1>7 DEF ProviderRow
<1>9. AfterPush(ip, P) = [real[ip] EXCEPT !.dns = dns2, !.lease = lease2]
  BY DEF AfterPush, dns2, lease2, dns1, dns0, lease0, name, one
<1> QED
  BY <1>8, <1>9

LEMMA RemedyPushTyped ==
    ASSUME RealTyped, NEW k \in Key, NEW act, NEW name,
           Remedy(k, act) = "hostname_mismatch" => name \in Names
    PROVE  RemedyPush(k, act, name) \in ProviderRow
<1> DEFINE ip == k[1]
           does == Remedy(k, act)
           dns == IF cache[ip].dns = {} THEN {} ELSE {FirstDns(ip)}
           lease == IF cache[ip].lease = {} THEN {} ELSE {FirstLease(ip)}
<1>1. ip \in IPs
  BY DEF Key
<1>2. real[ip] \in ProviderRow
  BY <1>1 DEF RealTyped
<1>3. dns \in SUBSET DnsRow /\ lease \in SUBSET LeaseRow
  BY <1>1, FirstRows
<1> HIDE DEF dns, lease
<1>4. ASSUME does = "hostname_mismatch"
      PROVE  /\ {Rename(r, name) : r \in dns \cap real[ip].dns} \subseteq DnsRow
             /\ {Rename(l, name) : l \in lease \cap real[ip].lease} \subseteq LeaseRow
  <2>1. name \in Names
    BY <1>4
  <2>2. \A r \in DnsRow : Rename(r, name) \in DnsRow
    BY <2>1, RenamedTyped
  <2>3. \A l \in LeaseRow : Rename(l, name) \in LeaseRow
    BY <2>1, RenamedTyped
  <2> QED
    BY <1>3, <2>2, <2>3
<1>5. [real[ip] EXCEPT !.dns = @ \ dns] \in ProviderRow
  BY <1>2 DEF ProviderRow
<1>6. [real[ip] EXCEPT !.lease = @ \ lease] \in ProviderRow
  BY <1>2 DEF ProviderRow
<1>7. [real[ip] EXCEPT !.lease = @ \ (cache[ip].lease \ lease)] \in ProviderRow
  BY <1>2 DEF ProviderRow
<1>8. ASSUME does = "hostname_mismatch"
      PROVE  [real[ip] EXCEPT !.dns = (@ \ dns) \cup {Rename(r, name) : r \in dns \cap @},
                              !.lease = (@ \ lease) \cup {Rename(l, name) : l \in lease \cap @}]
             \in ProviderRow
  <2> DEFINE a == {Rename(r, name) : r \in dns \cap real[ip].dns}
             b == {Rename(l, name) : l \in lease \cap real[ip].lease}
  <2>1. a \subseteq DnsRow /\ b \subseteq LeaseRow
    BY <1>4, <1>8
  <2> HIDE DEF a, b
  <2>2. [real[ip] EXCEPT !.dns = (real[ip].dns \ dns) \cup a,
                         !.lease = (real[ip].lease \ lease) \cup b] \in ProviderRow
    BY <1>2, <2>1 DEF ProviderRow
  <2> QED
    BY <2>2 DEF a, b
<1> QED
  BY <1>2, <1>5, <1>6, <1>7, <1>8 DEF RemedyPush, dns, lease

LEMMA RemedyRowTyped ==
    ASSUME AddrTyped, RealTyped, NEW k \in Key, NEW act, NEW name,
           ~Refused(k, act), Remedy(k, act) = "hostname_mismatch" => name \in Names
    PROVE  /\ RemedyRow(k, act, name) \in AddressRow \cup {None}
           /\ RemedyRow(k, act, name) # None => k[1] \in Block[RemedyRow(k, act, name).sub]
           /\ addr[k[1]] # None \/ Remedy(k, act) = "import" => RemedyRow(k, act, name) # None
           /\ Remedy(k, act) \in {"delete", "dismiss"} => RemedyRow(k, act, name) = addr[k[1]]
<1> DEFINE ip == k[1]
           does == Remedy(k, act)
           lease == IF k[2] = "orphan_dns" \/ cache[ip].lease = {} THEN None ELSE FirstLease(ip)
           dns == IF k[2] = "orphan_dhcp" \/ cache[ip].dns = {} THEN None ELSE FirstDns(ip)
           host == IF lease # None THEN lease.name ELSE IF dns # None THEN dns.name ELSE None
           mac == IF lease # None THEN lease.mac ELSE None
           new == [sub |-> SubnetFor(All, ip), status |-> "discovered", host |-> host, mac |-> mac]
<1>1. ip \in IPs
  BY DEF Key
<1>2. lease \in LeaseRow \cup {None} /\ dns \in DnsRow \cup {None}
  BY <1>1, FirstRows
<1> HIDE DEF lease, dns
<1>3. host \in Names \cup {None} /\ mac \in Macs \cup {None} /\ (lease # None => lease.mac \in Macs)
  BY <1>2 DEF LeaseRow, DnsRow
<1> HIDE DEF host, mac
<1>4. addr[ip] # None => addr[ip] \in AddressRow /\ ip \in Block[addr[ip].sub]
  BY <1>1 DEF AddrTyped
<1>5. CASE does = "import" /\ addr[ip] = None
  <2>1. SubnetFor(All, ip) \in Subnets /\ ip \in Block[SubnetFor(All, ip)]
    BY <1>1, <1>5, SubnetForIn DEF Refused
  <2>2. new \in AddressRow
    BY <1>3, <2>1 DEF AddressRow
  <2>3. RemedyRow(k, act, name) = new
    BY <1>5 DEF RemedyRow, lease, dns, host, mac
  <2> QED
    BY <1>5, <2>1, <2>2, <2>3, NoneAssumption
<1>6. CASE ~(does = "import" /\ addr[ip] = None)
  <2>1. \/ RemedyRow(k, act, name) = addr[ip]
        \/ addr[ip] # None /\ RemedyRow(k, act, name) = [addr[ip] EXCEPT !.status = "reserved"]
        \/ /\ addr[ip] # None /\ does = "hostname_mismatch"
           /\ RemedyRow(k, act, name) = [addr[ip] EXCEPT !.host = name]
        \/ /\ addr[ip] # None /\ lease # None
           /\ RemedyRow(k, act, name) = [addr[ip] EXCEPT !.mac = lease.mac]
    BY <1>6 DEF RemedyRow, Refused, lease, dns
  <2>2. does \in {"delete", "dismiss"} => RemedyRow(k, act, name) = addr[ip]
    BY <1>6 DEF RemedyRow
  <2>3. addr[ip] # None =>
          /\ [addr[ip] EXCEPT !.status = "reserved"] \in AddressRow
          /\ [addr[ip] EXCEPT !.status = "reserved"].sub = addr[ip].sub
    BY <1>4 DEF AddressRow
  <2>4. addr[ip] # None /\ does = "hostname_mismatch" =>
          /\ [addr[ip] EXCEPT !.host = name] \in AddressRow
          /\ [addr[ip] EXCEPT !.host = name].sub = addr[ip].sub
    BY <1>4 DEF AddressRow
  <2>5. addr[ip] # None /\ lease # None =>
          /\ [addr[ip] EXCEPT !.mac = lease.mac] \in AddressRow
          /\ [addr[ip] EXCEPT !.mac = lease.mac].sub = addr[ip].sub
    BY <1>3, <1>4 DEF AddressRow
  <2> QED
    BY <1>4, <1>6, <2>1, <2>2, <2>3, <2>4, <2>5, NoneAssumption
<1> QED
  BY <1>5, <1>6

\* What a sweep leaves of an address row.
LEMMA FixedTyped ==
    ASSUME AddrTyped, NEW ip \in IPs, NEW fix \in Maps(Key, DetailRow),
           \A k \in DOMAIN fix : k[2] \in Orphans => InScope(All, k[1])
    PROVE  /\ Fixed(ip, fix) \in AddressRow \cup {None}
           /\ Fixed(ip, fix) # None => ip \in Block[Fixed(ip, fix).sub]
           /\ addr[ip] # None => Fixed(ip, fix) # None
           /\ (\E c \in Orphans : <<ip, c>> \in DOMAIN fix) =>
                Fixed(ip, fix) # None /\ Fixed(ip, fix).status = "discovered"
           /\ addr[ip] # None /\ ~(\E c \in Orphans : <<ip, c>> \in DOMAIN fix) =>
                /\ <<ip, "active_but_available">> \in DOMAIN fix => Fixed(ip, fix).status = "reserved"
                /\ <<ip, "mac_mismatch">> \in DOMAIN fix =>
                     Fixed(ip, fix).mac = fix[<<ip, "mac_mismatch">>].mac
           /\ (\A k \in DOMAIN fix : k[1] # ip) => Fixed(ip, fix) = addr[ip]
<1> DEFINE on(cat) == <<ip, cat>> \in DOMAIN fix
           imported == {c \in Orphans : on(c)}
           c0 == CHOOSE c \in imported : TRUE
           new == [sub |-> SubnetFor(All, ip), status |-> "discovered",
                   host |-> fix[<<ip, c0>>].name, mac |-> fix[<<ip, c0>>].mac]
           mac == IF on("mac_mismatch") THEN fix[<<ip, "mac_mismatch">>].mac ELSE addr[ip].mac
           status == IF on("active_but_available") THEN "reserved" ELSE addr[ip].status
           row == [addr[ip] EXCEPT !.mac = mac, !.status = status]
<1>1. \A k \in DOMAIN fix : fix[k].name \in Names \cup {None} /\ fix[k].mac \in Macs \cup {None}
  <2>1. \A k \in DOMAIN fix : fix[k] \in DetailRow
    BY MapsDef
  <2> QED
    BY <2>1 DEF DetailRow
<1>2. CASE imported # {}
  <2>1. c0 \in Orphans /\ <<ip, c0>> \in DOMAIN fix
    BY <1>2
  <2>2. InScope(All, ip)
    BY <2>1
  <2>3. SubnetFor(All, ip) \in Subnets /\ ip \in Block[SubnetFor(All, ip)]
    BY <2>2, SubnetForIn
  <2>4. Fixed(ip, fix) = new
    BY <1>2 DEF Fixed
  <2> HIDE DEF c0
  <2>5. new \in AddressRow
    BY <1>1, <2>1, <2>3 DEF AddressRow
  <2>6. ~(\A k \in DOMAIN fix : k[1] # ip)
    BY <2>1
  <2> QED
    BY <1>2, <2>3, <2>4, <2>5, <2>6, NoneAssumption
<1>3. CASE imported = {} /\ addr[ip] = None
  BY <1>3 DEF Fixed
<1>4. CASE imported = {} /\ addr[ip] # None
  <2>1. addr[ip] \in AddressRow /\ ip \in Block[addr[ip].sub]
    BY <1>4 DEF AddrTyped
  <2>2. mac \in Macs \cup {None}
    BY <1>1, <2>1 DEF AddressRow
  <2>3. Fixed(ip, fix) = row
    BY <1>4 DEF Fixed
  <2>4. (\A k \in DOMAIN fix : k[1] # ip) => mac = addr[ip].mac /\ status = addr[ip].status
    BY DEF mac, status
  <2>5. /\ on("active_but_available") => status = "reserved"
        /\ on("mac_mismatch") => mac = fix[<<ip, "mac_mismatch">>].mac
        /\ status \in {"reserved", addr[ip].status}
    BY DEF mac, status
  <2> HIDE DEF mac, status
  <2>6. /\ row \in AddressRow /\ row.sub = addr[ip].sub /\ row.mac = mac /\ row.status = status
        /\ mac = addr[ip].mac /\ status = addr[ip].status => row = addr[ip]
    BY <2>1, <2>2, <2>5 DEF AddressRow
  <2> QED
    BY <1>4, <2>1, <2>3, <2>4, <2>5, <2>6, NoneAssumption
<1> QED
  BY <1>2, <1>3, <1>4

-----------------------------------------------------------------------------
(* What a pass carries through the steps of others.                        *)

ItemsStay == \A k \in Key : item[k] # None => item'[k] # None

\* Pass u goes on with what it has, and W is touched; or it is over.
Carried(u, W) ==
    \/ pass'[u].pc = "idle"
    \/ /\ pass'[u].pc = pass[u].pc /\ pass'[u].scope = pass[u].scope
       /\ pass'[u].shut = pass[u].shut /\ pass'[u].found = pass[u].found
       /\ pass'[u].plan = pass[u].plan /\ pass'[u].truth = pass[u].truth
       /\ pass'[u].touched = pass[u].touched \cup W

\* What may change outside W: items close, addresses are released by gitops.
Quiet(W) ==
    /\ \A ip \in IPs \ W : cache'[ip] = cache[ip] /\ (ip \in managed' => ip \in managed)
    /\ \A k \in Key : k[1] \notin W /\ Open(k)' =>
         Open(k) /\ item'[k].det = item[k].det /\ item'[k].sub = item[k].sub

LEMMA PassStays ==
    ASSUME NEW u \in Passes, Complete(u), Fresh(u), NEW W, Carried(u, W), Quiet(W)
    PROVE  Complete(u)' /\ Fresh(u)'
<1>1. CASE pass'[u].pc = "idle"
  BY <1>1 DEF Complete, Fresh
<1>2. CASE pass'[u].pc # "idle"
  <2>1. /\ pass'[u].pc = pass[u].pc /\ pass'[u].scope = pass[u].scope
        /\ pass'[u].shut = pass[u].shut /\ pass'[u].found = pass[u].found
        /\ pass'[u].plan = pass[u].plan /\ pass'[u].truth = pass[u].truth
        /\ pass'[u].touched = pass[u].touched \cup W
    BY <1>2 DEF Carried
  <2>2. Complete(u)'
    BY <2>1 DEF Complete, InScope
  <2>3. \A k \in Key : k[1] \notin W =>
          LeaseMac(k)' = LeaseMac(k) /\ (k[1] \in managed' => k[1] \in managed)
    BY DEF Quiet, LeaseMac, FirstLease, Key
  <2>4. \A k \in Key : k[1] \notin W /\ Open(k)' =>
          Open(k) /\ item'[k].det = item[k].det /\ item'[k].sub = item[k].sub
    BY DEF Quiet
  <2>5. \A k \in Key : k[1] \notin pass'[u].touched => k[1] \notin pass[u].touched /\ k[1] \notin W
    BY <2>1
  <2>6. Fresh(u)'
    BY <2>1, <2>3, <2>4, <2>5 DEF Fresh
  <2> QED
    BY <2>2, <2>6
<1> QED
  BY <1>1, <1>2

LEMMA TouchRow ==
    ASSUME pass \in [Passes -> PassRow], NEW W \in SUBSET IPs, NEW u \in Passes
    PROVE  /\ Touch(W)[u] \in PassRow
           /\ \A f \in {"pc", "scope", "known", "shut", "found", "plan", "truth"} :
                Touch(W)[u][f] = pass[u][f]
           /\ Touch(W)[u].pc = "idle" \/ Touch(W)[u].touched = pass[u].touched \cup W
<1>1. pass[u] \in PassRow
  OBVIOUS
<1>2. [pass[u] EXCEPT !.touched = @ \cup W] \in PassRow
  BY <1>1 DEF PassRow
<1>3. Touch(W)[u] = IF pass[u].pc = "idle" THEN pass[u] ELSE [pass[u] EXCEPT !.touched = @ \cup W]
  BY DEF Touch
<1>4. \A f \in {"pc", "scope", "known", "shut", "found", "plan", "truth"} :
        [pass[u] EXCEPT !.touched = @ \cup W][f] = pass[u][f]
  BY <1>1 DEF PassRow
<1>5. [pass[u] EXCEPT !.touched = @ \cup W].touched = pass[u].touched \cup W
  BY <1>1 DEF PassRow
<1> QED
  BY <1>1, <1>2, <1>3, <1>4, <1>5

LEMMA TouchNone ==
    ASSUME pass \in [Passes -> PassRow]
    PROVE  Touch({}) = pass
<1>1. \A u \in Passes : [pass[u] EXCEPT !.touched = @ \cup {}] = pass[u]
  BY DEF PassRow
<1>2. \A u \in Passes : Touch({})[u] = pass[u]
  BY <1>1 DEF Touch
<1>3. Touch({}) = [u \in Passes |-> Touch({})[u]]
  BY DEF Touch
<1> QED
  BY <1>2, <1>3

\* The typing of one pass, as it is used for the pass that takes a step.
RowTyped(r) ==
    /\ r \in PassRow
    /\ r.pc # "swept" => r.plan = NoPlan
    /\ r.shut \subseteq r.known
    /\ \A k \in DOMAIN r.found :
         /\ k[1] \in Block[r.found[k].sub]
         /\ k[2] = "hostname_mismatch" => r.found[k].det.name # None
    /\ \A k \in DOMAIN r.plan.fix :
         k[2] \in SAFE_CATEGORIES /\ (k[2] \in Orphans => InScope(All, k[1]))
Keys(r) == r.known \cup r.plan.review \cup r.plan.pushed \cup DOMAIN r.plan.fix

LEMMA RowsTyped ==
    /\ PassTyped <=> pass \in [Passes -> PassRow] /\ \A u \in Passes : RowTyped(pass[u])
    /\ KeysKnown <=> \A u \in Passes : \A k \in Keys(pass[u]) : item[k] # None
BY DEF PassTyped, KeysKnown, RowTyped, Keys

LEMMA TouchTyped ==
    ASSUME PassTyped, KeysKnown, NEW W \in SUBSET IPs, NEW u \in Passes
    PROVE  RowTyped(Touch(W)[u]) /\ Keys(Touch(W)[u]) = Keys(pass[u])
<1>1. pass \in [Passes -> PassRow] /\ RowTyped(pass[u])
  BY RowsTyped
<1> DEFINE r == Touch(W)[u]
<1>2. /\ r \in PassRow /\ r.pc = pass[u].pc /\ r.known = pass[u].known /\ r.shut = pass[u].shut
      /\ r.found = pass[u].found /\ r.plan = pass[u].plan
  BY <1>1, TouchRow
<1> HIDE DEF r
<1>3. RowTyped(r) /\ Keys(r) = Keys(pass[u])
  BY <1>1, <1>2 DEF RowTyped, Keys
<1> QED
  BY <1>3 DEF r

LEMMA KeysInKey ==
    ASSUME PassTyped, NEW u \in Passes
    PROVE  Keys(pass[u]) \subseteq Key
<1>1. pass[u] \in PassRow
  BY DEF PassTyped
<1>2. pass[u].plan \in PlanRow /\ pass[u].known \subseteq Key
  BY <1>1 DEF PassRow
<1>3. DOMAIN pass[u].plan.fix \subseteq Key
  BY <1>2, MapsDef DEF PlanRow
<1> QED
  BY <1>2, <1>3 DEF PlanRow, Keys

LEMMA OpStays ==
    ASSUME OpTyped, op' = op, ItemsStay
    PROVE  OpTyped'
BY DEF OpTyped, ItemsStay, OpRow

\* A step of somebody else that touches W.
LEMMA OthersKeep ==
    ASSUME IInv, NEW W \in SUBSET IPs, pass' = Touch(W), Quiet(W), ItemsStay, Tables', OpTyped'
    PROVE  IInv'
<1>1. PassTyped /\ KeysKnown /\ pass \in [Passes -> PassRow]
  BY DEF IInv, Typed, PassTyped
<1>2. \A u \in Passes : RowTyped(pass'[u]) /\ Keys(pass'[u]) = Keys(pass[u])
  BY <1>1, TouchTyped
<1>3. \A u \in Passes : Keys(pass[u]) \subseteq Key /\ \A k \in Keys(pass[u]) : item[k] # None
  BY <1>1, KeysInKey, RowsTyped
<1>4. pass' \in [Passes -> PassRow]
  <2>1. pass' = [u \in Passes |-> pass'[u]]
    BY DEF Touch
  <2>2. \A u \in Passes : pass'[u] \in PassRow
    BY <1>2 DEF RowTyped
  <2> QED
    BY <2>1, <2>2
<1>5. PassTyped'
  BY <1>2, <1>4 DEF PassTyped, RowTyped
<1>6. KeysKnown'
  <2>1. \A u \in Passes : \A k \in Keys(pass'[u]) : item'[k] # None
    BY <1>2, <1>3 DEF ItemsStay
  <2> QED
    BY <2>1 DEF KeysKnown, Keys
<1>7. ASSUME NEW u \in Passes PROVE Complete(u)' /\ Fresh(u)'
  <2>1. Carried(u, W)
    BY <1>1, TouchRow DEF Carried
  <2> QED
    BY <2>1, PassStays DEF IInv
<1> QED
  BY <1>5, <1>6, <1>7 DEF IInv, Typed

-----------------------------------------------------------------------------
(* The steps of everybody else.                                            *)

\* Nothing is touched and nothing is written but the state named.
LEMMA NothingTouched ==
    ASSUME IInv, UNCHANGED <<managed, cache, item, pass>>, Tables', OpTyped'
    PROVE  IInv'
<1>1. pass' = Touch({})
  BY TouchNone DEF IInv, Typed, PassTyped
<1>2. Quiet({}) /\ ItemsStay
  BY DEF Quiet, ItemsStay, Open
<1> QED
  BY <1>1, <1>2, OthersKeep

LEMMA PolicySteps ==
    ASSUME IInv, NEW cat, NEW sub, NEW mode,
           UpsertPolicy(cat, sub, mode) \/ DeletePolicy(cat, sub)
    PROVE  IInv'
<1>1. UNCHANGED <<addr, managed, real, cache, item, pass, op>>
  BY DEF UpsertPolicy, DeletePolicy
<1>2. Tables' /\ OpTyped'
  BY <1>1, OpStays DEF IInv, Typed, Tables, AddrTyped, RealTyped, ItemTyped, ItemsStay
<1> QED
  BY <1>1, <1>2, NothingTouched

LEMMA AgeStep ==
    ASSUME IInv, NEW ip \in IPs, Age(ip)
    PROVE  IInv'
<1>1. UNCHANGED <<addr, managed, real, cache, item, pass, op>>
  BY DEF Age
<1>2. Tables' /\ OpTyped'
  BY <1>1, OpStays DEF IInv, Typed, Tables, AddrTyped, RealTyped, ItemTyped, ItemsStay
<1> QED
  BY <1>1, <1>2, NothingTouched

LEMMA ProviderStep ==
    ASSUME IInv, NEW ip \in IPs, NEW row \in RealRows, ProviderEdit(ip, row)
    PROVE  IInv'
<1>1. UNCHANGED <<addr, managed, cache, item, pass, op>> /\ real' = [real EXCEPT ![ip] = row]
  BY DEF ProviderEdit
<1>2. RealTyped'
  BY <1>1, InputAssumption DEF IInv, Typed, Tables, RealTyped
<1>3. Tables' /\ OpTyped'
  BY <1>1, <1>2, OpStays DEF IInv, Typed, Tables, AddrTyped, ItemTyped, ItemsStay
<1> QED
  BY <1>1, <1>3, NothingTouched

LEMMA EditStep ==
    ASSUME IInv, NEW ip \in IPs, NEW row \in AddrRows \cup {None}, EditAddress(ip, row)
    PROVE  IInv'
<1>1. /\ UNCHANGED <<real, cache, item, op>> /\ pass' = Touch({ip})
      /\ addr' = [addr EXCEPT ![ip] = row] /\ (row # None => ip \in Block[row.sub])
      /\ managed' = managed \ (IF row = None THEN {ip} ELSE {})
  BY DEF EditAddress
<1>2. row \in AddressRow \cup {None}
  BY InputAssumption
<1>3. AddrTyped'
  BY <1>1, <1>2 DEF IInv, Typed, Tables, AddrTyped
<1>4. Quiet({ip}) /\ ItemsStay
  BY <1>1 DEF Quiet, ItemsStay, Open
<1>5. Tables' /\ OpTyped'
  BY <1>1, <1>3, <1>4, OpStays DEF IInv, Typed, Tables, RealTyped, ItemTyped
<1> QED
  BY <1>1, <1>4, <1>5, OthersKeep

LEMMA AdoptStep ==
    ASSUME IInv, NEW ip \in IPs, Adopt(ip)
    PROVE  IInv'
<1>1. /\ UNCHANGED <<addr, real, cache, item, op>> /\ pass' = Touch({ip})
      /\ managed' = managed \cup {ip} /\ addr[ip] # None
  BY DEF Adopt
<1>2. AddrTyped'
  BY <1>1 DEF IInv, Typed, Tables, AddrTyped
<1>3. Quiet({ip}) /\ ItemsStay
  BY <1>1 DEF Quiet, ItemsStay, Open
<1>4. Tables' /\ OpTyped'
  BY <1>1, <1>2, <1>3, OpStays DEF IInv, Typed, Tables, RealTyped, ItemTyped
<1> QED
  BY <1>1, <1>3, <1>4, OthersKeep

\* A sync completes the rows there are and creates others from what it read.
LEMMA SyncStep ==
    ASSUME IInv, Sync
    PROVE  IInv'
<1> DEFINE lease(ip) == IF real[ip].lease = {} THEN None ELSE CHOOSE l \in real[ip].lease : TRUE
           dns(ip) == IF real[ip].dns = {} THEN None ELSE CHOOSE r \in real[ip].dns : TRUE
           host(ip) == IF lease(ip) # None THEN lease(ip).name
                       ELSE IF dns(ip) # None THEN dns(ip).name ELSE None
           mac(ip) == IF lease(ip) # None THEN lease(ip).mac ELSE None
           row(ip) == IF addr[ip] # None
                      THEN [addr[ip] EXCEPT !.host = IF @ = None THEN host(ip) ELSE @,
                                            !.mac = IF @ = None THEN mac(ip) ELSE @]
                      ELSE IF host(ip) = None \/ ~InScope(All, ip) THEN None
                      ELSE [sub |-> SubnetFor(All, ip), status |-> "assigned",
                            host |-> host(ip), mac |-> mac(ip)]
<1>1. /\ UNCHANGED <<managed, real, item, op>> /\ pass' = Touch(IPs)
      /\ cache' = real /\ addr' = [ip \in IPs |-> row(ip)]
  BY DEF Sync
<1>2. ASSUME NEW ip \in IPs
      PROVE  host(ip) \in Names \cup {None} /\ mac(ip) \in Macs \cup {None}
  <2>1. real[ip] \in ProviderRow
    BY DEF IInv, Typed, Tables, RealTyped
  <2>2. real[ip].dns \subseteq DnsRow /\ real[ip].lease \subseteq LeaseRow
    BY <2>1 DEF ProviderRow
  <2>3. lease(ip) \in LeaseRow \cup {None} /\ dns(ip) \in DnsRow \cup {None}
    BY <2>2
  <2> HIDE DEF lease, dns
  <2> QED
    BY <2>3 DEF LeaseRow, DnsRow
<1> HIDE DEF host, mac
<1>3. ASSUME NEW ip \in IPs
      PROVE  /\ row(ip) \in AddressRow \cup {None} /\ (row(ip) # None => ip \in Block[row(ip).sub])
             /\ addr[ip] # None => row(ip) # None
  <2>1. CASE addr[ip] # None
    <3>1. addr[ip] \in AddressRow /\ ip \in Block[addr[ip].sub]
      BY <2>1 DEF IInv, Typed, Tables, AddrTyped
    <3>2. row(ip) \in AddressRow /\ row(ip).sub = addr[ip].sub
      BY <1>2, <2>1, <3>1 DEF AddressRow
    <3> QED
      BY <3>1, <3>2, NoneAssumption
  <2>2. CASE addr[ip] = None /\ InScope(All, ip)
    <3>1. SubnetFor(All, ip) \in Subnets /\ ip \in Block[SubnetFor(All, ip)]
      BY <2>2, SubnetForIn
    <3> QED
      BY <1>2, <2>2, <3>1 DEF AddressRow
  <2>3. CASE addr[ip] = None /\ ~InScope(All, ip)
    BY <2>3
  <2> QED
    BY <2>1, <2>2, <2>3
<1> HIDE DEF row
<1>4. AddrTyped'
  BY <1>1, <1>3 DEF IInv, Typed, Tables, AddrTyped
<1>5. Quiet(IPs) /\ ItemsStay
  BY <1>1 DEF Quiet, ItemsStay, Key
<1>6. Tables' /\ OpTyped'
  BY <1>1, <1>4, <1>5, OpStays DEF IInv, Typed, Tables, RealTyped, ItemTyped
<1> QED
  BY <1>1, <1>5, <1>6, OthersKeep

LEMMA ScanStep ==
    ASSUME IInv, NEW s \in Subnets, NEW result \in [IPs -> {"up", "down"}], Scan(s, result)
    PROVE  IInv'
<1> DEFINE new == [sub |-> s, status |-> "discovered", host |-> None, mac |-> None]
<1>1. /\ UNCHANGED <<managed, real, cache, item, op>> /\ pass' = Touch(Block[s])
      /\ addr' = [ip \in IPs |-> IF ip \in Block[s] /\ result[ip] = "up" /\ addr[ip] = None
                                 THEN new ELSE addr[ip]]
  BY DEF Scan
<1>2. new \in AddressRow /\ Block[s] \in SUBSET IPs
  BY ScopeAssumption DEF AddressRow
<1>3. AddrTyped'
  BY <1>1, <1>2, NoneAssumption DEF IInv, Typed, Tables, AddrTyped
<1>4. Quiet(Block[s]) /\ ItemsStay
  BY <1>1 DEF Quiet, ItemsStay, Open
<1>5. Tables' /\ OpTyped'
  BY <1>1, <1>3, <1>4, OpStays DEF IInv, Typed, Tables, RealTyped, ItemTyped
<1> QED
  BY <1>1, <1>2, <1>4, <1>5, OthersKeep

-----------------------------------------------------------------------------
(* The operator's steps.                                                   *)

\* Items of D are closed.
Closed(D) == [k \in Key |-> IF k \in D THEN [item[k] EXCEPT !.open = FALSE] ELSE item[k]]

LEMMA CloseTyped ==
    ASSUME ItemTyped, NEW D \in SUBSET Key, \A k \in D : item[k] # None, item' = Closed(D)
    PROVE  /\ ItemTyped' /\ ItemsStay
           /\ \A k \in D : ~Open(k)'
           /\ \A k \in Key : Open(k)' => Open(k) /\ item'[k] = item[k]
<1>1. ASSUME NEW k \in D
      PROVE  /\ item'[k] \in ItemRow /\ ~item'[k].open
             /\ item'[k].sub = item[k].sub /\ item'[k].det = item[k].det
  <2>1. item[k] \in ItemRow
    BY DEF ItemTyped
  <2>2. item'[k] = [item[k] EXCEPT !.open = FALSE]
    BY DEF Closed
  <2> QED
    BY <2>1, <2>2 DEF ItemRow
<1>2. \A k \in Key \ D : item'[k] = item[k]
  BY DEF Closed
<1>3. item' \in [Key -> ItemRow \cup {None}]
  <2>1. \A k \in Key : item'[k] \in ItemRow \cup {None}
    BY <1>1, <1>2 DEF ItemTyped
  <2> QED
    BY <2>1 DEF Closed
<1>4. ItemTyped'
  BY <1>1, <1>2, <1>3 DEF ItemTyped
<1> QED
  BY <1>1, <1>2, <1>4, NoneAssumption DEF ItemsStay, Open

LEMMA ResolveStep ==
    ASSUME IInv, NEW k \in Key, NEW act, NEW name \in Names, Resolve(k, act, name)
    PROVE  IInv'
<1> DEFINE row == RemedyRow(k, act, name)
<1>1. /\ UNCHANGED <<managed, cache, op>> /\ pass' = Touch({k[1]}) /\ k[1] \in IPs
      /\ real' = [real EXCEPT ![k[1]] = RemedyPush(k, act, name)]
      /\ addr' = [addr EXCEPT ![k[1]] = row]
      /\ item' = [item EXCEPT ![k].open = FALSE] /\ item[k] # None /\ ~Refused(k, act)
  BY DEF Resolve, Key
<1>2. Tables /\ AddrTyped /\ RealTyped /\ ItemTyped
  BY DEF IInv, Typed, Tables
<1>3. /\ row \in AddressRow \cup {None} /\ (row # None => k[1] \in Block[row.sub])
      /\ addr[k[1]] # None => row # None
  BY <1>1, <1>2, RemedyRowTyped
<1> HIDE DEF row
<1>4. AddrTyped'
  BY <1>1, <1>2, <1>3 DEF AddrTyped
<1>5. RealTyped'
  BY <1>1, <1>2, RemedyPushTyped DEF RealTyped
<1> DEFINE D == {k}
<1>6. D \in SUBSET Key /\ (\A j \in D : item[j] # None) /\ item' = Closed(D)
  BY <1>1, <1>2 DEF Closed, ItemTyped
<1> HIDE DEF D
<1>7. ItemTyped' /\ ItemsStay /\ \A j \in Key : Open(j)' => Open(j) /\ item'[j] = item[j]
  BY <1>1, <1>2, <1>6, CloseTyped
<1>8. Quiet({k[1]})
  BY <1>1, <1>7 DEF Quiet
<1>9. Tables' /\ OpTyped'
  BY <1>1, <1>4, <1>5, <1>7, OpStays DEF IInv, Typed, Tables
<1> QED
  BY <1>1, <1>7, <1>8, <1>9, OthersKeep

LEMMA HalfUndoneStep ==
    ASSUME IInv, NEW k \in Key, NEW name \in Names, ResolveHalfUndone(k, name)
    PROVE  IInv'
<1>1. /\ UNCHANGED <<addr, managed, cache, item, pass, op>> /\ k[1] \in IPs
      /\ real' = [real EXCEPT ![k[1]].lease = RemedyPush(k, "guided", name).lease]
  BY DEF ResolveHalfUndone, Key
<1>2. RealTyped /\ RemedyPush(k, "guided", name) \in ProviderRow
  BY RemedyPushTyped DEF IInv, Typed, Tables
<1>3. RealTyped'
  BY <1>1, <1>2 DEF RealTyped, ProviderRow
<1>4. Tables' /\ OpTyped'
  BY <1>1, <1>3, OpStays DEF IInv, Typed, Tables, AddrTyped, ItemTyped, ItemsStay
<1> QED
  BY <1>1, <1>4, NothingTouched

LEMMA BulkStartStep ==
    ASSUME IInv, NEW todo \in Bulks, NEW act \in {"dismiss", "import", "delete"},
           BulkStart(todo, act)
    PROVE  IInv'
<1>1. /\ UNCHANGED <<addr, managed, real, cache, item, pass>>
      /\ op' = [NoOp EXCEPT !.pc = "work", !.todo = todo, !.act = act]
  BY DEF BulkStart
<1>2. todo \in Seq(IPs \X STRING)
  BY InputAssumption
<1>3. <<>> \in Maps(IPs, AddressRow) /\ DOMAIN <<>> = {}
  BY EmptyMap
<1>4. op' = [pc |-> "work", todo |-> todo, act |-> act,
             done |-> {}, rows |-> <<>>, answer |-> {}, failed |-> {}]
  BY <1>1 DEF NoOp
<1>5. OpTyped'
  BY <1>2, <1>3, <1>4 DEF OpTyped, OpRow
<1>6. Tables'
  BY <1>1 DEF IInv, Typed, Tables, AddrTyped, RealTyped, ItemTyped
<1> QED
  BY <1>1, <1>5, <1>6, NothingTouched

LEMMA BulkResolveStep ==
    ASSUME IInv, NEW k \in Key, BulkResolve(k)
    PROVE  IInv'
<1> DEFINE row == RemedyRow(k, op.act, None)
           rows == IF row = addr[k[1]] \/ k[1] \in DOMAIN op.rows THEN op.rows
                   ELSE [ip \in {k[1]} \cup DOMAIN op.rows |->
                           IF ip = k[1] THEN row ELSE op.rows[ip]]
<1>1. /\ UNCHANGED <<addr, managed, cache, item, pass>> /\ k[1] \in IPs
      /\ real' = [real EXCEPT ![k[1]] = RemedyPush(k, op.act, None)]
      /\ op' = [op EXCEPT !.todo = Tail(@), !.done = @ \cup {k}, !.answer = @ \cup {k}, !.rows = rows]
      /\ op.todo # <<>> /\ item[k] # None /\ ~Refused(k, op.act)
  BY DEF BulkResolve, BulkNext, Open, Key
<1>2. Tables /\ AddrTyped /\ RealTyped /\ OpTyped /\ op \in OpRow
  BY DEF IInv, Typed, Tables, OpTyped
<1>3. op.act \in {"dismiss", "import", "delete"} /\ Remedy(k, op.act) \in {"dismiss", "import", "delete"}
  BY <1>2 DEF OpRow, Remedy
<1>4. RealTyped'
  BY <1>1, <1>2, <1>3, RemedyPushTyped DEF RealTyped
<1>5. row # addr[k[1]] => row \in AddressRow /\ k[1] \in Block[row.sub]
  BY <1>1, <1>2, <1>3, RemedyRowTyped
<1>6. DOMAIN op.rows \subseteq IPs /\ \A ip \in DOMAIN op.rows : op.rows[ip] \in AddressRow
  BY <1>2, MapsDef DEF OpRow
<1> HIDE DEF row
<1>7. /\ rows \in Maps(IPs, AddressRow) /\ DOMAIN rows \subseteq DOMAIN op.rows \cup {k[1]}
      /\ \A ip \in DOMAIN rows : ip \in Block[rows[ip].sub]
  <2>1. CASE row = addr[k[1]] \/ k[1] \in DOMAIN op.rows
    BY <1>2, <2>1 DEF OpRow, OpTyped
  <2>2. CASE row # addr[k[1]] /\ k[1] \notin DOMAIN op.rows
    <3>1. rows = [ip \in {k[1]} \cup DOMAIN op.rows |-> IF ip = k[1] THEN row ELSE op.rows[ip]]
      BY <2>2
    <3>2. rows \in [{k[1]} \cup DOMAIN op.rows -> AddressRow]
      BY <1>5, <1>6, <2>2, <3>1
    <3>3. rows \in Maps(IPs, AddressRow)
      BY <1>1, <1>6, <3>2, MapsIntro
    <3> QED
      BY <1>2, <1>5, <2>2, <3>1, <3>3 DEF OpTyped
  <2> QED
    BY <2>1, <2>2
<1> HIDE DEF rows
<1>8. op.todo \in Seq(IPs \X STRING) /\ Tail(op.todo) \in Seq(IPs \X STRING)
  BY <1>1, <1>2 DEF OpRow
<1>9. /\ op' \in OpRow /\ op'.done = op.done \cup {k} /\ op'.answer = op.answer \cup {k}
      /\ op'.rows = rows /\ op'.failed = op.failed
  BY <1>1, <1>2, <1>7, <1>8 DEF OpRow
<1>10. OpTyped'
  BY <1>1, <1>2, <1>7, <1>9 DEF OpTyped
<1>11. Tables'
  BY <1>1, <1>2, <1>4 DEF Tables, AddrTyped, ItemTyped
<1> QED
  BY <1>1, <1>10, <1>11, NothingTouched

LEMMA BulkOtherSteps ==
    ASSUME IInv, NEW k \in Key, BulkFails(k) \/ BulkSkips(k)
    PROVE  IInv'
<1>1. UNCHANGED <<addr, managed, real, cache, item, pass>> /\ op.todo # <<>>
  BY DEF BulkFails, BulkSkips, BulkNext
<1>2. OpTyped /\ op \in OpRow /\ op.todo \in Seq(IPs \X STRING)
  BY DEF IInv, Typed, OpTyped, OpRow
<1>3. Tail(op.todo) \in Seq(IPs \X STRING)
  BY <1>1, <1>2
<1>4. <<>> \in Maps(IPs, AddressRow) /\ DOMAIN <<>> = {}
  BY EmptyMap
<1>5. ASSUME BulkFails(k) PROVE OpTyped'
  <2>1. op' = [op EXCEPT !.todo = Tail(@), !.done = {}, !.rows = <<>>, !.failed = @ \cup {k}]
    BY <1>5 DEF BulkFails
  <2>2. /\ op' \in OpRow /\ op'.done = {} /\ op'.answer = op.answer /\ op'.rows = <<>>
        /\ op'.failed # {}
    BY <1>2, <1>3, <1>4, <2>1 DEF OpRow
  <2> QED
    BY <1>4, <2>2 DEF OpTyped
<1>6. ASSUME BulkSkips(k) PROVE OpTyped'
  <2>1. op' = [op EXCEPT !.todo = Tail(@), !.failed = @ \cup {k}]
    BY <1>6 DEF BulkSkips
  <2>2. /\ op' \in OpRow /\ op'.done = op.done /\ op'.answer = op.answer /\ op'.rows = op.rows
        /\ op'.failed # {}
    BY <1>2, <1>3, <2>1 DEF OpRow
  <2> QED
    BY <1>1, <1>2, <2>2 DEF OpTyped
<1>7. OpTyped'
  BY <1>5, <1>6
<1>8. Tables'
  BY <1>1 DEF IInv, Typed, Tables, AddrTyped, RealTyped, ItemTyped
<1> QED
  BY <1>1, <1>7, <1>8, NothingTouched

LEMMA BulkCommitStep ==
    ASSUME IInv, BulkCommit
    PROVE  IInv' /\ \A k \in op.done : ~Open(k)'
<1> DEFINE W == {k[1] : k \in op.done}
<1>1. /\ UNCHANGED <<managed, real, cache>> /\ pass' = Touch(W)
      /\ addr' = [ip \in IPs |-> IF ip \in DOMAIN op.rows THEN op.rows[ip] ELSE addr[ip]]
      /\ item' = Closed(op.done) /\ op' = NoOp
  BY DEF BulkCommit, Closed
<1>2. Tables /\ AddrTyped /\ ItemTyped /\ OpTyped /\ op \in OpRow
  BY DEF IInv, Typed, Tables, OpTyped
<1>3. op.done \in SUBSET Key /\ op.rows \in Maps(IPs, AddressRow)
  BY <1>2 DEF OpRow
<1>4. DOMAIN op.rows \subseteq IPs /\ \A ip \in DOMAIN op.rows : op.rows[ip] \in AddressRow
  BY <1>3, MapsDef
<1>5. W \in SUBSET IPs
  BY <1>3 DEF Key
<1>7. AddrTyped'
  BY <1>1, <1>2, <1>4, NoneAssumption DEF AddrTyped, OpTyped
<1>8. /\ ItemTyped' /\ ItemsStay /\ (\A k \in op.done : ~Open(k)')
      /\ \A j \in Key : Open(j)' => Open(j) /\ item'[j] = item[j]
  BY <1>1, <1>2, <1>3, CloseTyped DEF OpTyped
<1>9. <<>> \in Maps(IPs, AddressRow) /\ DOMAIN <<>> = {} /\ <<>> \in Seq(IPs \X STRING)
  BY EmptyMap
<1>10. OpTyped'
  BY <1>1, <1>9 DEF OpTyped, OpRow, NoOp
<1>11. Tables'
  BY <1>1, <1>2, <1>7, <1>8 DEF Tables, RealTyped
<1>12. Quiet(W)
  BY <1>1, <1>8 DEF Quiet
<1> QED
  BY <1>1, <1>5, <1>8, <1>10, <1>11, <1>12, OthersKeep

-----------------------------------------------------------------------------
(* The steps of a pass itself.                                             *)

\* Pass t takes a step; to the others it is a step of somebody else.
LEMMA OwnStep ==
    ASSUME IInv, NEW t \in Passes, NEW W \in SUBSET IPs,
           pass' = [u \in Passes |-> IF u = t THEN pass'[t] ELSE Touch(W)[u]],
           Quiet(W), ItemsStay, Tables', OpTyped',
           RowTyped(pass'[t]), \A k \in Keys(pass'[t]) : item'[k] # None,
           Complete(t)', Fresh(t)'
    PROVE  IInv'
<1>1. PassTyped /\ KeysKnown /\ pass \in [Passes -> PassRow]
  BY DEF IInv, Typed, PassTyped
<1>2. \A u \in Passes \ {t} : pass'[u] = Touch(W)[u]
  OBVIOUS
<1>3. \A u \in Passes \ {t} : RowTyped(pass'[u]) /\ Keys(pass'[u]) = Keys(pass[u])
  BY <1>1, <1>2, TouchTyped
<1>4. \A u \in Passes : Keys(pass[u]) \subseteq Key /\ \A k \in Keys(pass[u]) : item[k] # None
  BY <1>1, KeysInKey, RowsTyped
<1>5. \A u \in Passes : RowTyped(pass'[u])
  BY <1>3
<1>6. pass' \in [Passes -> PassRow]
  <2>1. \A u \in Passes : pass'[u] \in PassRow
    BY <1>5 DEF RowTyped
  <2> QED
    BY <2>1
<1>7. PassTyped'
  BY <1>5, <1>6 DEF PassTyped, RowTyped
<1>8. KeysKnown'
  <2>1. \A u \in Passes : \A k \in Keys(pass'[u]) : item'[k] # None
    BY <1>3, <1>4 DEF ItemsStay
  <2> QED
    BY <2>1 DEF KeysKnown, Keys
<1>9. ASSUME NEW u \in Passes PROVE Complete(u)' /\ Fresh(u)'
  <2>1. CASE u = t
    BY <2>1
  <2>2. CASE u # t
    <3>1. Carried(u, W)
      BY <1>1, <1>2, <2>2, TouchRow DEF Carried
    <3> QED
      BY <3>1, PassStays DEF IInv
  <2> QED
    BY <2>1, <2>2
<1> QED
  BY <1>7, <1>8, <1>9 DEF IInv, Typed

LEMMA IdleRow ==
    /\ NoPlan \in PlanRow /\ Idle \in PassRow /\ RowTyped(Idle) /\ Keys(Idle) = {}
    /\ Idle.pc = "idle"
<1>1. <<>> \in Maps(Key, DetailRow) /\ <<>> \in Maps(Key, FoundRow) /\ DOMAIN <<>> = {}
  BY EmptyMap
<1>2. NoPlan \in PlanRow
  BY <1>1 DEF NoPlan, PlanRow
<1>3. Idle \in PassRow
  BY <1>1, <1>2 DEF Idle, PassRow, Scopes
<1> QED
  BY <1>1, <1>2, <1>3 DEF RowTyped, Keys, Idle, NoPlan

\* A pass that is over leaves nothing to show.
LEMMA PassEnds ==
    ASSUME IInv, NEW t \in Passes, NEW W \in SUBSET IPs,
           pass' = [Touch(W) EXCEPT ![t] = Idle],
           Quiet(W), ItemsStay, Tables', OpTyped'
    PROVE  IInv'
<1>1. pass'[t] = Idle /\ pass' = [u \in Passes |-> IF u = t THEN pass'[t] ELSE Touch(W)[u]]
  BY DEF Touch
<1>2. Complete(t)' /\ Fresh(t)'
  BY <1>1, IdleRow DEF Complete, Fresh
<1>3. RowTyped(pass'[t]) /\ \A k \in Keys(pass'[t]) : item'[k] # None
  BY <1>1, IdleRow
<1> QED
  BY <1>1, <1>2, <1>3, OwnStep

\* A pass over one subnet finds, of what a pass over all finds, what is its own.
LEMMA OwnIsFound ==
    ASSUME AddrTyped, NEW s \in Scopes, NEW k \in Key,
           Holds(All, k[1], k[2]), k[2] \notin ScanCategories,
           addr[k[1]] = None \/ s \in {All, addr[k[1]].sub},
           s = All \/ InScope(s, k[1])
    PROVE  Holds(s, k[1], k[2])
<1> DEFINE ip == k[1]
           cat == k[2]
<1>1. Own(All, ip) => Own(s, ip)
  BY DEF Own
<1>2. InScope(s, ip)  <=> InScope(All, ip) \/ s # All
  BY DEF InScope, Scopes
<1>3. s # All => InScope(s, ip)
  OBVIOUS
<1>4. InScope(All, ip) => InScope(s, ip)
  BY <1>2, <1>3
<1>5. cat \in Categories /\ cat \notin {"active_but_available", "unreachable_assigned"}
  BY DEF Key, ScanCategories
<1> HIDE DEF ip, cat
<1>6. CASE cat = "multi_dhcp_scope"
  BY <1>4, <1>6 DEF Holds, ip, cat
<1>7. CASE cat = "dns_source_conflict"
  BY <1>4, <1>7 DEF Holds, ip, cat
<1>8. CASE cat = "orphan_dns" \/ cat = "orphan_dhcp"
  BY <1>4, <1>8 DEF Holds, ip, cat
<1>9. CASE cat \in {"hostname_mismatch", "missing_dns", "missing_dhcp", "mac_mismatch", "ptr_mismatch"}
  BY <1>1, <1>9 DEF Holds, ip, cat
<1> QED
  BY <1>5, <1>6, <1>7, <1>8, <1>9
  DEF Categories, SAFE_CATEGORIES, ScanCategories, Pushed

LEMMA BeginStep ==
    ASSUME IInv, NEW t \in Passes, NEW s \in Scopes, NEW sweeps \in BOOLEAN, Begin(t, s, sweeps)
    PROVE  IInv'
<1> DEFINE row == pass'[t]
<1>1. /\ UNCHANGED <<addr, managed, real, cache, item, op>>
      /\ pass' = [pass EXCEPT ![t] =
           [Idle EXCEPT !.pc = "read", !.scope = s, !.sweeps = sweeps,
                        !.known = {k \in Key : item[k] # None},
                        !.shut = {k \in Key : item[k] # None /\ ~item[k].open},
                        !.found = Found(s),
                        !.truth = {k \in DOMAIN Found(All) : k[2] \notin ScanCategories /\
                                     (addr[k[1]] = None \/ s \in {All, addr[k[1]].sub})}]]
  BY DEF Begin
<1>2. pass \in [Passes -> PassRow] /\ AddrTyped /\ RealTyped
  BY DEF IInv, Typed, Tables, PassTyped
<1>3. row = [pc |-> "read", scope |-> s, sweeps |-> sweeps,
             known |-> {k \in Key : item[k] # None},
             shut |-> {k \in Key : item[k] # None /\ ~item[k].open},
             found |-> Found(s), plan |-> NoPlan,
             truth |-> {k \in DOMAIN Found(All) : k[2] \notin ScanCategories /\
                          (addr[k[1]] = None \/ s \in {All, addr[k[1]].sub})},
             touched |-> {}]
  BY <1>1, <1>2 DEF Idle
<1>4. /\ DOMAIN Found(s) = {k \in Key : Holds(s, k[1], k[2])}
      /\ Found(s) \in Maps(Key, FoundRow)
      /\ \A k \in DOMAIN Found(s) :
           /\ k[1] \in Block[Found(s)[k].sub]
           /\ k[2] = "hostname_mismatch" => Found(s)[k].det.name # None
           /\ k[2] = "mac_mismatch" => Found(s)[k].det.mac = LeaseMac(k)
  BY <1>2, FoundTyped
<1>5. DOMAIN Found(All) = {k \in Key : Holds(All, k[1], k[2])}
  BY <1>2, FoundTyped DEF Scopes
<1>6. DOMAIN NoPlan.fix = {} /\ NoPlan.review = {} /\ NoPlan.pushed = {} /\ NoPlan \in PlanRow
  BY EmptyMap, IdleRow DEF NoPlan
<1> DEFINE found == Found(s)
<1> HIDE DEF found
<1>7. row \in PassRow
  BY <1>3, <1>4, <1>5, <1>6 DEF PassRow
<1>8. RowTyped(row)
  BY <1>3, <1>4, <1>6, <1>7 DEF RowTyped
<1>9. \A k \in Keys(row) : item'[k] # None
  <2>1. row.plan = NoPlan /\ row.known = {k \in Key : item[k] # None}
    BY <1>3
  <2>2. Keys(row) = row.known
    BY <1>6, <2>1 DEF Keys
  <2> QED
    BY <1>1, <2>1, <2>2
<1>10. Complete(t)'
  <2> SUFFICES ASSUME NEW k \in row.truth, s = All \/ InScope(s, k[1])
               PROVE  k \in DOMAIN Found(s)
    BY <1>3 DEF Complete, InScope
  <2>1. /\ k \in Key /\ Holds(All, k[1], k[2]) /\ k[2] \notin ScanCategories
        /\ addr[k[1]] = None \/ s \in {All, addr[k[1]].sub}
    BY <1>3, <1>5
  <2> QED
    BY <1>2, <1>4, <2>1, OwnIsFound
<1>11. Fresh(t)'
  <2>1. \A k \in Key : LeaseMac(k)' = LeaseMac(k) /\ (Open(k)' <=> Open(k))
    BY <1>1 DEF LeaseMac, FirstLease, Open
  <2>2. \A k \in row.shut : ~Open(k)
    BY <1>3 DEF Open
  <2>3. /\ row.pc = "read"
        /\ \A k \in DOMAIN row.found : k[2] = "mac_mismatch" => row.found[k].det.mac = LeaseMac(k)
    BY <1>3, <1>4
  <2> QED
    BY <2>1, <2>2, <2>3 DEF Fresh
<1>12. pass' = [u \in Passes |-> IF u = t THEN pass'[t] ELSE Touch({})[u]]
  BY <1>1, <1>2, TouchNone
<1>13. Quiet({}) /\ ItemsStay
  BY <1>1 DEF Quiet, ItemsStay, Open
<1>14. Tables' /\ OpTyped'
  BY <1>1, <1>13, OpStays DEF IInv, Typed, Tables, AddrTyped, RealTyped, ItemTyped
<1> HIDE DEF row
<1> QED
  BY <1>8, <1>9, <1>10, <1>11, <1>12, <1>13, <1>14, OwnStep DEF row

\* What the unit of work of a pass leaves of an item.
LEMMA WrittenTyped ==
    ASSUME IInv, NEW t \in Passes, pass[t].pc = "read", ~InsertCollides(t), NEW k \in Key
    PROVE  /\ Written(t, k) \in ItemRow \cup {None}
           /\ Written(t, k) # None =>
                /\ k[1] \in Block[Written(t, k).sub]
                /\ k[2] = "hostname_mismatch" => Written(t, k).det.name # None
           /\ item[k] # None => Written(t, k) # None
           /\ k \in DOMAIN pass[t].found =>
                /\ Written(t, k).det = pass[t].found[k].det
                /\ Open(k) => Written(t, k).open
           /\ k \notin DOMAIN pass[t].found =>
                \/ Written(t, k) = item[k] /\
                     (Open(k) => k \in pass[t].shut \/
                        ~(pass[t].scope = All \/ InScope(pass[t].scope, k[1])))
                \/ /\ Written(t, k) # None /\ ~Written(t, k).open
                   /\ pass[t].scope = All \/ InScope(pass[t].scope, k[1])
<1> DEFINE p == pass[t]
           found == p.found
           f == found[k]
           scoped == p.scope = All \/ InScope(p.scope, k[1])
<1>1. RowTyped(p) /\ p \in PassRow /\ \A j \in Keys(p) : item[j] # None
  BY RowsTyped DEF IInv, Typed, RowTyped
<1>2. found \in Maps(Key, FoundRow) /\ p.shut \in SUBSET Key /\ p.known \subseteq Keys(p)
  BY <1>1 DEF PassRow, Keys
<1>3. k \in DOMAIN found =>
        /\ f \in FoundRow /\ k[1] \in Block[f.sub]
        /\ k[2] = "hostname_mismatch" => f.det.name # None
  BY <1>1, <1>2, MapsDef DEF RowTyped
<1>4. item[k] \in ItemRow \cup {None} /\ (k \in p.known => item[k] # None)
  BY <1>1, <1>2 DEF IInv, Typed, Tables, ItemTyped
<1>5. item[k] # None =>
        k[1] \in Block[item[k].sub] /\ (k[2] = "hostname_mismatch" => item[k].det.name # None)
  BY DEF IInv, Typed, Tables, ItemTyped
<1> HIDE DEF f
<1>6. CASE k \in DOMAIN found /\ k \notin p.known
  <2> DEFINE row == [open |-> TRUE, review |-> FALSE, sub |-> f.sub, det |-> f.det]
  <2>1. Written(t, k) = row
    BY <1>6 DEF Written, f
  <2>2. row \in ItemRow /\ row.sub = f.sub /\ row.det = f.det /\ row.open
    BY <1>3, <1>6 DEF FoundRow, ItemRow
  <2> HIDE DEF row
  <2> QED
    BY <1>3, <1>6, <2>1, <2>2, NoneAssumption DEF f
<1>7. CASE k \in DOMAIN found /\ k \in p.known
  <2> DEFINE opened == item[k].open \/ k \in p.shut
             row == [item[k] EXCEPT !.sub = f.sub, !.det = f.det, !.open = opened]
  <2>1. Written(t, k) = row
    BY <1>7 DEF Written, f
  <2>2. item[k] \in ItemRow /\ opened \in BOOLEAN
    BY <1>4, <1>7 DEF ItemRow
  <2>3. item[k].open => opened
    OBVIOUS
  <2> HIDE DEF opened
  <2>4. row \in ItemRow /\ row.sub = f.sub /\ row.det = f.det /\ row.open = opened
    BY <1>3, <1>7, <2>2 DEF FoundRow, ItemRow
  <2> HIDE DEF row
  <2> QED
    BY <1>3, <1>7, <2>1, <2>3, <2>4, NoneAssumption DEF f, Open
<1>8. CASE k \notin DOMAIN found /\ Open(k) /\ k \notin p.shut /\ scoped
  <2> DEFINE row == [item[k] EXCEPT !.open = FALSE]
  <2>1. Written(t, k) = row
    BY <1>8 DEF Written
  <2>2. item[k] \in ItemRow
    BY <1>4, <1>8 DEF Open
  <2>3. row \in ItemRow /\ ~row.open /\ row.sub = item[k].sub /\ row.det = item[k].det
    BY <2>2 DEF ItemRow
  <2> HIDE DEF row
  <2> QED
    BY <1>5, <1>8, <2>1, <2>3, NoneAssumption DEF Open
<1>9. CASE k \notin DOMAIN found /\ ~(Open(k) /\ k \notin p.shut /\ scoped)
  <2>1. Written(t, k) = item[k]
    BY <1>9 DEF Written
  <2> QED
    BY <1>4, <1>5, <1>9, <2>1
<1> QED
  BY <1>6, <1>7, <1>8, <1>9

\* What a pass that went through knows of the IPs nobody else touched.
LEMMA StoredIsFresh ==
    ASSUME IInv, NEW t \in Passes, pass[t].pc = "read", ~InsertCollides(t),
           NEW k \in Key, k[1] \notin pass[t].touched, k[2] = "mac_mismatch",
           Written(t, k) # None, Written(t, k).open, pass[t].scope \in {All, Written(t, k).sub}
    PROVE  Written(t, k).det.mac = LeaseMac(k)
<1> DEFINE w == Written(t, k)
<1>1. /\ k \in DOMAIN pass[t].found => w.det = pass[t].found[k].det
      /\ k \notin DOMAIN pass[t].found /\ w = item[k] /\ Open(k) =>
           k \in pass[t].shut \/ ~(pass[t].scope = All \/ InScope(pass[t].scope, k[1]))
      /\ k \notin DOMAIN pass[t].found => w = item[k]
      /\ w \in ItemRow /\ k[1] \in Block[w.sub]
  BY WrittenTyped
<1>2. /\ k \in DOMAIN pass[t].found => pass[t].found[k].det.mac = LeaseMac(k)
      /\ k \in pass[t].shut => ~Open(k)
  BY DEF IInv, Fresh
<1>3. pass[t].scope = All \/ InScope(pass[t].scope, k[1])
  <2>1. w.sub \in Subnets /\ w.sub # All
    BY <1>1, ScopeAssumption DEF ItemRow
  <2> QED
    BY <1>1, <2>1 DEF InScope
<1>4. CASE k \in DOMAIN pass[t].found
  BY <1>1, <1>2, <1>4
<1>5. CASE k \notin DOMAIN pass[t].found
  <2>1. w = item[k] /\ Open(k)
    BY <1>1, <1>5 DEF Open
  <2> QED
    BY <1>1, <1>2, <1>3, <1>5, <2>1
<1> QED
  BY <1>4, <1>5

LEMMA StoreStep ==
    ASSUME IInv, NEW t \in Passes, Store(t)
    PROVE  IInv'
<1>1. UNCHANGED <<addr, managed, real, cache, op>> /\ pass[t].pc = "read"
  BY DEF Store
<1>2. pass \in [Passes -> PassRow] /\ pass[t] \in PassRow /\ RowTyped(pass[t])
  BY RowsTyped DEF IInv, Typed
<1>3. CASE InsertCollides(t)
  <2>1. item' = item /\ pass' = [Touch({}) EXCEPT ![t] = Idle]
    BY <1>2, <1>3, TouchNone DEF Store
  <2>2. Quiet({}) /\ ItemsStay
    BY <1>1, <2>1 DEF Quiet, ItemsStay, Open
  <2>3. Tables' /\ OpTyped'
    BY <1>1, <2>1, <2>2, OpStays DEF IInv, Typed, Tables, AddrTyped, RealTyped, ItemTyped
  <2> QED
    BY <2>1, <2>2, <2>3, PassEnds
<1>4. CASE ~InsertCollides(t)
  <2> DEFINE next == [pass[t] EXCEPT !.pc = "stored", !.known = {}, !.shut = {}, !.found = <<>>]
  <2>1. /\ item' = [k \in Key |-> Written(t, k)]
        /\ pass' = [u \in Passes |-> IF u # t THEN Touch(IPs)[u]
                                     ELSE IF ~pass[t].sweeps THEN Idle ELSE next]
    BY <1>4 DEF Store
  <2>2. Quiet(IPs)
    BY <1>1 DEF Quiet, Key
  <2>3. ItemTyped' /\ ItemsStay
    <3>1. \A k \in Key :
            /\ item'[k] \in ItemRow \cup {None}
            /\ item'[k] # None => /\ k[1] \in Block[item'[k].sub]
                                  /\ k[2] = "hostname_mismatch" => item'[k].det.name # None
            /\ item[k] # None => item'[k] # None
      BY <1>1, <1>4, <2>1, WrittenTyped
    <3>2. item' \in [Key -> ItemRow \cup {None}]
      BY <2>1, <3>1
    <3> QED
      BY <3>1, <3>2 DEF ItemTyped, ItemsStay
  <2>4. Tables' /\ OpTyped'
    BY <1>1, <2>3, OpStays DEF IInv, Typed, Tables, AddrTyped, RealTyped
  <2>5. CASE ~pass[t].sweeps
    <3>1. pass' = [Touch(IPs) EXCEPT ![t] = Idle]
      BY <2>1, <2>5 DEF Touch
    <3> QED
      BY <2>2, <2>3, <2>4, <3>1, PassEnds
  <2>6. CASE pass[t].sweeps
    <3>1. /\ pass'[t] = next
          /\ pass' = [u \in Passes |-> IF u = t THEN pass'[t] ELSE Touch(IPs)[u]]
      BY <2>1, <2>6
    <3>2. <<>> \in Maps(Key, FoundRow) /\ DOMAIN <<>> = {}
      BY EmptyMap
    <3>3. /\ next \in PassRow /\ next.pc = "stored" /\ next.known = {} /\ next.shut = {}
          /\ next.found = <<>> /\ next.plan = pass[t].plan /\ next.scope = pass[t].scope
          /\ next.touched = pass[t].touched
      BY <1>2, <3>2 DEF PassRow
    <3> HIDE DEF next
    <3>4. RowTyped(next)
      BY <1>1, <1>2, <3>2, <3>3 DEF RowTyped
    <3>5. \A k \in Keys(next) : item'[k] # None
      <4>1. Keys(next) \subseteq Keys(pass[t])
        BY <3>2, <3>3 DEF Keys
      <4>2. Keys(pass[t]) \subseteq Key /\ \A k \in Keys(pass[t]) : item[k] # None
        BY KeysInKey, RowsTyped DEF IInv, Typed
      <4> QED
        BY <2>3, <4>1, <4>2 DEF ItemsStay
    <3>6. Complete(t)'
      BY <3>1, <3>3 DEF Complete
    <3>7. Fresh(t)'
      <4>1. SUFFICES ASSUME NEW k \in Key, k[1] \notin pass[t].touched, k[2] = "mac_mismatch",
                            Open(k)', pass[t].scope \in {All, item'[k].sub}
                     PROVE  item'[k].det.mac = LeaseMac(k)'
        BY <3>1, <3>3 DEF Fresh
      <4>2. item'[k] = Written(t, k) /\ item'[k] # None /\ item'[k].open
        BY <2>1, <4>1 DEF Open
      <4>3. LeaseMac(k)' = LeaseMac(k)
        BY <1>1 DEF LeaseMac, FirstLease
      <4> QED
        BY <1>1, <1>4, <4>1, <4>2, <4>3, StoredIsFresh
    <3> QED
      BY <2>2, <2>3, <2>4, <3>1, <3>4, <3>5, <3>6, <3>7, OwnStep
  <2> QED
    BY <2>5, <2>6
<1> QED
  BY <1>3, <1>4

LEMMA SweepStep ==
    ASSUME IInv, NEW t \in Passes, Sweep(t)
    PROVE  IInv'
<1> DEFINE F == {k \in Under(t, "auto") : k[2] \in SAFE_CATEGORIES /\ ApplySafe(k)}
           fix == [k \in F |-> item[k].det]
           review == {k \in Under(t, "review") : ~item[k].review}
<1>1. PICK P \in SUBSET {k \in Under(t, "provider") : CanPush(k)} :
        /\ real' = [ip \in IPs |-> AfterPush(ip, P)]
        /\ pass' = [pass EXCEPT ![t].pc = "swept",
                                ![t].plan = [review |-> review, fix |-> fix, pushed |-> P]]
  BY DEF Sweep
<1>2. UNCHANGED <<addr, managed, cache, item, op>> /\ pass[t].pc = "stored"
  BY DEF Sweep
<1>3. Tables /\ ItemTyped /\ pass \in [Passes -> PassRow] /\ pass[t] \in PassRow /\ RowTyped(pass[t])
  BY RowsTyped DEF IInv, Typed, Tables, PassTyped
<1>4. \A mode \in {"auto", "review", "provider"} : \A k \in Under(t, mode) :
        /\ k \in Key /\ item[k] # None /\ Open(k) /\ pass[t].scope \in {All, item[k].sub}
        /\ ~(addr[k[1]] # None /\ k[1] \in managed)
  BY DEF Under, Swept, Open
<1>5. P \in SUBSET Key /\ \A k \in P : item[k] # None /\ CanPush(k)
  BY <1>4
<1>6. RealTyped'
  <2>1. \A ip \in IPs : AfterPush(ip, P) \in ProviderRow
    BY <1>3, <1>5, AfterPushTyped
  <2> QED
    BY <1>1, <1>2, <1>3, <2>1 DEF Tables, RealTyped
<1>7. F \in SUBSET Key /\ review \in SUBSET Key
      /\ \A k \in F \cup review : item[k] # None
  BY <1>4
<1>8. fix \in Maps(Key, DetailRow)
  <2>1. \A k \in F : item[k].det \in DetailRow
    BY <1>3, <1>7 DEF ItemTyped, ItemRow
  <2>2. fix \in [F -> DetailRow]
    BY <2>1
  <2> QED
    BY <1>7, <2>2, MapsIntro
<1>9. \A k \in F : k[2] \in SAFE_CATEGORIES /\ (k[2] \in Orphans => InScope(All, k[1]))
  BY DEF ApplySafe, Orphans
<1>10. \A k \in F : k[1] \notin managed
  BY <1>3, <1>4, <1>7 DEF Tables, AddrTyped
<1>11. \A k \in F : k[2] = "mac_mismatch" /\ k[1] \notin pass[t].touched => fix[k].mac = LeaseMac(k)
  BY <1>2, <1>4 DEF IInv, Fresh
<1>12. DOMAIN fix = F
  OBVIOUS
<1> HIDE DEF F, fix, review
<1> DEFINE plan == [review |-> review, fix |-> fix, pushed |-> P]
<1>13. plan \in PlanRow /\ plan.fix = fix /\ plan.review = review /\ plan.pushed = P
  BY <1>5, <1>7, <1>8 DEF PlanRow
<1> DEFINE next == [pass[t] EXCEPT !.pc = "swept", !.plan = plan]
<1>14. pass'[t] = next /\ pass' = [pass EXCEPT ![t] = next]
  BY <1>1, <1>3
<1> HIDE DEF plan
<1>15. /\ next \in PassRow /\ next.pc = "swept" /\ next.plan = plan /\ next.known = pass[t].known
       /\ next.shut = pass[t].shut /\ next.found = pass[t].found /\ next.touched = pass[t].touched
  BY <1>3, <1>13 DEF PassRow
<1> HIDE DEF next
<1>16. RowTyped(next)
  BY <1>3, <1>9, <1>12, <1>13, <1>15 DEF RowTyped
<1>17. \A k \in Keys(next) : item'[k] # None
  <2>1. \A k \in pass[t].known : item[k] # None
    BY DEF IInv, Typed, KeysKnown
  <2> QED
    BY <1>2, <1>5, <1>7, <1>12, <1>13, <1>15, <2>1 DEF Keys
<1>18. Complete(t)'
  BY <1>14, <1>15 DEF Complete
<1>19. Fresh(t)'
  <2>1. \A k \in Key : LeaseMac(k)' = LeaseMac(k)
    BY <1>2 DEF LeaseMac, FirstLease
  <2>2. \A k \in Key : k[1] \notin pass[t].touched /\ k \in F =>
          (k[2] = "mac_mismatch" => fix[k].mac = LeaseMac(k)) /\ k[1] \notin managed
    BY <1>10, <1>11
  <2> QED
    BY <1>2, <1>12, <1>13, <1>14, <1>15, <2>1, <2>2 DEF Fresh
<1>20. pass' = [u \in Passes |-> IF u = t THEN pass'[t] ELSE Touch({})[u]]
  BY <1>3, <1>14, TouchNone
<1>21. Quiet({}) /\ ItemsStay
  BY <1>2 DEF Quiet, ItemsStay, Open
<1>22. Tables' /\ OpTyped'
  BY <1>2, <1>3, <1>6, <1>21, OpStays DEF IInv, Typed, Tables, AddrTyped, ItemTyped
<1> QED
  BY <1>14, <1>16, <1>17, <1>18, <1>19, <1>20, <1>21, <1>22, OwnStep

\* Items that a sweep has closed or marked for review.
LEMMA SweptItems ==
    ASSUME ItemTyped, NEW D \in SUBSET Key, NEW R \in SUBSET Key, \A k \in D \cup R : item[k] # None,
           item' = [k \in Key |-> IF k \in D THEN [item[k] EXCEPT !.open = FALSE]
                                  ELSE IF k \in R THEN [item[k] EXCEPT !.review = TRUE]
                                  ELSE item[k]]
    PROVE  /\ ItemTyped' /\ ItemsStay
           /\ \A k \in Key : Open(k)' =>
                Open(k) /\ item'[k].det = item[k].det /\ item'[k].sub = item[k].sub
<1>1. ASSUME NEW k \in D \cup R
      PROVE  /\ item'[k] \in ItemRow /\ (item'[k].open => item[k].open)
             /\ item'[k].sub = item[k].sub /\ item'[k].det = item[k].det
  <2>1. item[k] \in ItemRow
    BY DEF ItemTyped
  <2>2. \/ item'[k] = [item[k] EXCEPT !.open = FALSE]
        \/ item'[k] = [item[k] EXCEPT !.review = TRUE]
    OBVIOUS
  <2> QED
    BY <2>1, <2>2 DEF ItemRow
<1>2. \A k \in Key \ (D \cup R) : item'[k] = item[k]
  OBVIOUS
<1>3. item' \in [Key -> ItemRow \cup {None}]
  <2>1. \A k \in Key : item'[k] \in ItemRow \cup {None}
    BY <1>1, <1>2 DEF ItemTyped
  <2> QED
    BY <2>1
<1>4. ItemTyped'
  BY <1>1, <1>2, <1>3 DEF ItemTyped
<1> QED
  BY <1>1, <1>2, <1>4, NoneAssumption DEF ItemsStay, Open

LEMMA FinishStep ==
    ASSUME IInv, NEW t \in Passes, FinishSweep(t)
    PROVE  IInv'
<1> DEFINE plan == pass[t].plan
           done == DOMAIN plan.fix \cup plan.pushed
           W == {k[1] : k \in done}
<1>1. UNCHANGED <<managed, real, cache, op>> /\ pass[t].pc = "swept"
  BY DEF FinishSweep
<1>2. /\ Tables /\ AddrTyped /\ ItemTyped /\ PassTyped /\ OpTyped
      /\ pass \in [Passes -> PassRow] /\ pass[t] \in PassRow /\ RowTyped(pass[t])
  BY RowsTyped DEF IInv, Typed, Tables, PassTyped
<1>3. plan \in PlanRow /\ plan.fix \in Maps(Key, DetailRow)
  BY <1>2 DEF PassRow, PlanRow
<1>4. done \in SUBSET Key /\ plan.review \in SUBSET Key /\ \A k \in done \cup plan.review : item[k] # None
  BY <1>2, <1>3, MapsDef DEF IInv, Typed, KeysKnown, PlanRow
<1>5. CASE CommitBreaks(t)
  <2>1. addr' = addr /\ item' = item /\ pass' = [Touch({}) EXCEPT ![t] = Idle]
    BY <1>2, <1>5, TouchNone DEF FinishSweep
  <2>2. Quiet({}) /\ ItemsStay
    BY <1>1, <2>1 DEF Quiet, ItemsStay, Open
  <2>3. Tables' /\ OpTyped'
    BY <1>1, <2>1, <2>2, OpStays DEF IInv, Typed, Tables, AddrTyped, RealTyped, ItemTyped
  <2> QED
    BY <2>1, <2>2, <2>3, PassEnds
<1>6. CASE ~CommitBreaks(t)
  <2>1. /\ addr' = [ip \in IPs |-> Fixed(ip, plan.fix)]
        /\ item' = [k \in Key |-> IF k \in done THEN [item[k] EXCEPT !.open = FALSE]
                                  ELSE IF k \in plan.review THEN [item[k] EXCEPT !.review = TRUE]
                                  ELSE item[k]]
        /\ pass' = [Touch(W) EXCEPT ![t] = Idle]
    BY <1>6 DEF FinishSweep
  <2>2. W \in SUBSET IPs
    BY <1>4 DEF Key
  <2>3. \A k \in DOMAIN plan.fix : k[2] \in Orphans => InScope(All, k[1])
    BY <1>2 DEF RowTyped
  <2>4. AddrTyped'
    <3>1. \A ip \in IPs :
            /\ Fixed(ip, plan.fix) \in AddressRow \cup {None}
            /\ Fixed(ip, plan.fix) # None => ip \in Block[Fixed(ip, plan.fix).sub]
            /\ addr[ip] # None => Fixed(ip, plan.fix) # None
      BY <1>2, <1>3, <2>3, FixedTyped
    <3> QED
      BY <1>1, <1>2, <2>1, <3>1 DEF AddrTyped
  <2>5. /\ ItemTyped' /\ ItemsStay
        /\ \A k \in Key : Open(k)' =>
             Open(k) /\ item'[k].det = item[k].det /\ item'[k].sub = item[k].sub
    <3> DEFINE D == done
               R == plan.review
    <3>1. D \in SUBSET Key /\ R \in SUBSET Key /\ \A k \in D \cup R : item[k] # None
      BY <1>4
    <3> HIDE DEF D, R
    <3>2. item' = [k \in Key |-> IF k \in D THEN [item[k] EXCEPT !.open = FALSE]
                                 ELSE IF k \in R THEN [item[k] EXCEPT !.review = TRUE]
                                 ELSE item[k]]
      BY <2>1 DEF D, R
    <3> QED
      BY <1>2, <3>1, <3>2, SweptItems
  <2>6. Quiet(W)
    BY <1>1, <2>5 DEF Quiet
  <2>7. Tables' /\ OpTyped'
    BY <1>1, <1>2, <2>4, <2>5, OpStays DEF Tables, RealTyped
  <2> QED
    BY <2>1, <2>2, <2>5, <2>6, <2>7, PassEnds
<1> QED
  BY <1>5, <1>6

-----------------------------------------------------------------------------
LEMMA IInvInit == Init => IInv
<1> SUFFICES ASSUME Init PROVE IInv
  OBVIOUS
<1>1. PICK w \in Worlds : addr = w.addr /\ real = w.real /\ cache = w.real
  BY DEF Init
<1>2. Tables
  BY <1>1, InputAssumption DEF Init, Tables, AddrTyped, RealTyped, ItemTyped
<1>3. pass = [t \in Passes |-> Idle] /\ pass \in [Passes -> PassRow]
  BY IdleRow DEF Init
<1>4. PassTyped /\ KeysKnown
  BY <1>3, IdleRow, RowsTyped
<1>5. OpTyped
  <2>1. <<>> \in Maps(IPs, AddressRow) /\ DOMAIN <<>> = {} /\ <<>> \in Seq(IPs \X STRING)
    BY EmptyMap
  <2> QED
    BY <2>1 DEF Init, OpTyped, OpRow, NoOp
<1>6. \A t \in Passes : Complete(t) /\ Fresh(t)
  BY <1>3, IdleRow DEF Complete, Fresh
<1> QED
  BY <1>2, <1>4, <1>5, <1>6 DEF IInv, Typed

LEMMA IInvNext == IInv /\ [Next]_vars => IInv'
<1> SUFFICES ASSUME IInv, [Next]_vars PROVE IInv'
  OBVIOUS
<1>1. CASE Detection
  BY <1>1, BeginStep, StoreStep, SweepStep, FinishStep DEF Detection
<1>2. CASE Operator
  <2>1. ASSUME NEW k \in Key, NEW name \in Names, NEW act, Resolve(k, act, name) PROVE IInv'
    BY <2>1, ResolveStep
  <2>2. ASSUME NEW k \in Key, NEW name \in Names, ResolveHalfUndone(k, name) PROVE IInv'
    BY <2>2, HalfUndoneStep
  <2>3. ASSUME NEW todo \in Bulks, NEW act \in {"dismiss", "import", "delete"},
               BulkStart(todo, act)
        PROVE  IInv'
    BY <2>3, BulkStartStep
  <2>4. ASSUME NEW k \in Key, BulkResolve(k) \/ BulkFails(k) \/ BulkSkips(k) PROVE IInv'
    BY <2>4, BulkResolveStep, BulkOtherSteps
  <2>5. ASSUME BulkCommit PROVE IInv'
    BY <2>5, BulkCommitStep
  <2> QED
    BY <1>2, <2>1, <2>2, <2>3, <2>4, <2>5 DEF Operator
<1>3. CASE Elsewhere
  <2>1. ASSUME NEW e \in PolicyEdits, UpsertPolicy(e[1], e[2], e[3]) \/ DeletePolicy(e[1], e[2])
        PROVE  IInv'
    BY <2>1, PolicySteps
  <2>2. ASSUME NEW ip \in IPs, NEW row \in AddrRows \cup {None}, EditAddress(ip, row) PROVE IInv'
    BY <2>2, EditStep
  <2>3. ASSUME NEW ip \in IPs, NEW row \in RealRows, ProviderEdit(ip, row) PROVE IInv'
    BY <2>3, ProviderStep
  <2>4. ASSUME NEW ip \in IPs, Adopt(ip) \/ Age(ip) PROVE IInv'
    BY <2>4, AdoptStep, AgeStep
  <2>5. ASSUME Sync PROVE IInv'
    BY <2>5, SyncStep
  <2>6. ASSUME NEW s \in Subnets, NEW result \in [IPs -> {"up", "down"}], Scan(s, result)
        PROVE  IInv'
    BY <2>6, ScanStep
  <2> QED
    BY <1>3, <2>1, <2>2, <2>3, <2>4, <2>5, <2>6 DEF Elsewhere
<1>4. CASE UNCHANGED vars
  <2>1. UNCHANGED <<addr, managed, real, cache, item, pass, op>>
    BY <1>4 DEF vars
  <2>2. Tables' /\ OpTyped'
    BY <2>1, OpStays DEF IInv, Typed, Tables, AddrTyped, RealTyped, ItemTyped, ItemsStay
  <2> QED
    BY <2>1, <2>2, NothingTouched
<1> QED
  BY <1>1, <1>2, <1>3, <1>4 DEF Next

LEMMA IInvHolds == Spec => []IInv
BY IInvInit, IInvNext, PTL DEF Spec

-----------------------------------------------------------------------------
(* Theorems.                                                               *)

\* Every row has its type, an address and the address of an item lie in their
\* subnet, whatever passes, operators, scans and syncs overlap.
THEOREM DriftTypes == Spec => []TypeOK
<1>1. IInv => TypeOK
  <2> SUFFICES ASSUME IInv PROVE TypeOK
    OBVIOUS
  <2>1. \A t \in Passes : pass[t] \in PassRow
    BY DEF IInv, Typed, PassTyped
  <2>2. \A t \in Passes : pass[t].pc \in {"idle", "read", "stored", "swept"}
    BY <2>1 DEF PassRow
  <2> QED
    BY <2>2 DEF IInv, Typed, Tables, AddrTyped, RealTyped, ItemTyped, PassTyped, OpTyped, TypeOK
<1> QED
  BY <1>1, IInvHolds, PTL

\* A pass auto-resolves no item whose condition held of what it read, however
\* subnets are nested and whatever the scope of the pass.
THEOREM AutoResolveIsSound == Spec => AutoResolveIsEarned
<1>1. IInv /\ [Next]_vars =>
        [\A t \in Passes, k \in Key : Closes(t, k) => k \notin pass[t].truth]_vars
  <2> SUFFICES ASSUME IInv, NEW t \in Passes, NEW k \in Key, Closes(t, k), k \in pass[t].truth
               PROVE  FALSE
    OBVIOUS
  <2>1. Store(t) /\ Open(k) /\ ~item'[k].open /\ pass[t].pc = "read"
    BY DEF Closes, Store
  <2>2. ~InsertCollides(t) /\ item' = [j \in Key |-> Written(t, j)]
    BY <2>1 DEF Store, Open
  <2>3. /\ k \in DOMAIN pass[t].found => Written(t, k).open
        /\ k \notin DOMAIN pass[t].found => Written(t, k) = item[k]
             \/ pass[t].scope = All \/ InScope(pass[t].scope, k[1])
    BY <2>1, <2>2, WrittenTyped
  <2>4. k \in DOMAIN pass[t].found \/ ~(pass[t].scope = All \/ InScope(pass[t].scope, k[1]))
    BY <2>1 DEF IInv, Complete
  <2> QED
    BY <2>1, <2>2, <2>3, <2>4 DEF Open
<1> QED
  BY <1>1, IInvHolds, PTL DEF Spec, AutoResolveIsEarned

\* What a sweep repaired is repaired when it has committed, and no row that a
\* gitops document declares is repaired, unless somebody wrote to the IP since
\* the pass read it.
THEOREM RepairsHold == Spec => FixSticks
<1>1. IInv /\ [Next]_vars =>
        [\A t \in Passes :
           /\ FinishSweep(t) /\ ~CommitBreaks(t) =>
                \A k \in DOMAIN pass[t].plan.fix :
                   k[1] \in pass[t].touched \/ ~Holds(All, k[1], k[2])'
           /\ FinishSweep(t) =>
                \A ip \in managed : addr'[ip] = addr[ip] \/ ip \in pass[t].touched]_vars
  <2> SUFFICES ASSUME IInv, NEW t \in Passes, FinishSweep(t)
               PROVE  /\ ~CommitBreaks(t) =>
                           \A k \in DOMAIN pass[t].plan.fix :
                              k[1] \in pass[t].touched \/ ~Holds(All, k[1], k[2])'
                      /\ \A ip \in managed : addr'[ip] = addr[ip] \/ ip \in pass[t].touched
    OBVIOUS
  <2> DEFINE fix == pass[t].plan.fix
  <2>1. pass[t].pc = "swept" /\ cache' = cache
    BY DEF FinishSweep
  <2>2. AddrTyped /\ AddrTyped' /\ RowTyped(pass[t]) /\ pass[t] \in PassRow /\ pass[t].plan \in PlanRow
    BY FinishStep, RowsTyped DEF IInv, Typed, Tables, RowTyped, PassRow
  <2>3. fix \in Maps(Key, DetailRow) /\ DOMAIN fix \subseteq Key
    BY <2>2, MapsDef DEF PlanRow
  <2>4. ~CommitBreaks(t) => addr' = [ip \in IPs |-> Fixed(ip, fix)]
    BY DEF FinishSweep
  <2>5. CommitBreaks(t) => addr' = addr
    BY DEF FinishSweep
  <2>6. \A k \in DOMAIN fix : k[2] \in Orphans => InScope(All, k[1])
    BY <2>2 DEF RowTyped
  <2>7. ASSUME NEW ip \in managed, ip \notin pass[t].touched PROVE addr'[ip] = addr[ip]
    <3>1. \A k \in DOMAIN fix : k[1] # ip
      BY <2>1, <2>3, <2>7 DEF IInv, Fresh
    <3>2. ip \in IPs
      BY <2>2 DEF AddrTyped
    <3>3. Fixed(ip, fix) = addr[ip]
      BY <2>2, <2>3, <2>6, <3>1, <3>2, FixedTyped
    <3> QED
      BY <2>4, <2>5, <3>2, <3>3
  <2>8. ASSUME ~CommitBreaks(t), NEW k \in DOMAIN fix, k[1] \notin pass[t].touched
        PROVE  ~Holds(All, k[1], k[2])'
    <3> DEFINE ip == k[1]
               cat == k[2]
    <3>1. k = <<ip, cat>> /\ ip \in IPs /\ cat \in SAFE_CATEGORIES
      BY <2>2, <2>3 DEF Key, RowTyped
    <3> HIDE DEF ip, cat
    <3>2. addr'[ip] = Fixed(ip, fix)
      BY <2>4, <2>8, <3>1
    <3>3. CASE cat \in Orphans
      <4>1. addr'[ip] # None
        BY <2>2, <2>3, <2>6, <3>1, <3>2, <3>3, FixedTyped
      <4> QED
        BY <3>1, <3>3, <4>1 DEF Holds, Orphans, ip, cat
    <3>4. CASE cat \notin Orphans
      <4>1. addr[ip] # None /\ ~\E c \in Orphans : <<ip, c>> \in DOMAIN fix
        <5>1. k \in DOMAIN fix \ Imports(t)
          BY <3>4 DEF Imports, cat
        <5>2. addr[ip] # None
          BY <2>8, <5>1 DEF CommitBreaks, ip
        <5>3. ASSUME NEW c \in Orphans, <<ip, c>> \in DOMAIN fix PROVE FALSE
          <6>1. <<ip, c>> \in Imports(t)
            BY <5>3 DEF Imports
          <6>2. addr[<<ip, c>>[1]] = None
            BY <2>8, <6>1 DEF CommitBreaks
          <6> QED
            BY <5>2, <6>2
        <5> QED
          BY <5>2, <5>3
      <4>2. /\ cat = "active_but_available" => addr'[ip].status = "reserved"
            /\ cat = "mac_mismatch" => addr'[ip].mac = fix[k].mac
        BY <2>2, <2>3, <2>6, <3>1, <3>2, <4>1, FixedTyped
      <4>3. CASE cat = "active_but_available"
        BY <4>2, <4>3 DEF Holds, ip, cat
      <4>4. CASE cat = "mac_mismatch"
        <5>1. fix[k].mac = FirstLease(ip).mac /\ FirstLease(ip)' = FirstLease(ip)
          BY <2>1, <2>3, <2>8, <4>4 DEF IInv, Fresh, LeaseMac, FirstLease, ip, cat
        <5> QED
          BY <4>2, <4>4, <5>1 DEF Holds, ip, cat
      <4> QED
        BY <3>1, <3>4, <4>3, <4>4 DEF SAFE_CATEGORIES, Orphans
    <3> QED
      BY <3>3, <3>4
  <2> QED
    BY <2>7, <2>8
<1> QED
  BY <1>1, IInvHolds, PTL DEF Spec, FixSticks

\* An answer of a bulk call that lists no failure tells the truth of all it lists.
THEOREM BulkAnswerIsTrue == Spec => LostAnswerIsVisible
<1>1. IInv /\ [Next]_vars =>
        [BulkCommit => op.answer \subseteq {k \in Key : ~Open(k)'} \/ op.failed # {}]_vars
  <2> SUFFICES ASSUME IInv, BulkCommit, op.failed = {}
               PROVE  op.answer \subseteq {k \in Key : ~Open(k)'}
    OBVIOUS
  <2>1. op.answer = op.done /\ op.done \subseteq Key
    BY DEF IInv, Typed, OpTyped, OpRow
  <2> QED
    BY <2>1, BulkCommitStep
<1> QED
  BY <1>1, IInvHolds, PTL DEF Spec, LostAnswerIsVisible
=============================================================================
