---------------------------- MODULE GitopsProofs ----------------------------
(***************************************************************************)
(* Proofs about Gitops, for any documents, rows, sources, workers, starts  *)
(* and bounds.                                                             *)
(*                                                                         *)
(* The pruning of subnets is a loop over rows that come in any order: what *)
(* it leaves is shown by induction on the number of rows it has seen to be *)
(* the database without some of the source's surplus, without all of it if *)
(* no deletion was refused.  An apply that nobody disturbs then keeps what *)
(* its transactions have established until it ends.                        *)
(***************************************************************************)
EXTENDS Gitops, FiniteSetTheorems, WellFoundedInduction, TLAPS

-----------------------------------------------------------------------------
(* Induction on a natural number, as the search for a least exception.     *)

NatLess == {p \in Nat \X Nat : p[1] < p[2]}

\* A set of natural numbers that is not empty has a least element.
LEMMA NatMinimum ==
    ASSUME NEW T \in SUBSET Nat, T # {}
    PROVE  \E n \in T : \A m \in T : n <= m
<1>1. IsWellFoundedOn(NatLess, Nat)
  BY NatLessThanWellFounded DEF OpToRel, NatLess
<1>2. PICK n \in T : \A m \in T : ~(<<m, n>> \in NatLess)
  BY <1>1, WFMin
<1>3. \A m \in T : ~(m < n)
  BY <1>2 DEF NatLess
<1> QED
  BY <1>3

-----------------------------------------------------------------------------
(* The database.                                                           *)

\* The rows that go when ks are deleted: with a subnet those in it.
With(ks) == ks \cup {k \in Inner : Home[k] \in ks}

\* The kinds of rows are apart.
LEMMA Kinds ==
    /\ Key = Vlans \cup Subnets \cup Inner
    /\ Vlans \cap Subnets = {} /\ Vlans \cap Inner = {} /\ Subnets \cap Inner = {}
    /\ NoParent \notin Key /\ Unset \notin Key /\ Null \notin Key /\ Nobody \notin Source
    /\ \A k \in Inner : Home[k] \in Subnets
  BY KindsAssumption, ModelAssumption DEF Key, Inner

\* What a database holds.
LEMMA DatabaseFields ==
    ASSUME NEW d \in Database
    PROVE  /\ d.present \in SUBSET Key
           /\ d.tag \in [Key -> Source \cup {Nobody}]
           /\ d.up \in [Subnets -> Subnets \cup {NoParent}]
  BY DEF Database

\* Two databases with the same rows, tags and parents are one.
LEMMA DatabaseEqual ==
    ASSUME NEW d \in Database, NEW e \in Database,
           d.present = e.present,
           \A k \in Key : d.tag[k] = e.tag[k], \A s \in Subnets : d.up[s] = e.up[s]
    PROVE  d = e
<1>1. d.tag = e.tag /\ d.up = e.up
  BY DEF Database
<1> QED
  BY <1>1 DEF Database

\* Deleting rows yields a database, without them and those in them.
LEMMA DeletedFields ==
    ASSUME NEW d \in Database, NEW ks
    PROVE  /\ Deleted(d, ks) \in Database
           /\ Deleted(d, ks).present = d.present \ With(ks)
           /\ \A k \in Key : Deleted(d, ks).tag[k] = IF k \in With(ks) THEN Nobody ELSE d.tag[k]
           /\ \A s \in Subnets : Deleted(d, ks).up[s] = IF s \in With(ks) THEN NoParent ELSE d.up[s]
<1> DEFINE tag == [k \in Key |-> IF k \in With(ks) THEN Nobody ELSE d.tag[k]]
           up == [s \in Subnets |-> IF s \in With(ks) THEN NoParent ELSE d.up[s]]
<1>1. Deleted(d, ks) = [present |-> d.present \ With(ks), tag |-> tag, up |-> up]
  BY DEF Deleted, DeletedAlone, With
<1>2. /\ tag \in [Key -> Source \cup {Nobody}]
      /\ up \in [Subnets -> Subnets \cup {NoParent}]
      /\ d.present \ With(ks) \in SUBSET Key
  BY DatabaseFields
<1>3. /\ \A k \in Key : tag[k] = IF k \in With(ks) THEN Nobody ELSE d.tag[k]
      /\ \A s \in Subnets : up[s] = IF s \in With(ks) THEN NoParent ELSE d.up[s]
  OBVIOUS
<1> HIDE DEF tag, up
<1>4. Deleted(d, ks) \in Database
  BY <1>1, <1>2 DEF Database
<1> QED
  BY <1>1, <1>3, <1>4

\* Deleting nothing changes nothing.
LEMMA DeletedNothing ==
    ASSUME NEW d \in Database
    PROVE  Deleted(d, {}) = d
<1> DEFINE e == Deleted(d, {})
<1>1. With({}) = {}
  BY DEF With
<1>2. /\ e \in Database /\ e.present = d.present \ With({})
      /\ \A k \in Key : e.tag[k] = IF k \in With({}) THEN Nobody ELSE d.tag[k]
      /\ \A s \in Subnets : e.up[s] = IF s \in With({}) THEN NoParent ELSE d.up[s]
  BY DeletedFields
<1> HIDE DEF e
<1>3. /\ e.present = d.present
      /\ \A k \in Key : d.tag[k] = e.tag[k]
      /\ \A s \in Subnets : d.up[s] = e.up[s]
  BY <1>1, <1>2
<1>4. d = e
  BY <1>2, <1>3, DatabaseEqual
<1> QED
  BY <1>4 DEF e

\* Deleting in two steps is deleting at once.
LEMMA DeletedTwice ==
    ASSUME NEW d \in Database, NEW ks, NEW more
    PROVE  Deleted(Deleted(d, ks), more) = Deleted(d, ks \cup more)
<1> DEFINE e == Deleted(d, ks)
           x == Deleted(e, more)
           y == Deleted(d, ks \cup more)
<1>1. With(ks \cup more) = With(ks) \cup With(more)
  BY DEF With
<1>2. /\ e \in Database /\ e.present = d.present \ With(ks)
      /\ \A k \in Key : e.tag[k] = IF k \in With(ks) THEN Nobody ELSE d.tag[k]
      /\ \A s \in Subnets : e.up[s] = IF s \in With(ks) THEN NoParent ELSE d.up[s]
  BY DeletedFields
<1>3. /\ y \in Database /\ y.present = d.present \ With(ks \cup more)
      /\ \A k \in Key : y.tag[k] = IF k \in With(ks \cup more) THEN Nobody ELSE d.tag[k]
      /\ \A s \in Subnets : y.up[s] = IF s \in With(ks \cup more) THEN NoParent ELSE d.up[s]
  BY DeletedFields
<1> HIDE DEF e, y
<1>4. /\ x \in Database /\ x.present = e.present \ With(more)
      /\ \A k \in Key : x.tag[k] = IF k \in With(more) THEN Nobody ELSE e.tag[k]
      /\ \A s \in Subnets : x.up[s] = IF s \in With(more) THEN NoParent ELSE e.up[s]
  BY <1>2, DeletedFields
<1> HIDE DEF x
<1>5. /\ x.present = y.present
      /\ \A k \in Key : x.tag[k] = y.tag[k]
      /\ \A s \in Subnets : x.up[s] = y.up[s]
  BY <1>1, <1>2, <1>3, <1>4
<1>6. x = y
  BY <1>3, <1>4, <1>5, DatabaseEqual
<1> QED
  BY <1>6 DEF x, y, e

\* The foreign keys hold after a deletion that leaves no subnet without its
\* parent.
LEMMA DeletedKeys ==
    ASSUME NEW d \in Database, ForeignKeys(d), NEW ks,
           \A s \in ks \cap Subnets : Children(d, s) = {}
    PROVE  ForeignKeys(Deleted(d, ks))
<1> DEFINE e == Deleted(d, ks)
<1>1. /\ e.present = d.present \ With(ks)
      /\ \A k \in Key : e.tag[k] = IF k \in With(ks) THEN Nobody ELSE d.tag[k]
      /\ \A s \in Subnets : e.up[s] = IF s \in With(ks) THEN NoParent ELSE d.up[s]
  BY DeletedFields
<1> HIDE DEF e
<1>2. \A k \in Inner \cap e.present : Home[k] \in e.present
  BY <1>1, Kinds DEF ForeignKeys, With
<1>3. ASSUME NEW s \in Subnets \cap e.present
      PROVE  e.up[s] \in e.present \cup {NoParent}
  <2>1. e.up[s] = d.up[s] /\ d.up[s] \in d.present \cup {NoParent}
    BY <1>1, <1>3 DEF ForeignKeys
  <2>2. d.up[s] \in Subnets \cup {NoParent}
    BY <1>3, DatabaseFields
  <2>3. d.up[s] \in Subnets => d.up[s] \notin ks
    BY <1>1, <1>3 DEF Children
  <2> QED
    BY <1>1, <2>1, <2>2, <2>3, Kinds DEF With
<1>4. ASSUME NEW k \in Key \ e.present
      PROVE  e.tag[k] = Nobody /\ (k \in Subnets => e.up[k] = NoParent)
  BY <1>1, <1>4 DEF ForeignKeys
<1> QED
  BY <1>2, <1>3, <1>4 DEF ForeignKeys, e

-----------------------------------------------------------------------------
(* Pruning.                                                                *)

\* The state of the loop over subnets after n of them.
First(d, o) == [rows |-> Deleted(d, Surplus(d, o) \cap Inner), failed |-> FALSE]
Loop(d, o, order, f, m) ==
    f = [i \in 0..m |-> IF i = 0 THEN First(d, o) ELSE PruneSubnet(d, f[i - 1], order[i])]

\* There is such a function, whatever the length of the loop.
LEMMA LoopExists ==
    ASSUME NEW d, NEW o, NEW order, NEW m \in Nat
    PROVE  \E f : Loop(d, o, order, f, m)
<1> DEFINE T == {n \in Nat : ~ \E f : Loop(d, o, order, f, n)}
<1> SUFFICES ASSUME T # {} PROVE FALSE
  OBVIOUS
<1>1. PICK n \in T : \A l \in T : n <= l
  <2>1. T \in SUBSET Nat
    OBVIOUS
  <2> HIDE DEF T
  <2> QED
    BY <2>1, NatMinimum
<1>2. n \in Nat /\ ~ \E f : Loop(d, o, order, f, n)
  BY <1>1
<1>3. CASE n = 0
  <2> DEFINE f == [i \in 0..0 |-> First(d, o)]
  <2>1. Loop(d, o, order, f, 0)
    BY DEF Loop
  <2> QED
    BY <1>2, <1>3, <2>1
<1>4. CASE n # 0
  <2>1. n - 1 \in Nat /\ n - 1 \notin T
    BY <1>1, <1>2, <1>4
  <2>2. PICK g : Loop(d, o, order, g, n - 1)
    BY <2>1
  <2> DEFINE step(x, i) == PruneSubnet(d, x, order[i])
             f == [i \in 0..n |-> IF i = n THEN step(g[n - 1], n) ELSE g[i]]
             h == [i \in 0..n |-> IF i = 0 THEN First(d, o) ELSE step(f[i - 1], i)]
  <2>3. \A i \in 0..(n - 1) : g[i] = IF i = 0 THEN First(d, o) ELSE step(g[i - 1], i)
    BY <2>1, <2>2 DEF Loop
  <2> HIDE DEF step
  <2>4. ASSUME NEW i \in 0..n PROVE f[i] = h[i]
    <3>1. CASE i = n
      <4>1. f[n] = step(g[n - 1], n) /\ f[n - 1] = g[n - 1]
        BY <1>2, <1>4
      <4> QED
        BY <1>2, <1>4, <3>1, <4>1
    <3>2. CASE i # n /\ i # 0
      <4>1. i - 1 \in 0..n /\ i - 1 # n /\ i \in 0..(n - 1)
        BY <1>2, <3>2
      <4>2. f[i] = g[i] /\ f[i - 1] = g[i - 1]
        BY <3>2, <4>1
      <4> QED
        BY <2>3, <3>2, <4>1, <4>2
    <3>3. CASE i # n /\ i = 0
      BY <1>2, <2>3, <3>3
    <3> QED
      BY <3>1, <3>2, <3>3
  <2>5. f = h
    BY <2>4
  <2> USE DEF step
  <2>6. Loop(d, o, order, f, n)
    BY <2>5 DEF Loop
  <2> QED
    BY <1>2, <2>6
<1> QED
  BY <1>3, <1>4

\* What the loop has deleted after i of the subnets: nothing but surplus, and
\* all of what it has seen unless a deletion was refused.
Progress(d, o, order, i, st) ==
    /\ st \in [rows : Database, failed : BOOLEAN]
    /\ \E ks \in SUBSET (Surplus(d, o) \cap (Inner \cup Subnets)) :
          /\ st.rows = Deleted(d, ks)
          /\ ForeignKeys(st.rows)
          /\ ~st.failed => ks = (Surplus(d, o) \cap Inner) \cup {order[j] : j \in 1..i}

\* One more subnet: deleted, or refused with all that was deleted before.
LEMMA PruneSubnetProgress ==
    ASSUME NEW d \in Database, ForeignKeys(d), NEW o, NEW order,
           NEW i \in Nat \ {0}, order[i] \in Surplus(d, o) \cap Subnets,
           NEW st, Progress(d, o, order, i - 1, st)
    PROVE  Progress(d, o, order, i, PruneSubnet(d, st, order[i]))
<1> DEFINE s == order[i]
<1>1. PICK ks \in SUBSET (Surplus(d, o) \cap (Inner \cup Subnets)) :
          /\ st.rows = Deleted(d, ks)
          /\ ForeignKeys(st.rows)
          /\ ~st.failed => ks = (Surplus(d, o) \cap Inner) \cup {order[j] : j \in 1..(i - 1)}
  BY DEF Progress
<1>2. CASE Children(st.rows, s) # {}
  <2>1. PruneSubnet(d, st, s) = [rows |-> d, failed |-> TRUE]
    BY <1>2 DEF PruneSubnet
  <2>2. d = Deleted(d, {}) /\ {} \in SUBSET (Surplus(d, o) \cap (Inner \cup Subnets))
    BY DeletedNothing
  <2> QED
    BY <2>1, <2>2 DEF Progress
<1>3. CASE Children(st.rows, s) = {}
  <2> DEFINE more == ks \cup {s}
             rest == Deleted(st.rows, {s})
             next == PruneSubnet(d, st, s)
  <2>1. next = [rows |-> rest, failed |-> st.failed]
    BY <1>3 DEF PruneSubnet, Progress
  <2>2. rest = Deleted(d, more) /\ rest \in Database
    BY <1>1, DeletedTwice, DeletedFields
  <2>3. ForeignKeys(rest)
    BY <1>1, <1>3, DeletedKeys DEF Progress
  <2>4. more \in SUBSET (Surplus(d, o) \cap (Inner \cup Subnets))
    OBVIOUS
  <2>5. ~st.failed => more = (Surplus(d, o) \cap Inner) \cup {order[j] : j \in 1..i}
    <3>1. {order[j] : j \in 1..i} = {order[j] : j \in 1..(i - 1)} \cup {order[i]}
      OBVIOUS
    <3> QED
      BY <1>1, <3>1
  <2> HIDE DEF more, rest, next
  <2>6. st.failed \in BOOLEAN
    BY DEF Progress
  <2>7. Progress(d, o, order, i, next)
    BY <2>1, <2>2, <2>3, <2>4, <2>5, <2>6 DEF Progress
  <2> QED
    BY <2>7 DEF next
<1> QED
  BY <1>2, <1>3

\* The whole loop.
LEMMA AfterSubnetsProgress ==
    ASSUME NEW d \in Database, ForeignKeys(d), NEW o, NEW order,
           order \in Orders(Surplus(d, o) \cap Subnets)
    PROVE  Progress(d, o, order, Cardinality(Surplus(d, o) \cap Subnets), AfterSubnets(d, o, order))
<1> DEFINE m == Cardinality(Surplus(d, o) \cap Subnets)
<1>1. m \in Nat
  BY KindsAssumption, FS_Subset, FS_CardinalityType
<1> DEFINE f == CHOOSE g : Loop(d, o, order, g, m)
<1> HIDE DEF m
<1>2. Loop(d, o, order, f, m)
  BY <1>1, LoopExists
<1>3. AfterSubnets(d, o, order) = f[m]
  BY DEF AfterSubnets, Loop, First, m
<1> HIDE DEF f
<1>4. \A i \in 0..m : f[i] = IF i = 0 THEN First(d, o) ELSE PruneSubnet(d, f[i - 1], order[i])
  BY <1>2 DEF Loop
<1>5. \A i \in 1..m : order[i] \in Surplus(d, o) \cap Subnets
  BY DEF Orders, Bijection, Injection, m
<1> DEFINE T == {n \in Nat : n <= m /\ ~Progress(d, o, order, n, f[n])}
<1>6. T = {}
  <2> SUFFICES ASSUME T # {} PROVE FALSE
    OBVIOUS
  <2>1. PICK n \in T : \A l \in T : n <= l
    <3>1. T \in SUBSET Nat
      OBVIOUS
    <3> HIDE DEF T
    <3> QED
      BY <3>1, NatMinimum
  <2>2. n \in Nat /\ n <= m /\ ~Progress(d, o, order, n, f[n])
    BY <2>1
  <2>3. CASE n = 0
    <3> DEFINE ks == Surplus(d, o) \cap Inner
    <3>1. f[0] = [rows |-> Deleted(d, ks), failed |-> FALSE]
      <4>1. 0 \in 0..m
        BY <1>1
      <4>2. f[0] = First(d, o)
        BY <1>4, <4>1
      <4> QED
        BY <4>2 DEF First
    <3>2. ForeignKeys(Deleted(d, ks)) /\ Deleted(d, ks) \in Database
      BY Kinds, DeletedKeys, DeletedFields
    <3>3. {order[j] : j \in 1..0} = {}
      OBVIOUS
    <3>4. ks \in SUBSET (Surplus(d, o) \cap (Inner \cup Subnets))
      OBVIOUS
    <3>5. Progress(d, o, order, 0, f[0])
      BY <3>1, <3>2, <3>3, <3>4 DEF Progress
    <3> QED
      BY <2>2, <2>3, <3>5
  <2>4. CASE n # 0
    <3>1. n - 1 \in Nat /\ n - 1 \notin T /\ n \in 1..m /\ n \in 0..m
      BY <1>1, <2>1, <2>2, <2>4
    <3>2. Progress(d, o, order, n - 1, f[n - 1])
      BY <1>1, <2>2, <3>1
    <3>3. f[n] = PruneSubnet(d, f[n - 1], order[n])
      BY <1>4, <2>4, <3>1
    <3>4. n \in Nat \ {0} /\ order[n] \in Surplus(d, o) \cap Subnets
      BY <1>5, <3>1, <2>4
    <3>5. Progress(d, o, order, n, f[n])
      BY <3>2, <3>3, <3>4, PruneSubnetProgress
    <3> QED
      BY <2>2, <3>5
  <2> QED
    BY <2>3, <2>4
<1>7. Progress(d, o, order, m, f[m])
  BY <1>1, <1>6
<1> QED
  BY <1>3, <1>7 DEF m

\* What a prune leaves: the database without some of the surplus, all of it
\* unless it reports a failure.
LEMMA PrunedEffect ==
    ASSUME NEW d \in Database, ForeignKeys(d), NEW o, NEW order,
           order \in Orders(Surplus(d, o) \cap Subnets)
    PROVE  /\ Pruned(d, o, order).failed \in BOOLEAN
           /\ ForeignKeys(Pruned(d, o, order).rows)
           /\ \E ks \in SUBSET Surplus(d, o) :
                /\ Pruned(d, o, order).rows = Deleted(d, ks)
                /\ ~Pruned(d, o, order).failed => ks = Surplus(d, o)
<1> DEFINE m == Cardinality(Surplus(d, o) \cap Subnets)
           st == AfterSubnets(d, o, order)
           vs == Surplus(d, o) \cap Vlans
           rest == Deleted(st.rows, vs)
<1>1. Progress(d, o, order, m, st)
  BY AfterSubnetsProgress
<1>2. {order[j] : j \in 1..m} = Surplus(d, o) \cap Subnets
  BY DEF Orders, Bijection, Surjection
<1> HIDE DEF m, st
<1>3. Pruned(d, o, order) = [rows |-> rest, failed |-> st.failed]
  BY <1>1 DEF Progress, Pruned, st
<1>4. PICK ks \in SUBSET (Surplus(d, o) \cap (Inner \cup Subnets)) :
          /\ st.rows = Deleted(d, ks)
          /\ ForeignKeys(st.rows)
          /\ ~st.failed => ks = (Surplus(d, o) \cap Inner) \cup (Surplus(d, o) \cap Subnets)
  BY <1>1, <1>2 DEF Progress
<1>5. rest = Deleted(d, ks \cup vs)
  BY <1>4, DeletedTwice
<1>6. ForeignKeys(rest)
  <2>1. vs \cap Subnets = {} /\ st.rows \in Database
    BY <1>1, Kinds DEF Progress
  <2> QED
    BY <1>4, <2>1, DeletedKeys
<1>7. Surplus(d, o) = (Surplus(d, o) \cap Inner) \cup (Surplus(d, o) \cap Subnets) \cup vs
  BY Kinds, DatabaseFields DEF Surplus
<1>8. st.failed \in BOOLEAN
  BY <1>1 DEF Progress
<1> HIDE DEF rest
<1>9. ks \cup vs \in SUBSET Surplus(d, o)
  OBVIOUS
<1>10. ~st.failed => ks \cup vs = Surplus(d, o)
  BY <1>4, <1>7
<1> QED
  BY <1>3, <1>5, <1>6, <1>8, <1>9, <1>10

-----------------------------------------------------------------------------
(* The other transactions of an apply.                                     *)

\* What a document holds.
LEMMA DocFields ==
    ASSUME NEW o \in Docs
    PROVE  /\ o.source \in Source /\ o.source # Nobody
           /\ o.keys \in SUBSET Key
           /\ o.up \in [Subnets -> Subnets \cup {Null, Unset}]
           /\ \A r \in o.keys \cap Ranges : Home[r] \in o.keys
  BY ModelAssumption, KindsAssumption DEF Doc

\* Tagging rows changes the tags of those that exist, and nothing else.
LEMMA TaggedEffect ==
    ASSUME NEW d \in Database, NEW ks, NEW source \in Source
    PROVE  /\ Tagged(d, ks, source) \in Database
           /\ Tagged(d, ks, source).present = d.present
           /\ Tagged(d, ks, source).up = d.up
           /\ \A k \in Key : Tagged(d, ks, source).tag[k] =
                               IF k \in ks \cap d.present THEN source ELSE d.tag[k]
           /\ ForeignKeys(d) => ForeignKeys(Tagged(d, ks, source))
<1> DEFINE tag == [k \in Key |-> IF k \in ks \cap d.present THEN source ELSE d.tag[k]]
           e == [present |-> d.present, tag |-> tag, up |-> d.up]
<1>1. Tagged(d, ks, source) = e
  BY DEF Tagged, Database
<1>2. tag \in [Key -> Source \cup {Nobody}]
  BY DatabaseFields
<1>3. \A k \in Key : tag[k] = IF k \in ks \cap d.present THEN source ELSE d.tag[k]
  OBVIOUS
<1> HIDE DEF tag
<1>4. e \in Database
  BY <1>2, DatabaseFields DEF Database
<1>5. ForeignKeys(d) => ForeignKeys(e)
  BY <1>3 DEF ForeignKeys
<1> QED
  BY <1>1, <1>3, <1>4, <1>5

\* The database with the row of an allocation.
Allocated(d, ks, source, h) == [Tagged(d, ks, source) EXCEPT !.present = @ \cup {h}]

LEMMA AllocatedEffect ==
    ASSUME NEW d \in Database, NEW ks, NEW source \in Source, NEW h \in Hosts
    PROVE  /\ Allocated(d, ks, source, h) \in Database
           /\ \A k : k \in Allocated(d, ks, source, h).present <=> k \in d.present \/ k = h
           /\ Allocated(d, ks, source, h).up = d.up
           /\ \A k \in Key : Allocated(d, ks, source, h).tag[k] =
                               IF k \in ks \cap d.present THEN source ELSE d.tag[k]
<1> DEFINE t == Tagged(d, ks, source)
           e == [present |-> d.present \cup {h}, tag |-> t.tag, up |-> d.up]
<1>1. /\ t \in Database /\ t.present = d.present /\ t.up = d.up
      /\ \A k \in Key : t.tag[k] = IF k \in ks \cap d.present THEN source ELSE d.tag[k]
  BY TaggedEffect
<1> HIDE DEF t
<1>2. Allocated(d, ks, source, h) = e
  BY <1>1 DEF Allocated, Database, t
<1>3. e \in Database
  BY <1>1 DEF Database, Key
<1>4. e.present = d.present \cup {h} /\ e.up = d.up /\ e.tag = t.tag
  OBVIOUS
<1> HIDE DEF e
<1> QED
  BY <1>1, <1>2, <1>3, <1>4

\* The row is in a subnet that exists, so the foreign keys still hold.
LEMMA AllocatedKeys ==
    ASSUME NEW d \in Database, NEW ks, NEW source \in Source, NEW h \in Hosts,
           ForeignKeys(d), Home[h] \in d.present
    PROVE  ForeignKeys(Allocated(d, ks, source, h))
<1> DEFINE e == Allocated(d, ks, source, h)
<1>1. /\ \A k : k \in e.present <=> k \in d.present \/ k = h
      /\ e.up = d.up
      /\ \A k \in Key : e.tag[k] = IF k \in ks \cap d.present THEN source ELSE d.tag[k]
  BY AllocatedEffect
<1> HIDE DEF e
<1>2. h \in Inner /\ h \notin Subnets
  BY Kinds DEF Inner
<1>3. \A k \in Inner \cap e.present : Home[k] \in e.present
  BY <1>1 DEF ForeignKeys
<1>4. \A s \in Subnets \cap e.present : e.up[s] \in e.present \cup {NoParent}
  BY <1>1, <1>2 DEF ForeignKeys
<1>5. \A k \in Key \ e.present : e.tag[k] = Nobody /\ (k \in Subnets => e.up[k] = NoParent)
  BY <1>1 DEF ForeignKeys
<1> QED
  BY <1>3, <1>4, <1>5 DEF ForeignKeys, e

\* Creating what a document lists but its allocations.
LEMMA MadeEffect ==
    ASSUME NEW d \in Database, NEW o \in Docs
    PROVE  /\ Made(d, o) \in Database
           /\ Made(d, o).present = d.present \cup (o.keys \ Hosts)
           /\ \A k \in Key : Made(d, o).tag[k] =
                               IF k \in o.keys \ Hosts THEN o.source ELSE d.tag[k]
           /\ \A s \in Subnets : Made(d, o).up[s] =
                               IF s \in o.keys THEN NewParent(d, o, s) ELSE d.up[s]
           /\ ForeignKeys(d) => ForeignKeys(Made(d, o))
<1> DEFINE ks == o.keys \ Hosts
           up == [s \in Subnets |-> IF s \in ks THEN NewParent(d, o, s) ELSE d.up[s]]
           rows == [present |-> d.present \cup ks, tag |-> d.tag, up |-> up]
           e == Tagged(rows, ks, o.source)
<1>d. /\ d.present \in SUBSET Key
      /\ d.tag \in [Key -> Source \cup {Nobody}]
      /\ d.up \in [Subnets -> Subnets \cup {NoParent}]
  BY DatabaseFields
<1>o. /\ o.source \in Source /\ o.keys \in SUBSET Key
      /\ o.up \in [Subnets -> Subnets \cup {Null, Unset}]
      /\ \A r \in o.keys \cap Ranges : Home[r] \in o.keys
  BY DocFields
<1>1. Made(d, o) = e
  <2>1. rows = [d EXCEPT !.present = @ \cup ks,
                         !.up = [s \in Subnets |-> IF s \in ks THEN NewParent(d, o, s) ELSE @[s]]]
    <3> DEFINE x == [d EXCEPT !.present = @ \cup ks]
    <3>1. x = [present |-> d.present \cup ks, tag |-> d.tag, up |-> d.up]
      BY DEF Database
    <3> HIDE DEF x
    <3>2. rows = [x EXCEPT !.up = [s \in Subnets |-> IF s \in ks THEN NewParent(d, o, s) ELSE @[s]]]
      BY <3>1
    <3> QED
      BY <3>2 DEF x
  <2> QED
    BY <2>1 DEF Made
<1>2. ASSUME NEW s \in Subnets
      PROVE  /\ NewParent(d, o, s) \in Subnets \cup {NoParent}
             /\ NewParent(d, o, s) \in {d.up[s], NoParent} \cup (Subnets \cap (d.present \cup o.keys))
  BY <1>d, <1>o, Kinds DEF NewParent, FoundParent
<1>3. up \in [Subnets -> Subnets \cup {NoParent}]
  BY <1>2, <1>d
<1>4. \A s \in Subnets : up[s] = IF s \in o.keys THEN NewParent(d, o, s) ELSE d.up[s]
  BY Kinds DEF Inner
<1> HIDE DEF up
<1>5. rows \in Database
  BY <1>3, <1>d, <1>o DEF Database
<1>r. rows.present = d.present \cup ks /\ rows.tag = d.tag /\ rows.up = up
  OBVIOUS
<1> HIDE DEF rows, ks
<1>6. /\ e \in Database /\ e.present = rows.present /\ e.up = rows.up
      /\ \A k \in Key : e.tag[k] = IF k \in ks \cap rows.present THEN o.source ELSE rows.tag[k]
  BY <1>5, <1>o, TaggedEffect
<1> HIDE DEF e
<1> USE <1>r DEF ks
<1>7. ASSUME ForeignKeys(d) PROVE ForeignKeys(e)
  <2>1. \A k \in Inner \cap e.present : Home[k] \in e.present
    BY <1>6, <1>7, <1>o, Kinds DEF ForeignKeys, Inner
  <2>2. ASSUME NEW s \in Subnets \cap e.present
        PROVE  e.up[s] \in e.present \cup {NoParent}
    <3>1. CASE s \in o.keys
      <4>1. e.up[s] = NewParent(d, o, s)
        BY <1>4, <1>6, <3>1
      <4>2. d.up[s] \in d.present \cup {NoParent}
        BY <1>7, Kinds DEF ForeignKeys
      <4>3. \A t \in Subnets \cap o.keys : t \in e.present
        BY <1>6, Kinds DEF Inner
      <4> QED
        BY <1>2, <1>6, <4>1, <4>2, <4>3
    <3>2. CASE s \notin o.keys
      BY <1>4, <1>6, <1>7, <2>2, <3>2 DEF ForeignKeys
    <3> QED
      BY <3>1, <3>2
  <2>3. \A k \in Key \ e.present : e.tag[k] = Nobody /\ (k \in Subnets => e.up[k] = NoParent)
    BY <1>4, <1>6, <1>7, Kinds DEF ForeignKeys, Inner
  <2> QED
    BY <2>1, <2>2, <2>3 DEF ForeignKeys
<1> QED
  BY <1>1, <1>4, <1>6, <1>7

-----------------------------------------------------------------------------
(* A transaction stays home.                                               *)

\* What a transaction from database d to e may do for document o.
StaysHome(d, e, o) ==
    e # d =>
        /\ ~Settled(d, o)
        /\ \A k \in d.present \ e.present :
              \/ d.tag[k] = o.source /\ k \notin o.keys
              \/ k \in Inner /\ Home[k] \notin e.present /\ d.tag[Home[k]] = o.source
        /\ \A k \in e.present \ o.keys :
              e.tag[k] = d.tag[k] /\ (k \in Subnets => e.up[k] = d.up[k])

\* A settled database has every row of the document, tagged, nothing else of
\* its source, and the parents that the document names.
LEMMA SettledFacts ==
    ASSUME NEW d \in Database, NEW o \in Docs
    PROVE  Settled(d, o) <=>
             /\ o.keys \subseteq d.present
             /\ Surplus(d, o) = {}
             /\ \A k \in o.keys : d.tag[k] = o.source
             /\ \A s \in Subnets \cap o.keys :
                   o.up[s] \in Subnets =>
                      d.up[s] = IF o.up[s] \in d.present THEN o.up[s] ELSE NoParent
<1>1. /\ o.keys \in SUBSET Key /\ o.up \in [Subnets -> Subnets \cup {Null, Unset}]
  BY DocFields
<1>2. Unset \notin Subnets /\ Null \notin Subnets
  BY Kinds
<1>3. o.keys \subseteq d.present <=> Plan(d, o).create = {}
  BY DEF Plan
<1>4. ASSUME o.keys \subseteq d.present
      PROVE  (\A s \in Plan(d, o).update : o.up[s] = Null) <=>
             \A s \in Subnets \cap o.keys :
                   o.up[s] \in Subnets =>
                      d.up[s] = IF o.up[s] \in d.present THEN o.up[s] ELSE NoParent
  <2>1. Plan(d, o).update =
          {s \in Subnets \cap o.keys \cap d.present :
             /\ o.up[s] # Unset
             /\ d.up[s] # IF o.up[s] \in d.present THEN o.up[s] ELSE NoParent}
    BY DEF Plan
  <2> QED
    BY <1>1, <1>2, <1>4, <2>1
<1>5. Plan(d, o).prune = Surplus(d, o)
  BY DEF Plan
<1> QED
  BY <1>3, <1>4, <1>5 DEF Settled

\* Creating rows.
LEMMA MadeStaysHome ==
    ASSUME NEW d \in Database, NEW o \in Docs
    PROVE  StaysHome(d, Made(d, o), o)
<1> DEFINE e == Made(d, o)
<1>1. /\ e \in Database /\ e.present = d.present \cup (o.keys \ Hosts)
      /\ \A k \in Key : e.tag[k] = IF k \in o.keys \ Hosts THEN o.source ELSE d.tag[k]
      /\ \A s \in Subnets : e.up[s] = IF s \in o.keys THEN NewParent(d, o, s) ELSE d.up[s]
  BY MadeEffect
<1> HIDE DEF e
<1>2. ASSUME Settled(d, o) PROVE e = d
  <2>1. /\ o.keys \subseteq d.present
        /\ \A k \in o.keys : d.tag[k] = o.source
        /\ \A s \in Subnets \cap o.keys :
              o.up[s] \in Subnets =>
                 d.up[s] = IF o.up[s] \in d.present THEN o.up[s] ELSE NoParent
    BY <1>2, SettledFacts
  <2>2. ASSUME NEW s \in Subnets \cap o.keys PROVE NewParent(d, o, s) = d.up[s]
    BY <2>1 DEF NewParent, FoundParent
  <2>3. /\ e.present = d.present
        /\ \A k \in Key : e.tag[k] = d.tag[k]
        /\ \A s \in Subnets : e.up[s] = d.up[s]
    BY <1>1, <2>1, <2>2
  <2> QED
    BY <1>1, <2>3, DatabaseEqual
<1>3. e.present \subseteq Key
  BY <1>1, DatabaseFields
<1> QED
  BY <1>1, <1>2, <1>3 DEF StaysHome, e

\* Tagging rows that the document lists, and allocating one of them.
LEMMA TaggedStaysHome ==
    ASSUME NEW d \in Database, NEW o \in Docs, NEW ks \in SUBSET o.keys
    PROVE  StaysHome(d, Tagged(d, ks, o.source), o)
<1> DEFINE e == Tagged(d, ks, o.source)
<1>1. /\ e \in Database /\ e.present = d.present /\ e.up = d.up
      /\ \A k \in Key : e.tag[k] = IF k \in ks \cap d.present THEN o.source ELSE d.tag[k]
  BY TaggedEffect, DocFields
<1> HIDE DEF e
<1>2. Settled(d, o) => e = d
  BY <1>1, SettledFacts, DatabaseEqual
<1>3. e.present \subseteq Key
  BY <1>1, DatabaseFields
<1> QED
  BY <1>1, <1>2, <1>3 DEF StaysHome, e

LEMMA AllocatedStaysHome ==
    ASSUME NEW d \in Database, NEW o \in Docs, NEW ks \in SUBSET o.keys,
           NEW h \in Hosts, h \in o.keys
    PROVE  StaysHome(d, Allocated(d, ks, o.source, h), o)
<1> DEFINE src == o.source
           e == Allocated(d, ks, src, h)
<1>0. src \in Source
  BY DocFields
<1> HIDE DEF src
<1>e. e \in Database
  BY <1>0, AllocatedEffect
<1>f. e.up = d.up /\ \A k : k \in e.present <=> k \in d.present \/ k = h
  BY <1>0, AllocatedEffect
<1>g. \A k \in Key : e.tag[k] = IF k \in ks \cap d.present THEN src ELSE d.tag[k]
  BY <1>0, AllocatedEffect
<1>1. e \in Database /\ e.present = d.present \cup {h} /\ e.up = d.up
  BY <1>e, <1>f
<1> HIDE DEF e
<1>2. ASSUME Settled(d, o) PROVE e = d
  <2>1. h \in d.present /\ \A k \in ks : d.tag[k] = src
    BY <1>2, SettledFacts DEF src
  <2>2. e.present = d.present /\ \A k \in Key : e.tag[k] = d.tag[k]
    BY <1>1, <1>g, <2>1
  <2> QED
    BY <1>1, <2>2, DatabaseEqual
<1>3. e.present \subseteq Key
  BY <1>1, DatabaseFields
<1>4. StaysHome(d, e, o)
  BY <1>1, <1>g, <1>2, <1>3 DEF StaysHome
<1> QED
  BY <1>4 DEF e, src

\* Deleting some of the surplus.
LEMMA DeletedStaysHome ==
    ASSUME NEW d \in Database, NEW o \in Docs, NEW ks \in SUBSET Surplus(d, o)
    PROVE  StaysHome(d, Deleted(d, ks), o)
<1> DEFINE e == Deleted(d, ks)
<1>1. /\ e \in Database
      /\ e.present = d.present \ With(ks)
      /\ \A k \in Key : e.tag[k] = IF k \in With(ks) THEN Nobody ELSE d.tag[k]
      /\ \A s \in Subnets : e.up[s] = IF s \in With(ks) THEN NoParent ELSE d.up[s]
  BY DeletedFields
<1>2. Settled(d, o) => ks = {}
  BY SettledFacts
<1>3. Settled(d, o) => e = d
  BY <1>2, DeletedNothing
<1> HIDE DEF e
<1>4. ASSUME NEW k \in d.present \ e.present
      PROVE  \/ d.tag[k] = o.source /\ k \notin o.keys
             \/ k \in Inner /\ Home[k] \notin e.present /\ d.tag[Home[k]] = o.source
  <2>1. k \in With(ks)
    BY <1>1, <1>4
  <2>2. CASE k \in ks
    BY <2>2 DEF Surplus
  <2>3. CASE k \in Inner /\ Home[k] \in ks
    BY <1>1, <2>3 DEF Surplus, With
  <2> QED
    BY <2>1, <2>2, <2>3 DEF With
<1>5. e.present \subseteq Key
  BY <1>1, DatabaseFields
<1> QED
  BY <1>1, <1>3, <1>4, <1>5 DEF StaysHome, e

-----------------------------------------------------------------------------
(* Type correctness and the foreign keys.                                  *)

\* The tables alone.
TablesOK == db \in Database /\ ForeignKeys(db)

\* Each transaction of an apply and each edit by hand keeps the tables.
LEMMA TablesCreate ==
    ASSUME TypeOK, NEW w \in Worker, Create(w)
    PROVE  TablesOK'
<1>1. doc[w] \in Docs /\ db \in Database /\ ForeignKeys(db)
  BY DEF TypeOK
<1> QED
  BY <1>1, MadeEffect DEF Create, TablesOK

LEMMA TablesAllocate ==
    ASSUME TypeOK, NEW w \in Worker, NEW h \in Hosts, AllocateOne(w, h)
    PROVE  TablesOK'
<1>1. doc[w].source \in Source /\ db \in Database /\ ForeignKeys(db)
  BY DocFields DEF TypeOK
<1>2. CASE Home[h] \in db.present
  <2>1. db' = Allocated(db, pending[w], doc[w].source, h)
    BY <1>2 DEF AllocateOne, Allocated
  <2> DEFINE source == doc[w].source
             ks == pending[w]
  <2>s. source \in Source /\ ks \in SUBSET Hosts
    BY <1>1 DEF TypeOK
  <2> HIDE DEF source, ks
  <2>2. Allocated(db, ks, source, h) \in Database
    BY <1>1, <2>s, AllocatedEffect
  <2>3. ForeignKeys(Allocated(db, ks, source, h))
    BY <1>1, <1>2, <2>s, AllocatedKeys
  <2> USE DEF source, ks
  <2> QED
    BY <2>1, <2>2, <2>3 DEF TablesOK
<1>3. CASE Home[h] \notin db.present
  BY <1>1, <1>3 DEF AllocateOne, TablesOK
<1> QED
  BY <1>2, <1>3

LEMMA TablesCommitTags ==
    ASSUME TypeOK, NEW w \in Worker, CommitTags(w)
    PROVE  TablesOK'
<1>1. doc[w].source \in Source /\ db \in Database /\ ForeignKeys(db)
  BY DocFields DEF TypeOK
<1> QED
  BY <1>1, TaggedEffect DEF CommitTags, WithLastTag, TablesOK

LEMMA TablesPrune ==
    ASSUME TypeOK, NEW w \in Worker, Prune(w)
    PROVE  /\ TablesOK'
           /\ errors' \in [Worker -> BOOLEAN]
           /\ \E ks \in SUBSET Surplus(db, doc[w]) :
                 /\ db' = Deleted(db, ks)
                 /\ ~errors'[w] => ks = Surplus(db, doc[w])
<1> DEFINE o == doc[w]
<1>1. db \in Database /\ ForeignKeys(db) /\ errors \in [Worker -> BOOLEAN]
  BY DEF TypeOK
<1>2. PICK order \in Orders(Surplus(db, o) \cap Subnets) :
         /\ db' = Pruned(db, o, order).rows
         /\ errors' = [errors EXCEPT ![w] = @ \/ Pruned(db, o, order).failed]
  BY DEF Prune
<1> DEFINE result == Pruned(db, o, order)
<1>3. /\ result.failed \in BOOLEAN
      /\ ForeignKeys(result.rows)
      /\ \E ks \in SUBSET Surplus(db, o) :
            /\ result.rows = Deleted(db, ks)
            /\ ~result.failed => ks = Surplus(db, o)
  BY <1>1, PrunedEffect
<1>4. db' = result.rows /\ errors' = [errors EXCEPT ![w] = @ \/ result.failed]
  BY <1>2
<1> HIDE DEF o, result
<1>5. PICK ks \in SUBSET Surplus(db, o) :
            /\ result.rows = Deleted(db, ks)
            /\ ~result.failed => ks = Surplus(db, o)
  BY <1>3
<1>6. TablesOK'
  BY <1>1, <1>3, <1>4, <1>5, DeletedFields DEF TablesOK
<1>7. errors' \in [Worker -> BOOLEAN] /\ (errors'[w] <=> errors[w] \/ result.failed)
  BY <1>1, <1>3, <1>4
<1>8. db' = Deleted(db, ks) /\ (~errors'[w] => ks = Surplus(db, o))
  BY <1>4, <1>5, <1>7
<1> QED
  BY <1>6, <1>7, <1>8 DEF o

LEMMA TablesEdit ==
    ASSUME TypeOK, NEW k \in Editable, Edit(k)
    PROVE  TablesOK'
<1>1. /\ db \in Database /\ ForeignKeys(db) /\ k \in Key
      /\ db.present \in SUBSET Key
      /\ db.tag \in [Key -> Source \cup {Nobody}]
      /\ db.up \in [Subnets -> Subnets \cup {NoParent}]
  BY ModelAssumption, DatabaseFields DEF TypeOK
<1>2. CASE k \in db.present
  <2>1. db' = Deleted(db, {k}) /\ (k \in Subnets => Children(db, k) = {})
    BY <1>2 DEF Edit
  <2> QED
    BY <1>1, <2>1, DeletedFields, DeletedKeys DEF TablesOK
<1>3. CASE k \notin db.present
  <2>1. PICK p \in {NoParent} \cup {s \in db.present \cap Subnets :
                                     k \in Subnets /\ PrefixLen[s] < PrefixLen[k]} :
           db' = [db EXCEPT !.present = @ \cup {k},
                            !.up = [s \in Subnets |-> IF s = k THEN p ELSE @[s]]]
    BY <1>3 DEF Edit
  <2>2. k \in Inner => Home[k] \in db.present
    BY <1>3 DEF Edit
  <2> DEFINE x == [db EXCEPT !.present = @ \cup {k}]
             up == [s \in Subnets |-> IF s = k THEN p ELSE db.up[s]]
  <2>3. x = [present |-> db.present \cup {k}, tag |-> db.tag, up |-> db.up]
    BY <1>1 DEF Database
  <2>4. db' = [x EXCEPT !.up = [s \in Subnets |-> IF s = k THEN p ELSE @[s]]]
    BY <2>1
  <2> HIDE DEF x
  <2>5. db' = [present |-> db.present \cup {k}, tag |-> db.tag, up |-> up]
    BY <2>3, <2>4
  <2>6. up \in [Subnets -> Subnets \cup {NoParent}]
    BY <1>1
  <2>7. \A s \in Subnets : up[s] = IF s = k THEN p ELSE db.up[s]
    OBVIOUS
  <2>8. \A s \in Subnets \cap db'.present : db'.up[s] \in db'.present \cup {NoParent}
    BY <1>1, <2>5, <2>7 DEF ForeignKeys
  <2> HIDE DEF up
  <2>9. db' \in Database
    BY <1>1, <2>5, <2>6 DEF Database
  <2>10. \A i \in Inner \cap db'.present : Home[i] \in db'.present
    BY <1>1, <2>2, <2>5 DEF ForeignKeys
  <2>11. \A i \in Key \ db'.present : db'.tag[i] = Nobody /\ (i \in Subnets => db'.up[i] = NoParent)
    BY <1>1, <2>5, <2>7 DEF ForeignKeys
  <2> QED
    BY <2>8, <2>9, <2>10, <2>11 DEF ForeignKeys, TablesOK
<1> QED
  BY <1>2, <1>3

\* The apply of a worker, between its transactions.
LEMMA TypesWork ==
    ASSUME TypeOK, NEW w \in Worker,
           Work(w) \/ Fail(w) \/ \E h \in Hosts : AllocateFails(w, h)
    PROVE  TypeOK'
<1>e. Cardinality({}) = 0 /\ \A h : Cardinality({h}) = 1
  BY FS_EmptySet, FS_Singleton, Zenon
<1>o. doc[w] \in Docs /\ goal \in Docs /\ goal.keys \cap Hosts \in SUBSET Hosts
  BY DEF TypeOK
<1>1. CASE Begin(w)
  BY <1>1, <1>e, <1>o DEF Begin, Goto, TypeOK, bounds
<1>2. CASE Create(w)
  BY <1>2, TablesCreate DEF Create, Goto, Alone, TypeOK, TablesOK, bounds, local
<1>3. ASSUME NEW h \in Hosts, AllocateOne(w, h) PROVE TypeOK'
  <2>1. TablesOK'
    BY <1>3, TablesAllocate
  <2>2. pending' \in [Worker -> SUBSET Hosts] /\ \A x \in Worker : Cardinality(pending'[x]) <= 1
    <3>1. \A x \in Worker : pending'[x] = pending[x] \/ pending'[x] = {h}
      BY <1>3 DEF AllocateOne, TypeOK
    <3>2. pending' \in [Worker -> SUBSET Hosts]
      BY <1>3 DEF AllocateOne, TypeOK
    <3>3. \A x \in Worker : Cardinality(pending[x]) <= 1
      BY DEF TypeOK
    <3>4. Cardinality({h}) = 1
      BY <1>e, Zenon
    <3> QED
      BY <3>1, <3>2, <3>3, <3>4
  <2> QED
    BY <1>3, <2>1, <2>2 DEF AllocateOne, Alone, TypeOK, TablesOK, bounds
<1>4. CASE CommitTags(w)
  <2>1. TablesOK'
    BY <1>4, TablesCommitTags
  <2>2. pending' \in [Worker -> SUBSET Hosts] /\ \A x \in Worker : Cardinality(pending'[x]) <= 1
    <3>1. \A x \in Worker : pending'[x] = pending[x] \/ pending'[x] = {}
      BY <1>4 DEF CommitTags, TypeOK
    <3>2. pending' \in [Worker -> SUBSET Hosts]
      BY <1>4 DEF CommitTags, TypeOK
    <3>3. \A x \in Worker : Cardinality(pending[x]) <= 1
      BY DEF TypeOK
    <3> QED
      BY <1>e, <3>1, <3>2, <3>3
  <2> QED
    BY <1>4, <2>1, <2>2 DEF CommitTags, Goto, Alone, TypeOK, TablesOK, bounds
<1>5. CASE Prune(w)
  BY <1>5, TablesPrune DEF Prune, Goto, Alone, TypeOK, TablesOK, bounds
<1>6. CASE Fail(w)
  BY <1>6 DEF Fail, Goto, Upset, TypeOK
<1>7. ASSUME NEW h \in Hosts, AllocateFails(w, h) PROVE TypeOK'
  BY <1>7, <1>e DEF AllocateFails, Upset, TypeOK
<1> QED
  BY <1>1, <1>2, <1>3, <1>4, <1>5, <1>6, <1>7 DEF Work

LEMMA TypesNext == TypeOK /\ [Next]_vars => TypeOK'
<1> SUFFICES ASSUME TypeOK, [Next]_vars PROVE TypeOK'
  OBVIOUS
<1>1. CASE \E w \in Worker : Work(w) \/ Fail(w) \/ \E h \in Hosts : AllocateFails(w, h)
  BY <1>1, TypesWork
<1>2. CASE Crash
  BY <1>2 DEF Crash, Upset, TypeOK
<1>3. ASSUME NEW o \in Docs, Push(o) PROVE TypeOK'
  BY <1>3 DEF Push, TypeOK, local
<1>4. ASSUME NEW k \in Editable, Edit(k) PROVE TypeOK'
  BY <1>4, TablesEdit DEF Edit, TypeOK, TablesOK, local
<1>5. CASE UNCHANGED vars
  BY <1>5 DEF vars, TypeOK, local, bounds
<1> QED
  BY <1>1, <1>2, <1>3, <1>4, <1>5 DEF Next

LEMMA TypesInit == Init => TypeOK
  BY FS_EmptySet, ModelAssumption DEF Init, TypeOK

\* The tables keep their foreign keys through any interleaving of applies,
\* edits, failures and restarts, although the prune deletes subnets one by one.
THEOREM GitopsTypes == Spec => []TypeOK
  BY TypesInit, TypesNext, PTL DEF Spec

-----------------------------------------------------------------------------
(* What an apply has done so far.                                          *)

\* Everything but the allocations is there and tagged, and a subnet has its
\* parent if that is made before it.
Grown(w) ==
    LET o == doc[w] IN
    /\ \A k \in o.keys \ Hosts : k \in db.present /\ db.tag[k] = o.source
    /\ \A s \in Subnets \cap o.keys :
         o.up[s] \in Subnets \cap o.keys /\ PrefixLen[o.up[s]] < PrefixLen[s]
         => db.up[s] = o.up[s]

\* Allocations it has looked at are tagged, or their tag is pending, or lost.
Looked(w) ==
    LET wanted == Hosts \cap doc[w].keys IN
    /\ \A h \in (wanted \cap db.present) \ (todo[w] \cup lost[w]) :
         db.tag[h] = doc[w].source \/ h \in pending[w]
    /\ ~errors[w] => lost[w] = {} /\ wanted \subseteq db.present \cup todo[w]

\* The state of one worker.
Follows(w) ==
    /\ todo[w] \cup pending[w] \subseteq doc[w].keys
    /\ pc[w] = "create" =>
         todo[w] = doc[w].keys \cap Hosts /\ pending[w] = {} /\ ~errors[w] /\ lost[w] = {}
    /\ pc[w] = "prune" => todo[w] = {} /\ pending[w] = {}
    /\ alone[w] /\ pc[w] \in {"allocate", "prune"} => Grown(w) /\ Looked(w)

GitopsInv == TypeOK /\ upsets \in Nat /\ \A w \in Worker : Follows(w)

\* A worker that a step leaves where it is, or stops.
LEMMA FollowsFrame ==
    ASSUME NEW w \in Worker, Follows(w),
           doc'[w] = doc[w], todo'[w] = todo[w], pending'[w] = pending[w],
           \/ pc'[w] = "idle"
           \/ /\ pc'[w] = pc[w] /\ errors'[w] = errors[w] /\ lost'[w] = lost[w]
              /\ alone'[w] => alone[w] /\ db' = db
    PROVE  Follows(w)'
<1>1. CASE pc'[w] = "idle"
  BY <1>1 DEF Follows
<1>2. CASE /\ pc'[w] = pc[w] /\ errors'[w] = errors[w] /\ lost'[w] = lost[w]
           /\ alone'[w] => alone[w] /\ db' = db
  <2>1. CASE alone'[w]
    BY <1>2, <2>1 DEF Follows, Grown, Looked
  <2>2. CASE ~alone'[w]
    BY <1>2, <2>2 DEF Follows
  <2> QED
    BY <2>1, <2>2
<1> QED
  BY <1>1, <1>2

LEMMA FollowsBegin ==
    ASSUME TypeOK, NEW w \in Worker, Begin(w)
    PROVE  Follows(w)'
<1>1. /\ pc'[w] = "create" /\ doc'[w] = goal /\ todo'[w] = goal.keys \cap Hosts
      /\ pending'[w] = {} /\ errors'[w] = FALSE /\ lost'[w] = {}
  BY DEF Begin, Goto, TypeOK
<1> QED
  BY <1>1 DEF Follows

LEMMA FollowsCreate ==
    ASSUME TypeOK, NEW w \in Worker, Follows(w), Create(w)
    PROVE  Follows(w)'
<1> DEFINE o == doc[w]
<1>1. /\ pc[w] = "create" /\ pc'[w] = "allocate" /\ doc' = doc /\ todo' = todo
      /\ pending' = pending /\ errors' = errors /\ lost' = lost
      /\ db' = Made(db, o)
  BY DEF Create, Goto, TypeOK, local
<1>2. db \in Database /\ o \in Docs
  BY DEF TypeOK
<1>3. o.keys \in SUBSET Key /\ o.up \in [Subnets -> Subnets \cup {Null, Unset}]
  BY <1>2, DocFields
<1>4. /\ db'.present = db.present \cup (o.keys \ Hosts)
      /\ \A k \in Key : db'.tag[k] = IF k \in o.keys \ Hosts THEN o.source ELSE db.tag[k]
      /\ \A s \in Subnets : db'.up[s] = IF s \in o.keys THEN NewParent(db, o, s) ELSE db.up[s]
  BY <1>1, <1>2, MadeEffect
<1>5. \A s \in Subnets \cap o.keys :
         o.up[s] \in Subnets \cap o.keys /\ PrefixLen[o.up[s]] < PrefixLen[s]
         => NewParent(db, o, s) = o.up[s]
  BY DEF NewParent, FoundParent
<1> HIDE DEF o
<1>6. Grown(w)'
  BY <1>1, <1>3, <1>4, <1>5 DEF Grown, o
<1>7. Looked(w)'
  BY <1>1 DEF Looked, Follows
<1> QED
  BY <1>1, <1>6, <1>7 DEF Follows

\* Tags and rows added for the document undo nothing.
LEMMA GrownFrame ==
    ASSUME NEW w \in Worker, Grown(w), db \in Database, doc[w] \in Docs, doc'[w] = doc[w],
           \A k \in db.present : k \in db'.present,
           \A k \in Key : db.tag[k] = doc[w].source => db'.tag[k] = doc[w].source,
           db'.up = db.up
    PROVE  Grown(w)'
<1>1. doc[w].keys \in SUBSET Key
  BY DocFields
<1> QED
  BY <1>1 DEF Grown

LEMMA FollowsAllocateOne ==
    ASSUME TypeOK, NEW w \in Worker, Follows(w), NEW h \in Hosts, AllocateOne(w, h)
    PROVE  Follows(w)'
<1> DEFINE o == doc[w]
           ks == pending[w]
           src == o.source
<1>1. /\ pc[w] = "allocate" /\ pc'[w] = pc[w] /\ doc' = doc /\ h \in todo[w]
      /\ todo'[w] = todo[w] \ {h} /\ lost' = lost /\ (alone'[w] => alone[w])
  BY DEF AllocateOne, Alone, TypeOK
<1>2. db \in Database /\ ForeignKeys(db) /\ o \in Docs /\ src \in Source /\ o.keys \in SUBSET Key
  BY DocFields DEF TypeOK
<1>3. CASE Home[h] \in db.present
  <2>1. db' = Allocated(db, ks, src, h)
    BY <1>3 DEF AllocateOne, Allocated
  <2>2. pending'[w] = {h} /\ errors' = errors
    BY <1>3 DEF AllocateOne, TypeOK
  <2> HIDE DEF ks, src
  <2>e. /\ \A k : k \in Allocated(db, ks, src, h).present <=> k \in db.present \/ k = h
        /\ Allocated(db, ks, src, h).up = db.up
        /\ \A k \in Key : Allocated(db, ks, src, h).tag[k] =
                             IF k \in ks \cap db.present THEN src ELSE db.tag[k]
    BY <1>2, AllocatedEffect
  <2>3. /\ \A k : k \in db'.present <=> k \in db.present \/ k = h
        /\ db'.up = db.up
        /\ \A k \in Key : db'.tag[k] = IF k \in ks \cap db.present THEN src ELSE db.tag[k]
    BY <2>1, <2>e
  <2>4. Hosts \subseteq Key
    BY DEF Key
  <2>5. alone'[w] => Grown(w)'
    BY <1>1, <1>2, <2>3, GrownFrame DEF Follows, src
  <2>6. alone'[w] => Looked(w)'
    <3> SUFFICES ASSUME alone'[w] PROVE Looked(w)'
      OBVIOUS
    <3>1. Looked(w)
      BY <1>1 DEF Follows
    <3>2. \A g \in (Hosts \cap o.keys \cap db'.present) \ (todo'[w] \cup lost[w]) :
             db'.tag[g] = src \/ g \in pending'[w]
      BY <1>1, <2>2, <2>3, <2>4, <3>1 DEF Looked, ks, src
    <3>3. ~errors[w] => lost[w] = {} /\ Hosts \cap o.keys \subseteq db'.present \cup todo'[w]
      BY <1>1, <2>3, <3>1 DEF Looked
    <3> QED
      BY <1>1, <2>2, <3>2, <3>3 DEF Looked, src
  <2> QED
    BY <1>1, <2>2, <2>5, <2>6 DEF Follows
<1>4. CASE Home[h] \notin db.present
  <2>1. db' = db /\ pending' = pending /\ errors'[w] = TRUE
    BY <1>4 DEF AllocateOne, TypeOK
  <2>2. h \notin db.present
    BY <1>2, <1>4 DEF ForeignKeys, Inner
  <2> QED
    BY <1>1, <2>1, <2>2 DEF Follows, Grown, Looked
<1> QED
  BY <1>3, <1>4

LEMMA FollowsAllocateFails ==
    ASSUME TypeOK, NEW w \in Worker, Follows(w), NEW h \in Hosts, AllocateFails(w, h)
    PROVE  Follows(w)'
<1>1. /\ pc[w] = "allocate" /\ pc' = pc /\ doc' = doc /\ db' = db /\ alone' = alone
      /\ todo'[w] = todo[w] \ {h} /\ errors'[w] = TRUE /\ pending'[w] = {}
      /\ lost'[w] = lost[w] \cup pending[w] \cup {h}
  BY DEF AllocateFails, TypeOK
<1> QED
  BY <1>1 DEF Follows, Grown, Looked

LEMMA FollowsCommitTags ==
    ASSUME TypeOK, NEW w \in Worker, Follows(w), CommitTags(w)
    PROVE  Follows(w)'
<1> DEFINE o == doc[w]
           ks == pending[w]
           src == o.source
<1>1. /\ pc[w] = "allocate" /\ pc'[w] = "prune" /\ doc' = doc /\ todo' = todo /\ todo[w] = {}
      /\ pending'[w] = {} /\ errors' = errors /\ lost' = lost /\ (alone'[w] => alone[w])
      /\ db' = Tagged(db, ks, src)
  BY DEF CommitTags, WithLastTag, Goto, Alone, TypeOK
<1>2. db \in Database /\ o \in Docs /\ src \in Source /\ o.keys \in SUBSET Key
  BY DocFields DEF TypeOK
<1> HIDE DEF ks, src
<1>3. /\ db'.present = db.present /\ db'.up = db.up
      /\ \A k \in Key : db'.tag[k] = IF k \in ks \cap db.present THEN src ELSE db.tag[k]
  BY <1>1, <1>2, TaggedEffect
<1>4. alone'[w] => Grown(w)'
  BY <1>1, <1>2, <1>3, GrownFrame DEF Follows, src
<1>5. alone'[w] => Looked(w)'
  BY <1>1, <1>2, <1>3 DEF Follows, Looked, ks, src
<1> QED
  BY <1>1, <1>4, <1>5 DEF Follows

LEMMA FollowsWork ==
    ASSUME GitopsInv, NEW x \in Worker,
           Work(x) \/ Fail(x) \/ \E h \in Hosts : AllocateFails(x, h),
           NEW w \in Worker
    PROVE  Follows(w)'
<1>1. TypeOK /\ Follows(w) /\ Follows(x)
  BY DEF GitopsInv
<1>2. CASE w = x
  <2>1. CASE Begin(x)
    BY <1>1, <1>2, <2>1, FollowsBegin
  <2>2. CASE Create(x)
    BY <1>1, <1>2, <2>2, FollowsCreate
  <2>3. CASE CommitTags(x)
    BY <1>1, <1>2, <2>3, FollowsCommitTags
  <2>4. CASE Prune(x)
    <3>1. /\ pc'[w] = "idle" /\ doc' = doc /\ todo' = todo /\ pending' = pending
      BY <1>1, <1>2, <2>4 DEF Prune, Goto, TypeOK
    <3> QED
      BY <1>1, <3>1, FollowsFrame
  <2>5. ASSUME NEW h \in Hosts, AllocateOne(x, h) PROVE Follows(w)'
    BY <1>1, <1>2, <2>5, FollowsAllocateOne
  <2>6. ASSUME NEW h \in Hosts, AllocateFails(x, h) PROVE Follows(w)'
    BY <1>1, <1>2, <2>6, FollowsAllocateFails
  <2>7. CASE Fail(x)
    <3>1. /\ pc'[w] = "idle" /\ doc' = doc /\ todo' = todo /\ pending' = pending
      BY <1>1, <1>2, <2>7 DEF Fail, Goto, TypeOK
    <3> QED
      BY <1>1, <3>1, FollowsFrame
  <2> QED
    BY <2>1, <2>2, <2>3, <2>4, <2>5, <2>6, <2>7 DEF Work
<1>3. CASE w # x
  <2>1. /\ doc'[w] = doc[w] /\ todo'[w] = todo[w] /\ pending'[w] = pending[w]
        /\ pc'[w] = pc[w] /\ errors'[w] = errors[w] /\ lost'[w] = lost[w]
        /\ alone'[w] => alone[w] /\ db' = db
    <3>1. CASE Begin(x)
      BY <1>1, <1>3, <3>1 DEF Begin, Goto, TypeOK
    <3>2. CASE Create(x)
      BY <1>1, <1>3, <3>2 DEF Create, Goto, Alone, TypeOK, local
    <3>3. CASE CommitTags(x)
      BY <1>1, <1>3, <3>3 DEF CommitTags, Goto, Alone, TypeOK
    <3>4. CASE Prune(x)
      BY <1>1, <1>3, <3>4 DEF Prune, Goto, Alone, TypeOK
    <3>5. ASSUME NEW h \in Hosts, AllocateOne(x, h)
          PROVE  /\ doc'[w] = doc[w] /\ todo'[w] = todo[w] /\ pending'[w] = pending[w]
                 /\ pc'[w] = pc[w] /\ errors'[w] = errors[w] /\ lost'[w] = lost[w]
                 /\ alone'[w] => alone[w] /\ db' = db
      BY <1>1, <1>3, <3>5 DEF AllocateOne, Alone, TypeOK
    <3>6. ASSUME NEW h \in Hosts, AllocateFails(x, h)
          PROVE  /\ doc'[w] = doc[w] /\ todo'[w] = todo[w] /\ pending'[w] = pending[w]
                 /\ pc'[w] = pc[w] /\ errors'[w] = errors[w] /\ lost'[w] = lost[w]
                 /\ alone'[w] => alone[w] /\ db' = db
      BY <1>1, <1>3, <3>6 DEF AllocateFails, TypeOK
    <3>7. CASE Fail(x)
      BY <1>1, <1>3, <3>7 DEF Fail, Goto, TypeOK
    <3> QED
      BY <3>1, <3>2, <3>3, <3>4, <3>5, <3>6, <3>7 DEF Work
  <2> QED
    BY <1>1, <2>1, FollowsFrame
<1> QED
  BY <1>2, <1>3

LEMMA FollowsNext == GitopsInv /\ [Next]_vars => GitopsInv'
<1> SUFFICES ASSUME GitopsInv, [Next]_vars PROVE GitopsInv'
  OBVIOUS
<1>1. TypeOK /\ TypeOK'
  BY TypesNext DEF GitopsInv
<1>2. upsets' \in Nat
  <2>1. CASE \E x \in Worker : Work(x)
    BY <2>1 DEF GitopsInv, Work, Begin, Create, CommitTags, Prune, AllocateOne, bounds
  <2>2. CASE \E x \in Worker : Fail(x) \/ \E h \in Hosts : AllocateFails(x, h)
    BY <2>2 DEF GitopsInv, AllocateFails, Fail, Upset
  <2>3. CASE Crash \/ UNCHANGED vars
    BY <2>3 DEF GitopsInv, Crash, Upset, vars, bounds
  <2>4. ASSUME NEW o \in Docs, Push(o) PROVE upsets' \in Nat
    BY <2>4 DEF GitopsInv, Push
  <2>5. ASSUME NEW k \in Editable, Edit(k) PROVE upsets' \in Nat
    <3>1. Upset
      BY <2>5 DEF Edit
    <3> QED
      BY <3>1 DEF GitopsInv, Upset
  <2> QED
    BY <2>1, <2>2, <2>3, <2>4, <2>5 DEF Next
<1>3. ASSUME NEW w \in Worker PROVE Follows(w)'
  <2>1. Follows(w)
    BY DEF GitopsInv
  <2>2. CASE \E x \in Worker : Work(x) \/ Fail(x) \/ \E h \in Hosts : AllocateFails(x, h)
    BY <2>2, FollowsWork
  <2>3. CASE Crash
    BY <2>1, <2>3, FollowsFrame DEF Crash
  <2>4. ASSUME NEW o \in Docs, Push(o) PROVE Follows(w)'
    BY <2>1, <2>4, FollowsFrame DEF Push, local
  <2>5. ASSUME NEW k \in Editable, Edit(k) PROVE Follows(w)'
    BY <2>1, <2>5, FollowsFrame DEF Edit, local
  <2>6. CASE UNCHANGED vars
    BY <2>1, <2>6, FollowsFrame DEF vars, local
  <2> QED
    BY <2>2, <2>3, <2>4, <2>5, <2>6 DEF Next
<1> QED
  BY <1>1, <1>2, <1>3 DEF GitopsInv

LEMMA FollowsInit == Init => GitopsInv
<1> SUFFICES ASSUME Init PROVE GitopsInv
  OBVIOUS
<1>1. TypeOK
  BY TypesInit
<1> QED
  BY <1>1 DEF GitopsInv, Init, Follows

LEMMA GitopsInvariant == Spec => []GitopsInv
  BY FollowsInit, FollowsNext, PTL DEF Spec

-----------------------------------------------------------------------------
(* The properties of an apply.                                             *)

\* The transaction that a worker commits stays home.
LEMMA WorkStaysHome ==
    ASSUME GitopsInv, NEW w \in Worker,
           Create(w) \/ CommitTags(w) \/ Prune(w) \/ \E h \in Hosts : AllocateOne(w, h)
    PROVE  StaysHome(db, db', doc[w])
<1> DEFINE o == doc[w]
           ks == pending[w]
<1>1. db \in Database /\ o \in Docs /\ ks \in SUBSET o.keys /\ todo[w] \subseteq o.keys
  BY DEF GitopsInv, TypeOK, Follows
<1>2. CASE Create(w)
  BY <1>1, <1>2, MadeStaysHome DEF Create
<1>3. CASE CommitTags(w)
  <2>1. db' = Tagged(db, ks, o.source)
    BY <1>3 DEF CommitTags, WithLastTag
  <2> HIDE DEF ks, o
  <2>2. StaysHome(db, db', o)
    BY <1>1, <2>1, TaggedStaysHome
  <2> QED
    BY <2>2 DEF o
<1>4. CASE Prune(w)
  <2>1. PICK gone \in SUBSET Surplus(db, o) : db' = Deleted(db, gone)
    BY <1>4, TablesPrune DEF GitopsInv
  <2> HIDE DEF o
  <2>2. StaysHome(db, db', o)
    BY <1>1, <2>1, DeletedStaysHome
  <2> QED
    BY <2>2 DEF o
<1>5. ASSUME NEW h \in Hosts, AllocateOne(w, h) PROVE StaysHome(db, db', o)
  <2>1. CASE Home[h] \in db.present
    <3>1. db' = Allocated(db, ks, o.source, h) /\ h \in o.keys
      BY <1>1, <1>5, <2>1 DEF AllocateOne, Allocated
    <3> HIDE DEF ks, o
    <3> QED
      BY <1>1, <3>1, AllocatedStaysHome
  <2>2. CASE Home[h] \notin db.present
    BY <1>5, <2>2 DEF AllocateOne, StaysHome
  <2> QED
    BY <2>1, <2>2
<1> QED
  BY <1>2, <1>3, <1>4, <1>5

\* Whatever else runs, a transaction of an apply leaves the rows of others
\* alone, and a settled database.
THEOREM AppliesStayHome == Spec => ApplyStaysHome
<1>1. ASSUME GitopsInv, [Next]_vars, NEW w \in Worker, Applying(w), db' # db
      PROVE  StaysHome(db, db', doc[w])
  <2>1. TypeOK
    BY <1>1 DEF GitopsInv
  <2>2. ASSUME NEW x \in Worker, Work(x)
        PROVE  Create(w) \/ CommitTags(w) \/ Prune(w) \/ \E h \in Hosts : AllocateOne(w, h)
    <3>1. ~Begin(x)
      BY <1>1 DEF Begin
    <3>2. x # w => pc'[w] = pc[w] /\ todo'[w] = todo[w]
      BY <2>1, <2>2, <3>1 DEF Work, Create, CommitTags, Prune, AllocateOne, Goto, TypeOK, local
    <3> QED
      BY <1>1, <2>2, <3>1, <3>2 DEF Work, Applying
  <2>3. \E x \in Worker : Work(x)
    BY <1>1 DEF Next, Fail, AllocateFails, Crash, Push, Edit, Applying, vars, local
  <2> QED
    BY <1>1, <2>2, <2>3, WorkStaysHome
<1>2. GitopsInv /\ [Next]_vars =>
        [\A w \in Worker : Applying(w) /\ db' # db =>
           LET o == doc[w] IN
           /\ ~Settled(db, o)
           /\ \A k \in db.present \ db'.present :
                \/ db.tag[k] = o.source /\ k \notin o.keys
                \/ k \in Inner /\ Home[k] \notin db'.present /\ db.tag[Home[k]] = o.source
           /\ \A k \in db'.present \ o.keys :
                db'.tag[k] = db.tag[k] /\ (k \in Subnets => db'.up[k] = db.up[k])]_vars
  BY <1>1 DEF StaysHome
<1> QED
  BY <1>2, GitopsInvariant, PTL DEF Spec, ApplyStaysHome

\* The last step of an apply that nothing upset.
LEMMA PruneEnds ==
    ASSUME GitopsInv, [Next]_vars, NEW w \in Worker, pc[w] = "prune", pc'[w] = "idle",
           ~errors'[w] \/ upsets' = upsets
    PROVE  Prune(w)
<1>1. TypeOK /\ upsets \in Nat
  BY DEF GitopsInv
<1>2. ~Crash
  BY <1>1 DEF Crash, Upset
<1>3. ASSUME NEW x \in Worker,
             Work(x) \/ Fail(x) \/ \E h \in Hosts : AllocateFails(x, h)
      PROVE  Prune(w)
  <2>1. x = w
    BY <1>1, <1>3 DEF Work, Begin, Create, CommitTags, Prune, AllocateOne, AllocateFails, Fail,
                      Goto, TypeOK
  <2>2. ~Fail(w)
    BY <1>1 DEF Fail, Upset, TypeOK
  <2> QED
    BY <1>3, <2>1, <2>2 DEF Work, Begin, Create, CommitTags, AllocateOne, AllocateFails
<1> QED
  BY <1>2, <1>3 DEF Next, Push, Edit, vars

\* What the prune leaves of the rows of the document.
LEMMA PruneKeepsTags ==
    ASSUME GitopsInv, NEW w \in Worker, Prune(w), alone[w],
           NEW k \in (doc[w].keys \cap db'.present) \ lost[w]
    PROVE  db'.tag[k] = doc[w].source
<1> DEFINE o == doc[w]
<1>1. db \in Database /\ o \in Docs /\ o.keys \in SUBSET Key
  BY DocFields DEF GitopsInv, TypeOK
<1>2. pc[w] = "prune" /\ Follows(w)
  BY DEF GitopsInv, Prune
<1>3. PICK gone \in SUBSET Surplus(db, o) : db' = Deleted(db, gone)
  BY TablesPrune DEF GitopsInv
<1>4. k \in db.present /\ db'.tag[k] = db.tag[k]
  BY <1>1, <1>3, DeletedFields
<1>5. db.tag[k] = o.source
  BY <1>2, <1>4 DEF Follows, Grown, Looked
<1> QED
  BY <1>4, <1>5

\* Without an upset, every row of the document is tagged when the apply ends,
\* except an allocation that failed and the one before it.
THEOREM TagsStay == Spec => TagsAreKept
<1>1. GitopsInv /\ [Next]_vars =>
        [\A w \in Worker :
           pc[w] = "prune" /\ pc'[w] = "idle" /\ upsets' = upsets /\ alone[w] =>
              \A k \in (doc[w].keys \cap db'.present) \ lost[w] : db'.tag[k] = doc[w].source]_vars
  BY PruneEnds, PruneKeepsTags
<1> QED
  BY <1>1, GitopsInvariant, PTL DEF Spec, TagsAreKept

\* A prune that is not blocked, after an apply without an error, leaves the
\* database as the document wants it.
LEMMA PruneSettles ==
    ASSUME GitopsInv, NEW w \in Worker, Prune(w), ~errors'[w], alone[w],
           SelfContained(doc[w]), ParentsFirst(doc[w])
    PROVE  Settled(db', doc[w])
<1> DEFINE o == doc[w]
           gone == Surplus(db, o)
<1>1. db \in Database /\ o \in Docs /\ o.keys \in SUBSET Key
  BY DocFields DEF GitopsInv, TypeOK
<1>2. pc[w] = "prune" /\ Follows(w)
  BY DEF GitopsInv, Prune
<1>3. db' = Deleted(db, gone)
  BY TablesPrune DEF GitopsInv
<1>4. ~errors[w]
  BY DEF GitopsInv, TypeOK, Prune
<1>5. /\ todo[w] = {} /\ pending[w] = {} /\ lost[w] = {}
      /\ Grown(w) /\ Looked(w)
  BY <1>2, <1>4 DEF Follows, Looked
<1>6. o.keys \subseteq db.present /\ \A k \in o.keys : db.tag[k] = o.source
  BY <1>1, <1>4, <1>5 DEF Grown, Looked
<1>7. /\ db' \in Database
      /\ db'.present = db.present \ With(gone)
      /\ \A k \in Key : db'.tag[k] = IF k \in With(gone) THEN Nobody ELSE db.tag[k]
      /\ \A s \in Subnets : db'.up[s] = IF s \in With(gone) THEN NoParent ELSE db.up[s]
  BY <1>1, <1>3, DeletedFields
<1>8. o.keys \cap With(gone) = {}
  <2>1. \A k \in o.keys \cap Inner : Home[k] \in o.keys
    BY <1>1, ModelAssumption DEF SelfContained, Inner
  <2>2. gone \cap o.keys = {}
    BY DEF Surplus
  <2> QED
    BY <2>1, <2>2 DEF With
<1>9. Surplus(db', o) = {}
  <2>1. \A k \in Surplus(db', o) : k \in gone
    BY <1>1, <1>7, DatabaseFields DEF Surplus
  <2>2. gone \subseteq With(gone)
    BY DEF With
  <2>3. Surplus(db', o) \subseteq db'.present
    BY DEF Surplus
  <2> QED
    BY <1>7, <2>1, <2>2, <2>3
<1>10. \A s \in Subnets \cap o.keys : o.up[s] \in Subnets => db'.up[s] = o.up[s] /\ o.up[s] \in o.keys
  BY <1>5, <1>7, <1>8 DEF Grown, ParentsFirst
<1>11. o.keys \subseteq db'.present /\ \A k \in o.keys : db'.tag[k] = o.source
  BY <1>1, <1>6, <1>7, <1>8
<1> QED
  BY <1>1, <1>7, <1>9, <1>10, <1>11, SettledFacts

\* An apply that reports no error, while nobody else wrote, is complete.
THEOREM SuccessesAreComplete == Spec => SuccessIsComplete
<1>1. GitopsInv /\ [Next]_vars =>
        [\A w \in Worker :
           pc[w] = "prune" /\ pc'[w] = "idle" /\ ~errors'[w] /\ alone[w]
           /\ SelfContained(doc[w]) /\ ParentsFirst(doc[w])
           => Settled(db', doc[w])]_vars
  BY PruneEnds, PruneSettles
<1> QED
  BY <1>1, GitopsInvariant, PTL DEF Spec, SuccessIsComplete
=============================================================================
