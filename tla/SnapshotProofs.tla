---------------------------- MODULE SnapshotProofs ----------------------------
(***************************************************************************)
(* Proofs about Snapshot: what the loops of makeRoutes and makeClusters    *)
(* compute, for any controls and any order in which the map is visited,    *)
(* and what follows for the snapshot and for the routes Envoy holds.       *)
(*                                                                         *)
(* A loop is a recursive function of the number of turns.  That the        *)
(* function exists, and what it computes, is shown by taking the least     *)
(* number of turns for which it would fail.                                *)
(***************************************************************************)
EXTENDS Snapshot, FiniteSetTheorems, SequenceTheorems, LeastElement, TLAPS

-----------------------------------------------------------------------------
(***************************************************************************)
(* What the loops establish, for the controls in ids.                      *)
(***************************************************************************)
\* Longest prefix first.
Descending(rs) ==
    \A i, j \in 1 .. Len(rs) : i <= j => Len(rs[i].prefix) >= Len(rs[j].prefix)

\* The virtual hosts hold one route for each control, under its domain.
RoutesOf(vhs, ctls, ids) ==
    /\ vhs \in VHosts
    /\ \A d \in Domains : Descending(vhs[d])
    /\ \A d \in Domains : \A i \in 1 .. Len(vhs[d]) :
         \E id \in ids : Domain(ctls[id]) = d /\ vhs[d][i] = SingleRoute(ctls, id)
    /\ \A id \in ids : \E i \in 1 .. Len(vhs[Domain(ctls[id])]) :
         vhs[Domain(ctls[id])][i] = SingleRoute(ctls, id)

\* The cluster of a control.
ClusterOf(ctls, id) == [name |-> ClusterName[ctls[id].dst], dst |-> ctls[id].dst]

\* The clusters are those of controls, no two have one name, and every name
\* a control needs is there.
ClustersOf(cl, ctls, ids) ==
    /\ \A c \in cl : \E id \in ids : c = ClusterOf(ctls, id)
    /\ \A c, e \in cl : c.name = e.name => c = e
    /\ \A id \in ids : \E c \in cl : c.name = ClusterName[ctls[id].dst]

(***************************************************************************)
(* The inductive invariant: the controls are a merge of the static file    *)
(* and a published list, and what was made of them, in the cache and in    *)
(* Envoy, was made by whole loops over them.                               *)
(***************************************************************************)
IInv ==
    /\ TypeOK
    /\ proxyCtls \in Tables
    /\ snap.ver \in Tables
    /\ ClustersOf(snap.clusters, snap.ver, Known(snap.ver))
    /\ RoutesOf(snap.vhosts, snap.ver, Known(snap.ver))
    /\ cds.ver # None => ClustersOf(cds.clusters, cds.ver, Known(cds.ver))
    /\ rds.ver # None => RoutesOf(rds.vhosts, rds.ver, Known(rds.ver))

-----------------------------------------------------------------------------
(***************************************************************************)
(* Data.                                                                   *)
(***************************************************************************)
\* updateCtls makes a table of sources; only a static source of it is without
\* authorization, and it is the static file's.
LEMMA TablesAreSources ==
    ASSUME NEW ctls \in Tables
    PROVE  /\ ctls \in Sources
           /\ \A id \in IDs : ctls[id] # None /\ ctls[id].noAuth => ctls[id] = StaticSrc[id]
<1>1. PICK s \in Updates \cup {NoSources} : ctls = Merge(s)
  BY DEF Tables
<1>2. s \in Sources /\ StaticSrc \in Sources
  BY SnapshotAssumption DEF NoSources, Sources
<1>3. ASSUME NEW id \in IDs
      PROVE  /\ ctls[id] \in RawSource \cup {None}
             /\ ctls[id] # None /\ ctls[id].noAuth => ctls[id] = StaticSrc[id]
  <2>1. s[id] \in RawSource \cup {None} /\ StaticSrc[id] \in RawSource \cup {None}
    BY <1>2 DEF Sources
  <2>2. ctls[id] = IF s[id] # None THEN Decode(s[id]) ELSE StaticSrc[id]
    BY <1>1 DEF Merge
  <2>3. CASE s[id] = None
    BY <2>1, <2>2, <2>3
  <2>4. CASE s[id] # None
    <3>1. s[id] \in RawSource /\ ctls[id] = [s[id] EXCEPT !.noAuth = FALSE]
      BY <2>1, <2>2, <2>4 DEF Decode
    <3>2. ctls[id] \in RawSource /\ ctls[id].noAuth = FALSE
      BY <3>1 DEF RawSource
    <3> QED
      BY <3>2
  <2> QED
    BY <2>3, <2>4
<1>4. ctls \in Sources
  BY <1>1, <1>3 DEF Merge, Sources
<1> QED
  BY <1>3, <1>4

\* The types of what is made of one control.
LEMMA ControlTypes ==
    ASSUME NEW ctls \in Sources, NEW id \in Known(ctls)
    PROVE  /\ id \in IDs
           /\ ctls[id] \in RawSource
           /\ ctls[id].dst \in Dests /\ ctls[id].noAuth \in BOOLEAN
           /\ Domain(ctls[id]) \in Domains
           /\ SingleRoute(ctls, id) \in RouteEntry
           /\ SingleRoute(ctls, id).prefix = ctls[id].prefix
           /\ SingleRoute(ctls, id).id = id
           /\ SingleRoute(ctls, id).authz = ~ctls[id].noAuth
           /\ SingleRoute(ctls, id).cluster = ClusterName[ctls[id].dst]
           /\ ClusterOf(ctls, id) \in Cluster
           /\ ClusterOf(ctls, id).name = ClusterName[ctls[id].dst]
           /\ ClusterOf(ctls, id).dst = ctls[id].dst
<1>1. id \in IDs /\ ctls[id] \in RawSource
  BY DEF Known, Sources
<1>2. /\ ctls[id].host \in Hosts /\ ctls[id].prefix \in Paths
      /\ ctls[id].dst \in Dests /\ ctls[id].noAuth \in BOOLEAN
  BY <1>1 DEF RawSource
<1>3. Domain(ctls[id]) \in Domains
  BY <1>2 DEF Domain, Domains
<1>4. ClusterName[ctls[id].dst] \in {ClusterName[d] : d \in Dests}
  BY <1>2
<1>5. (~ctls[id].noAuth) \in BOOLEAN
  BY <1>2
<1>6. SingleRoute(ctls, id) \in RouteEntry
  BY <1>1, <1>2, <1>4, <1>5 DEF SingleRoute, RouteEntry
<1>7. ClusterOf(ctls, id) \in Cluster
  BY <1>2, <1>4 DEF ClusterOf, Cluster
<1> QED
  BY <1>1, <1>2, <1>3, <1>6, <1>7 DEF SingleRoute, ClusterOf

\* The prefix of a route has a length.
LEMMA PrefixLength ==
    ASSUME NEW rt \in RouteEntry
    PROVE  Len(rt.prefix) \in Nat
BY SnapshotAssumption DEF RouteEntry

\* A range over the controls visits each of them.
LEMMA OrderVisitsAll ==
    ASSUME NEW ctls, NEW order \in Orders(ctls)
    PROVE  /\ order \in Seq(Known(ctls)) /\ Len(order) \in Nat
           /\ {order[i] : i \in 1 .. Len(order)} = Known(ctls)
<1> DEFINE K == Known(ctls)
           n == Cardinality(K)
<1>1. IsFiniteSet(K)
  <2>1. K \in SUBSET IDs /\ IsFiniteSet(IDs)
    BY SnapshotAssumption DEF Known
  <2> QED
    BY <2>1, FS_Subset
<1>2. n \in Nat
  BY <1>1, FS_CardinalityType
<1>3. order \in [1 .. n -> K] /\ \A i, j \in 1 .. n : i # j => order[i] # order[j]
  BY DEF Orders, SetToSeqs
<1> HIDE DEF K, n
<1>4. order \in Seq(K) /\ Len(order) = n
  BY <1>2, <1>3, SeqDef
<1>5. order \in Injection(1 .. n, K)
  BY <1>3 DEF Injection, IsInjective
<1>6. Cardinality(1 .. n) = n
  BY <1>2, FS_Interval
<1>7. order \in Surjection(1 .. n, K)
  BY <1>1, <1>5, <1>6, FS_Injection DEF n
<1>8. \A k \in K : \E i \in 1 .. n : order[i] = k
  BY <1>7 DEF Surjection
<1>9. {order[i] : i \in 1 .. n} = K
  BY <1>3, <1>8
<1> QED
  BY <1>2, <1>4, <1>9 DEF K

-----------------------------------------------------------------------------
(***************************************************************************)
(* makeClusters.                                                           *)
(***************************************************************************)
\* g holds the clusters after each of the first n turns.
ClusterTurns(g, ctls, order, n) ==
    g = [i \in 0 .. n |-> IF i = 0 THEN {} ELSE AddCluster(ctls, g[i - 1], order[i])]

\* The loop can be run for any number of turns.
LEMMA ClusterTurnsExist ==
    ASSUME NEW ctls, NEW order
    PROVE  \A n \in Nat : \E g : ClusterTurns(g, ctls, order, n)
<1> DEFINE Bad == {n \in Nat : ~ \E g : ClusterTurns(g, ctls, order, n)}
<1>1. SUFFICES ASSUME Bad # {} PROVE FALSE
  OBVIOUS
<1>2. PICK n \in Bad : \A k \in Bad : n <= k
  BY <1>1, HasLeast
<1>3. n \in Nat /\ ~ \E g : ClusterTurns(g, ctls, order, n)
  OBVIOUS
<1>4. CASE n = 0
  <2>1. ClusterTurns([i \in 0 .. 0 |-> {}], ctls, order, 0)
    BY DEF ClusterTurns
  <2> QED
    BY <1>3, <1>4, <2>1
<1>5. CASE n # 0
  <2>1. n - 1 \in Nat /\ n - 1 \notin Bad
    BY <1>2, <1>3, <1>5
  <2>2. PICK g : ClusterTurns(g, ctls, order, n - 1)
    BY <2>1
  <2> DEFINE h == [i \in 0 .. n |-> IF i <= n - 1 THEN g[i]
                                    ELSE AddCluster(ctls, g[n - 1], order[n])]
  <2>3. ASSUME NEW i \in 0 .. n
        PROVE  h[i] = IF i = 0 THEN {} ELSE AddCluster(ctls, h[i - 1], order[i])
    <3>1. CASE i = 0
      <4>1. 0 \in 0 .. n - 1 /\ h[0] = g[0]
        BY <2>1, <3>1
      <4>2. g[0] = {}
        BY <2>2, <4>1 DEF ClusterTurns
      <4> QED
        BY <3>1, <4>1, <4>2
    <3>2. CASE i \in 1 .. n - 1
      <4>1. i \in 0 .. n - 1 /\ i - 1 \in 0 .. n - 1 /\ i # 0
        BY <2>1, <3>2
      <4>2. h[i] = g[i] /\ h[i - 1] = g[i - 1]
        BY <1>3, <4>1
      <4>3. g[i] = AddCluster(ctls, g[i - 1], order[i])
        BY <2>2, <4>1 DEF ClusterTurns
      <4> QED
        BY <4>1, <4>2, <4>3
    <3>3. CASE i = n
      <4>1. n # 0 /\ n - 1 \in 0 .. n - 1 /\ ~ (n <= n - 1)
        BY <1>3, <1>5, <2>1
      <4>2. h[n] = AddCluster(ctls, g[n - 1], order[n]) /\ h[n - 1] = g[n - 1]
        BY <1>3, <4>1
      <4> QED
        BY <3>3, <4>1, <4>2
    <3> QED
      BY <1>3, <3>1, <3>2, <3>3
  <2>4. h = [i \in 0 .. n |-> IF i = 0 THEN {} ELSE AddCluster(ctls, h[i - 1], order[i])]
    BY <2>3
  <2>5. ClusterTurns(h, ctls, order, n)
    BY <2>4 DEF ClusterTurns
  <2> QED
    BY <1>3, <2>5
<1> QED
  BY <1>4, <1>5

\* One turn.
LEMMA AddClusterKeeps ==
    ASSUME NEW ctls \in Sources, NEW ids \in SUBSET Known(ctls), NEW id \in Known(ctls),
           NEW cl, ClustersOf(cl, ctls, ids)
    PROVE  ClustersOf(AddCluster(ctls, cl, id), ctls, ids \cup {id})
<1>1. /\ ClusterOf(ctls, id).name = ClusterName[ctls[id].dst]
      /\ ClusterOf(ctls, id) = [name |-> ClusterName[ctls[id].dst], dst |-> ctls[id].dst]
  BY DEF ClusterOf
<1>2. CASE \E c \in cl : c.name = ClusterName[ctls[id].dst]
  <2>1. AddCluster(ctls, cl, id) = cl
    BY <1>2 DEF AddCluster
  <2> QED
    BY <1>2, <2>1 DEF ClustersOf
<1>3. CASE ~ \E c \in cl : c.name = ClusterName[ctls[id].dst]
  <2>1. AddCluster(ctls, cl, id) = cl \cup {ClusterOf(ctls, id)}
    BY <1>1, <1>3 DEF AddCluster
  <2> QED
    BY <1>1, <1>3, <2>1 DEF ClustersOf
<1> QED
  BY <1>2, <1>3

\* The whole loop.
LEMMA ClustersAreMade ==
    ASSUME NEW ctls \in Sources, NEW order \in Orders(ctls)
    PROVE  ClustersOf(MakeClusters(ctls, order), ctls, Known(ctls))
<1> DEFINE N == Len(order)
           seen(n) == {order[i] : i \in 1 .. n}
           after == CHOOSE g : ClusterTurns(g, ctls, order, N)
           Bad == {n \in Nat : n <= N /\ ~ ClustersOf(after[n], ctls, seen(n))}
<1>1. /\ N \in Nat /\ seen(N) = Known(ctls)
      /\ \A i \in 1 .. N : order[i] \in Known(ctls)
  BY OrderVisitsAll
<1>2. ClusterTurns(after, ctls, order, N)
  BY <1>1, ClusterTurnsExist
<1>3. MakeClusters(ctls, order) = after[N]
  BY DEF MakeClusters, ClusterTurns
<1> HIDE DEF after, N
<1>4. Bad = {}
  <2>1. SUFFICES ASSUME Bad # {} PROVE FALSE
    OBVIOUS
  <2>2. PICK n \in Bad : \A k \in Bad : n <= k
    BY <2>1, HasLeast
  <2>3. n \in Nat /\ n <= N /\ ~ ClustersOf(after[n], ctls, seen(n))
    OBVIOUS
  <2>4. CASE n = 0
    <3>1. 0 \in 0 .. N /\ 1 .. 0 = {}
      BY <1>1
    <3>2. after[0] = {}
      BY <1>2, <3>1 DEF ClusterTurns
    <3>3. seen(0) = {}
      BY <3>1
    <3>4. ClustersOf({}, ctls, {})
      BY DEF ClustersOf
    <3> QED
      BY <2>3, <2>4, <3>2, <3>3, <3>4
  <2>5. CASE n # 0
    <3>1. n - 1 \in Nat /\ n - 1 <= N /\ n \in 1 .. N /\ n \in 0 .. N /\ ~ (n <= n - 1)
      <4> HIDE DEF seen
      <4> QED
        BY <1>1, <2>3, <2>5
    <3>2. ClustersOf(after[n - 1], ctls, seen(n - 1))
      <4>1. n - 1 \notin Bad
        BY <2>2, <3>1
      <4> QED
        BY <3>1, <4>1
    <3>3. after[n] = AddCluster(ctls, after[n - 1], order[n])
      BY <1>2, <2>5, <3>1 DEF ClusterTurns
    <3>4. seen(n - 1) \in SUBSET Known(ctls) /\ order[n] \in Known(ctls)
      BY <1>1, <3>1
    <3>5. seen(n) = seen(n - 1) \cup {order[n]}
      <4>1. 1 .. n = (1 .. n - 1) \cup {n}
        BY <3>1
      <4> QED
        BY <4>1
    <3>6. ClustersOf(AddCluster(ctls, after[n - 1], order[n]), ctls, seen(n - 1) \cup {order[n]})
      BY <3>2, <3>4, AddClusterKeeps
    <3> QED
      BY <2>3, <3>3, <3>5, <3>6
  <2> QED
    BY <2>4, <2>5
<1>5. ClustersOf(after[N], ctls, seen(N))
  BY <1>1, <1>4
<1> QED
  BY <1>1, <1>3, <1>5

-----------------------------------------------------------------------------
(***************************************************************************)
(* makeRoutes.                                                             *)
(***************************************************************************)
\* Where a sequence is split to take a new entry.
LEMMA Inserted ==
    ASSUME NEW S, NEW rs \in Seq(S), NEW new \in S, NEW pos \in 1 .. Len(rs) + 1
    PROVE  /\ InsertAt(rs, pos, new) \in Seq(S)
           /\ Len(InsertAt(rs, pos, new)) = Len(rs) + 1
           /\ \A i \in 1 .. pos - 1 : InsertAt(rs, pos, new)[i] = rs[i]
           /\ InsertAt(rs, pos, new)[pos] = new
           /\ \A i \in pos .. Len(rs) : InsertAt(rs, pos, new)[i + 1] = rs[i]
<1> DEFINE a == SubSeq(rs, 1, pos - 1)
           b == SubSeq(rs, pos, Len(rs))
           ab == a \o <<new>>
           n == Len(rs)
<1>1. n \in Nat /\ pos \in Int /\ 1 <= pos /\ pos <= n + 1
      /\ \A i \in 1 .. n : rs[i] \in S
  BY ElementOfSeq
<1>2. /\ a \in Seq(S) /\ Len(a) = pos - 1
      /\ \A i \in 1 .. pos - 1 : a[i] = rs[i]
  <2>1. \A i \in 1 .. pos - 1 : rs[i] \in S
    BY <1>1
  <2>2. 1 \in Int /\ pos - 1 \in Int
    BY <1>1
  <2>3. /\ a \in Seq(S) /\ Len(a) = IF 1 <= pos - 1 THEN (pos - 1) - 1 + 1 ELSE 0
        /\ \A i \in 1 .. (pos - 1) - 1 + 1 : a[i] = rs[1 + i - 1]
    BY <2>1, <2>2, SubSeqProperties
  <2>4. (pos - 1) - 1 + 1 = pos - 1 /\ \A i \in 1 .. pos - 1 : 1 + i - 1 = i
    BY <1>1
  <2> QED
    BY <1>1, <2>3, <2>4
<1>3. /\ b \in Seq(S) /\ Len(b) = n - pos + 1
      /\ \A i \in 1 .. n - pos + 1 : b[i] = rs[pos + i - 1]
  <2>1. \A i \in pos .. n : rs[i] \in S
    BY <1>1
  <2>2. /\ b \in Seq(S) /\ Len(b) = IF pos <= n THEN n - pos + 1 ELSE 0
        /\ \A i \in 1 .. n - pos + 1 : b[i] = rs[pos + i - 1]
    BY <1>1, <2>1, SubSeqProperties
  <2> QED
    BY <1>1, <2>2
<1>4. <<new>> \in Seq(S) /\ Len(<<new>>) = 1 /\ <<new>>[1] = new
  OBVIOUS
<1> HIDE DEF a, b
<1>5. /\ ab \in Seq(S) /\ Len(ab) = pos
      /\ \A i \in 1 .. pos : ab[i] = IF i <= pos - 1 THEN a[i] ELSE <<new>>[i - (pos - 1)]
  <2>1. /\ ab \in Seq(S) /\ Len(ab) = (pos - 1) + 1
        /\ \A i \in 1 .. (pos - 1) + 1 : ab[i] = IF i <= pos - 1 THEN a[i] ELSE <<new>>[i - (pos - 1)]
    BY <1>2, <1>4, ConcatProperties
  <2>2. (pos - 1) + 1 = pos
    BY <1>1
  <2> QED
    BY <2>1, <2>2
<1> HIDE DEF ab
<1> DEFINE r == ab \o b
<1>6. /\ r \in Seq(S) /\ Len(r) = pos + (n - pos + 1)
      /\ \A i \in 1 .. pos + (n - pos + 1) : r[i] = IF i <= pos THEN ab[i] ELSE b[i - pos]
  <2>1. ab \in Seq(S) /\ b \in Seq(S) /\ Len(ab) = pos /\ Len(b) = n - pos + 1
    BY <1>3, <1>5
  <2>2. /\ ab \o b \in Seq(S) /\ Len(ab \o b) = Len(ab) + Len(b)
        /\ \A i \in 1 .. Len(ab) + Len(b) :
             (ab \o b)[i] = IF i <= Len(ab) THEN ab[i] ELSE b[i - Len(ab)]
    BY <2>1, ConcatProperties
  <2> QED
    BY <2>1, <2>2
<1>7. InsertAt(rs, pos, new) = r
  BY DEF InsertAt, a, b, ab
<1> HIDE DEF r
<1>8. pos + (n - pos + 1) = n + 1
  BY <1>1
<1>9. ASSUME NEW i \in 1 .. pos - 1 PROVE r[i] = rs[i]
  <2>1. i \in 1 .. pos /\ i \in 1 .. n + 1 /\ i <= pos - 1 /\ i <= pos
    BY <1>1
  <2> QED
    BY <1>2, <1>5, <1>6, <1>8, <2>1
<1>10. r[pos] = new
  <2>1. pos \in 1 .. pos /\ pos \in 1 .. n + 1 /\ ~ (pos <= pos - 1) /\ pos - (pos - 1) = 1
    BY <1>1
  <2> QED
    BY <1>4, <1>5, <1>6, <1>8, <2>1
<1>11. ASSUME NEW i \in pos .. n PROVE r[i + 1] = rs[i]
  <2>1. /\ i + 1 \in 1 .. n + 1 /\ ~ (i + 1 <= pos) /\ (i + 1) - pos \in 1 .. n - pos + 1
        /\ pos + ((i + 1) - pos) - 1 = i
    BY <1>1
  <2>2. r[i + 1] = b[(i + 1) - pos]
    BY <1>6, <1>8, <2>1
  <2>3. b[(i + 1) - pos] = rs[pos + ((i + 1) - pos) - 1]
    BY <1>3, <2>1
  <2> QED
    BY <2>1, <2>2, <2>3
<1> QED
  BY <1>6, <1>7, <1>8, <1>9, <1>10, <1>11

\* The insertion keeps the order, the old routes and the new one.
LEMMA InsertRouteKeeps ==
    ASSUME NEW rs \in Seq(RouteEntry), NEW new \in RouteEntry, Descending(rs)
    PROVE  /\ InsertRoute(rs, new) \in Seq(RouteEntry)
           /\ Descending(InsertRoute(rs, new))
           /\ \A i \in 1 .. Len(InsertRoute(rs, new)) :
                \/ InsertRoute(rs, new)[i] = new
                \/ \E j \in 1 .. Len(rs) : InsertRoute(rs, new)[i] = rs[j]
           /\ \E i \in 1 .. Len(InsertRoute(rs, new)) : InsertRoute(rs, new)[i] = new
           /\ \A j \in 1 .. Len(rs) : \E i \in 1 .. Len(InsertRoute(rs, new)) :
                InsertRoute(rs, new)[i] = rs[j]
<1> DEFINE n == Len(rs)
           L(i) == Len(rs[i].prefix)
           m == Len(new.prefix)
           Shorter == {i \in 1 .. n : m > L(i)}
           pos == IF Shorter = {} THEN n + 1
                  ELSE CHOOSE i \in Shorter : \A j \in Shorter : i <= j
           r == InsertAt(rs, pos, new)
<1>1. n \in Nat /\ m \in Nat /\ \A i \in 1 .. n : rs[i] \in RouteEntry /\ L(i) \in Nat
  BY PrefixLength, ElementOfSeq
<1>2. InsertRoute(rs, new) = r
  BY DEF InsertRoute
<1>3. /\ pos \in 1 .. n + 1
      /\ \A i \in 1 .. pos - 1 : L(i) >= m
      /\ \A i \in pos .. n : L(i) < m
  <2>1. CASE Shorter = {}
    BY <1>1, <2>1
  <2>2. CASE Shorter # {}
    <3>1. Shorter \subseteq Nat
      BY <1>1
    <3>2. \E i \in Shorter : \A j \in Shorter : i <= j
      BY <2>2, <3>1, HasLeast
    <3>3. pos \in Shorter /\ \A j \in Shorter : pos <= j
      BY <2>2, <3>2
    <3> HIDE DEF pos
    <3>4. pos \in 1 .. n /\ m > L(pos)
      BY <3>3
    <3>5. ASSUME NEW i \in 1 .. pos - 1 PROVE L(i) >= m
      <4>1. i \in 1 .. n /\ ~ (pos <= i)
        BY <1>1, <3>4
      <4>2. i \notin Shorter
        BY <3>3, <4>1
      <4> QED
        BY <1>1, <4>1, <4>2
    <3>6. ASSUME NEW i \in pos .. n PROVE L(i) < m
      <4>1. i \in 1 .. n /\ pos <= i
        BY <1>1, <3>4
      <4>2. L(pos) >= L(i)
        BY <3>4, <4>1 DEF Descending
      <4> QED
        BY <1>1, <3>4, <4>1, <4>2
    <3> QED
      BY <1>1, <3>4, <3>5, <3>6
  <2> QED
    BY <2>1, <2>2
<1> HIDE DEF pos
<1>4. /\ r \in Seq(RouteEntry) /\ Len(r) = n + 1
      /\ \A i \in 1 .. pos - 1 : r[i] = rs[i]
      /\ r[pos] = new
      /\ \A i \in pos .. n : r[i + 1] = rs[i]
  BY <1>3, Inserted
<1> HIDE DEF r
<1>5. ASSUME NEW i \in 1 .. n + 1
      PROVE  \/ i \in 1 .. pos - 1 /\ i \in 1 .. n /\ r[i] = rs[i]
             \/ i = pos /\ r[i] = new
             \/ i - 1 \in pos .. n /\ i - 1 \in 1 .. n /\ r[i] = rs[i - 1]
  <2>1. CASE i < pos
    BY <1>1, <1>3, <1>4, <2>1
  <2>2. CASE i = pos
    BY <1>4, <2>2
  <2>3. CASE i > pos
    <3>1. i - 1 \in pos .. n /\ i - 1 \in 1 .. n /\ (i - 1) + 1 = i
      BY <1>1, <1>3, <2>3
    <3> QED
      BY <1>4, <3>1
  <2> QED
    BY <1>1, <1>3, <2>1, <2>2, <2>3
<1>6. \A i \in 1 .. n + 1 : r[i] = new \/ \E j \in 1 .. n : r[i] = rs[j]
  BY <1>5
<1>7. \E i \in 1 .. n + 1 : r[i] = new
  BY <1>3, <1>4
<1>8. ASSUME NEW j \in 1 .. n PROVE \E i \in 1 .. n + 1 : r[i] = rs[j]
  <2>1. CASE j < pos
    <3>1. j \in 1 .. pos - 1 /\ j \in 1 .. n + 1
      BY <1>1, <1>3, <2>1
    <3> QED
      BY <1>4, <3>1
  <2>2. CASE j >= pos
    <3>1. j \in pos .. n /\ j + 1 \in 1 .. n + 1
      BY <1>1, <1>3, <2>2
    <3> QED
      BY <1>4, <3>1
  <2> QED
    BY <1>1, <1>3, <2>1, <2>2
<1>9. Descending(r)
  <2>1. ASSUME NEW i \in 1 .. n + 1, NEW j \in 1 .. n + 1, i <= j
        PROVE  Len(r[i].prefix) >= Len(r[j].prefix)
    <3>1. CASE i \in 1 .. pos - 1 /\ i \in 1 .. n /\ r[i] = rs[i]
      <4>1. L(i) >= m /\ L(i) \in Nat
        BY <1>1, <1>3, <3>1
      <4>2. CASE j \in 1 .. n /\ r[j] = rs[j]
        BY <2>1, <3>1, <4>2 DEF Descending
      <4>3. CASE r[j] = new
        BY <3>1, <4>1, <4>3
      <4>4. CASE j - 1 \in pos .. n /\ j - 1 \in 1 .. n /\ r[j] = rs[j - 1]
        <5>1. L(j - 1) < m /\ L(j - 1) \in Nat
          BY <1>1, <1>3, <4>4
        <5> QED
          BY <1>1, <3>1, <4>1, <4>4, <5>1
      <4> QED
        BY <1>5, <4>2, <4>3, <4>4
    <3>2. CASE i = pos /\ r[i] = new
      <4>1. CASE j = pos
        BY <1>1, <3>2, <4>1
      <4>2. CASE j - 1 \in pos .. n /\ j - 1 \in 1 .. n /\ r[j] = rs[j - 1]
        <5>1. L(j - 1) < m /\ L(j - 1) \in Nat
          BY <1>1, <1>3, <4>2
        <5> QED
          BY <1>1, <3>2, <4>2, <5>1
      <4>3. ~ (j \in 1 .. pos - 1)
        BY <1>1, <1>3, <2>1, <3>2
      <4> QED
        BY <1>5, <4>1, <4>2, <4>3
    <3>3. CASE i - 1 \in pos .. n /\ i - 1 \in 1 .. n /\ r[i] = rs[i - 1]
      <4>1. CASE j - 1 \in pos .. n /\ j - 1 \in 1 .. n /\ r[j] = rs[j - 1]
        <5>1. i - 1 <= j - 1
          BY <1>1, <2>1
        <5> QED
          BY <3>3, <4>1, <5>1 DEF Descending
      <4>2. ~ (j \in 1 .. pos - 1) /\ j # pos
        BY <1>1, <1>3, <2>1, <3>3
      <4> QED
        BY <1>5, <4>1, <4>2
    <3> QED
      BY <1>5, <3>1, <3>2, <3>3
  <2> QED
    BY <1>4, <2>1 DEF Descending
<1> QED
  BY <1>2, <1>4, <1>6, <1>7, <1>8, <1>9

\* g holds the virtual hosts after each of the first n turns.
RouteTurns(g, ctls, order, n) ==
    g = [i \in 0 .. n |-> IF i = 0 THEN NoRoutes ELSE AddRoute(ctls, g[i - 1], order[i])]

\* The loop can be run for any number of turns.
LEMMA RouteTurnsExist ==
    ASSUME NEW ctls, NEW order
    PROVE  \A n \in Nat : \E g : RouteTurns(g, ctls, order, n)
<1> DEFINE Bad == {n \in Nat : ~ \E g : RouteTurns(g, ctls, order, n)}
<1>1. SUFFICES ASSUME Bad # {} PROVE FALSE
  OBVIOUS
<1>2. PICK n \in Bad : \A k \in Bad : n <= k
  BY <1>1, HasLeast
<1>3. n \in Nat /\ ~ \E g : RouteTurns(g, ctls, order, n)
  OBVIOUS
<1>4. CASE n = 0
  <2>1. RouteTurns([i \in 0 .. 0 |-> NoRoutes], ctls, order, 0)
    BY DEF RouteTurns
  <2> QED
    BY <1>3, <1>4, <2>1
<1>5. CASE n # 0
  <2>1. n - 1 \in Nat /\ n - 1 \notin Bad
    BY <1>2, <1>3, <1>5
  <2>2. PICK g : RouteTurns(g, ctls, order, n - 1)
    BY <2>1
  <2> DEFINE h == [i \in 0 .. n |-> IF i <= n - 1 THEN g[i]
                                    ELSE AddRoute(ctls, g[n - 1], order[n])]
  <2>3. ASSUME NEW i \in 0 .. n
        PROVE  h[i] = IF i = 0 THEN NoRoutes ELSE AddRoute(ctls, h[i - 1], order[i])
    <3>1. CASE i = 0
      <4>1. 0 \in 0 .. n - 1 /\ h[0] = g[0]
        BY <2>1, <3>1
      <4>2. g[0] = NoRoutes
        BY <2>2, <4>1 DEF RouteTurns
      <4> QED
        BY <3>1, <4>1, <4>2
    <3>2. CASE i \in 1 .. n - 1
      <4>1. i \in 0 .. n - 1 /\ i - 1 \in 0 .. n - 1 /\ i # 0
        BY <2>1, <3>2
      <4>2. h[i] = g[i] /\ h[i - 1] = g[i - 1]
        BY <1>3, <4>1
      <4>3. g[i] = AddRoute(ctls, g[i - 1], order[i])
        BY <2>2, <4>1 DEF RouteTurns
      <4> QED
        BY <4>1, <4>2, <4>3
    <3>3. CASE i = n
      <4>1. n # 0 /\ n - 1 \in 0 .. n - 1 /\ ~ (n <= n - 1)
        BY <1>3, <1>5, <2>1
      <4>2. h[n] = AddRoute(ctls, g[n - 1], order[n]) /\ h[n - 1] = g[n - 1]
        BY <1>3, <4>1
      <4> QED
        BY <3>3, <4>1, <4>2
    <3> QED
      BY <1>3, <3>1, <3>2, <3>3
  <2>4. h = [i \in 0 .. n |-> IF i = 0 THEN NoRoutes ELSE AddRoute(ctls, h[i - 1], order[i])]
    BY <2>3
  <2>5. RouteTurns(h, ctls, order, n)
    BY <2>4 DEF RouteTurns
  <2> QED
    BY <1>3, <2>5
<1> QED
  BY <1>4, <1>5

\* One turn.
LEMMA AddRouteKeeps ==
    ASSUME NEW ctls \in Sources, NEW ids \in SUBSET Known(ctls), NEW id \in Known(ctls),
           NEW vhs, RoutesOf(vhs, ctls, ids)
    PROVE  RoutesOf(AddRoute(ctls, vhs, id), ctls, ids \cup {id})
<1> DEFINE dom == Domain(ctls[id])
           new == SingleRoute(ctls, id)
           r == InsertRoute(vhs[dom], new)
           vhs2 == AddRoute(ctls, vhs, id)
<1>1. dom \in Domains /\ new \in RouteEntry
  BY ControlTypes
<1>2. vhs \in VHosts /\ vhs[dom] \in Seq(RouteEntry) /\ Descending(vhs[dom])
  BY <1>1 DEF RoutesOf, VHosts
<1>3. /\ r \in Seq(RouteEntry)
      /\ Descending(r)
      /\ \A i \in 1 .. Len(r) : r[i] = new \/ \E j \in 1 .. Len(vhs[dom]) : r[i] = vhs[dom][j]
      /\ \E i \in 1 .. Len(r) : r[i] = new
      /\ \A j \in 1 .. Len(vhs[dom]) : \E i \in 1 .. Len(r) : r[i] = vhs[dom][j]
  BY <1>1, <1>2, InsertRouteKeeps
<1>4. vhs2 = [vhs EXCEPT ![dom] = r]
  BY DEF AddRoute
<1> HIDE DEF r, vhs2
<1>5. vhs2 \in VHosts /\ vhs2[dom] = r /\ \A d \in Domains : d # dom => vhs2[d] = vhs[d]
  BY <1>1, <1>2, <1>3, <1>4 DEF VHosts
<1>6. \A d \in Domains : Descending(vhs2[d])
  BY <1>3, <1>5 DEF RoutesOf
<1>7. ASSUME NEW d \in Domains, NEW i \in 1 .. Len(vhs2[d])
      PROVE  \E k \in ids \cup {id} : Domain(ctls[k]) = d /\ vhs2[d][i] = SingleRoute(ctls, k)
  <2>1. CASE d # dom
    BY <1>5, <2>1 DEF RoutesOf
  <2>2. CASE d = dom
    <3>1. CASE r[i] = new
      BY <1>5, <2>2, <3>1
    <3>2. CASE \E j \in 1 .. Len(vhs[dom]) : r[i] = vhs[dom][j]
      <4>1. PICK j \in 1 .. Len(vhs[dom]) : r[i] = vhs[dom][j]
        BY <3>2
      <4>2. PICK k \in ids : Domain(ctls[k]) = dom /\ vhs[dom][j] = SingleRoute(ctls, k)
        BY <1>1 DEF RoutesOf
      <4> QED
        BY <1>5, <2>2, <4>1, <4>2
    <3> QED
      BY <1>3, <1>5, <2>2, <3>1, <3>2
  <2> QED
    BY <2>1, <2>2
<1>8. ASSUME NEW k \in ids \cup {id}
      PROVE  \E i \in 1 .. Len(vhs2[Domain(ctls[k])]) :
               vhs2[Domain(ctls[k])][i] = SingleRoute(ctls, k)
  <2>1. CASE k = id
    BY <1>3, <1>5, <2>1
  <2>2. CASE k \in ids
    <3>1. PICK j \in 1 .. Len(vhs[Domain(ctls[k])]) :
            vhs[Domain(ctls[k])][j] = SingleRoute(ctls, k)
      BY <2>2 DEF RoutesOf
    <3>2. k \in Known(ctls)
      BY <2>2
    <3>3. Domain(ctls[k]) \in Domains
      BY <3>2, ControlTypes
    <3>4. CASE Domain(ctls[k]) = dom
      BY <1>3, <1>5, <3>1, <3>4
    <3>5. CASE Domain(ctls[k]) # dom
      BY <1>5, <3>1, <3>3, <3>5
    <3> QED
      BY <3>4, <3>5
  <2> QED
    BY <2>1, <2>2
<1>9. RoutesOf(vhs2, ctls, ids \cup {id})
  BY <1>5, <1>6, <1>7, <1>8 DEF RoutesOf
<1> QED
  BY <1>9 DEF vhs2

\* The whole loop.
LEMMA RoutesAreMade ==
    ASSUME NEW ctls \in Sources, NEW order \in Orders(ctls)
    PROVE  RoutesOf(MakeRoutes(ctls, order), ctls, Known(ctls))
<1> DEFINE N == Len(order)
           seen(n) == {order[i] : i \in 1 .. n}
           after == CHOOSE g : RouteTurns(g, ctls, order, N)
           Bad == {n \in Nat : n <= N /\ ~ RoutesOf(after[n], ctls, seen(n))}
<1>1. /\ N \in Nat /\ seen(N) = Known(ctls)
      /\ \A i \in 1 .. N : order[i] \in Known(ctls)
  BY OrderVisitsAll
<1>2. RouteTurns(after, ctls, order, N)
  BY <1>1, RouteTurnsExist
<1>3. MakeRoutes(ctls, order) = after[N]
  BY DEF MakeRoutes, RouteTurns
<1> HIDE DEF after, N
<1>4. Bad = {}
  <2>1. SUFFICES ASSUME Bad # {} PROVE FALSE
    OBVIOUS
  <2>2. PICK n \in Bad : \A k \in Bad : n <= k
    BY <2>1, HasLeast
  <2>3. n \in Nat /\ n <= N /\ ~ RoutesOf(after[n], ctls, seen(n))
    OBVIOUS
  <2>4. CASE n = 0
    <3>1. 0 \in 0 .. N /\ 1 .. 0 = {}
      BY <1>1
    <3>2. after[0] = NoRoutes
      BY <1>2, <3>1 DEF RouteTurns
    <3>3. seen(0) = {}
      BY <3>1
    <3>4. RoutesOf(NoRoutes, ctls, {})
      <4>1. NoRoutes \in VHosts /\ \A d \in Domains : NoRoutes[d] = <<>> /\ Len(NoRoutes[d]) = 0
        BY EmptySeq DEF NoRoutes, VHosts
      <4>2. \A d \in Domains : 1 .. Len(NoRoutes[d]) = {}
        BY <4>1
      <4> QED
        BY <4>1, <4>2 DEF RoutesOf, Descending
    <3> QED
      BY <2>3, <2>4, <3>2, <3>3, <3>4
  <2>5. CASE n # 0
    <3>1. n - 1 \in Nat /\ n - 1 <= N /\ n \in 1 .. N /\ n \in 0 .. N /\ ~ (n <= n - 1)
      <4> HIDE DEF seen
      <4> QED
        BY <1>1, <2>3, <2>5
    <3>2. RoutesOf(after[n - 1], ctls, seen(n - 1))
      <4>1. n - 1 \notin Bad
        BY <2>2, <3>1
      <4> QED
        BY <3>1, <4>1
    <3>3. after[n] = AddRoute(ctls, after[n - 1], order[n])
      BY <1>2, <2>5, <3>1 DEF RouteTurns
    <3>4. seen(n - 1) \in SUBSET Known(ctls) /\ order[n] \in Known(ctls)
      BY <1>1, <3>1
    <3>5. seen(n) = seen(n - 1) \cup {order[n]}
      <4>1. 1 .. n = (1 .. n - 1) \cup {n}
        BY <3>1
      <4> QED
        BY <4>1
    <3>6. RoutesOf(AddRoute(ctls, after[n - 1], order[n]), ctls, seen(n - 1) \cup {order[n]})
      BY <3>2, <3>4, AddRouteKeeps
    <3> QED
      BY <2>3, <3>3, <3>5, <3>6
  <2> QED
    BY <2>4, <2>5
<1>5. RoutesOf(after[N], ctls, seen(N))
  BY <1>1, <1>4
<1> QED
  BY <1>1, <1>3, <1>5

-----------------------------------------------------------------------------
(***************************************************************************)
(* The invariant holds at the start and is kept by every action.           *)
(***************************************************************************)
SnapType == [ver : Sources, args : Args, clusters : SUBSET Cluster, vhosts : VHosts]

\* generateSnapshot, whatever the orders of its two loops.
LEMMA GeneratedSnapshot ==
    ASSUME NEW ctls \in Tables, NEW a \in Args, NEW s \in Snapshots(ctls, a)
    PROVE  /\ s \in SnapType
           /\ s.ver = ctls /\ s.args = a
           /\ ClustersOf(s.clusters, ctls, Known(ctls))
           /\ RoutesOf(s.vhosts, ctls, Known(ctls))
<1>1. ctls \in Sources
  BY TablesAreSources
<1>2. Generate[ctls] = [clusters : {MakeClusters(ctls, o) : o \in Orders(ctls)},
                        vhosts   : {MakeRoutes(ctls, o) : o \in Orders(ctls)}]
  BY DEF Generate
<1>3. PICK g \in Generate[ctls] :
        s = [ver |-> Checksum(ctls), args |-> a, clusters |-> g.clusters, vhosts |-> g.vhosts]
  BY DEF Snapshots
<1>4. /\ g.clusters \in {MakeClusters(ctls, o) : o \in Orders(ctls)}
      /\ g.vhosts \in {MakeRoutes(ctls, o) : o \in Orders(ctls)}
  BY <1>2, <1>3
<1>5. ClustersOf(g.clusters, ctls, Known(ctls))
  BY <1>1, <1>4, ClustersAreMade
<1>6. RoutesOf(g.vhosts, ctls, Known(ctls))
  BY <1>1, <1>4, RoutesAreMade
<1>7. g.clusters \subseteq Cluster
  BY <1>1, <1>5, ControlTypes DEF ClustersOf
<1>8. g.vhosts \in VHosts
  BY <1>6 DEF RoutesOf
<1>9. Checksum(ctls) = ctls
  BY DEF Checksum
<1>10. s.ver = ctls /\ s.args = a /\ s.clusters = g.clusters /\ s.vhosts = g.vhosts
  BY <1>3, <1>9
<1>11. s \in SnapType
  BY <1>1, <1>3, <1>7, <1>8, <1>9 DEF SnapType
<1> QED
  BY <1>5, <1>6, <1>10, <1>11

\* A merge with a published list, or with none, is a table.
LEMMA MergesAreTables ==
    /\ Merge(NoSources) \in Tables
    /\ \A s \in Updates : Merge(s) \in Tables
BY DEF Tables

LEMMA InitHolds == Init => IInv
<1> SUFFICES ASSUME Init PROVE IInv
  OBVIOUS
<1>1. proxyCtls \in Tables /\ proxyCtls \in Sources /\ xdsArgs \in Args
  BY MergesAreTables, TablesAreSources DEF Init
<1>2. snap \in Snapshots(proxyCtls, xdsArgs)
  BY DEF Init
<1>3. /\ snap \in SnapType /\ snap.ver = proxyCtls
      /\ ClustersOf(snap.clusters, proxyCtls, Known(proxyCtls))
      /\ RoutesOf(snap.vhosts, proxyCtls, Known(proxyCtls))
  BY <1>1, <1>2, GeneratedSnapshot
<1>4. NoRoutes \in VHosts
  BY EmptySeq DEF NoRoutes, VHosts
<1>5. TypeOK
  BY <1>1, <1>3, <1>4 DEF Init, TypeOK, SnapType
<1>6. rds.ver = None /\ cds.ver = None
  BY DEF Init
<1> QED
  BY <1>1, <1>3, <1>5, <1>6 DEF IInv

LEMMA NextKeeps ==
    ASSUME IInv, [Next]_vars
    PROVE  IInv'
<1> USE DEF IInv
<1>1. CASE \E s \in Updates : UpdateCtls(s)
  <2>1. proxyCtls' \in Tables /\ UNCHANGED <<xdsArgs, snap, cds, rds, lds, returned>>
    BY <1>1, MergesAreTables DEF UpdateCtls, envoy
  <2>2. TypeOK'
    BY <2>1, TablesAreSources DEF TypeOK
  <2> QED
    BY <2>1, <2>2
<1>2. CASE RefreshSnapshot
  <2>1. /\ snap' \in Snapshots(proxyCtls, xdsArgs)
        /\ UNCHANGED <<proxyCtls, xdsArgs, cds, rds, lds, returned>>
    BY <1>2 DEF RefreshSnapshot, envoy
  <2>2. xdsArgs \in Args
    BY DEF TypeOK
  <2>3. /\ snap' \in SnapType /\ snap'.ver = proxyCtls
        /\ ClustersOf(snap'.clusters, proxyCtls, Known(proxyCtls))
        /\ RoutesOf(snap'.vhosts, proxyCtls, Known(proxyCtls))
    BY <2>1, <2>2, GeneratedSnapshot
  <2>4. TypeOK'
    BY <2>1, <2>3 DEF TypeOK, SnapType
  <2> QED
    BY <2>1, <2>3, <2>4
<1>3. CASE \E a \in Args : Restart(a)
  <2>1. PICK a \in Args : Restart(a)
    BY <1>3
  <2>2. /\ proxyCtls' = Merge(NoSources) /\ xdsArgs' = a
        /\ snap' \in Snapshots(proxyCtls', a)
        /\ returned' = {} /\ UNCHANGED <<cds, rds, lds>>
    BY <2>1 DEF Restart
  <2>3. proxyCtls' \in Tables /\ proxyCtls' \in Sources
    BY <2>2, MergesAreTables, TablesAreSources
  <2>4. /\ snap' \in SnapType /\ snap'.ver = proxyCtls'
        /\ ClustersOf(snap'.clusters, proxyCtls', Known(proxyCtls'))
        /\ RoutesOf(snap'.vhosts, proxyCtls', Known(proxyCtls'))
    BY <2>2, <2>3, GeneratedSnapshot
  <2>5. TypeOK'
    BY <2>2, <2>3, <2>4 DEF TypeOK, SnapType
  <2> QED
    BY <2>2, <2>3, <2>4, <2>5
<1>4. CASE \E t \in {"cds", "rds", "lds"} : StreamBreak(t)
  <2>1. /\ UNCHANGED <<proxyCtls, xdsArgs, snap, cds, rds, lds>>
        /\ returned' \subseteq returned
    BY <1>4 DEF StreamBreak, server
  <2>2. TypeOK'
    BY <2>1 DEF TypeOK
  <2> QED
    BY <2>1, <2>2
<1>5. snap.ver \in Sources /\ snap.args \in Args /\ snap.clusters \subseteq Cluster
      /\ snap.vhosts \in VHosts
  BY DEF TypeOK
<1>6. CASE SendClusters
  <2>1. /\ UNCHANGED <<proxyCtls, xdsArgs, snap, rds, lds>>
        /\ returned' = returned \cup {"cds"}
        /\ cds' = [ver |-> snap.ver, args |-> snap.args, clusters |-> snap.clusters]
    BY <1>6 DEF SendClusters, Due, server
  <2>2. TypeOK'
    BY <1>5, <2>1 DEF TypeOK
  <2>3. cds'.ver = snap.ver /\ cds'.clusters = snap.clusters
    BY <2>1
  <2> QED
    BY <2>1, <2>2, <2>3
<1>7. CASE SendListener
  <2>1. /\ UNCHANGED <<proxyCtls, xdsArgs, snap, cds, rds>>
        /\ returned' = returned \cup {"lds"}
        /\ lds' = [ver |-> snap.ver, args |-> snap.args]
    BY <1>7 DEF SendListener, Due, server
  <2>2. TypeOK'
    BY <1>5, <2>1 DEF TypeOK
  <2> QED
    BY <2>1, <2>2
<1>8. CASE SendRoutes
  <2>1. /\ UNCHANGED <<proxyCtls, xdsArgs, snap, cds, lds>>
        /\ returned' = returned \cup {"rds"}
        /\ rds' = [ver |-> snap.ver, args |-> snap.args, vhosts |-> snap.vhosts]
    BY <1>8 DEF SendRoutes, Due, server
  <2>2. TypeOK'
    BY <1>5, <2>1 DEF TypeOK
  <2>3. rds'.ver = snap.ver /\ rds'.vhosts = snap.vhosts
    BY <2>1
  <2> QED
    BY <2>1, <2>2, <2>3
<1>9. CASE UNCHANGED vars
  <2>1. UNCHANGED <<proxyCtls, xdsArgs, snap, cds, rds, lds, returned>>
    BY <1>9 DEF vars, server, envoy
  <2>2. TypeOK'
    BY <2>1 DEF TypeOK
  <2> QED
    BY <2>1, <2>2
<1> QED
  BY <1>1, <1>2, <1>3, <1>4, <1>6, <1>7, <1>8, <1>9 DEF Next

-----------------------------------------------------------------------------
(***************************************************************************)
(* What the invariant says of requests, clusters and authorization.        *)
(***************************************************************************)
\* The first matching route of a virtual host, with the routes in descending
\* order, is one of a most specific control.
LEMMA FirstMatchIsLongest ==
    ASSUME NEW ctls \in Sources, NEW vhs, RoutesOf(vhs, ctls, Known(ctls)), NEW q \in Requests
    PROVE  ServedRight(vhs, ctls, q)
<1> DEFINE dom == IF vhs[q.host] # <<>> THEN q.host ELSE AnyHost
           rs == vhs[dom]
           hits == {i \in 1 .. Len(rs) : IsPrefix(rs[i].prefix, q.path)}
           own == {id \in Known(ctls) : Domain(ctls[id]) = q.host}
           near == IF own # {} THEN own ELSE {id \in Known(ctls) : Domain(ctls[id]) = AnyHost}
           hit == {id \in near : IsPrefix(ctls[id].prefix, q.path)}
           best == {id \in hit : \A j \in hit : Len(ctls[j].prefix) <= Len(ctls[id].prefix)}
           first == CHOOSE i \in hits : \A j \in hits : i <= j
           p == Pick(vhs, q)
<1>1. /\ q.host \in Domains /\ AnyHost \in Domains
      /\ \A d \in Domains : vhs[d] \in Seq(RouteEntry) /\ Len(vhs[d]) \in Nat
  BY SnapshotAssumption DEF RoutesOf, VHosts, Domains
<1>2. \A d \in Domains : vhs[d] # <<>> <=> \E id \in Known(ctls) : Domain(ctls[id]) = d
  <2>1. ASSUME NEW d \in Domains, vhs[d] # <<>>
        PROVE  \E id \in Known(ctls) : Domain(ctls[id]) = d
    <3>1. 1 \in 1 .. Len(vhs[d])
      BY <1>1, <2>1, EmptySeq
    <3> QED
      BY <3>1 DEF RoutesOf
  <2>2. ASSUME NEW d \in Domains, NEW id \in Known(ctls), Domain(ctls[id]) = d
        PROVE  vhs[d] # <<>>
    <3>1. PICK i \in 1 .. Len(vhs[d]) : TRUE
      BY <2>2 DEF RoutesOf
    <3>2. Len(vhs[d]) # 0
      BY <1>1, <3>1
    <3> QED
      BY <3>2, EmptySeq
  <2> QED
    BY <2>1, <2>2
<1>3. own # {} <=> vhs[q.host] # <<>>
  BY <1>1, <1>2
<1>4. near = {id \in Known(ctls) : Domain(ctls[id]) = dom} /\ dom \in Domains
  BY <1>1, <1>3
<1>5. Serving(ctls, q) = best
  BY DEF Serving
<1>6. p = IF hits = {} THEN None ELSE rs[first]
  <2>1. VHostOf(vhs, q) = rs
    BY DEF VHostOf
  <2> HIDE DEF rs
  <2> QED
    BY <2>1 DEF Pick
<1> HIDE DEF dom, near, p
<1>7. \A i \in 1 .. Len(rs) : \E id \in near : rs[i] = SingleRoute(ctls, id)
  BY <1>4 DEF RoutesOf
<1>8. \A id \in near : \E i \in 1 .. Len(rs) : rs[i] = SingleRoute(ctls, id)
  BY <1>4 DEF RoutesOf
<1>9. \A id \in Known(ctls) : /\ SingleRoute(ctls, id).prefix = ctls[id].prefix
                              /\ SingleRoute(ctls, id).id = id
                              /\ SingleRoute(ctls, id).cluster = ClusterName[ctls[id].dst]
                              /\ SingleRoute(ctls, id) \in RouteEntry
                              /\ Len(ctls[id].prefix) \in Nat
  BY ControlTypes, PrefixLength
<1>10. near \subseteq Known(ctls) /\ Descending(rs) /\ Len(rs) \in Nat
  BY <1>1, <1>4 DEF RoutesOf
<1> HIDE DEF rs
<1>11. \A id \in hit : \E i \in hits : rs[i] = SingleRoute(ctls, id)
  BY <1>8, <1>9, <1>10
<1>12. \A i \in hits : \E id \in hit : rs[i] = SingleRoute(ctls, id)
  BY <1>7, <1>9, <1>10
<1>13. CASE hits = {}
  <2>1. best = {}
    BY <1>11, <1>13
  <2> QED
    BY <1>5, <1>6, <1>13, <2>1 DEF ServedRight, p
<1>14. CASE hits # {}
  <2>1. hits \subseteq Nat
    OBVIOUS
  <2>2. \E x \in hits : \A y \in hits : x <= y
    BY <1>14, <2>1, HasLeast
  <2>3. first \in hits /\ \A j \in hits : first <= j
    BY <2>2
  <2> HIDE DEF first
  <2>4. PICK id \in hit : rs[first] = SingleRoute(ctls, id)
    BY <1>12, <2>3
  <2>5. ASSUME NEW j \in hit PROVE Len(ctls[j].prefix) <= Len(ctls[id].prefix)
    <3>1. PICK i \in hits : rs[i] = SingleRoute(ctls, j)
      BY <1>11
    <3>2. first <= i /\ first \in 1 .. Len(rs) /\ i \in 1 .. Len(rs)
      BY <2>3, <3>1
    <3>3. Len(rs[first].prefix) >= Len(rs[i].prefix)
      BY <1>10, <3>2 DEF Descending
    <3>4. j \in Known(ctls) /\ id \in Known(ctls)
      BY <1>10
    <3> QED
      BY <1>9, <2>4, <3>1, <3>3, <3>4
  <2>6. id \in best
    BY <2>4, <2>5
  <2>7. id \in Known(ctls)
    BY <1>10
  <2>8. p = SingleRoute(ctls, id)
    BY <1>6, <1>14, <2>4
  <2>9. p.id = id /\ p.cluster = ClusterName[ctls[id].dst] /\ p \in RouteEntry
    BY <1>9, <2>7, <2>8
  <2>10. p # None
    BY <2>9, RouteAssumption
  <2> QED
    BY <1>5, <2>6, <2>9, <2>10 DEF ServedRight, p
<1> QED
  BY <1>13, <1>14

\* What Envoy picks is the route of a control.
LEMMA PickIsOfControl ==
    ASSUME NEW ctls \in Sources, NEW vhs, RoutesOf(vhs, ctls, Known(ctls)), NEW q \in Requests,
           Pick(vhs, q) # None
    PROVE  \E id \in Known(ctls) : Pick(vhs, q) = SingleRoute(ctls, id)
<1> DEFINE rs == VHostOf(vhs, q)
           hits == {i \in 1 .. Len(rs) : IsPrefix(rs[i].prefix, q.path)}
           first == CHOOSE i \in hits : \A j \in hits : i <= j
<1>1. PICK d \in Domains : rs = vhs[d]
  BY SnapshotAssumption DEF VHostOf, Domains
<1> HIDE DEF rs
<1>2. Pick(vhs, q) = IF hits = {} THEN None ELSE rs[first]
  BY DEF Pick, rs
<1>3. hits # {} /\ Pick(vhs, q) = rs[first]
  BY <1>2
<1>4. first \in hits
  <2>1. hits \subseteq Nat
    OBVIOUS
  <2>2. \E x \in hits : \A y \in hits : x <= y
    BY <1>3, <2>1, HasLeast
  <2> QED
    BY <2>2
<1> HIDE DEF first
<1>5. first \in 1 .. Len(vhs[d])
  BY <1>1, <1>4
<1>6. \E id \in Known(ctls) : vhs[d][first] = SingleRoute(ctls, id)
  BY <1>5 DEF RoutesOf
<1> QED
  BY <1>1, <1>3, <1>6

\* A route's cluster leads where its control says, but for a shared name.
LEMMA ClusterLeads ==
    ASSUME NEW ctls \in Sources, NEW cl, ClustersOf(cl, ctls, Known(ctls)),
           NEW id \in Known(ctls)
    PROVE  LeadsTo(cl, ctls, SingleRoute(ctls, id))
<1> DEFINE rt == SingleRoute(ctls, id)
           mine == {c \in cl : c.name = rt.cluster}
           namers == {k \in Known(ctls) : ClusterName[ctls[k].dst] = rt.cluster}
<1>1. rt.cluster = ClusterName[ctls[id].dst] /\ rt.id = id
  BY ControlTypes
<1>2. PICK c \in cl : c.name = rt.cluster
  BY <1>1 DEF ClustersOf
<1>3. mine = {c}
  BY <1>2 DEF ClustersOf
<1>4. PICK k \in Known(ctls) : c = ClusterOf(ctls, k)
  BY DEF ClustersOf
<1>5. c.name = ClusterName[ctls[k].dst] /\ c.dst = ctls[k].dst
  BY <1>4, ControlTypes
<1>6. k \in namers
  BY <1>2, <1>5
<1>7. c.dst \in {ctls[j].dst : j \in namers}
  BY <1>5, <1>6
<1>8. (\A j \in namers : ctls[j].dst = ctls[rt.id].dst) => c.dst = ctls[rt.id].dst
  BY <1>5, <1>6
<1> HIDE DEF rt
<1>9. LeadsTo(cl, ctls, rt)
  BY <1>2, <1>3, <1>7, <1>8 DEF LeadsTo
<1> QED
  BY <1>9 DEF rt

-----------------------------------------------------------------------------
(***************************************************************************)
(* The theorems.                                                           *)
(***************************************************************************)
\* The inductive invariant holds throughout: for any controls, published
\* lists, static file and arguments, and any orders of the loops.
THEOREM Invariance == Spec => []IInv
  BY InitHolds, NextKeeps, PTL DEF Spec

\* Every variable keeps its type: generateSnapshot makes only clusters and
\* routes of its controls.
THEOREM TypeCorrect == Spec => []TypeOK
<1>1. IInv => TypeOK
  BY DEF IInv
<1> QED
  BY <1>1, Invariance, PTL

\* makeRoutes orders routes so that Envoy, which takes the first match, sends
\* every request to a most specific control of the version it holds.
THEOREM MostSpecificRoute == Spec => []LongestPrefixWins
<1>1. IInv => LongestPrefixWins
  <2> SUFFICES ASSUME IInv, rds.ver # None, NEW q \in Requests
               PROVE  ServedRight(rds.vhosts, rds.ver, q)
    BY DEF LongestPrefixWins
  <2>1. rds.ver \in Sources /\ RoutesOf(rds.vhosts, rds.ver, Known(rds.ver))
    BY DEF IInv, TypeOK
  <2> QED
    BY <2>1, FirstMatchIsLongest
<1> QED
  BY <1>1, Invariance, PTL

\* makeClusters and makeRoutes, which visit the controls in orders of their
\* own, agree: the cluster a route names is in the snapshot exactly once, and
\* only a name that normalizeName makes shared can mislead it.
THEOREM SnapshotIsClosed == Spec => []RoutesHaveClusters
<1>1. IInv => RoutesHaveClusters
  <2> SUFFICES ASSUME IInv, NEW d \in Domains, NEW i \in 1 .. Len(snap.vhosts[d])
               PROVE  LeadsTo(snap.clusters, snap.ver, snap.vhosts[d][i])
    BY DEF RoutesHaveClusters
  <2>1. snap.ver \in Sources /\ ClustersOf(snap.clusters, snap.ver, Known(snap.ver))
    BY TablesAreSources DEF IInv
  <2>2. PICK id \in Known(snap.ver) : snap.vhosts[d][i] = SingleRoute(snap.ver, id)
    BY DEF IInv, RoutesOf
  <2> QED
    BY <2>1, <2>2, ClusterLeads
<1> QED
  BY <1>1, Invariance, PTL

\* The two streams agree at every version, whatever orders the clusters and
\* the routes were made in: makeClusters and makeRoutes determine, up to the
\* order of equal prefixes and the choice among shared names, the same thing
\* at every refresh of the same controls.
THEOREM StreamsAgree == Spec => []SameVersionAgrees
<1>1. IInv => SameVersionAgrees
  <2> SUFFICES ASSUME IInv, rds.ver # None, cds.ver = rds.ver, NEW q \in Requests,
                      Pick(rds.vhosts, q) # None
               PROVE  LeadsTo(cds.clusters, rds.ver, Pick(rds.vhosts, q))
    BY DEF SameVersionAgrees
  <2>1. /\ rds.ver \in Sources
        /\ RoutesOf(rds.vhosts, rds.ver, Known(rds.ver))
        /\ ClustersOf(cds.clusters, rds.ver, Known(rds.ver))
    BY DEF IInv, TypeOK
  <2>2. PICK id \in Known(rds.ver) : Pick(rds.vhosts, q) = SingleRoute(rds.ver, id)
    BY <2>1, PickIsOfControl
  <2> QED
    BY <2>1, <2>2, ClusterLeads
<1> QED
  BY <1>1, Invariance, PTL

\* A route without authorization is the static file's, however published
\* lists replace its ID (Decode, updateCtls, singleRoute).
THEOREM OnlyStaticSkipsAuth == Spec => []NoAuthIsStatic
<1>1. IInv => NoAuthIsStatic
  <2> SUFFICES ASSUME IInv, NEW d \in Domains, NEW i \in 1 .. Len(snap.vhosts[d]),
                      ~snap.vhosts[d][i].authz
               PROVE  /\ StaticSrc[snap.vhosts[d][i].id] # None
                      /\ StaticSrc[snap.vhosts[d][i].id].noAuth
                      /\ snap.vhosts[d][i].cluster = ClusterName[StaticSrc[snap.vhosts[d][i].id].dst]
    BY DEF NoAuthIsStatic
  <2>1. snap.ver \in Sources /\ snap.ver \in Tables
    BY TablesAreSources DEF IInv
  <2>2. PICK id \in Known(snap.ver) : snap.vhosts[d][i] = SingleRoute(snap.ver, id)
    BY DEF IInv, RoutesOf
  <2>3. /\ id \in IDs /\ snap.ver[id] # None /\ snap.ver[id].noAuth \in BOOLEAN
        /\ snap.vhosts[d][i].id = id
        /\ snap.vhosts[d][i].authz = ~snap.ver[id].noAuth
        /\ snap.vhosts[d][i].cluster = ClusterName[snap.ver[id].dst]
    BY <2>1, <2>2, ControlTypes DEF Known
  <2>4. snap.ver[id].noAuth
    BY <2>3
  <2>5. snap.ver[id] = StaticSrc[id]
    BY <2>1, <2>3, <2>4, TablesAreSources
  <2> QED
    BY <2>3, <2>4, <2>5
<1> QED
  BY <1>1, Invariance, PTL
=============================================================================
