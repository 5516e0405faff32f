-------------------------------- MODULE Snapshot --------------------------------
(***************************************************************************)
(* The xds process: updateCtls of internal/wormhole/registry merges the    *)
(* static file and the registry's sources, and internal/envoy turns the    *)
(* controls into an Envoy snapshot at start and at every tick              *)
(* (generateSnapshot, makeClusters, makeRoutes, makeHTTPListener).  Envoy  *)
(* follows clusters, routes and the listener on streams of their own.  It  *)
(* is sent a resource type when the version it has differs from the        *)
(* snapshot's, and once on every new stream.                               *)
(*                                                                         *)
(* Resources are made from the controls and from the arguments of the xds  *)
(* process (timeouts, listener address, filters), the version from the     *)
(* controls alone.  Arguments change when the process is started again.    *)
(*                                                                         *)
(* Go ranges over maps in any order, so every loop over the controls is a  *)
(* choice of an order.                                                     *)
(***************************************************************************)
EXTENDS Integers, Sequences, FiniteSets, SequencesExt

CONSTANTS
    IDs,           \* route IDs
    Hosts,         \* host names of route sources
    Localhosts,    \* the ones IsLocalhost recognizes
    Paths,         \* normalized source paths, as sequences of characters
    Dests,         \* destinations: host, a sequence of characters, and port
    NameChars,     \* the characters allowedPattern keeps
    MaxName,       \* the longest name that is not replaced by its hash
    Args,          \* the arguments the xds process may be started with
    StaticSrc,     \* [IDs -> RawSource or None]: the static file
    Updates,       \* the source lists the registry may publish
    Requests,      \* inbound requests [host, path]
    MaxUpdates,    \* bound on published updates
    MaxFaults,     \* bound on restarts of the xds process and broken streams
    AnyHost,       \* the domain "*"
    None

\* RawSource, as far as routing goes.
RawSource == [host : Hosts, prefix : Paths, dst : Dests, noAuth : BOOLEAN]

Sources == [IDs -> RawSource \cup {None}]

ASSUME SnapshotAssumption ==
    /\ IsFiniteSet(IDs)
    /\ Localhosts \subseteq Hosts
    /\ AnyHost \notin Hosts
    /\ None \notin RawSource
    /\ \A p \in Paths : Len(p) \in Nat
    /\ \A d \in Dests : d.port \in NameChars
    /\ MaxName \in Nat
    /\ StaticSrc \in Sources
    /\ Updates \subseteq Sources
    /\ \A q \in Requests : q.host \in Hosts
    /\ {MaxUpdates, MaxFaults} \subseteq Nat

VARIABLES
    proxyCtls,  \* the registry's proxy controls: ID -> source, or None
    xdsArgs,    \* the arguments of the running xds process
    snap,       \* the snapshot in the cache: version, arguments, clusters, vhosts
    cds,        \* the clusters Envoy has: version, arguments, clusters
    rds,        \* the routes Envoy has: version, arguments, vhosts
    lds,        \* the listener Envoy has: version, arguments
    returned,   \* the types already sent on the stream that is open for them
    budget      \* updates and faults left

server == <<proxyCtls, xdsArgs, snap>>
envoy  == <<cds, rds, lds, returned>>
vars   == <<server, envoy, budget>>

\* One use of a bounded behaviour of the environment.
Spend(what) == budget[what] > 0 /\ budget' = [budget EXCEPT ![what] = @ - 1]

-----------------------------------------------------------------------------
(***************************************************************************)
(* The controls.                                                           *)
(***************************************************************************)
\* Seeded fault: the registry's sources are decoded as static ones are.
DecodeStatic(s) == s

\* Decoding a published source: NoAuth has no JSON form.
Decode(s) == [s EXCEPT !.noAuth = FALSE]

\* updateCtls: the static sources, then the published ones, by ID.
Merge(sources) ==
    [id \in IDs |-> IF sources[id] # None THEN Decode(sources[id]) ELSE StaticSrc[id]]

NoSources == [id \in IDs |-> None]

\* The tables of controls there may be.
Tables == {Merge(s) : s \in Updates \cup {NoSources}}

Known(ctls) == {id \in IDs : ctls[id] # None}

-----------------------------------------------------------------------------
(***************************************************************************)
(* generateSnapshot.  Orders(ctls) are the orders in which a range over    *)
(* the controls may visit them.                                            *)
(***************************************************************************)
Orders(ctls) == SetToSeqs(Known(ctls))

\* normalizeName: a name that is too long becomes its hash, taken to be free
\* of collisions; other names lose the characters outside allowedPattern.
NormalizeName(s) ==
    IF Len(s) > MaxName THEN [hash |-> s]
    ELSE [plain |-> SelectSeq(s, LAMBDA c : c \in NameChars)]

\* clusterName: from host and port, so destinations may share a name.
ClusterName == [d \in Dests |-> NormalizeName(Append(d.host, d.port))]

\* domain: a localhost source is served under any host.
Domain(s) == IF s.host \in Localhosts THEN AnyHost ELSE s.host

Domains == Hosts \cup {AnyHost}

Cluster == [name : {ClusterName[d] : d \in Dests}, dst : Dests]

RouteEntry == [prefix : Paths, cluster : {ClusterName[d] : d \in Dests},
               id : IDs, authz : BOOLEAN]

ASSUME RouteAssumption == None \notin RouteEntry

\* Seeded fault: the route names its destination, not the cluster.
SingleRouteToHost(ctls, id) ==
    [prefix  |-> ctls[id].prefix,
     cluster |-> ctls[id].dst,
     id      |-> id,
     authz   |-> ~ctls[id].noAuth]

\* singleRoute: prefix match, cluster, and the authorization filter, disabled
\* or bound to the route's ID.
SingleRoute(ctls, id) ==
    [prefix  |-> ctls[id].prefix,
     cluster |-> ClusterName[ctls[id].dst],
     id      |-> id,
     authz   |-> ~ctls[id].noAuth]

\* Seeded fault: a new route goes before the first one that is longer.
InsertShortestFirst(rs, new) ==
    LET Later == {i \in 1 .. Len(rs) : Len(new.prefix) < Len(rs[i].prefix)}
        pos == IF Later = {} THEN Len(rs) + 1
               ELSE CHOOSE i \in Later : \A j \in Later : i <= j
    IN  InsertAt(rs, pos, new)

\* makeRoutes, the insertion: before the first route whose prefix is shorter,
\* else at the end.
InsertRoute(rs, new) ==
    LET Shorter == {i \in 1 .. Len(rs) : Len(new.prefix) > Len(rs[i].prefix)}
        pos == IF Shorter = {} THEN Len(rs) + 1
               ELSE CHOOSE i \in Shorter : \A j \in Shorter : i <= j
    IN  InsertAt(rs, pos, new)

\* makeRoutes, the loop's body: one virtual host per domain.
AddRoute(ctls, vhs, id) ==
    [vhs EXCEPT ![Domain(ctls[id])] = InsertRoute(@, SingleRoute(ctls, id))]

NoRoutes == [d \in Domains |-> <<>>]

\* makeRoutes: the virtual hosts after n turns of the loop, at its end.
MakeRoutes(ctls, order) ==
    LET after[n \in 0 .. Len(order)] ==
          IF n = 0 THEN NoRoutes ELSE AddRoute(ctls, after[n - 1], order[n])
    IN  after[Len(order)]

\* Seeded fault: only the first control's cluster is made.
MakeOneCluster(ctls, order) ==
    IF order = <<>> THEN {}
    ELSE {[name |-> ClusterName[ctls[Head(order)].dst], dst |-> ctls[Head(order)].dst]}

\* Seeded fault: clusters are told apart by destination, not by name.
AddClusterPerDest(ctls, cl, id) ==
    cl \cup {[name |-> ClusterName[ctls[id].dst], dst |-> ctls[id].dst]}

\* makeClusters, the loop's body: one cluster per name, its endpoint the
\* destination of the first control met with that name.
AddCluster(ctls, cl, id) ==
    LET n == ClusterName[ctls[id].dst] IN
    IF \E c \in cl : c.name = n THEN cl
    ELSE cl \cup {[name |-> n, dst |-> ctls[id].dst]}

\* makeClusters: likewise.
MakeClusters(ctls, order) ==
    LET after[n \in 0 .. Len(order)] ==
          IF n = 0 THEN {} ELSE AddCluster(ctls, after[n - 1], order[n])
    IN  after[Len(order)]

\* Seeded fault: only the keys are encoded.
ChecksumOfKeys(ctls) == Known(ctls)

\* computeChecksum: the controls in key order.  The checksum is taken to be
\* free of collisions.
Checksum(ctls) == ctls

\* generateSnapshot: the resources it may make of each table of controls.
\* The listener is made from the arguments alone; clusters and routes carry
\* timeouts and header mutations from them.  A snapshot is consistent by its
\* shape (the listener names the one route table, no cluster uses EDS), so the
\* error returns are not taken.
Generate ==
    [ctls \in Tables |->
        [clusters : {MakeClusters(ctls, o) : o \in Orders(ctls)},
         vhosts   : {MakeRoutes(ctls, o) : o \in Orders(ctls)}]]

\* The snapshots of controls and arguments.
Snapshots(ctls, a) ==
    {[ver |-> Checksum(ctls), args |-> a, clusters |-> g.clusters, vhosts |-> g.vhosts] :
        g \in Generate[ctls]}

-----------------------------------------------------------------------------
(***************************************************************************)
(* Actions.                                                                *)
(***************************************************************************)
\* RefreshControls with a published list of sources.
UpdateCtls(sources) ==
    /\ Spend("updates")
    /\ proxyCtls' = Merge(sources)
    /\ UNCHANGED <<xdsArgs, snap, envoy>>

\* manageRefresh: at start and at each tick of refreshTicker.
RefreshSnapshot ==
    /\ snap' \in Snapshots(proxyCtls, xdsArgs)
    /\ UNCHANGED <<proxyCtls, xdsArgs, envoy, budget>>

\* The xds process restarts, perhaps with other arguments: the static
\* controls, and initSnapshot.  Every stream of Envoy ends.
Restart(a) ==
    /\ Spend("faults")
    /\ proxyCtls' = Merge(NoSources)
    /\ xdsArgs' = a
    /\ snap' \in Snapshots(proxyCtls', a)
    /\ returned' = {}
    /\ UNCHANGED <<cds, rds, lds>>

\* A stream breaks and Envoy opens another, naming the version it has.
StreamBreak(type) ==
    /\ type \in returned
    /\ Spend("faults")
    /\ returned' = returned \ {type}
    /\ UNCHANGED <<server, cds, rds, lds>>

\* respondSOTWWatches and CreateWatch: a type is sent when the versions differ
\* or when nothing of it has been sent on this stream.
Due(type, held) ==
    /\ held.ver # snap.ver \/ type \notin returned
    /\ returned' = returned \cup {type}

SendClusters ==
    /\ Due("cds", cds)
    /\ cds' = [ver |-> snap.ver, args |-> snap.args, clusters |-> snap.clusters]
    /\ UNCHANGED <<server, rds, lds, budget>>

SendListener ==
    /\ Due("lds", lds)
    /\ lds' = [ver |-> snap.ver, args |-> snap.args]
    /\ UNCHANGED <<server, cds, rds, budget>>

\* Envoy asks for the routes once it has a listener that names them.
SendRoutes ==
    /\ lds.ver # None
    /\ Due("rds", rds)
    /\ rds' = [ver |-> snap.ver, args |-> snap.args, vhosts |-> snap.vhosts]
    /\ UNCHANGED <<server, cds, lds, budget>>

\* RunServer calls initSnapshot before Envoy can connect.
Init ==
    /\ proxyCtls = Merge(NoSources)
    /\ xdsArgs \in Args
    /\ snap \in Snapshots(proxyCtls, xdsArgs)
    /\ cds = [ver |-> None, args |-> None, clusters |-> {}]
    /\ rds = [ver |-> None, args |-> None, vhosts |-> NoRoutes]
    /\ lds = [ver |-> None, args |-> None]
    /\ returned = {}
    /\ budget = [updates |-> MaxUpdates, faults |-> MaxFaults]

Next ==
    \/ \E s \in Updates : UpdateCtls(s)
    \/ RefreshSnapshot
    \/ \E a \in Args : Restart(a)
    \/ \E t \in {"cds", "rds", "lds"} : StreamBreak(t)
    \/ SendClusters
    \/ SendListener
    \/ SendRoutes

Spec == Init /\ [][Next]_vars

\* The ticker fires and streams deliver.
FairSpec ==
    /\ Spec
    /\ WF_vars(RefreshSnapshot)
    /\ WF_vars(SendClusters) /\ WF_vars(SendListener) /\ WF_vars(SendRoutes)

-----------------------------------------------------------------------------
(***************************************************************************)
(* Properties.                                                             *)
(***************************************************************************)
VHosts == [Domains -> Seq(RouteEntry)]

\* Types of the state.
TypeOK ==
    /\ proxyCtls \in Sources
    /\ xdsArgs \in Args
    /\ snap \in [ver : Sources, args : Args, clusters : SUBSET Cluster, vhosts : VHosts]
    /\ cds \in [ver : Sources \cup {None}, args : Args \cup {None}, clusters : SUBSET Cluster]
    /\ rds \in [ver : Sources \cup {None}, args : Args \cup {None}, vhosts : VHosts]
    /\ lds \in [ver : Sources \cup {None}, args : Args \cup {None}]
    /\ returned \subseteq {"cds", "rds", "lds"}

\* How Envoy picks: the virtual host of the request's host, else "*"; in it
\* the first route whose prefix matches.
VHostOf(vhosts, q) == IF vhosts[q.host] # <<>> THEN vhosts[q.host] ELSE vhosts[AnyHost]

Pick(vhosts, q) ==
    LET rs == VHostOf(vhosts, q)
        hits == {i \in 1 .. Len(rs) : IsPrefix(rs[i].prefix, q.path)}
    IN  IF hits = {} THEN None ELSE rs[CHOOSE i \in hits : \A j \in hits : i <= j]

\* The controls meant for a request: those of its host, or the localhost
\* ones when the host has none, whose prefix matches and is longest.
Serving(ctls, q) ==
    LET own == {id \in Known(ctls) : Domain(ctls[id]) = q.host}
        dom == IF own # {} THEN own ELSE {id \in Known(ctls) : Domain(ctls[id]) = AnyHost}
        hit == {id \in dom : IsPrefix(ctls[id].prefix, q.path)}
    IN  {id \in hit : \A j \in hit : Len(ctls[j].prefix) <= Len(ctls[id].prefix)}

\* Request q is served by vhosts as ctls say.
ServedRight(vhosts, ctls, q) ==
    LET p == Pick(vhosts, q) IN
    IF Serving(ctls, q) = {} THEN p = None
    ELSE /\ p # None
         /\ p.id \in Serving(ctls, q)
         /\ p.cluster = ClusterName[ctls[p.id].dst]

\* resources.go: routes are ordered longest prefix first so that more
\* specific paths take precedence.  Whatever the order of the map iteration,
\* the routes Envoy holds send every request to a most specific control of
\* the version it holds.
LongestPrefixWins ==
    rds.ver # None => \A q \in Requests : ServedRight(rds.vhosts, rds.ver, q)

\* Whether the cluster of a route leads where its control says.
LeadsTo(clusters, ctls, rt) ==
    LET mine   == {c \in clusters : c.name = rt.cluster}
        namers == {id \in Known(ctls) : ClusterName[ctls[id].dst] = rt.cluster}
    IN  \E c \in mine :
          /\ mine = {c}
          /\ c.dst \in {ctls[id].dst : id \in namers}
          /\ (\A id \in namers : ctls[id].dst = ctls[rt.id].dst) => c.dst = ctls[rt.id].dst

\* A snapshot is closed: the cluster a route names is in it exactly once and
\* leads to the route's destination, unless the controls hold another
\* destination whose name normalizeName makes the same, in which case it
\* leads to one of these: sanitized names are the only way to be misled.
RoutesHaveClusters ==
    \A d \in Domains : \A i \in 1 .. Len(snap.vhosts[d]) :
        LeadsTo(snap.clusters, snap.ver, snap.vhosts[d][i])

\* Clusters and routes travel on streams of their own and, under one version,
\* may come from two runs of generateSnapshot that met the controls in
\* different orders.  An Envoy that holds both at one version nevertheless has
\* the cluster of every route it picks, and it leads where the control says.
SameVersionAgrees ==
    rds.ver # None /\ cds.ver = rds.ver =>
        \A q \in Requests : LET p == Pick(rds.vhosts, q) IN
            p # None => LeadsTo(cds.clusters, rds.ver, p)

\* source.go: NoAuth "must never be decodable from the route registry".  A
\* route without authorization is one the static file asks for, with the
\* static file's destination, never one a published source has replaced.
NoAuthIsStatic ==
    \A d \in Domains : \A i \in 1 .. Len(snap.vhosts[d]) :
        LET rt == snap.vhosts[d][i] IN
        ~rt.authz => /\ StaticSrc[rt.id] # None /\ StaticSrc[rt.id].noAuth
                     /\ rt.cluster = ClusterName[StaticSrc[rt.id].dst]

\* Once the controls stop changing, Envoy serves every request as they say,
\* its clusters lead where the routes it picks say, and clusters, routes and
\* listener are those of the running process's arguments.  This holds although
\* the version does not depend on the arguments nor on the order of routes, the
\* three types arrive in any order, and streams break.
EnvoyFollows ==
    <>[](/\ \A q \in Requests : ServedRight(rds.vhosts, proxyCtls, q)
         /\ \A q \in Requests : LET p == Pick(rds.vhosts, q) IN
               p # None => LeadsTo(cds.clusters, proxyCtls, p)
         /\ {cds.args, rds.args, lds.args} = {xdsArgs})
=============================================================================
