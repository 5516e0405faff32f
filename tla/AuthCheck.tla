------------------------------- MODULE AuthCheck -------------------------------
(***************************************************************************)
(* One auth process: the ext_authz Check of internal/envoy/auth.go from    *)
(* the moment RequestHeader has answered, that is AuthorizeProxy over the  *)
(* controls of internal/wormhole/registry and SubtokenFlow over the was    *)
(* keys of the tokens bucket, together with RemoveSubtoken of the          *)
(* invalidate webhook, which deletes those keys.  (The wat and wos keys of *)
(* the same bucket, and InvalidateToken, are TokenCache.)                  *)
(*                                                                         *)
(* The route registry's successive route tables are numbered.  The auth    *)
(* process and Envoy each follow them at their own pace (RouteSync,        *)
(* Snapshot): Envoy names the route and its community to the Check from    *)
(* the table it has, the process authorizes with the one it has.           *)
(***************************************************************************)
EXTENDS Integers, Sequences, FiniteSets

CONSTANTS
    Handlers,      \* goroutines serving Check
    Hooks,         \* goroutines serving the invalidate webhook
    Routes,        \* route IDs
    Communities,   \* community IDs (a token's external ID)
    Users, Groups,
    TokenIDs,      \* IDs of the tokens users present
    Payloads,      \* the token payloads RequestHeader may return
    SubIDs,        \* the subtokens the Token Service may issue
    Tables,        \* the registry's route tables, oldest first
    OwnToken,      \* the request's own token, passed along as subtoken
    KVFaults,      \* whether key/value calls may fail while the context lives
    TTL,           \* --tokens-ttl; 0 means entries are kept
    AuthTimeout,   \* Envoy's ext_authz timeout, the deadline of a Check
    HookTimeout,   \* the 30 seconds given to an invalidate goroutine
    MaxSubs,       \* bound on the subtokens listed in one webhook call
    MaxTime,       \* bound on the clock
    None           \* absent value: no entry, no community, no parent

Times == 0 .. MaxTime
Versions == 1 .. Len(Tables)

\* authControls: the community of a route and its rules.
Control == [community : Communities \cup {None},
            allowUsers : SUBSET Users, allowGroups : SUBSET Groups,
            denyUsers : SUBSET Users, denyGroups : SUBSET Groups]

\* What updateCtls builds from one table: authCtls, and whether redirectAllow
\* contains the host of the login page.
Table == [ctls : [Routes -> Control \cup {None}], login : BOOLEAN]

\* TokenPayload.  A parent makes it the payload of a subtoken.
Payload == [user : Users, groups : SUBSET Groups, id : TokenIDs,
            parent : TokenIDs \cup {None}, ext : Communities \cup {None},
            exp : Nat]

\* What the Token Service issues a subtoken for.
Issue == [parent : TokenIDs, ext : Communities]

ASSUME AuthCheckAssumption ==
    /\ Tables \in Seq(Table) /\ Len(Tables) > 0
    /\ Payloads \subseteq Payload
    /\ \A p \in Payloads : p.parent # None <=> p.ext # None
    /\ OwnToken \notin SubIDs
    /\ None \notin Communities \cup SubIDs \cup TokenIDs \cup {OwnToken}
    /\ None \notin Control /\ None \notin Payload /\ None \notin Issue

ASSUME AuthBoundAssumption ==
    /\ TTL \in Nat
    /\ AuthTimeout \in Nat \ {0}
    /\ HookTimeout \in Nat \ {0}
    /\ MaxSubs \in Nat
    /\ MaxTime \in Nat
    /\ KVFaults \in BOOLEAN

VARIABLES
    now,        \* the clock
    authV,      \* the table the auth process has applied
    envoyV,     \* the table behind Envoy's routes
    was,        \* the was keys of the bucket: key -> entry, or None
    subs,       \* what each subtoken was issued for, None when not issued
    revokedAt,  \* when the Token Service revoked it, None while it is valid
    pc,         \* where each handler stands
    req,        \* route and community Envoy named in the request
    start,      \* when the request arrived
    tok,        \* the payload RequestHeader returned
    ctl,        \* the controls read for the route
    since,      \* the table they were read from (history)
    clock,      \* SubtokenFlow's `now`
    cs,         \* SubtokenFlow's cached entry
    sub,        \* the subtoken to inject
    answer,     \* what the Check answers
    todo,       \* keys a webhook goroutine still has to delete
    hookStart   \* when it started

tableVars == <<authV, envoyV>>
svcVars   == <<subs, revokedAt>>
reqVars   == <<pc, req, start, tok, ctl, since, clock, cs, sub, answer>>
hookVars  == <<todo, hookStart>>
vars      == <<now, tableVars, was, svcVars, reqVars, hookVars>>

-----------------------------------------------------------------------------
\* Seeded fault: the key leaves the community out.
WasKeyOfParent(t, c) == <<t, CHOOSE d \in Communities : TRUE>>

\* keys.WormholeAccessSubtoken.
WasKey(t, c) == <<t, c>>

WasKeys == TokenIDs \X Communities

\* subtokenCache, with the time the bucket stamps on a Put.
SubEntry == [sub : SubIDs, exp : Nat, at : Times]

CtxLive(r)  == now < start[r] + AuthTimeout
HookLive(w) == now < hookStart[w] + HookTimeout

\* A Put or Delete whose context is done has no effect; one that fails may
\* have taken effect.  No caller looks at the error.
TryPut(live, k, e) ==
    \/ live /\ was' = [was EXCEPT ![k] = e]
    \/ (KVFaults \/ ~live) /\ was' = was

TryDelete(live, k) ==
    \/ live /\ was' = [was EXCEPT ![k] = None]
    \/ (KVFaults \/ ~live) /\ was' = was

Goto(r, l) == pc' = [pc EXCEPT ![r] = l]

Answer(r, a) ==
    /\ pc' = [pc EXCEPT ![r] = "answered"]
    /\ answer' = [answer EXCEPT ![r] = a]

\* allowRequest with the subtoken header, if there is a subtoken.
Allow(r, s) == Answer(r, "allow") /\ sub' = [sub EXCEPT ![r] = s]

-----------------------------------------------------------------------------
(***************************************************************************)
(* Check.                                                                  *)
(***************************************************************************)
\* What establishReqDetails keeps of the context extensions.
Request == [route : Routes, community : Communities \cup {None}]

\* authzContext: what the route with this ID of table v tells a Check; no
\* community extension where the route has none.
AuthzContext(v, id) ==
    [route |-> id, community |-> Tables[v].ctls[id].community]

\* Envoy matches a route of its table and calls Check with the route's
\* context extensions; establishReqDetails takes route and community there.
BeginCheck(r, id) ==
    /\ pc[r] = "idle"
    /\ Tables[envoyV].ctls[id] # None
    /\ req' = [req EXCEPT ![r] = AuthzContext(envoyV, id)]
    /\ start' = [start EXCEPT ![r] = now]
    /\ Goto(r, "authn")
    /\ UNCHANGED <<now, tableVars, was, svcVars, tok, ctl, since, clock, cs,
                   sub, answer, hookVars>>

\* RequestHeader (TokenCache) lets the request through with payload p.
Authenticated(r, p) ==
    /\ pc[r] = "authn"
    /\ tok' = [tok EXCEPT ![r] = p]
    /\ Goto(r, "read")
    /\ UNCHANGED <<now, tableVars, was, svcVars, req, start, ctl, since, clock,
                   cs, sub, answer, hookVars>>

\* RequestHeader refuses: denyRequest with the status of the error, or
\* redirectRequest, which answers 400 when the login page's host is not an
\* allowed redirect of the controls at that moment.
RequestRefused(r) ==
    /\ pc[r] = "authn"
    /\ \/ \E a \in {"unauthorized", "badRequest", "internal"} : Answer(r, a)
       \/ Answer(r, IF Tables[authV].login THEN "redirect" ELSE "badRequest")
    /\ UNCHANGED <<now, tableVars, was, svcVars, req, start, tok, ctl, since,
                   clock, cs, sub, hookVars>>

\* authorizeProxyCtls under the read lock: identifyID and the lookup.  The
\* copy it takes is what the rest of the Check works with.
ReadControls(r) ==
    LET c == Tables[authV].ctls[req[r].route] IN
    /\ pc[r] = "read"
    /\ \/ c = None /\ Answer(r, "notFound") /\ UNCHANGED <<ctl, since>>
       \/ /\ c # None
          /\ ctl' = [ctl EXCEPT ![r] = c]
          /\ since' = [since EXCEPT ![r] = authV]
          /\ Goto(r, "enforce")
          /\ UNCHANGED answer
    /\ UNCHANGED <<now, tableVars, was, svcVars, req, start, tok, clock, cs,
                   sub, hookVars>>

\* Seeded fault: an explicit user allow is looked at before the group deny.
RulesUserAllowFirst(c, p) ==
    IF p.user \in c.denyUsers THEN FALSE
    ELSE IF p.user \in c.allowUsers THEN TRUE
    ELSE IF p.groups \cap c.denyGroups # {} THEN FALSE
    ELSE p.groups \cap c.allowGroups # {}

\* authControls.enforce: user deny, group deny, user allow, group allow,
\* deny by default.
Rules(c, p) ==
    IF p.user \in c.denyUsers THEN FALSE
    ELSE IF p.groups \cap c.denyGroups # {} THEN FALSE
    ELSE IF p.user \in c.allowUsers THEN TRUE
    ELSE p.groups \cap c.allowGroups # {}

\* authorizeProxyCtls after the lock: a subtoken must be of the route's
\* community, then the rules decide.
Enforce(r) ==
    /\ pc[r] = "enforce"
    /\ IF \/ tok[r].ext # None /\ ctl[r].community # tok[r].ext
          \/ ~Rules(ctl[r], tok[r])
       THEN Answer(r, "unauthorized")
       ELSE Goto(r, "subtoken") /\ UNCHANGED answer
    /\ UNCHANGED <<now, tableVars, was, svcVars, req, start, tok, ctl, since,
                   clock, cs, sub, hookVars>>

-----------------------------------------------------------------------------
(***************************************************************************)
(* SubtokenFlow.                                                           *)
(***************************************************************************)
\* Seeded fault: a subtoken is not recognized.
SubtokenFlowAny(r) ==
    LET c == req[r].community IN
    /\ pc[r] = "subtoken"
    /\ IF c = None THEN Allow(r, None) /\ UNCHANGED clock
       ELSE /\ clock' = [clock EXCEPT ![r] = now]
            /\ Goto(r, "get")
            /\ UNCHANGED <<sub, answer>>
    /\ UNCHANGED <<now, tableVars, was, svcVars, req, start, tok, ctl, since,
                   cs, hookVars>>

\* No community, no subtoken; a subtoken of the community is passed along;
\* otherwise the cache is looked up with the time read before the Get.
SubtokenFlow(r) ==
    LET c == req[r].community IN
    /\ pc[r] = "subtoken"
    /\ \/ c = None /\ Allow(r, None) /\ UNCHANGED clock
       \/ /\ c # None /\ tok[r].ext = c /\ tok[r].parent # None
          /\ Allow(r, OwnToken) /\ UNCHANGED clock
       \/ /\ c # None /\ ~(tok[r].ext = c /\ tok[r].parent # None)
          /\ clock' = [clock EXCEPT ![r] = now]
          /\ Goto(r, "get")
          /\ UNCHANGED <<sub, answer>>
    /\ UNCHANGED <<now, tableVars, was, svcVars, req, start, tok, ctl, since,
                   cs, hookVars>>

KeyOf(r) == WasKey(tok[r].id, req[r].community)

\* Seeded fault: the expiry of a cached subtoken is not looked at.
GetSubtokenAnyExp(r) ==
    LET e == was[KeyOf(r)] IN
    /\ pc[r] = "get"
    /\ \/ /\ e = None \/ KVFaults \/ ~CtxLive(r)
          /\ Goto(r, "mint")
          /\ UNCHANGED <<cs, sub, answer>>
       \/ /\ e # None /\ CtxLive(r)
          /\ cs' = [cs EXCEPT ![r] = e]
          /\ Allow(r, e.sub)
    /\ UNCHANGED <<now, tableVars, was, svcVars, req, start, tok, ctl, since,
                   clock, hookVars>>

\* The Get.  Any error is a miss; a hit that has not expired is the answer,
\* an expired one is deleted.
GetSubtoken(r) ==
    LET e == was[KeyOf(r)] IN
    /\ pc[r] = "get"
    /\ \/ /\ e = None \/ KVFaults \/ ~CtxLive(r)
          /\ Goto(r, "mint")
          /\ UNCHANGED <<cs, sub, answer>>
       \/ /\ e # None /\ CtxLive(r)
          /\ cs' = [cs EXCEPT ![r] = e]
          /\ IF clock[r] < e.exp THEN Allow(r, e.sub)
             ELSE Goto(r, "delete") /\ UNCHANGED <<sub, answer>>
    /\ UNCHANGED <<now, tableVars, was, svcVars, req, start, tok, ctl, since,
                   clock, hookVars>>

DeleteExpired(r) ==
    /\ pc[r] = "delete"
    /\ TryDelete(CtxLive(r), KeyOf(r))
    /\ Goto(r, "mint")
    /\ UNCHANGED <<now, tableVars, svcVars, req, start, tok, ctl, since, clock,
                   cs, sub, answer, hookVars>>

\* postSubtokenRequest: the Token Service issues a subtoken for the token and
\* the community, or the request fails and the Check is denied.
PostSubtoken(r) ==
    /\ pc[r] = "mint"
    /\ \/ \E s \in SubIDs :
             /\ subs[s] = None
             /\ subs' = [subs EXCEPT ![s] = [parent |-> tok[r].id,
                                             ext |-> req[r].community]]
             /\ sub' = [sub EXCEPT ![r] = s]
             /\ Goto(r, "store")
             /\ UNCHANGED answer
       \/ Answer(r, "internal") /\ UNCHANGED <<subs, sub>>
    /\ UNCHANGED <<now, tableVars, was, revokedAt, req, start, tok, ctl, since,
                   clock, cs, hookVars>>

\* Seeded fault: the ID of the parent is kept in place of the subtoken.
StoreParentID(r) ==
    /\ pc[r] = "store"
    /\ TryPut(CtxLive(r), KeyOf(r),
              [sub |-> tok[r].id, exp |-> tok[r].exp, at |-> now])
    /\ Answer(r, "allow")
    /\ UNCHANGED <<now, tableVars, svcVars, req, start, tok, ctl, since, clock,
                   cs, sub, hookVars>>

\* Seeded fault: the Put does not carry the context of the request.
StoreDetached(r) ==
    /\ pc[r] = "store"
    /\ TryPut(TRUE, KeyOf(r), [sub |-> sub[r], exp |-> tok[r].exp, at |-> now])
    /\ Answer(r, "allow")
    /\ UNCHANGED <<now, tableVars, svcVars, req, start, tok, ctl, since, clock,
                   cs, sub, hookVars>>

\* generateSubToken, the Put: the subtoken expires with its parent's payload.
StoreSubtoken(r) ==
    /\ pc[r] = "store"
    /\ TryPut(CtxLive(r), KeyOf(r),
              [sub |-> sub[r], exp |-> tok[r].exp, at |-> now])
    /\ Answer(r, "allow")
    /\ UNCHANGED <<now, tableVars, svcVars, req, start, tok, ctl, since, clock,
                   cs, sub, hookVars>>

\* The goroutines in S end and their locals with them.
End(S) ==
    /\ pc'     = [r \in Handlers |-> IF r \in S THEN "idle" ELSE pc[r]]
    /\ req'    = [r \in Handlers |-> IF r \in S THEN None ELSE req[r]]
    /\ start'  = [r \in Handlers |-> IF r \in S THEN 0 ELSE start[r]]
    /\ tok'    = [r \in Handlers |-> IF r \in S THEN None ELSE tok[r]]
    /\ ctl'    = [r \in Handlers |-> IF r \in S THEN None ELSE ctl[r]]
    /\ since'  = [r \in Handlers |-> IF r \in S THEN 1 ELSE since[r]]
    /\ clock'  = [r \in Handlers |-> IF r \in S THEN 0 ELSE clock[r]]
    /\ cs'     = [r \in Handlers |-> IF r \in S THEN None ELSE cs[r]]
    /\ sub'    = [r \in Handlers |-> IF r \in S THEN None ELSE sub[r]]
    /\ answer' = [r \in Handlers |-> IF r \in S THEN "none" ELSE answer[r]]
    /\ UNCHANGED <<now, envoyV, was, svcVars, hookVars>>

\* The Check returns its answer.
Return(r) == pc[r] = "answered" /\ End({r}) /\ UNCHANGED authV

\* The auth process restarts: its requests are gone and Initialize leaves it
\* with the static routes, table 1.
AuthRestart == End(Handlers) /\ authV' = 1

CheckStep(r) ==
    \/ \E p \in Payloads : Authenticated(r, p)
    \/ RequestRefused(r) \/ ReadControls(r) \/ Enforce(r)
    \/ SubtokenFlow(r) \/ GetSubtoken(r) \/ DeleteExpired(r)
    \/ PostSubtoken(r) \/ StoreSubtoken(r) \/ Return(r)

-----------------------------------------------------------------------------
(***************************************************************************)
(* The invalidate webhook (the was keys of its subtokens), the updates of  *)
(* the tables and the environment.                                         *)
(***************************************************************************)
\* The was keys named by the payload of a call: the token it is about with
\* the external IDs of its subtokens.
HookKeys(t) == UNION {[1 .. n -> {t} \X Communities] : n \in 1 .. MaxSubs}

InvalidateWebhook(w, t) ==
    /\ todo[w] = <<>>
    /\ \E ks \in HookKeys(t) : todo' = [todo EXCEPT ![w] = ks]
    /\ hookStart' = [hookStart EXCEPT ![w] = now]
    /\ UNCHANGED <<now, tableVars, was, svcVars, reqVars>>

\* RemoveSubtoken of the next subtoken, the Delete; its error is only logged.
RemoveSubtoken(w) ==
    /\ todo[w] # <<>>
    /\ TryDelete(HookLive(w), Head(todo[w]))
    /\ todo' = [todo EXCEPT ![w] = Tail(@)]
    /\ hookStart' = [hookStart EXCEPT ![w] = IF Len(todo[w]) = 1 THEN 0 ELSE @]
    /\ UNCHANGED <<now, tableVars, svcVars, reqVars>>

\* RefreshControls: updateCtls swaps authCtls and redirectAllow together.
UpdateCtls ==
    /\ \E v \in authV + 1 .. Len(Tables) : authV' = v
    /\ UNCHANGED <<now, envoyV, was, svcVars, reqVars, hookVars>>

\* Envoy receives routes built from a later table.
EnvoyUpdate ==
    /\ \E v \in envoyV + 1 .. Len(Tables) : envoyV' = v
    /\ UNCHANGED <<now, authV, was, svcVars, reqVars, hookVars>>

\* The Token Service revokes a subtoken.
RevokeSubtoken(s) ==
    /\ subs[s] # None /\ revokedAt[s] = None
    /\ revokedAt' = [revokedAt EXCEPT ![s] = now]
    /\ UNCHANGED <<now, tableVars, was, subs, reqVars, hookVars>>

\* Time passes; the bucket drops what has reached its TTL.
Tick ==
    /\ now < MaxTime
    /\ now' = now + 1
    /\ was' = [k \in WasKeys |->
                 IF was[k] # None /\ TTL > 0 /\ now + 1 - was[k].at >= TTL
                 THEN None ELSE was[k]]
    /\ UNCHANGED <<tableVars, svcVars, reqVars, hookVars>>

-----------------------------------------------------------------------------
Init ==
    /\ now = 0
    /\ authV = 1 /\ envoyV = 1
    /\ was = [k \in WasKeys |-> None]
    /\ subs = [s \in SubIDs |-> None]
    /\ revokedAt = [s \in SubIDs |-> None]
    /\ pc = [r \in Handlers |-> "idle"]
    /\ req = [r \in Handlers |-> None]
    /\ start = [r \in Handlers |-> 0]
    /\ tok = [r \in Handlers |-> None]
    /\ ctl = [r \in Handlers |-> None]
    /\ since = [r \in Handlers |-> 1]
    /\ clock = [r \in Handlers |-> 0]
    /\ cs = [r \in Handlers |-> None]
    /\ sub = [r \in Handlers |-> None]
    /\ answer = [r \in Handlers |-> "none"]
    /\ todo = [w \in Hooks |-> <<>>]
    /\ hookStart = [w \in Hooks |-> 0]

Next ==
    \/ \E r \in Handlers : (\E id \in Routes : BeginCheck(r, id)) \/ CheckStep(r)
    \/ \E w \in Hooks : (\E t \in TokenIDs : InvalidateWebhook(w, t)) \/ RemoveSubtoken(w)
    \/ AuthRestart
    \/ UpdateCtls
    \/ EnvoyUpdate
    \/ \E s \in SubIDs : RevokeSubtoken(s)
    \/ Tick

Spec == Init /\ [][Next]_vars

-----------------------------------------------------------------------------
(***************************************************************************)
(* Properties.                                                             *)
(***************************************************************************)
\* Types of the state.
TypeOK ==
    /\ now \in Times
    /\ authV \in Versions /\ envoyV \in Versions
    /\ was \in [WasKeys -> SubEntry \cup {None}]
    /\ subs \in [SubIDs -> Issue \cup {None}]
    /\ revokedAt \in [SubIDs -> Times \cup {None}]
    /\ pc \in [Handlers -> {"idle", "authn", "read", "enforce", "subtoken",
                            "get", "delete", "mint", "store", "answered"}]
    /\ req \in [Handlers -> Request \cup {None}]
    /\ start \in [Handlers -> Times]
    /\ tok \in [Handlers -> Payload \cup {None}]
    /\ ctl \in [Handlers -> Control \cup {None}]
    /\ since \in [Handlers -> Versions]
    /\ clock \in [Handlers -> Times]
    /\ cs \in [Handlers -> SubEntry \cup {None}]
    /\ sub \in [Handlers -> SubIDs \cup {OwnToken, None}]
    /\ answer \in [Handlers -> {"none", "allow", "unauthorized", "badRequest",
                                "notFound", "internal", "redirect"}]
    /\ todo \in [Hooks -> Seq(WasKeys)]
    /\ hookStart \in [Hooks -> Times]

Granted(r) == pc[r] = "answered" /\ answer[r] = "allow"

\* What the registry's rules say, as a predicate: the route exists, a subtoken
\* is of its community, no deny rule names the user or a group of the user,
\* some allow rule does.
Permitted(v, id, p) ==
    LET c == Tables[v].ctls[id] IN
    /\ c # None
    /\ p.ext # None => c.community = p.ext
    /\ p.user \notin c.denyUsers /\ p.groups \cap c.denyGroups = {}
    /\ p.user \in c.allowUsers \/ p.groups \cap c.allowGroups # {}

\* A request is only let through by the rules of one single table, the one
\* in force in the process at some moment of the Check, although the lock is
\* released before the rules are evaluated and updateCtls may swap the
\* controls in between.
RulesHeld ==
    \A r \in Handlers : Granted(r) =>
        \E v \in since[r] .. authV : Permitted(v, req[r].route, tok[r])

\* The subtoken injected into a request was issued for the very token and
\* community of the request, or is the request's own subtoken of that
\* community, whatever requests of the same token for other communities,
\* webhooks and expiries do to the cache; a request outside any community
\* gets none.
InjectedInScope ==
    \A r \in Handlers : Granted(r) =>
        /\ sub[r] \in SubIDs =>
              subs[sub[r]] = [parent |-> tok[r].id, ext |-> req[r].community]
        /\ sub[r] = OwnToken => tok[r].ext = req[r].community
        /\ sub[r] = None <=> req[r].community = None

\* docs/caching.md: --tokens-ttl caps the time a token is cached.  A revoked
\* subtoken is not injected, in time for Envoy to take the answer, once the
\* TTL and two Check deadlines are over, even when the webhook's Delete is
\* lost or comes before the Put of the subtoken it is about.
SubtokenLatency ==
    \A r \in Handlers :
        (/\ TTL > 0 /\ Granted(r) /\ CtxLive(r)
         /\ sub[r] \in SubIDs /\ revokedAt[sub[r]] # None)
            => now - revokedAt[sub[r]] <= (TTL - 1) + 2 * (AuthTimeout - 1)

\* A subtoken taken from the cache is not injected later than a Check
\* deadline after its expiry: the comparison uses a time read before the Get.
ServedBeforeExpiry ==
    \A r \in Handlers :
        (Granted(r) /\ CtxLive(r) /\ cs[r] # None /\ sub[r] = cs[r].sub)
            => now < cs[r].exp + AuthTimeout - 1

\* A subtoken is requested for a subtoken only when Envoy and the process
\* disagree on the community of the route.
NestedOnlyUnderSkew ==
    \A r \in Handlers :
        (pc[r] \in {"mint", "store"} /\ tok[r].parent # None)
            => req[r].community # ctl[r].community

\* internal/wormhole/token/subtoken.go, SubtokenFlow: "This implies that
\* validated token is a subtoken, thus we never want to generate a new
\* subtoken."  No subtoken is requested on behalf of a subtoken.
NoNestedSubtoken ==
    \A r \in Handlers : pc[r] = "store" => tok[r].parent = None
=============================================================================
