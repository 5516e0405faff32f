---------------------------- MODULE AuthCheckProofs ----------------------------
(***************************************************************************)
(* Proofs about AuthCheck for every number of handlers, webhooks, routes,  *)
(* tokens and tables, every TTL and every deadline.                        *)
(***************************************************************************)
EXTENDS AuthCheck, TLAPS

\* What the bucket holds under the key k: a subtoken issued for the token and
\* the community of the key, no older than the TTL, and put within a Check
\* deadline of its revocation, if it is revoked.
BucketInv ==
    \A k \in WasKeys : was[k] # None =>
        /\ was[k].at <= now
        /\ TTL > 0 => now - was[k].at <= TTL - 1
        /\ subs[was[k].sub] = [parent |-> k[1], ext |-> k[2]]
        /\ revokedAt[was[k].sub] # None =>
              was[k].at - revokedAt[was[k].sub] <= AuthTimeout - 1

\* The Token Service revokes what it has issued.
ServiceInv == \A s \in SubIDs : subs[s] = None => revokedAt[s] = None

\* SubtokenFlow is past the checks that need no cache.
InFlow(r) == pc[r] \in {"get", "delete", "mint", "store"}

\* The controls of the Check have been read.
Read(r) == pc[r] \in {"enforce", "subtoken"} \/ InFlow(r) \/ Granted(r)

\* The controls of the Check have been enforced.
Enforced(r) == pc[r] = "subtoken" \/ InFlow(r) \/ Granted(r)

\* The copy of the controls a Check works with is the one of the table since,
\* which the process has applied.
ControlsInv(r) ==
    /\ pc[r] # "idle" => req[r] \in Request
    /\ pc[r] \in {"read"} \/ Read(r) => tok[r] \in Payloads
    /\ Read(r) =>
          /\ since[r] <= authV
          /\ ctl[r] = Tables[since[r]].ctls[req[r].route]
          /\ ctl[r] # None
    /\ Enforced(r) => Permitted(since[r], req[r].route, tok[r])

\* What SubtokenFlow has in hand at each point: the request is of a community
\* the token is no subtoken of; a subtoken just issued is new, so it is not
\* the one found in the cache, and is not revoked before the Check began.
FlowInv(r) ==
    /\ start[r] <= now
    /\ pc[r] \in {"idle", "authn", "read", "enforce", "subtoken", "get"} =>
          cs[r] = None
    /\ InFlow(r) =>
          /\ req[r].community # None
          /\ ~(tok[r].ext = req[r].community /\ tok[r].parent # None)
          /\ start[r] <= clock[r]
    /\ pc[r] \in {"delete", "mint"} /\ cs[r] # None => subs[cs[r].sub] # None
    /\ pc[r] = "store" =>
          /\ sub[r] \in SubIDs
          /\ subs[sub[r]] = [parent |-> tok[r].id, ext |-> req[r].community]
          /\ cs[r] # None => cs[r].sub # sub[r]
          /\ revokedAt[sub[r]] # None => start[r] <= revokedAt[sub[r]]

\* What is known of an answer that lets the request through.
GrantInv(r) ==
    Granted(r) =>
        /\ sub[r] \in SubIDs =>
              /\ subs[sub[r]] = [parent |-> tok[r].id, ext |-> req[r].community]
              /\ TTL > 0 /\ revokedAt[sub[r]] # None =>
                    start[r] - revokedAt[sub[r]] <= (TTL - 1) + (AuthTimeout - 1)
        /\ sub[r] = OwnToken => tok[r].ext = req[r].community
        /\ sub[r] = None <=> req[r].community = None
        /\ cs[r] # None /\ sub[r] = cs[r].sub =>
              start[r] <= clock[r] /\ clock[r] < cs[r].exp

HandlerInv(r) == ControlsInv(r) /\ FlowInv(r) /\ GrantInv(r)

IInv == TypeOK /\ BucketInv /\ ServiceInv /\ \A r \in Handlers : HandlerInv(r)

-----------------------------------------------------------------------------
\* The locals of r do not change.
Same(r) ==
    /\ pc'[r] = pc[r] /\ req'[r] = req[r] /\ start'[r] = start[r]
    /\ tok'[r] = tok[r] /\ ctl'[r] = ctl[r] /\ since'[r] = since[r]
    /\ clock'[r] = clock[r] /\ cs'[r] = cs[r] /\ sub'[r] = sub[r]
    /\ answer'[r] = answer[r]

\* How a step of another actor may change what a handler relies on: the clock
\* and the table only advance, an issued subtoken stays what it is, and a
\* revocation happens now.
Drift ==
    /\ now <= now' /\ authV <= authV'
    /\ \A s \in SubIDs :
          /\ subs[s] # None => subs'[s] = subs[s]
          /\ revokedAt'[s] = revokedAt[s] \/ revokedAt'[s] = now

\* The types of the shared state and of a handler's locals.
LEMMA SharedTypes ==
  ASSUME TypeOK
  PROVE  /\ now \in Int /\ authV \in Int
         /\ \A s \in SubIDs : revokedAt[s] # None => revokedAt[s] \in Int
         /\ \A k \in WasKeys : was[k] # None =>
               /\ was[k] \in SubEntry /\ was[k].sub \in SubIDs
               /\ was[k].exp \in Int /\ was[k].at \in Int
  BY AuthBoundAssumption DEF TypeOK, Times, Versions, SubEntry

LEMMA LocalTypes ==
  ASSUME TypeOK, NEW r \in Handlers
  PROVE  /\ start[r] \in Int /\ clock[r] \in Int /\ since[r] \in Int
         /\ cs[r] # None => /\ cs[r] \in SubEntry /\ cs[r].sub \in SubIDs
                            /\ cs[r].exp \in Int /\ cs[r].at \in Int
  BY AuthBoundAssumption DEF TypeOK, Times, Versions, SubEntry

\* A handler that does not move keeps its invariant while others move.
LEMMA HandlerFrame ==
  ASSUME TypeOK, TypeOK', NEW r \in Handlers, HandlerInv(r), Same(r), Drift
  PROVE  HandlerInv(r)'
<1> USE DEF Same
<1>1. /\ Granted(r)' = Granted(r) /\ InFlow(r)' = InFlow(r)
      /\ Read(r)' = Read(r) /\ Enforced(r)' = Enforced(r)
  BY DEF Granted, InFlow, Read, Enforced
<1>2. /\ since[r] \in Int /\ authV \in Int /\ authV' \in Int
      /\ now \in Int /\ now' \in Int /\ start[r] \in Int
  BY LocalTypes, SharedTypes DEF TypeOK, Versions, Times
<1>3. ControlsInv(r)'
  BY <1>1, <1>2 DEF HandlerInv, ControlsInv, Permitted, Drift
<1>4. FlowInv(r)'
  <2>1. start'[r] <= now'
    BY <1>2 DEF HandlerInv, FlowInv, Drift
  <2>2. pc[r] \in {"delete", "mint"} /\ cs[r] # None => subs'[cs[r].sub] # None
    BY LocalTypes DEF HandlerInv, FlowInv, Drift
  <2>3. pc[r] = "store" => subs[sub[r]] # None
    <3> SUFFICES ASSUME pc[r] = "store" PROVE subs[sub[r]] # None
      OBVIOUS
    <3>1. tok[r] \in Payload /\ req[r] \in Request /\ req[r].community # None
      BY AuthCheckAssumption DEF HandlerInv, ControlsInv, FlowInv, Read, InFlow
    <3> QED
      BY <3>1, AuthCheckAssumption
         DEF HandlerInv, FlowInv, Issue, Payload, Request
  <2>4. pc[r] = "store" => FlowInv(r)!5!2'
    BY <2>3, <1>2, SharedTypes DEF HandlerInv, FlowInv, Drift
  <2> QED
    BY <1>1, <2>1, <2>2, <2>4 DEF HandlerInv, FlowInv
<1>5. GrantInv(r)'
  <2> SUFFICES ASSUME Granted(r) PROVE GrantInv(r)!2'
    BY <1>1 DEF GrantInv
  <2>1. ASSUME sub[r] \in SubIDs
        PROVE  /\ subs'[sub[r]] = subs[sub[r]]
    <3>1. tok[r] \in Payload /\ req[r] \in Request
      BY AuthCheckAssumption DEF HandlerInv, ControlsInv, Read, Granted
    <3>2. req[r].community # None
      BY <2>1, AuthCheckAssumption DEF HandlerInv, GrantInv
    <3>3. subs[sub[r]] # None
      BY <2>1, <3>1, <3>2, AuthCheckAssumption
         DEF HandlerInv, GrantInv, Issue, Payload, Request
    <3> QED
      BY <2>1, <3>3 DEF Drift
  <2>2. ASSUME sub[r] \in SubIDs, TTL > 0, revokedAt'[sub[r]] # None
        PROVE  start[r] - revokedAt'[sub[r]] <= (TTL - 1) + (AuthTimeout - 1)
    <3>1. CASE revokedAt'[sub[r]] = revokedAt[sub[r]]
      BY <2>2, <3>1 DEF HandlerInv, GrantInv
    <3>2. CASE revokedAt'[sub[r]] = now
      BY <2>2, <3>2, <1>2, AuthBoundAssumption DEF HandlerInv, FlowInv
    <3> QED
      BY <2>2, <3>1, <3>2 DEF Drift
  <2> QED
    BY <2>1, <2>2 DEF HandlerInv, GrantInv
<1> QED
  BY <1>3, <1>4, <1>5 DEF HandlerInv

\* What another actor does to the service, and dropping entries, keeps what
\* the bucket holds in order.
LEMMA BucketFrame ==
  ASSUME TypeOK, TypeOK', BucketInv, Drift, now' = now,
         \A k \in WasKeys : was'[k] = was[k] \/ was'[k] = None
  PROVE  BucketInv'
<1> SUFFICES ASSUME NEW k \in WasKeys, was'[k] # None
             PROVE  BucketInv!(k)!2'
  BY DEF BucketInv
<1>1. was'[k] = was[k] /\ was[k] # None
  OBVIOUS
<1>2. /\ was[k].sub \in SubIDs /\ was[k].at \in Int /\ now \in Int
  BY <1>1, SharedTypes
<1>3. BucketInv!(k)!2
  BY <1>1 DEF BucketInv
<1>4. subs[was[k].sub] # None
  BY <1>3, AuthCheckAssumption DEF Issue, WasKeys
<1>5. subs'[was[k].sub] = [parent |-> k[1], ext |-> k[2]]
  BY <1>2, <1>3, <1>4 DEF Drift
<1>6. revokedAt'[was[k].sub] # None =>
        was[k].at - revokedAt'[was[k].sub] <= AuthTimeout - 1
  BY <1>2, <1>3, AuthBoundAssumption DEF Drift
<1> QED
  BY <1>1, <1>3, <1>5, <1>6

\* The other handlers do not move.
Others(r) == \A q \in Handlers \ {r} : Same(q)

\* A step of the handler r keeps the invariant when it keeps the parts about
\* r and about the shared state.
LEMMA OneHandler ==
  ASSUME IInv, NEW r \in Handlers, Others(r), Drift, TypeOK', HandlerInv(r)',
         BucketInv', ServiceInv'
  PROVE  IInv'
<1>1. ASSUME NEW q \in Handlers PROVE HandlerInv(q)'
  <2>1. CASE q = r
    BY <2>1
  <2>2. CASE q # r
    BY <2>2, HandlerFrame DEF IInv, Others
  <2> QED
    BY <2>1, <2>2
<1> QED
  BY <1>1 DEF IInv

\* Steps of a handler that leave the bucket and the service alone.
LEMMA QuietStep ==
  ASSUME IInv, NEW r \in Handlers, Others(r), TypeOK', HandlerInv(r)',
         UNCHANGED <<now, tableVars, was, svcVars>>
  PROVE  IInv'
<1>1. Drift
  BY DEF IInv, TypeOK, Drift, tableVars, svcVars, Times, Versions
<1>2. BucketInv'
  BY <1>1, BucketFrame DEF IInv
<1>3. ServiceInv'
  BY DEF IInv, ServiceInv, svcVars
<1> QED
  BY <1>1, <1>2, <1>3, OneHandler

-----------------------------------------------------------------------------
LEMMA InitIInv == Init => IInv
<1> SUFFICES ASSUME Init PROVE IInv
  OBVIOUS
<1>1. 1 \in Versions /\ 0 \in Times
  BY AuthCheckAssumption, AuthBoundAssumption DEF Versions, Times
<1>2. TypeOK
  BY <1>1 DEF Init, TypeOK
<1>3. BucketInv /\ ServiceInv
  BY DEF Init, BucketInv, ServiceInv
<1>4. ASSUME NEW r \in Handlers PROVE HandlerInv(r)
  <2>1. pc[r] = "idle" /\ start[r] = 0 /\ now = 0 /\ cs[r] = None
    BY DEF Init
  <2> QED
    BY <2>1 DEF HandlerInv, ControlsInv, FlowInv, GrantInv, Granted, InFlow,
                Read, Enforced
<1> QED
  BY <1>2, <1>3, <1>4 DEF IInv

-----------------------------------------------------------------------------
\* The beginning of a Check, up to the enforcement of the controls.
LEMMA BeginCheckKeeps ==
  ASSUME IInv, NEW r \in Handlers, NEW id \in Routes, BeginCheck(r, id)
  PROVE  IInv'
<1> USE DEF BeginCheck, Goto
<1>1. AuthzContext(envoyV, id) \in Request
  <2>1. Tables[envoyV] \in Table
    BY AuthCheckAssumption DEF IInv, TypeOK, Versions
  <2>2. Tables[envoyV].ctls[id] \in Control
    BY <2>1, AuthCheckAssumption DEF Table
  <2> QED
    BY <2>2 DEF AuthzContext, Request, Control
<1>2. TypeOK'
  BY <1>1 DEF IInv, TypeOK, tableVars, svcVars, hookVars
<1>3. Others(r)
  BY DEF Others, Same, IInv, TypeOK
<1>4. /\ pc'[r] = "authn" /\ req'[r] = AuthzContext(envoyV, id)
      /\ start'[r] = now /\ now' = now
  BY DEF IInv, TypeOK
<1>5. cs'[r] = None
  BY DEF IInv, HandlerInv, FlowInv
<1>6. now <= now
  BY SharedTypes DEF IInv
<1>7. HandlerInv(r)'
  BY <1>1, <1>4, <1>5, <1>6
     DEF HandlerInv, ControlsInv, FlowInv, GrantInv, Granted, InFlow, Read,
         Enforced
<1> QED
  BY <1>2, <1>3, <1>7, QuietStep

\* RequestHeader lets the request through.
LEMMA AuthenticatedKeeps ==
  ASSUME IInv, NEW r \in Handlers, NEW p \in Payloads, Authenticated(r, p)
  PROVE  IInv'
<1> USE DEF Authenticated, Goto
<1>1. TypeOK'
  BY AuthCheckAssumption DEF IInv, TypeOK, tableVars, svcVars, hookVars
<1>2. Others(r)
  BY DEF Others, Same, IInv, TypeOK
<1>3. /\ pc'[r] = "read" /\ tok'[r] = p
      /\ req'[r] = req[r] /\ start'[r] = start[r] /\ cs'[r] = cs[r]
  BY DEF IInv, TypeOK
<1>4. HandlerInv(r)'
  BY <1>3 DEF IInv, HandlerInv, ControlsInv, FlowInv, GrantInv, Granted,
              InFlow, Read, Enforced
<1> QED
  BY <1>1, <1>2, <1>4, QuietStep

\* An answer that does not let the request through holds nothing more.
LEMMA DenialKeeps ==
  ASSUME IInv, NEW r \in Handlers, pc[r] # "idle",
         NEW a \in {"unauthorized", "badRequest", "notFound", "internal",
                    "redirect"},
         Answer(r, a), UNCHANGED <<now, tableVars, was, svcVars, req, start,
                                   tok, ctl, since, clock, cs, sub, hookVars>>
  PROVE  IInv'
<1> USE DEF Answer
<1>1. TypeOK'
  BY DEF IInv, TypeOK, tableVars, svcVars, hookVars
<1>2. Others(r)
  BY DEF Others, Same, IInv, TypeOK
<1>3. pc'[r] = "answered" /\ answer'[r] # "allow"
  BY DEF IInv, TypeOK
<1>4. HandlerInv(r)'
  BY <1>3 DEF IInv, HandlerInv, ControlsInv, FlowInv, GrantInv, Granted,
              InFlow, Read, Enforced
<1> QED
  BY <1>1, <1>2, <1>4, QuietStep

\* authorizeProxyCtls under the lock.
LEMMA ReadControlsKeeps ==
  ASSUME IInv, NEW r \in Handlers, ReadControls(r)
  PROVE  IInv'
<1> DEFINE c == Tables[authV].ctls[req[r].route]
<1>1. CASE c = None /\ Answer(r, "notFound") /\ UNCHANGED <<ctl, since>>
  <2>1. pc[r] # "idle"
    BY DEF ReadControls
  <2>2. UNCHANGED <<now, tableVars, was, svcVars, req, start, tok, ctl, since,
                    clock, cs, sub, hookVars>>
    BY <1>1 DEF ReadControls
  <2> QED
    BY <1>1, <2>1, <2>2, DenialKeeps
<1>2. CASE /\ c # None
           /\ ctl' = [ctl EXCEPT ![r] = c]
           /\ since' = [since EXCEPT ![r] = authV]
           /\ Goto(r, "enforce")
           /\ UNCHANGED answer
  <2> USE DEF ReadControls, Goto
  <2>1. req[r] \in Request
    BY DEF IInv, HandlerInv, ControlsInv
  <2>2. Tables[authV] \in Table
    BY AuthCheckAssumption DEF IInv, TypeOK, Versions
  <2>3. c \in Control
    BY <1>2, <2>1, <2>2 DEF Table, Request
  <2> HIDE DEF c
  <2>4. TypeOK'
    BY <1>2, <2>3 DEF IInv, TypeOK, tableVars, svcVars, hookVars
  <2>5. Others(r)
    BY <1>2 DEF Others, Same, IInv, TypeOK
  <2>6. /\ pc'[r] = "enforce" /\ ctl'[r] = c /\ since'[r] = authV
    BY <1>2 DEF IInv, TypeOK
  <2>7. authV <= authV
    BY SharedTypes DEF IInv
  <2>8. pc[r] = "read"
    OBVIOUS
  <2>9. c = Tables[authV].ctls[req[r].route]
    BY DEF c
  <2>10. ControlsInv(r)'
    BY <1>2, <2>6, <2>7, <2>8, <2>9, <2>1
       DEF IInv, HandlerInv, ControlsInv, Granted, InFlow, Read, Enforced,
           tableVars
  <2>11. FlowInv(r)' /\ GrantInv(r)'
    BY <2>6, <2>8 DEF IInv, HandlerInv, FlowInv, GrantInv, Granted, InFlow
  <2> QED
    BY <2>4, <2>5, <2>10, <2>11, QuietStep DEF HandlerInv
<1> QED
  BY <1>1, <1>2 DEF ReadControls

\* The rules say what Permitted says.
LEMMA RulesPermit ==
  ASSUME NEW v, NEW id, NEW p, Tables[v].ctls[id] # None,
         p.ext # None => Tables[v].ctls[id].community = p.ext,
         Rules(Tables[v].ctls[id], p)
  PROVE  Permitted(v, id, p)
  BY DEF Rules, Permitted

\* authorizeProxyCtls after the lock.
LEMMA EnforceKeeps ==
  ASSUME IInv, NEW r \in Handlers, Enforce(r)
  PROVE  IInv'
<1>1. CASE Answer(r, "unauthorized")
  <2>1. pc[r] # "idle"
    BY DEF Enforce
  <2>2. UNCHANGED <<now, tableVars, was, svcVars, req, start, tok, ctl, since,
                    clock, cs, sub, hookVars>>
    BY DEF Enforce
  <2> QED
    BY <1>1, <2>1, <2>2, DenialKeeps
<1>2. CASE /\ tok[r].ext # None => ctl[r].community = tok[r].ext
           /\ Rules(ctl[r], tok[r])
           /\ Goto(r, "subtoken") /\ UNCHANGED answer
  <2> USE DEF Enforce, Goto
  <2>1. TypeOK'
    BY <1>2 DEF IInv, TypeOK, tableVars, svcVars, hookVars
  <2>2. Others(r)
    BY <1>2 DEF Others, Same, IInv, TypeOK
  <2>3. pc'[r] = "subtoken" /\ pc[r] = "enforce"
    BY <1>2 DEF IInv, TypeOK
  <2>4. Read(r) /\ ControlsInv(r)
    BY <2>3 DEF IInv, HandlerInv, Read
  <2>5. Permitted(since[r], req[r].route, tok[r])
    BY <1>2, <2>4, RulesPermit DEF ControlsInv
  <2>6. Permitted(since[r], req[r].route, tok[r])'
    BY <2>5 DEF Permitted
  <2>7. ControlsInv(r)'
    BY <2>3, <2>4, <2>6 DEF ControlsInv, Granted, InFlow, Read, tableVars
  <2>8. FlowInv(r)' /\ GrantInv(r)'
    BY <2>3 DEF IInv, HandlerInv, FlowInv, GrantInv, Granted, InFlow
  <2> QED
    BY <2>1, <2>2, <2>7, <2>8, QuietStep DEF HandlerInv
<1> QED
  BY <1>1, <1>2 DEF Enforce

-----------------------------------------------------------------------------
\* SubtokenFlow leaves the controls and the outcome of their enforcement be.
LEMMA ControlsStay ==
  ASSUME IInv, NEW r \in Handlers, Enforced(r),
         req'[r] = req[r], tok'[r] = tok[r], ctl'[r] = ctl[r],
         since'[r] = since[r], authV' = authV
  PROVE  ControlsInv(r)'
<1>1. Read(r) /\ pc[r] # "idle"
  BY DEF Enforced, Read, InFlow, Granted
<1>2. Permitted(since[r], req[r].route, tok[r])'
  BY DEF IInv, HandlerInv, ControlsInv, Permitted
<1> QED
  BY <1>1, <1>2 DEF IInv, HandlerInv, ControlsInv

LEMMA SubtokenFlowKeeps ==
  ASSUME IInv, NEW r \in Handlers, SubtokenFlow(r)
  PROVE  IInv'
<1> USE DEF SubtokenFlow
<1>1. pc[r] = "subtoken" /\ cs[r] = None /\ cs'[r] = None
  BY DEF IInv, HandlerInv, FlowInv
<1>2. ControlsInv(r)'
  BY <1>1, ControlsStay DEF Enforced, tableVars
<1>3. CASE \E s \in {None, OwnToken} :
             /\ Allow(r, s) /\ UNCHANGED clock
             /\ s = None <=> req[r].community = None
             /\ s = OwnToken => tok[r].ext = req[r].community
  <2> PICK s \in {None, OwnToken} :
             /\ Allow(r, s) /\ UNCHANGED clock
             /\ s = None <=> req[r].community = None
             /\ s = OwnToken => tok[r].ext = req[r].community
    BY <1>3
  <2>1. TypeOK'
    BY DEF IInv, TypeOK, tableVars, svcVars, hookVars, Allow, Answer
  <2>2. Others(r)
    BY DEF Others, Same, IInv, TypeOK, Allow, Answer
  <2>3. pc'[r] = "answered" /\ sub'[r] = s
    BY DEF IInv, TypeOK, Allow, Answer
  <2>4. sub'[r] \notin SubIDs
    BY <2>3, AuthCheckAssumption
  <2>5. FlowInv(r)' /\ GrantInv(r)'
    BY <1>1, <2>3, <2>4 DEF IInv, HandlerInv, FlowInv, GrantInv, InFlow
  <2> QED
    BY <1>2, <2>1, <2>2, <2>5, QuietStep DEF HandlerInv
<1>4. CASE /\ req[r].community # None
           /\ ~(tok[r].ext = req[r].community /\ tok[r].parent # None)
           /\ clock' = [clock EXCEPT ![r] = now]
           /\ Goto(r, "get")
           /\ UNCHANGED <<sub, answer>>
  <2> USE DEF Goto
  <2>1. TypeOK'
    BY <1>4 DEF IInv, TypeOK, tableVars, svcVars, hookVars
  <2>2. Others(r)
    BY <1>4 DEF Others, Same, IInv, TypeOK
  <2>3. pc'[r] = "get" /\ clock'[r] = now
    BY <1>4 DEF IInv, TypeOK
  <2>4. FlowInv(r)' /\ GrantInv(r)'
    BY <1>1, <1>4, <2>3 DEF IInv, HandlerInv, FlowInv, GrantInv, InFlow, Granted
  <2> QED
    BY <1>2, <2>1, <2>2, <2>4, QuietStep DEF HandlerInv
<1> QED
  BY <1>3, <1>4, AuthCheckAssumption

\* The key of a handler in SubtokenFlow is a key of the bucket.
LEMMA KeyOfType ==
  ASSUME IInv, NEW r \in Handlers, InFlow(r)
  PROVE  /\ KeyOf(r) \in WasKeys
         /\ KeyOf(r)[1] = tok[r].id /\ KeyOf(r)[2] = req[r].community
         /\ tok[r].id \in TokenIDs /\ req[r].community \in Communities
         /\ tok[r].exp \in Nat
<1>1. tok[r] \in Payload /\ req[r] \in Request /\ req[r].community # None
  BY AuthCheckAssumption
     DEF IInv, HandlerInv, ControlsInv, FlowInv, Read, InFlow
<1> QED
  BY <1>1 DEF KeyOf, WasKey, WasKeys, Payload, Request

LEMMA GetSubtokenKeeps ==
  ASSUME IInv, NEW r \in Handlers, GetSubtoken(r)
  PROVE  IInv'
<1> DEFINE e == was[KeyOf(r)]
<1> USE DEF GetSubtoken
<1>1. pc[r] = "get" /\ InFlow(r)
  BY DEF InFlow
<1>2. ControlsInv(r)'
  BY <1>1, ControlsStay DEF Enforced, tableVars
<1>3. KeyOf(r) \in WasKeys
  BY <1>1, KeyOfType
<1>4. CASE Goto(r, "mint") /\ UNCHANGED <<cs, sub, answer>>
  <2> USE DEF Goto
  <2>1. TypeOK'
    BY <1>4 DEF IInv, TypeOK, tableVars, svcVars, hookVars
  <2>2. Others(r)
    BY <1>4 DEF Others, Same, IInv, TypeOK
  <2>3. pc'[r] = "mint"
    BY <1>4 DEF IInv, TypeOK
  <2>4. FlowInv(r)' /\ GrantInv(r)'
    BY <1>1, <1>4, <2>3 DEF IInv, HandlerInv, FlowInv, GrantInv, InFlow, Granted
  <2> QED
    BY <1>2, <2>1, <2>2, <2>4, QuietStep DEF HandlerInv
<1>5. CASE /\ e # None /\ cs' = [cs EXCEPT ![r] = e]
           /\ \/ clock[r] < e.exp /\ Allow(r, e.sub)
              \/ Goto(r, "delete") /\ UNCHANGED <<sub, answer>>
  <2>1. /\ e \in SubEntry /\ e.sub \in SubIDs /\ e.at \in Int /\ e.exp \in Int
        /\ now \in Int /\ start[r] \in Int
    BY <1>3, <1>5, SharedTypes, LocalTypes DEF IInv
  <2>2. /\ e.at <= now
        /\ TTL > 0 => now - e.at <= TTL - 1
        /\ subs[e.sub] = [parent |-> tok[r].id, ext |-> req[r].community]
        /\ revokedAt[e.sub] # None => e.at - revokedAt[e.sub] <= AuthTimeout - 1
    BY <1>3, <1>1, <1>5, KeyOfType DEF IInv, BucketInv
  <2>3. subs[e.sub] # None
    BY <2>2, <1>1, KeyOfType, AuthCheckAssumption DEF Issue
  <2>4. start[r] <= clock[r] /\ start[r] <= now
    BY <1>1 DEF IInv, HandlerInv, FlowInv
  <2>5. TTL > 0 /\ revokedAt[e.sub] # None =>
          start[r] - revokedAt[e.sub] <= (TTL - 1) + (AuthTimeout - 1)
    BY <2>1, <2>2, <2>4, SharedTypes, AuthBoundAssumption DEF IInv
  <2> HIDE DEF e
  <2>6. TypeOK'
    BY <1>5, <2>1 DEF IInv, TypeOK, tableVars, svcVars, hookVars, Allow,
                      Answer, Goto
  <2>7. Others(r)
    BY <1>5 DEF Others, Same, IInv, TypeOK, Allow, Answer, Goto
  <2>8. cs'[r] = e
    BY <1>5 DEF IInv, TypeOK
  <2>9. CASE clock[r] < e.exp /\ Allow(r, e.sub)
    <3>1. pc'[r] = "answered" /\ sub'[r] = e.sub
      BY <2>9 DEF IInv, TypeOK, Allow, Answer
    <3>2. FlowInv(r)'
      BY <3>1, <2>4 DEF FlowInv, InFlow
    <3>3. sub'[r] # None /\ sub'[r] # OwnToken /\ req[r].community # None
      BY <1>1, <2>1, <3>1, AuthCheckAssumption DEF IInv, HandlerInv, FlowInv
    <3>4. GrantInv(r)'
      BY <2>1, <2>2, <2>4, <2>5, <2>8, <2>9, <3>1, <3>3 DEF GrantInv, svcVars
    <3> QED
      BY <1>2, <2>6, <2>7, <3>2, <3>4, QuietStep DEF HandlerInv
  <2>10. CASE Goto(r, "delete") /\ UNCHANGED <<sub, answer>>
    <3>1. pc'[r] = "delete"
      BY <2>10 DEF IInv, TypeOK, Goto
    <3>2. FlowInv(r)' /\ GrantInv(r)'
      BY <1>1, <3>1, <2>3, <2>8
         DEF IInv, HandlerInv, FlowInv, GrantInv, InFlow, Granted, svcVars
    <3> QED
      BY <1>2, <2>6, <2>7, <3>2, QuietStep DEF HandlerInv
  <2> QED
    BY <1>5, <2>9, <2>10
<1> QED
  BY <1>4, <1>5

LEMMA DeleteExpiredKeeps ==
  ASSUME IInv, NEW r \in Handlers, DeleteExpired(r)
  PROVE  IInv'
<1> USE DEF DeleteExpired, Goto
<1>1. pc[r] = "delete" /\ InFlow(r)
  BY DEF InFlow
<1>2. ControlsInv(r)'
  BY <1>1, ControlsStay DEF Enforced, tableVars
<1>3. KeyOf(r) \in WasKeys
  BY <1>1, KeyOfType
<1>4. TypeOK' /\ \A k \in WasKeys : was'[k] = was[k] \/ was'[k] = None
  BY <1>3 DEF IInv, TypeOK, tableVars, svcVars, hookVars, TryDelete
<1>5. Others(r)
  BY DEF Others, Same, IInv, TypeOK
<1>6. Drift
  BY SharedTypes DEF IInv, Drift, tableVars, svcVars
<1>7. BucketInv'
  BY <1>4, <1>6, BucketFrame DEF IInv
<1>8. ServiceInv'
  BY DEF IInv, ServiceInv, svcVars
<1>9. pc'[r] = "mint"
  BY DEF IInv, TypeOK
<1>10. FlowInv(r)' /\ GrantInv(r)'
  BY <1>1, <1>9
     DEF IInv, HandlerInv, FlowInv, GrantInv, InFlow, Granted, svcVars
<1> QED
  BY <1>2, <1>4, <1>5, <1>6, <1>7, <1>8, <1>10, OneHandler DEF HandlerInv

\* A subtoken just issued was never in the bucket, nor revoked.
LEMMA PostSubtokenKeeps ==
  ASSUME IInv, NEW r \in Handlers, PostSubtoken(r)
  PROVE  IInv'
<1>1. pc[r] = "mint" /\ InFlow(r)
  BY DEF PostSubtoken, InFlow
<1>2. CASE Answer(r, "internal") /\ UNCHANGED <<subs, sub>>
  <2>1. UNCHANGED <<now, tableVars, was, svcVars, req, start, tok, ctl, since,
                    clock, cs, sub, hookVars>>
    BY <1>2 DEF PostSubtoken, svcVars
  <2> QED
    BY <1>1, <1>2, <2>1, DenialKeeps
<1>3. ASSUME NEW s \in SubIDs,
             subs[s] = None,
             subs' = [subs EXCEPT ![s] = [parent |-> tok[r].id,
                                          ext |-> req[r].community]],
             sub' = [sub EXCEPT ![r] = s],
             Goto(r, "store"),
             UNCHANGED answer
      PROVE  IInv'
  <2> USE DEF PostSubtoken, Goto
  <2>1. [parent |-> tok[r].id, ext |-> req[r].community] \in Issue
    BY <1>1, KeyOfType DEF Issue
  <2>2. TypeOK'
    BY <1>3, <2>1 DEF IInv, TypeOK, tableVars, hookVars
  <2>3. Others(r)
    BY <1>3 DEF Others, Same, IInv, TypeOK
  <2>4. Drift
    BY <1>3, SharedTypes DEF IInv, TypeOK, Drift, tableVars
  <2>5. BucketInv'
    BY <2>2, <2>4, BucketFrame DEF IInv
  <2>6. ServiceInv'
    BY <1>3 DEF IInv, TypeOK, ServiceInv
  <2>7. ControlsInv(r)'
    BY <1>1, ControlsStay DEF Enforced, tableVars
  <2>8. /\ pc'[r] = "store" /\ sub'[r] = s
        /\ subs'[s] = [parent |-> tok[r].id, ext |-> req[r].community]
    BY <1>3 DEF IInv, TypeOK
  <2>9. revokedAt'[s] = None
    BY <1>3 DEF IInv, ServiceInv
  <2>10. cs[r] # None => cs[r].sub # s
    BY <1>1, <1>3 DEF IInv, HandlerInv, FlowInv
  <2>11. FlowInv(r)' /\ GrantInv(r)'
    BY <1>1, <1>3, <2>8, <2>9, <2>10
       DEF IInv, HandlerInv, FlowInv, GrantInv, InFlow, Granted
  <2> QED
    BY <2>2, <2>3, <2>4, <2>5, <2>6, <2>7, <2>11, OneHandler DEF HandlerInv
<1> QED
  BY <1>2, <1>3 DEF PostSubtoken

LEMMA StoreSubtokenKeeps ==
  ASSUME IInv, NEW r \in Handlers, StoreSubtoken(r)
  PROVE  IInv'
<1> DEFINE e == [sub |-> sub[r], exp |-> tok[r].exp, at |-> now]
<1> USE DEF StoreSubtoken, Answer
<1>1. pc[r] = "store" /\ InFlow(r)
  BY DEF InFlow
<1>2. ControlsInv(r)'
  BY <1>1, ControlsStay DEF Enforced, tableVars
<1>3. /\ KeyOf(r) \in WasKeys
      /\ KeyOf(r)[1] = tok[r].id /\ KeyOf(r)[2] = req[r].community
  BY <1>1, KeyOfType
<1>4. /\ sub[r] \in SubIDs
      /\ subs[sub[r]] = [parent |-> tok[r].id, ext |-> req[r].community]
      /\ cs[r] # None => cs[r].sub # sub[r]
      /\ revokedAt[sub[r]] # None => start[r] <= revokedAt[sub[r]]
      /\ req[r].community # None
  BY <1>1 DEF IInv, HandlerInv, FlowInv
<1>5. e \in SubEntry /\ e.sub = sub[r] /\ e.at = now
  BY <1>1, <1>4, KeyOfType DEF SubEntry, IInv, TypeOK
<1>6. \/ was' = was
      \/ CtxLive(r) /\ was' = [was EXCEPT ![KeyOf(r)] = e]
  BY DEF TryPut
<1> HIDE DEF e
<1>7. TypeOK'
  BY <1>3, <1>5, <1>6 DEF IInv, TypeOK, tableVars, svcVars, hookVars
<1>8. Others(r)
  BY DEF Others, Same, IInv, TypeOK
<1>9. Drift
  BY SharedTypes DEF IInv, Drift, tableVars, svcVars
<1>10. ServiceInv'
  BY DEF IInv, ServiceInv, svcVars
<1>11. BucketInv'
  <2> SUFFICES ASSUME NEW k \in WasKeys, was'[k] # None
               PROVE  BucketInv!(k)!2'
    BY DEF BucketInv
  <2>1. CASE was'[k] = was[k]
    <3>1. BucketInv!(k)!2
      BY <2>1 DEF IInv, BucketInv
    <3> QED
      BY <2>1, <3>1 DEF svcVars
  <2>2. CASE was'[k] = e /\ k = KeyOf(r) /\ CtxLive(r)
    <3>1. now \in Int /\ start[r] \in Int
      BY SharedTypes, LocalTypes DEF IInv
    <3>2. revokedAt[sub[r]] # None => now - revokedAt[sub[r]] <= AuthTimeout - 1
      BY <1>4, <2>2, <3>1, SharedTypes, AuthBoundAssumption DEF CtxLive, IInv
    <3>3. TTL > 0 => now - now <= TTL - 1
      BY <3>1, AuthBoundAssumption
    <3> QED
      BY <1>3, <1>4, <1>5, <2>2, <3>1, <3>2, <3>3 DEF svcVars
  <2> QED
    BY <1>3, <1>6, <2>1, <2>2 DEF IInv, TypeOK
<1>12. pc'[r] = "answered"
  BY DEF IInv, TypeOK
<1>13. FlowInv(r)'
  BY <1>12 DEF IInv, HandlerInv, FlowInv, InFlow
<1>14. sub[r] # None /\ sub[r] # OwnToken
  BY <1>4, AuthCheckAssumption
<1>15. TTL > 0 /\ revokedAt[sub[r]] # None =>
         start[r] - revokedAt[sub[r]] <= (TTL - 1) + (AuthTimeout - 1)
  BY <1>4, SharedTypes, LocalTypes, AuthBoundAssumption DEF IInv
<1>16. GrantInv(r)'
  BY <1>4, <1>14, <1>15 DEF GrantInv, svcVars
<1> QED
  BY <1>2, <1>7, <1>8, <1>9, <1>10, <1>11, <1>13, <1>16, OneHandler
     DEF HandlerInv

-----------------------------------------------------------------------------
\* Goroutines end: those of one Check, or all with the process.
LEMMA EndKeeps ==
  ASSUME IInv, NEW S \in SUBSET Handlers, End(S),
         \/ authV' = authV
         \/ S = Handlers /\ authV' = 1
  PROVE  IInv'
<1>0. 1 \in Versions /\ 0 \in Times
  BY AuthCheckAssumption, AuthBoundAssumption DEF Versions, Times
<1>1. TypeOK'
  BY <1>0 DEF End, IInv, TypeOK, svcVars, hookVars
<1>2. BucketInv' /\ ServiceInv'
  BY DEF End, IInv, BucketInv, ServiceInv, svcVars
<1>3. ASSUME NEW r \in Handlers PROVE HandlerInv(r)'
  <2>1. CASE r \in S
    <3>1. pc'[r] = "idle" /\ start'[r] = 0 /\ cs'[r] = None
      BY <2>1 DEF End
    <3>2. 0 <= now'
      BY AuthBoundAssumption DEF End, IInv, TypeOK, Times
    <3> QED
      BY <3>1, <3>2 DEF HandlerInv, ControlsInv, FlowInv, GrantInv, Granted,
                        InFlow, Read, Enforced
  <2>2. CASE r \notin S
    <3>1. Same(r)
      BY <2>2 DEF End, Same
    <3>2. Drift
      BY <2>2, SharedTypes DEF End, Drift, IInv, svcVars
    <3> QED
      BY <1>1, <3>1, <3>2, HandlerFrame DEF IInv
  <2> QED
    BY <2>1, <2>2
<1> QED
  BY <1>1, <1>2, <1>3 DEF IInv

\* Every step of a handler that is in a Check.
LEMMA CheckStepKeeps ==
  ASSUME IInv, NEW r \in Handlers, CheckStep(r)
  PROVE  IInv'
<1>1. CASE RequestRefused(r)
  <2>1. /\ pc[r] # "idle"
        /\ UNCHANGED <<now, tableVars, was, svcVars, req, start, tok, ctl,
                       since, clock, cs, sub, hookVars>>
    BY <1>1 DEF RequestRefused
  <2>2. PICK a \in {"unauthorized", "badRequest", "internal", "redirect"} :
          Answer(r, a)
    BY <1>1 DEF RequestRefused
  <2> QED
    BY <2>1, <2>2, DenialKeeps
<1>2. CASE Return(r)
  BY <1>2, EndKeeps DEF Return
<1> QED
  BY <1>1, <1>2, AuthenticatedKeeps, ReadControlsKeeps, EnforceKeeps,
     SubtokenFlowKeeps, GetSubtokenKeeps, DeleteExpiredKeeps,
     PostSubtokenKeeps, StoreSubtokenKeeps DEF CheckStep

\* Steps in which no handler moves.
LEMMA NoHandler ==
  ASSUME IInv, UNCHANGED reqVars, TypeOK', Drift, BucketInv', ServiceInv'
  PROVE  IInv'
<1>1. ASSUME NEW r \in Handlers PROVE HandlerInv(r)'
  BY HandlerFrame DEF IInv, Same, reqVars
<1> QED
  BY <1>1 DEF IInv

LEMMA WebhookKeeps ==
  ASSUME IInv, NEW w \in Hooks,
         (\E t \in TokenIDs : InvalidateWebhook(w, t)) \/ RemoveSubtoken(w)
  PROVE  IInv'
<1>1. /\ UNCHANGED <<now, tableVars, svcVars, reqVars>>
      /\ Drift /\ ServiceInv'
  BY SharedTypes DEF InvalidateWebhook, RemoveSubtoken, IInv, Drift,
     ServiceInv, tableVars, svcVars
<1>2. ASSUME NEW t \in TokenIDs, InvalidateWebhook(w, t) PROVE IInv'
  <2>1. HookKeys(t) \subseteq Seq(WasKeys)
    <3> SUFFICES ASSUME NEW n \in 1 .. MaxSubs,
                        NEW ks \in [1 .. n -> {t} \X Communities]
                 PROVE  ks \in Seq(WasKeys)
      BY DEF HookKeys
    <3>1. n \in Nat /\ ks \in [1 .. n -> WasKeys]
      BY AuthBoundAssumption DEF WasKeys
    <3> QED
      BY <3>1
  <2>2. TypeOK' /\ was' = was
    BY <1>2, <2>1 DEF InvalidateWebhook, IInv, TypeOK, tableVars, svcVars,
                      reqVars
  <2> QED
    BY <1>1, <2>2, BucketFrame, NoHandler DEF IInv
<1>3. CASE RemoveSubtoken(w)
  <2>1. Head(todo[w]) \in WasKeys /\ Tail(todo[w]) \in Seq(WasKeys)
    BY <1>3 DEF RemoveSubtoken, IInv, TypeOK
  <2>2. hookStart' \in [Hooks -> Times]
    BY <1>3, AuthBoundAssumption DEF RemoveSubtoken, IInv, TypeOK, Times
  <2>3. /\ was' \in [WasKeys -> SubEntry \cup {None}]
        /\ \A k \in WasKeys : was'[k] = was[k] \/ was'[k] = None
    BY <1>3, <2>1 DEF RemoveSubtoken, TryDelete, IInv, TypeOK
  <2>4. TypeOK'
    BY <1>3, <1>1, <2>1, <2>2, <2>3 DEF RemoveSubtoken, IInv, TypeOK,
       tableVars, svcVars, reqVars
  <2> QED
    BY <1>1, <2>3, <2>4, BucketFrame, NoHandler DEF IInv
<1> QED
  BY <1>2, <1>3

\* The tables move on, or the Token Service revokes a subtoken.
LEMMA EnvironmentKeeps ==
  ASSUME IInv, UpdateCtls \/ EnvoyUpdate \/ \E s \in SubIDs : RevokeSubtoken(s)
  PROVE  IInv'
<1>1. CASE UpdateCtls
  <2>1. authV' \in Versions /\ authV <= authV'
    BY <1>1, AuthCheckAssumption DEF UpdateCtls, IInv, TypeOK, Versions
  <2>2. TypeOK' /\ Drift
    BY <1>1, <2>1, SharedTypes
       DEF UpdateCtls, IInv, TypeOK, Drift, svcVars, reqVars, hookVars
  <2>3. ServiceInv' /\ now' = now /\ was' = was /\ UNCHANGED reqVars
    BY <1>1 DEF UpdateCtls, IInv, ServiceInv, svcVars
  <2> QED
    BY <2>2, <2>3, BucketFrame, NoHandler DEF IInv
<1>2. CASE EnvoyUpdate
  <2>1. envoyV' \in Versions
    BY <1>2, AuthCheckAssumption DEF EnvoyUpdate, IInv, TypeOK, Versions
  <2>2. TypeOK' /\ Drift
    BY <1>2, <2>1, SharedTypes
       DEF EnvoyUpdate, IInv, TypeOK, Drift, svcVars, reqVars, hookVars
  <2>3. ServiceInv' /\ now' = now /\ was' = was /\ UNCHANGED reqVars
    BY <1>2 DEF EnvoyUpdate, IInv, ServiceInv, svcVars
  <2> QED
    BY <2>2, <2>3, BucketFrame, NoHandler DEF IInv
<1>3. ASSUME NEW s \in SubIDs, RevokeSubtoken(s) PROVE IInv'
  <2>1. TypeOK' /\ Drift
    BY <1>3, SharedTypes DEF RevokeSubtoken, IInv, TypeOK, Drift, tableVars,
       reqVars, hookVars
  <2>2. ServiceInv' /\ now' = now /\ was' = was /\ UNCHANGED reqVars
    BY <1>3 DEF RevokeSubtoken, IInv, TypeOK, ServiceInv
  <2> QED
    BY <2>1, <2>2, BucketFrame, NoHandler DEF IInv
<1> QED
  BY <1>1, <1>2, <1>3

\* Time passes: what stays in the bucket is still younger than the TTL.
LEMMA TickKeeps == IInv /\ Tick => IInv'
<1> SUFFICES ASSUME IInv, Tick PROVE IInv'
  OBVIOUS
<1> USE DEF Tick
<1>1. TypeOK'
  BY AuthBoundAssumption
     DEF IInv, TypeOK, Times, tableVars, svcVars, reqVars, hookVars
<1>2. Drift
  BY SharedTypes DEF IInv, Drift, tableVars, svcVars
<1>3. ServiceInv'
  BY DEF IInv, ServiceInv, svcVars
<1>4. BucketInv'
  <2> SUFFICES ASSUME NEW k \in WasKeys, was'[k] # None
               PROVE  BucketInv!(k)!2'
    BY DEF BucketInv
  <2>1. /\ was'[k] = was[k] /\ was[k] # None
        /\ ~(TTL > 0 /\ now + 1 - was[k].at >= TTL)
    OBVIOUS
  <2>2. BucketInv!(k)!2
    BY <2>1 DEF IInv, BucketInv
  <2>3. was[k].at \in Int /\ now \in Int
    BY <2>1, SharedTypes DEF IInv
  <2>4. was[k].at <= now + 1 /\ (TTL > 0 => now + 1 - was[k].at <= TTL - 1)
    BY <2>1, <2>2, <2>3, AuthBoundAssumption
  <2>5. now' = now + 1 /\ subs' = subs /\ revokedAt' = revokedAt
    BY DEF svcVars
  <2> HIDE DEF Tick
  <2> QED
    BY <2>1, <2>2, <2>3, <2>4, <2>5
<1> QED
  BY <1>1, <1>2, <1>3, <1>4, NoHandler

-----------------------------------------------------------------------------
\* The invariant is inductive: every reachable state of a Check and of the
\* bucket satisfies it.
THEOREM Invariance == Spec => []IInv
<1>1. IInv /\ [Next]_vars => IInv'
  <2> SUFFICES ASSUME IInv, [Next]_vars PROVE IInv'
    OBVIOUS
  <2>1. CASE \E r \in Handlers :
               (\E id \in Routes : BeginCheck(r, id)) \/ CheckStep(r)
    BY <2>1, BeginCheckKeeps, CheckStepKeeps
  <2>2. CASE \E w \in Hooks :
               (\E t \in TokenIDs : InvalidateWebhook(w, t)) \/ RemoveSubtoken(w)
    BY <2>2, WebhookKeeps
  <2>3. CASE AuthRestart
    BY <2>3, EndKeeps DEF AuthRestart
  <2>4. CASE UpdateCtls \/ EnvoyUpdate \/ \E s \in SubIDs : RevokeSubtoken(s)
    BY <2>4, EnvironmentKeeps
  <2>5. CASE Tick
    BY <2>5, TickKeeps
  <2>6. CASE UNCHANGED vars
    <3>1. TypeOK' /\ Drift /\ ServiceInv'
      BY <2>6, SharedTypes DEF vars, IInv, TypeOK, Drift, ServiceInv,
         tableVars, svcVars, reqVars, hookVars
    <3> QED
      BY <2>6, <3>1, BucketFrame, NoHandler DEF vars, IInv
  <2> QED
    BY <2>1, <2>2, <2>3, <2>4, <2>5, <2>6 DEF Next
<1> QED
  BY <1>1, InitIInv, PTL DEF Spec

\* The state has its types.
THEOREM TypeCorrect == Spec => []TypeOK
<1>1. IInv => TypeOK
  BY DEF IInv
<1> QED
  BY <1>1, Invariance, PTL

\* A request is only let through by the rules of one table that the process
\* had in force during the Check, however updateCtls swaps the controls
\* between the lookup and the enforcement (authorizeProxyCtls).
THEOREM RulesAreOfOneTable == Spec => []RulesHeld
<1>1. IInv => RulesHeld
  <2> SUFFICES ASSUME IInv, NEW r \in Handlers, Granted(r)
               PROVE  \E v \in since[r] .. authV :
                        Permitted(v, req[r].route, tok[r])
    BY DEF RulesHeld
  <2>1. Read(r) /\ Enforced(r)
    BY DEF Read, Enforced
  <2>2. since[r] \in since[r] .. authV
    BY <2>1, SharedTypes, LocalTypes DEF IInv, HandlerInv, ControlsInv
  <2> QED
    BY <2>1, <2>2 DEF IInv, HandlerInv, ControlsInv
<1> QED
  BY <1>1, Invariance, PTL

\* The subtoken injected into a request was issued for its token and its
\* community, or is the request's own (SubtokenFlow).
THEOREM InjectionInScope == Spec => []InjectedInScope
<1>1. IInv => InjectedInScope
  BY DEF IInv, HandlerInv, GrantInv, InjectedInScope
<1> QED
  BY <1>1, Invariance, PTL

\* A subtoken is requested for a subtoken only when Envoy and the process
\* disagree on the community of the route.
THEOREM NestingNeedsSkew == Spec => []NestedOnlyUnderSkew
<1>1. IInv => NestedOnlyUnderSkew
  <2> SUFFICES ASSUME IInv, NEW r \in Handlers, pc[r] \in {"mint", "store"},
                      tok[r].parent # None
               PROVE  req[r].community # ctl[r].community
    BY DEF NestedOnlyUnderSkew
  <2>1. InFlow(r) /\ Read(r) /\ Enforced(r)
    BY DEF InFlow, Read, Enforced
  <2>2. tok[r].ext # None
    BY <2>1, AuthCheckAssumption DEF IInv, HandlerInv, ControlsInv
  <2>3. ctl[r].community = tok[r].ext
    BY <2>1, <2>2 DEF IInv, HandlerInv, ControlsInv, Permitted
  <2> QED
    BY <2>1, <2>3 DEF IInv, HandlerInv, FlowInv
<1> QED
  BY <1>1, Invariance, PTL

\* A revoked subtoken is not injected once the TTL and two Check deadlines
\* are over, whatever happens to the webhook's Delete.
THEOREM RevokedSubtokensAge == Spec => []SubtokenLatency
<1>1. IInv => SubtokenLatency
  <2> SUFFICES ASSUME IInv, NEW r \in Handlers,
                      TTL > 0, Granted(r), CtxLive(r), sub[r] \in SubIDs,
                      revokedAt[sub[r]] # None
               PROVE  now - revokedAt[sub[r]] <= (TTL - 1) + 2 * (AuthTimeout - 1)
    BY DEF SubtokenLatency
  <2>1. start[r] - revokedAt[sub[r]] <= (TTL - 1) + (AuthTimeout - 1)
    BY DEF IInv, HandlerInv, GrantInv
  <2>2. now \in Int /\ start[r] \in Int /\ revokedAt[sub[r]] \in Int
    BY SharedTypes, LocalTypes DEF IInv
  <2> QED
    BY <2>1, <2>2, AuthBoundAssumption DEF CtxLive
<1> QED
  BY <1>1, Invariance, PTL

\* A cached subtoken is not injected later than a Check deadline after its
\* expiry, although the time it is compared with was read before the Get.
THEOREM CachedSubtokensExpire == Spec => []ServedBeforeExpiry
<1>1. IInv => ServedBeforeExpiry
  <2> SUFFICES ASSUME IInv, NEW r \in Handlers, Granted(r), CtxLive(r),
                      cs[r] # None, sub[r] = cs[r].sub
               PROVE  now < cs[r].exp + AuthTimeout - 1
    BY DEF ServedBeforeExpiry
  <2>1. start[r] <= clock[r] /\ clock[r] < cs[r].exp
    BY DEF IInv, HandlerInv, GrantInv
  <2>2. /\ now \in Int /\ start[r] \in Int /\ clock[r] \in Int
        /\ cs[r].exp \in Int
    BY SharedTypes, LocalTypes DEF IInv
  <2> QED
    BY <2>1, <2>2, AuthBoundAssumption DEF CtxLive
<1> QED
  BY <1>1, Invariance, PTL
=============================================================================
