------------------------------ MODULE TokenCache ------------------------------
(***************************************************************************)
(* The token cache of internal/wormhole/token: the authentication half of  *)
(* an ext_authz Check (RequestHeader with its WAT and OAuth flows), run by *)
(* any number of concurrent handlers of any number of auth replicas over   *)
(* one NATS key/value bucket, and the invalidate webhook of the admin      *)
(* service, which writes the same bucket.                                  *)
(*                                                                         *)
(* Every call that leaves the process (key/value store, Token Service,     *)
(* oauth2-proxy) is a step of its own, so the steps of two handlers and a  *)
(* webhook interleave as they do in production.  Time is a clock that      *)
(* ticks between steps; the bucket drops an entry when it reaches the TTL. *)
(***************************************************************************)
EXTENDS Integers, Sequences, FiniteSets

CONSTANTS
    Handlers,      \* goroutines of the auth replicas serving Check
    Hooks,         \* goroutines of the admin replicas serving the webhook
    WATs,          \* Wormhole Access Tokens users may present
    Sessions,      \* oauth2 access tokens behind session cookies
    TokenIDs,      \* the part of a WAT before its dot
    IdOf,          \* [WATs -> TokenIDs]
    Genuine,       \* the credentials the Token Service really issued
    CipherKeys,    \* AES keys replicas may be configured with
    NoKey,         \* the absent key: aescipher.NoopCipher
    Cipher,        \* [Handlers -> CipherKeys \cup {NoKey}]: the replica's key
    OauthEnabled,  \* whether --oauth-proxy is configured
    KVFaults,      \* whether key/value calls may fail while the context lives
    TTL,           \* --tokens-ttl; 0 means entries are kept
    AuthTimeout,   \* Envoy's ext_authz timeout, the deadline of a Check
    HookTimeout,   \* the 30 seconds given to an invalidate goroutine
    JWTLife,       \* lifetime of a Jump Token minted by the Token Service
    ExpSkew,       \* expSkew
    MaxSubs,       \* bound on the subtokens listed in one webhook call
    MaxTime,       \* bound on the clock
    None           \* no entry / no credential

Credentials == WATs \cup Sessions

\* The cache key of a credential (keys.WormholeAccessToken and
\* keys.WormholeOauthSession): a WAT is cached under its ID alone, a session
\* under a hash of the whole access token.
KeyOf(c) == IF c \in WATs THEN IdOf[c] ELSE c

Keys == TokenIDs \cup Sessions

ASSUME CredentialAssumption ==
    /\ WATs \cap Sessions = {}
    /\ TokenIDs \cap Sessions = {}
    /\ IdOf \in [WATs -> TokenIDs]
    /\ Genuine \subseteq Credentials
    /\ \A c, d \in Genuine : KeyOf(c) = KeyOf(d) => c = d
    /\ None \notin Credentials

ASSUME CipherAssumption ==
    /\ NoKey \notin CipherKeys
    /\ Cipher \in [Handlers -> CipherKeys \cup {NoKey}]

ASSUME BoundAssumption ==
    /\ TTL \in Nat
    /\ AuthTimeout \in Nat \ {0}
    /\ HookTimeout \in Nat \ {0}
    /\ JWTLife \in Nat
    /\ ExpSkew \in Nat
    /\ MaxSubs \in Nat
    /\ MaxTime \in Nat
    /\ KVFaults \in BOOLEAN
    /\ OauthEnabled \in BOOLEAN

VARIABLES
    now,        \* the clock
    kv,         \* the tokens bucket: key -> entry, or None
    alive,      \* the credentials the Token Service accepts at this instant
    revokedAt,  \* when a credential stopped being accepted (history)
    pc,         \* where each handler stands
    cred,       \* the credential its request presents
    start,      \* when its request arrived
    cs,         \* its local `cs`: the cached or minted entry it works with
    readAt,     \* when cs was obtained (history)
    answer,     \* what it will answer
    todo,       \* token IDs an invalidate goroutine still has to disallow
    hookStart   \* when that goroutine started

reqVars  == <<pc, cred, start, cs, readAt, answer>>
hookVars == <<todo, hookStart>>
svcVars  == <<alive, revokedAt>>
vars     == <<now, kv, svcVars, reqVars, hookVars>>

-----------------------------------------------------------------------------
(***************************************************************************)
(* Entries.  An entry is the stored cache struct: the credential stands    *)
(* for the token and the payload minted for it, enc for the key both       *)
(* tokens are encrypted with.  minted (when the Token Service vouched for  *)
(* the credential) is history; at is the time the bucket stamps on a Put.  *)
(***************************************************************************)
Times == 0 .. MaxTime

Entry == [disallowed : BOOLEAN, cred : Credentials \cup {None},
          enc : CipherKeys \cup {NoKey}, exp : Int, minted : Times, at : Times]

\* cache{Disallowed: true}: no token, no payload, hence nothing to encrypt.
Disallowed == [disallowed |-> TRUE, cred |-> None, enc |-> NoKey,
               exp |-> 0, minted |-> 0, at |-> 0]

\* Seeded fault: the token's ID is kept in place of the token.
MintedForID(r, c) == [disallowed |-> FALSE, cred |-> KeyOf(c), enc |-> Cipher[r],
                      exp |-> now + JWTLife, minted |-> now, at |-> 0]

\* The entry a successful exchange of c at this instant leads to, encrypted
\* with the key of handler r.
Minted(r, c) == [disallowed |-> FALSE, cred |-> c, enc |-> Cipher[r],
                 exp |-> now + JWTLife, minted |-> now, at |-> 0]

\* cache.expired at time t.
Expired(e, t) == t > e.exp - ExpSkew

\* Cipherer.Decrypt of the tokens of e fails for a handler with key k.  The
\* no-op cipher never fails, AES fails on anything it did not encrypt, and
\* mustDecrypt skips the empty tokens of a disallowed entry.
DecryptFails(k, e) == k # NoKey /\ e.cred # None /\ e.enc # k

\* Seeded fault: any entry that is not disallowed matches.
MatchesAny(k, e, c) == ~e.disallowed

\* Seeded fault: the comparison is made before decrypting.
MatchesCiphertext(k, e, c) == e.cred = c

\* The text Decrypt yields equals the presented credential c.
TokenMatches(k, e, c) == e.cred = c /\ e.enc = k

\* The bucket's calls.  A call whose context is done has no effect; a call
\* that fails is either lost or took effect without its reply, and no caller
\* looks at the error of a Put or a Delete.
CtxLive(r)  == now < start[r] + AuthTimeout
HookLive(w) == now < hookStart[w] + HookTimeout

TryPut(live, k, e) ==
    \/ live /\ kv' = [kv EXCEPT ![k] = [e EXCEPT !.at = now]]
    \/ (KVFaults \/ ~live) /\ kv' = kv

TryDelete(live, k) ==
    \/ live /\ kv' = [kv EXCEPT ![k] = None]
    \/ (KVFaults \/ ~live) /\ kv' = kv

-----------------------------------------------------------------------------
(***************************************************************************)
(* The handler: RequestHeader.                                             *)
(***************************************************************************)
Answer(r, a) ==
    /\ pc' = [pc EXCEPT ![r] = "answered"]
    /\ answer' = [answer EXCEPT ![r] = a]

Goto(r, l) == pc' = [pc EXCEPT ![r] = l]

\* A request whose token header fails validation: retrieveWAT's error.
BeginMalformed(r) ==
    /\ pc[r] = "idle"
    /\ start' = [start EXCEPT ![r] = now]
    /\ Answer(r, "badRequest")
    /\ UNCHANGED <<now, kv, svcVars, cred, cs, readAt, hookVars>>

\* A request with a well-formed WAT enters wormholeAccessTokenFlow.
BeginWAT(r, c) ==
    /\ pc[r] = "idle"
    /\ c \in WATs
    /\ cred' = [cred EXCEPT ![r] = c]
    /\ start' = [start EXCEPT ![r] = now]
    /\ Goto(r, "dummy")
    /\ UNCHANGED <<now, kv, svcVars, cs, readAt, answer, hookVars>>

\* A request without a token header enters oauthFlow.
BeginOauth(r) ==
    /\ pc[r] = "idle"
    /\ start' = [start EXCEPT ![r] = now]
    /\ \/ OauthEnabled  /\ Goto(r, "proxy") /\ UNCHANGED answer
       \/ ~OauthEnabled /\ Answer(r, "unauthorized")
    /\ UNCHANGED <<now, kv, svcVars, cred, cs, readAt, hookVars>>

\* callProxyAuth: oauth2-proxy refuses the cookies (redirect to the login),
\* answers without an access token (internal error), or names the session.
CallProxyAuth(r) ==
    /\ pc[r] = "proxy"
    /\ \/ Answer(r, "redirect") /\ UNCHANGED cred
       \/ Answer(r, "internal") /\ UNCHANGED cred
       \/ \E c \in Sessions :
             /\ cred' = [cred EXCEPT ![r] = c]
             /\ Goto(r, "dummy")
             /\ UNCHANGED answer
    /\ UNCHANGED <<now, kv, svcVars, start, cs, readAt, hookVars>>

\* getCache, first call: mustDecrypt of dummyCiphertext.  It is not base64,
\* so AES-GCM fails on it and mustDecrypt deletes the key being looked up;
\* the no-op cipher returns it.
DummyDecrypt(r) ==
    /\ pc[r] = "dummy"
    /\ Goto(r, "get")
    /\ IF Cipher[r] # NoKey THEN TryDelete(CtxLive(r), KeyOf(cred[r]))
                            ELSE UNCHANGED kv
    /\ UNCHANGED <<now, svcVars, cred, start, cs, readAt, answer, hookVars>>

\* Seeded fault: only a missing key is a miss, a failing store is waited for.
GetCacheBlocking(r) ==
    LET e == kv[KeyOf(cred[r])] IN
    /\ pc[r] = "get"
    /\ \/ /\ e = None
          /\ Goto(r, "exchange")
          /\ UNCHANGED <<cs, readAt>>
       \/ /\ e # None /\ CtxLive(r)
          /\ cs' = [cs EXCEPT ![r] = e]
          /\ readAt' = [readAt EXCEPT ![r] = now]
          /\ Goto(r, "validate")
    /\ UNCHANGED <<now, kv, svcVars, cred, start, answer, hookVars>>

\* getCache, kvStore.Get.  Any error is a miss; a hit is decrypted first.
GetCache(r) ==
    LET e == kv[KeyOf(cred[r])] IN
    /\ pc[r] = "get"
    /\ \/ /\ e = None \/ KVFaults \/ ~CtxLive(r)
          /\ Goto(r, "exchange")
          /\ UNCHANGED <<cs, readAt>>
       \/ /\ e # None /\ CtxLive(r)
          /\ cs' = [cs EXCEPT ![r] = e]
          /\ readAt' = [readAt EXCEPT ![r] = now]
          /\ Goto(r, IF DecryptFails(Cipher[r], e) THEN "decryptJump"
                                                   ELSE "validate")
    /\ UNCHANGED <<now, kv, svcVars, cred, start, answer, hookVars>>

\* Seeded fault: an entry under another key is encrypted again, not deleted.
ReencryptCorrupted(r) ==
    /\ \/ pc[r] = "decryptJump"  /\ Goto(r, "decryptToken")
       \/ pc[r] = "decryptToken" /\ Goto(r, "validate")
    /\ TryPut(CtxLive(r), KeyOf(cred[r]), [cs[r] EXCEPT !.enc = Cipher[r]])
    /\ UNCHANGED <<now, svcVars, cred, start, cs, readAt, answer, hookVars>>

\* mustDecrypt of the Jump Token, then of the token, when AES fails on them:
\* each failure deletes the key.
DeleteCorrupted(r) ==
    /\ \/ pc[r] = "decryptJump"  /\ Goto(r, "decryptToken")
       \/ pc[r] = "decryptToken" /\ Goto(r, "validate")
    /\ TryDelete(CtxLive(r), KeyOf(cred[r]))
    /\ UNCHANGED <<now, svcVars, cred, start, cs, readAt, answer, hookVars>>

\* The error getCache returns becomes a 401 in the WAT flow, a redirect to
\* the login in the OAuth flow.
InvalidCredentials(r) == IF cred[r] \in WATs THEN "unauthorized" ELSE "redirect"

\* Seeded fault: a hit is written back so that its TTL starts again.
ValidateSliding(r) ==
    /\ pc[r] = "validate"
    /\ TryPut(CtxLive(r), KeyOf(cred[r]), cs[r])
    /\ Answer(r, IF TokenMatches(Cipher[r], cs[r], cred[r])
                 THEN "allow" ELSE InvalidCredentials(r))
    /\ UNCHANGED <<now, svcVars, cred, start, cs, readAt, hookVars>>

\* getCache, the checks.  An expired entry is deleted.  The comparison with
\* the request's token, never empty, has the last word: it overwrites what
\* the Disallowed and the expiry check found.
Validate(r) ==
    /\ pc[r] = "validate"
    /\ IF ~cs[r].disallowed /\ Expired(cs[r], now)
       THEN TryDelete(CtxLive(r), KeyOf(cred[r]))
       ELSE UNCHANGED kv
    /\ Answer(r, IF TokenMatches(Cipher[r], cs[r], cred[r])
                 THEN "allow" ELSE InvalidCredentials(r))
    /\ UNCHANGED <<now, svcVars, cred, start, cs, readAt, hookVars>>

\* A refusal the WAT flow caches with storeInvalidCache and the OAuth flow
\* does not.
Refuse(r, a) ==
    /\ answer' = [answer EXCEPT ![r] = a]
    /\ IF cred[r] \in WATs
       THEN cs' = [cs EXCEPT ![r] = Disallowed] /\ Goto(r, "store")
       ELSE UNCHANGED cs /\ Goto(r, "answered")
    /\ UNCHANGED readAt

\* Seeded fault: the status is not looked at, only the body.
RepliesAnyStatus(c) == {"error", "jwt", "garbled"}

\* What GetJSON of the client may return for c: an error without a status of
\* interest (no connection, a timeout, another status, a body that is cut off
\* or not JSON) at any time; otherwise the Token Service's word, a reply whose
\* JWT decodeTrustedJWT accepts or does not, or a 401.
Replies(c) == {"error"} \cup IF c \in alive THEN {"jwt", "garbled"} ELSE {"401"}

\* The exchange with the Token Service and decodeTrustedJWT of its reply: a
\* Jump Token is kept for storeCache; an error is a 401 to the user that is
\* never cached.
Exchange(r) ==
    /\ pc[r] = "exchange"
    /\ \/ /\ "jwt" \in Replies(cred[r])
          /\ cs' = [cs EXCEPT ![r] = Minted(r, cred[r])]
          /\ readAt' = [readAt EXCEPT ![r] = now]
          /\ answer' = [answer EXCEPT ![r] = "allow"]
          /\ Goto(r, "store")
       \/ "401" \in Replies(cred[r]) /\ Refuse(r, "unauthorized")
       \/ "garbled" \in Replies(cred[r]) /\ Refuse(r, "internal")
       \/ "error" \in Replies(cred[r]) /\ Answer(r, "unauthorized")
          /\ UNCHANGED <<cs, readAt>>
    /\ UNCHANGED <<now, kv, svcVars, cred, start, hookVars>>

\* Seeded fault: the Put does not carry the context of the request.
StoreCacheDetached(r) ==
    /\ pc[r] = "store"
    /\ TryPut(TRUE, KeyOf(cred[r]), cs[r])
    /\ Goto(r, "answered")
    /\ UNCHANGED <<now, svcVars, cred, start, cs, readAt, answer, hookVars>>

\* storeCache or storeInvalidCache: the Put, its error only logged.
StoreCache(r) ==
    /\ pc[r] = "store"
    /\ TryPut(CtxLive(r), KeyOf(cred[r]), cs[r])
    /\ Goto(r, "answered")
    /\ UNCHANGED <<now, svcVars, cred, start, cs, readAt, answer, hookVars>>

\* The goroutine of a Check ends and its locals with it.
End(r) ==
    /\ Goto(r, "idle")
    /\ answer' = [answer EXCEPT ![r] = "none"]
    /\ cs'     = [cs EXCEPT ![r] = None]
    /\ cred'   = [cred EXCEPT ![r] = None]
    /\ start'  = [start EXCEPT ![r] = 0]
    /\ readAt' = [readAt EXCEPT ![r] = 0]
    /\ UNCHANGED <<now, kv, svcVars, hookVars>>

\* The Check returns its answer.
Return(r) == pc[r] = "answered" /\ End(r)

\* The auth process stops with the request in flight.
AuthCrash(r) == pc[r] \notin {"idle", "answered"} /\ End(r)

HandlerStep(r) ==
    \/ CallProxyAuth(r) \/ DummyDecrypt(r) \/ GetCache(r)
    \/ DeleteCorrupted(r) \/ Validate(r) \/ Exchange(r) \/ StoreCache(r)
    \/ Return(r)

-----------------------------------------------------------------------------
(***************************************************************************)
(* The invalidate webhook: 202, then a goroutine that disallows the token  *)
(* and, in order, each of its subtokens.  (The Delete by which             *)
(* RemoveSubtoken also drops a was key, which no lookup here reads, is in  *)
(* AuthCheck.)                                                             *)
(***************************************************************************)
HookPayloads == UNION {[1 .. n -> TokenIDs] : n \in 1 .. (1 + MaxSubs)}

InvalidateWebhook(w, ids) ==
    /\ todo[w] = <<>>
    /\ ids \in HookPayloads
    /\ todo' = [todo EXCEPT ![w] = ids]
    /\ hookStart' = [hookStart EXCEPT ![w] = now]
    /\ UNCHANGED <<now, kv, svcVars, reqVars>>

\* InvalidateToken of the next ID: Put of a disallowed entry, its error only
\* logged, so the loop goes on either way.
InvalidateToken(w) ==
    /\ todo[w] # <<>>
    /\ TryPut(HookLive(w), Head(todo[w]), Disallowed)
    /\ todo' = [todo EXCEPT ![w] = Tail(todo[w])]
    /\ hookStart' = [hookStart EXCEPT ![w] = IF Len(todo[w]) = 1 THEN 0 ELSE @]
    /\ UNCHANGED <<now, svcVars, reqVars>>

\* The admin process stops with the goroutine unfinished: nothing remembers
\* the identifiers it had accepted with a 202.
AdminCrash(w) ==
    /\ todo[w] # <<>>
    /\ todo' = [todo EXCEPT ![w] = <<>>]
    /\ hookStart' = [hookStart EXCEPT ![w] = 0]
    /\ UNCHANGED <<now, kv, svcVars, reqVars>>

-----------------------------------------------------------------------------
(***************************************************************************)
(* The environment.                                                        *)
(***************************************************************************)
\* The Token Service stops accepting a credential.
Revoke(c) ==
    /\ c \in alive
    /\ alive' = alive \ {c}
    /\ revokedAt' = [revokedAt EXCEPT ![c] = now]
    /\ UNCHANGED <<now, kv, reqVars, hookVars>>

\* Time passes; the bucket drops what has reached its TTL.
Tick ==
    /\ now < MaxTime
    /\ now' = now + 1
    /\ kv' = [k \in Keys |->
                IF kv[k] # None /\ TTL > 0 /\ now + 1 - kv[k].at >= TTL
                THEN None ELSE kv[k]]
    /\ UNCHANGED <<svcVars, reqVars, hookVars>>

-----------------------------------------------------------------------------
Init ==
    /\ now = 0
    /\ kv = [k \in Keys |-> None]
    /\ alive = Genuine
    /\ revokedAt = [c \in Credentials |-> 0]
    /\ pc = [r \in Handlers |-> "idle"]
    /\ cred = [r \in Handlers |-> None]
    /\ start = [r \in Handlers |-> 0]
    /\ cs = [r \in Handlers |-> None]
    /\ readAt = [r \in Handlers |-> 0]
    /\ answer = [r \in Handlers |-> "none"]
    /\ todo = [w \in Hooks |-> <<>>]
    /\ hookStart = [w \in Hooks |-> 0]

Begin(r) == BeginMalformed(r) \/ BeginOauth(r) \/ \E c \in WATs : BeginWAT(r, c)

Next ==
    \/ \E r \in Handlers : Begin(r) \/ HandlerStep(r) \/ AuthCrash(r)
    \/ \E w \in Hooks : \/ \E ids \in HookPayloads : InvalidateWebhook(w, ids)
                        \/ InvalidateToken(w)
                        \/ AdminCrash(w)
    \/ \E c \in Genuine : Revoke(c)
    \/ Tick

Spec == Init /\ [][Next]_vars

\* Every call a handler or a webhook goroutine makes returns: key/value calls
\* end with their context, HTTP calls with the client's timeout.
Fairness ==
    /\ \A r \in Handlers : WF_vars(HandlerStep(r))
    /\ \A w \in Hooks : WF_vars(InvalidateToken(w))

FairSpec == Spec /\ Fairness

-----------------------------------------------------------------------------
(***************************************************************************)
(* Properties.                                                             *)
(***************************************************************************)
Labels == {"idle", "proxy", "dummy", "get", "decryptJump", "decryptToken",
           "validate", "exchange", "store", "answered"}

Answers == {"none", "allow", "unauthorized", "badRequest", "internal", "redirect"}

\* Types of the state: the bucket holds cache structs, a handler is at a
\* point of RequestHeader, a webhook goroutine has token IDs left.
TypeOK ==
    /\ now \in Times
    /\ kv \in [Keys -> Entry \cup {None}]
    /\ alive \in SUBSET Genuine
    /\ revokedAt \in [Credentials -> Times]
    /\ pc \in [Handlers -> Labels]
    /\ cred \in [Handlers -> Credentials \cup {None}]
    /\ start \in [Handlers -> Times]
    /\ cs \in [Handlers -> Entry \cup {None}]
    /\ readAt \in [Handlers -> Times]
    /\ answer \in [Handlers -> Answers]
    /\ todo \in [Hooks -> Seq(TokenIDs)]
    /\ hookStart \in [Hooks -> Times]

\* RequestHeader has let the request of r through.
Granted(r) == pc[r] = "answered" /\ answer[r] = "allow"

\* A request is only ever let through on a payload the Token Service minted
\* for exactly the credential it presents, whatever was put under the same
\* token ID by other handlers (another secret, a disallowed mark) between the
\* steps of the lookup; and the Jump Token it forwards is one its replica
\* could decrypt.
OnlyOwnGrants ==
    \A r \in Handlers : Granted(r) =>
        /\ cred[r] \in Genuine
        /\ cs[r].cred = cred[r]
        /\ cs[r].enc = Cipher[r]
        /\ ~cs[r].disallowed

\* docs/caching.md calls --tokens-ttl the final line of defense: a credential
\* the Token Service has revoked is not let through, in time for Envoy to
\* take the answer, once the TTL and the two Check deadlines that can add to
\* it (the exchange that filled the cache, the lookup that uses it) are over,
\* even when every webhook is lost.  Each of the three spans is open at its
\* end, hence shorter than its constant by a tick.
RevocationLatency ==
    \A r \in Handlers :
        (/\ TTL > 0
         /\ Granted(r)
         /\ CtxLive(r)
         /\ cred[r] \notin alive)
            => now - revokedAt[cred[r]] <= (TTL - 1) + 2 * (AuthTimeout - 1)

\* The grants Envoy can still act on, as the variable of TokenGrants.
Grants == INSTANCE TokenGrants WITH
    Clients <- Handlers,
    Bounded <- TTL > 0,
    Window  <- (TTL - 1) + 2 * (AuthTimeout - 1),
    granted <- [r \in Handlers |-> IF Granted(r) /\ CtxLive(r) THEN cred[r]
                                                             ELSE None]

\* Seen from Envoy, RequestHeader with its cache, ciphers, webhooks, faults
\* and crashes is a service that asks nobody but the Token Service and
\* notices a revocation within the window: no step of any actor lets a
\* request through, keeps it through or changes its credential in another
\* way.
ImplementsGrants == Grants!Spec

\* No handler is about to cache a grant for key k, and k holds none.
Closed(k) ==
    /\ \A c \in alive : KeyOf(c) # k
    /\ kv[k] # None => kv[k].disallowed
    /\ \A r \in Handlers :
          (pc[r] = "store" /\ KeyOf(cred[r]) = k) => cs[r].disallowed

\* Once a revoked credential's key holds no grant and no exchange that
\* preceded the revocation is still to be stored, the cache never holds a
\* grant under that key again: no late Put, Delete, webhook or expiry brings
\* one back.
ClosedStaysClosed == [][\A k \in Keys : Closed(k) => Closed(k)']_vars

\* Every Check comes to an end whatever fails: no lookup, exchange or store
\* waits on anything but its own call.
RequestEnds == \A r \in Handlers : pc[r] # "idle" ~> pc[r] = "idle"

\* docs/caching.md: the exp of a cached token "will always be validated when
\* a cache hit is encountered before using the details", so no request is let
\* through on an entry that had expired when it was read.
ExpiredNotServed ==
    \A r \in Handlers : Granted(r) => ~Expired(cs[r], readAt[r])

\* docs/caching.md: a token rejected with a 401 "will be briefly cached to
\* avoid exposing the Token Service to a large influx of invalid tokens": a
\* disallowed mark stays until its TTL.
RejectionStaysCached ==
    [][\A k \in Keys : (kv[k] # None /\ kv[k].disallowed)
          => \/ kv'[k] # None /\ kv'[k].disallowed
             \/ now' # now]_vars
=============================================================================
