--------------------------- MODULE TokenCacheProofs ---------------------------
(***************************************************************************)
(* Proofs about TokenCache for every number of handlers, webhooks,         *)
(* credentials and keys, every TTL and every deadline.                     *)
(***************************************************************************)
EXTENDS TokenCache, TLAPS

\* The Token Service vouched for the credential of e at e.minted: it has not
\* been revoked before that instant.
Vouched(e) ==
    /\ e.cred \in Genuine
    /\ e.minted <= now
    /\ e.cred \in alive \/ e.minted <= revokedAt[e.cred]

\* An entry either carries a vouched-for credential or no credential at all.
Sound(e) == IF e.disallowed THEN e.cred = None ELSE Vouched(e)

\* What the bucket holds: entries no older than the TTL, grants put within a
\* Check deadline of their exchange, under the key of their credential.
BucketInv ==
    \A k \in Keys : kv[k] # None =>
        /\ kv[k].at <= now
        /\ TTL > 0 => now - kv[k].at <= TTL - 1
        /\ Sound(kv[k])
        /\ ~kv[k].disallowed =>
              /\ KeyOf(kv[k].cred) = k
              /\ kv[k].minted <= kv[k].at
              /\ kv[k].at - kv[k].minted <= AuthTimeout - 1

\* How stale the grant a handler looks at may be when it reads it.
Fresh(r) == TTL > 0 =>
    readAt[r] - cs[r].minted <= (TTL - 1) + (AuthTimeout - 1)

Busy == {"dummy", "get", "decryptJump", "decryptToken", "validate",
         "exchange", "store"}

\* What a handler holds at each point of RequestHeader.
HandlerInv ==
    \A r \in Handlers :
        /\ start[r] <= now
        /\ pc[r] \in Busy => cred[r] \in Credentials
        /\ pc[r] \in {"decryptJump", "decryptToken", "validate"} =>
              /\ cs[r] \in Entry
              /\ Sound(cs[r])
              /\ start[r] <= readAt[r]
              /\ ~cs[r].disallowed => Fresh(r)
        /\ pc[r] = "store" =>
              /\ cs[r] \in Entry
              /\ Sound(cs[r])
              /\ cs[r].disallowed => answer[r] # "allow"
              /\ ~cs[r].disallowed =>
                    /\ cs[r].cred = cred[r]
                    /\ cs[r].enc = Cipher[r]
                    /\ start[r] <= cs[r].minted
                    /\ readAt[r] = cs[r].minted
        /\ Granted(r) =>
              /\ cs[r] \in Entry
              /\ ~cs[r].disallowed
              /\ cs[r].cred = cred[r]
              /\ cs[r].enc = Cipher[r]
              /\ Vouched(cs[r])
              /\ start[r] <= readAt[r]
              /\ Fresh(r)

IInv == TypeOK /\ BucketInv /\ HandlerInv

-----------------------------------------------------------------------------
LEMMA KeyOfType == \A c \in Credentials : KeyOf(c) \in Keys
  BY CredentialAssumption DEF KeyOf, Keys, Credentials

LEMMA EntryTypes ==
  /\ Disallowed \in Entry
  /\ \A e \in Entry, t \in Times :
        /\ [e EXCEPT !.at = t] \in Entry
        /\ [e EXCEPT !.at = t].at = t
        /\ [e EXCEPT !.at = t].disallowed = e.disallowed
        /\ [e EXCEPT !.at = t].cred = e.cred
        /\ [e EXCEPT !.at = t].enc = e.enc
        /\ [e EXCEPT !.at = t].exp = e.exp
        /\ [e EXCEPT !.at = t].minted = e.minted
  BY BoundAssumption DEF Entry, Disallowed, Times


\* The calls of the bucket keep BucketInv when what they put is acceptable
\* there.
LEMMA PutKeepsBucket ==
  ASSUME TypeOK, BucketInv,
         NEW live \in BOOLEAN, NEW k \in Keys, NEW e \in Entry,
         Sound(e),
         live /\ ~e.disallowed => /\ KeyOf(e.cred) = k
                                  /\ now - e.minted <= AuthTimeout - 1,
         TryPut(live, k, e),
         UNCHANGED <<now, svcVars>>
  PROVE  kv' \in [Keys -> Entry \cup {None}] /\ BucketInv'
<1>1. CASE kv' = kv
  BY <1>1 DEF TypeOK, BucketInv, Sound, Vouched, svcVars
<1>2. CASE live /\ kv' = [kv EXCEPT ![k] = [e EXCEPT !.at = now]]
  <2>1. now \in Times
    BY DEF TypeOK
  <2>2. PICK f \in Entry :
          /\ kv' = [kv EXCEPT ![k] = f]
          /\ f.at = now /\ f.disallowed = e.disallowed
          /\ f.cred = e.cred /\ f.minted = e.minted
    BY <1>2, <2>1, EntryTypes
  <2>4. kv' \in [Keys -> Entry \cup {None}]
    BY <2>2 DEF TypeOK
  <2>5. BucketInv'
    <3> SUFFICES ASSUME NEW j \in Keys, kv'[j] # None
                 PROVE  BucketInv!(j)!2'
      BY DEF BucketInv
    <3>1. CASE j = k
      <4>1. kv'[j] = f
        BY <2>2, <3>1 DEF TypeOK
      <4>2. Sound(f)'
        BY <2>2 DEF Sound, Vouched, svcVars
      <4> QED
        BY <4>1, <4>2, <2>1, <2>2, <3>1, <1>2, BoundAssumption
           DEF Entry, Times, Sound, Vouched
    <3>2. CASE j # k
      <4>1. kv'[j] = kv[j]
        BY <2>2, <3>2 DEF TypeOK
      <4> QED
        BY <4>1 DEF BucketInv, Sound, Vouched, svcVars
    <3> QED
      BY <3>1, <3>2
  <2> QED
    BY <2>4, <2>5
<1> QED
  BY <1>1, <1>2 DEF TryPut

LEMMA DeleteKeepsBucket ==
  ASSUME TypeOK, BucketInv,
         NEW live \in BOOLEAN, NEW k \in Keys,
         TryDelete(live, k) \/ kv' = kv,
         UNCHANGED <<now, svcVars>>
  PROVE  kv' \in [Keys -> Entry \cup {None}] /\ BucketInv'
  BY DEF TypeOK, BucketInv, TryDelete, Sound, Vouched, svcVars

-----------------------------------------------------------------------------
LEMMA InitIInv == Init => IInv
  BY CredentialAssumption, BoundAssumption
     DEF Init, IInv, TypeOK, BucketInv, HandlerInv, Granted, Busy, Times,
         Labels, Answers

\* The steps by which a request begins.
LEMMA BeginKeepsIInv ==
  ASSUME IInv, NEW r \in Handlers, Begin(r)
  PROVE  IInv'
<1> USE DEF IInv
<1>1. TypeOK'
  <2>1. CASE BeginMalformed(r)
    BY <2>1 DEF TypeOK, BeginMalformed, Answer, Labels, Answers, svcVars, hookVars
  <2>2. CASE BeginOauth(r)
    BY <2>2 DEF TypeOK, BeginOauth, Answer, Goto, Labels, Answers, svcVars, hookVars
  <2>3. CASE \E c \in WATs : BeginWAT(r, c)
    BY <2>3 DEF TypeOK, BeginWAT, Goto, Labels, Credentials, svcVars, hookVars
  <2> QED
    BY <2>1, <2>2, <2>3 DEF Begin
<1>2. BucketInv'
  BY DEF BucketInv, Sound, Vouched, Begin, BeginMalformed, BeginOauth,
         BeginWAT, svcVars
<1>3. HandlerInv'
  <2>1. CASE BeginMalformed(r)
    BY <2>1 DEF TypeOK, HandlerInv, Granted, Fresh, Sound, Vouched, Busy,
                BeginMalformed, Answer, svcVars, Times
  <2>2. CASE BeginOauth(r)
    BY <2>2 DEF TypeOK, HandlerInv, Granted, Fresh, Sound, Vouched, Busy,
                BeginOauth, Answer, Goto, svcVars, Times
  <2>3. CASE \E c \in WATs : BeginWAT(r, c)
    BY <2>3 DEF TypeOK, HandlerInv, Granted, Fresh, Sound, Vouched, Busy,
                BeginWAT, Goto, svcVars, Times, Credentials
  <2> QED
    BY <2>1, <2>2, <2>3 DEF Begin
<1> QED
  BY <1>1, <1>2, <1>3

\* The steps of a lookup before the decision.
LEMMA LookupKeepsIInv ==
  ASSUME IInv, NEW r \in Handlers,
         \/ CallProxyAuth(r) \/ DummyDecrypt(r)
         \/ GetCache(r) \/ DeleteCorrupted(r)
  PROVE  IInv'
<1> USE DEF IInv
<1>1. CASE CallProxyAuth(r)
  <2>1. TypeOK'
    BY <1>1 DEF TypeOK, CallProxyAuth, Answer, Goto, Labels, Answers,
                Credentials, svcVars, hookVars
  <2>2. BucketInv'
    BY <1>1 DEF BucketInv, Sound, Vouched, CallProxyAuth, svcVars
  <2>3. HandlerInv'
    BY <1>1 DEF TypeOK, HandlerInv, Granted, Fresh, Sound, Vouched, Busy,
                CallProxyAuth, Answer, Goto, svcVars, Credentials
  <2> QED
    BY <2>1, <2>2, <2>3
<1>2. CASE DummyDecrypt(r)
  <2>1. KeyOf(cred[r]) \in Keys /\ CtxLive(r) \in BOOLEAN
    BY <1>2, KeyOfType DEF HandlerInv, DummyDecrypt, Busy, CtxLive
  <2>2. kv' \in [Keys -> Entry \cup {None}] /\ BucketInv'
    BY <1>2, <2>1, DeleteKeepsBucket DEF DummyDecrypt, svcVars
  <2>3. TypeOK'
    BY <1>2, <2>2 DEF TypeOK, DummyDecrypt, Goto, Labels, svcVars, hookVars
  <2>4. HandlerInv'
    BY <1>2 DEF TypeOK, HandlerInv, Granted, Fresh, Sound, Vouched, Busy,
                DummyDecrypt, Goto, svcVars
  <2> QED
    BY <2>2, <2>3, <2>4
<1>3. CASE GetCache(r)
  <2>1. KeyOf(cred[r]) \in Keys
    BY <1>3, KeyOfType DEF HandlerInv, GetCache, Busy
  <2>2. PICK e : e = kv[KeyOf(cred[r])]
    OBVIOUS
  <2>3. TypeOK'
    BY <1>3, <2>1 DEF TypeOK, GetCache, Goto, Labels, svcVars, hookVars
  <2>4. BucketInv'
    BY <1>3 DEF BucketInv, Sound, Vouched, GetCache, svcVars
  <2>5. HandlerInv'
    <3>1. CASE pc' = [pc EXCEPT ![r] = "exchange"] /\ UNCHANGED <<cs, readAt>>
      BY <1>3, <3>1 DEF TypeOK, HandlerInv, Granted, Fresh, Sound, Vouched,
                        Busy, GetCache, svcVars
    <3>2. CASE /\ e # None /\ CtxLive(r)
               /\ cs' = [cs EXCEPT ![r] = e]
               /\ readAt' = [readAt EXCEPT ![r] = now]
               /\ pc' = [pc EXCEPT ![r] = "decryptJump"]
                  \/ pc' = [pc EXCEPT ![r] = "validate"]
      <4>1. e \in Entry /\ Sound(e) /\ start[r] <= now /\ cred[r] \in Credentials
        BY <1>3, <2>1, <2>2, <3>2
           DEF TypeOK, BucketInv, HandlerInv, Busy, GetCache
      <4>2. ~e.disallowed /\ TTL > 0
              => now - e.minted <= (TTL - 1) + (AuthTimeout - 1)
        <5>1. /\ TTL > 0 => now - e.at <= TTL - 1
              /\ ~e.disallowed => e.at - e.minted <= AuthTimeout - 1
          BY <2>1, <2>2, <3>2 DEF BucketInv
        <5>2. e.at \in Int /\ e.minted \in Int /\ now \in Int
          BY <4>1 DEF TypeOK, Entry, Times
        <5> QED
          BY <5>1, <5>2, BoundAssumption
      <4> QED
        BY <1>3, <3>2, <4>1, <4>2
           DEF TypeOK, HandlerInv, Granted, Fresh, Sound, Vouched, Busy,
               GetCache, svcVars
    <3> QED
      BY <1>3, <2>2, <3>1, <3>2 DEF GetCache, Goto
  <2> QED
    BY <2>3, <2>4, <2>5
<1>4. CASE DeleteCorrupted(r)
  <2>1. KeyOf(cred[r]) \in Keys /\ CtxLive(r) \in BOOLEAN
    BY <1>4, KeyOfType DEF HandlerInv, DeleteCorrupted, Busy, CtxLive
  <2>2. kv' \in [Keys -> Entry \cup {None}] /\ BucketInv'
    BY <1>4, <2>1, DeleteKeepsBucket DEF DeleteCorrupted, svcVars
  <2>3. TypeOK'
    BY <1>4, <2>2 DEF TypeOK, DeleteCorrupted, Goto, Labels, svcVars, hookVars
  <2>4. HandlerInv'
    BY <1>4 DEF TypeOK, HandlerInv, Granted, Fresh, Sound, Vouched, Busy,
                DeleteCorrupted, Goto, svcVars
  <2> QED
    BY <2>2, <2>3, <2>4
<1> QED
  BY <1>1, <1>2, <1>3, <1>4

\* The decision, on the cached entry or on the Token Service's reply, and the
\* Put that follows an exchange.
LEMMA DecisionKeepsIInv ==
  ASSUME IInv, NEW r \in Handlers,
         Validate(r) \/ Exchange(r) \/ StoreCache(r)
  PROVE  IInv'
<1> USE DEF IInv
<1>1. CASE Validate(r)
  <2>1. KeyOf(cred[r]) \in Keys /\ CtxLive(r) \in BOOLEAN
    BY <1>1, KeyOfType DEF HandlerInv, Validate, Busy, CtxLive
  <2>2. kv' \in [Keys -> Entry \cup {None}] /\ BucketInv'
    BY <1>1, <2>1, DeleteKeepsBucket DEF Validate, svcVars
  <2>3. PICK a \in Answers :
          /\ pc' = [pc EXCEPT ![r] = "answered"]
          /\ answer' = [answer EXCEPT ![r] = a]
          /\ a = "allow" => cs[r].cred = cred[r] /\ cs[r].enc = Cipher[r]
    BY <1>1 DEF Validate, Answer, Answers, TokenMatches, InvalidCredentials
  <2>4. TypeOK'
    BY <1>1, <2>2, <2>3 DEF TypeOK, Validate, Labels, svcVars, hookVars
  <2>5. a = "allow" => ~cs[r].disallowed
    BY <1>1, <2>3, CredentialAssumption
       DEF HandlerInv, Validate, Sound, Busy
  <2>6. HandlerInv'
    BY <1>1, <2>3, <2>5
       DEF TypeOK, HandlerInv, Granted, Fresh, Sound, Vouched, Busy,
           Validate, svcVars
  <2> QED
    BY <2>2, <2>4, <2>6
<1>2. CASE Exchange(r)
  <2>1. /\ now \in Times /\ cred[r] \in Credentials /\ start[r] <= now
        /\ pc[r] = "exchange"
    BY <1>2 DEF TypeOK, HandlerInv, Exchange, Busy
  <2>2. BucketInv'
    BY <1>2 DEF BucketInv, Sound, Vouched, Exchange, svcVars
  <2>3. CASE /\ cred[r] \in alive
             /\ cs' = [cs EXCEPT ![r] = Minted(r, cred[r])]
             /\ readAt' = [readAt EXCEPT ![r] = now]
             /\ answer' = [answer EXCEPT ![r] = "allow"]
             /\ Goto(r, "store")
    <3>1. PICK e \in Entry :
            /\ cs' = [cs EXCEPT ![r] = e]
            /\ ~e.disallowed /\ e.cred = cred[r] /\ e.enc = Cipher[r]
            /\ e.minted = now
      <4>1. Minted(r, cred[r]) \in Entry
        BY <2>1, CipherAssumption, BoundAssumption
           DEF Minted, Entry, Times
      <4>2. /\ ~Minted(r, cred[r]).disallowed
            /\ Minted(r, cred[r]).cred = cred[r]
            /\ Minted(r, cred[r]).enc = Cipher[r]
            /\ Minted(r, cred[r]).minted = now
        BY DEF Minted
      <4> QED
        BY <2>3, <4>1, <4>2
    <3>2. TypeOK'
      BY <1>2, <2>1, <2>3, <3>1
         DEF TypeOK, Exchange, Goto, Labels, Answers, svcVars, hookVars
    <3>3. Sound(e)'
      BY <1>2, <2>1, <2>3, <3>1 DEF TypeOK, Sound, Vouched, Exchange, svcVars, Times
    <3>4. HandlerInv'
      BY <1>2, <2>1, <2>3, <3>1, <3>3
         DEF TypeOK, HandlerInv, Granted, Fresh, Sound, Vouched, Busy,
             Exchange, Goto, svcVars
    <3> QED
      BY <2>2, <3>2, <3>4
  <2>4. CASE \E a \in {"unauthorized", "internal"} : Refuse(r, a)
    <3>1. PICK a \in {"unauthorized", "internal"} : Refuse(r, a)
      BY <2>4
    <3>2. TypeOK'
      BY <1>2, <3>1, EntryTypes
         DEF TypeOK, Exchange, Refuse, Goto, Labels, Answers, svcVars, hookVars
    <3>3. HandlerInv'
      <4>1. CASE cred[r] \in WATs
        <5>1. PICK e \in Entry :
                cs' = [cs EXCEPT ![r] = e] /\ e.disallowed /\ e.cred = None
          BY <3>1, <4>1, EntryTypes DEF Refuse, Disallowed
        <5> QED
          BY <1>2, <2>1, <3>1, <4>1, <5>1
             DEF TypeOK, HandlerInv, Granted, Fresh, Sound, Vouched, Busy,
                 Exchange, Refuse, Goto, svcVars
      <4>2. CASE cred[r] \notin WATs
        BY <1>2, <2>1, <3>1, <4>2
           DEF TypeOK, HandlerInv, Granted, Fresh, Sound, Vouched, Busy,
               Exchange, Refuse, Goto, svcVars
      <4> QED
        BY <4>1, <4>2
    <3> QED
      BY <2>2, <3>2, <3>3
  <2>5. CASE Answer(r, "unauthorized") /\ UNCHANGED <<cs, readAt>>
    <3>1. TypeOK'
      BY <1>2, <2>5
         DEF TypeOK, Exchange, Answer, Labels, Answers, svcVars, hookVars
    <3>2. HandlerInv'
      BY <1>2, <2>5
         DEF TypeOK, HandlerInv, Granted, Fresh, Sound, Vouched, Busy,
             Exchange, Answer, svcVars
    <3> QED
      BY <2>2, <3>1, <3>2
  <2> QED
    BY <1>2, <2>3, <2>4, <2>5 DEF Exchange, Replies
<1>3. CASE StoreCache(r)
  <2>1. /\ KeyOf(cred[r]) \in Keys /\ CtxLive(r) \in BOOLEAN
        /\ cs[r] \in Entry /\ Sound(cs[r])
    BY <1>3, KeyOfType DEF HandlerInv, StoreCache, Busy, CtxLive
  <2>2. ~cs[r].disallowed =>
          /\ cs[r].cred = cred[r]
          /\ start[r] <= cs[r].minted
          /\ readAt[r] = cs[r].minted
    BY <1>3 DEF HandlerInv, StoreCache
  <2>3. /\ now \in Int /\ start[r] \in Int /\ readAt[r] \in Int
        /\ cs[r].minted \in Int
    BY <2>1 DEF TypeOK, Times, Entry
  <2>4. CtxLive(r) /\ ~cs[r].disallowed =>
          /\ KeyOf(cs[r].cred) = KeyOf(cred[r])
          /\ now - cs[r].minted <= AuthTimeout - 1
    BY <2>2, <2>3, BoundAssumption DEF CtxLive
  <2>5. kv' \in [Keys -> Entry \cup {None}] /\ BucketInv'
    BY <1>3, <2>1, <2>4, PutKeepsBucket DEF StoreCache, svcVars
  <2>6. TypeOK'
    BY <1>3, <2>5 DEF TypeOK, StoreCache, Goto, Labels, svcVars, hookVars
  <2>7. ~cs[r].disallowed => Fresh(r) /\ start[r] <= readAt[r]
    BY <2>2, <2>3, BoundAssumption DEF Fresh
  <2>8. HandlerInv'
    BY <1>3, <2>7
       DEF TypeOK, HandlerInv, Granted, Fresh, Sound, Vouched, Busy,
           StoreCache, Goto, svcVars
  <2> QED
    BY <2>5, <2>6, <2>8
<1> QED
  BY <1>1, <1>2, <1>3

\* The end of a Check, the webhook, the Token Service and the clock.
LEMMA OtherKeepsIInv ==
  ASSUME IInv,
         \/ \E r \in Handlers : Return(r) \/ AuthCrash(r)
         \/ \E w \in Hooks : \/ \E ids \in HookPayloads : InvalidateWebhook(w, ids)
                             \/ InvalidateToken(w)
                             \/ AdminCrash(w)
         \/ \E c \in Genuine : Revoke(c)
         \/ Tick
  PROVE  IInv'
<1> USE DEF IInv
<1>1. ASSUME NEW r \in Handlers, Return(r) \/ AuthCrash(r)
      PROVE  IInv'
  <2>1. End(r)
    BY <1>1 DEF Return, AuthCrash
  <2>2. TypeOK'
    BY <2>1, BoundAssumption
       DEF TypeOK, End, Goto, Labels, Answers, Times, svcVars, hookVars
  <2>3. BucketInv'
    BY <2>1 DEF BucketInv, Sound, Vouched, End, svcVars
  <2>4. HandlerInv'
    BY <2>1 DEF TypeOK, HandlerInv, Granted, Fresh, Sound, Vouched, Busy,
                End, Goto, svcVars, Times
  <2> QED
    BY <2>2, <2>3, <2>4
<1>2. ASSUME NEW w \in Hooks, NEW ids \in HookPayloads, InvalidateWebhook(w, ids)
      PROVE  IInv'
  <2>1. ids \in Seq(TokenIDs)
    BY BoundAssumption DEF HookPayloads
  <2>2. TypeOK'
    BY <1>2, <2>1 DEF TypeOK, InvalidateWebhook, svcVars, reqVars
  <2>3. BucketInv' /\ HandlerInv'
    BY <1>2 DEF BucketInv, HandlerInv, Granted, Fresh, Sound, Vouched,
                InvalidateWebhook, svcVars, reqVars
  <2> QED
    BY <2>2, <2>3
<1>3. ASSUME NEW w \in Hooks, InvalidateToken(w)
      PROVE  IInv'
  <2>1. /\ Head(todo[w]) \in Keys /\ Tail(todo[w]) \in Seq(TokenIDs)
        /\ HookLive(w) \in BOOLEAN
    BY <1>3 DEF TypeOK, InvalidateToken, Keys, HookLive
  <2>2. Disallowed \in Entry /\ Sound(Disallowed) /\ Disallowed.disallowed
    BY EntryTypes DEF Sound, Disallowed
  <2>3. kv' \in [Keys -> Entry \cup {None}] /\ BucketInv'
    BY <1>3, <2>1, <2>2, PutKeepsBucket DEF InvalidateToken, svcVars
  <2>4. TypeOK'
    BY <1>3, <2>1, <2>3, BoundAssumption
       DEF TypeOK, InvalidateToken, svcVars, reqVars, Times
  <2>5. HandlerInv'
    BY <1>3 DEF HandlerInv, Granted, Fresh, Sound, Vouched,
                InvalidateToken, svcVars, reqVars
  <2> QED
    BY <2>3, <2>4, <2>5
<1>4. ASSUME NEW w \in Hooks, AdminCrash(w)
      PROVE  IInv'
  <2>1. TypeOK'
    BY <1>4, BoundAssumption DEF TypeOK, AdminCrash, svcVars, reqVars, Times
  <2>2. BucketInv' /\ HandlerInv'
    BY <1>4 DEF BucketInv, HandlerInv, Granted, Fresh, Sound, Vouched,
                AdminCrash, svcVars, reqVars
  <2> QED
    BY <2>1, <2>2
<1>5. ASSUME NEW c \in Genuine, Revoke(c)
      PROVE  IInv'
  <2>1. TypeOK'
    BY <1>5, CredentialAssumption DEF TypeOK, Revoke, reqVars, hookVars
  <2>2. ASSUME NEW e \in Entry
        PROVE  Sound(e) => Sound(e)'
    BY <1>5, CredentialAssumption
       DEF TypeOK, Sound, Vouched, Revoke, Entry, Times
  <2>3. BucketInv'
    BY <1>5, <2>2 DEF TypeOK, BucketInv, Revoke
  <2>4. ASSUME NEW e \in Entry
        PROVE  Vouched(e) => Vouched(e)'
    BY <1>5, CredentialAssumption
       DEF TypeOK, Vouched, Revoke, Entry, Times
  <2>5. HandlerInv'
    BY <1>5, <2>2, <2>4
       DEF TypeOK, HandlerInv, Granted, Fresh, Revoke, reqVars
  <2> QED
    BY <2>1, <2>3, <2>5
<1>6. CASE Tick
  <2>1. now \in Times /\ now' \in Times /\ now' = now + 1
    BY <1>6, BoundAssumption DEF TypeOK, Tick, Times
  <2>2. \A k \in Keys : kv'[k] = None \/
           /\ kv'[k] = kv[k]
           /\ TTL > 0 => now + 1 - kv[k].at < TTL
    <3> SUFFICES ASSUME NEW k \in Keys, kv'[k] # None
                 PROVE  /\ kv'[k] = kv[k]
                        /\ TTL > 0 => now + 1 - kv[k].at < TTL
      OBVIOUS
    <3>1. kv'[k] = kv[k] /\ kv[k] # None
          /\ ~(TTL > 0 /\ now + 1 - kv[k].at >= TTL)
      BY <1>6 DEF Tick
    <3>2. kv[k].at \in Int /\ now \in Int
      BY <2>1, <3>1 DEF TypeOK, Entry, Times
    <3> QED
      BY <3>1, <3>2, BoundAssumption
  <2>3. TypeOK'
    BY <1>6, <2>1 DEF TypeOK, Tick, svcVars, reqVars, hookVars
  <2>4. ASSUME NEW e \in Entry
        PROVE  (Vouched(e) => Vouched(e)') /\ (Sound(e) => Sound(e)')
    BY <1>6, <2>1 DEF Sound, Vouched, Tick, svcVars, Entry, Times
  <2>5. BucketInv'
    <3> SUFFICES ASSUME NEW k \in Keys, kv'[k] # None
                 PROVE  BucketInv!(k)!2'
      BY DEF BucketInv
    <3>1. /\ kv'[k] = kv[k] /\ kv[k] # None /\ kv[k] \in Entry
          /\ TTL > 0 => now + 1 - kv[k].at < TTL
      BY <2>2 DEF TypeOK
    <3>2. BucketInv!(k)!2
      BY <3>1 DEF BucketInv
    <3>3. Sound(kv[k])'
      <4>1. PICK e \in Entry : e = kv[k] /\ e = kv'[k]
        BY <3>1
      <4>2. Sound(e)'
        BY <4>1, <2>4, <3>2
      <4> QED
        BY <4>1, <4>2 DEF Sound, Vouched
    <3> QED
      BY <3>1, <3>2, <3>3, <2>1, BoundAssumption DEF Entry, Times
  <2>6. HandlerInv'
    BY <1>6, <2>1, <2>4
       DEF TypeOK, HandlerInv, Granted, Fresh, Tick, reqVars, Times
  <2> QED
    BY <2>3, <2>5, <2>6
<1> QED
  BY <1>1, <1>2, <1>3, <1>4, <1>5, <1>6

LEMMA NextIInv == IInv /\ [Next]_vars => IInv'
<1> SUFFICES ASSUME IInv, [Next]_vars
             PROVE  IInv'
  OBVIOUS
<1>1. CASE UNCHANGED vars
  BY <1>1 DEF IInv, TypeOK, BucketInv, HandlerInv, Granted, Fresh, Sound,
              Vouched, vars, svcVars, reqVars, hookVars
<1>2. CASE Next
  BY <1>2, BeginKeepsIInv, LookupKeepsIInv, DecisionKeepsIInv, OtherKeepsIInv
     DEF Next, HandlerStep
<1> QED
  BY <1>1, <1>2

-----------------------------------------------------------------------------
(***************************************************************************)
(* The theorems.                                                           *)
(***************************************************************************)
\* The inductive invariant holds throughout: what the bucket and every
\* handler hold is at all times backed by the Token Service.
THEOREM Invariance == Spec => []IInv
  BY InitIInv, NextIInv, PTL DEF Spec

\* The state of the token cache always has its type.
THEOREM TypeCorrect == Spec => []TypeOK
  BY Invariance, PTL DEF IInv

\* RequestHeader lets a request through only on a payload minted for the
\* credential it presents, for any interleaving of lookups, fills, webhooks,
\* expiries, crashes and replicas with different keys.
THEOREM GrantsAreOwn == Spec => []OnlyOwnGrants
<1>1. IInv => OnlyOwnGrants
  BY DEF IInv, HandlerInv, OnlyOwnGrants, Vouched
<1> QED
  BY <1>1, Invariance, PTL

\* What the inductive invariant says of a grant bounds its staleness: minted
\* within a TTL and a deadline of being read, read within the other deadline.
LEMMA IInvLatency == IInv => RevocationLatency
<1> SUFFICES ASSUME IInv, NEW r \in Handlers,
                    TTL > 0, Granted(r), CtxLive(r), cred[r] \notin alive
             PROVE  now - revokedAt[cred[r]] <= (TTL - 1) + 2 * (AuthTimeout - 1)
  BY DEF RevocationLatency
<1>1. /\ cs[r] \in Entry /\ cs[r].cred = cred[r] /\ Vouched(cs[r])
      /\ start[r] <= readAt[r] /\ Fresh(r)
  BY DEF IInv, HandlerInv
<1>2. cs[r].minted <= revokedAt[cred[r]] /\ cred[r] \in Credentials
  BY <1>1, CredentialAssumption DEF Vouched
<1>3. /\ now \in Int /\ start[r] \in Int /\ readAt[r] \in Int
      /\ cs[r].minted \in Int /\ revokedAt[cred[r]] \in Int
  BY <1>1, <1>2 DEF IInv, TypeOK, Times, Entry
<1> QED
  BY <1>1, <1>2, <1>3, BoundAssumption DEF Fresh, CtxLive

\* The TTL bounds how long a revoked credential can still be let through.
THEOREM RevocationIsBounded == Spec => []RevocationLatency
  BY IInvLatency, Invariance, PTL

\* One step keeps a closed key closed.
LEMMA ClosedStep ==
  ASSUME IInv, [Next]_vars, NEW k \in Keys, Closed(k)
  PROVE  Closed(k)'
<1> USE DEF Closed
<1>1. ASSUME NEW r \in Handlers, Begin(r)
      PROVE  Closed(k)'
  BY <1>1 DEF IInv, TypeOK, Begin, BeginMalformed, BeginOauth, BeginWAT,
              Answer, Goto, svcVars
<1>2. ASSUME NEW r \in Handlers,
             \/ CallProxyAuth(r) \/ DummyDecrypt(r) \/ GetCache(r)
             \/ DeleteCorrupted(r) \/ Validate(r) \/ Return(r) \/ AuthCrash(r)
      PROVE  Closed(k)'
  <2>1. /\ alive' = alive
        /\ kv' = kv \/ \E j : kv' = [kv EXCEPT ![j] = None]
    BY <1>2 DEF CallProxyAuth, DummyDecrypt, GetCache, DeleteCorrupted,
                Validate, Return, AuthCrash, End, TryDelete, svcVars
  <2>2. /\ \A q \in Handlers : q # r =>
              pc'[q] = pc[q] /\ cred'[q] = cred[q] /\ cs'[q] = cs[q]
        /\ pc'[r] # "store"
    BY <1>2 DEF IInv, TypeOK, CallProxyAuth, DummyDecrypt, GetCache,
                DeleteCorrupted, Validate, Return, AuthCrash, End, Answer, Goto
  <2> QED
    BY <2>1, <2>2 DEF IInv, TypeOK
<1>3. ASSUME NEW r \in Handlers, Exchange(r)
      PROVE  Closed(k)'
  <2>1. kv' = kv /\ alive' = alive /\ cred' = cred
    BY <1>3 DEF Exchange, svcVars
  <2>2. \A q \in Handlers : q # r => pc'[q] = pc[q] /\ cs'[q] = cs[q]
    BY <1>3 DEF IInv, TypeOK, Exchange, Refuse, Answer, Goto
  <2>3. pc'[r] = "store" => KeyOf(cred[r]) # k \/ cs'[r].disallowed
    <3>1. CASE cred[r] \in alive /\ KeyOf(cred[r]) # k
      BY <3>1
    <3>2. CASE cred[r] \in WATs /\ cs' = [cs EXCEPT ![r] = Disallowed]
      BY <3>2 DEF IInv, TypeOK, Disallowed
    <3>3. CASE pc' = [pc EXCEPT ![r] = "answered"]
      BY <3>3 DEF IInv, TypeOK
    <3> QED
      BY <1>3, <3>1, <3>2, <3>3 DEF Exchange, Replies, Refuse, Answer, Goto
  <2> QED
    BY <2>1, <2>2, <2>3
<1>4. ASSUME NEW live \in BOOLEAN, NEW j \in Keys, NEW e \in Entry,
             TryPut(live, j, e), j = k => e.disallowed
      PROVE  kv'[k] # None => kv'[k].disallowed
  <2>1. CASE kv' = kv
    BY <2>1
  <2>2. CASE kv' = [kv EXCEPT ![j] = [e EXCEPT !.at = now]]
    <3>1. now \in Times
      BY DEF IInv, TypeOK
    <3>2. PICK f \in Entry :
            kv' = [kv EXCEPT ![j] = f] /\ f.disallowed = e.disallowed
      BY <2>2, <3>1, EntryTypes
    <3> QED
      BY <3>2, <1>4 DEF IInv, TypeOK
  <2> QED
    BY <1>4, <2>1, <2>2 DEF TryPut
<1>5. ASSUME NEW r \in Handlers, StoreCache(r)
      PROVE  Closed(k)'
  <2>1. /\ KeyOf(cred[r]) \in Keys /\ CtxLive(r) \in BOOLEAN
        /\ cs[r] \in Entry /\ pc[r] = "store"
    BY <1>5, KeyOfType DEF IInv, HandlerInv, StoreCache, Busy, CtxLive
  <2>2. KeyOf(cred[r]) = k => cs[r].disallowed
    BY <2>1
  <2>3. kv'[k] # None => kv'[k].disallowed
    BY <1>4, <1>5, <2>1, <2>2 DEF StoreCache
  <2> QED
    BY <1>5, <2>3 DEF IInv, TypeOK, StoreCache, Goto, svcVars
<1>6. ASSUME NEW w \in Hooks, InvalidateToken(w)
      PROVE  Closed(k)'
  <2>1. Head(todo[w]) \in Keys /\ HookLive(w) \in BOOLEAN
    BY <1>6 DEF IInv, TypeOK, InvalidateToken, Keys, HookLive
  <2>2. Disallowed \in Entry /\ Disallowed.disallowed
    BY EntryTypes DEF Disallowed
  <2>3. kv'[k] # None => kv'[k].disallowed
    BY <1>4, <1>6, <2>1, <2>2 DEF InvalidateToken
  <2> QED
    BY <1>6, <2>3 DEF InvalidateToken, svcVars, reqVars
<1>7. ASSUME NEW w \in Hooks,
             \/ \E ids \in HookPayloads : InvalidateWebhook(w, ids)
             \/ AdminCrash(w)
      PROVE  Closed(k)'
  BY <1>7 DEF InvalidateWebhook, AdminCrash, svcVars, reqVars
<1>8. ASSUME NEW c \in Genuine, Revoke(c)
      PROVE  Closed(k)'
  BY <1>8 DEF Revoke, reqVars
<1>9. CASE Tick
  BY <1>9 DEF Tick, svcVars, reqVars
<1>10. CASE UNCHANGED vars
  BY <1>10 DEF vars, svcVars, reqVars
<1> QED
  BY <1>1, <1>2, <1>3, <1>5, <1>6, <1>7, <1>8, <1>9, <1>10
     DEF Next, HandlerStep

\* Once a revoked credential is out of the cache and no fill from before the
\* revocation is pending, it never comes back.
THEOREM RevocationIsFinal == Spec => ClosedStaysClosed
<1>1. IInv /\ [Next]_vars => [\A k \in Keys : Closed(k) => Closed(k)']_vars
  BY ClosedStep
<1> QED
  BY <1>1, Invariance, PTL DEF Spec, ClosedStaysClosed

-----------------------------------------------------------------------------
(***************************************************************************)
(* TokenCache implements TokenGrants.                                      *)
(***************************************************************************)
\* The grant of one handler, as TokenGrants sees it.
LiveCred(r) == IF Granted(r) /\ CtxLive(r) THEN cred[r] ELSE None

\* A grant Envoy can still act on is one TokenGrants could make at this
\* instant.
LiveOK ==
    \A r \in Handlers : LiveCred(r) # None =>
        /\ LiveCred(r) \in Genuine
        /\ LiveCred(r) \in alive \/
             (TTL > 0 => now - revokedAt[LiveCred(r)]
                           <= (TTL - 1) + 2 * (AuthTimeout - 1))

LEMMA IInvLive == IInv => LiveOK
<1> SUFFICES ASSUME IInv, NEW r \in Handlers, LiveCred(r) # None
             PROVE  LiveOK!(r)!2
  BY DEF LiveOK
<1>1. LiveCred(r) = cred[r] /\ Granted(r) /\ CtxLive(r)
  BY DEF LiveCred
<1>2. cred[r] \in Genuine
  BY <1>1 DEF IInv, HandlerInv, Vouched
<1> QED
  BY <1>1, <1>2, IInvLatency DEF RevocationLatency

\* A step of a handler or a webhook touches neither the clock nor the Token
\* Service, and at most one grant.
LEMMA HandlerStepGrants ==
  ASSUME IInv, NEW r \in Handlers, Begin(r) \/ HandlerStep(r) \/ AuthCrash(r)
  PROVE  /\ UNCHANGED <<now, alive, revokedAt>>
         /\ \A q \in Handlers \ {r} : LiveCred(q)' = LiveCred(q)
         /\ LiveCred(r) # None => LiveCred(r)' = None
<1>1. UNCHANGED <<now, alive, revokedAt>>
  BY DEF Begin, BeginMalformed, BeginOauth, BeginWAT, HandlerStep,
         CallProxyAuth, DummyDecrypt, GetCache, DeleteCorrupted, Validate,
         Exchange, StoreCache, Return, AuthCrash, End, svcVars
<1>2. ASSUME NEW q \in Handlers \ {r}
      PROVE  /\ pc'[q] = pc[q] /\ answer'[q] = answer[q]
             /\ cred'[q] = cred[q] /\ start'[q] = start[q]
  <2>1. CASE Begin(r)
    BY <2>1 DEF IInv, TypeOK, Begin, BeginMalformed, BeginOauth, BeginWAT,
                Answer, Goto
  <2>2. CASE \/ CallProxyAuth(r) \/ DummyDecrypt(r) \/ GetCache(r)
             \/ DeleteCorrupted(r) \/ Validate(r)
    BY <2>2 DEF IInv, TypeOK, CallProxyAuth, DummyDecrypt, GetCache,
                DeleteCorrupted, Validate, Answer, Goto
  <2>3. CASE Exchange(r) \/ StoreCache(r)
    BY <2>3 DEF IInv, TypeOK, Exchange, Refuse, StoreCache, Answer, Goto
  <2>4. CASE Return(r) \/ AuthCrash(r)
    BY <2>4 DEF IInv, TypeOK, Return, AuthCrash, End, Goto
  <2> QED
    BY <2>1, <2>2, <2>3, <2>4 DEF HandlerStep
<1>3. ASSUME NEW q \in Handlers \ {r}
      PROVE  LiveCred(q)' = LiveCred(q)
  BY <1>1, <1>2 DEF LiveCred, Granted, CtxLive
<1>4. ASSUME Granted(r)
      PROVE  ~Granted(r)'
  BY <1>4 DEF IInv, TypeOK, Granted, Begin, BeginMalformed, BeginOauth,
              BeginWAT, HandlerStep, CallProxyAuth, DummyDecrypt, GetCache,
              DeleteCorrupted, Validate, Exchange, StoreCache, Return,
              AuthCrash, End, Goto
<1> QED
  BY <1>1, <1>3, <1>4 DEF LiveCred

\* Every step of TokenCache is a step of TokenGrants or leaves it alone.
LEMMA StepSimulation ==
  IInv /\ LiveOK' /\ [Next]_vars => [Grants!Next]_(Grants!vars)
<1> SUFFICES ASSUME IInv, LiveOK', [Next]_vars
             PROVE  Grants!Next \/ UNCHANGED Grants!vars
  OBVIOUS
<1>1. ASSUME NEW r \in Handlers, Begin(r) \/ HandlerStep(r) \/ AuthCrash(r)
      PROVE  Grants!Next
  <2>1. /\ UNCHANGED <<now, alive, revokedAt>>
        /\ \A q \in Handlers \ {r} : LiveCred(q)' = LiveCred(q)
        /\ LiveCred(r) # None => LiveCred(r)' = None
    BY <1>1, HandlerStepGrants
  <2>2. CASE LiveCred(r)' = None
    <3>1. Grants!Finish(r)
      BY <2>1, <2>2 DEF Grants!Finish, LiveCred
    <3> QED
      BY <3>1 DEF Grants!Next
  <2>3. CASE LiveCred(r)' # None
    <3>1. PICK c : c = LiveCred(r)'
      OBVIOUS
    <3>2. /\ c \in Genuine
          /\ c \in alive \/
               (TTL > 0 => now - revokedAt[c] <= (TTL - 1) + 2 * (AuthTimeout - 1))
      BY <2>1, <2>3, <3>1 DEF LiveOK
    <3>3. Grants!Grantable(c, now)
      BY <3>2 DEF Grants!Grantable
    <3>4. Grants!Grant(r)
      BY <2>1, <2>3, <3>1, <3>2, <3>3 DEF Grants!Grant, LiveCred
    <3> QED
      BY <3>4 DEF Grants!Next
  <2> QED
    BY <2>2, <2>3
<1>2. ASSUME NEW w \in Hooks,
             \/ \E ids \in HookPayloads : InvalidateWebhook(w, ids)
             \/ InvalidateToken(w)
             \/ AdminCrash(w)
      PROVE  UNCHANGED Grants!vars
  BY <1>2 DEF InvalidateWebhook, InvalidateToken, AdminCrash, svcVars,
              reqVars, Grants!vars, Granted, CtxLive
<1>3. ASSUME NEW c \in Genuine, Revoke(c)
      PROVE  Grants!Next
  <2>1. Grants!Revoke(c)
    BY <1>3 DEF Revoke, Grants!Revoke, reqVars, Granted, CtxLive
  <2> QED
    BY <2>1 DEF Grants!Next
<1>4. CASE Tick
  <2>1. Grants!Tick
    <3>1. PICK over : over = {r \in Handlers : LiveCred(r)' = None}
      OBVIOUS
    <3>2. \A r \in Handlers : LiveCred(r)' # None => LiveCred(r)' = LiveCred(r)
      <4>1. now' = now + 1 /\ now \in Int /\ \A r \in Handlers : start[r] \in Int
        BY <1>4 DEF IInv, TypeOK, Tick, Times
      <4>2. UNCHANGED reqVars
        BY <1>4 DEF Tick
      <4> QED
        BY <4>1, <4>2, BoundAssumption DEF reqVars, LiveCred, Granted, CtxLive
    <3>3. now' = now + 1 /\ UNCHANGED <<alive, revokedAt>>
      BY <1>4 DEF Tick, svcVars
    <3>4. \A r \in Handlers \ over :
            LiveCred(r) # None => Grants!Grantable(LiveCred(r), now + 1)
      BY <3>1, <3>2, <3>3 DEF LiveOK, Grants!Grantable
    <3> QED
      BY <3>1, <3>2, <3>3, <3>4 DEF Grants!Tick, LiveCred
  <2> QED
    BY <2>1 DEF Grants!Next
<1>5. CASE UNCHANGED vars
  BY <1>5 DEF vars, svcVars, reqVars, Grants!vars, Granted, CtxLive
<1> QED
  BY <1>1, <1>2, <1>3, <1>4, <1>5 DEF Next

\* Seen from Envoy, RequestHeader and its cache are the service TokenGrants
\* describes, for every number of handlers, credentials and keys and every
\* TTL and deadline.
THEOREM Implementation == Spec => ImplementsGrants
<1>1. Init => Grants!Init
  BY DEF Init, Grants!Init, Granted
<1>2. Spec => [](IInv /\ LiveOK)
  BY Invariance, IInvLive, PTL
<1> QED
  BY <1>1, <1>2, StepSimulation, PTL DEF Spec, ImplementsGrants, Grants!Spec
=============================================================================
