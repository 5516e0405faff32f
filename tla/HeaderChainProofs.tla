--------------------------- MODULE HeaderChainProofs ---------------------------
(***************************************************************************)
(* Proofs about HeaderChain for every set of header names, arguments,      *)
(* routes and client headers.                                              *)
(***************************************************************************)
EXTENDS HeaderChain, TLAPS

\* The properties of what is forwarded, of the headers h of the request at
\* the router.
Unforged(h) ==
    /\ \A n \in Reserved(cfg), m \in Names : h[n] = Sent(m) =>
          /\ by # None
          /\ \/ n = WormholeHostHeader /\ m = by.DevHostHeader
             \/ n = by.SubtokenHeader /\ m = by.TokenHeader /\ route.community
    /\ by # None =>
          \A n \in Reserved(by) \ Reserved(cfg), m \in Names : h[n] = Sent(m) =>
             \/ m = by.TokenHeader /\ route.community
             \/ m = n /\ ~(route.community /\ HasToken(by))

Identified(h) ==
    /\ \A n \in {RouteIDHeader, WormholeSchemeHeader} : h[n] = Trusted(n, route.id)
    /\ by.DevHostHeader = None =>
          h[WormholeHostHeader] = Trusted(WormholeHostHeader, route.id)
    /\ h[CommunityHeader] =
          IF route.community THEN Trusted(CommunityHeader, route.id) ELSE None
    /\ route.community /\ HasToken(by) =>
          h[by.SubtokenHeader] \in {Subtoken, Sent(by.TokenHeader)}
    /\ ~route.community /\ by.SubtokenHeader = cfg.SubtokenHeader =>
          h[by.SubtokenHeader] = None
    /\ h[VersionHeader] = IF cfg.VersionHeader THEN Version ELSE None

Replaced(h) ==
    /\ h[by.TokenHeader] = Jwt
    /\ \A n \in Names : h[n] = Sent(by.TokenHeader) =>
          n = by.SubtokenHeader /\ route.community

Ready(h) ==
    /\ Unforged(h)
    /\ ~route.noAuth => granted /\ by # None /\ Replaced(h) /\ Identified(h)

\* Until Check's answer is applied a header holds what the client sent in it,
\* or nothing of the client's.
InPlace(h) ==
    \A n \in Names : h[n] \in {None, Sent(n)} \/ (n = VersionHeader /\ h[n] = Version)

\* What the mutation filter leaves in the headers a destination trusts.
Cleaned ==
    \A n \in Reserved(cfg) :
        hdrs[n] = IF n = VersionHeader /\ cfg.VersionHeader THEN Version ELSE None

\* The Check of the request: an answer comes after a question, is by the
\* process's arguments of that moment, and says OK only where Check allows.
CheckInv ==
    /\ answer = None => by = None /\ ~granted
    /\ seen # None => InPlace(seen)
    /\ answer # None =>
          /\ seen # None /\ by # None
          /\ answer.code # OK => answer.status # 200
          /\ answer.code = OK =>
                /\ granted
                /\ \E s \in SubtokenFlow(by) : answer.set = SetHeaders(by, s)

\* Where the request is in the chain of filters.
ChainInv ==
    /\ pos = 1 => seen = None
    /\ pos \in {1, 2} => InPlace(hdrs)
    /\ pos = 2 => Cleaned
    /\ pos = 3 => Ready(hdrs)
    /\ pos > 0 => out = None
    /\ route.noAuth => seen = None
    /\ Forwarded => Ready(out.hdrs)

IInv == TypeOK /\ CheckInv /\ ChainInv

-----------------------------------------------------------------------------
\* The values a header may have are told apart by where they come from.
LEMMA OriginFacts ==
  /\ Jwt # None /\ Subtoken # None /\ Version # None
  /\ {Jwt, Subtoken, Version, None} \subseteq Values
  BY HeaderChainAssumption DEF Origins, Values

LEMMA SentFacts ==
  ASSUME NEW m \in Names
  PROVE  /\ Sent(m) \in Values
         /\ Sent(m) \notin {None, Jwt, Subtoken, Version}
         /\ \A n \in Names : Sent(n) = Sent(m) => n = m
<1>1. Sent(m) \in Origins
  BY DEF Origins
<1>2. Sent(m) \notin {Jwt, Subtoken, Version}
  <2>1. Len(<<"client", m>>) = 2
    OBVIOUS
  <2>2. Len(Jwt) = 1 /\ Len(Subtoken) = 1 /\ Len(Version) = 1
    BY DEF Jwt, Subtoken, Version
  <2> QED
    BY <2>1, <2>2 DEF Sent
<1>3. ASSUME NEW n \in Names, Sent(n) = Sent(m) PROVE n = m
  <2>1. <<"client", n>>[2] = n /\ <<"client", m>>[2] = m
    OBVIOUS
  <2> QED
    BY <1>3, <2>1 DEF Sent
<1> QED
  BY <1>1, <1>2, <1>3, HeaderChainAssumption DEF Values

LEMMA TrustedFacts ==
  ASSUME NEW n \in FixedNames, NEW r \in Routes
  PROVE  /\ Trusted(n, r.id) \in Values
         /\ Trusted(n, r.id) # None
         /\ \A m \in Names : Trusted(n, r.id) # Sent(m)
<1>1. Trusted(n, r.id) \in Origins
  BY DEF Origins, RouteIDs
<1>2. ASSUME NEW m \in Names PROVE Trusted(n, r.id) # Sent(m)
  <2>1. Len(<<"route", n, r.id>>) = 3 /\ Len(<<"client", m>>) = 2
    OBVIOUS
  <2> QED
    BY <2>1 DEF Trusted, Sent
<1> QED
  BY <1>1, <1>2, HeaderChainAssumption DEF Values

\* The names in play: those of the arguments are none of the fixed ones.
LEMMA NameFacts ==
  ASSUME NEW a \in Args
  PROVE  /\ a.TokenHeader \in OtherNames /\ a.SubtokenHeader \in OtherNames
         /\ a.DevHostHeader \in OtherNames \cup {None}
         /\ a.TokenHeader # a.SubtokenHeader /\ a.TokenHeader # a.DevHostHeader
         /\ a.TokenHeader \notin FixedNames /\ a.SubtokenHeader \notin FixedNames
         /\ Reserved(a) \subseteq Names /\ OtherNames \subseteq Names
         /\ FixedNames \subseteq Names /\ DefaultRemovableHeaders \subseteq FixedNames
  BY HeaderChainAssumption
     DEF ArgsType, Reserved, DefaultRemovableHeaders, Names, FixedNames

\* What setHeaders sets, name by name.
LEMMA SetHeadersAt ==
  ASSUME NEW a \in Args, NEW s, NEW n \in Names
  PROVE  SetHeaders(a, s)[n] =
           IF n = WormholeSchemeHeader THEN Trusted(WormholeSchemeHeader, route.id)
           ELSE IF n = WormholeHostHeader THEN DetailsHost(a)
           ELSE IF n = RouteIDHeader THEN Trusted(RouteIDHeader, route.id)
           ELSE IF n = a.SubtokenHeader THEN s
           ELSE IF n = CommunityHeader
             THEN IF route.community THEN Trusted(CommunityHeader, route.id) ELSE None
           ELSE IF n = a.TokenHeader THEN Jwt
           ELSE None
  BY DEF SetHeaders, NoHeaders

LEMMA SetHeadersType ==
  ASSUME TypeOK, seen # None, NEW a \in Args, NEW s \in Values
  PROVE  /\ SetHeaders(a, s) \in Headers
         /\ DetailsHost(a) \in Values /\ DetailsHost(a) # None
<1>1. {RouteIDHeader, WormholeSchemeHeader, WormholeHostHeader, CommunityHeader}
        \subseteq FixedNames
  BY DEF FixedNames
<1>2. DetailsHost(a) \in Values /\ DetailsHost(a) # None
  BY <1>1, NameFacts, TrustedFacts, HeaderChainAssumption
     DEF DetailsHost, TypeOK, Headers
<1>3. \A n \in Names : SetHeaders(a, s)[n] \in Values
  <2> SUFFICES ASSUME NEW n \in Names PROVE SetHeaders(a, s)[n] \in Values
    OBVIOUS
  <2>1. /\ Trusted(WormholeSchemeHeader, route.id) \in Values
        /\ Trusted(RouteIDHeader, route.id) \in Values
        /\ Trusted(CommunityHeader, route.id) \in Values
    BY <1>1, TrustedFacts DEF TypeOK
  <2> QED
    BY <1>2, <2>1, OriginFacts, SetHeadersAt
<1>4. SetHeaders(a, s) = [n \in Names |-> SetHeaders(a, s)[n]]
  BY DEF SetHeaders, NoHeaders
<1> QED
  BY <1>2, <1>3, <1>4 DEF Headers

-----------------------------------------------------------------------------
\* A request that Check let through is ready for the router once its answer
\* is applied to cleaned headers.
LEMMA AppliedIsReady ==
  ASSUME IInv, pos = 2, answer # None, answer.code = OK, NEW h,
         h = [n \in Names |-> IF answer.set[n] # None THEN answer.set[n] ELSE hdrs[n]]
  PROVE  Ready(h)
<1>1. /\ granted /\ by # None /\ by \in Args /\ cfg \in Args
      /\ seen # None /\ seen \in Headers /\ route \in Routes
      /\ InPlace(seen) /\ InPlace(hdrs) /\ Cleaned
  BY DEF IInv, CheckInv, ChainInv, TypeOK
<1>2. PICK s \in SubtokenFlow(by) : answer.set = SetHeaders(by, s)
  BY DEF IInv, CheckInv
<1>3. /\ RouteIDHeader \in FixedNames /\ WormholeSchemeHeader \in FixedNames
      /\ WormholeHostHeader \in FixedNames /\ CommunityHeader \in FixedNames
      /\ VersionHeader \in FixedNames
  BY DEF FixedNames
<1>4. /\ by.TokenHeader \in Names /\ by.SubtokenHeader \in Names
      /\ FixedNames \subseteq Names
      /\ by.TokenHeader \notin FixedNames /\ by.SubtokenHeader \notin FixedNames
      /\ by.TokenHeader # by.SubtokenHeader
      /\ Reserved(cfg) \subseteq Names /\ Reserved(by) \subseteq Names
      /\ by.TokenHeader # by.DevHostHeader
      /\ by.DevHostHeader # None => by.DevHostHeader \in Names
  BY <1>1, NameFacts
<1>5. \A n \in Names :
        h[n] = IF SetHeaders(by, s)[n] # None THEN SetHeaders(by, s)[n] ELSE hdrs[n]
  BY <1>2
<1>6. \A n, m \in Names :
        /\ hdrs[n] = Sent(m) => m = n
        /\ seen[n] = Sent(m) => m = n
  BY <1>1, SentFacts DEF InPlace
\* What SubtokenFlow returned, and the host: of the client's values only the
\* token Check read and the development header.
<1>7. /\ ~route.community => s = None
      /\ route.community /\ HasToken(by) => s \in {Subtoken, Sent(by.TokenHeader)}
      /\ \A m \in Names : s = Sent(m) => m = by.TokenHeader /\ route.community
  <2>1. ~route.community => s = None
    BY <1>2 DEF SubtokenFlow
  <2>2. route.community => s = Subtoken \/ s = seen[by.TokenHeader]
    BY <1>2 DEF SubtokenFlow, WAT
  <2>3. seen[by.TokenHeader] \in {None, Sent(by.TokenHeader)}
    BY <1>1, <1>3, <1>4 DEF InPlace
  <2>4. HasToken(by) => seen[by.TokenHeader] # None
    BY DEF HasToken, WAT
  <2> QED
    BY <1>4, <1>6, <2>1, <2>2, <2>3, <2>4, SentFacts
<1>8. \A m \in Names : DetailsHost(by) = Sent(m) => m = by.DevHostHeader
  BY <1>1, <1>3, <1>4, <1>6, TrustedFacts DEF DetailsHost
<1>9. Replaced(h)
  <2>1. SetHeaders(by, s)[by.TokenHeader] = Jwt
    BY <1>1, <1>3, <1>4, SetHeadersAt
  <2>2. h[by.TokenHeader] = Jwt
    BY <1>4, <1>5, <2>1, OriginFacts
  <2>3. ASSUME NEW n \in Names, h[n] = Sent(by.TokenHeader)
        PROVE  n = by.SubtokenHeader /\ route.community
    <3>1. n # by.TokenHeader
      BY <1>4, <2>2, <2>3, SentFacts
    <3>2. SetHeaders(by, s)[n] = Sent(by.TokenHeader)
      BY <1>4, <1>5, <1>6, <2>3, <3>1
    <3>3. n # WormholeHostHeader
      BY <1>1, <1>4, <1>8, <3>2, NamesAssumption, SetHeadersAt
    <3>4. n = by.SubtokenHeader
      BY <1>1, <1>3, <1>4, <3>1, <3>2, <3>3, SetHeadersAt, SentFacts, TrustedFacts
    <3>5. s = Sent(by.TokenHeader)
      BY <1>1, <1>3, <1>4, <3>2, <3>4, SetHeadersAt
    <3> QED
      BY <1>4, <1>7, <3>4, <3>5
  <2> QED
    BY <2>2, <2>3 DEF Replaced
<1>10. Identified(h)
  <2>1. ASSUME NEW n \in {RouteIDHeader, WormholeSchemeHeader}
        PROVE  h[n] = Trusted(n, route.id)
    <3>1. SetHeaders(by, s)[n] = Trusted(n, route.id)
      BY <1>1, <1>3, <1>4, NamesAssumption, SetHeadersAt
    <3> QED
      BY <1>1, <1>3, <1>4, <1>5, <3>1, TrustedFacts
  <2>2. ASSUME by.DevHostHeader = None
        PROVE  h[WormholeHostHeader] = Trusted(WormholeHostHeader, route.id)
    <3>1. SetHeaders(by, s)[WormholeHostHeader] = Trusted(WormholeHostHeader, route.id)
      BY <1>1, <1>3, <1>4, <2>2, NamesAssumption, SetHeadersAt DEF DetailsHost
    <3> QED
      BY <1>1, <1>3, <1>4, <1>5, <3>1, TrustedFacts
  <2>3. h[CommunityHeader] =
          IF route.community THEN Trusted(CommunityHeader, route.id) ELSE None
    <3>1. SetHeaders(by, s)[CommunityHeader] =
            IF route.community THEN Trusted(CommunityHeader, route.id) ELSE None
      BY <1>1, <1>3, <1>4, NamesAssumption, SetHeadersAt
    <3>2. hdrs[CommunityHeader] = None
      BY <1>1, NamesAssumption DEF Cleaned, Reserved, DefaultRemovableHeaders
    <3> QED
      BY <1>1, <1>3, <1>4, <1>5, <3>1, <3>2, TrustedFacts
  <2>4. SetHeaders(by, s)[by.SubtokenHeader] = s
    BY <1>1, <1>3, <1>4, SetHeadersAt
  <2>5. route.community /\ HasToken(by) =>
          h[by.SubtokenHeader] \in {Subtoken, Sent(by.TokenHeader)}
    BY <1>4, <1>5, <1>7, <2>4, OriginFacts, SentFacts
  <2>6. ~route.community /\ by.SubtokenHeader = cfg.SubtokenHeader =>
          h[by.SubtokenHeader] = None
    <3>1. hdrs[cfg.SubtokenHeader] = None
      BY <1>1, <1>3, NameFacts DEF Cleaned, Reserved
    <3> QED
      BY <1>4, <1>5, <1>7, <2>4, <3>1
  <2>7. h[VersionHeader] = IF cfg.VersionHeader THEN Version ELSE None
    <3>1. SetHeaders(by, s)[VersionHeader] = None
      BY <1>1, <1>3, <1>4, NamesAssumption, SetHeadersAt
    <3>2. hdrs[VersionHeader] = IF cfg.VersionHeader THEN Version ELSE None
      BY <1>1 DEF Cleaned, Reserved, DefaultRemovableHeaders
    <3> QED
      BY <1>3, <1>4, <1>5, <3>1, <3>2
  <2> QED
    BY <2>1, <2>2, <2>3, <2>5, <2>6, <2>7 DEF Identified
<1>11. Unforged(h)
  <2>1. ASSUME NEW n \in Names, NEW m \in Names, SetHeaders(by, s)[n] = Sent(m)
        PROVE  \/ n = WormholeHostHeader /\ m = by.DevHostHeader
               \/ n = by.SubtokenHeader /\ m = by.TokenHeader /\ route.community
    <3>1. \/ n = WormholeHostHeader /\ DetailsHost(by) = Sent(m)
          \/ n = by.SubtokenHeader /\ s = Sent(m)
      BY <1>1, <1>3, <1>4, <2>1, SetHeadersAt, SentFacts, TrustedFacts
    <3> QED
      BY <1>7, <1>8, <3>1
  <2>2. ASSUME NEW n \in Reserved(cfg), NEW m \in Names, h[n] = Sent(m)
        PROVE  \/ n = WormholeHostHeader /\ m = by.DevHostHeader
               \/ n = by.SubtokenHeader /\ m = by.TokenHeader /\ route.community
    <3>1. hdrs[n] # Sent(m)
      BY <1>1, SentFacts DEF Cleaned
    <3>2. n \in Names /\ SetHeaders(by, s)[n] = Sent(m)
      BY <1>4, <1>5, <2>2, <3>1
    <3> QED
      BY <2>1, <3>2
  <2>3. ASSUME NEW n \in Reserved(by) \ Reserved(cfg), NEW m \in Names, h[n] = Sent(m)
        PROVE  \/ m = by.TokenHeader /\ route.community
               \/ m = n /\ ~(route.community /\ HasToken(by))
    <3>1. n = by.SubtokenHeader
      BY DEF Reserved
    <3>2. CASE SetHeaders(by, s)[n] # None
      <4>1. SetHeaders(by, s)[n] = Sent(m)
        BY <1>4, <1>5, <2>3, <3>2
      <4> QED
        BY <1>3, <1>4, <2>1, <3>1, <4>1
    <3>3. CASE SetHeaders(by, s)[n] = None
      <4>1. m = n
        BY <1>4, <1>5, <1>6, <2>3, <3>3
      <4>2. s = None
        BY <1>1, <1>3, <1>4, <3>1, <3>3, SetHeadersAt
      <4> QED
        BY <1>4, <1>7, <4>1, <4>2, OriginFacts, SentFacts
    <3> QED
      BY <3>2, <3>3
  <2> QED
    BY <1>1, <2>2, <2>3 DEF Unforged
<1> QED
  BY <1>1, <1>9, <1>10, <1>11 DEF Ready

-----------------------------------------------------------------------------
LEMMA NoHeadersType == NoHeaders \in Headers
  BY OriginFacts DEF NoHeaders, Headers

LEMMA ChainLength == Len(HttpFilters) = 3
  BY DEF HttpFilters

LEMMA InitIInv == Init => IInv
<1> SUFFICES ASSUME Init PROVE IInv
  OBVIOUS
<1>1. TypeOK
  <2>1. MaxRollouts \in 0 .. MaxRollouts /\ 0 \in 0 .. 3
    BY HeaderChainAssumption
  <2> QED
    BY <2>1, NoHeadersType, ChainLength DEF Init, TypeOK
<1>2. CheckInv /\ ChainInv
  BY DEF Init, CheckInv, ChainInv, Forwarded
<1> QED
  BY <1>1, <1>2 DEF IInv

\* A step that leaves the Check of the request alone.
LEMMA CheckFrame ==
  ASSUME CheckInv, UNCHANGED <<route, check>>
  PROVE  CheckInv'
<1>1. /\ route' = route /\ seen' = seen /\ answer' = answer /\ by' = by
      /\ granted' = granted
  BY DEF check
<1>2. SubtokenFlow(by)' = SubtokenFlow(by)
  BY <1>1 DEF SubtokenFlow, WAT
<1>3. \A s : SetHeaders(by, s)' = SetHeaders(by, s)
  BY <1>1 DEF SetHeaders, DetailsHost
<1>4. InPlace(seen)' <=> InPlace(seen)
  BY <1>1 DEF InPlace
<1> QED
  BY <1>1, <1>2, <1>3, <1>4 DEF CheckInv

\* A step that leaves the request and its Check alone.
LEMMA RequestFrame ==
  ASSUME CheckInv, ChainInv, UNCHANGED <<pos, route, cfg, hdrs, check, out>>
  PROVE  CheckInv' /\ ChainInv'
<1>1. CheckInv'
  BY CheckFrame
<1>2. /\ pos = 3 => Ready(hdrs)'
      /\ Forwarded => Ready(out.hdrs)'
  BY DEF ChainInv, check, Ready, Unforged, Identified, Replaced,
      HasToken, WAT, Reserved
<1>3. ChainInv'
  BY <1>2 DEF ChainInv, check, Cleaned, InPlace, Forwarded, Reserved
<1> QED
  BY <1>1, <1>3

LEMMA ArriveKeeps ==
  ASSUME IInv, NEW r \in Routes, NEW h \in ClientHeaders, Arrive(r, h)
  PROVE  IInv'
<1>1. h \in Headers
  BY HeaderChainAssumption
<1>2. TypeOK'
  <2>1. xdsArgs' = xdsArgs /\ authArgs' = authArgs /\ rollouts' = rollouts
    BY DEF Arrive, args
  <2>2. /\ pos' = 1 /\ route' = r /\ cfg' = xdsArgs /\ hdrs' = h
        /\ seen' = None /\ answer' = None /\ by' = None /\ granted' = FALSE
        /\ out' = None
    BY DEF Arrive
  <2>3. pos' \in 0 .. Len(HttpFilters)
    BY <2>2, ChainLength
  <2> QED
    BY <1>1, <2>1, <2>2, <2>3 DEF IInv, TypeOK
<1>3. CheckInv' /\ ChainInv'
  BY HeaderChainAssumption DEF Arrive, CheckInv, ChainInv, InPlace, Forwarded
<1> QED
  BY <1>2, <1>3 DEF IInv

LEMMA MutateFacts ==
  ASSUME NEW a \in Args, NEW h \in Headers
  PROVE  /\ Mutate(h, a) \in Headers
         /\ \A n \in Reserved(a) : Mutate(h, a)[n] =
               IF n = VersionHeader /\ a.VersionHeader THEN Version ELSE None
<1>1. Mutate(h, a) \in Headers
  BY OriginFacts DEF Mutate, Headers
<1>2. Reserved(a) \subseteq Names /\ Reserved(a) = DefaultRequestHeaders(a)
  BY NameFacts DEF Reserved, DefaultRequestHeaders
<1> QED
  BY <1>1, <1>2 DEF Mutate

LEMMA MutationKeeps ==
  ASSUME IInv, HeaderMutation
  PROVE  IInv'
<1>1. pos = 1 /\ pos' = 2 /\ cfg \in Args /\ hdrs \in Headers
  BY DEF HeaderMutation, At, HttpFilters, IInv, TypeOK
<1>2. TypeOK'
  BY <1>1, MutateFacts DEF HeaderMutation, IInv, TypeOK, args, check, HttpFilters
<1>3. Cleaned'
  BY <1>1, MutateFacts DEF HeaderMutation, Cleaned, Reserved
<1>4. CheckInv'
  BY CheckFrame DEF HeaderMutation, IInv
<1>5. InPlace(hdrs)'
  <2>1. InPlace(hdrs) /\ hdrs' = Mutate(hdrs, cfg)
    BY <1>1 DEF HeaderMutation, IInv, ChainInv
  <2> QED
    BY <2>1 DEF InPlace, Mutate
<1>6. ChainInv'
  BY <1>1, <1>3, <1>5 DEF HeaderMutation, IInv, ChainInv, check, Forwarded
<1> QED
  BY <1>2, <1>4, <1>6 DEF IInv

\* Without authorization, cleaned headers are all there is to say.
LEMMA SkipKeeps ==
  ASSUME IInv, SkipAuthz
  PROVE  IInv'
<1>1. pos = 2 /\ pos' = 3 /\ route.noAuth
  BY DEF SkipAuthz, At, HttpFilters, IInv, TypeOK
<1>2. TypeOK'
  BY <1>1 DEF SkipAuthz, IInv, TypeOK, args, check, HttpFilters
<1>3. seen = None /\ by = None
  BY <1>1 DEF IInv, ChainInv, CheckInv
<1>4. Ready(hdrs)
  BY <1>1, <1>3, SentFacts DEF IInv, ChainInv, Cleaned, Ready, Unforged
<1>5. Ready(hdrs)'
  BY <1>4 DEF SkipAuthz, check, Ready, Unforged, Identified, Replaced,
      HasToken, WAT, Reserved
<1>6. CheckInv'
  BY CheckFrame DEF SkipAuthz, IInv
<1>7. ChainInv'
  BY <1>1, <1>5 DEF SkipAuthz, IInv, ChainInv, check, Forwarded
<1> QED
  BY <1>2, <1>6, <1>7 DEF IInv

LEMMA SendCheckKeeps ==
  ASSUME IInv, SendCheck
  PROVE  IInv'
<1>1. pos = 2 /\ pos' = pos /\ ~route.noAuth /\ seen = None
  BY DEF SendCheck, At, HttpFilters, IInv, TypeOK
<1>2. seen' \in Headers
  BY OriginFacts DEF SendCheck, IInv, TypeOK, Headers
<1>3. TypeOK'
  BY <1>2 DEF SendCheck, IInv, TypeOK, args
<1>4. InPlace(seen)'
  BY <1>1 DEF SendCheck, IInv, ChainInv, InPlace
<1>5. answer = None /\ CheckInv'
  BY <1>1, <1>4 DEF SendCheck, IInv, CheckInv
<1>6. ChainInv'
  BY <1>1 DEF SendCheck, IInv, ChainInv, Cleaned, InPlace, Reserved, Forwarded
<1> QED
  BY <1>3, <1>5, <1>6 DEF IInv

\* The request ends with a reply to the client.
LEMMA ReplyKeeps ==
  ASSUME IInv, NEW status \in {302, 400, 401, 403, 404, 500}, Reply(status),
         UNCHANGED <<args, route, cfg, hdrs, check>>
  PROVE  IInv'
<1>1. pos' = 0 /\ out' = [to |-> "client", status |-> status]
  BY DEF Reply
<1>2. out' \in [to : {"client"}, status : {302, 400, 401, 403, 404, 500}]
  BY <1>1
<1>3. TypeOK'
  BY <1>1, <1>2 DEF IInv, TypeOK, args, check, HttpFilters
<1>4. CheckInv'
  BY CheckFrame DEF IInv
<1>5. ~Forwarded'
  BY <1>1 DEF Forwarded
<1>6. ChainInv'
  BY <1>1, <1>5 DEF IInv, ChainInv, check
<1> QED
  BY <1>3, <1>4, <1>6 DEF IInv

LEMMA ApplyAnswerKeeps ==
  ASSUME IInv, ApplyAnswer
  PROVE  IInv'
<1>1. pos = 2 /\ answer # None /\ answer \in Answers
  BY DEF ApplyAnswer, At, HttpFilters, IInv, TypeOK
<1>2. CASE answer.code # OK
  <2>1. answer.status \in {302, 400, 401, 403, 404, 500}
    BY <1>1, <1>2 DEF IInv, CheckInv, Answers
  <2> QED
    BY <1>2, <2>1, ReplyKeeps DEF ApplyAnswer
<1>3. CASE answer.code = OK
  <2>1. PICK h : /\ hdrs' = h
                 /\ h = [n \in Names |-> IF answer.set[n] # None
                                         THEN answer.set[n] ELSE hdrs[n]]
    BY <1>3 DEF ApplyAnswer
  <2>2. pos' = 3 /\ out' = out
    BY <1>1, <1>3 DEF ApplyAnswer
  <2>3. h \in Headers
    BY <1>1, <2>1 DEF Answers, Headers, IInv, TypeOK
  <2>4. TypeOK'
    BY <2>1, <2>2, <2>3 DEF ApplyAnswer, IInv, TypeOK, args, check, HttpFilters
  <2>5. Ready(h)
    BY <1>1, <1>3, <2>1, AppliedIsReady
  <2>6. Ready(hdrs)'
    BY <2>1, <2>5 DEF ApplyAnswer, check, Ready, Unforged, Identified, Replaced,
      HasToken, WAT, Reserved
  <2>7. CheckInv'
    BY CheckFrame DEF ApplyAnswer, IInv
  <2>8. ChainInv'
    BY <1>1, <2>2, <2>6 DEF ApplyAnswer, IInv, ChainInv, check, Forwarded
  <2> QED
    BY <2>4, <2>7, <2>8 DEF IInv
<1> QED
  BY <1>2, <1>3

LEMMA RouterKeeps ==
  ASSUME IInv, Router
  PROVE  IInv'
<1>1. pos = 3 /\ pos' = 0 /\ out' = [to |-> "upstream", hdrs |-> hdrs]
  BY DEF Router, At, HttpFilters, IInv, TypeOK
<1>2. hdrs \in Headers /\ out' \in [to : {"upstream"}, hdrs : Headers]
  BY <1>1 DEF IInv, TypeOK
<1>3. TypeOK'
  BY <1>1, <1>2 DEF Router, IInv, TypeOK, args, check, HttpFilters
<1>4. CheckInv'
  BY CheckFrame DEF Router, IInv
<1>5. Ready(out.hdrs)'
  BY <1>1 DEF Router, IInv, ChainInv, check, Ready, Unforged, Identified, Replaced,
              HasToken, WAT,
              Reserved
<1>6. ChainInv'
  BY <1>1, <1>5 DEF Router, IInv, ChainInv, check
<1> QED
  BY <1>3, <1>4, <1>6 DEF IInv

-----------------------------------------------------------------------------
\* Check answers a question that is still open: the request is at the
\* authorization filter.
LEMMA AskedFacts ==
  ASSUME IInv, Asked
  PROVE  /\ pos = 2 /\ seen # None /\ answer = None /\ by = None /\ ~granted
         /\ ~route.noAuth /\ authArgs \in Args
<1>1. seen # None /\ answer = None /\ by = None /\ ~granted /\ ~route.noAuth
  BY DEF Asked, IInv, CheckInv, ChainInv
<1>2. pos \in 1 .. 3 /\ pos # 1
  BY <1>1 DEF Asked, IInv, TypeOK, HttpFilters, ChainInv
<1>3. pos # 3
  BY <1>1 DEF IInv, ChainInv, Ready
<1> QED
  BY <1>1, <1>2, <1>3 DEF IInv, TypeOK

\* No error type of a denial has the code of a grant.
LEMMA DenialFacts ==
  ASSUME NEW e \in ErrorType
  PROVE  /\ Code(e) \in {2, 3, 5, 13, 16} /\ Code(e) # OK
         /\ StatusCode(Code(e)) \in {400, 401, 404, 500}
<1>1. Code(e) \in {2, 3, 5, 13, 16}
  BY DEF Code, ErrorType
<1>2. \A c \in {2, 3, 5, 13, 16} : StatusCode(c) \in {400, 401, 404, 500}
  BY DEF StatusCode
<1> QED
  BY <1>1, <1>2 DEF OK

LEMMA AnswerKeeps ==
  ASSUME IInv, Asked,
         NEW c \in {0, 2, 3, 5, 13, 16},
         NEW st \in {200, 302, 400, 401, 404, 500}, NEW f \in Headers,
         answer' = [code |-> c, status |-> st, set |-> f],
         by' = authArgs, granted' \in BOOLEAN,
         c # OK => st # 200,
         c = OK => /\ granted'
                   /\ \E s \in SubtokenFlow(authArgs) : f = SetHeaders(authArgs, s),
         UNCHANGED <<args, pos, route, cfg, hdrs, seen, out>>
  PROVE  IInv'
<1>1. /\ pos = 2 /\ seen # None /\ authArgs \in Args /\ authArgs # None
      /\ ~route.noAuth
  BY AskedFacts, HeaderChainAssumption
<1>2. /\ answer' \in Answers /\ answer' # None
      /\ answer'.code = c /\ answer'.status = st /\ answer'.set = f
  BY HeaderChainAssumption DEF Answers
<1>3. TypeOK'
  BY <1>1, <1>2 DEF IInv, TypeOK, args
<1>4. CheckInv'
  <2>1. route' = route /\ seen' = seen /\ by' = authArgs
    OBVIOUS
  <2>2. InPlace(seen)'
    BY <1>1, <2>1 DEF IInv, CheckInv, InPlace
  <2>3. SubtokenFlow(by)' = SubtokenFlow(authArgs)
    BY <2>1 DEF SubtokenFlow, WAT
  <2>4. \A s : SetHeaders(by, s)' = SetHeaders(authArgs, s)
    BY <2>1 DEF SetHeaders, DetailsHost
  <2> QED
    BY <1>1, <1>2, <2>1, <2>2, <2>3, <2>4 DEF CheckInv
<1>5. out = None
  BY <1>1 DEF IInv, ChainInv
<1>6. ChainInv'
  BY <1>1, <1>5 DEF IInv, ChainInv, Cleaned, InPlace, Reserved, Forwarded
<1> QED
  BY <1>3, <1>4, <1>6 DEF IInv

LEMMA CheckKeeps ==
  ASSUME IInv, (\E s \in Values : CheckAllow(s)) \/ CheckRedirect \/ \E e \in ErrorType : CheckDeny(e)
  PROVE  IInv'
<1>1. ASSUME NEW s \in Values, CheckAllow(s) PROVE IInv'
  <2>1. Asked /\ seen # None /\ authArgs \in Args /\ s \in SubtokenFlow(authArgs)
    BY <1>1, AskedFacts DEF CheckAllow
  <2>2. PICK f : f = SetHeaders(authArgs, s)
    OBVIOUS
  <2>3. f \in Headers
    BY <2>1, <2>2, SetHeadersType, OriginFacts DEF IInv
  <2>4. /\ answer' = [code |-> 0, status |-> 200, set |-> f]
        /\ by' = authArgs /\ granted' = TRUE
        /\ UNCHANGED <<args, pos, route, cfg, hdrs, seen, out>>
    BY <1>1, <2>2 DEF CheckAllow, OK
  <2> QED
    BY <2>1, <2>2, <2>3, <2>4, AnswerKeeps DEF OK
<1>2. ASSUME NEW e \in ErrorType, Deny(e), Asked, by' = authArgs,
             granted' = granted,
             UNCHANGED <<args, pos, route, cfg, hdrs, seen, out>>
      PROVE  IInv'
  <2>1. granted' \in BOOLEAN
    BY <1>2 DEF IInv, TypeOK
  <2> QED
    BY <1>2, <2>1, DenialFacts, NoHeadersType, AnswerKeeps DEF Deny
<1>3. CASE CheckRedirect
  <2>1. /\ Asked /\ by' = authArgs /\ granted' = granted
        /\ UNCHANGED <<args, pos, route, cfg, hdrs, seen, out>>
    BY <1>3 DEF CheckRedirect
  <2>2. CASE Deny("BadRequestErr")
    BY <1>2, <2>1, <2>2 DEF ErrorType
  <2>3. CASE answer' = [code |-> Code("AuthErr"), status |-> 302, set |-> NoHeaders]
    <3>1. Code("AuthErr") = 16 /\ 16 # OK /\ granted' \in BOOLEAN
      BY <2>1 DEF Code, OK, IInv, TypeOK
    <3> QED
      BY <2>1, <2>3, <3>1, NoHeadersType, AnswerKeeps
  <2> QED
    BY <1>3, <2>2, <2>3 DEF CheckRedirect
<1> QED
  BY <1>1, <1>2, <1>3 DEF CheckDeny

LEMMA RolloutKeeps ==
  ASSUME IInv, NEW a \in Args, RollXds(a) \/ RollAuth(a)
  PROVE  IInv'
<1>1. UNCHANGED <<pos, route, cfg, hdrs, check, out>>
  BY DEF RollXds, RollAuth
<1>2. rollouts' \in 0 .. MaxRollouts
  BY HeaderChainAssumption DEF RollXds, RollAuth, IInv, TypeOK
<1>3. TypeOK'
  BY <1>2 DEF RollXds, RollAuth, IInv, TypeOK, check
<1> QED
  BY <1>1, <1>3, RequestFrame DEF IInv

-----------------------------------------------------------------------------
\* The invariant is inductive.
THEOREM Invariance == Spec => []IInv
<1>1. IInv /\ [Next]_vars => IInv'
  <2> SUFFICES ASSUME IInv, [Next]_vars PROVE IInv'
    OBVIOUS
  <2>1. CASE \E r \in Routes, h \in ClientHeaders : Arrive(r, h)
    BY <2>1, ArriveKeeps
  <2>2. CASE HeaderMutation \/ SkipAuthz \/ SendCheck \/ ApplyAnswer \/ Router
    BY <2>2, MutationKeeps, SkipKeeps, SendCheckKeeps, ApplyAnswerKeeps,
       RouterKeeps
  <2>3. CASE AuthzTimeout
    BY <2>3, ReplyKeeps DEF AuthzTimeout
  <2>4. CASE (\E s \in Values : CheckAllow(s)) \/ CheckRedirect \/ \E e \in ErrorType : CheckDeny(e)
    BY <2>4, CheckKeeps
  <2>5. CASE \E a \in Args : RollXds(a) \/ RollAuth(a)
    BY <2>5, RolloutKeeps
  <2>6. CASE UNCHANGED vars
    <3>1. TypeOK'
      BY <2>6 DEF vars, args, check, IInv, TypeOK
    <3> QED
      BY <2>6, <3>1, RequestFrame DEF vars, IInv
  <2> QED
    BY <2>1, <2>2, <2>3, <2>4, <2>5, <2>6 DEF Next
<1> QED
  BY <1>1, InitIInv, PTL DEF Spec

\* The state has its types, and no denial a status that is not listed.
THEOREM TypeCorrect == Spec => []TypeOK
<1>1. IInv => TypeOK
  BY DEF IInv
<1> QED
  BY <1>1, Invariance, PTL

\* No value a client sent reaches a destination in a reserved header, for any
\* arguments of the two processes and any rollout between them, but for the
\* exceptions the property names.
THEOREM ReservedHeadersAreOurs == Spec => []NoForgedHeaders
<1>1. IInv => NoForgedHeaders
  BY DEF IInv, ChainInv, Ready, Unforged, NoForgedHeaders
<1> QED
  BY <1>1, Invariance, PTL

\* Behind authorization the client's token is replaced by a Jump Token and is
\* in no other header, except as the subtoken of a community, for any header
\* names, arguments and rollout.
THEOREM TokenIsReplaced == Spec => []TokenReplaced
<1>1. IInv => TokenReplaced
  BY DEF IInv, ChainInv, Ready, Replaced, TokenReplaced
<1> QED
  BY <1>1, Invariance, PTL

\* Behind authorization the destination is told the identity of the route.
THEOREM IdentityIsTold == Spec => []IdentityArrives
<1>1. IInv => IdentityArrives
  BY DEF IInv, ChainInv, Ready, Identified, IdentityArrives
<1> QED
  BY <1>1, Invariance, PTL

\* Behind authorization only what Check let through arrives, for every error
\* type and code.
THEOREM GrantIsNeeded == Spec => []OnlyGranted
<1>1. IInv => OnlyGranted
  BY DEF IInv, ChainInv, Ready, OnlyGranted
<1> QED
  BY <1>1, Invariance, PTL
=============================================================================
