------------------------------- MODULE HeaderChain -------------------------------
(***************************************************************************)
(* The headers of one request on its way through Envoy.  The listener and  *)
(* the route (internal/envoy/resources.go) make Envoy run three filters:   *)
(* header mutation, external authorization, router.  The authorization     *)
(* filter asks Check of the auth process (internal/envoy/auth.go), whose   *)
(* answer is built from the errors of internal/ctls/errs or sets headers.  *)
(*                                                                         *)
(* Envoy's configuration comes from the arguments of the xds process, the  *)
(* answers from those of the auth process.  The two are started and        *)
(* restarted separately, so during a rollout they may disagree on the      *)
(* names of headers.                                                       *)
(***************************************************************************)
EXTENDS Integers, Sequences

CONSTANTS
    CommunityHeader, Oauth2ProxyAccessTokenHeader, RouteIDHeader, VersionHeader,
    WormholeHostHeader, WormholeSchemeHeader, CookieHeader,  \* keys.go
    OtherNames,    \* names the arguments give to headers
    Args,          \* arguments a process may be started with
    Routes,        \* [id, community, noAuth]
    ClientHeaders, \* the headers a client may send
    MaxRollouts,   \* bound on restarts with other arguments
    None

FixedNames ==
    {CommunityHeader, Oauth2ProxyAccessTokenHeader, RouteIDHeader, VersionHeader,
     WormholeHostHeader, WormholeSchemeHeader, CookieHeader}

Names == FixedNames \cup OtherNames

\* Where a value comes from: the client, in the header h; the Token Service;
\* the build; or the matched route.
Sent(h)  == <<"client", h>>
Jwt      == <<"jwt">>
Subtoken == <<"subtoken">>
Version  == <<"version">>
Trusted(h, r) == <<"route", h, r>>

RouteIDs == {r.id : r \in Routes}

Origins == {Jwt, Subtoken, Version} \cup {Sent(h) : h \in Names}
             \cup {Trusted(h, r) : h \in FixedNames, r \in RouteIDs}

\* What a header may hold, None for a header that is not there.
Values  == Origins \cup {None}
Headers == [Names -> Values]

\* CheckResponse: the gRPC code, the HTTP status and the headers to set.
Answers == [code : {0, 2, 3, 5, 13, 16},
            status : {200, 302, 400, 401, 404, 500}, set : Headers]

\* args.TokenService and args.XDS, as far as headers go.
ArgsType ==
    [TokenHeader : OtherNames, SubtokenHeader : OtherNames,
     DevHostHeader : OtherNames \cup {None}, OauthProxy : BOOLEAN,
     VersionHeader : BOOLEAN, AllAuthHeaders : BOOLEAN]

\* keys.go gives different names to the fixed headers.
ASSUME NamesAssumption ==
    /\ CommunityHeader \notin {RouteIDHeader, VersionHeader, WormholeHostHeader,
                               WormholeSchemeHeader}
    /\ RouteIDHeader \notin {VersionHeader, WormholeHostHeader,
                             WormholeSchemeHeader}
    /\ VersionHeader \notin {WormholeHostHeader, WormholeSchemeHeader}
    /\ WormholeHostHeader # WormholeSchemeHeader

\* Configured names differ from the fixed ones and from each other, as the
\* defaults do; the code does not check it.
ASSUME HeaderChainAssumption ==
    /\ FixedNames \cap OtherNames = {}
    /\ Args \subseteq ArgsType
    /\ \A a \in Args : a.TokenHeader \notin {a.SubtokenHeader, a.DevHostHeader}
    /\ \A h \in ClientHeaders : h \in Headers /\ \A n \in Names : h[n] \in {None, Sent(n)}
    /\ MaxRollouts \in Nat
    /\ None \notin Origins /\ None \notin Args /\ None \notin Answers

VARIABLES
    xdsArgs,   \* the arguments behind Envoy's configuration
    authArgs,  \* the arguments of the auth process
    rollouts,  \* rollouts left
    pos,       \* the filter the request is at, 0 for no request
    route,     \* the route it matched
    cfg,       \* the arguments of the configuration it runs under
    hdrs,      \* its headers
    seen,      \* the headers in the CheckRequest, None before it is sent
    answer,    \* the CheckResponse, None before it is there
    by,        \* the arguments Check answered with (history)
    granted,   \* whether Check went through to allowRequest (history)
    out        \* the outcome: forwarded headers or the client's status

args    == <<xdsArgs, authArgs, rollouts>>
check   == <<seen, answer, by, granted>>
vars    == <<args, pos, route, cfg, hdrs, check, out>>

-----------------------------------------------------------------------------
(***************************************************************************)
(* internal/ctls/errs: error types, their gRPC codes and HTTP statuses.    *)
(***************************************************************************)
ErrorType == {"InternalErr", "AuthErr", "BadRequestErr", "RedirectErr", "NotFoundErr"}

OK == 0

\* Seeded fault: a type without a case has the zero code.
CodeZero(e) ==
    CASE e = "AuthErr"       -> 16
      [] e = "BadRequestErr" -> 3
      [] e = "InternalErr"   -> 13
      [] OTHER               -> OK

\* ErrorType.code: Unauthenticated, InvalidArgument, Internal, NotFound, else
\* Unknown.
Code(e) ==
    CASE e = "AuthErr"       -> 16
      [] e = "BadRequestErr" -> 3
      [] e = "InternalErr"   -> 13
      [] e = "NotFoundErr"   -> 5
      [] OTHER               -> 2

\* Seeded fault: what is not known is accepted.
StatusAccepted(code) ==
    CASE code = 16 -> 401 [] code = 3 -> 400 [] OTHER -> 202

\* statusCode: the HTTP status of a denial.
StatusCode(code) ==
    CASE code = 16 -> 401 [] code = 3 -> 400 [] code = 5 -> 404 [] OTHER -> 500

-----------------------------------------------------------------------------
(***************************************************************************)
(* Envoy's configuration.                                                  *)
(***************************************************************************)
\* Seeded fault: authorization runs before the mutation.
FiltersSwapped == <<"authz", "mutation", "router">>

\* makeHTTPListener: the filters, in order.
HttpFilters == <<"mutation", "authz", "router">>

DefaultRemovableHeaders ==
    {CommunityHeader, Oauth2ProxyAccessTokenHeader, RouteIDHeader, VersionHeader,
     WormholeHostHeader, WormholeSchemeHeader}

\* Seeded fault: only the fixed names are removed.
RemoveFixed(a) == DefaultRemovableHeaders

\* establishDefaultRequestHeaders.
DefaultRequestHeaders(a) == DefaultRemovableHeaders \cup {a.SubtokenHeader}

\* requestHeaderFilterCfg: the removals, then the version.  Routes ask for no
\* headers of their own (updateCtls).
Mutate(h, a) ==
    [n \in Names |->
        IF n = VersionHeader /\ a.VersionHeader THEN Version
        ELSE IF n \in DefaultRequestHeaders(a) THEN None ELSE h[n]]

\* extAuthAllowedHeaders: what Check is shown.
AllowedHeaders(a) ==
    IF a.AllAuthHeaders THEN Names
    ELSE {a.TokenHeader, a.SubtokenHeader, CookieHeader, CommunityHeader, a.DevHostHeader}

-----------------------------------------------------------------------------
(***************************************************************************)
(* Envoy's steps.                                                          *)
(***************************************************************************)
At(filter) == pos > 0 /\ HttpFilters[pos] = filter

\* A request arrives and matches a route, which stays its own from here on.
Arrive(r, h) ==
    /\ pos = 0
    /\ pos' = 1
    /\ route' = r /\ cfg' = xdsArgs /\ hdrs' = h
    /\ seen' = None /\ answer' = None /\ by' = None /\ granted' = FALSE /\ out' = None
    /\ UNCHANGED args

HeaderMutation ==
    /\ At("mutation")
    /\ hdrs' = Mutate(hdrs, cfg)
    /\ pos' = pos + 1
    /\ UNCHANGED <<args, route, cfg, check, out>>

\* routeAuthzFilter: disabled for a NoAuth route, else a CheckRequest.
SkipAuthz ==
    /\ At("authz") /\ route.noAuth
    /\ pos' = pos + 1
    /\ UNCHANGED <<args, route, cfg, hdrs, check, out>>

SendCheck ==
    /\ At("authz") /\ ~route.noAuth /\ seen = None
    /\ seen' = [n \in Names |-> IF n \in AllowedHeaders(cfg) THEN hdrs[n] ELSE None]
    /\ UNCHANGED <<args, pos, route, cfg, hdrs, answer, by, granted, out>>

Reply(status) == out' = [to |-> "client", status |-> status] /\ pos' = 0

\* authzFilterCfg: no answer within AuthTimeout.  Failures are not allowed
\* through, and an answer that comes later finds no request.
AuthzTimeout ==
    /\ At("authz") /\ seen # None
    /\ Reply(403)
    /\ UNCHANGED <<args, route, cfg, hdrs, check>>

\* Envoy goes by the gRPC code of the answer.
ApplyAnswer ==
    /\ At("authz") /\ answer # None
    /\ IF answer.code = OK
       THEN /\ hdrs' = [n \in Names |-> IF answer.set[n] # None THEN answer.set[n] ELSE hdrs[n]]
            /\ pos' = pos + 1
            /\ UNCHANGED out
       ELSE Reply(answer.status) /\ UNCHANGED hdrs
    /\ UNCHANGED <<args, route, cfg, check>>

Router ==
    /\ At("router")
    /\ out' = [to |-> "upstream", hdrs |-> hdrs]
    /\ pos' = 0
    /\ UNCHANGED <<args, route, cfg, hdrs, check>>

-----------------------------------------------------------------------------
(***************************************************************************)
(* Check, in the auth process.  TokenCache and AuthCheck say when a        *)
(* request is let through; here any outcome its headers allow may be met.  *)
(***************************************************************************)
\* establishReqDetails: identity comes from the route's context extensions,
\* the host from the development header when there is one.
DetailsHost(a) ==
    IF a.DevHostHeader # None /\ seen[a.DevHostHeader] # None
    THEN seen[a.DevHostHeader] ELSE Trusted(WormholeHostHeader, route.id)

NoHeaders == [n \in Names |-> None]

\* Seeded fault: the token header is left alone.
SetHeadersNoToken(a, subtoken) ==
    [NoHeaders EXCEPT ![CommunityHeader] =
                          IF route.community THEN Trusted(CommunityHeader, route.id) ELSE None,
                      ![a.SubtokenHeader] = subtoken,
                      ![RouteIDHeader] = Trusted(RouteIDHeader, route.id),
                      ![WormholeHostHeader] = DetailsHost(a),
                      ![WormholeSchemeHeader] = Trusted(WormholeSchemeHeader, route.id)]

\* setHeaders and the end of Check: the headers of an allowed request.
SetHeaders(a, subtoken) ==
    [NoHeaders EXCEPT ![a.TokenHeader] = Jwt,
                      ![CommunityHeader] =
                          IF route.community THEN Trusted(CommunityHeader, route.id) ELSE None,
                      ![a.SubtokenHeader] = subtoken,
                      ![RouteIDHeader] = Trusted(RouteIDHeader, route.id),
                      ![WormholeHostHeader] = DetailsHost(a),
                      ![WormholeSchemeHeader] = Trusted(WormholeSchemeHeader, route.id)]

\* retrieveWAT: the token of the request.  Without one, the OAuth flow is
\* taken and the WAT of the token context is empty.
WAT(a) == seen[a.TokenHeader]
HasToken(a) == WAT(a) # None

\* SubtokenFlow, which AuthCheck follows step by step: nothing without a
\* community; with one, a subtoken from the Token Service or the cache, or the
\* WAT passed back when its payload is a subtoken's of that community.
SubtokenFlow(a) == IF route.community THEN {Subtoken, WAT(a)} ELSE {None}

\* The error types Check may end with: of retrieveWAT and the token flow or of
\* the OAuth flow, then of AuthorizeProxy and of SubtokenFlow.
CheckErrors(a) ==
    IF ~HasToken(a) /\ ~a.OauthProxy THEN {"AuthErr"}
    ELSE {"AuthErr", "InternalErr", "NotFoundErr", "BadRequestErr"}
           \cup (IF HasToken(a) THEN {} ELSE {"RedirectErr"})

Asked == seen # None /\ answer = None /\ pos > 0

Deny(e) == answer' = [code |-> Code(e), status |-> StatusCode(Code(e)), set |-> NoHeaders]

\* allowRequest, after a token or the OAuth session of a cookie has been
\* accepted and SubtokenFlow has returned subtoken.
CheckAllow(subtoken) ==
    /\ Asked
    /\ subtoken \in SubtokenFlow(authArgs)
    /\ HasToken(authArgs) \/ (authArgs.OauthProxy /\ seen[CookieHeader] # None)
    /\ answer' = [code |-> OK, status |-> 200,
                  set |-> SetHeaders(authArgs, subtoken)]
    /\ granted' = TRUE /\ by' = authArgs
    /\ UNCHANGED <<args, pos, route, cfg, hdrs, seen, out>>

\* denyRequest.
CheckDeny(e) ==
    /\ Asked
    /\ e \in CheckErrors(authArgs) \ {"RedirectErr"}
    /\ Deny(e)
    /\ by' = authArgs
    /\ UNCHANGED <<args, pos, route, cfg, hdrs, seen, granted, out>>

\* redirectRequest: to the login page, or a bad request when the table of
\* redirects does not hold its host.
CheckRedirect ==
    /\ Asked
    /\ "RedirectErr" \in CheckErrors(authArgs)
    /\ \/ answer' = [code |-> Code("AuthErr"), status |-> 302, set |-> NoHeaders]
       \/ Deny("BadRequestErr")
    /\ by' = authArgs
    /\ UNCHANGED <<args, pos, route, cfg, hdrs, seen, granted, out>>

-----------------------------------------------------------------------------
\* A process is replaced by one with other arguments.
RollXds(a) ==
    /\ rollouts > 0 /\ a # xdsArgs
    /\ rollouts' = rollouts - 1
    /\ xdsArgs' = a
    /\ UNCHANGED <<authArgs, pos, route, cfg, hdrs, check, out>>

RollAuth(a) ==
    /\ rollouts > 0 /\ a # authArgs
    /\ rollouts' = rollouts - 1
    /\ authArgs' = a
    /\ UNCHANGED <<xdsArgs, pos, route, cfg, hdrs, check, out>>

Init ==
    /\ xdsArgs \in Args /\ authArgs = xdsArgs
    /\ rollouts = MaxRollouts
    /\ pos = 0
    /\ route \in Routes /\ cfg = xdsArgs /\ hdrs = NoHeaders
    /\ seen = None /\ answer = None /\ by = None /\ granted = FALSE /\ out = None

Next ==
    \/ \E r \in Routes, h \in ClientHeaders : Arrive(r, h)
    \/ HeaderMutation
    \/ SkipAuthz \/ SendCheck \/ AuthzTimeout \/ ApplyAnswer
    \/ Router
    \/ \E s \in Values : CheckAllow(s)
    \/ CheckRedirect \/ \E e \in ErrorType : CheckDeny(e)
    \/ \E a \in Args : RollXds(a) \/ RollAuth(a)

Spec == Init /\ [][Next]_vars

-----------------------------------------------------------------------------
(***************************************************************************)
(* Properties.                                                             *)
(***************************************************************************)
\* Types of the state; no denial has a status other than the listed ones.
TypeOK ==
    /\ xdsArgs \in Args /\ authArgs \in Args /\ cfg \in Args /\ by \in Args \cup {None}
    /\ rollouts \in 0 .. MaxRollouts
    /\ pos \in 0 .. Len(HttpFilters)
    /\ route \in Routes
    /\ hdrs \in Headers /\ seen \in Headers \cup {None}
    /\ answer \in Answers \cup {None}
    /\ granted \in BOOLEAN
    /\ \/ out = None
       \/ out \in [to : {"upstream"}, hdrs : Headers]
       \/ out \in [to : {"client"}, status : {302, 400, 401, 403, 404, 500}]

Forwarded == out # None /\ out.to = "upstream"

\* The header names a destination trusts, under the arguments of a process.
Reserved(a) == DefaultRemovableHeaders \cup {a.SubtokenHeader}

\* xds.go: headers "we will rely upon at future stages" are removed first.  No
\* value a client sent reaches a destination in one of them, on any route, with
\* or without authorization, but for two that Check itself puts there: the
\* development header as the host, and in the subtoken header of a community
\* the very token it accepted (subtoken.go, "pass it back along").  The subtoken
\* header of an auth process that runs under another name for it than Envoy's
\* configuration was made with is not removed: there, what the client sent in
\* it stays when Check sets none.
NoForgedHeaders ==
    Forwarded =>
        /\ \A n \in Reserved(cfg), h \in Names : out.hdrs[n] = Sent(h) =>
              /\ by # None
              /\ \/ n = WormholeHostHeader /\ h = by.DevHostHeader
                 \/ n = by.SubtokenHeader /\ h = by.TokenHeader /\ route.community
        /\ by # None =>
              \A n \in Reserved(by) \ Reserved(cfg), h \in Names : out.hdrs[n] = Sent(h) =>
                 \/ h = by.TokenHeader /\ route.community
                 \/ h = n /\ ~(route.community /\ HasToken(by))

\* token.go: the user's token "should always be overwritten" by the Jump Token.
\* A destination behind authorization receives a Jump Token in the header the
\* auth process reads tokens from, and the token the client sent there in no
\* header at all, except as the subtoken of a community.
TokenReplaced ==
    Forwarded /\ ~route.noAuth =>
        /\ out.hdrs[by.TokenHeader] = Jwt
        /\ \A n \in Names : out.hdrs[n] = Sent(by.TokenHeader) =>
              n = by.SubtokenHeader /\ route.community

\* A destination behind authorization is told the route, host and scheme of the
\* route the request matched; its community exactly when it has one; a subtoken
\* with it when the request came with a token, and none without it while the
\* two processes agree on the subtoken header; the version exactly when that is
\* asked for.  No filter undoes what an earlier one did.
IdentityArrives ==
    Forwarded /\ ~route.noAuth =>
        /\ \A n \in {RouteIDHeader, WormholeSchemeHeader} : out.hdrs[n] = Trusted(n, route.id)
        /\ by.DevHostHeader = None =>
              out.hdrs[WormholeHostHeader] = Trusted(WormholeHostHeader, route.id)
        /\ out.hdrs[CommunityHeader] =
              IF route.community THEN Trusted(CommunityHeader, route.id) ELSE None
        /\ route.community /\ HasToken(by) =>
              out.hdrs[by.SubtokenHeader] \in {Subtoken, Sent(by.TokenHeader)}
        /\ ~route.community /\ by.SubtokenHeader = cfg.SubtokenHeader =>
              out.hdrs[by.SubtokenHeader] = None
        /\ out.hdrs[VersionHeader] = IF cfg.VersionHeader THEN Version ELSE None

\* A destination behind authorization is reached only by requests Check let
\* through, although Envoy decides by the gRPC code that the error type of a
\* denial is mapped to, and whatever the timing of the answer.
OnlyGranted == Forwarded /\ ~route.noAuth => granted
=============================================================================
