SPECIFICATION Spec
CONSTANTS
  CommunityHeader = CommunityHeader
  Oauth2ProxyAccessTokenHeader = Oauth2ProxyAccessTokenHeader
  RouteIDHeader = RouteIDHeader
  VersionHeader = VersionHeader
  WormholeHostHeader = WormholeHostHeader
  WormholeSchemeHeader = WormholeSchemeHeader
  CookieHeader = CookieHeader
  xtoken = xtoken
  xtoken2 = xtoken2
  xsub = xsub
  xsub2 = xsub2
  dev = dev
  OtherNames = {xtoken, xtoken2, xsub, xsub2, dev}
  Args <- MCArgs
  Routes <- MCRoutes
  ClientHeaders <- MCClientHeaders
  MaxRollouts = 1
  None = None
INVARIANTS TypeOK NoForgedHeaders TokenReplaced IdentityArrives OnlyGranted
