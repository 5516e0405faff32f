SPECIFICATION Spec
CONSTANTS
  h1 = h1
  h2 = h2
  g1 = g1
  w1 = w1
  w2 = w2
  x1 = x1
  s1 = s1
  id1 = id1
  id2 = id2
  k1 = k1
  k2 = k2
  None = None
  NoKey = NoKey
  Handlers = {h1}
  Hooks = {}
  WATs = {w1, x1}
  Sessions = {}
  TokenIDs = {id1}
  Genuine = {w1}
  CipherKeys = {k1}
  OauthEnabled = FALSE
  KVFaults = FALSE
  TTL = 2
  AuthTimeout = 2
  HookTimeout = 2
  JWTLife = 3
  ExpSkew = 1
  MaxSubs = 0
  MaxTime = 5
  IdOf <- MCIdOf
  Cipher <- MCOneKey
PROPERTY RejectionStaysCached
