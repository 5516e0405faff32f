SPECIFICATION Spec
CONSTANTS
  h1 = h1
  h2 = h2
  rt = rt
  cA = cA
  cB = cB
  alice = alice
  staff = staff
  t1 = t1
  st = st
  None = None
  OwnToken = OwnToken
  Routes = {rt}
  Communities = {cA, cB}
  Users = {alice}
  Groups = {staff}
  TokenIDs = {t1, st}
  Handlers = {h1}
  Hooks = {}
  SubIDs = {s1}
  KVFaults = FALSE
  TTL = 2
  AuthTimeout = 2
  HookTimeout = 1
  MaxSubs = 0
  MaxTime = 2
  Payloads <- MCTokens
  Tables <- MCMoves
INVARIANT NoNestedSubtoken
