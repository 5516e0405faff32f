SPECIFICATION Spec
CONSTANTS
  h1 = h1
  h2 = h2
  rt = rt
  cA = cA
  cB = cB
  alice = alice
  staff = staff
  t1 = t1
  st = st
  None = None
  OwnToken = OwnToken
  Routes = {rt}
  Communities = {cA}
  Users = {alice}
  Groups = {staff}
  TokenIDs = {t1}
  Handlers = {h1, h2}
  Hooks = {g1}
  SubIDs = {s1}
  KVFaults = TRUE
  TTL = 2
  AuthTimeout = 2
  HookTimeout = 1
  MaxSubs = 1
  MaxTime = 4
  Payloads <- MCRenewed
  Tables <- MCStays
SYMMETRY MCSymmetry
INVARIANTS SubtokenLatency ServedBeforeExpiry
