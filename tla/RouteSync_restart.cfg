SPECIFICATION FairSpec
CONSTANTS
  Procs = {p}
  Cacher = cacher
  Admins = {}
  Sources = {A, B}
  Static = static
  Mixed = mixed
  None = None
  MaxRetry = 2
  RestartModes = {"same"}
  MaxChanges = 0
  MaxHooks = 0
  MaxFaults = 0
  MaxRestarts = 1
  MaxLosses = 0
  MaxInbox = 2
PROPERTY StartupFetchesRoutes
