SPECIFICATION FairSpec
CONSTANTS
  Procs = {p}
  Cacher = cacher
  Admins = {adm}
  Sources = {A, B}
  Static = static
  Mixed = mixed
  None = None
  MaxRetry = 2
  RestartModes = {"same", "new"}
  MaxChanges = 1
  MaxHooks = 1
  MaxFaults = 1
  MaxRestarts = 1
  MaxLosses = 1
  MaxInbox = 2
INVARIANTS TypeOK AckedWasApplied
PROPERTIES NeverBackwards Converges
