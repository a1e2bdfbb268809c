SPECIFICATION MCSpec
CONSTANTS
  Themes = {"collect", "withdraw", "upload", "budget", "audit", "release", "generations", "client", "changes", "administration", "transfers"}
  Assets = {a1, a2}
  Owners = {o1}
  Uploads = {u1, u2}
  Collections = {j1, j2}
  Size = 2
  Quota = 2
  Budgets = {4}
  MaxSerial = 3
  MaxTries = 2
  Roots = {r1, r2, r3}
  FirstRoot = r1
  Sessions = {a1, a2}
  Operations = {u1, u2}
  Editions = {1, 2}
  MaxAttempts = 3
  Capacity = 2
  Versions = {a1, a2}
  Launches = {u1, u2}
  Updates = {j1, j2}
  Workspaces = {w1}
  StoreOps = {u1, u2, g3}
  Nodes = {j1}
  MaxGen = 2
  NoRoot = NoRoot
  Nobody = Nobody
  NoFile = NoFile
  NoRow = NoRow
  Targets = {t1}
  f1 = f1
  f2 = f2
  Prints = {f1, f2}
  Attempts = {a1, a2}
  Bodies = {1}
  Connections = {c1}
  Clients = {j1, j2}
  NoClient = NoClient
  NoPrint = NoPrint
  MaxTurns = 2
  RemoteTargets = {t1}
  RemoteInstances = {i1}
  NoInstance = NoInstance
  MaxCalls = 11
  MaxRevision = 2
SYMMETRY Symmetry
CHECK_DEADLOCK FALSE
INVARIANTS
  TrailIsReliable
  PromisesAreKept
  OnePreparedRow
  NothingIsSentUnasked
  RemotePageIsCurrent
PROPERTIES
  
  SwitchesAreSafe
  NothingTakenBack
