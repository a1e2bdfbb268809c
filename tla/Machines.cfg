SPECIFICATION MCSpec
CONSTANTS
  Themes = {"managed", "driver", "guest"}
  l1 = l1
  l2 = l2
  s1 = s1
  s2 = s2
  owner = owner
  I = i1
  Instances = {i1}
  Managed = {i1}
  Keys = {k1, k2, s1, s2}
  StopKey <- MCStopKey
  Attempts = {}
  Workers = {w1}
  NoWorker = NoWorker
  Kinds = {"start", "stop", "recover"}
  Outcomes = {}
  Cursors = {}
  MaxOps = 4
  Leases = {l1, l2}
  NoLease = NoLease
  Renewals = {r1}
  Owner <- MCOwner
  Cost <- MCOne
  Disk <- MCOne
  Capacity = 1
  Limit <- MCLimit
  Ttls = {2}
  ExpiryAction <- MCStop
  MaxMono = 2
  Tolerance = 0
  MaxDrift = 0
  MaxBoot = 2
  Free = Free
  Others = Others
  Scheduler = Scheduler
  MaxAttempts = 2
  Worker = worker
  Observer = observer
  Sessions = {session}
  MaxRequests = 3
  Agents = {a1, a2}
  Nobody = nobody
  MaxBoots = 2
  MaxLost = 2
SYMMETRY Symmetry
CHECK_DEADLOCK FALSE
INVARIANTS
  LeasesGovern
  StoppedIsProven
  NothingIsRepeated
  PreparedIsReal
PROPERTIES
  ImplementsMachine
