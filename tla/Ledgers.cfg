SPECIFICATION MCSpec
CONSTANTS
  Instances = {i1}
  Keys = {k1, k2, k3}
  Attempts = {a1}
  Workers = {w1, w2}
  NoWorker = NoWorker
  Kinds <- MCAnyKind
  Outcomes <- MCOutcomes
  Cursors = {1, 3}
  MaxOps = 4
  i1 = i1
  i2 = i2
  i3 = i3
  p1 = p1
  p2 = p2
  Leases = {w1, w2}
  Renewals = {r1}
  Managed = {i1, i2, i3}
  Owner <- MCOwner
  Cost <- MCCost
  Disk <- MCDisk
  Capacity = 3
  Limit <- MCLimit
  Ttls = {1, 2}
  ExpiryAction <- MCExpiry
  MaxMono = 2
  Tolerance = 1
  MaxDrift = 2
  MaxBoot = 2
  m1 = m1
  m2 = m2
  x1 = x1
  x2 = x2
  Machines = {m1, m2}
  Networks = {x1, x2}
  Ranges <- MCRanges
  NoAddress = NoAddress
  Sources <- MCSources
  UndoLimit = 2
  MaxEdits = 4
SYMMETRY Symmetry
CHECK_DEADLOCK FALSE
INVARIANTS
  OvertakenDoNothing
  GateProtectsExecution
  AtMostOnce
  EventsContiguous
  WithinLimits
  EntitledOnlyInTime
  DraftsAreSound
PROPERTIES
  ImplementsLedger
