SPECIFICATION MCSpec
CONSTANTS
  Themes = {"instance", "power", "folders", "wizard", "course", "care", "records", "changes"}
  n1 = n1
  n2 = n2
  k1 = k1
  k2 = k2
  k3 = k3
  k4 = k4
  I = i1
  Instances = {i1}
  StartOrder <- MCTwoNodes
  MaxGen = 2
  Keys = {k1, k2, k3, k4}
  Attempts = {a1}
  Workers = {w1}
  NoWorker = NoWorker
  Kinds = {"start", "stop", "recover", "reset", "guest"}
  Outcomes = {}
  Cursors = {}
  MaxOps = 4
  p1 = p1
  p2 = p2
  f1 = f1
  f2 = f2
  f3 = f3
  Profiles = {p1, p2}
  Folders = {f1, f2, f3}
  Kind <- MCKind
  Offers <- MCOffers
  Genuine = {f1, f2}
  MaxOverlaps = 1
  MaxPid = 2
  Nobody = Nobody
  Scenes = {i1}
  Unset = Unset
  Page = 1
  EventPage = 1
  Shown = 2
  MaxTickets = 4
  MaxChanges = 2
  MaxEvents = 2
CHECK_DEADLOCK FALSE
INVARIANTS
  OutcomesAreTrue
  LedgersAgree
  MachinesFollowTheStore
  TasksTakeTurns
  UncrossedInstallsAreVerified
  HealthIsCurrent
  PageIsOfTheScene
PROPERTIES
  StoreIsFollowed
