SPECIFICATION MCSpec
CONSTANTS
  Bases = {B1, B2}
  Names = {n1, n2}
  Tags = {t1}
  Arch = "aarch64"
  MaxDisk = 2
  MaxLaunch = 2
  MaxMoment = 2
  MaxDeaths = 1
  None = None
  Nodes = {p1, p2}
  PackSource = S1
  OtherSource = S2
  MaxVersion = 4
  NoImage = NoImage
  MaxStarts = 3
  NoJob = NoJob
  Profiles = {m1, m2}
  Ports = {1, 2}
  NoPort = 0
  MaxCommands = 4
SYMMETRY Symmetry
CHECK_DEADLOCK FALSE
INVARIANTS
  DisksAreSafe
  InstalledMeansComplete
  MachinesShareASwitch
  RegisteredIsComplete
PROPERTIES
  RevertRestoresBoth
  AppliedWasProbed
