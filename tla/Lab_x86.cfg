SPECIFICATION MCSpec
CONSTANTS
  Bases = {B1}
  Names = {n1}
  Tags = {t1}
  Arch = "x86_64"
  MaxDisk = 1
  MaxLaunch = 1
  MaxMoment = 2
  MaxDeaths = 0
  None = None
  Nodes = {p1}
  PackSource = S1
  OtherSource = S2
  MaxVersion = 2
  NoImage = NoImage
  MaxStarts = 1
  NoJob = NoJob
  Profiles = {m1}
  Ports = {1}
  NoPort = 0
  MaxCommands = 1
CHECK_DEADLOCK FALSE
PROPERTIES
  RevertRestoresBoth
