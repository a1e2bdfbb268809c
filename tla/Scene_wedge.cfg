SPECIFICATION MCSpec
CONSTANTS
  Themes = {"scene"}
  Commands = {c1, c2}
  ServiceOrder <- MCServices
  MachineOrder <- MCMachines
  MaxGen = 2
  MaxTokens = 3
  Nobody = Nobody
  KaliSessionIds = {c1, c2}
  Tools = {t1}
  MaxSetups = 3
  MaxFaults = 3
  NoSession = NoSession
  RelayCommands = {c1, c2}
  MaxRelaySessions = 2
  MaxRelayGen = 2
  NoCommand = NoCommand
  m1 = m1
  m2 = m2
  Connections = {c1, c2}
  Macs = {m1, m2}
  OutsideMac = mx
  Reservation <- MCReservation
  Pool = {1, 2, 4}
  MaxRounds = 4
  NoPeer = NoPeer
  Outside = Outside
SYMMETRY Symmetry
CHECK_DEADLOCK FALSE
INVARIANTS
  ScenesGoOn
