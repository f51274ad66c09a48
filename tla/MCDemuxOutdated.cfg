SPECIFICATION StreamSpec
CONSTANTS
  Pids = {0, 1, 2, 3, 4}
  PatPid = 0
  Versions = {1, 2}
  NoVersion = 0
  Damage = Damage
  Packets <- AllPackets
  Multiplexes <- Updated
  AppChanges <- NoAppChanges
INVARIANTS OutdatedAreRemoved
