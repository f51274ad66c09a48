SPECIFICATION FairSpec
CONSTANTS
  Pids = {0, 1, 2, 3, 4}
  PatPid = 0
  Versions = {1, 2}
  NoVersion = 0
  Damage = Damage
  Packets <- AllPackets
  Multiplexes <- AllMultiplexes
  AppChanges <- NoAppChanges
INVARIANTS TypeOK ReferenceIsLive RegisteredAreServed
PROPERTIES ImplementsRouting StreamsKeepState TunesIn
