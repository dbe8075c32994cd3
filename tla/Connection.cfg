SPECIFICATION Spec
CONSTANTS
  r1 = r1
  r2 = r2
  r3 = r3
  e1 = e1
  e2 = e2
  e3 = e3
  e4 = e4
  Relays <- RacedRelays
  MaxRelays = 3
  MaxPorts = 2
  Enough = 3
  Patience = 4
  Shortest = 3
  Grace = 1
  MaxRtt = 2
  Exit = {e1, e2, e3, e4}
  ExitOf <- Exits
  RelayAt <- RelayPlaces
  PerDatacenter = 1
  PerCity = 2
  PerCountry = 2
  Selectors <- SelectorChoices
  ExitLists <- ServedLists
  Resends = 2
  MaxKeys = 2
  None = None
  MaxMessages = 3
  MaxQueue = 1
  MaxPackets = 2
  MaxLost = 2
  MaxLostAwake = 1
  BUSY = 2
  IDLE = 4
  MinPeriod = 2
  MaxPeriod = 5
  Window = 2
INVARIANTS LosersAreStopped NeverStuckWithoutExit TunnelFitsHandshake RelayChannelIsOrderly AnsweringNetworkIsKept SilenceIsNoticed
PROPERTY BestRelayWins
