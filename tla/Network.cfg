SPECIFICATION FairSpec
CONSTANTS
  Nics <- MCNics
  Messages <- MCMessages
  Src <- MCSrc
  Dst <- MCDst
  Packets <- MCPackets
  Capacity = 2
CHECK_DEADLOCK FALSE
INVARIANTS PlacesAccounted CongestedIffBlocked WholeMessages
PROPERTIES BlockedGoFirst ImplementsTransport
