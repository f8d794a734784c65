CONSTANTS
  Consumer = {c1, c2}
  MaxQueueSize = 2
  MaxPuts = 4
  MaxVersion = 1
SPECIFICATION FairSpec
INVARIANTS
  TypeOK
  Conservation
  NoLostWakeup
  LatestInOrder
PROPERTIES
  ShutdownReleases
  ImplementsLossyChannel
