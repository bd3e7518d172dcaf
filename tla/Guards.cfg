SPECIFICATION MCSpec
CONSTANTS
  Senders = {s1, s2, s3}
  Stamps <- MCStamps
  Window = 1
  Ttl = 2
  MaxNoncesPerPeer = 2
  MaxNoncePeers = 2
  MaxClock = 3
  MaxArrivals = 6
  Sources = {r1, r2, r3}
  MaxPerSec = 2
  MaxRatePeers = 1
  Second = 2
  MaxRateClock = 4
  Tids = {t1, t2, t3}
  Sizes <- MCSizes
  ChunkSizes = {0, 2}
  Totals = {1, 2}
  Limits = {2, 4}
  MaxPendingTransfers = 2
  MaxPendingBytes = 5
  BytesPerChunk = 2
  SpareChunks = 1
  TransferTtl = 1
  Sweep = 1
  Legacy <- MCLegacy
  Phrases <- MCPhrases
  None = None
  Bad = Bad
  MaxKeys = 2
  MaxFaults = 2
  MaxMisreads = 0
  Hosts = {ann, ben}
  MaxSent = 2
  MaxGroupKeys = 2
INVARIANTS
  AtMostOnce
  RateHeld
  PendingTrue
  SecretsComeBack
  TextsHold
PROPERTIES
  GrowsByTheHeard
  RecentSurvive
  Implements
  PlaintextGoesLast
CHECK_DEADLOCK FALSE
