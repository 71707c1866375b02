SPECIFICATION Spec
CONSTANTS
  none = none
  SlotPeers = {alice, bob, carol}  Trusted = {carol}  Known = {alice}  MaxOutbound = 1  MaxInbound = 1  MaxDials = 1
  MaxBackoffs = 1  MaxPending = 1  MaxConnects = 4  LateDial = FALSE  RemoveTwice = FALSE  PlainErrors = FALSE
  PeerIds = {alice, bob}  Requests = {r1, r2, r3}  Headers = {r1}  High = {r2}  MaxSessions = 2  ChannelFull = FALSE
  headers = headers  bodies = bodies
  Hashes = {t1, t2}  FetchPeers = {alice, bob}  MaxRetries = 1  MaxInflight = 2  MaxMessages = 4
  Txs = {t1, t2, b1}  Blobs = {b1}  GossipPeers = {alice, bob}  MaxHashes = 3  MaxFull = 2  MaxGossip = 2
  MixedBatches = FALSE  HashesTo = FALSE
  EmptyAnswers = FALSE  FullChannel = FALSE  Departed = FALSE  BudgetSpent = FALSE  Refused = FALSE
INVARIANTS
  HashesTracked SessionSound DiscoverySound
PROPERTIES
  SlotsSound RequestsTracked ToldOnce NetworkProgress
CHECK_DEADLOCK FALSE
