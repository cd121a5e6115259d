SPECIFICATION Spec
CONSTANTS
  Passwords = {first, second}
  Legacy = first
  NoPassword = NoPassword
  Clients = {a}
  Nobody = Nobody
  MaxSessions = 2
  Lifetime = 0
  MaxClock = 1
  MaxAccountFaults = 2
  Self = self
  Guests = {p, q}
  MaxAttempts = 5
  Ttl = 2
  MaxGroups = 2
  MaxGroupFaults = 2
  Ring = 3
  MaxLines = 1
  MaxEvents = 6
  MaxLogFaults = 2
  Names = {was, is}
  States = {seed, cool}
  NoState = NoState
  Placeholder = seed
  MaxOutbox = 2
  MaxMqttFaults = 3
  Nets = {home, other}
  NoNet = NoNet
  Open = Open
  Retries = 5
  MaxWifiFaults = 3
  MaxImage = 2
  MaxResets = 2
  Peers = {neighbour}
  Looks = {"off", "heats", "held"}
  Trusted = 3
  MaxQueue = 1
  MaxViewFaults = 2
INVARIANTS
  NoLockout
  SessionsBacked
  AccountsKept
  MemberOfOwnGroup
  AnswersNewest
  NeverRepeats
  GhostsGoOffline
  Resynced
  StationPersists
  ShownTruthfully
  WayBack
  GroupSeenTruthfully
PROPERTIES
  OneUpdater
  RollsBack
  PipelineFreed
  CodeKeepsPromise
  GroupTold
CHECK_DEADLOCK FALSE
