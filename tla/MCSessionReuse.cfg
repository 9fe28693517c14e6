SPECIFICATION Spec
CONSTANTS
  None = None
  MAX_PEERS = 2
  PROTOCOL_VERSION = 1
  Versions = {1, 2}
  Addrs = {a1, a2}
  KeyboardSnapshots = {noKeys}
  NoKeys = noKeys
  ConsumerStates = {noUsage}
  NoUsage = noUsage
  LedBits = {led}
  ContactIds = {}
  Positions = {p}
  MAX_TOUCH_CONTACTS = 1
  Handles = {h1, h2}
  MaxConnections = 2
  Frames = {}
  Faults = {"reuse", "backpressure", "error", "advertising", "uart"}
  MaxEvents = 3
  MaxTx = 2
INVARIANTS TypeOK ActivePeerKnown DistinctHandles PeerTableTracksLinks
PROPERTY ImplementsSwitch
CHECK_DEADLOCK FALSE
