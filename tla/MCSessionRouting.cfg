SPECIFICATION Spec
CONSTANTS
  None = None
  MAX_PEERS = 2
  PROTOCOL_VERSION = 1
  Versions = {1}
  Addrs = {a1, a2}
  KeyboardSnapshots = {noKeys, k1}
  NoKeys = noKeys
  ConsumerStates = {noUsage, u1}
  NoUsage = noUsage
  LedBits = {}
  ContactIds = {c1, c2}
  Positions = {p}
  MAX_TOUCH_CONTACTS = 2
  Handles = {h1, h2}
  MaxConnections = 2
  Frames <- HostFrames
  Faults = {}
  MaxEvents = 2
  MaxTx = 2
INVARIANTS IdlePeersReleased ActivePeerUpToDate NoPhantomContact
PROPERTIES NoFingerGetsStuck SwitchForgetsInput
SYMMETRY Interchangeable
