SPECIFICATION AcceptingSpec
CONSTANTS
  None = None
  MAX_PEERS = 1
  PROTOCOL_VERSION = 1
  Versions = {1}
  Addrs = {a1}
  KeyboardSnapshots = {noKeys}
  NoKeys = noKeys
  ConsumerStates = {noUsage}
  NoUsage = noUsage
  LedBits = {}
  ContactIds = {c1, c2}
  Positions = {p}
  MAX_TOUCH_CONTACTS = 2
  Handles = {h1}
  MaxConnections = 1
  Frames <- HostFrames
  Faults = {"backpressure", "error"}
  MaxEvents = 2
  MaxTx = 2
INVARIANT QuietShowsFingers
PROPERTIES PendingTouchDrains LinkLossNoticed
