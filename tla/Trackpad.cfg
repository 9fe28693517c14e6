SPECIFICATION FairPathSpec
CONSTANTS
  None = None
  MAX_PEERS = 2
  PROTOCOL_VERSION = 1
  Versions = {1}
  Addrs = {a1}
  KeyboardSnapshots = {noKeys}
  NoKeys = noKeys
  ConsumerStates = {noUsage}
  NoUsage = noUsage
  LedBits = {}
  Fingers = {f1}
  MaxTx = 2
  MaxControl = 1
INVARIANTS PathTypeOK FrameReachesTarget
PROPERTIES TouchCatchesUp LiftsLostOnly
