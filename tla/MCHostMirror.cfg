SPECIFICATION HostSpec
CONSTANTS
  None = None
  MAX_PEERS = 2
  PROTOCOL_VERSION = 1
  Versions = {1}
  Addrs = {a1, a2}
  KeyboardSnapshots = {noKeys}
  NoKeys = noKeys
  ConsumerStates = {noUsage}
  NoUsage = noUsage
  LedBits = {led}
  MaxTx = 4
  HANDSHAKE_RETRIES = 1
  Faults = {"host_restart", "firmware_restart"}
  MaxRx = 1
  MaxHostTx = 1
INVARIANTS MirrorExact ForwardsToSomebody CursorFollows
SYMMETRY Symmetry
