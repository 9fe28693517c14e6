SPECIFICATION HostSpec
CONSTANTS
  None = None
  MAX_PEERS = 1
  PROTOCOL_VERSION = 1
  Versions = {1}
  Addrs = {a1}
  KeyboardSnapshots = {noKeys}
  NoKeys = noKeys
  ConsumerStates = {noUsage}
  NoUsage = noUsage
  LedBits = {}
  MaxTx = 4
  HANDSHAKE_RETRIES = 1
  Faults = {"unplug"}
  MaxRx = 2
  MaxHostTx = 1
INVARIANT FallbackSticks
