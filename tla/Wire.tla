-------------------------------- MODULE Wire --------------------------------
(***************************************************************************)
(* protocol/src/wire.rs: the messages of the host <-> firmware UART link.  *)
(* A message is a record named by `type'.  What it carries is what the two *)
(* sides decide by: slots, versions and addresses.  Keyboard and consumer  *)
(* snapshots are opaque values, NoKeys and NoUsage the released ones.      *)
(***************************************************************************)
EXTENDS Integers

CONSTANTS MAX_PEERS, PROTOCOL_VERSION,
          Versions,           \* the versions a host may say hello with
          Addrs,              \* BLE addresses of the peers
          KeyboardSnapshots, NoKeys,
          ConsumerStates, NoUsage,
          LedBits,
          None                \* Option::None

Slots == 0 .. MAX_PEERS - 1

(* A slot on the wire is a u8; MAX_PEERS stands for those out of range.    *)
SlotNumbers == 0 .. MAX_PEERS

PeerDescriptor == [slot : Slots, addr : Addrs]

ASSUME WireAssumption ==
  /\ MAX_PEERS \in 1 .. 255
  /\ PROTOCOL_VERSION \in Versions
  /\ NoKeys \in KeyboardSnapshots
  /\ NoUsage \in ConsumerStates
  /\ None \notin Int \cup Addrs \cup PeerDescriptor

(* An empty place of a peer array is Option::None.                         *)
PeerSnapshot ==
  [peers : [Slots -> PeerDescriptor \cup {None}], active_slot : Slots \cup {None}]

HelloAckMsg            == [type |-> "HelloAck", version |-> PROTOCOL_VERSION, max_peers |-> MAX_PEERS]
PeerSnapshotMsg(s)     == [type |-> "PeerSnapshot", snapshot |-> s]
PeerConnectedMsg(p)    == [type |-> "PeerConnected", peer |-> p]
PeerDisconnectedMsg(s) == [type |-> "PeerDisconnected", slot |-> s]
ActivePeerChangedMsg(s) == [type |-> "ActivePeerChanged", slot |-> s]
LedStateMsg(b)         == [type |-> "LedState", bits |-> b]
UnsupportedVersionMsg(v) == [type |-> "UnsupportedProtocolVersion",
                             expected |-> PROTOCOL_VERSION, received |-> v]
InvalidPeerSlotMsg(s)  == [type |-> "InvalidPeerSlot", slot |-> s]

HelloMsg(v)             == [type |-> "Hello", version |-> v]
SelectPeerMsg(s)        == [type |-> "SelectPeer", slot |-> s]

(* The messages from the host that steer the switch; the three that carry  *)
(* input are one here.                                                     *)
InputMsg == [type |-> "Input"]

ControlMsg ==
  [type : {"Hello"}, version : Versions]
    \cup [type : {"SelectPeer"}, slot : SlotNumbers \cup {None}]
    \cup {InputMsg}

ProtocolError ==
  [type : {"UnsupportedProtocolVersion"}, expected : {PROTOCOL_VERSION}, received : Versions]
    \cup [type : {"InvalidPeerSlot"}, slot : SlotNumbers]

FirmwareMsg ==
  [type : {"HelloAck"}, version : {PROTOCOL_VERSION}, max_peers : {MAX_PEERS}]
    \cup [type : {"PeerSnapshot"}, snapshot : PeerSnapshot]
    \cup [type : {"PeerConnected"}, peer : PeerDescriptor]
    \cup [type : {"PeerDisconnected"}, slot : Slots]
    \cup [type : {"ActivePeerChanged"}, slot : Slots \cup {None}]
    \cup [type : {"LedState"}, bits : LedBits]
    \cup ProtocolError
=============================================================================
