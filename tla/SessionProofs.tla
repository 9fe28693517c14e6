---------------------------- MODULE SessionProofs ----------------------------
(***************************************************************************)
(* What TLAPS proves about the firmware session, for any number of peers,  *)
(* connections, contacts and hosts' messages, and whatever goes wrong.     *)
(***************************************************************************)
EXTENDS Session, EncoderLemmas, SequenceTheorems

-----------------------------------------------------------------------------
(* The messages the session sends are messages of the wire.                *)

LEMMA SnapshotType ==
  ASSUME TypeOK
  PROVE  Snapshot \in PeerSnapshot
  <1>1. \A s \in Slots : peers[s] # None => peers[s].addr \in Addrs
    BY DEF TypeOK, Optional, PeerSlot
  <1>2. [s \in Slots |-> IF peers[s] = None THEN None ELSE [slot |-> s, addr |-> peers[s].addr]]
          \in [Slots -> PeerDescriptor \cup {None}]
    BY <1>1 DEF PeerDescriptor
  <1>3. active_slot \in Slots \cup {None}
    BY DEF TypeOK, Optional
  <1> QED
    BY <1>2, <1>3 DEF Snapshot, PeerSnapshot

LEMMA MessageTypes ==
  /\ HelloAckMsg \in FirmwareMsg
  /\ \A s \in PeerSnapshot : PeerSnapshotMsg(s) \in FirmwareMsg
  /\ \A p \in PeerDescriptor : PeerConnectedMsg(p) \in FirmwareMsg
  /\ \A s \in Slots : PeerDisconnectedMsg(s) \in FirmwareMsg
  /\ \A s \in Slots \cup {None} : ActivePeerChangedMsg(s) \in FirmwareMsg
  /\ \A b \in LedBits : LedStateMsg(b) \in FirmwareMsg
  /\ \A v \in Versions : UnsupportedVersionMsg(v) \in FirmwareMsg
  /\ \A s \in SlotNumbers : InvalidPeerSlotMsg(s) \in FirmwareMsg
  BY DEF HelloAckMsg, PeerSnapshotMsg, PeerConnectedMsg, PeerDisconnectedMsg, ActivePeerChangedMsg,
         LedStateMsg, UnsupportedVersionMsg, InvalidPeerSlotMsg, FirmwareMsg, ProtocolError

LEMMA TellType ==
  ASSUME TypeOK, NEW msgs \in Seq(FirmwareMsg), Post(msgs) \/ Tell(msgs)
  PROVE  tx' \in Seq(FirmwareMsg)
  <1>1. tx \in Seq(FirmwareMsg)
    BY DEF TypeOK
  <1>2. tx' = tx \o msgs \/ tx' = tx
    BY DEF Post, Tell
  <1> QED
    BY <1>1, <1>2, ConcatProperties

LEMMA TellOne ==
  ASSUME TypeOK, NEW m \in FirmwareMsg, Tell(<<m>>)
  PROVE  tx' \in Seq(FirmwareMsg)
  <1>1. <<m>> \in Seq(FirmwareMsg)
    OBVIOUS
  <1> QED
    BY <1>1, TellType

LEMMA TellTwo ==
  ASSUME TypeOK, NEW m \in FirmwareMsg, NEW n \in FirmwareMsg, Post(<<m, n>>) \/ Tell(<<m, n>>)
  PROVE  tx' \in Seq(FirmwareMsg)
  <1>1. <<m, n>> \in Seq(FirmwareMsg)
    OBVIOUS
  <1> QED
    BY <1>1, TellType

LEMMA HandleType ==
  ASSUME TypeOK
  PROVE  ActiveConnHandle \in Handles \cup {None}
  BY DEF TypeOK, Optional, ActiveConnHandle, PeerSlot

LEMMA NoFrameType == NoFrame \in TouchFrame
  <1>1. Bounded(NoContacts)
    BY NoContactsIsMap, FS_EmptySet, EncoderAssumption DEF Bounded, EncoderAssumption
  <1> QED
    BY <1>1, NoContactsIsMap DEF NoFrame, TouchFrame

LEMMA ResetType ==
  ASSUME ResetInputState
  PROVE  /\ keyboard' \in KeyboardSnapshots /\ consumer' \in ConsumerStates
         /\ latest_touch' \in TouchFrame /\ touch_dirty' \in BOOLEAN
         /\ touch' \in ContactMap /\ pacing' \in BOOLEAN
  BY NoFrameType, NoContactsIsMap, WireAssumption DEF ResetInputState, ResetTouch, WireAssumption

LEMMA ClearType ==
  ASSUME TypeOK, ClearActiveOutputs
  PROVE  shown' \in [Handles -> View]
  <1>1. CASE ActiveConnHandle = None
    BY <1>1 DEF ClearActiveOutputs, TypeOK
  <1>2. CASE ActiveConnHandle # None
    <2>1. ActiveConnHandle \in Handles /\ ClearOutputsFor(ActiveConnHandle)
      BY <1>2, HandleType DEF ClearActiveOutputs
    <2> DEFINE h == ActiveConnHandle
    <2>2. PICK k, c, t \in Delivered(h) :
            shown' = [shown EXCEPT ![h] =
                        [keyboard |-> IF k THEN NoKeys ELSE @.keyboard,
                         consumer |-> IF c THEN NoUsage ELSE @.consumer,
                         down     |-> IF t THEN PeerDown(@.down, NoContacts) ELSE @.down,
                         button   |-> IF t THEN FALSE ELSE @.button]]
      BY <2>1 DEF ClearOutputsFor
    <2>3. shown \in [Handles -> View] /\ shown[h] \in View
      BY <2>1 DEF TypeOK
    <2> HIDE DEF h
    <2>5. PeerDown(shown[h].down, NoContacts) = shown[h].down
      BY NoContactsIsMap DEF PeerDown, Touching
    <2>4. [keyboard |-> IF k THEN NoKeys ELSE shown[h].keyboard,
           consumer |-> IF c THEN NoUsage ELSE shown[h].consumer,
           down     |-> IF t THEN PeerDown(shown[h].down, NoContacts) ELSE shown[h].down,
           button   |-> IF t THEN FALSE ELSE shown[h].button] \in View
      BY <2>3, <2>5, WireAssumption DEF View, WireAssumption
    <2> QED
      BY <2>2, <2>3, <2>4
  <1> QED
    BY <1>1, <1>2

-----------------------------------------------------------------------------
(* Type correctness.                                                       *)

LEMMA TypeInit == Init => TypeOK
  <1> SUFFICES ASSUME Init PROVE TypeOK
    OBVIOUS
  <1>1. Released \in View
    BY WireAssumption DEF Released, View, WireAssumption
  <1>2. NoKeys \in KeyboardSnapshots /\ NoUsage \in ConsumerStates
    BY WireAssumption DEF WireAssumption
  <1>3. events \in Seq(BleEvent) /\ tx \in Seq(FirmwareMsg)
    BY DEF Init
  <1>4. /\ conns \in [Handles -> Optional(Addrs)]
        /\ peers \in [Slots -> Optional(PeerSlot)]
        /\ active_slot \in Optional(Slots)
        /\ shown \in [Handles -> View]
    BY <1>1 DEF Init, Optional
  <1> QED
    BY <1>2, <1>3, <1>4, NoFrameType, NoContactsIsMap DEF Init, TypeOK

(* The BLE stack.                                                          *)
LEMMA TypeBle ==
  ASSUME TypeOK, Ble PROVE TypeOK'
  <1>0. events \in Seq(BleEvent) /\ shown \in [Handles -> View] /\ Released \in View
    BY WireAssumption DEF TypeOK, Released, View, WireAssumption
  <1>1. ASSUME NEW h \in Handles, NEW a \in Addrs, PeerConnects(h, a) PROVE TypeOK'
    <2>1. events' \in Seq(BleEvent) /\ advertising' \in BOOLEAN
      <3>1. [type |-> "Connected", conn_handle |-> h, addr |-> a] \in BleEvent
        BY DEF BleEvent
      <3> QED
        BY <1>0, <1>1, <3>1, AppendProperties DEF PeerConnects, OnConnect
    <2>2. conns' \in [Handles -> Optional(Addrs)]
      BY <1>1 DEF PeerConnects, TypeOK, Optional
    <2> QED
      BY <1>1, <2>1, <2>2 DEF PeerConnects, TypeOK, peerVars, inputVars, touchVars
  <1>2. ASSUME NEW h \in Handles, PeerDrops(h) PROVE TypeOK'
    <2>1. events' \in Seq(BleEvent)
      <3>1. [type |-> "Disconnected", conn_handle |-> h] \in BleEvent
        BY DEF BleEvent
      <3> QED
        BY <1>0, <1>2, <3>1, AppendProperties DEF PeerDrops, OnDisconnect
    <2>2. conns' \in [Handles -> Optional(Addrs)] /\ shown' \in [Handles -> View]
          /\ advertising' \in BOOLEAN
      BY <1>0, <1>2 DEF PeerDrops, TypeOK, Optional
    <2> QED
      BY <1>2, <2>1, <2>2 DEF PeerDrops, TypeOK, peerVars, inputVars, touchVars
  <1>3. ASSUME NEW bits \in LedBits, PeerWritesLeds(bits) PROVE TypeOK'
    <2>1. [type |-> "LedState", bits |-> bits] \in BleEvent
      BY DEF BleEvent
    <2>2. events' \in Seq(BleEvent)
      BY <1>0, <1>3, <2>1, AppendProperties DEF PeerWritesLeds
    <2> QED
      BY <1>3, <2>2 DEF PeerWritesLeds, TypeOK, peerVars, inputVars, touchVars
  <1> QED
    BY <1>1, <1>2, <1>3 DEF Ble

(* handle_ble_event.                                                       *)
LEMMA DrainType ==
  ASSUME TypeOK, NEW type, Drain(type)
  PROVE  /\ Head(events) \in BleEvent /\ Head(events).type = type
         /\ events' \in Seq(BleEvent)
  <1>1. events \in Seq(BleEvent) /\ events # <<>> /\ events' = Tail(events)
    BY DEF TypeOK, Drain
  <1> QED
    BY <1>1, HeadTailProperties DEF Drain

LEMMA TypeHandleBleEvent ==
  ASSUME TypeOK, HandleBleEvent PROVE TypeOK'
  <1>1. CASE HandleConnected
    <2> DEFINE h == Head(events).conn_handle
               a == Head(events).addr
    <2>1. /\ events' \in Seq(BleEvent) /\ h \in Handles /\ a \in Addrs
          /\ UNCHANGED <<conns, advertising, host_ready, pc, window, shown>>
      BY <1>1, DrainType DEF HandleConnected, Drain, BleEvent
    <2>2. /\ UNCHANGED <<active_slot, inputVars>>
          /\ \/ \E s \in Slots :
                  /\ peers' = [peers EXCEPT ![s] = [conn_handle |-> h, addr |-> a]]
                  /\ Tell(<<PeerConnectedMsg([slot |-> s, addr |-> a])>>)
             \/ UNCHANGED <<peers, tx>>
      BY <1>1 DEF HandleConnected
    <2> HIDE DEF h, a
    <2>3. CASE UNCHANGED <<peers, tx>>
      BY <2>1, <2>2, <2>3 DEF TypeOK, inputVars, touchVars
    <2>4. ASSUME NEW s \in Slots,
                 peers' = [peers EXCEPT ![s] = [conn_handle |-> h, addr |-> a]],
                 Tell(<<PeerConnectedMsg([slot |-> s, addr |-> a])>>)
          PROVE  TypeOK'
      <3>1. peers' \in [Slots -> Optional(PeerSlot)]
        BY <2>1, <2>4 DEF TypeOK, Optional, PeerSlot
      <3>2. tx' \in Seq(FirmwareMsg)
        <4>1. [slot |-> s, addr |-> a] \in PeerDescriptor
          BY <2>1 DEF PeerDescriptor
        <4>2. PeerConnectedMsg([slot |-> s, addr |-> a]) \in FirmwareMsg
          BY <4>1, MessageTypes
        <4> QED
          BY <2>4, <4>2, TellOne
      <3> QED
        BY <2>1, <2>2, <3>1, <3>2 DEF TypeOK, inputVars, touchVars
    <2> QED
      BY <2>2, <2>3, <2>4
  <1>2. CASE HandleDisconnected
    <2>1. /\ events' \in Seq(BleEvent)
          /\ UNCHANGED <<conns, advertising, host_ready, pc, window, shown>>
      BY <1>2, DrainType DEF HandleDisconnected, Drain
    <2>2. CASE UNCHANGED <<peers, active_slot, inputVars, tx>>
      BY <2>1, <2>2 DEF TypeOK, inputVars, touchVars
    <2>3. ASSUME NEW s \in Slots,
                 peers' = [peers EXCEPT ![s] = None],
                 IF active_slot = s
                   THEN /\ active_slot' = None
                        /\ ResetInputState
                        /\ Tell(<<PeerDisconnectedMsg(s), ActivePeerChangedMsg(None)>>)
                   ELSE /\ UNCHANGED <<active_slot, inputVars>>
                        /\ Tell(<<PeerDisconnectedMsg(s)>>)
          PROVE  TypeOK'
      <3>1. peers' \in [Slots -> Optional(PeerSlot)]
        BY <2>3 DEF TypeOK, Optional
      <3>2. PeerDisconnectedMsg(s) \in FirmwareMsg /\ ActivePeerChangedMsg(None) \in FirmwareMsg
        BY MessageTypes
      <3>3. tx' \in Seq(FirmwareMsg)
        BY <2>3, <3>2, TellOne, TellTwo
      <3>4. CASE active_slot = s
        <4>1. active_slot' \in Optional(Slots)
          BY <2>3, <3>4 DEF Optional
        <4> QED
          BY <2>1, <2>3, <3>1, <3>3, <3>4, <4>1, ResetType DEF TypeOK
      <3>5. CASE active_slot # s
        BY <2>1, <2>3, <3>1, <3>3, <3>5 DEF TypeOK, inputVars, touchVars
      <3> QED
        BY <3>4, <3>5
    <2> QED
      BY <1>2, <2>2, <2>3 DEF HandleDisconnected
  <1>3. CASE HandleLedState
    <2>1. /\ events' \in Seq(BleEvent) /\ Head(events).bits \in LedBits
          /\ UNCHANGED <<conns, advertising, host_ready, pc, window, shown>>
      BY <1>3, DrainType DEF HandleLedState, Drain, BleEvent
    <2>2. tx' \in Seq(FirmwareMsg)
      BY <1>3, <2>1, MessageTypes, TellOne DEF HandleLedState
    <2> QED
      BY <1>3, <2>1, <2>2 DEF HandleLedState, TypeOK, inputVars, touchVars
  <1> QED
    BY <1>1, <1>2, <1>3 DEF HandleBleEvent

(* flush_touch_if_due.                                                     *)
LEMMA TypeFlush ==
  ASSUME TypeOK, EventsDrained \/ Flush \/ PacingElapses PROVE TypeOK'
  <1>1. CASE EventsDrained
    BY <1>1 DEF EventsDrained, TypeOK, bleVars, peerVars, inputVars, touchVars
  <1>2. CASE FlushSkipped
    BY <1>2 DEF FlushSkipped, TypeOK, bleVars, peerVars, inputVars, touchVars
  <1>3. CASE FlushUnlinked
    BY <1>3, NoContactsIsMap DEF FlushUnlinked, TypeOK, bleVars, peerVars
  <1>4. CASE FlushDue
    BY <1>4 DEF FlushDue, TypeOK, bleVars, peerVars, inputVars, touchVars
  <1>5. CASE PacingElapses
    BY <1>5 DEF PacingElapses, TypeOK, bleVars, peerVars
  <1> QED
    BY <1>1, <1>2, <1>3, <1>4, <1>5 DEF Flush

(* Reading a report leaves a peer with contacts on its surface.            *)
LEMMA PeerDownType ==
  ASSUME NEW down \in SUBSET ContactIds, NEW report \in ContactMap
  PROVE  PeerDown(down, report) \in SUBSET ContactIds
  BY ContactMapElim DEF PeerDown, Touching

LEMMA SentType ==
  ASSUME TypeOK, NEW h \in Handles, NEW report \in ContactMap, NEW tracked, Sent(h, report, tracked)
  PROVE  shown' \in [Handles -> View]
  <1>1. shown \in [Handles -> View] /\ shown[h].down \in SUBSET ContactIds
    BY DEF TypeOK, View
  <1>2. latest_touch.button \in BOOLEAN
    BY DEF TypeOK, TouchFrame
  <1>3. PeerDown(shown[h].down, report) \in SUBSET ContactIds
    BY <1>1, PeerDownType
  <1>4. [shown[h] EXCEPT !.down = PeerDown(shown[h].down, report),
                         !.button = latest_touch.button] \in View
    BY <1>1, <1>2, <1>3 DEF View
  <1>5. shown' = [shown EXCEPT ![h].down = PeerDown(shown[h].down, report),
                               ![h].button = latest_touch.button]
    BY DEF Sent
  <1> QED
    BY <1>1, <1>4, <1>5

(* A notification is tried only on the connection of the active peer.      *)
LEMMA TypeNotify ==
  ASSUME TypeOK, ActiveConnHandle # None, Notify PROVE TypeOK'
  <1> DEFINE frame == latest_touch.contacts
             h     == ActiveConnHandle
  <1>1. touch \in ContactMap /\ frame \in ContactMap /\ h \in Handles
    BY HandleType DEF TypeOK, TouchFrame
  <1>2. PICK fresh \in FreshChoices(touch, frame) :
          IF Report(touch, frame, fresh) = NoContacts
            THEN NothingToReport(NextTracked(touch, frame, fresh))
            ELSE \/ Sent(h, Report(touch, frame, fresh), NextTracked(touch, frame, fresh))
                 \/ Refused(h, NextTracked(touch, frame, fresh))
                 \/ Failed(h)
    BY DEF Notify
  <1>3. Report(touch, frame, fresh) \in ContactMap /\ NextTracked(touch, frame, fresh) \in ContactMap
    BY <1>1, ReportType, NextTrackedType
  <1>4. /\ touch' \in ContactMap /\ touch_dirty' \in BOOLEAN /\ pacing' \in BOOLEAN
    BY <1>2, <1>3, NoContactsIsMap DEF NothingToReport, Sent, Refused, Failed, TypeOK
  <1>5. shown' \in [Handles -> View]
    <2>1. CASE shown' = shown
      BY <2>1 DEF TypeOK
    <2>2. CASE Sent(h, Report(touch, frame, fresh), NextTracked(touch, frame, fresh))
      BY <1>1, <1>3, <2>2, SentType
    <2> QED
      BY <1>2, <2>1, <2>2 DEF NothingToReport, Refused, Failed
  <1> QED
    BY <1>4, <1>5 DEF Notify, TypeOK, bleVars, peerVars

(* The read loop and handle_host_msg.                                      *)
LEMMA TypeRead ==
  ASSUME TypeOK, ReadBytes \/ ReadTimesOut \/ ReadFails \/ WindowEmpty PROVE TypeOK'
  BY DEF ReadBytes, ReadTimesOut, ReadFails, WindowEmpty, TypeOK, bleVars, peerVars, inputVars,
         touchVars

LEMMA TypeUartTx ==
  ASSUME TypeOK, UartTx PROVE TypeOK'
  <1>1. tx' \in Seq(FirmwareMsg)
    BY HeadTailProperties DEF UartTx, TypeOK
  <1> QED
    BY <1>1 DEF UartTx, TypeOK, bleVars, peerVars, inputVars, touchVars

LEMMA TypeHello ==
  ASSUME TypeOK, NEW v \in Versions, Hello(v) PROVE TypeOK'
  <1>1. tx' \in Seq(FirmwareMsg)
    <2>1. /\ HelloAckMsg \in FirmwareMsg /\ PeerSnapshotMsg(Snapshot) \in FirmwareMsg
          /\ UnsupportedVersionMsg(v) \in FirmwareMsg
      BY SnapshotType, MessageTypes
    <2>2. <<UnsupportedVersionMsg(v)>> \in Seq(FirmwareMsg)
      BY <2>1
    <2> QED
      BY <2>1, <2>2, TellTwo, TellType DEF Hello
  <1> QED
    BY <1>1 DEF Hello, Decoded, TypeOK, bleVars, inputVars, touchVars

LEMMA TypeSelect ==
  ASSUME TypeOK, SelectPeer PROVE TypeOK'
  <1>1. CASE SelectNone
    <2>1. tx' \in Seq(FirmwareMsg)
      BY <1>1, MessageTypes, TellOne DEF SelectNone
    <2> QED
      BY <1>1, <2>1, ClearType, ResetType DEF SelectNone, Decoded, TypeOK, bleVars, Optional
  <1>2. ASSUME NEW slot \in SlotNumbers, SelectInvalid(slot) PROVE TypeOK'
    <2>1. tx' \in Seq(FirmwareMsg)
      BY <1>2, MessageTypes, TellOne DEF SelectInvalid
    <2> QED
      BY <1>2, <2>1 DEF SelectInvalid, Decoded, TypeOK, bleVars, peerVars, inputVars, touchVars
  <1>3. ASSUME NEW slot \in SlotNumbers, SelectSame(slot) PROVE TypeOK'
    BY <1>3 DEF SelectSame, Decoded, TypeOK, bleVars, peerVars, inputVars, touchVars
  <1>4. ASSUME NEW slot \in SlotNumbers, SelectOther(slot) PROVE TypeOK'
    <2>1. slot \in Slots
      BY <1>4 DEF SelectOther, Selectable
    <2>2. tx' \in Seq(FirmwareMsg)
      BY <1>4, <2>1, MessageTypes, TellOne DEF SelectOther
    <2>3. active_slot' \in Optional(Slots)
      BY <1>4, <2>1 DEF SelectOther, Optional
    <2> QED
      BY <1>4, <2>2, <2>3, ClearType, ResetType DEF SelectOther, Decoded, TypeOK, bleVars
  <1> QED
    BY <1>1, <1>2, <1>3, <1>4 DEF SelectPeer

LEMMA TypeInput ==
  ASSUME TypeOK,
         \/ InputIgnored
         \/ \E k \in KeyboardSnapshots : KeyboardState(k)
         \/ \E c \in ConsumerStates : ConsumerState(c)
         \/ \E f \in Frames : TouchFrameMsg(f)
  PROVE  TypeOK'
  <1> DEFINE h == ActiveConnHandle
  <1>1. CASE InputIgnored
    BY <1>1 DEF InputIgnored, Decoded, TypeOK, bleVars, peerVars, inputVars, touchVars
  <1>2. ASSUME NEW k \in KeyboardSnapshots, KeyboardState(k) PROVE TypeOK'
    <2>1. h \in Handles
      BY <1>2, HandleType DEF KeyboardState
    <2>2. PICK ok \in Delivered(h) :
            shown' = [shown EXCEPT ![h].keyboard = IF ok THEN k ELSE shown[h].keyboard]
      BY <1>2, <2>1 DEF KeyboardState
    <2>3. shown' \in [Handles -> View]
      BY <2>1, <2>2 DEF TypeOK, View
    <2> QED
      BY <1>2, <2>3 DEF KeyboardState, Decoded, TypeOK, bleVars, peerVars, touchVars
  <1>3. ASSUME NEW c \in ConsumerStates, ConsumerState(c) PROVE TypeOK'
    <2>1. h \in Handles
      BY <1>3, HandleType DEF ConsumerState
    <2>2. PICK ok \in Delivered(h) :
            shown' = [shown EXCEPT ![h].consumer = IF ok THEN c ELSE shown[h].consumer]
      BY <1>3, <2>1 DEF ConsumerState
    <2>3. shown' \in [Handles -> View]
      BY <2>1, <2>2 DEF TypeOK, View
    <2> QED
      BY <1>3, <2>3 DEF ConsumerState, Decoded, TypeOK, bleVars, peerVars, touchVars
  <1>4. ASSUME NEW f \in Frames, TouchFrameMsg(f) PROVE TypeOK'
    BY <1>4, SessionAssumption DEF TouchFrameMsg, Decoded, TypeOK, bleVars, peerVars,
                                   SessionAssumption
  <1> QED
    BY <1>1, <1>2, <1>3, <1>4

-----------------------------------------------------------------------------
(* The inductive invariant.  Type correctness alone is not inductive: a    *)
(* notification goes to the connection that the flush found, so that one   *)
(* must still be there -- no other step may touch the peers in between.    *)

NotifyTargeted == pc = "notify" => ActiveConnHandle # None

SafeInv == TypeOK /\ ActivePeerKnown /\ NotifyTargeted

(* The steps that change neither the peers nor the active slot.            *)
Unrouted ==
  \/ Ble \/ HandleLedState \/ EventsDrained \/ Flush \/ Notify \/ PacingElapses
  \/ ReadBytes \/ ReadTimesOut \/ ReadFails \/ WindowEmpty \/ UartTx
  \/ (\E v \in Versions : Hello(v)) \/ InputIgnored
  \/ (\E s \in KeyboardSnapshots : KeyboardState(s)) \/ (\E b \in ConsumerStates : ConsumerState(b))
  \/ (\E f \in Frames : TouchFrameMsg(f))
  \/ (\E slot \in SlotNumbers : SelectInvalid(slot) \/ SelectSame(slot))

LEMMA NextCases ==
  Next <=> \/ Unrouted
           \/ HandleConnected \/ HandleDisconnected
           \/ SelectNone \/ \E slot \in SlotNumbers : SelectOther(slot)
  BY DEF Next, Unrouted, HandleBleEvent, HandleHostMsg, SelectPeer

LEMMA UnroutedKeeps ==
  ASSUME Unrouted
  PROVE  UNCHANGED <<peers, active_slot>>
  BY DEF Unrouted, Ble, PeerConnects, PeerDrops, PeerWritesLeds, HandleLedState, Drain,
         EventsDrained, Flush, FlushSkipped, FlushUnlinked, FlushDue, Notify, PacingElapses,
         ReadBytes, ReadTimesOut, ReadFails, WindowEmpty, UartTx, Hello, InputIgnored,
         KeyboardState, ConsumerState, TouchFrameMsg, SelectInvalid, SelectSame, Decoded,
         peerVars, inputVars

LEMMA TypeStep == SafeInv /\ [Next]_vars => TypeOK'
  <1> SUFFICES ASSUME SafeInv, [Next]_vars PROVE TypeOK'
    OBVIOUS
  <1>1. TypeOK
    BY DEF SafeInv
  <1>2. CASE Notify
    <2>1. ActiveConnHandle # None
      BY <1>2 DEF SafeInv, NotifyTargeted, Notify
    <2> QED
      BY <1>1, <1>2, <2>1, TypeNotify
  <1>3. CASE UNCHANGED vars
    BY <1>1, <1>3 DEF vars, TypeOK, bleVars, peerVars, inputVars, touchVars
  <1>4. CASE HandleHostMsg
    BY <1>1, <1>4, TypeHello, TypeSelect, TypeInput DEF HandleHostMsg
  <1> QED
    BY <1>1, <1>2, <1>3, <1>4, TypeBle, TypeHandleBleEvent, TypeFlush, TypeRead, TypeUartTx DEF Next

LEMMA KnownStep == SafeInv /\ [Next]_vars => ActivePeerKnown'
  <1> SUFFICES ASSUME SafeInv, [Next]_vars PROVE ActivePeerKnown'
    OBVIOUS
  <1>1. /\ peers \in [Slots -> Optional(PeerSlot)] /\ active_slot \in Optional(Slots)
        /\ active_slot # None => peers[active_slot] # None
    BY DEF SafeInv, TypeOK, ActivePeerKnown
  <1>2. CASE Unrouted \/ UNCHANGED vars
    <2>1. UNCHANGED <<peers, active_slot>>
      BY <1>2, UnroutedKeeps DEF vars, peerVars
    <2> QED
      BY <1>1, <2>1 DEF ActivePeerKnown
  <1>3. CASE HandleConnected
    <2>1. active_slot' = active_slot
      BY <1>3 DEF HandleConnected
    <2>2. \/ peers' = peers
          \/ \E s \in Slots : \E p \in PeerSlot : peers' = [peers EXCEPT ![s] = p]
      <3> DEFINE p == [conn_handle |-> Head(events).conn_handle, addr |-> Head(events).addr]
      <3>1. p \in PeerSlot
        BY <1>3, DrainType DEF SafeInv, HandleConnected, BleEvent, PeerSlot
      <3>2. peers' = peers \/ \E s \in Slots : peers' = [peers EXCEPT ![s] = p]
        BY <1>3 DEF HandleConnected
      <3> HIDE DEF p
      <3> QED
        BY <3>1, <3>2
    <2>3. None \notin PeerSlot
      BY SessionAssumption DEF SessionAssumption
    <2>4. ASSUME NEW s \in Slots, NEW p \in PeerSlot, peers' = [peers EXCEPT ![s] = p],
                 active_slot # None
          PROVE  peers'[active_slot] # None
      BY <1>1, <2>3, <2>4 DEF Optional
    <2> QED
      BY <1>1, <2>1, <2>2, <2>4 DEF ActivePeerKnown
  <1>4. CASE HandleDisconnected
    <2>1. \/ peers' = peers /\ active_slot' = active_slot
          \/ \E s \in Slots :
               /\ peers' = [peers EXCEPT ![s] = None]
               /\ active_slot' = IF active_slot = s THEN None ELSE active_slot
      BY <1>4 DEF HandleDisconnected
    <2> QED
      BY <1>1, <2>1 DEF ActivePeerKnown, Optional
  <1>5. CASE SelectNone
    BY <1>5 DEF SelectNone, ActivePeerKnown
  <1>6. ASSUME NEW slot \in SlotNumbers, SelectOther(slot) PROVE ActivePeerKnown'
    BY <1>6 DEF SelectOther, Selectable, ActivePeerKnown
  <1> QED
    BY <1>2, <1>3, <1>4, <1>5, <1>6, NextCases

LEMMA TargetedStep == SafeInv /\ [Next]_vars => NotifyTargeted'
  <1> SUFFICES ASSUME SafeInv, [Next]_vars, pc' = "notify" PROVE (ActiveConnHandle # None)'
    BY DEF NotifyTargeted
  <1>1. CASE Unrouted \/ UNCHANGED vars
    <2>1. UNCHANGED <<peers, active_slot>>
      BY <1>1, UnroutedKeeps DEF vars, peerVars
    <2>2. ActiveConnHandle' = ActiveConnHandle
      BY <2>1 DEF ActiveConnHandle
    <2>3. ActiveConnHandle # None
      <3>1. CASE pc = "notify"
        BY <3>1 DEF SafeInv, NotifyTargeted
      <3>2. CASE pc # "notify"
        <4>1. FlushDue
          BY <1>1, <3>2 DEF Unrouted, Ble, PeerConnects, PeerDrops, PeerWritesLeds, HandleLedState,
             Drain, EventsDrained, Flush, FlushSkipped, FlushUnlinked, Notify, PacingElapses,
             ReadBytes, ReadTimesOut, ReadFails, WindowEmpty, UartTx, Hello, InputIgnored,
             KeyboardState, ConsumerState, TouchFrameMsg, SelectInvalid, SelectSame, Decoded, vars
        <4> QED
          BY <4>1 DEF FlushDue, Waiting
      <3> QED
        BY <3>1, <3>2
    <2> QED
      BY <2>2, <2>3
  <1>2. CASE HandleConnected \/ HandleDisconnected
    BY <1>2 DEF HandleConnected, HandleDisconnected, Drain
  <1>3. CASE SelectNone \/ \E slot \in SlotNumbers : SelectOther(slot)
    BY <1>3 DEF SelectNone, SelectOther, Decoded
  <1> QED
    BY <1>1, <1>2, <1>3, NextCases

LEMMA SafeInit == Init => SafeInv
  BY TypeInit DEF Init, SafeInv, ActivePeerKnown, NotifyTargeted

LEMMA SafeInvariant == Spec => []SafeInv
  <1>1. SafeInv /\ [Next]_vars => SafeInv'
    BY TypeStep, KnownStep, TargetedStep DEF SafeInv
  <1> QED
    BY <1>1, SafeInit, PTL DEF Spec

(* Every variable keeps its type, whatever hosts send and peers do.        *)
THEOREM TypeCorrect == Spec => []TypeOK
  <1>1. SafeInv => TypeOK
    BY DEF SafeInv
  <1> QED
    BY <1>1, SafeInvariant, PTL

(* The active slot always holds a peer: active_conn_handle() never reads   *)
(* an empty one, and input is never routed to a slot that was freed.       *)
THEOREM ActivePeerAlwaysKnown == Spec => []ActivePeerKnown
  <1>1. SafeInv => ActivePeerKnown
    BY DEF SafeInv
  <1> QED
    BY <1>1, SafeInvariant, PTL

-----------------------------------------------------------------------------
(* A new active peer starts from nothing, whatever the old one was sent.   *)

THEOREM SwitchAlwaysForgetsInput == Spec => SwitchForgetsInput
  <1>1. [Next]_vars =>
          [active_slot' # active_slot =>
             /\ ~touch_dirty' /\ latest_touch' = NoFrame /\ touch' = NoContacts
             /\ keyboard' = NoKeys /\ consumer' = NoUsage]_vars
    <2> SUFFICES ASSUME [Next]_vars, active_slot' # active_slot
                 PROVE  ResetInputState
      BY DEF ResetInputState, ResetTouch
    <2>1. CASE Unrouted \/ HandleConnected \/ UNCHANGED vars
      BY <2>1, UnroutedKeeps DEF HandleConnected, vars, peerVars
    <2>2. CASE HandleDisconnected
      BY <2>2 DEF HandleDisconnected
    <2>3. CASE SelectNone \/ \E slot \in SlotNumbers : SelectOther(slot)
      BY <2>3 DEF SelectNone, SelectOther
    <2> QED
      BY <2>1, <2>2, <2>3, NextCases
  <1> QED
    BY <1>1, PTL DEF Spec, SwitchForgetsInput

-----------------------------------------------------------------------------
(* The refinement.  Under the mapping, a slot of the switch is free when   *)
(* the session's is; the rest is that every handler is one of its actions, *)
(* or a stutter.                                                           *)

LEMMA PeerAddrsFree ==
  ASSUME TypeOK, NEW s \in Slots
  PROVE  /\ PeerAddrs[s] = None <=> peers[s] = None
         /\ peers[s] # None => PeerAddrs[s] = peers[s].addr
  <1>1. peers[s] # None => peers[s].addr \in Addrs
    BY DEF TypeOK, Optional, PeerSlot
  <1> QED
    BY <1>1, WireAssumption DEF PeerAddrs, WireAssumption

(* The switch speaks of the same slots and messages.                       *)
LEMMA SameWire ==
  /\ Switch!Slots = Slots /\ Switch!SlotNumbers = SlotNumbers
  /\ Switch!HelloAckMsg = HelloAckMsg
  /\ \A x : /\ Switch!PeerSnapshotMsg(x) = PeerSnapshotMsg(x)
            /\ Switch!PeerConnectedMsg(x) = PeerConnectedMsg(x)
            /\ Switch!PeerDisconnectedMsg(x) = PeerDisconnectedMsg(x)
            /\ Switch!ActivePeerChangedMsg(x) = ActivePeerChangedMsg(x)
            /\ Switch!LedStateMsg(x) = LedStateMsg(x)
            /\ Switch!UnsupportedVersionMsg(x) = UnsupportedVersionMsg(x)
            /\ Switch!InvalidPeerSlotMsg(x) = InvalidPeerSlotMsg(x)
  BY DEF Slots, SlotNumbers, HelloAckMsg, PeerSnapshotMsg, PeerConnectedMsg, PeerDisconnectedMsg,
         ActivePeerChangedMsg, LedStateMsg, UnsupportedVersionMsg, InvalidPeerSlotMsg,
         Switch!Slots, Switch!SlotNumbers, Switch!HelloAckMsg, Switch!PeerSnapshotMsg,
         Switch!PeerConnectedMsg, Switch!PeerDisconnectedMsg, Switch!ActivePeerChangedMsg,
         Switch!LedStateMsg, Switch!UnsupportedVersionMsg, Switch!InvalidPeerSlotMsg

LEMMA SameSnapshot ==
  ASSUME TypeOK
  PROVE  Switch!Snapshot = Snapshot
  <1>1. \A s \in Slots : (IF PeerAddrs[s] = None THEN None ELSE [slot |-> s, addr |-> PeerAddrs[s]])
                       = (IF peers[s] = None THEN None ELSE [slot |-> s, addr |-> peers[s].addr])
    BY PeerAddrsFree
  <1> QED
    BY <1>1, SameWire DEF Snapshot, Switch!Snapshot

LEMMA SameTell == \A msgs : (Switch!Tell(msgs) <=> Tell(msgs)) /\ (Switch!Post(msgs) <=> Post(msgs))
  BY DEF Tell, Post, Switch!Tell, Switch!Post

LEMMA SameSelectable ==
  ASSUME TypeOK, NEW slot
  PROVE  Switch!Selectable(slot) <=> Selectable(slot)
  BY PeerAddrsFree, SameWire DEF Selectable, Switch!Selectable

LEMMA PeerAddrsChange ==
  ASSUME TypeOK, NEW s \in Slots, NEW p, peers' = [peers EXCEPT ![s] = p]
  PROVE  PeerAddrs' = [PeerAddrs EXCEPT ![s] = IF p = None THEN None ELSE p.addr]
  <1>1. peers \in [Slots -> Optional(PeerSlot)]
    BY DEF TypeOK
  <1> QED
    BY <1>1 DEF PeerAddrs

LEMMA ConnectedIsJoin ==
  ASSUME TypeOK, HandleConnected
  PROVE  Switch!Next \/ UNCHANGED Switch!switchVars
  <1> DEFINE h == Head(events).conn_handle
             a == Head(events).addr
  <1>1. CASE UNCHANGED <<peers, tx>>
    BY <1>1 DEF HandleConnected, Drain, PeerAddrs, Switch!switchVars
  <1>2. ASSUME NEW s \in Slots, FirstFreeSlot(s),
               peers' = [peers EXCEPT ![s] = [conn_handle |-> h, addr |-> a]],
               Tell(<<PeerConnectedMsg([slot |-> s, addr |-> a])>>)
        PROVE  Switch!Next
    <2>1. a \in Addrs /\ UNCHANGED <<host_ready, active_slot>>
      BY DrainType DEF HandleConnected, Drain, BleEvent
    <2>2. [conn_handle |-> h, addr |-> a] \in PeerSlot
      BY <2>1, DrainType DEF HandleConnected, BleEvent, PeerSlot
    <2>3. [conn_handle |-> h, addr |-> a] # None
      BY <2>2, SessionAssumption DEF SessionAssumption
    <2> HIDE DEF h, a
    <2>4. PeerAddrs' = [PeerAddrs EXCEPT ![s] = a]
      <3> DEFINE p == [conn_handle |-> h, addr |-> a]
      <3>1. p # None /\ p.addr = a /\ peers' = [peers EXCEPT ![s] = p]
        BY <1>2, <2>3
      <3> HIDE DEF p
      <3> QED
        BY <3>1, PeerAddrsChange
    <2>5. PeerAddrs[s] = None
      BY <1>2, PeerAddrsFree DEF FirstFreeSlot
    <2>6. Switch!Join(s, a)
      BY <1>2, <2>1, <2>4, <2>5, SameTell, SameWire DEF Switch!Join
    <2> QED
      BY <2>1, <2>6, SameWire DEF Switch!Next, Switch!PeersChange
  <1> QED
    BY <1>1, <1>2 DEF HandleConnected

LEMMA DisconnectedIsLeave ==
  ASSUME TypeOK, HandleDisconnected
  PROVE  Switch!Next \/ UNCHANGED Switch!switchVars
  <1>0. host_ready' = host_ready
    BY DEF HandleDisconnected, Drain
  <1>1. CASE UNCHANGED <<peers, active_slot, inputVars, tx>>
    BY <1>0, <1>1 DEF PeerAddrs, Switch!switchVars
  <1>2. ASSUME NEW s \in Slots, SlotForConnHandle(s, Head(events).conn_handle),
               peers' = [peers EXCEPT ![s] = None],
               IF active_slot = s
                 THEN /\ active_slot' = None
                      /\ ResetInputState
                      /\ Tell(<<PeerDisconnectedMsg(s), ActivePeerChangedMsg(None)>>)
                 ELSE /\ UNCHANGED <<active_slot, inputVars>>
                      /\ Tell(<<PeerDisconnectedMsg(s)>>)
        PROVE  Switch!Next
    <2>1. PeerAddrs' = [PeerAddrs EXCEPT ![s] = None]
      BY <1>2, PeerAddrsChange
    <2>2. PeerAddrs[s] # None
      BY <1>2, PeerAddrsFree DEF SlotForConnHandle, HasHandle
    <2>3. Switch!Leave(s)
      BY <1>0, <1>2, <2>1, <2>2, SameTell, SameWire DEF Switch!Leave
    <2> QED
      BY <2>3, SameWire DEF Switch!Next, Switch!PeersChange
  <1> QED
    BY <1>1, <1>2 DEF HandleDisconnected

LEMMA HelloIsHello ==
  ASSUME TypeOK, NEW v \in Versions, Hello(v)
  PROVE  Switch!Next
  <1>1. UNCHANGED <<peers, active_slot>> /\ PeerAddrs' = PeerAddrs
    BY DEF Hello, PeerAddrs
  <1>2. Switch!Hello(v)
    BY <1>1, SameTell, SameWire, SameSnapshot DEF Hello, Switch!Hello
  <1> QED
    BY <1>2 DEF Switch!Next

LEMMA SelectIsSelect ==
  ASSUME TypeOK, SelectPeer
  PROVE  Switch!Next
  <1>1. UNCHANGED <<host_ready, peers>> /\ PeerAddrs' = PeerAddrs
    BY DEF SelectPeer, SelectNone, SelectInvalid, SelectSame, SelectOther, PeerAddrs, peerVars
  <1>2. CASE SelectNone
    <2>1. Switch!Select(None)
      BY <1>1, <1>2, SameTell, SameWire DEF SelectNone, Switch!Select
    <2> QED
      BY <2>1, SameWire DEF Switch!Next
  <1>3. ASSUME NEW slot \in SlotNumbers, SelectInvalid(slot) \/ SelectSame(slot) \/ SelectOther(slot)
        PROVE  Switch!Next
    <2>1. slot # None
      BY WireAssumption DEF WireAssumption, SlotNumbers
    <2>2. Switch!Selectable(slot) <=> Selectable(slot)
      BY SameSelectable
    <2>3. Switch!Select(slot)
      BY <1>1, <1>3, <2>1, <2>2, SameTell, SameWire
         DEF SelectInvalid, SelectSame, SelectOther, Switch!Select, peerVars
    <2> QED
      BY <2>3, SameWire DEF Switch!Next
  <1> QED
    BY <1>2, <1>3 DEF SelectPeer

LEMMA SwitchInit == Init => Switch!Init
  BY SameWire DEF Init, Switch!Init, PeerAddrs

LEMMA SwitchStep == TypeOK /\ [Next]_vars => [Switch!Next]_(Switch!switchVars)
  <1> SUFFICES ASSUME TypeOK, [Next]_vars PROVE [Switch!Next]_(Switch!switchVars)
    OBVIOUS
  <1>1. CASE HandleLedState
    <2>1. Head(events).bits \in LedBits
      BY <1>1, DrainType DEF HandleLedState, BleEvent
    <2>2. Switch!TellLeds(Head(events).bits)
      BY <1>1, SameTell, SameWire DEF HandleLedState, Drain, PeerAddrs, Switch!TellLeds
    <2> QED
      BY <2>1, <2>2 DEF Switch!Next
  <1>2. CASE UartTx
    <2>1. Switch!Deliver
      BY <1>2 DEF UartTx, peerVars, PeerAddrs, Switch!Deliver
    <2> QED
      BY <2>1 DEF Switch!Next
  <1>3. CASE UNCHANGED <<host_ready, peers, active_slot, tx>>
    BY <1>3 DEF PeerAddrs, Switch!switchVars
  <1>4. \/ HandleConnected \/ HandleDisconnected \/ HandleLedState \/ UartTx
        \/ (\E v \in Versions : Hello(v)) \/ SelectPeer
        \/ UNCHANGED <<host_ready, peers, active_slot, tx>>
    BY DEF Next, vars, peerVars, Ble, PeerConnects, PeerDrops, PeerWritesLeds, HandleBleEvent,
       EventsDrained, Flush, FlushSkipped, FlushUnlinked, FlushDue, Notify, PacingElapses,
       ReadBytes, ReadTimesOut, ReadFails, WindowEmpty, HandleHostMsg, Decoded,
       InputIgnored, KeyboardState, ConsumerState, TouchFrameMsg
  <1> QED
    BY <1>1, <1>2, <1>3, <1>4, ConnectedIsJoin, DisconnectedIsLeave, HelloIsHello, SelectIsSelect

(* The session is a switch: behind every interleaving of peers, loop and   *)
(* transmit task, its host sees a table of slots with one active, and      *)
(* every change of it told once, in order.                                 *)
THEOREM SessionImplementsSwitch == Spec => ImplementsSwitch
  BY SwitchInit, SwitchStep, TypeCorrect, PTL DEF Spec, ImplementsSwitch, Switch!Spec

-----------------------------------------------------------------------------
(* No connection holds two slots.  That depends on the queue between the   *)
(* stack and the loop, because the stack may give a handle out again while *)
(* the loop still has the old connection in a slot: between two            *)
(* connections of a handle there is always its disconnection, and one is   *)
(* on its way whenever the handle is down but the loop does not know.      *)

Connects(e, h)    == e.type = "Connected" /\ e.conn_handle = h
Disconnects(e, h) == e.type = "Disconnected" /\ e.conn_handle = h

DropBetweenConnects ==
  \A h \in Handles : \A i, j \in 1 .. Len(events) :
    i < j /\ Connects(events[i], h) /\ Connects(events[j], h) =>
      \E k \in 1 .. Len(events) : i < k /\ k < j /\ Disconnects(events[k], h)

DropBeforeReuse ==
  \A h \in Handles, s \in Slots : \A j \in 1 .. Len(events) :
    HasHandle(s, h) /\ Connects(events[j], h) =>
      \E k \in 1 .. Len(events) : k < j /\ Disconnects(events[k], h)

DropOnItsWay ==
  \A h \in Handles : ~Linked(h) =>
    /\ \A i \in 1 .. Len(events) : Connects(events[i], h) =>
         \E k \in 1 .. Len(events) : i < k /\ Disconnects(events[k], h)
    /\ \A s \in Slots : HasHandle(s, h) =>
         \E k \in 1 .. Len(events) : Disconnects(events[k], h)

QueueInv == DistinctHandles /\ DropBetweenConnects /\ DropBeforeReuse /\ DropOnItsWay

LEMMA QueueInit == Init => QueueInv
  BY DEF Init, QueueInv, DistinctHandles, DropBetweenConnects, DropBeforeReuse, DropOnItsWay,
         HasHandle

(* A step of the stack appends an event.                                   *)
LEMMA QueueBle ==
  ASSUME TypeOK, QueueInv, Ble PROVE QueueInv'
  <1> DEFINE n == Len(events)
  <1>0. events \in Seq(BleEvent) /\ conns \in [Handles -> Optional(Addrs)] /\ n \in Nat
    BY DEF TypeOK
  <1> DEFINE What(e) ==
        \/ \E h \in Handles : /\ Connects(e, h) /\ ~Linked(h)
                              /\ \A g \in Handles : g # h => conns'[g] = conns[g]
                              /\ conns'[h] # None
        \/ \E h \in Handles : /\ Disconnects(e, h)
                              /\ \A g \in Handles : g # h => conns'[g] = conns[g]
        \/ e.type = "LedState" /\ conns' = conns
  <1>1. peers' = peers /\ \E e \in BleEvent : events' = Append(events, e) /\ What(e)
    <2>1. ASSUME NEW h \in Handles, NEW a \in Addrs, PeerConnects(h, a)
          PROVE  \E e \in BleEvent : events' = Append(events, e) /\ What(e)
      <3> DEFINE e == [type |-> "Connected", conn_handle |-> h, addr |-> a]
      <3>1. e \in BleEvent /\ events' = Append(events, e)
        BY <2>1 DEF BleEvent, PeerConnects, OnConnect
      <3>2. Connects(e, h) /\ ~Linked(h) /\ conns' = [conns EXCEPT ![h] = a] /\ a # None
        BY <2>1, WireAssumption DEF Connects, PeerConnects, WireAssumption
      <3>3. What(e)
        BY <1>0, <3>2
      <3> QED
        BY <3>1, <3>3
    <2>2. ASSUME NEW h \in Handles, PeerDrops(h)
          PROVE  \E e \in BleEvent : events' = Append(events, e) /\ What(e)
      <3> DEFINE e == [type |-> "Disconnected", conn_handle |-> h]
      <3>1. e \in BleEvent /\ events' = Append(events, e)
        BY <2>2 DEF BleEvent, PeerDrops, OnDisconnect
      <3>2. Disconnects(e, h) /\ conns' = [conns EXCEPT ![h] = None]
        BY <2>2 DEF Disconnects, PeerDrops
      <3>3. What(e)
        BY <1>0, <3>2
      <3> QED
        BY <3>1, <3>3
    <2>3. ASSUME NEW bits \in LedBits, PeerWritesLeds(bits)
          PROVE  \E e \in BleEvent : events' = Append(events, e) /\ What(e)
      <3> DEFINE e == [type |-> "LedState", bits |-> bits]
      <3>1. e \in BleEvent /\ events' = Append(events, e) /\ What(e)
        BY <2>3 DEF BleEvent, PeerWritesLeds
      <3> QED
        BY <3>1
    <2>4. peers' = peers
      BY DEF Ble, PeerConnects, PeerDrops, PeerWritesLeds, peerVars
    <2> HIDE DEF What
    <2> QED
      BY <2>1, <2>2, <2>3, <2>4 DEF Ble
  <1>2. PICK e \in BleEvent : events' = Append(events, e) /\ What(e)
    BY <1>1
  <1>3. /\ Len(events') = n + 1 /\ events'[n + 1] = e
        /\ \A i \in 1 .. n : events'[i] = events[i]
    BY <1>0, <1>2, AppendProperties
  <1>4. \A s \in Slots, h \in Handles : HasHandle(s, h)' <=> HasHandle(s, h)
    BY <1>1 DEF HasHandle
  <1>5. \A h \in Handles : Connects(e, h) => ~Linked(h)
    BY <1>2 DEF Connects, Disconnects
  <1>6. \A h \in Handles : ~Linked(h)' /\ ~Disconnects(e, h) => ~Linked(h) /\ ~Connects(e, h)
    BY <1>2 DEF Connects, Disconnects, Linked
  <1>7. DistinctHandles'
    BY <1>1 DEF QueueInv, DistinctHandles
  <1>8. DropBetweenConnects'
    BY <1>0, <1>3, <1>5 DEF QueueInv, DropBetweenConnects, DropOnItsWay
  <1>9. DropBeforeReuse'
    BY <1>0, <1>3, <1>4, <1>5 DEF QueueInv, DropBeforeReuse, DropOnItsWay
  <1>10. DropOnItsWay'
    <2> HIDE DEF n, What
    <2>1. ASSUME NEW h \in Handles, ~Linked(h)'
          PROVE  /\ \A i \in 1 .. n + 1 : Connects(events'[i], h) =>
                      \E k \in 1 .. n + 1 : i < k /\ Disconnects(events'[k], h)
                 /\ \A s \in Slots : HasHandle(s, h) =>
                      \E k \in 1 .. n + 1 : Disconnects(events'[k], h)
      <3>1. CASE Disconnects(e, h)
        <4>1. ~Connects(e, h)
          BY <3>1 DEF Connects, Disconnects
        <4> QED
          BY <1>0, <1>3, <3>1, <4>1
      <3>2. CASE ~Disconnects(e, h)
        <4>1. ~Linked(h) /\ ~Connects(e, h)
          BY <1>6, <2>1, <3>2
        <4>2. /\ \A i \in 1 .. n : Connects(events[i], h) =>
                    \E k \in 1 .. n : i < k /\ Disconnects(events[k], h)
              /\ \A s \in Slots : HasHandle(s, h) =>
                    \E k \in 1 .. n : Disconnects(events[k], h)
          BY <4>1 DEF QueueInv, DropOnItsWay, n
        <4>3. ASSUME NEW i \in 1 .. n + 1, Connects(events'[i], h)
              PROVE  \E k \in 1 .. n + 1 : i < k /\ Disconnects(events'[k], h)
          <5>1. i \in 1 .. n /\ Connects(events[i], h)
            BY <1>0, <1>3, <4>1, <4>3
          <5>2. PICK k \in 1 .. n : i < k /\ Disconnects(events[k], h)
            BY <4>2, <5>1
          <5>3. k \in 1 .. n + 1 /\ Disconnects(events'[k], h)
            BY <1>0, <1>3, <5>2
          <5> QED
            BY <5>2, <5>3
        <4>4. ASSUME NEW s \in Slots, HasHandle(s, h)
              PROVE  \E k \in 1 .. n + 1 : Disconnects(events'[k], h)
          <5>1. PICK k \in 1 .. n : Disconnects(events[k], h)
            BY <4>2, <4>4
          <5>2. k \in 1 .. n + 1 /\ Disconnects(events'[k], h)
            BY <1>0, <1>3, <5>1
          <5> QED
            BY <5>2
        <4> QED
          BY <4>3, <4>4
      <3> QED
        BY <3>1, <3>2
    <2>2. Len(events') = n + 1
      BY <1>3
    <2> QED
      BY <1>4, <2>1, <2>2 DEF DropOnItsWay
  <1> QED
    BY <1>7, <1>8, <1>9, <1>10 DEF QueueInv

(* The loop takes the oldest event.  A slot that holds a handle afterwards *)
(* held it before or got it from this event, and never if this event says  *)
(* that the handle is gone.                                                *)
LEMMA HandlesAfterEvent ==
  ASSUME TypeOK, QueueInv, HandleBleEvent, NEW r \in Slots, NEW g \in Handles, HasHandle(r, g)'
  PROVE  /\ HasHandle(r, g) \/ Connects(Head(events), g)
         /\ ~Disconnects(Head(events), g)
  <1> DEFINE h == Head(events).conn_handle
             a == Head(events).addr
  <1>0. peers \in [Slots -> Optional(PeerSlot)] /\ None \notin PeerSlot
    BY SessionAssumption DEF TypeOK, SessionAssumption
  <1>1. CASE HandleConnected
    <2>1. Head(events).type = "Connected"
      BY <1>1, DrainType DEF HandleConnected
    <2>2. \/ peers' = peers
          \/ \E s \in Slots : peers' = [peers EXCEPT ![s] = [conn_handle |-> h, addr |-> a]]
      BY <1>1 DEF HandleConnected
    <2>3. HasHandle(r, g) \/ g = h
      BY <1>0, <2>2 DEF HasHandle
    <2> QED
      BY <2>1, <2>3 DEF Connects, Disconnects
  <1>2. CASE HandleDisconnected
    <2>1. Head(events).type = "Disconnected"
      BY <1>2, DrainType DEF HandleDisconnected
    <2>2. \/ peers' = peers /\ \A s \in Slots : ~SlotForConnHandle(s, h)
          \/ \E s \in Slots : SlotForConnHandle(s, h) /\ peers' = [peers EXCEPT ![s] = None]
      BY <1>2 DEF HandleDisconnected
    <2>3. HasHandle(r, g)
      BY <1>0, <2>2 DEF HasHandle
    <2>4. CASE peers' = peers
      <3>1. ASSUME g = h PROVE \E s \in Slots : SlotForConnHandle(s, h)
        <4>1. \A s \in Slots : s # r => ~HasHandle(s, g)
          BY <2>3 DEF QueueInv, DistinctHandles, HasHandle
        <4>2. SlotForConnHandle(r, g)
          BY <2>3, <4>1 DEF SlotForConnHandle, Slots
        <4> QED
          BY <3>1, <4>2
      <3>2. g # h
        <4>1. CASE \A s \in Slots : ~SlotForConnHandle(s, h)
          BY <3>1, <4>1
        <4>2. ASSUME NEW s \in Slots, SlotForConnHandle(s, h), peers' = [peers EXCEPT ![s] = None]
              PROVE  g # h
          BY <1>0, <2>4, <4>2 DEF SlotForConnHandle, HasHandle
        <4> QED
          BY <2>2, <4>1, <4>2
      <3> QED
        BY <2>3, <3>2 DEF Disconnects
    <2>5. ASSUME NEW s \in Slots, SlotForConnHandle(s, h), peers' = [peers EXCEPT ![s] = None]
          PROVE  g # h
      <3>1. r # s
        BY <1>0, <2>5 DEF HasHandle
      <3> QED
        BY <2>3, <2>5, <3>1 DEF QueueInv, DistinctHandles, SlotForConnHandle, HasHandle
    <2> QED
      BY <2>2, <2>3, <2>4, <2>5 DEF Disconnects
  <1>3. CASE HandleLedState
    <2>1. Head(events).type = "LedState" /\ peers' = peers
      BY <1>3, DrainType DEF HandleLedState
    <2> QED
      BY <2>1 DEF Disconnects, HasHandle
  <1> QED
    BY <1>1, <1>2, <1>3 DEF HandleBleEvent

LEMMA DistinctAfterEvent ==
  ASSUME TypeOK, QueueInv, HandleBleEvent
  PROVE  DistinctHandles'
  <1> DEFINE h == Head(events).conn_handle
             a == Head(events).addr
  <1>0. /\ peers \in [Slots -> Optional(PeerSlot)] /\ None \notin PeerSlot
        /\ DistinctHandles
    BY SessionAssumption DEF TypeOK, SessionAssumption, QueueInv
  <1>1. CASE HandleConnected
    <2>1. events \in Seq(BleEvent) /\ events # <<>> /\ h \in Handles /\ Connects(events[1], h)
      BY <1>1, DrainType DEF TypeOK, HandleConnected, Drain, Connects, BleEvent
    <2>2. \A r \in Slots : ~HasHandle(r, h)
      BY <2>1 DEF QueueInv, DropBeforeReuse
    <2>3. \/ peers' = peers
          \/ \E s \in Slots : peers' = [peers EXCEPT ![s] = [conn_handle |-> h, addr |-> a]]
      BY <1>1 DEF HandleConnected
    <2> QED
      BY <1>0, <2>2, <2>3 DEF DistinctHandles, HasHandle
  <1>2. CASE HandleDisconnected \/ HandleLedState
    <2>1. peers' = peers \/ \E s \in Slots : peers' = [peers EXCEPT ![s] = None]
      BY <1>2 DEF HandleDisconnected, HandleLedState
    <2> QED
      BY <1>0, <2>1 DEF DistinctHandles
  <1> QED
    BY <1>1, <1>2 DEF HandleBleEvent

LEMMA QueueEvent ==
  ASSUME TypeOK, QueueInv, HandleBleEvent
  PROVE  QueueInv'
  <1> DEFINE n == Len(events)
  <1>1. /\ events \in Seq(BleEvent) /\ n \in Nat \ {0} /\ conns' = conns
        /\ Head(events) = events[1]
        /\ Len(events') = n - 1
        /\ \A i \in 1 .. n - 1 : events'[i] = events[i + 1]
    <2>1. events # <<>> /\ events' = Tail(events) /\ conns' = conns
      BY DEF HandleBleEvent, HandleConnected, HandleDisconnected, HandleLedState, Drain
    <2>2. events \in Seq(BleEvent)
      BY DEF TypeOK
    <2> QED
      BY <2>1, <2>2, HeadTailProperties
  <1>2. \A i \in 1 .. n - 1 : i + 1 \in 1 .. n
    BY <1>1
  <1>3. \A k \in 2 .. n : k - 1 \in 1 .. n - 1 /\ events'[k - 1] = events[k]
    <2>1. ASSUME NEW k \in 2 .. n PROVE k - 1 \in 1 .. n - 1 /\ (k - 1) + 1 = k
      BY <1>1
    <2> QED
      BY <1>1, <2>1
  <1>4. \A r \in Slots, g \in Handles : HasHandle(r, g)' =>
          /\ HasHandle(r, g) \/ Connects(events[1], g)
          /\ ~Disconnects(events[1], g)
    BY <1>1, HandlesAfterEvent
  <1> HIDE DEF n
  <1>5. DropBetweenConnects'
    <2>1. ASSUME NEW g \in Handles, NEW i \in 1 .. n - 1, NEW j \in 1 .. n - 1, i < j,
                 Connects(events'[i], g), Connects(events'[j], g)
          PROVE  \E k \in 1 .. n - 1 : i < k /\ k < j /\ Disconnects(events'[k], g)
      <3>1. PICK k \in 1 .. n : i + 1 < k /\ k < j + 1 /\ Disconnects(events[k], g)
        <4>1. /\ i + 1 \in 1 .. n /\ j + 1 \in 1 .. n /\ i + 1 < j + 1
              /\ Connects(events[i + 1], g) /\ Connects(events[j + 1], g)
          BY <1>1, <1>2, <2>1
        <4> QED
          BY <4>1 DEF QueueInv, DropBetweenConnects, n
      <3>2. k \in 2 .. n /\ i < k - 1 /\ k - 1 < j
        BY <1>1, <3>1
      <3> QED
        BY <1>3, <3>1, <3>2
    <2> QED
      BY <1>1, <2>1 DEF DropBetweenConnects
  <1>6. DropBeforeReuse'
    <2>1. ASSUME NEW g \in Handles, NEW s \in Slots, NEW j \in 1 .. n - 1,
                 HasHandle(s, g)', Connects(events'[j], g)
          PROVE  \E k \in 1 .. n - 1 : k < j /\ Disconnects(events'[k], g)
      <3>1. Connects(events[j + 1], g) /\ j + 1 \in 1 .. n /\ 1 \in 1 .. n /\ 1 < j + 1
        BY <1>1, <1>2, <2>1
      <3>2. PICK k \in 1 .. n : k < j + 1 /\ Disconnects(events[k], g) /\ k # 1
        <4>1. CASE HasHandle(s, g)
          BY <1>4, <2>1, <3>1, <4>1 DEF QueueInv, DropBeforeReuse, n
        <4>2. CASE Connects(events[1], g)
          BY <3>1, <4>2 DEF QueueInv, DropBetweenConnects, n
        <4> QED
          BY <1>4, <2>1, <4>1, <4>2
      <3>3. k \in 2 .. n /\ k - 1 < j
        BY <1>1, <3>2
      <3> QED
        BY <1>3, <3>2, <3>3
    <2> QED
      BY <1>1, <2>1 DEF DropBeforeReuse
  <1>7. DropOnItsWay'
    <2>1. ASSUME NEW g \in Handles, ~Linked(g)', NEW i \in 1 .. n - 1, Connects(events'[i], g)
          PROVE  \E k \in 1 .. n - 1 : i < k /\ Disconnects(events'[k], g)
      <3>1. ~Linked(g) /\ Connects(events[i + 1], g)
        BY <1>1, <2>1 DEF Linked
      <3>2. PICK k \in 1 .. n : i + 1 < k /\ Disconnects(events[k], g)
        BY <1>2, <3>1 DEF QueueInv, DropOnItsWay, n
      <3>3. k \in 2 .. n /\ i < k - 1
        BY <1>1, <3>2
      <3> QED
        BY <1>3, <3>2, <3>3
    <2>2. ASSUME NEW g \in Handles, ~Linked(g)', NEW s \in Slots, HasHandle(s, g)'
          PROVE  \E k \in 1 .. n - 1 : Disconnects(events'[k], g)
      <3>1. ~Linked(g) /\ 1 \in 1 .. n
        BY <1>1, <2>2 DEF Linked
      <3>2. PICK k \in 1 .. n : Disconnects(events[k], g) /\ k # 1
        <4>1. CASE HasHandle(s, g)
          BY <1>4, <2>2, <3>1, <4>1 DEF QueueInv, DropOnItsWay, n
        <4>2. CASE Connects(events[1], g)
          BY <3>1, <4>2 DEF QueueInv, DropOnItsWay, n
        <4> QED
          BY <1>4, <2>2, <4>1, <4>2
      <3>3. k \in 2 .. n
        BY <1>1, <3>2
      <3> QED
        BY <1>3, <3>2, <3>3
    <2> QED
      BY <1>1, <2>1, <2>2 DEF DropOnItsWay
  <1> QED
    BY <1>5, <1>6, <1>7, DistinctAfterEvent DEF QueueInv

LEMMA QueueStep == TypeOK /\ QueueInv /\ [Next]_vars => QueueInv'
  <1> SUFFICES ASSUME TypeOK, QueueInv, [Next]_vars PROVE QueueInv'
    OBVIOUS
  <1>1. Ble \/ HandleBleEvent \/ UNCHANGED <<conns, events, peers>>
    BY DEF Next, EventsDrained, Flush, FlushSkipped, FlushUnlinked, FlushDue, Notify, PacingElapses,
       ReadBytes, ReadTimesOut, ReadFails, WindowEmpty, HandleHostMsg, SelectPeer, SelectNone,
       SelectInvalid, SelectSame, SelectOther, Hello, InputIgnored, KeyboardState, ConsumerState,
       TouchFrameMsg, Decoded, UartTx, vars, bleVars, peerVars
  <1>2. CASE UNCHANGED <<conns, events, peers>>
    BY <1>2 DEF QueueInv, DistinctHandles, DropBetweenConnects, DropBeforeReuse, DropOnItsWay,
                HasHandle, Linked
  <1> QED
    BY <1>1, <1>2, QueueBle, QueueEvent

LEMMA QueueInvariant == Spec => []QueueInv
  BY QueueInit, QueueStep, TypeCorrect, PTL DEF Spec

(* A disconnection frees the one slot of its connection, even when the     *)
(* stack reuses handles before the loop has seen them dropped.             *)
THEOREM HandlesAlwaysDistinct == Spec => []DistinctHandles
  <1>1. QueueInv => DistinctHandles
    BY DEF QueueInv
  <1> QED
    BY <1>1, QueueInvariant, PTL
=============================================================================
