----------------------------- MODULE HostProofs -----------------------------
(***************************************************************************)
(* What TLAPS proves about the host, for any number of slots and peers,    *)
(* any queues and whatever restarts or goes away.                          *)
(***************************************************************************)
EXTENDS Host, SwitchLemmas

-----------------------------------------------------------------------------
(* The inductive invariant of the host.  Nothing but what the switch sends *)
(* is ever applied to the table, and ApplySound does the rest.             *)
HostInv == HostTypeOK /\ ForwardsToSomebody

LEMMA TableIsSound == HostInv => Sound(table)
  BY DEF HostInv, HostTypeOK, ForwardsToSomebody, Sound

LEMMA HostInvInit == HostInit => HostInv
  <1> SUFFICES ASSUME HostInit PROVE HostInv
    OBVIOUS
  <1>1. Sound(table)
    BY NewTableSound DEF HostInit
  <1>2. tx \in Seq(FirmwareMsg) /\ fw_rx \in Seq(FirmwareMsg)
        /\ rx \in Seq(ControlMsg) /\ outbox \in Seq(ControlMsg)
    BY DEF HostInit, Init
  <1>3. 0 \in 0 .. HANDSHAKE_RETRIES
    BY HostAssumption DEF HostAssumption
  <1> QED
    BY <1>1, <1>2, <1>3 DEF HostInit, Init, HostInv, HostTypeOK, ForwardsToSomebody, Sound

(* Steps that change the switch or the wire, and neither host nor port.    *)
LEMMA OnlySwitch ==
  ASSUME HostInv, SwitchTyped', rx' \in Seq(ControlMsg),
         port' \in BOOLEAN, lost' \in BOOLEAN, UNCHANGED hostVars
  PROVE  HostInv'
  BY DEF HostInv, HostTypeOK, ForwardsToSomebody, SwitchTyped, hostVars, handshakeVars, threadVars,
         HasSlot

LEMMA FirmwareKeeps ==
  ASSUME HostInv, Firmware \/ Unplugged \/ FrameLost \/ LostOnTheWire
  PROVE  HostInv'
  <1>1. SwitchTyped /\ rx \in Seq(ControlMsg) /\ port \in BOOLEAN /\ lost \in BOOLEAN
    BY DEF HostInv, HostTypeOK, SwitchTyped
  <1>2. CASE PeersComeAndGo
    <2>1. SwitchTyped'
      BY <1>1, <1>2, JoinTyped, LeaveTyped, LedsTyped DEF PeersComeAndGo, PeersChange
    <2> QED
      BY <1>1, <1>2, <2>1, OnlySwitch DEF PeersComeAndGo, linkVars
  <1>3. CASE FirmwareReceives
    <2>1. Head(rx) \in ControlMsg /\ Tail(rx) \in Seq(ControlMsg)
      BY <1>1, <1>3, HeadTailProperties DEF FirmwareReceives
    <2>2. CASE Head(rx).type = "Hello"
      <3>1. Head(rx).version \in Versions
        BY <2>1, <2>2 DEF ControlMsg, InputMsg
      <3>2. SwitchTyped'
        BY <1>1, <1>3, <2>2, <3>1, HelloTyped DEF FirmwareReceives
      <3> QED
        BY <1>1, <1>3, <2>1, <3>2, OnlySwitch DEF FirmwareReceives
    <2>3. CASE Head(rx).type = "SelectPeer"
      <3>1. Head(rx).slot \in SlotNumbers \cup {None}
        BY <2>1, <2>3 DEF ControlMsg, InputMsg
      <3>2. SwitchTyped'
        BY <1>1, <1>3, <2>3, <3>1, SelectTyped DEF FirmwareReceives
      <3> QED
        BY <1>1, <1>3, <2>1, <3>2, OnlySwitch DEF FirmwareReceives
    <2>4. CASE Head(rx).type \notin {"Hello", "SelectPeer"}
      <3>1. SwitchTyped'
        BY <1>1, <1>3, <2>4 DEF FirmwareReceives, switchVars, SwitchTyped
      <3> QED
        BY <1>1, <1>3, <2>1, <3>1, OnlySwitch DEF FirmwareReceives
    <2> QED
      BY <2>2, <2>3, <2>4
  <1>4. CASE FirmwareRestarts
    <2>1. peers' \in [Slots -> Addrs \cup {None}]
      BY <1>4 DEF FirmwareRestarts
    <2>2. SwitchTyped'
      <3>1. host_ready' \in BOOLEAN /\ active_slot' \in Slots \cup {None}
        BY <1>4 DEF FirmwareRestarts
      <3>2. tx' \in Seq(FirmwareMsg)
        BY <1>4 DEF FirmwareRestarts
      <3> QED
        BY <2>1, <3>1, <3>2 DEF SwitchTyped
    <2>3. rx' \in Seq(ControlMsg)
      BY <1>4 DEF FirmwareRestarts
    <2> QED
      BY <1>1, <1>4, <2>2, <2>3, OnlySwitch DEF FirmwareRestarts
  <1>5. CASE Unplugged
    <2>1. SwitchTyped' /\ rx' \in Seq(ControlMsg)
      BY <1>1, <1>5 DEF Unplugged, SwitchTyped, switchVars
    <2> QED
      BY <1>1, <1>5, <2>1, OnlySwitch DEF Unplugged
  <1>6. CASE LostOnTheWire
    BY <1>1, <1>6, DeliverTyped, OnlySwitch DEF LostOnTheWire, linkVars
  <1>7. CASE FrameLost
    <2>1. port' \in BOOLEAN /\ lost' \in BOOLEAN /\ UNCHANGED hostVars
      BY <1>1, <1>7 DEF FrameLost
    <2>2. CASE Deliver /\ UNCHANGED rx
      BY <1>1, <2>1, <2>2, DeliverTyped, OnlySwitch
    <2>3. CASE rx # <<>> /\ rx' = Tail(rx) /\ UNCHANGED switchVars
      <3>1. SwitchTyped' /\ rx' \in Seq(ControlMsg)
        BY <1>1, <2>3, HeadTailProperties DEF SwitchTyped, switchVars
      <3> QED
        BY <2>1, <3>1, OnlySwitch
    <2> QED
      BY <1>7, <2>2, <2>3 DEF FrameLost
  <1> QED
    BY <1>2, <1>3, <1>4, <1>5, <1>6, <1>7 DEF Firmware

(* The threads of the host.  Each step keeps the switch typed; what it     *)
(* does to the table is one of the operations on sound tables.             *)

LEMMA ReceiveKeeps ==
  ASSUME HostInv, ReaderReceives
  PROVE  HostInv'
  <1>1. SwitchTyped /\ fw_rx \in Seq(FirmwareMsg)
    BY DEF HostInv, HostTypeOK, SwitchTyped
  <1>2. SwitchTyped' /\ Head(tx) \in FirmwareMsg
    BY <1>1, DeliverTyped DEF ReaderReceives
  <1>3. fw_rx' \in Seq(FirmwareMsg)
    BY <1>1, <1>2, AppendProperties DEF ReaderReceives
  <1> QED
    BY <1>2, <1>3 DEF ReaderReceives, HostInv, HostTypeOK, ForwardsToSomebody, SwitchTyped, linkVars,
                      handshakeVars, threadVars, HasSlot

LEMMA HandshakeKeeps ==
  ASSUME HostInv, Handshake
  PROVE  HostInv'
  <1>1. HANDSHAKE_RETRIES \in Nat \ {0} /\ attempt \in 0 .. HANDSHAKE_RETRIES
        /\ rx \in Seq(ControlMsg) /\ fw_rx \in Seq(FirmwareMsg)
    BY HostAssumption DEF HostAssumption, HostInv, HostTypeOK
  <1>2. CASE HostStarts
    <2>1. attempt' \in 0 .. HANDSHAKE_RETRIES
      BY <1>1, <1>2 DEF HostStarts
    <2> QED
      BY <1>2, <2>1 DEF HostStarts, HostInv, HostTypeOK, ForwardsToSomebody, switchVars, linkVars, threadVars,
                        HasSlot
  <1>3. CASE SendHello
    <2>1. HelloMsg(PROTOCOL_VERSION) \in ControlMsg
      BY WireAssumption DEF WireAssumption, HelloMsg, ControlMsg
    <2>2. rx' \in Seq(ControlMsg)
      <3>1. Append(rx, HelloMsg(PROTOCOL_VERSION)) \in Seq(ControlMsg)
        BY <1>1, <2>1, AppendProperties
      <3>2. rx' = Append(rx, HelloMsg(PROTOCOL_VERSION)) \/ rx' = rx
        BY <1>3 DEF SendHello
      <3> QED
        BY <1>1, <3>1, <3>2
    <2>3. main' \in {"await", "failed"} /\ hello_ok' \in BOOLEAN
      BY <1>3 DEF SendHello, HostInv, HostTypeOK
    <2> QED
      BY <1>3, <2>2, <2>3 DEF SendHello, HostInv, HostTypeOK, ForwardsToSomebody, switchVars, threadVars, HasSlot
  <1>4. CASE HandshakeReceives
    <2> DEFINE msg == Head(fw_rx)
    <2>1. msg \in FirmwareMsg /\ fw_rx' \in Seq(FirmwareMsg)
      BY <1>1, <1>4, HeadTailProperties DEF HandshakeReceives
    <2>2. Sound(table') /\ cursor' \in BOOLEAN /\ hello_ok' \in BOOLEAN
          /\ main' \in {"running", "failed", "await"}
      <3>1. CASE Accepts(msg)
        <4>1. msg.snapshot \in PeerSnapshot /\ Connected(msg.snapshot)
          BY <1>4, <2>1, <3>1, MessageParts DEF HandshakeReceives, Accepts
        <4>2. NewTable \in SlotTables
          BY NewTableSound DEF Sound
        <4>3. Sound(table')
          BY <4>1, <4>2, ApplySnapshotSound DEF Connected
        <4> QED
          BY <4>1, <4>3 DEF Connected, SyncCursor, Sound, SlotTables, HostInv, HostTypeOK
      <3>2. CASE ~Accepts(msg)
        <4>1. UNCHANGED <<table, cursor>> /\ hello_ok' = (hello_ok \/ msg.type = "HelloAck")
              /\ main' = IF msg \in ProtocolError THEN "failed" ELSE "await"
          BY <1>4, <3>2 DEF HandshakeReceives
        <4>2. hello_ok' \in BOOLEAN
          BY <4>1
        <4> QED
          BY <4>1, <4>2, TableIsSound DEF HostInv, HostTypeOK
      <3> QED
        BY <3>1, <3>2
    <2> QED
      BY <1>4, <2>1, <2>2 DEF HandshakeReceives, HostInv, HostTypeOK, ForwardsToSomebody, Sound,
                              switchVars, linkVars, threadVars
  <1>5. CASE HandshakeTimesOut
    <2>1. attempt' \in 0 .. HANDSHAKE_RETRIES /\ main' \in {"hello", "failed"}
      BY <1>1, <1>5 DEF HandshakeTimesOut, Retry
    <2> QED
      BY <1>5, <2>1 DEF HandshakeTimesOut, HostInv, HostTypeOK, ForwardsToSomebody, switchVars, linkVars,
                        threadVars, HasSlot
  <1>6. CASE HostEnds
    <2>1. Sound(table')
      BY <1>6, NewTableSound DEF HostEnds
    <2>2. attempt' \in 0 .. HANDSHAKE_RETRIES
      BY <1>1, <1>6 DEF HostEnds
    <2>3. fw_rx' \in Seq(FirmwareMsg) /\ outbox' \in Seq(ControlMsg)
      BY <1>6 DEF HostEnds
    <2> QED
      BY <1>6, <2>1, <2>2, <2>3 DEF HostEnds, HostInv, HostTypeOK, ForwardsToSomebody, Sound, switchVars, linkVars
  <1> QED
    BY <1>2, <1>3, <1>4, <1>5, <1>6 DEF Handshake

LEMMA EventsKeep ==
  ASSUME HostInv, FwEvent \/ FwSync
  PROVE  HostInv'
  <1>1. CASE FwEvent
    <2>1. Head(fw_rx) \in FirmwareMsg /\ fw_rx' \in Seq(FirmwareMsg)
      BY <1>1, HeadTailProperties DEF FwEvent, HostInv, HostTypeOK
    <2>2. Sound(table')
      BY <1>1, <2>1, ApplySound, TableIsSound DEF FwEvent
    <2>3. fw_pc' \in {"recv", "sync"} /\ fw_forwarding' \in BOOLEAN
      BY <1>1, <2>2 DEF FwEvent, Sound, SlotTables, HostInv, HostTypeOK
    <2> QED
      BY <1>1, <2>1, <2>2, <2>3 DEF FwEvent, HostInv, HostTypeOK, ForwardsToSomebody, Sound, switchVars, linkVars,
                                    handshakeVars
  <1>2. CASE FwSync
    BY <1>2 DEF FwSync, SyncCursor, HostInv, HostTypeOK, ForwardsToSomebody, HasSlot, switchVars, linkVars,
                handshakeVars
  <1> QED
    BY <1>1, <1>2

LEMMA UserKeeps ==
  ASSUME HostInv, User
  PROVE  HostInv'
  <1>1. \E msg \in ControlMsg : Push(msg)
    <2>1. InputMsg \in ControlMsg
      BY DEF ControlMsg
    <2>2. \A slot \in Slots \cup {None} : SelectPeerMsg(slot) \in ControlMsg
      BY WireAssumption DEF SelectPeerMsg, ControlMsg, Slots, SlotNumbers, WireAssumption
    <2> QED
      BY <2>1, <2>2 DEF User, Input, Hotkey
  <1>2. outbox' \in Seq(ControlMsg)
    BY <1>1, AppendProperties DEF Push, HostInv, HostTypeOK
  <1> QED
    BY <1>1, <1>2 DEF Push, HostInv, HostTypeOK, ForwardsToSomebody, HasSlot, switchVars, linkVars, handshakeVars,
                      threadVars

LEMMA WriterKeeps ==
  ASSUME HostInv, WriterSends \/ WriterFails \/ WriterSyncs
  PROVE  HostInv'
  <1>0. rx \in Seq(ControlMsg) /\ outbox \in Seq(ControlMsg) /\ table \in SlotTables
    BY DEF HostInv, HostTypeOK
  <1>1. CASE WriterSends
    <2>1. Head(outbox) \in ControlMsg /\ Tail(outbox) \in Seq(ControlMsg)
      BY <1>0, <1>1, HeadTailProperties DEF WriterSends
    <2>2. rx' \in Seq(ControlMsg) /\ outbox' \in Seq(ControlMsg)
      BY <1>0, <1>1, <2>1, AppendProperties DEF WriterSends
    <2> QED
      BY <1>1, <2>2 DEF WriterSends, HostInv, HostTypeOK, ForwardsToSomebody, HasSlot, switchVars, handshakeVars,
                        threadVars
  <1>2. CASE WriterFails
    <2>1. outbox' \in Seq(ControlMsg)
      BY <1>0, <1>2, HeadTailProperties DEF WriterFails
    <2>2. Sound(table')
      BY <1>0, <1>2, SetActiveSound DEF WriterFails, FallBack
    <2> QED
      BY <1>2, <2>1, <2>2 DEF WriterFails, HostInv, HostTypeOK, ForwardsToSomebody, Sound, switchVars, linkVars,
                              handshakeVars
  <1>3. CASE WriterSyncs
    BY <1>3 DEF WriterSyncs, SyncCursor, HostInv, HostTypeOK, ForwardsToSomebody, HasSlot, switchVars, linkVars,
                handshakeVars
  <1> QED
    BY <1>1, <1>2, <1>3

LEMMA HostInvStep == HostInv /\ [HostNext]_vars => HostInv'
  <1> SUFFICES ASSUME HostInv, [HostNext]_vars PROVE HostInv'
    OBVIOUS
  <1>1. CASE UNCHANGED vars
    BY <1>1 DEF vars, hostVars, linkVars, switchVars, handshakeVars, threadVars, HostInv, HostTypeOK,
                ForwardsToSomebody, HasSlot
  <1> QED
    BY <1>1, FirmwareKeeps, ReceiveKeeps, HandshakeKeeps, EventsKeep, UserKeeps, WriterKeeps DEF HostNext

LEMMA HostInvariant == HostSpec => []HostInv
  BY HostInvInit, HostInvStep, PTL DEF HostSpec

(* Type correctness of the host and its link.                              *)
THEOREM HostTypeCorrect == HostSpec => []HostTypeOK
  <1>1. HostInv => HostTypeOK
    BY DEF HostInv
  <1> QED
    BY <1>1, HostInvariant, PTL

(* The forwarding flag that the capture callbacks read is up only while    *)
(* the active slot of the mirror has a peer: whatever the firmware sends,  *)
(* whenever host or firmware restart, input is never forwarded to nobody.  *)
THEOREM AlwaysForwardsToSomebody == HostSpec => []ForwardsToSomebody
  <1>1. HostInv => ForwardsToSomebody
    BY DEF HostInv
  <1> QED
    BY <1>1, HostInvariant, PTL
-----------------------------------------------------------------------------
(* The mirror while no frame is lost.  What waits for the host, applied to *)
(* its table, gives the firmware's table; and since a host that connects   *)
(* may take its snapshot from answers to its predecessor, what waits gives *)
(* that table from any snapshot in it on, whatever the host was doing.  A  *)
(* host that is down or has failed reads nothing from its channel.         *)

Waiting == IF main \in {"down", "failed"} THEN tx ELSE fw_rx \o tx

ActiveHasPeer == active_slot # None => peers[active_slot] # None

MirrorInv ==
  /\ port /\ ActiveHasPeer
  /\ main = "down" => fw_rx = <<>>
  /\ host_ready =>
       /\ main = "running" => ApplyAll(table, Waiting) = Mirrored
       /\ HasSnapshot(Waiting) => ApplyAll(NewTable, Waiting) = Mirrored

LEMMA MirroredTyped ==
  ASSUME SwitchTyped
  PROVE  Mirrored \in SlotTables
  <1>1. (active_slot # None) \in BOOLEAN
    OBVIOUS
  <1> QED
    BY <1>1 DEF SwitchTyped, Mirrored, SlotTables

LEMMA WaitingTyped ==
  ASSUME HostInv
  PROVE  Waiting \in Seq(FirmwareMsg) /\ table \in SlotTables /\ NewTable \in SlotTables /\ SwitchTyped
  <1>1. tx \in Seq(FirmwareMsg) /\ fw_rx \in Seq(FirmwareMsg)
    BY DEF HostInv, HostTypeOK
  <1>2. fw_rx \o tx \in Seq(FirmwareMsg)
    BY <1>1, ConcatProperties
  <1>3. NewTable \in SlotTables
    BY NewTableSound DEF Sound
  <1> QED
    BY <1>1, <1>2, <1>3 DEF Waiting, HostInv, HostTypeOK, SwitchTyped

(* Snapshots in a queue of two parts.                                      *)
LEMMA SnapshotInConcat ==
  ASSUME NEW a \in Seq(FirmwareMsg), NEW b \in Seq(FirmwareMsg)
  PROVE  HasSnapshot(a \o b) <=> HasSnapshot(a) \/ HasSnapshot(b)
  <1> DEFINE n == Len(a)
             m == Len(b)
             c == a \o b
  <1>1. n \in Nat /\ m \in Nat
    BY LenProperties
  <1>2. Len(c) = n + m /\ \A i \in 1 .. n + m : c[i] = IF i <= n THEN a[i] ELSE b[i - n]
    BY ConcatProperties
  <1> HIDE DEF n, m, c
  <1>3. ASSUME HasSnapshot(c) PROVE HasSnapshot(a) \/ HasSnapshot(b)
    <2>1. PICK i \in 1 .. n + m : c[i].type = "PeerSnapshot"
      BY <1>2, <1>3 DEF HasSnapshot
    <2>2. CASE i <= n
      <3>1. i \in 1 .. n /\ c[i] = a[i]
        BY <1>1, <1>2, <2>2
      <3> QED
        BY <2>1, <3>1 DEF HasSnapshot, n
    <2>3. CASE ~(i <= n)
      <3>1. i - n \in 1 .. m /\ c[i] = b[i - n]
        BY <1>1, <1>2, <2>3
      <3> QED
        BY <2>1, <3>1 DEF HasSnapshot, m
    <2> QED
      BY <2>2, <2>3
  <1>4. ASSUME HasSnapshot(a) PROVE HasSnapshot(c)
    <2>1. PICK i \in 1 .. n : a[i].type = "PeerSnapshot"
      BY <1>4 DEF HasSnapshot, n
    <2>2. i \in 1 .. n + m /\ c[i] = a[i]
      BY <1>1, <1>2
    <2> QED
      BY <1>2, <2>1, <2>2 DEF HasSnapshot
  <1>5. ASSUME HasSnapshot(b) PROVE HasSnapshot(c)
    <2>1. PICK i \in 1 .. m : b[i].type = "PeerSnapshot"
      BY <1>5 DEF HasSnapshot, m
    <2> DEFINE k == n + i
    <2>2. k \in 1 .. n + m /\ ~(k <= n) /\ k - n = i
      BY <1>1
    <2> HIDE DEF k
    <2>3. c[k].type = "PeerSnapshot"
      BY <1>2, <2>1, <2>2
    <2> QED
      BY <1>2, <2>2, <2>3 DEF HasSnapshot
  <1> QED
    BY <1>3, <1>4, <1>5 DEF c

(* What is read, or lost with a channel that nobody reads, from the front. *)
LEMMA MirrorDrops ==
  ASSUME MirrorInv, HostInv, HostInv', NEW read \in Seq(FirmwareMsg), Waiting = read \o Waiting',
         UNCHANGED <<port, host_ready, peers, active_slot>>,
         main' = "down" => fw_rx' = <<>>,
         main' = "running" /\ host_ready => ApplyAll(table', Waiting') = Mirrored
  PROVE  MirrorInv'
  <1>1. Waiting' \in Seq(FirmwareMsg)
    BY DEF Waiting, HostInv, HostTypeOK
  <1>2. NewTable \in SlotTables /\ Waiting \in Seq(FirmwareMsg)
    BY WaitingTyped
  <1>3. ASSUME host_ready, HasSnapshot(Waiting')
        PROVE  ApplyAll(NewTable, Waiting') = Mirrored
    <2>1. HasSnapshot(Waiting)
      BY <1>1, <1>3, SnapshotInConcat
    <2>2. ApplyAll(NewTable, Waiting) = Mirrored
      BY <1>3, <2>1 DEF MirrorInv
    <2>3. ApplyAll(NewTable, Waiting) = ApplyAll(ApplyAll(NewTable, read), Waiting')
      BY <1>1, <1>2, ApplyAllConcat
    <2>4. ApplyAll(NewTable, read) \in SlotTables
      BY <1>2, ApplyAllTyped
    <2>5. ApplyAll(ApplyAll(NewTable, read), Waiting') = ApplyAll(NewTable, Waiting')
      BY <1>1, <1>2, <1>3, <2>4, SnapshotDecides
    <2> QED
      BY <2>2, <2>3, <2>5
  <1>4. Mirrored' = Mirrored /\ ActiveHasPeer'
    BY DEF Mirrored, ActiveHasPeer, MirrorInv
  <1> QED
    BY <1>3, <1>4 DEF MirrorInv

(* What the firmware adds at the end.                                      *)
LEMMA MirrorExtends ==
  ASSUME MirrorInv, HostInv, UNCHANGED <<port, main, fw_rx, table>>, ActiveHasPeer',
         NEW told \in Seq(FirmwareMsg), tx' = tx \o told,
         host_ready' => \/ host_ready /\ ~HasSnapshot(told) /\ ApplyAll(Mirrored, told) = Mirrored'
                       \/ \A t \in SlotTables : ApplyAll(t, told) = Mirrored'
  PROVE  MirrorInv'
  <1>1. Waiting \in Seq(FirmwareMsg) /\ table \in SlotTables /\ NewTable \in SlotTables /\ SwitchTyped
    BY WaitingTyped
  <1>2. Waiting' = Waiting \o told
    <2>1. tx \in Seq(FirmwareMsg) /\ fw_rx \in Seq(FirmwareMsg)
      BY DEF HostInv, HostTypeOK
    <2>2. fw_rx \o (tx \o told) = (fw_rx \o tx) \o told
      BY <2>1, ConcatAssociative
    <2> QED
      BY <2>2 DEF Waiting
  <1>3. \A t \in SlotTables : ApplyAll(t, Waiting') = ApplyAll(ApplyAll(t, Waiting), told)
                              /\ ApplyAll(t, Waiting) \in SlotTables
    BY <1>1, <1>2, ApplyAllConcat, ApplyAllTyped
  <1>4. HasSnapshot(Waiting') <=> HasSnapshot(Waiting) \/ HasSnapshot(told)
    BY <1>1, <1>2, SnapshotInConcat
  <1>5. CASE host_ready /\ ~HasSnapshot(told) /\ ApplyAll(Mirrored, told) = Mirrored'
    <2>1. main' = "running" => ApplyAll(table', Waiting') = Mirrored'
      BY <1>1, <1>3, <1>5 DEF MirrorInv
    <2>2. HasSnapshot(Waiting') => ApplyAll(NewTable, Waiting') = Mirrored'
      BY <1>1, <1>3, <1>4, <1>5 DEF MirrorInv
    <2> QED
      BY <2>1, <2>2 DEF MirrorInv
  <1>6. CASE \A t \in SlotTables : ApplyAll(t, told) = Mirrored'
    BY <1>1, <1>3, <1>6 DEF MirrorInv
  <1>7. CASE ~host_ready'
    BY <1>7 DEF MirrorInv
  <1> QED
    BY <1>5, <1>6, <1>7

(* What each step of the switch tells, applied to the table as it was,     *)
(* gives the table as it is then.                                          *)
ToldRightly ==
  \E told \in Seq(FirmwareMsg) :
    /\ tx' = tx \o told
    /\ host_ready' => \/ host_ready /\ ~HasSnapshot(told) /\ ApplyAll(Mirrored, told) = Mirrored'
                      \/ \A t \in SlotTables : ApplyAll(t, told) = Mirrored'

LEMMA NothingTold ==
  ASSUME SwitchTyped, UNCHANGED <<host_ready, tx>>, host_ready => Mirrored' = Mirrored
  PROVE  ToldRightly
  <1>1. <<>> \in Seq(FirmwareMsg) /\ ~HasSnapshot(<<>>)
    BY DEF HasSnapshot
  <1>2. tx' = tx \o <<>>
    BY ConcatEmptySeq DEF SwitchTyped
  <1>3. ApplyAll(Mirrored, <<>>) = Mirrored
    BY MirroredTyped, ApplyAllNone
  <1> QED
    BY <1>1, <1>2, <1>3 DEF ToldRightly

LEMMA OneTold ==
  ASSUME SwitchTyped, UNCHANGED host_ready, NEW msg \in FirmwareMsg, msg.type # "PeerSnapshot",
         Tell(<<msg>>), host_ready => Apply(Mirrored, msg) = Mirrored'
  PROVE  ToldRightly
  <1>1. CASE host_ready
    <2>1. <<msg>> \in Seq(FirmwareMsg) /\ ~HasSnapshot(<<msg>>)
      BY DEF HasSnapshot
    <2>2. tx' = tx \o <<msg>>
      BY <1>1 DEF Tell, Post
    <2>3. ApplyAll(Mirrored, <<msg>>) = Mirrored'
      BY <1>1, MirroredTyped, ApplyAllOne
    <2> QED
      BY <1>1, <2>1, <2>2, <2>3 DEF ToldRightly
  <1>2. CASE ~host_ready
    BY <1>2, NothingTold DEF Tell
  <1> QED
    BY <1>1, <1>2

LEMMA ApplyAllTwo ==
  ASSUME NEW t \in SlotTables, NEW one \in FirmwareMsg, NEW two \in FirmwareMsg
  PROVE  ApplyAll(t, <<one, two>>) = Apply(Apply(t, one), two)
  <1> DEFINE both == <<one, two>>
  <1>1. both \in Seq(FirmwareMsg) /\ both # <<>> /\ Head(both) = one /\ Tail(both) = <<two>>
    OBVIOUS
  <1>2. ApplyAll(t, both) = ApplyAll(Apply(t, Head(both)), Tail(both))
    <2> HIDE DEF both
    <2> QED
      BY <1>1, ApplyAllFirst
  <1>3. Apply(t, one) \in SlotTables
    BY ApplyTyped
  <1>4. ApplyAll(Apply(t, one), <<two>>) = Apply(Apply(t, one), two)
    BY <1>3, ApplyAllOne
  <1> QED
    BY <1>1, <1>2, <1>4

LEMMA JoinToldRightly ==
  ASSUME SwitchTyped, NEW s \in Slots, NEW a \in Addrs, Join(s, a)
  PROVE  ToldRightly
  <1> DEFINE peer == [slot |-> s, addr |-> a]
  <1>1. PeerConnectedMsg(peer) \in FirmwareMsg
    BY MessageTypes DEF PeerDescriptor
  <1>2. PeerConnectedMsg(peer).type = "PeerConnected" /\ PeerConnectedMsg(peer).peer = peer
    BY DEF PeerConnectedMsg
  <1>3. Apply(Mirrored, PeerConnectedMsg(peer)) = Mirrored'
    <2>1. Apply(Mirrored, PeerConnectedMsg(peer)) = Connect(Mirrored, peer)
      BY <1>2 DEF Apply
    <2>2. Connect(Mirrored, peer) = Mirrored'
      BY DEF Connect, Mirrored, Join
    <2> QED
      BY <2>1, <2>2
  <1> QED
    BY <1>1, <1>2, <1>3, OneTold DEF Join

LEMMA LeaveToldRightly ==
  ASSUME SwitchTyped, NEW s \in Slots, Leave(s)
  PROVE  ToldRightly
  <1> DEFINE gone == PeerDisconnectedMsg(s)
             none == ActivePeerChangedMsg(None)
  <1>1. gone \in FirmwareMsg /\ none \in FirmwareMsg
    BY MessageTypes
  <1>2. gone.type = "PeerDisconnected" /\ gone.slot = s /\ none.type = "ActivePeerChanged" /\ none.slot = None
    BY DEF PeerDisconnectedMsg, ActivePeerChangedMsg
  <1> HIDE DEF gone, none
  <1>3. Apply(Mirrored, gone) = [slots |-> peers', active |-> IF active_slot = s THEN None ELSE active_slot,
                                 forwarding |-> active_slot # None /\ active_slot # s]
    <2>1. Apply(Mirrored, gone) = Disconnect(Mirrored, s)
      BY <1>2 DEF Apply
    <2>2. peers' = [peers EXCEPT ![s] = None]
      BY DEF Leave
    <2> QED
      BY <2>1, <2>2 DEF Disconnect, Mirrored
  <1>4. CASE active_slot # s
    <2>1. Apply(Mirrored, gone) = Mirrored'
      BY <1>3, <1>4 DEF Leave, Mirrored
    <2>2. Tell(<<gone>>) /\ UNCHANGED host_ready
      BY <1>4 DEF Leave, gone
    <2> QED
      BY <1>1, <1>2, <2>1, <2>2, OneTold
  <1>5. CASE active_slot = s /\ host_ready
    <2>1. <<gone, none>> \in Seq(FirmwareMsg) /\ ~HasSnapshot(<<gone, none>>)
      BY <1>1, <1>2 DEF HasSnapshot
    <2>2. tx' = tx \o <<gone, none>> /\ active_slot' = None
      BY <1>5 DEF Leave, Tell, Post, gone, none
    <2>3. ApplyAll(Mirrored, <<gone, none>>) = Apply(Apply(Mirrored, gone), none)
      BY <1>1, MirroredTyped, ApplyAllTwo
    <2>4. Apply(Apply(Mirrored, gone), none) = SetActive(Apply(Mirrored, gone), None)
      BY <1>2 DEF Apply
    <2>5. SetActive(Apply(Mirrored, gone), None) = Mirrored'
      <3>1. Apply(Mirrored, gone) \in SlotTables
        BY <1>1, MirroredTyped, ApplyTyped
      <3>2. ~HasSlot(Apply(Mirrored, gone), None)
        BY SlotsAreNotNone DEF HasSlot
      <3>3. SetActive(Apply(Mirrored, gone), None)
              = [slots |-> Apply(Mirrored, gone).slots, active |-> None, forwarding |-> None # None]
        BY <3>1, <3>2, SetActiveFields
      <3> QED
        BY <1>3, <2>2, <3>3 DEF Mirrored
    <2> QED
      BY <1>5, <2>1, <2>2, <2>3, <2>4, <2>5 DEF ToldRightly
  <1>6. CASE active_slot = s /\ ~host_ready
    <2>1. UNCHANGED <<host_ready, tx>>
      BY <1>6 DEF Leave, Tell
    <2> QED
      BY <1>6, <2>1, NothingTold
  <1> QED
    BY <1>4, <1>5, <1>6

LEMMA LedsToldRightly ==
  ASSUME SwitchTyped, NEW bits \in LedBits, TellLeds(bits)
  PROVE  ToldRightly
  <1>1. LedStateMsg(bits) \in FirmwareMsg /\ LedStateMsg(bits).type = "LedState"
    BY MessageTypes DEF LedStateMsg
  <1>2. Apply(Mirrored, LedStateMsg(bits)) = Mirrored
    BY <1>1 DEF Apply
  <1>3. Mirrored' = Mirrored
    BY DEF TellLeds, Mirrored
  <1> QED
    BY <1>1, <1>2, <1>3, OneTold DEF TellLeds

LEMMA SelectToldRightly ==
  ASSUME SwitchTyped, NEW slot \in SlotNumbers \cup {None}, Select(slot)
  PROVE  ToldRightly
  <1>1. CASE (slot = None \/ Selectable(slot)) /\ ~(slot # None /\ slot = active_slot)
    <2>1. slot \in Slots \cup {None}
      BY <1>1 DEF Selectable
    <2>2. ActivePeerChangedMsg(slot) \in FirmwareMsg /\ ActivePeerChangedMsg(slot).type = "ActivePeerChanged"
          /\ ActivePeerChangedMsg(slot).slot = slot
      BY <2>1, MessageTypes DEF ActivePeerChangedMsg
    <2>3. Apply(Mirrored, ActivePeerChangedMsg(slot)) = SetActive(Mirrored, slot)
      BY <2>2 DEF Apply
    <2>4. (IF HasSlot(Mirrored, slot) THEN slot ELSE None) = slot
      BY <1>1 DEF HasSlot, Selectable, Mirrored
    <2>5. SetActive(Mirrored, slot) = Mirrored'
      <3>1. SetActive(Mirrored, slot) = [slots |-> Mirrored.slots, active |-> slot, forwarding |-> slot # None]
        BY <2>4, MirroredTyped, SetActiveFields
      <3>2. active_slot' = slot /\ peers' = peers
        BY <1>1 DEF Select
      <3> QED
        BY <3>1, <3>2 DEF Mirrored
    <2>6. Tell(<<ActivePeerChangedMsg(slot)>>) /\ UNCHANGED host_ready
      BY <1>1 DEF Select
    <2> QED
      BY <2>2, <2>3, <2>5, <2>6, OneTold
  <1>2. CASE slot # None /\ slot = active_slot /\ Selectable(slot)
    <2>1. UNCHANGED <<host_ready, tx>> /\ Mirrored' = Mirrored
      BY <1>2 DEF Select, Mirrored
    <2> QED
      BY <2>1, NothingTold
  <1>3. CASE ~(slot = None \/ Selectable(slot))
    <2>1. InvalidPeerSlotMsg(slot) \in FirmwareMsg /\ InvalidPeerSlotMsg(slot).type = "InvalidPeerSlot"
      BY <1>3, MessageTypes DEF InvalidPeerSlotMsg
    <2>2. Apply(Mirrored, InvalidPeerSlotMsg(slot)) = Mirrored
      BY <2>1 DEF Apply
    <2>3. Tell(<<InvalidPeerSlotMsg(slot)>>) /\ UNCHANGED host_ready /\ Mirrored' = Mirrored
      BY <1>3 DEF Select, Mirrored
    <2> QED
      BY <2>1, <2>2, <2>3, OneTold
  <1> QED
    BY <1>1, <1>2, <1>3

(* The snapshot after the acknowledgement, on any table.                   *)
LEMMA SnapshotMirrors ==
  ASSUME SwitchTyped, ActiveHasPeer, NEW t \in SlotTables
  PROVE  ApplySnapshot(t, Snapshot) = Mirrored
  <1> DEFINE told == {Snapshot.peers[i] : i \in Slots} \ {None}
             addr(s) == IF \E p \in told : p.slot = s
                          THEN (CHOOSE p \in told : p.slot = s).addr ELSE None
             slots == [s \in Slots |-> addr(s)]
  <1>1. \A i \in Slots : Snapshot.peers[i] = IF peers[i] = None THEN None ELSE [slot |-> i, addr |-> peers[i]]
    BY DEF Snapshot
  <1>2. \A i \in Slots : peers[i] # None => [slot |-> i, addr |-> peers[i]] # None
    <2>1. \A i \in Slots : peers[i] # None => [slot |-> i, addr |-> peers[i]] \in PeerDescriptor
      BY DEF SwitchTyped, PeerDescriptor
    <2> QED
      BY <2>1, WireAssumption DEF WireAssumption
  <1>3. ASSUME NEW s \in Slots PROVE addr(s) = peers[s]
    <2>1. \A p \in told : p.slot = s => p.addr = peers[s] /\ peers[s] # None
      <3> TAKE p \in told
      <3>1. PICK i \in Slots : p = Snapshot.peers[i] /\ p # None
        OBVIOUS
      <3>2. p = [slot |-> i, addr |-> peers[i]] /\ peers[i] # None
        BY <1>1, <3>1
      <3> QED
        BY <3>2
    <2>2. CASE peers[s] = None
      BY <2>1, <2>2
    <2>3. CASE peers[s] # None
      <3>1. [slot |-> s, addr |-> peers[s]] \in told
        BY <1>1, <1>2, <2>3
      <3>2. \E p \in told : p.slot = s
        BY <3>1
      <3> HIDE DEF told
      <3>3. (CHOOSE p \in told : p.slot = s) \in told /\ (CHOOSE p \in told : p.slot = s).slot = s
        BY <3>2
      <3> QED
        BY <2>1, <3>2, <3>3
    <2> QED
      BY <2>2, <2>3
  <1>4. slots = peers
    <2>1. peers = [s \in Slots |-> peers[s]]
      BY DEF SwitchTyped
    <2> HIDE DEF addr
    <2> QED
      BY <1>3, <2>1
  <1> DEFINE u == [t EXCEPT !.slots = slots]
  <1>5. ApplySnapshot(t, Snapshot) = SetActive(u, active_slot)
    BY DEF ApplySnapshot, Snapshot
  <1> HIDE DEF slots
  <1>6. u \in SlotTables /\ u.slots = peers
    BY <1>4 DEF SlotTables, SwitchTyped
  <1> HIDE DEF u
  <1>7. (IF HasSlot(u, active_slot) THEN active_slot ELSE None) = active_slot
    BY <1>6 DEF HasSlot, ActiveHasPeer, SwitchTyped
  <1>8. SetActive(u, active_slot) = [slots |-> peers, active |-> active_slot, forwarding |-> active_slot # None]
    BY <1>6, <1>7, SetActiveFields
  <1> QED
    BY <1>5, <1>8 DEF Mirrored

LEMMA HelloToldRightly ==
  ASSUME SwitchTyped, ActiveHasPeer, NEW v \in Versions, Hello(v)
  PROVE  ToldRightly
  <1>1. CASE v = PROTOCOL_VERSION
    <2> DEFINE snap == PeerSnapshotMsg(Snapshot)
    <2>1. HelloAckMsg \in FirmwareMsg /\ HelloAckMsg.type = "HelloAck"
      BY MessageTypes DEF HelloAckMsg
    <2>2. snap \in FirmwareMsg /\ snap.type = "PeerSnapshot" /\ snap.snapshot = Snapshot
      BY SnapshotType, MessageTypes DEF PeerSnapshotMsg
    <2>3. tx' = tx \o <<HelloAckMsg, snap>> /\ Mirrored' = Mirrored
      BY <1>1 DEF Hello, Post, Mirrored
    <2> HIDE DEF snap
    <2>4. <<HelloAckMsg, snap>> \in Seq(FirmwareMsg)
      BY <2>1, <2>2
    <2>5. ASSUME NEW t \in SlotTables PROVE ApplyAll(t, <<HelloAckMsg, snap>>) = Mirrored
      <3>1. ApplyAll(t, <<HelloAckMsg, snap>>) = Apply(Apply(t, HelloAckMsg), snap)
        BY <2>1, <2>2, ApplyAllTwo
      <3>2. Apply(t, HelloAckMsg) = t
        BY <2>1 DEF Apply
      <3>3. Apply(t, snap) = ApplySnapshot(t, Snapshot)
        BY <2>2 DEF Apply
      <3> QED
        BY <3>1, <3>2, <3>3, SnapshotMirrors
    <2> QED
      BY <2>3, <2>4, <2>5 DEF ToldRightly
  <1>2. CASE v # PROTOCOL_VERSION
    <2> DEFINE sorry == UnsupportedVersionMsg(v)
    <2>1. sorry \in FirmwareMsg /\ sorry.type = "UnsupportedProtocolVersion"
      BY MessageTypes DEF UnsupportedVersionMsg
    <2>2. tx' = tx \o <<sorry>> /\ Mirrored' = Mirrored /\ UNCHANGED host_ready
      BY <1>2 DEF Hello, Post, Mirrored
    <2> HIDE DEF sorry
    <2>3. Apply(Mirrored, sorry) = Mirrored
      BY <2>1 DEF Apply
    <2>4. ApplyAll(Mirrored, <<sorry>>) = Mirrored
      BY <2>1, <2>3, MirroredTyped, ApplyAllOne
    <2>5. <<sorry>> \in Seq(FirmwareMsg) /\ ~HasSnapshot(<<sorry>>)
      BY <2>1 DEF HasSnapshot
    <2> QED
      BY <2>2, <2>4, <2>5 DEF ToldRightly
  <1> QED
    BY <1>1, <1>2

(* The active slot keeps its peer, or loses both.                          *)
LEMMA SwitchKeepsActive ==
  ASSUME SwitchTyped, ActiveHasPeer,
         \/ PeersChange
         \/ \E v \in Versions : Hello(v)
         \/ \E slot \in SlotNumbers \cup {None} : Select(slot)
         \/ \E bits \in LedBits : TellLeds(bits)
  PROVE  ActiveHasPeer'
  <1>1. ASSUME NEW s \in Slots, NEW a \in Addrs, Join(s, a) PROVE ActiveHasPeer'
    BY <1>1, SlotsAreNotNone DEF Join, ActiveHasPeer, SwitchTyped
  <1>2. ASSUME NEW s \in Slots, Leave(s) PROVE ActiveHasPeer'
    BY <1>2 DEF Leave, ActiveHasPeer, SwitchTyped
  <1>3. ASSUME NEW v \in Versions, Hello(v) PROVE ActiveHasPeer'
    BY <1>3 DEF Hello, ActiveHasPeer
  <1>4. ASSUME NEW slot \in SlotNumbers \cup {None}, Select(slot) PROVE ActiveHasPeer'
    BY <1>4 DEF Select, Selectable, ActiveHasPeer
  <1>5. ASSUME NEW bits \in LedBits, TellLeds(bits) PROVE ActiveHasPeer'
    BY <1>5 DEF TellLeds, ActiveHasPeer
  <1> QED
    BY <1>1, <1>2, <1>3, <1>4, <1>5 DEF PeersChange

LEMMA FirmwareKeepsMirror ==
  ASSUME MirrorInv, HostInv, Firmware
  PROVE  MirrorInv'
  <1>1. SwitchTyped /\ rx \in Seq(ControlMsg) /\ ActiveHasPeer
    BY DEF HostInv, HostTypeOK, SwitchTyped, MirrorInv
  <1>2. ASSUME ToldRightly, ActiveHasPeer', UNCHANGED <<port, main, fw_rx, table>> PROVE MirrorInv'
    <2>1. PICK told \in Seq(FirmwareMsg) :
            /\ tx' = tx \o told
            /\ host_ready' => \/ host_ready /\ ~HasSnapshot(told) /\ ApplyAll(Mirrored, told) = Mirrored'
                              \/ \A t \in SlotTables : ApplyAll(t, told) = Mirrored'
      BY <1>2 DEF ToldRightly
    <2> QED
      BY <1>2, <2>1, MirrorExtends
  <1>3. CASE PeersComeAndGo
    <2>1. ToldRightly
      BY <1>1, <1>3, JoinToldRightly, LeaveToldRightly, LedsToldRightly DEF PeersComeAndGo, PeersChange
    <2>2. ActiveHasPeer'
      BY <1>1, <1>3, SwitchKeepsActive DEF PeersComeAndGo
    <2> QED
      BY <1>2, <1>3, <2>1, <2>2 DEF PeersComeAndGo, linkVars, hostVars, handshakeVars
  <1>4. CASE FirmwareReceives
    <2>0. Head(rx) \in ControlMsg /\ UNCHANGED <<port, main, fw_rx, table>>
      BY <1>1, <1>4, HeadTailProperties DEF FirmwareReceives, hostVars, handshakeVars
    <2>1. CASE Head(rx).type = "Hello"
      <3>1. Head(rx).version \in Versions /\ Hello(Head(rx).version)
        BY <1>4, <2>0, <2>1 DEF FirmwareReceives, ControlMsg, InputMsg
      <3>2. ToldRightly /\ ActiveHasPeer'
        BY <1>1, <3>1, HelloToldRightly, SwitchKeepsActive
      <3> QED
        BY <1>2, <2>0, <3>2
    <2>2. CASE Head(rx).type = "SelectPeer"
      <3>1. Head(rx).slot \in SlotNumbers \cup {None} /\ Select(Head(rx).slot)
        BY <1>4, <2>0, <2>2 DEF FirmwareReceives, ControlMsg, InputMsg
      <3>2. ToldRightly /\ ActiveHasPeer'
        BY <1>1, <3>1, SelectToldRightly, SwitchKeepsActive
      <3> QED
        BY <1>2, <2>0, <3>2
    <2>3. CASE Head(rx).type \notin {"Hello", "SelectPeer"}
      <3>1. UNCHANGED switchVars
        BY <1>4, <2>3 DEF FirmwareReceives
      <3>2. Mirrored' = Mirrored /\ ActiveHasPeer'
        BY <1>1, <3>1 DEF switchVars, Mirrored, ActiveHasPeer
      <3>3. ToldRightly
        BY <1>1, <3>1, <3>2, NothingTold DEF switchVars
      <3> QED
        BY <1>2, <2>0, <3>2, <3>3
    <2> QED
      BY <2>1, <2>2, <2>3
  <1>5. CASE FirmwareRestarts
    BY <1>5 DEF FirmwareRestarts, MirrorInv, ActiveHasPeer, hostVars, handshakeVars
  <1> QED
    BY <1>3, <1>4, <1>5 DEF Firmware

(* The host.  Most steps neither read nor lose anything.                   *)
LEMMA NothingReadKeepsMirror ==
  ASSUME MirrorInv, HostInv, HostInv', Waiting' = Waiting,
         UNCHANGED <<port, host_ready, peers, active_slot, table>>,
         main' = "down" => fw_rx' = <<>>, main' = "running" => main = "running"
  PROVE  MirrorInv'
  BY DEF MirrorInv, ActiveHasPeer, Mirrored

LEMMA ReceiveKeepsMirror ==
  ASSUME MirrorInv, HostInv, HostInv', ReaderReceives
  PROVE  MirrorInv'
  <1>1. tx \in Seq(FirmwareMsg) /\ fw_rx \in Seq(FirmwareMsg) /\ tx # <<>>
        /\ tx' = Tail(tx) /\ fw_rx' = Append(fw_rx, Head(tx))
    BY DEF ReaderReceives, Deliver, HostInv, HostTypeOK
  <1>2. fw_rx' \o tx' = fw_rx \o tx
    <2>1. Head(tx) \in FirmwareMsg /\ Tail(tx) \in Seq(FirmwareMsg) /\ tx = <<Head(tx)>> \o Tail(tx)
      BY <1>1, HeadTailProperties
    <2>2. <<Head(tx)>> \in Seq(FirmwareMsg)
      BY <2>1
    <2>3. Append(fw_rx, Head(tx)) = fw_rx \o <<Head(tx)>>
      BY <1>1, <2>1, AppendIsConcat
    <2>4. (fw_rx \o <<Head(tx)>>) \o Tail(tx) = fw_rx \o (<<Head(tx)>> \o Tail(tx))
      BY <1>1, <2>1, <2>2, ConcatAssociative
    <2> QED
      BY <1>1, <2>1, <2>3, <2>4
  <1>3. main \in {"hello", "await", "running"} /\ UNCHANGED <<port, main, host_ready, peers, active_slot, table>>
    BY DEF ReaderReceives, Listening, Deliver, linkVars, handshakeVars
  <1>4. Waiting' = Waiting
    BY <1>2, <1>3 DEF Waiting
  <1> QED
    BY <1>3, <1>4, NothingReadKeepsMirror

(* The first message is taken out of what waits.                           *)
LEMMA FirstOut ==
  ASSUME NEW a \in Seq(FirmwareMsg), NEW b \in Seq(FirmwareMsg), a # <<>>
  PROVE  /\ a \o b = <<Head(a)>> \o (Tail(a) \o b)
         /\ <<Head(a)>> \in Seq(FirmwareMsg) /\ Head(a) \in FirmwareMsg
         /\ Tail(a) \o b \in Seq(FirmwareMsg)
         /\ a \o b \in Seq(FirmwareMsg) /\ a \o b # <<>>
         /\ Head(a \o b) = Head(a) /\ Tail(a \o b) = Tail(a) \o b
  <1>1. Head(a) \in FirmwareMsg /\ Tail(a) \in Seq(FirmwareMsg) /\ a = <<Head(a)>> \o Tail(a)
    BY HeadTailProperties
  <1>2. <<Head(a)>> \in Seq(FirmwareMsg)
    BY <1>1
  <1>3. (<<Head(a)>> \o Tail(a)) \o b = <<Head(a)>> \o (Tail(a) \o b)
    BY <1>1, <1>2, ConcatAssociative
  <1>4. Tail(a) \o b \in Seq(FirmwareMsg) /\ a \o b \in Seq(FirmwareMsg)
    BY <1>1, ConcatProperties
  <1> DEFINE c == a \o b
             d == Tail(a) \o b
  <1>5. a \o b # <<>> /\ Head(a \o b) = Head(a) /\ Tail(a \o b) = Tail(a) \o b
    <2>1. Len(a) \in Nat \ {0} /\ Len(b) \in Nat /\ Len(Tail(a)) = Len(a) - 1
          /\ \A i \in 1 .. Len(Tail(a)) : Tail(a)[i] = a[i + 1]
      BY LenProperties, EmptySeq, HeadTailProperties
    <2>2. Len(c) = Len(a) + Len(b) /\ \A i \in 1 .. Len(a) + Len(b) :
                                        c[i] = IF i <= Len(a) THEN a[i] ELSE b[i - Len(a)]
      BY ConcatProperties
    <2>3. Len(d) = Len(Tail(a)) + Len(b) /\ \A i \in 1 .. Len(Tail(a)) + Len(b) :
                                              d[i] = IF i <= Len(Tail(a)) THEN Tail(a)[i] ELSE b[i - Len(Tail(a))]
      BY <1>1, ConcatProperties
    <2>4. c \in Seq(FirmwareMsg) /\ d \in Seq(FirmwareMsg)
      BY <1>4
    <2> HIDE DEF c, d
    <2>5. c # <<>> /\ Head(c) = c[1] /\ c[1] = a[1]
      BY <2>1, <2>2, <2>4
    <2>6. Tail(c) \in Seq(FirmwareMsg) /\ Len(Tail(c)) = Len(d)
          /\ \A i \in 1 .. Len(Tail(c)) : Tail(c)[i] = c[i + 1]
      BY <2>1, <2>2, <2>3, <2>4, <2>5, HeadTailProperties
    <2>7. ASSUME NEW i \in 1 .. Len(d) PROVE Tail(c)[i] = d[i]
      <3>1. Tail(c)[i] = c[i + 1] /\ i \in 1 .. Len(a) - 1 + Len(b)
        BY <2>1, <2>3, <2>6
      <3>2. CASE i <= Len(a) - 1
        BY <2>1, <2>2, <2>3, <3>1, <3>2
      <3>3. CASE ~(i <= Len(a) - 1)
        <4>1. c[i + 1] = b[(i + 1) - Len(a)] /\ d[i] = b[i - (Len(a) - 1)] /\ (i + 1) - Len(a) = i - (Len(a) - 1)
          BY <2>1, <2>2, <2>3, <3>1, <3>3
        <4> QED
          BY <3>1, <4>1
      <3> QED
        BY <3>2, <3>3
    <2>8. Tail(c) = d
      BY <2>4, <2>6, <2>7, SeqEqual
    <2> QED
      BY <2>5, <2>8 DEF c, d
  <1> QED
    BY <1>1, <1>2, <1>3, <1>4, <1>5

LEMMA LossKeepsMirror ==
  ASSUME MirrorInv, HostInv, HostInv', LostOnTheWire
  PROVE  MirrorInv'
  <1>1. main \in {"down", "failed"} /\ UNCHANGED <<port, main, fw_rx, host_ready, peers, active_slot, table>>
    BY DEF LostOnTheWire, Listening, Deliver, MirrorInv, HostInv, HostTypeOK, linkVars, hostVars, handshakeVars
  <1>2. tx \in Seq(FirmwareMsg) /\ tx # <<>> /\ tx' = Tail(tx)
    BY DEF LostOnTheWire, Deliver, HostInv, HostTypeOK
  <1>3. tx = <<Head(tx)>> \o Tail(tx) /\ Head(tx) \in FirmwareMsg
    BY <1>2, HeadTailProperties
  <1>4. <<Head(tx)>> \in Seq(FirmwareMsg)
    BY <1>3
  <1>5. Waiting = <<Head(tx)>> \o Waiting'
    BY <1>1, <1>2, <1>3 DEF Waiting
  <1> QED
    BY <1>1, <1>4, <1>5, MirrorDrops DEF MirrorInv

LEMMA EventKeepsMirror ==
  ASSUME MirrorInv, HostInv, HostInv', FwEvent
  PROVE  MirrorInv'
  <1>1. main = "running" /\ fw_rx # <<>> /\ fw_rx' = Tail(fw_rx) /\ table' = Apply(table, Head(fw_rx))
        /\ UNCHANGED <<port, main, tx, host_ready, peers, active_slot>>
    BY DEF FwEvent, switchVars, linkVars, handshakeVars
  <1>2. tx \in Seq(FirmwareMsg) /\ fw_rx \in Seq(FirmwareMsg) /\ table \in SlotTables
    BY DEF HostInv, HostTypeOK
  <1>3. Waiting = fw_rx \o tx /\ Waiting' = Tail(fw_rx) \o tx
    BY <1>1 DEF Waiting
  <1>4. ApplyAll(table, Waiting) = ApplyAll(table', Waiting')
    <2>1. Waiting \in Seq(FirmwareMsg) /\ Waiting # <<>> /\ Head(Waiting) = Head(fw_rx) /\ Tail(Waiting) = Waiting'
      BY <1>1, <1>2, <1>3, FirstOut
    <2> QED
      BY <1>1, <1>2, <2>1, ApplyAllFirst
  <1>5. host_ready => ApplyAll(table', Waiting') = Mirrored
    BY <1>1, <1>4 DEF MirrorInv
  <1>6. Waiting = <<Head(fw_rx)>> \o Waiting' /\ <<Head(fw_rx)>> \in Seq(FirmwareMsg)
    BY <1>1, <1>2, <1>3, FirstOut
  <1> QED
    BY <1>1, <1>5, <1>6, MirrorDrops

(* The handshake takes a snapshot for its table, whoever it was meant for. *)
LEMMA AnswerKeepsMirror ==
  ASSUME MirrorInv, HostInv, HostInv', HandshakeReceives
  PROVE  MirrorInv'
  <1> DEFINE msg == Head(fw_rx)
  <1>1. main = "await" /\ fw_rx # <<>> /\ fw_rx' = Tail(fw_rx)
        /\ UNCHANGED <<port, tx, host_ready, peers, active_slot>>
    BY DEF HandshakeReceives, switchVars, linkVars
  <1>2. tx \in Seq(FirmwareMsg) /\ fw_rx \in Seq(FirmwareMsg) /\ NewTable \in SlotTables
    BY WaitingTyped DEF HostInv, HostTypeOK
  <1>3. Waiting = fw_rx \o tx
    BY <1>1 DEF Waiting
  <1>4. CASE Accepts(msg)
    <2>1. main' = "running" /\ table' = ApplySnapshot(NewTable, msg.snapshot) /\ msg.type = "PeerSnapshot"
      BY <1>4 DEF HandshakeReceives, Connected, Accepts
    <2>2. table' = Apply(NewTable, msg)
      BY <2>1 DEF Apply
    <2>3. Waiting' = Tail(fw_rx) \o tx
      BY <1>1, <2>1 DEF Waiting
    <2>4. /\ Waiting \in Seq(FirmwareMsg) /\ Waiting # <<>> /\ Head(Waiting) = msg /\ Tail(Waiting) = Waiting'
          /\ Waiting = <<msg>> \o Waiting' /\ <<msg>> \in Seq(FirmwareMsg)
      BY <1>1, <1>2, <1>3, <2>3, FirstOut
    <2>5. HasSnapshot(Waiting)
      <3>1. Waiting[1] = msg /\ 1 \in 1 .. Len(Waiting)
        BY <2>4, EmptySeq, LenProperties
      <3> QED
        BY <2>1, <3>1 DEF HasSnapshot
    <2>6. ApplyAll(NewTable, Waiting) = ApplyAll(table', Waiting')
      BY <1>2, <2>2, <2>4, ApplyAllFirst
    <2>7. host_ready => ApplyAll(table', Waiting') = Mirrored
      BY <2>5, <2>6 DEF MirrorInv
    <2> QED
      BY <1>1, <2>1, <2>4, <2>7, MirrorDrops
  <1>5. CASE ~Accepts(msg)
    <2>1. main' \in {"failed", "await"} /\ table' = table
      BY <1>5 DEF HandshakeReceives
    <2>2. CASE main' = "await"
      <3>1. Waiting' = Tail(fw_rx) \o tx
        BY <1>1, <2>2 DEF Waiting
      <3>2. Waiting = <<msg>> \o Waiting' /\ <<msg>> \in Seq(FirmwareMsg)
        BY <1>1, <1>2, <1>3, <3>1, FirstOut
      <3> QED
        BY <1>1, <2>2, <3>2, MirrorDrops
    <2>3. CASE main' = "failed"
      <3>1. Waiting' = tx
        BY <1>1, <2>3 DEF Waiting
      <3> QED
        BY <1>1, <1>2, <1>3, <2>3, <3>1, MirrorDrops
    <2> QED
      BY <2>1, <2>2, <2>3
  <1> QED
    BY <1>4, <1>5

LEMMA HandshakeKeepsMirror ==
  ASSUME MirrorInv, HostInv, HostInv', Handshake
  PROVE  MirrorInv'
  <1>1. tx \in Seq(FirmwareMsg) /\ fw_rx \in Seq(FirmwareMsg) /\ <<>> \in Seq(FirmwareMsg)
    BY DEF HostInv, HostTypeOK
  <1>2. <<>> \o tx = tx /\ tx = <<>> \o tx
    BY <1>1, ConcatEmptySeq
  <1>3. CASE HostStarts
    <2>1. fw_rx = <<>> /\ main = "down" /\ main' = "hello"
          /\ UNCHANGED <<port, host_ready, peers, active_slot, table, fw_rx, tx>>
      BY <1>3 DEF HostStarts, MirrorInv, switchVars, linkVars
    <2>2. Waiting' = Waiting
      BY <1>2, <2>1 DEF Waiting
    <2> QED
      BY <2>1, <2>2, NothingReadKeepsMirror
  <1>4. CASE SendHello
    <2>1. main = "hello" /\ main' = "await" /\ UNCHANGED <<port, host_ready, peers, active_slot, table, fw_rx, tx>>
      BY <1>4 DEF SendHello, MirrorInv, switchVars
    <2>2. Waiting' = Waiting
      BY <2>1 DEF Waiting
    <2> QED
      BY <2>1, <2>2, NothingReadKeepsMirror
  <1>5. CASE HandshakeReceives
    BY <1>5, AnswerKeepsMirror
  <1>6. CASE HandshakeTimesOut
    <2>1. main = "await" /\ main' \in {"hello", "failed"} /\ fw_rx = <<>>
          /\ UNCHANGED <<port, host_ready, peers, active_slot, table, fw_rx, tx>>
      BY <1>6 DEF HandshakeTimesOut, Retry, switchVars, linkVars
    <2>2. Waiting' = Waiting
      BY <1>2, <2>1 DEF Waiting
    <2> QED
      BY <2>1, <2>2, NothingReadKeepsMirror
  <1>7. CASE HostEnds
    <2>1. main' = "down" /\ fw_rx' = <<>> /\ UNCHANGED <<port, host_ready, peers, active_slot, tx>>
      BY <1>7 DEF HostEnds, switchVars
    <2>2. Waiting' = tx
      BY <2>1 DEF Waiting
    <2>3. Waiting = <<>> \o Waiting' \/ Waiting = fw_rx \o Waiting'
      BY <1>2, <2>2 DEF Waiting
    <2> QED
      BY <1>1, <2>1, <2>3, MirrorDrops
  <1> QED
    BY <1>3, <1>4, <1>5, <1>6, <1>7 DEF Handshake

LEMMA MirrorInvStep ==
  ASSUME Faults \cap {"unplug", "noise"} = {}, MirrorInv, HostInv, HostInv', [HostNext]_vars
  PROVE  MirrorInv'
  <1>1. ~Unplugged /\ ~FrameLost /\ ~WriterFails
    BY DEF Unplugged, FrameLost, WriterFails, MirrorInv
  <1>2. CASE UNCHANGED vars \/ FwSync \/ User \/ WriterSends \/ WriterSyncs
    <2>1. UNCHANGED <<port, main, host_ready, peers, active_slot, table, fw_rx, tx>>
      BY <1>2 DEF vars, FwSync, User, Input, Hotkey, Push, WriterSends, WriterSyncs, switchVars, linkVars, hostVars,
                  handshakeVars
    <2>2. Waiting' = Waiting /\ (main' = "down" => fw_rx' = <<>>)
      BY <2>1 DEF Waiting, MirrorInv
    <2> QED
      BY <2>1, <2>2, NothingReadKeepsMirror
  <1> QED
    BY <1>1, <1>2, FirmwareKeepsMirror, ReceiveKeepsMirror, LossKeepsMirror, HandshakeKeepsMirror,
       EventKeepsMirror DEF HostNext

LEMMA MirrorInvInit == HostInit => MirrorInv
  <1> SUFFICES ASSUME HostInit PROVE MirrorInv
    OBVIOUS
  <1> QED
    BY DEF HostInit, Init, MirrorInv, ActiveHasPeer

(* The mirror is exact for any number of slots and peers and queues of any *)
(* length: whatever either end forgets in a restart, whichever snapshot    *)
(* the host connects with, what is on its way makes its table the          *)
(* firmware's.  It is so while the port stays and no frame is damaged; the *)
(* protocol has nothing that would notice a lost one.                      *)
THEOREM MirrorAlwaysExact ==
  ASSUME Faults \cap {"unplug", "noise"} = {}
  PROVE  HostSpec => []MirrorExact
  <1>1. MirrorInv /\ HostInv /\ HostInv' /\ [HostNext]_vars => MirrorInv'
    BY MirrorInvStep
  <1>2. MirrorInv => MirrorExact
    BY DEF MirrorInv, MirrorExact, Waiting
  <1> QED
    BY <1>1, <1>2, MirrorInvInit, HostInvariant, PTL DEF HostSpec
=============================================================================
