-------------------------------- MODULE Host --------------------------------
(***************************************************************************)
(* The host program in capture mode: host/src/capture/mod.rs with the      *)
(* reader thread and the handshake of host/src/serial.rs, connected by the *)
(* UART to a firmware that is an InputSwitch.                              *)
(*                                                                         *)
(* The threads are main (the handshake), the serial reader, fw-events and  *)
(* serial-writer.  fw-events and serial-writer change the slot table under *)
(* its lock, release it, and only then move the cursor: two steps each.    *)
(* The capture callbacks only read the forwarding flag and push messages.  *)
(***************************************************************************)
EXTENDS InputSwitch, SlotTable

CONSTANTS HANDSHAKE_RETRIES,
          Faults,       \* what may go wrong, see Fault
          MaxRx,        \* bound: messages in each of the host's queues
          MaxHostTx     \* bound: messages on the wire to the firmware

(* "host_restart": the program ends at any time and is started again.      *)
(* "firmware_restart": the ESP32 resets; the UART bridge is another chip   *)
(* and stays, so the host's port does not fail.  "unplug": the port goes.  *)
(* "noise": a frame is damaged, and both ends discard what they cannot     *)
(* decode; or the firmware fails to write one.                             *)
Fault == {"host_restart", "firmware_restart", "unplug", "noise"}

ASSUME HostAssumption ==
  /\ HANDSHAKE_RETRIES \in Nat \ {0} /\ MaxRx \in Nat \ {0} /\ MaxHostTx \in Nat \ {0}
  /\ Faults \subseteq Fault

VARIABLES
  rx,          \* messages on their way to the firmware
  port,        \* the serial port works
  lost,        \* history: a frame was lost since Esc+1 was last pressed
  main,        \* what the main thread does
  attempt,     \* of the handshake
  hello_ok,
  fw_rx,       \* channel from the reader thread
  table,       \* the SlotTable behind its mutex
  fw_pc,       \* fw-events: "recv", or "sync" with the cursor still to move
  fw_forwarding,
  writer_pc,   \* serial-writer: "recv", "sync" or "gone"
  outbox,      \* Outbox, control messages only
  cursor       \* CursorSession::forwarding: the Mac cursor is hidden

linkVars      == <<rx, port, lost>>
handshakeVars == <<main, attempt, hello_ok>>
threadVars    == <<fw_pc, fw_forwarding, writer_pc>>
hostVars      == <<handshakeVars, fw_rx, table, threadVars, outbox, cursor>>
vars          == <<switchVars, linkVars, hostVars>>

HostInit ==
  /\ Init
  /\ rx = <<>> /\ port = TRUE /\ lost = FALSE
  /\ main = "down" /\ attempt = 0 /\ hello_ok = FALSE
  /\ fw_rx = <<>> /\ outbox = <<>>
  /\ table = NewTable
  /\ fw_pc = "recv" /\ fw_forwarding = FALSE /\ writer_pc = "recv"
  /\ cursor = FALSE

-----------------------------------------------------------------------------
(* The firmware end of the link.                                           *)

(* Bound: what the peers do leaves room for the answer to a message.       *)
PeersComeAndGo ==
  /\ PeersChange \/ \E bits \in LedBits : TellLeds(bits)
  /\ Len(tx') + Len(fw_rx) + 2 <= MaxTx
  /\ UNCHANGED <<linkVars, hostVars>>

FirmwareReceives ==
  /\ rx # <<>>
  /\ rx' = Tail(rx)
  /\ LET msg == Head(rx)
     IN  CASE msg.type = "Hello"      -> Hello(msg.version)
           [] msg.type = "SelectPeer" -> Select(msg.slot)
           [] OTHER                   -> UNCHANGED switchVars
  /\ UNCHANGED <<port, lost, hostVars>>

FirmwareRestarts ==
  /\ "firmware_restart" \in Faults
  /\ host_ready' = FALSE /\ active_slot' = None /\ tx' = <<>> /\ rx' = <<>>
  /\ peers' = [s \in Slots |-> None]
  /\ UNCHANGED <<port, lost, hostVars>>

Unplugged ==
  /\ "unplug" \in Faults
  /\ port /\ port' = FALSE
  /\ rx' = <<>>
  /\ UNCHANGED <<lost, switchVars, hostVars>>

(* The next frame of either direction is discarded, and nobody is told.    *)
FrameLost ==
  /\ "noise" \in Faults
  /\ lost' = (main = "running")
  /\ \/ Deliver /\ UNCHANGED rx
     \/ rx # <<>> /\ rx' = Tail(rx) /\ UNCHANGED switchVars
  /\ UNCHANGED <<port, hostVars>>

-----------------------------------------------------------------------------
(* spawn_reader: a message is put into the channel, or lost when nobody    *)
(* holds the port.                                                         *)

Listening == port /\ main \in {"hello", "await", "running"}

ReaderReceives ==
  /\ Listening
  /\ Len(fw_rx) < MaxRx \/ main = "hello"   \* bound; nobody reads while a hello is sent
  /\ Deliver
  /\ fw_rx' = Append(fw_rx, Head(tx))
  /\ UNCHANGED <<linkVars, handshakeVars, table, threadVars, outbox, cursor>>

LostOnTheWire ==
  /\ ~Listening
  /\ Deliver
  /\ UNCHANGED <<linkVars, hostVars>>

-----------------------------------------------------------------------------
(* sync_cursor, under the lock of the cursor only.                         *)
SyncCursor(forwarding) == cursor' = forwarding

(* run() and handshake().                                                  *)

HostStarts ==
  /\ main = "down" /\ port
  /\ main' = "hello" /\ attempt' = 1
  /\ UNCHANGED <<switchVars, linkVars, hello_ok, fw_rx, table, threadVars, outbox, cursor>>

SendHello ==
  /\ main = "hello"
  /\ IF port
       THEN /\ Len(rx) < MaxHostTx /\ rx' = Append(rx, HelloMsg(PROTOCOL_VERSION))
            /\ main' = "await" /\ hello_ok' = FALSE
       ELSE main' = "failed" /\ UNCHANGED <<rx, hello_ok>>
  /\ UNCHANGED <<switchVars, port, lost, attempt, fw_rx, table, threadVars, outbox, cursor>>

(* The snapshot becomes the table, and the threads are spawned.            *)
Connected(snapshot) ==
  /\ main' = "running"
  /\ table' = ApplySnapshot(NewTable, snapshot)
  /\ SyncCursor(table'.forwarding)
  /\ UNCHANGED hello_ok

Accepts(msg) == msg.type = "PeerSnapshot" /\ hello_ok

HandshakeReceives ==
  /\ main = "await" /\ fw_rx # <<>>
  /\ fw_rx' = Tail(fw_rx)
  /\ LET msg == Head(fw_rx)
     IN  IF Accepts(msg) THEN Connected(msg.snapshot)
         ELSE /\ hello_ok' = (hello_ok \/ msg.type = "HelloAck")
              /\ main' = IF msg \in ProtocolError THEN "failed" ELSE "await"
              /\ UNCHANGED <<table, cursor>>
  /\ UNCHANGED <<switchVars, linkVars, attempt, threadVars, outbox>>

(* Mutants: one attempt too many; the attempts are not counted.            *)
OnceMore ==
  IF attempt <= HANDSHAKE_RETRIES THEN main' = "hello" /\ attempt' = attempt + 1
                                  ELSE main' = "failed" /\ UNCHANGED attempt
RetryForEver == main' = "hello" /\ UNCHANGED attempt

Retry ==
  IF attempt < HANDSHAKE_RETRIES THEN main' = "hello" /\ attempt' = attempt + 1
                                 ELSE main' = "failed" /\ UNCHANGED attempt

(* A second of silence; the answer may still be on its way.                *)
HandshakeTimesOut ==
  /\ main = "await" /\ fw_rx = <<>>
  /\ Retry
  /\ UNCHANGED <<switchVars, linkVars, hello_ok, fw_rx, table, threadVars, outbox, cursor>>

(* The program ends; macOS shows the cursor again.                         *)
HostEnds ==
  /\ "host_restart" \in Faults
  /\ main # "down"
  /\ main' = "down" /\ attempt' = 0 /\ hello_ok' = FALSE
  /\ fw_rx' = <<>> /\ outbox' = <<>>
  /\ table' = NewTable
  /\ fw_pc' = "recv" /\ fw_forwarding' = FALSE /\ writer_pc' = "recv"
  /\ cursor' = FALSE
  /\ lost' = FALSE
  /\ UNCHANGED <<switchVars, rx, port>>

-----------------------------------------------------------------------------
(* The fw-events thread.                                                   *)

(* Mutant: the cursor is forgotten when the active peer is gone.           *)
MovesOnSwitch(msg) == msg.type \in {"PeerSnapshot", "ActivePeerChanged"}

MovesCursor(msg) == msg.type \in {"PeerSnapshot", "PeerDisconnected", "ActivePeerChanged"}

FwEvent ==
  /\ main = "running" /\ fw_pc = "recv" /\ fw_rx # <<>>
  /\ fw_rx' = Tail(fw_rx)
  /\ table' = Apply(table, Head(fw_rx))
  /\ IF MovesCursor(Head(fw_rx))
       THEN fw_pc' = "sync" /\ fw_forwarding' = table'.forwarding
       ELSE UNCHANGED <<fw_pc, fw_forwarding>>
  /\ UNCHANGED <<switchVars, linkVars, handshakeVars, writer_pc, outbox, cursor>>

FwSync ==
  /\ main = "running" /\ fw_pc = "sync"
  /\ SyncCursor(fw_forwarding)
  /\ fw_pc' = "recv"
  /\ UNCHANGED <<switchVars, linkVars, handshakeVars, fw_rx, table, fw_forwarding, writer_pc, outbox>>

-----------------------------------------------------------------------------
(* The capture callbacks and the serial-writer thread.                     *)

Push(msg) ==
  /\ main = "running"
  /\ Len(outbox) < MaxRx
  /\ outbox' = Append(outbox, msg)
  /\ lost' = (lost /\ msg # SelectPeerMsg(None))
  /\ UNCHANGED <<switchVars, rx, port, handshakeVars, fw_rx, table, threadVars, cursor>>

(* handle_slot_hotkey: Esc+1, or Esc+2.. for a slot the table shows.       *)
Hotkey(slot) == (slot = None \/ HasSlot(table, slot)) /\ Push(SelectPeerMsg(slot))

(* A key, a consumer control or a touch, forwarded.                        *)
Input == table.forwarding /\ Push(InputMsg)

WriterSends ==
  /\ main = "running" /\ writer_pc = "recv" /\ outbox # <<>>
  /\ port
  /\ Len(rx) < MaxHostTx
  /\ outbox' = Tail(outbox) /\ rx' = Append(rx, Head(outbox))
  /\ UNCHANGED <<switchVars, port, lost, handshakeVars, fw_rx, table, threadVars, cursor>>

(* Mutant: the table still forwards.                                       *)
KeepForwarding == UNCHANGED table

(* The write fails: back to the Mac, then the cursor, then the thread ends.*)
FallBack == table' = SetActive(table, None)

WriterFails ==
  /\ main = "running" /\ writer_pc = "recv" /\ outbox # <<>>
  /\ ~port
  /\ outbox' = Tail(outbox)
  /\ FallBack
  /\ writer_pc' = "sync"
  /\ UNCHANGED <<switchVars, linkVars, handshakeVars, fw_rx, fw_pc, fw_forwarding, cursor>>

WriterSyncs ==
  /\ main = "running" /\ writer_pc = "sync"
  /\ SyncCursor(FALSE)
  /\ writer_pc' = "gone"
  /\ UNCHANGED <<switchVars, linkVars, handshakeVars, fw_rx, table, fw_pc, fw_forwarding, outbox>>

-----------------------------------------------------------------------------
User == Input \/ \E slot \in Slots \cup {None} : Hotkey(slot)

Firmware == PeersComeAndGo \/ FirmwareReceives \/ FirmwareRestarts

Handshake == HostStarts \/ SendHello \/ HandshakeReceives \/ HandshakeTimesOut \/ HostEnds

HostNext == \/ Firmware \/ Unplugged \/ FrameLost
            \/ ReaderReceives \/ LostOnTheWire
            \/ Handshake
            \/ FwEvent \/ FwSync
            \/ User \/ WriterSends \/ WriterFails \/ WriterSyncs

HostSpec == HostInit /\ [][HostNext]_vars

(* Threads run, bytes arrive, a silent second passes.  The firmware gets   *)
(* to its messages although its peers come and go (SF because MaxTx can    *)
(* hold it up, which the real channel cannot).                             *)
HostFairness ==
  /\ SF_vars(FirmwareReceives) /\ WF_vars(ReaderReceives)
  /\ WF_vars(SendHello) /\ WF_vars(HandshakeReceives) /\ SF_vars(HandshakeTimesOut)
  /\ WF_vars(FwEvent) /\ WF_vars(FwSync)
  /\ WF_vars(WriterSends) /\ WF_vars(WriterFails) /\ WF_vars(WriterSyncs)

FairHostSpec == HostSpec /\ HostFairness

-----------------------------------------------------------------------------
(* Properties.                                                             *)

HostTypeOK ==
  /\ host_ready \in BOOLEAN /\ peers \in [Slots -> Addrs \cup {None}]
  /\ active_slot \in Slots \cup {None}
  /\ tx \in Seq(FirmwareMsg) /\ rx \in Seq(ControlMsg) /\ port \in BOOLEAN /\ lost \in BOOLEAN
  /\ main \in {"down", "hello", "await", "running", "failed"}
  /\ attempt \in 0 .. HANDSHAKE_RETRIES /\ hello_ok \in BOOLEAN
  /\ fw_rx \in Seq(FirmwareMsg) /\ outbox \in Seq(ControlMsg)
  /\ table \in SlotTables
  /\ fw_pc \in {"recv", "sync"} /\ fw_forwarding \in BOOLEAN
  /\ writer_pc \in {"recv", "sync", "gone"} /\ cursor \in BOOLEAN

(* The host never forwards to nobody: whatever order the messages come in, *)
(* the flag is up only while the mirrored active slot has a peer.          *)
ForwardsToSomebody ==
  /\ table.forwarding = (table.active # None)
  /\ table.forwarding => HasSlot(table, table.active)

(* The table of a host that has heard everything.                          *)
Mirrored == [slots |-> peers, active |-> active_slot, forwarding |-> active_slot # None]

(* While the link works and the firmware knows its host, the mirror is     *)
(* exact: applying what is still on its way gives the firmware's table, so *)
(* no message is lost, doubled, reordered or misread, and host and         *)
(* firmware agree when all is quiet, whichever of them has restarted.      *)
MirrorExact ==
  main = "running" /\ host_ready => ApplyAll(table, fw_rx \o tx) = Mirrored

(* Between messages the Mac cursor is hidden exactly while forwarding.     *)
CursorFollows ==
  main = "running" /\ fw_pc = "recv" /\ writer_pc # "sync" => cursor = table.forwarding

(* "On disconnect, forces back to Mac" / "If the ESP32 disconnects, input  *)
(* reverts to Mac automatically": once the writer has given up and no      *)
(* firmware message is left, input is local.                               *)
FallbackSticks ==
  main = "running" /\ writer_pc = "gone" /\ fw_pc = "recv" /\ fw_rx = <<>> => ~table.forwarding

(* Whatever was lost before, and however wrong the mirror is by now: one   *)
(* Esc+1 brings the input back to the Mac, as long as the port stays, the  *)
(* firmware knows its host and no more frames are lost.                    *)
AskedForMac ==
  main = "running" /\ SelectPeerMsg(None) \in {(outbox \o rx)[i] : i \in DOMAIN (outbox \o rx)}
InputIsLocal == ~table.forwarding \/ main # "running" \/ ~port
HotkeyReturnsToMac == (AskedForMac /\ ~lost) ~> (InputIsLocal \/ ~host_ready \/ lost)

(* The same for a user who presses Esc+1 again and again, whatever the     *)
(* firmware has forgotten.                                                 *)
InsistingReturnsToMac == []<>AskedForMac => []<>InputIsLocal

(* The handshake comes to an end, one way or the other.                    *)
HandshakeEnds == main \in {"hello", "await"} ~> main \notin {"hello", "await"}

(* With the port gone, the next thing the user does brings the input back. *)
UnplugNoticed ==
  (main = "running" /\ ~port /\ outbox # <<>> /\ writer_pc = "recv") ~> ~table.forwarding
=============================================================================
