------------------------------- MODULE Session -------------------------------
(***************************************************************************)
(* The firmware: firmware/src/session.rs, the receive loop and the UART    *)
(* transmit task of firmware/src/main.rs, and the NimBLE callbacks of      *)
(* firmware/src/ble_hid.rs, which run on another task and talk to the loop *)
(* through a channel.                                                      *)
(*                                                                         *)
(* The loop is sequential: it drains BLE events, flushes a pending touch   *)
(* frame, reads the UART and handles the messages of one read, flushing    *)
(* after each.  Between any two of its steps a peer may connect, drop or   *)
(* write its LEDs.  `shown' is what the peer behind each connection was    *)
(* last told.  Host messages are chosen freely here: any host is allowed.  *)
(***************************************************************************)
EXTENDS Wire, TouchReportEncoder, Sequences

CONSTANTS Handles,         \* connection handles of the BLE stack
          MaxConnections,  \* CONFIG_BT_NIMBLE_MAX_CONNECTIONS
          Frames,          \* the touch frames a host may send
          Faults,          \* what may go wrong, see Fault
          MaxEvents,       \* bound: BLE events waiting for the loop
          MaxTx            \* bound: messages waiting for the transmit task

(* "reuse": the stack gives a handle out again before the loop has seen    *)
(* its last connection drop.  "backpressure": a notification to a          *)
(* connected peer is refused with ENOMEM or EBUSY.  "error": one fails     *)
(* with another code.  "advertising": restarting the advertising fails.    *)
(* "uart": a UART read fails.                                              *)
Fault == {"reuse", "backpressure", "error", "advertising", "uart"}

PeerSlot == [conn_handle : Handles, addr : Addrs]

ASSUME SessionAssumption ==
  /\ Frames \subseteq TouchFrame
  /\ Faults \subseteq Fault
  /\ MaxConnections \in Nat \ {0} /\ MaxEvents \in Nat \ {0} /\ MaxTx \in Nat \ {0, 1}
  /\ None \notin Handles \cup PeerSlot /\ IsFiniteSet(Handles)

VARIABLES
  \* BLE stack
  conns,         \* handle -> address of the connected peer
  advertising,
  events,        \* BleHid::event_rx
  \* struct Session
  host_ready, peers, active_slot, keyboard, consumer, latest_touch, touch_dirty, touch,
  pacing,        \* now < next_touch_send_at_us
  \* run() and uart_tx_task()
  pc,            \* where the loop is
  window,        \* the loop is handling the bytes of a read
  tx,            \* tx_msg -> tx_rx
  \* the peers
  shown          \* handle -> the input state the peer was last told

bleVars   == <<conns, advertising, events>>
peerVars  == <<host_ready, peers, active_slot>>
touchVars == <<latest_touch, touch_dirty, touch, pacing>>
inputVars == <<keyboard, consumer, touchVars>>
vars      == <<bleVars, peerVars, inputVars, pc, window, tx, shown>>

BleEvent ==
  [type : {"Connected"}, conn_handle : Handles, addr : Addrs]
    \cup [type : {"Disconnected"}, conn_handle : Handles]
    \cup [type : {"LedState"}, bits : LedBits]

View == [keyboard : KeyboardSnapshots, consumer : ConsumerStates,
         down : SUBSET ContactIds, button : BOOLEAN]

Released == [keyboard |-> NoKeys, consumer |-> NoUsage, down |-> {}, button |-> FALSE]

Init ==
  /\ conns = [h \in Handles |-> None]
  /\ advertising = TRUE
  /\ events = <<>>
  /\ host_ready = FALSE
  /\ peers = [s \in Slots |-> None]
  /\ active_slot = None
  /\ keyboard = NoKeys /\ consumer = NoUsage
  /\ latest_touch = NoFrame /\ touch_dirty = FALSE /\ touch = NoContacts /\ pacing = FALSE
  /\ pc = "drain" /\ window = FALSE
  /\ tx = <<>>
  /\ shown = [h \in Handles |-> Released]

-----------------------------------------------------------------------------
(* The BLE stack (external) with the callbacks of BleHid::init, which run  *)
(* in the same step.                                                       *)

Linked(h) == conns[h] # None

Pending(h) == \E i \in DOMAIN events :
                events[i].type # "LedState" /\ events[i].conn_handle = h

(* Callback on_connect.  The stack stops advertising when a peer connects. *)
OnConnect(h, a) ==
  /\ events' = Append(events, [type |-> "Connected", conn_handle |-> h, addr |-> a])
  /\ IF Cardinality({g \in Handles : conns'[g] # None}) < MaxConnections
       THEN \/ advertising' = TRUE
            \/ "advertising" \in Faults /\ advertising' = FALSE
       ELSE advertising' = FALSE

PeerConnects(h, a) ==
  /\ advertising
  /\ Len(events) < MaxEvents
  /\ ~Linked(h) /\ a \notin {conns[g] : g \in Handles}
  /\ Pending(h) => "reuse" \in Faults
  /\ conns' = [conns EXCEPT ![h] = a]
  /\ OnConnect(h, a)
  /\ UNCHANGED <<peerVars, inputVars, pc, window, tx, shown>>

(* Callback on_disconnect.  The server advertises again by default.        *)
OnDisconnect(h) == events' = Append(events, [type |-> "Disconnected", conn_handle |-> h])

PeerDrops(h) ==
  /\ Linked(h)
  /\ Len(events) < MaxEvents
  /\ conns' = [conns EXCEPT ![h] = None]
  /\ advertising' = TRUE
  /\ shown' = [shown EXCEPT ![h] = Released]
  /\ OnDisconnect(h)
  /\ UNCHANGED <<peerVars, inputVars, pc, window, tx>>

(* Callback on_write of the keyboard output report.                        *)
PeerWritesLeds(bits) ==
  /\ \E h \in Handles : Linked(h)
  /\ Len(events) < MaxEvents
  /\ events' = Append(events, [type |-> "LedState", bits |-> bits])
  /\ UNCHANGED <<conns, advertising, peerVars, inputVars, pc, window, tx, shown>>

(* notify_with: whether the peer gets it.                                  *)
Delivered(h) == IF ~Linked(h) THEN {FALSE}
                ELSE IF Faults \cap {"backpressure", "error"} # {} THEN BOOLEAN ELSE {TRUE}

-----------------------------------------------------------------------------
(* Session helpers.                                                        *)

(* Mutant: slot 0 is kept for the Mac.                                     *)
FirstFreeRemoteSlot(s) ==
  s > 0 /\ peers[s] = None /\ \A r \in Slots \ {0} : peers[r] = None => s <= r

FirstFreeSlot(s) == peers[s] = None /\ \A r \in Slots : peers[r] = None => s <= r

HasHandle(s, h) == peers[s] # None /\ peers[s].conn_handle = h

(* Mutant: the search stops before the last slot.                          *)
SlotButLast(s, h) == s < MAX_PEERS - 1 /\ HasHandle(s, h)

SlotForConnHandle(s, h) == HasHandle(s, h) /\ \A r \in Slots : HasHandle(r, h) => s <= r

ActiveConnHandle ==
  IF active_slot = None \/ peers[active_slot] = None THEN None
                                                     ELSE peers[active_slot].conn_handle

(* Mutant: an empty slot can be selected.                                  *)
InRange(slot) == slot \in Slots

Selectable(slot) == slot \in Slots /\ peers[slot] # None

(* Mutant: slots are numbered from 1.                                      *)
SnapshotFromOne ==
  [peers |-> [s \in Slots |-> IF peers[s] = None THEN None
                                 ELSE [slot |-> s + 1, addr |-> peers[s].addr]],
   active_slot |-> active_slot]

Snapshot ==
  [peers |-> [s \in Slots |-> IF peers[s] = None THEN None
                                                 ELSE [slot |-> s, addr |-> peers[s].addr]],
   active_slot |-> active_slot]

(* tx.send; the room is the model's bound, the channel has none.           *)
Post(msgs) == Len(tx) + Len(msgs) <= MaxTx /\ tx' = tx \o msgs

Tell(msgs) == IF host_ready THEN Post(msgs) ELSE UNCHANGED tx

(* Mutants: the frame waiting for the old peer survives; the encoder does. *)
ResetButFrame == UNCHANGED <<latest_touch, touch_dirty>> /\ touch' = NoContacts /\ pacing' = FALSE
ResetButEncoder == latest_touch' = NoFrame /\ touch_dirty' = FALSE /\ UNCHANGED touch /\ pacing' = FALSE

ResetTouch == latest_touch' = NoFrame /\ touch_dirty' = FALSE /\ touch' = NoContacts /\ pacing' = FALSE

ResetInputState == keyboard' = NoKeys /\ consumer' = NoUsage /\ ResetTouch

(* The three reports of clear_outputs_for, each delivered or not.  The     *)
(* touch report names no contact: it releases the button, and a finger     *)
(* that is down stays down, as after every report that does not name it.   *)
(* What the function resets of the session is reset again by               *)
(* reset_input_state, which follows every call.                            *)
ClearOutputsFor(h) ==
  \E k, c, t \in Delivered(h) :
    shown' = [shown EXCEPT ![h] =
                [keyboard |-> IF k THEN NoKeys ELSE @.keyboard,
                 consumer |-> IF c THEN NoUsage ELSE @.consumer,
                 down     |-> IF t THEN PeerDown(@.down, NoContacts) ELSE @.down,
                 button   |-> IF t THEN FALSE ELSE @.button]]

(* Mutant: the peer that is left keeps what it was told.                   *)
ClearNothing == UNCHANGED shown

ClearActiveOutputs ==
  IF ActiveConnHandle = None THEN UNCHANGED shown ELSE ClearOutputsFor(ActiveConnHandle)

-----------------------------------------------------------------------------
(* handle_ble_event, from the drain loop.                                  *)

Drain(type) ==
  /\ pc = "drain" /\ events # <<>> /\ Head(events).type = type
  /\ events' = Tail(events)
  /\ UNCHANGED <<conns, advertising, host_ready, pc, window, shown>>

HandleConnected ==
  /\ Drain("Connected")
  /\ LET h == Head(events).conn_handle
         a == Head(events).addr
     IN  \/ \E s \in Slots :
              /\ FirstFreeSlot(s)
              /\ peers' = [peers EXCEPT ![s] = [conn_handle |-> h, addr |-> a]]
              /\ Tell(<<PeerConnectedMsg([slot |-> s, addr |-> a])>>)
         \/ /\ \A s \in Slots : ~FirstFreeSlot(s)
            /\ UNCHANGED <<peers, tx>>
  /\ UNCHANGED <<active_slot, inputVars>>

HandleDisconnected ==
  /\ Drain("Disconnected")
  /\ LET h == Head(events).conn_handle
     IN  \/ \E s \in Slots :
              /\ SlotForConnHandle(s, h)
              /\ peers' = [peers EXCEPT ![s] = None]
              /\ IF active_slot = s
                   THEN /\ active_slot' = None
                        /\ ResetInputState
                        /\ Tell(<<PeerDisconnectedMsg(s), ActivePeerChangedMsg(None)>>)
                   ELSE /\ UNCHANGED <<active_slot, inputVars>>
                        /\ Tell(<<PeerDisconnectedMsg(s)>>)
         \/ /\ \A s \in Slots : ~SlotForConnHandle(s, h)
            /\ UNCHANGED <<peers, active_slot, inputVars, tx>>

HandleLedState ==
  /\ Drain("LedState")
  /\ Tell(<<LedStateMsg(Head(events).bits)>>)
  /\ UNCHANGED <<peers, active_slot, inputVars>>

EventsDrained ==
  /\ pc = "drain" /\ events = <<>>
  /\ pc' = "flush"
  /\ UNCHANGED <<bleVars, peerVars, inputVars, window, tx, shown>>

-----------------------------------------------------------------------------
(* flush_touch_if_due.  The stack may drop the peer between the check and  *)
(* the notification, so these are two steps.                               *)

Waiting == ActiveConnHandle # None /\ touch_dirty

FlushSkipped ==
  /\ pc = "flush"
  /\ Waiting => Linked(ActiveConnHandle) /\ pacing
  /\ pc' = "read"
  /\ UNCHANGED <<bleVars, peerVars, inputVars, window, tx, shown>>

FlushUnlinked ==
  /\ pc = "flush"
  /\ Waiting /\ ~Linked(ActiveConnHandle)
  /\ touch_dirty' = FALSE /\ pacing' = FALSE /\ touch' = NoContacts
  /\ pc' = "read"
  /\ UNCHANGED <<bleVars, peerVars, keyboard, consumer, latest_touch, window, tx, shown>>

FlushDue ==
  /\ pc = "flush"
  /\ Waiting /\ Linked(ActiveConnHandle) /\ ~pacing
  /\ pc' = "notify"
  /\ UNCHANGED <<bleVars, peerVars, inputVars, window, tx, shown>>

(* encode(), then send_touch_to.  The encoder has moved on to `tracked'    *)
(* whether or not the report gets out.                                     *)

(* Mutants: a frame without a report stays pending; a refused one does not.*)
KeptPending(tracked) == touch' = tracked /\ UNCHANGED <<touch_dirty, pacing, shown>>

NothingToReport(tracked) ==
  touch_dirty' = FALSE /\ pacing' = FALSE /\ touch' = tracked /\ UNCHANGED shown

Sent(h, report, tracked) ==
  /\ TRUE \in Delivered(h)
  /\ touch_dirty' = FALSE /\ pacing' = TRUE /\ touch' = tracked
  /\ shown' = [shown EXCEPT ![h].down = PeerDown(@, report),
                            ![h].button = latest_touch.button]

(* ENOMEM or EBUSY: the frame stays pending.                               *)
GivenUp(h, tracked) ==
  /\ Linked(h) /\ "backpressure" \in Faults
  /\ touch_dirty' = FALSE /\ pacing' = FALSE /\ touch' = tracked
  /\ UNCHANGED shown

Refused(h, tracked) ==
  /\ Linked(h) /\ "backpressure" \in Faults
  /\ pacing' = TRUE /\ touch' = tracked
  /\ UNCHANGED <<touch_dirty, shown>>

(* Any other error, the link being up or not: the frame is given up and    *)
(* the encoder reset.                                                      *)
Failed(h) ==
  /\ Linked(h) => "error" \in Faults
  /\ touch_dirty' = FALSE /\ pacing' = FALSE /\ touch' = NoContacts
  /\ UNCHANGED shown

Notify ==
  /\ pc = "notify"
  /\ \E fresh \in FreshChoices(touch, latest_touch.contacts) :
       LET report  == Report(touch, latest_touch.contacts, fresh)
           tracked == NextTracked(touch, latest_touch.contacts, fresh)
       IN  IF report = NoContacts
             THEN NothingToReport(tracked)
             ELSE \/ Sent(ActiveConnHandle, report, tracked)
                  \/ Refused(ActiveConnHandle, tracked)
                  \/ Failed(ActiveConnHandle)
  /\ pc' = "read"
  /\ UNCHANGED <<bleVars, peerVars, keyboard, consumer, latest_touch, window, tx>>

PacingElapses ==
  /\ pacing
  /\ pacing' = FALSE
  /\ UNCHANGED <<bleVars, peerVars, keyboard, consumer, latest_touch, touch_dirty, touch,
                 pc, window, tx, shown>>

-----------------------------------------------------------------------------
(* The UART read and handle_host_msg.  A message comes from the window of  *)
(* a read; each is followed by a flush.                                    *)

ReadBytes ==
  /\ pc = "read" /\ ~window
  /\ window' = TRUE
  /\ UNCHANGED <<bleVars, peerVars, inputVars, pc, tx, shown>>

ReadTimesOut ==
  /\ pc = "read" /\ ~window
  /\ pc' = "drain"
  /\ UNCHANGED <<bleVars, peerVars, inputVars, window, tx, shown>>

(* run() returns the error and main() sleeps for ever.                     *)
ReadFails ==
  /\ "uart" \in Faults
  /\ pc = "read" /\ ~window
  /\ pc' = "halted"
  /\ UNCHANGED <<bleVars, peerVars, inputVars, window, tx, shown>>

WindowEmpty ==
  /\ pc = "read" /\ window
  /\ window' = FALSE /\ pc' = "drain"
  /\ UNCHANGED <<bleVars, peerVars, inputVars, tx, shown>>

Decoded == pc = "read" /\ window /\ pc' = "flush" /\ UNCHANGED <<bleVars, window>>

Hello(version) ==
  /\ Decoded
  /\ IF version = PROTOCOL_VERSION
       THEN /\ host_ready' = TRUE
            /\ Post(<<HelloAckMsg, PeerSnapshotMsg(Snapshot)>>)
       ELSE /\ UNCHANGED host_ready
            /\ Post(<<UnsupportedVersionMsg(version)>>)
  /\ UNCHANGED <<peers, active_slot, inputVars, shown>>

SelectNone ==
  /\ Decoded
  /\ ClearActiveOutputs
  /\ active_slot' = None
  /\ ResetInputState
  /\ Tell(<<ActivePeerChangedMsg(None)>>)
  /\ UNCHANGED <<host_ready, peers>>

SelectInvalid(slot) ==
  /\ Decoded
  /\ ~Selectable(slot)
  /\ Tell(<<InvalidPeerSlotMsg(slot)>>)
  /\ UNCHANGED <<peerVars, inputVars, shown>>

SelectSame(slot) ==
  /\ Decoded
  /\ Selectable(slot) /\ active_slot = slot
  /\ UNCHANGED <<peerVars, inputVars, tx, shown>>

SelectOther(slot) ==
  /\ Decoded
  /\ Selectable(slot) /\ active_slot # slot
  /\ ClearActiveOutputs
  /\ active_slot' = slot
  /\ ResetInputState
  /\ Tell(<<ActivePeerChangedMsg(slot)>>)
  /\ UNCHANGED <<host_ready, peers>>

(* An input message without an active peer is dropped.                     *)
InputIgnored ==
  /\ Decoded
  /\ ActiveConnHandle = None
  /\ UNCHANGED <<peerVars, inputVars, tx, shown>>

KeyboardState(snapshot) ==
  /\ Decoded
  /\ ActiveConnHandle # None
  /\ keyboard' = snapshot
  /\ \E ok \in Delivered(ActiveConnHandle) :
       shown' = [shown EXCEPT ![ActiveConnHandle].keyboard = IF ok THEN snapshot ELSE @]
  /\ UNCHANGED <<peerVars, consumer, touchVars, tx>>

ConsumerState(bits) ==
  /\ Decoded
  /\ ActiveConnHandle # None
  /\ consumer' = bits
  /\ \E ok \in Delivered(ActiveConnHandle) :
       shown' = [shown EXCEPT ![ActiveConnHandle].consumer = IF ok THEN bits ELSE @]
  /\ UNCHANGED <<peerVars, keyboard, touchVars, tx>>

TouchFrameMsg(frame) ==
  /\ Decoded
  /\ ActiveConnHandle # None
  /\ latest_touch' = frame /\ touch_dirty' = TRUE
  /\ UNCHANGED <<peerVars, keyboard, consumer, touch, pacing, tx, shown>>

(* uart_tx_task sends the next message.                                    *)
UartTx ==
  /\ tx # <<>>
  /\ tx' = Tail(tx)
  /\ UNCHANGED <<bleVars, peerVars, inputVars, pc, window, shown>>

-----------------------------------------------------------------------------
Ble == \/ \E h \in Handles, a \in Addrs : PeerConnects(h, a)
       \/ \E h \in Handles : PeerDrops(h)
       \/ \E bits \in LedBits : PeerWritesLeds(bits)

HandleBleEvent == HandleConnected \/ HandleDisconnected \/ HandleLedState

Flush == FlushSkipped \/ FlushUnlinked \/ FlushDue

SelectPeer == \/ SelectNone
              \/ \E slot \in SlotNumbers : SelectInvalid(slot) \/ SelectSame(slot) \/ SelectOther(slot)

HandleHostMsg == \/ \E v \in Versions : Hello(v)
                 \/ SelectPeer
                 \/ InputIgnored
                 \/ \E s \in KeyboardSnapshots : KeyboardState(s)
                 \/ \E b \in ConsumerStates : ConsumerState(b)
                 \/ \E f \in Frames : TouchFrameMsg(f)

Next == \/ Ble
        \/ HandleBleEvent \/ EventsDrained \/ Flush \/ Notify \/ PacingElapses
        \/ ReadBytes \/ ReadTimesOut \/ ReadFails \/ WindowEmpty \/ HandleHostMsg
        \/ UartTx

Spec == Init /\ [][Next]_vars

(* The loop takes its next step unless it has halted; a read returns at    *)
(* most 64 bytes, so its window ends; the drain loop outruns the stack;    *)
(* time passes; the transmit task runs.                                    *)
Fairness ==
  /\ SF_vars(HandleBleEvent) /\ SF_vars(EventsDrained)
  /\ WF_vars(Flush) /\ WF_vars(Notify) /\ WF_vars(ReadTimesOut) /\ SF_vars(WindowEmpty)
  /\ WF_vars(PacingElapses) /\ WF_vars(UartTx)

FairSpec == Spec /\ Fairness

(* The BLE stack frees a buffer again and again: of the notifications that *)
(* are tried over and over, one is accepted.                               *)
AcceptingSpec == FairSpec /\ SF_vars(Notify /\ ~touch_dirty')

-----------------------------------------------------------------------------
(* Properties.                                                             *)

Optional(S) == S \cup {None}

TypeOK ==
  /\ conns \in [Handles -> Optional(Addrs)] /\ advertising \in BOOLEAN /\ events \in Seq(BleEvent)
  /\ host_ready \in BOOLEAN /\ peers \in [Slots -> Optional(PeerSlot)]
  /\ active_slot \in Optional(Slots)
  /\ keyboard \in KeyboardSnapshots /\ consumer \in ConsumerStates
  /\ latest_touch \in TouchFrame /\ touch_dirty \in BOOLEAN
  /\ touch \in ContactMap /\ pacing \in BOOLEAN
  /\ pc \in {"drain", "flush", "notify", "read", "halted"} /\ window \in BOOLEAN
  /\ tx \in Seq(FirmwareMsg)
  /\ shown \in [Handles -> View]

(* The active slot is never an empty one, however disconnections and       *)
(* selections interleave: active_conn_handle() indexes peers with it.      *)
ActivePeerKnown == active_slot # None => peers[active_slot] # None

(* No connection holds two slots, even when the stack gives a handle out   *)
(* again before the loop has seen it dropped.                              *)
DistinctHandles ==
  \A r, s \in Slots : peers[r] # None /\ peers[s] # None /\ r # s =>
                         peers[r].conn_handle # peers[s].conn_handle

(* Once the loop has drained the events, the peer table is the set of      *)
(* connections: nobody is left out, nobody stays behind.                   *)
PeerTableTracksLinks ==
  (\A h \in Handles : ~Pending(h)) =>
     {peers[s] : s \in Slots} \ {None}
       = {[conn_handle |-> h, addr |-> conns[h]] : h \in {g \in Handles : Linked(g)}}

(* Nothing stays pressed on a peer left behind: no key, no consumer        *)
(* control and no button.  (A finger does: clear_outputs_for names no      *)
(* contact in its touch report.)                                           *)
IdlePeersReleased ==
  \A h \in Handles : h # ActiveConnHandle =>
    /\ shown[h].keyboard = NoKeys /\ shown[h].consumer = NoUsage
    /\ ~shown[h].button

(* What the session remembers of the input is what the active peer sees.   *)
ActivePeerUpToDate ==
  ActiveConnHandle # None /\ Linked(ActiveConnHandle) =>
    /\ shown[ActiveConnHandle].keyboard = keyboard
    /\ shown[ActiveConnHandle].consumer = consumer

(* The fingers that are down on the active peer and that the encoder does  *)
(* not track: no report will lift them.                                    *)
Stuck ==
  IF ActiveConnHandle # None /\ Linked(ActiveConnHandle)
    THEN shown[ActiveConnHandle].down \ DOMAIN touch
    ELSE {}

(* Only a switch leaves a finger behind.  Whatever the host sends and the  *)
(* links do while a peer stays active, no finger gets stuck on it: what a  *)
(* report puts down, the encoder tracks until a report has lifted it.  One *)
(* that was left on the peer in an earlier turn stays until its identifier *)
(* is used again.                                                          *)
NoFingerGetsStuck == [][active_slot' = active_slot => Stuck' \subseteq Stuck]_vars

(* "Retry backpressured touch notifications": the encoder alone remembers  *)
(* what is still to be lifted.  While the same peer stays active, a contact*)
(* leaves the encoder only when that peer has got its lift, so that a      *)
(* refused report can be retried.                                          *)
LiftsDelivered ==
  [][\A id \in DOMAIN touch \ DOMAIN touch' :
       active_slot' = active_slot /\ ActiveConnHandle # None /\ Linked(ActiveConnHandle) =>
         id \notin shown'[ActiveConnHandle].down]_vars

(* Conversely a contact the encoder tracks is down on the active peer.     *)
NoPhantomContact ==
  ActiveConnHandle # None /\ Linked(ActiveConnHandle) =>
    DOMAIN touch \subseteq shown[ActiveConnHandle].down

(* When no frame waits, every finger of the latest one is down on the      *)
(* active peer: a refused report is retried and its fingers arrive.  Only  *)
(* a report that failed for good, which resets the encoder, leaves them    *)
(* out.  (The report must have room for all; see SecondFrameCatchesUp.)    *)
QuietShowsFingers ==
  ~touch_dirty /\ touch # NoContacts /\ ActiveConnHandle # None /\ Linked(ActiveConnHandle) =>
    DOMAIN latest_touch.contacts \subseteq shown[ActiveConnHandle].down

(* A new active peer starts from nothing: no frame, contact or key meant   *)
(* for the old one reaches it.                                             *)
SwitchForgetsInput ==
  [][active_slot' # active_slot =>
       /\ ~touch_dirty' /\ latest_touch' = NoFrame /\ touch' = NoContacts
       /\ keyboard' = NoKeys /\ consumer' = NoUsage]_vars

(* A touch frame that waits is sent or given up.                           *)
PendingTouchDrains == touch_dirty ~> ~touch_dirty

(* Input does not stay routed to a peer that is gone.                      *)
LinkDown == ActiveConnHandle # None /\ ~Linked(ActiveConnHandle)
LinkLossNoticed == LinkDown ~> ~LinkDown

-----------------------------------------------------------------------------
(* The session implements the switch: seen from the host, what it does is  *)
(* InputSwitch.                                                            *)
PeerAddrs == [s \in Slots |-> IF peers[s] = None THEN None ELSE peers[s].addr]

Switch == INSTANCE InputSwitch WITH peers <- PeerAddrs

ImplementsSwitch == Switch!Spec
=============================================================================
