--------------------------- MODULE TrackpadProofs ---------------------------
(***************************************************************************)
(* What TLAPS proves about the way of a finger, for any trackpad, any      *)
(* number of peers, however long the queues and however often the host     *)
(* restarts: the types, that a touch frame reaches the peer that was       *)
(* selected when it was queued, and where alone a lift can be lost.        *)
(***************************************************************************)
EXTENDS Trackpad, SwitchLemmas

-----------------------------------------------------------------------------
(* The outbox.  Of the control messages only selections matter here; the   *)
(* queue's last one is the target that the user asked for.                 *)

Selections == [type : {"SelectPeer"}, slot : Slots \cup {None}]

Outboxes == [control : Seq(Selections), latest_touch : TouchFrameMsgs \cup {None}]

LastOf(queue) == queue[Len(queue)]

LEMMA SelectionsAreControl == Selections \subseteq ControlMsg
  BY WireAssumption DEF Selections, ControlMsg, Slots, SlotNumbers, WireAssumption

LEMMA EmptyOutboxType == EmptyOutbox \in Outboxes
  BY DEF EmptyOutbox, Outboxes

(* A selection goes behind the others and throws the waiting frame away.   *)
LEMMA PushSelection ==
  ASSUME NEW box \in Outboxes, NEW slot \in Slots \cup {None}
  PROVE  LET next == Push(box, SelectPeerMsg(slot))
         IN  /\ next \in Outboxes /\ next.latest_touch = None
             /\ next.control # <<>> /\ LastOf(next.control).slot = slot
  <1> DEFINE msg  == SelectPeerMsg(slot)
             next == Push(box, msg)
  <1>1. msg \in Selections /\ msg.type = "SelectPeer" /\ msg.slot = slot
    BY DEF SelectPeerMsg, Selections
  <1>2. next = [control |-> Append(box.control, msg), latest_touch |-> None]
    BY <1>1 DEF Push
  <1>3. box.control \in Seq(Selections)
    BY DEF Outboxes
  <1>4. /\ Append(box.control, msg) \in Seq(Selections) /\ Append(box.control, msg) # <<>>
        /\ LastOf(Append(box.control, msg)) = msg
    BY <1>1, <1>3, AppendProperties DEF LastOf
  <1> HIDE DEF next, msg
  <1> QED
    BY <1>1, <1>2, <1>4 DEF Outboxes, next, msg

(* A touch frame replaces the one that waits and leaves the queue alone.   *)
LEMMA PushFrame ==
  ASSUME NEW box \in Outboxes, NEW msg \in TouchFrameMsgs
  PROVE  Push(box, msg) = [control |-> box.control, latest_touch |-> msg]
  BY DEF Push, Outboxes, TouchFrameMsgs

(* What is received next, and what then waits.                             *)
LEMMA ReceiveSelection ==
  ASSUME NEW box \in Outboxes, box.control # <<>>
  PROVE  /\ Received(box) = Head(box.control) /\ Received(box) \in Selections
         /\ Rest(box) = [control |-> Tail(box.control), latest_touch |-> box.latest_touch]
         /\ Rest(box) \in Outboxes
         /\ IF Tail(box.control) = <<>> THEN Received(box) = LastOf(box.control)
                                        ELSE LastOf(Tail(box.control)) = LastOf(box.control)
  <1>1. box.control \in Seq(Selections)
    BY DEF Outboxes
  <1>2. Head(box.control) \in Selections /\ Tail(box.control) \in Seq(Selections)
    BY <1>1, HeadTailProperties
  <1>3. Received(box) = Head(box.control)
        /\ Rest(box) = [control |-> Tail(box.control), latest_touch |-> box.latest_touch]
    BY DEF Received, Rest, Outboxes
  <1>4. IF Tail(box.control) = <<>> THEN Head(box.control) = LastOf(box.control)
                                    ELSE LastOf(Tail(box.control)) = LastOf(box.control)
    <2>1. Len(box.control) \in Nat \ {0} /\ Len(Tail(box.control)) = Len(box.control) - 1
      BY <1>1, HeadTailProperties, EmptySeq
    <2>2. CASE Tail(box.control) = <<>>
      BY <1>1, <2>1, <2>2 DEF LastOf
    <2>3. CASE Tail(box.control) # <<>>
      <3>1. Len(Tail(box.control)) \in 1 .. Len(Tail(box.control))
        BY <1>2, <2>1, <2>3, EmptySeq
      <3> QED
        BY <1>1, <2>1, <2>3, <3>1 DEF LastOf
    <2> QED
      BY <2>2, <2>3
  <1> QED
    BY <1>2, <1>3, <1>4 DEF Outboxes

LEMMA ReceiveFrame ==
  ASSUME NEW box \in Outboxes, box.control = <<>>, ~IsEmpty(box)
  PROVE  /\ Received(box) = box.latest_touch /\ Received(box) \in TouchFrameMsgs
         /\ Rest(box) = [control |-> <<>>, latest_touch |-> None]
         /\ Rest(box) \in Outboxes
  BY DEF Received, Rest, IsEmpty, Outboxes

-----------------------------------------------------------------------------
(* The inductive invariant.  A frame that waits was queued for the last    *)
(* target asked for, since each selection drops the frames before it; and  *)
(* once the queue of selections is empty, the firmware has handled that    *)
(* last one: it made that slot active, which then may have lost its peer,  *)
(* or refused it.  FrameReachesTarget alone says nothing while selections  *)
(* wait.                                                                   *)

TargetInv ==
  /\ outbox \in Outboxes /\ refused \in BOOLEAN
  /\ outbox.latest_touch # None => aimed = asked
  /\ IF outbox.control = <<>> THEN refused \/ active_slot \in {asked, None}
                             ELSE LastOf(outbox.control).slot = asked

(* The frame in mt_callback's hands, as it remembers it.                   *)
FrameInv ==
  /\ frame \in TouchFrameMsgs \cup {None}
  /\ frame # None => (had_contacts <=> frame.contacts # {})

LocalTyped ==
  /\ pad \subseteq Fingers /\ due \in BOOLEAN /\ click_state \in BOOLEAN /\ had_contacts \in BOOLEAN

(* The encoder tracks nothing for nobody.                                  *)
TouchInv ==
  /\ tracked \subseteq Fingers /\ shown \in [Slots -> [down : SUBSET Fingers, button : BOOLEAN]]
  /\ active_slot = None => tracked = {}

PathInv == SwitchTyped /\ LocalTyped /\ FrameInv /\ TargetInv /\ TouchInv /\ Sound(table)

LEMMA PathInvTypes == PathInv => PathTypeOK
  <1> SUFFICES ASSUME PathInv PROVE PathTypeOK
    OBVIOUS
  <1>1. frame # None => had_contacts = (frame.contacts # {})
    BY DEF PathInv, FrameInv, LocalTyped
  <1>2. outbox.control \in Seq(Selections) /\ outbox.latest_touch \in TouchFrameMsgs \cup {None}
    BY DEF PathInv, TargetInv, Outboxes
  <1>3. outbox.control \in Seq(ControlMsg)
    BY <1>2, SelectionsAreControl
  <1> QED
    BY <1>1, <1>2, <1>3 DEF PathInv, SwitchTyped, LocalTyped, FrameInv, TargetInv, TouchInv, Sound, PathTypeOK

LEMMA PathInvInit == PathInit => PathInv
  <1> SUFFICES ASSUME PathInit PROVE PathInv
    OBVIOUS
  <1>1. Sound(table)
    BY NewTableSound DEF PathInit
  <1>2. TargetInv
    BY EmptyOutboxType DEF PathInit, EmptyOutbox, TargetInv
  <1>3. SwitchTyped
    BY DEF PathInit, SwitchTyped
  <1>4. LocalTyped /\ FrameInv /\ TouchInv
    BY DEF PathInit, LocalTyped, FrameInv, TouchInv, Untouched
  <1> QED
    BY <1>1, <1>2, <1>3, <1>4 DEF PathInv

(* The user.                                                               *)
LEMMA UserKeepsPath ==
  ASSUME PathInv, (\E fingers \in SUBSET Fingers : FingersMove(fingers)) \/ Click
  PROVE  PathInv'
  <1>1. LocalTyped'
    BY DEF PathInv, LocalTyped, FingersMove, Click, tapVars
  <1>2. UNCHANGED <<switchVars, tapVars, outbox, table, touchVars, history>>
    BY DEF FingersMove, Click
  <1> QED
    BY <1>1, <1>2 DEF PathInv, SwitchTyped, FrameInv, TargetInv, TouchInv, Sound, HasSlot,
                      switchVars, tapVars, touchVars, history

LEMMA HotkeyKeepsPath ==
  ASSUME PathInv, NEW slot \in Slots \cup {None}, Hotkey(slot)
  PROVE  PathInv'
  <1>1. TargetInv'
    <2>1. outbox' = Push(outbox, SelectPeerMsg(slot)) /\ asked' = slot
      BY DEF Hotkey
    <2>2. outbox' \in Outboxes /\ outbox'.latest_touch = None
          /\ outbox'.control # <<>> /\ LastOf(outbox'.control).slot = slot
      BY <2>1, PushSelection DEF PathInv, TargetInv
    <2> QED
      BY <2>1, <2>2 DEF Hotkey, PathInv, TargetInv
  <1> QED
    BY <1>1 DEF Hotkey, PathInv, SwitchTyped, LocalTyped, FrameInv, TouchInv, Sound, HasSlot,
                switchVars, padVars, tapVars, touchVars

LEMMA CallbackKeepsPath ==
  ASSUME PathInv, MtCallback
  PROVE  PathInv'
  <1>1. table.forwarding \in BOOLEAN /\ pad \subseteq Fingers /\ click_state \in BOOLEAN
    BY DEF PathInv, Sound, SlotTables, LocalTyped
  <1>2. had_contacts' \in BOOLEAN /\ (had_contacts' <=> table.forwarding /\ pad # {})
    BY <1>1 DEF MtCallback, HadContacts
  <1>3. FrameInv'
    <2>1. CASE table.forwarding /\ WorthSending
      <3>1. frame' = TouchFrameMsg(pad, click_state)
        BY <2>1 DEF MtCallback
      <3>2. frame' \in TouchFrameMsgs /\ frame'.contacts = pad
        BY <1>1, <3>1 DEF TouchFrameMsg, TouchFrameMsgs
      <3> QED
        BY <1>2, <2>1, <3>2 DEF FrameInv
    <2>2. CASE ~(table.forwarding /\ WorthSending)
      BY <2>2 DEF MtCallback, FrameInv
    <2> QED
      BY <2>1, <2>2
  <1>4. LocalTyped'
    BY <1>2 DEF MtCallback, PathInv, LocalTyped
  <1> QED
    BY <1>3, <1>4 DEF MtCallback, PathInv, SwitchTyped, TargetInv, TouchInv, Sound, HasSlot,
                            switchVars, touchVars, history

LEMMA PushKeepsPath ==
  ASSUME PathInv, MtPush
  PROVE  PathInv'
  <1>1. TargetInv'
    <2>1. frame \in TouchFrameMsgs /\ outbox \in Outboxes
      BY DEF MtPush, PathInv, FrameInv, TargetInv
    <2>2. outbox' = [control |-> outbox.control, latest_touch |-> frame]
      BY <2>1, PushFrame DEF MtPush
    <2>3. outbox' \in Outboxes
      BY <2>1, <2>2 DEF Outboxes
    <2> QED
      BY <2>2, <2>3 DEF MtPush, PathInv, TargetInv, switchVars
  <1>2. FrameInv'
    BY DEF MtPush, FrameInv
  <1> QED
    BY <1>1, <1>2 DEF MtPush, PathInv, SwitchTyped, LocalTyped, TouchInv, Sound, HasSlot,
                      switchVars, padVars, touchVars

-----------------------------------------------------------------------------
(* The firmware.  A selection, a report that is applied, a peer that comes *)
(* or goes.                                                                *)

LEMMA SelectionTouches ==
  ASSUME PathInv, NEW slot \in Slots \cup {None}, SelectPeer(slot)
  PROVE  /\ TouchInv'
         /\ refused' \in BOOLEAN /\ (refused' \/ active_slot' = slot)
  <1>1. active_slot \in Slots \cup {None}
    BY DEF PathInv, SwitchTyped
  <1>2. refused' \in BOOLEAN /\ (refused' <=> ~(slot = None \/ Selectable(slot)))
    BY DEF SelectPeer
  <1>3. active_slot' = IF refused' THEN active_slot ELSE slot
    BY <1>2 DEF SelectPeer, Select
  <1>4. CASE refused' \/ (slot # None /\ slot = active_slot)
    <2>1. UNCHANGED <<tracked, shown>> /\ active_slot' = active_slot
      BY <1>3, <1>4 DEF SelectPeer, touchVars
    <2> QED
      BY <1>2, <1>3, <2>1 DEF PathInv, TouchInv
  <1>5. CASE ~(refused' \/ (slot # None /\ slot = active_slot))
    <2>1. tracked' = {} /\ shown' = IF active_slot = None THEN shown ELSE ButtonUp(active_slot)
      BY <1>5 DEF SelectPeer
    <2>2. shown' \in [Slots -> [down : SUBSET Fingers, button : BOOLEAN]]
      BY <1>1, <2>1 DEF PathInv, TouchInv, ButtonUp
    <2> QED
      BY <1>2, <1>3, <2>1, <2>2 DEF TouchInv
  <1> QED
    BY <1>4, <1>5

LEMMA TouchesTyped ==
  ASSUME PathInv, NEW msg \in TouchFrameMsgs, Touches(msg), UNCHANGED active_slot
  PROVE  TouchInv'
  <1>1. active_slot \in Slots \cup {None}
    BY DEF PathInv, SwitchTyped
  <1>2. CASE active_slot = None \/ (msg.contacts = {} /\ tracked = {})
    BY <1>2 DEF PathInv, TouchInv, Touches, touchVars
  <1>3. CASE ~(active_slot = None \/ (msg.contacts = {} /\ tracked = {}))
    <2>1. active_slot \in Slots /\ msg.contacts \subseteq Fingers /\ msg.button \in BOOLEAN
      BY <1>1, <1>3 DEF TouchFrameMsgs
    <2>2. /\ tracked' = msg.contacts
          /\ shown' = [shown EXCEPT ![active_slot] =
                         [down |-> (@.down \ tracked) \cup msg.contacts, button |-> msg.button]]
      BY <1>3 DEF Touches
    <2> QED
      BY <1>3, <2>1, <2>2 DEF PathInv, TouchInv
  <1> QED
    BY <1>2, <1>3

LEMMA ReceiveKeepsPath ==
  ASSUME PathInv, FirmwareReceives
  PROVE  PathInv'
  <1>1. outbox \in Outboxes /\ ~IsEmpty(outbox) /\ outbox' = Rest(outbox) /\ UNCHANGED <<asked, aimed>>
    BY DEF FirmwareReceives, PathInv, TargetInv
  <1> DEFINE msg == Received(outbox)
  <1>2. CASE outbox.control # <<>>
    <2>1. msg \in Selections
          /\ outbox' = [control |-> Tail(outbox.control), latest_touch |-> outbox.latest_touch]
          /\ outbox' \in Outboxes
          /\ IF Tail(outbox.control) = <<>> THEN msg = LastOf(outbox.control)
                                            ELSE LastOf(Tail(outbox.control)) = LastOf(outbox.control)
      BY <1>1, <1>2, ReceiveSelection
    <2>2. msg.type = "SelectPeer" /\ msg.slot \in Slots \cup {None}
      BY <2>1 DEF Selections
    <2> HIDE DEF msg
    <2>3. SelectPeer(msg.slot)
      BY <2>2 DEF FirmwareReceives, msg
    <2>4. SwitchTyped'
      <3>1. msg.slot \in SlotNumbers \cup {None}
        BY <2>2, WireAssumption DEF Slots, SlotNumbers, WireAssumption
      <3> QED
        BY <2>3, <3>1, SelectTyped DEF PathInv, SelectPeer
    <2>5. TouchInv' /\ refused' \in BOOLEAN /\ (refused' \/ active_slot' = msg.slot)
      BY <2>2, <2>3, SelectionTouches
    <2>6. TargetInv'
      <3>1. LastOf(outbox.control).slot = asked /\ (outbox.latest_touch # None => aimed = asked)
        BY <1>2 DEF PathInv, TargetInv
      <3>2. CASE Tail(outbox.control) = <<>>
        BY <1>1, <2>1, <2>5, <3>1, <3>2 DEF TargetInv
      <3>3. CASE Tail(outbox.control) # <<>>
        BY <1>1, <2>1, <2>5, <3>1, <3>3 DEF TargetInv
      <3> QED
        BY <3>2, <3>3
    <2> QED
      BY <2>4, <2>5, <2>6 DEF FirmwareReceives, PathInv, LocalTyped, FrameInv, Sound, HasSlot, padVars, tapVars
  <1>3. CASE outbox.control = <<>>
    <2>1. msg \in TouchFrameMsgs /\ outbox' = [control |-> <<>>, latest_touch |-> None] /\ outbox' \in Outboxes
      BY <1>1, <1>3, ReceiveFrame
    <2>2. msg.type # "SelectPeer"
      BY <2>1 DEF TouchFrameMsgs
    <2> HIDE DEF msg
    <2>3. Touches(msg) /\ UNCHANGED <<switchVars, refused>>
      BY <2>2 DEF FirmwareReceives, msg
    <2>4. TargetInv'
      BY <1>1, <1>3, <2>1, <2>3 DEF PathInv, TargetInv, switchVars
    <2>5. TouchInv'
      BY <2>1, <2>3, TouchesTyped DEF switchVars
    <2> QED
      BY <2>3, <2>4, <2>5 DEF FirmwareReceives, PathInv, SwitchTyped, LocalTyped, FrameInv, Sound, HasSlot,
                              switchVars, padVars, tapVars
  <1> QED
    BY <1>2, <1>3

LEMMA PeersKeepPath ==
  ASSUME PathInv, PeersComeAndGo
  PROVE  PathInv'
  <1>1. SwitchTyped'
    BY JoinTyped, LeaveTyped DEF PathInv, PeersComeAndGo, PeersChange
  <1>2. active_slot' \in {active_slot, None}
    BY DEF PeersComeAndGo, PeersChange, Join, Leave
  <1>3. TargetInv'
    <2>1. UNCHANGED <<outbox, asked, refused, aimed>>
      BY DEF PeersComeAndGo, history
    <2> QED
      BY <1>2, <2>1 DEF PathInv, TargetInv
  <1>4. TouchInv'
    <2>1. tracked' \in {tracked, {}} /\ (active_slot' = None => tracked' = {})
      BY DEF PeersComeAndGo, Forgets, PathInv, TouchInv
    <2>2. shown' \in [Slots -> [down : SUBSET Fingers, button : BOOLEAN]]
      BY DEF PeersComeAndGo, Forgets, PathInv, TouchInv, Untouched
    <2> QED
      BY <2>1, <2>2 DEF PathInv, TouchInv
  <1> QED
    BY <1>1, <1>3, <1>4 DEF PeersComeAndGo, PathInv, LocalTyped, FrameInv, Sound, HasSlot,
                            padVars, tapVars

LEMMA HearsKeepsPath ==
  ASSUME PathInv, HostHears
  PROVE  PathInv'
  <1>1. SwitchTyped' /\ Head(tx) \in FirmwareMsg
    BY DeliverTyped DEF PathInv, HostHears
  <1>2. Sound(table')
    BY <1>1, ApplySound DEF PathInv, HostHears
  <1> QED
    BY <1>1, <1>2 DEF HostHears, Deliver, PathInv, LocalTyped, FrameInv, TargetInv, TouchInv, Sound, HasSlot,
                      padVars, tapVars, touchVars, history

LEMMA RestartKeepsPath ==
  ASSUME PathInv, HostRestarts
  PROVE  PathInv'
  <1>1. Sound(table')
    <2>1. NewTable \in SlotTables
      BY NewTableSound DEF Sound
    <2>2. Snapshot \in PeerSnapshot
      BY SnapshotType DEF PathInv
    <2> QED
      BY <2>1, <2>2, ApplySnapshotSound DEF HostRestarts
  <1>2. TargetInv'
    BY EmptyOutboxType DEF HostRestarts, EmptyOutbox, TargetInv
  <1>3. SwitchTyped'
    BY DEF HostRestarts, PathInv, SwitchTyped
  <1> QED
    BY <1>1, <1>2, <1>3 DEF HostRestarts, PathInv, LocalTyped, FrameInv, TouchInv, Sound, HasSlot,
                            touchVars

LEMMA PathInvStep == PathInv /\ [PathNext]_pathVars => PathInv'
  <1> SUFFICES ASSUME PathInv, [PathNext]_pathVars PROVE PathInv'
    OBVIOUS
  <1>1. CASE UNCHANGED pathVars
    BY <1>1 DEF pathVars, PathInv, SwitchTyped, LocalTyped, FrameInv, TargetInv, TouchInv, Sound, HasSlot,
                switchVars, padVars, tapVars, touchVars, history
  <1> QED
    BY <1>1, UserKeepsPath, HotkeyKeepsPath, CallbackKeepsPath, PushKeepsPath, ReceiveKeepsPath, PeersKeepPath,
       HearsKeepsPath, RestartKeepsPath DEF PathNext

LEMMA PathInvariant == PathSpec => []PathInv
  BY PathInvInit, PathInvStep, PTL DEF PathSpec

-----------------------------------------------------------------------------
(* Type correctness of the callback, the outbox, the wire and the mirror;  *)
(* a frame about to be pushed has fingers exactly if mt_callback remembers *)
(* that it had.                                                            *)
THEOREM PathTypeCorrect == PathSpec => []PathTypeOK
  BY PathInvariant, PathInvTypes, PTL

(* A touch frame that may be sent next goes to the peer that was selected  *)
(* when it was queued, unless the firmware refused that selection:         *)
(* whatever overtakes the frame in the outbox, whatever peers come, go or  *)
(* are selected, and however often the host restarts.                      *)
THEOREM FrameAlwaysReachesTarget == PathSpec => []FrameReachesTarget
  <1>1. PathInv => FrameReachesTarget
    BY DEF PathInv, TargetInv, FrameReachesTarget
  <1> QED
    BY <1>1, PathInvariant, PTL

(* A lift that is owed is never lost but to a hotkey, to a callback that   *)
(* finds the flag down, or to the end of the host.  It moves on from one   *)
(* step to the next: mt_callback builds the frame as it forgets, the frame *)
(* stays in its hands or in the outbox, and a newer one that takes its     *)
(* place has fingers, which will owe a lift again.                         *)
LEMMA LiftStep == PathInv /\ [PathNext]_pathVars =>
  [LiftLost => \/ \E slot \in Slots \cup {None} : Hotkey(slot)
               \/ MtCallback /\ ~table.forwarding
               \/ HostRestarts]_pathVars
  <1> SUFFICES ASSUME PathInv, PathNext, Owed, ~Owed', tracked' # {},
                      ~(\E slot \in Slots \cup {None} : Hotkey(slot)),
                      ~(MtCallback /\ ~table.forwarding), ~HostRestarts
               PROVE  FALSE
    BY DEF LiftLost
  <1>1. CASE MtCallback
    <2>1. table.forwarding /\ frame = None /\ (had_contacts' <=> pad # {}) /\ UNCHANGED outbox
      BY <1>1 DEF MtCallback, HadContacts
    <2>2. pad = {} /\ ~IsLift(outbox.latest_touch)
      BY <2>1 DEF Owed
    <2>3. had_contacts
      BY <2>1, <2>2 DEF Owed, IsLift
    <2>4. frame' = TouchFrameMsg(pad, click_state)
      BY <1>1, <2>1, <2>3 DEF MtCallback, WorthSending
    <2>5. frame' # None /\ frame'.contacts = {}
      <3>1. frame' \in TouchFrameMsgs
        BY <2>4 DEF TouchFrameMsg, TouchFrameMsgs, PathInv, LocalTyped
      <3> QED
        BY <2>2, <2>4, <3>1, TrackpadAssumption DEF TouchFrameMsg, TrackpadAssumption
    <2> QED
      BY <2>5 DEF Owed, IsLift
  <1>2. CASE MtPush
    <2>1. frame \in TouchFrameMsgs /\ outbox \in Outboxes /\ frame # None
      BY <1>2 DEF MtPush, PathInv, FrameInv, TargetInv
    <2>2. outbox'.latest_touch = frame /\ UNCHANGED had_contacts
      BY <1>2, <2>1, PushFrame DEF MtPush
    <2>3. frame.contacts # {}
      BY <2>1, <2>2 DEF Owed, IsLift
    <2>4. had_contacts
      BY <2>1, <2>3 DEF PathInv, FrameInv
    <2> QED
      BY <2>2, <2>4 DEF Owed
  <1>3. CASE FirmwareReceives
    <2>1. outbox \in Outboxes /\ ~IsEmpty(outbox) /\ outbox' = Rest(outbox) /\ UNCHANGED <<had_contacts, frame>>
      BY <1>3 DEF FirmwareReceives, PathInv, TargetInv, tapVars
    <2>2. CASE outbox.control # <<>>
      <3>1. outbox'.latest_touch = outbox.latest_touch
        BY <2>1, <2>2, ReceiveSelection
      <3> QED
        BY <2>1, <3>1 DEF Owed
    <2>3. CASE outbox.control = <<>>
      <3>1. Received(outbox) = outbox.latest_touch /\ Received(outbox) \in TouchFrameMsgs
        BY <2>1, <2>3, ReceiveFrame
      <3>2. outbox.latest_touch.contacts = {}
        BY <2>1 DEF Owed, IsLift
      <3>3. Touches(outbox.latest_touch)
        BY <1>3, <3>1 DEF FirmwareReceives, TouchFrameMsgs
      <3>4. tracked' = {}
        BY <3>2, <3>3 DEF Touches, touchVars, PathInv, TouchInv
      <3> QED
        BY <3>4
    <2> QED
      BY <2>2, <2>3
  <1>4. CASE Click \/ PeersComeAndGo \/ HostHears \/ \E fingers \in SUBSET Fingers : FingersMove(fingers)
    BY <1>4 DEF Click, PeersComeAndGo, HostHears, FingersMove, tapVars, Owed
  <1> QED
    BY <1>1, <1>2, <1>3, <1>4 DEF PathNext

THEOREM LiftsAreLostOnly == PathSpec => LiftsLostOnly
  BY LiftStep, PathInvariant, PTL DEF PathSpec, LiftsLostOnly
=============================================================================
