------------------------------ MODULE Trackpad ------------------------------
(***************************************************************************)
(* The way of a finger: host/src/capture/trackpad.rs, the outbox, the      *)
(* serial writer, the firmware (an InputSwitch that also passes touch      *)
(* frames on), and its answers back to the forwarding flag.                *)
(*                                                                         *)
(* mt_callback runs on another thread than the event tap, which sets the   *)
(* click state and queues the hotkeys: it reads the flag and the click     *)
(* state in one step and pushes the frame in another.  One trackpad, and   *)
(* no more fingers than fit in a frame.  Where a finger is, is left out.   *)
(***************************************************************************)
EXTENDS InputSwitch, SlotTable, Outbox, FiniteSets

CONSTANTS Fingers,
          MaxControl     \* bound: control messages in the outbox

TouchFrameMsg(fingers, button) == [type |-> "TouchFrame", contacts |-> fingers, button |-> button]
TouchFrameMsgs == [type : {"TouchFrame"}, contacts : SUBSET Fingers, button : BOOLEAN]

ASSUME TrackpadAssumption ==
  /\ IsFiniteSet(Fingers) /\ None \notin TouchFrameMsgs
  /\ MaxControl \in Nat \ {0} /\ MaxTx \in Nat \ {0, 1}

VARIABLES
  pad,            \* the fingers on the trackpad
  due,            \* a change that mt_callback has not been told of
  click_state, had_contacts,
  frame,          \* what mt_callback is about to push, or None
  outbox, table,
  tracked,        \* the fingers in the firmware's report encoder
  shown,          \* slot -> what its peer shows of the reports
  \* History, for the properties:
  asked,          \* the last target pushed
  refused,        \* the last selection that the firmware handled was no slot with a peer
  aimed           \* the target when the waiting touch frame was pushed

padVars   == <<pad, due, click_state>>
tapVars   == <<had_contacts, frame>>
touchVars == <<tracked, shown>>
history   == <<asked, refused, aimed>>
pathVars  == <<switchVars, padVars, tapVars, outbox, table, touchVars, history>>

Untouched == [down |-> {}, button |-> FALSE]

(* After the handshake with a firmware that has no peers yet.              *)
PathInit ==
  /\ host_ready = TRUE /\ peers = [s \in Slots |-> None] /\ active_slot = None /\ tx = <<>>
  /\ pad = {} /\ due = FALSE /\ click_state = FALSE
  /\ had_contacts = FALSE /\ frame = None
  /\ outbox = EmptyOutbox /\ table = NewTable
  /\ tracked = {} /\ shown = [s \in Slots |-> Untouched]
  /\ asked = None /\ refused = FALSE /\ aimed = None

-----------------------------------------------------------------------------
(* The user, and the event tap.                                            *)

FingersMove(fingers) ==
  /\ fingers # pad
  /\ pad' = fingers /\ due' = TRUE
  /\ UNCHANGED <<switchVars, click_state, tapVars, outbox, table, touchVars, history>>

(* ptp_button_transition: a mouse button, whatever the flag says.          *)
Click ==
  /\ click_state' = ~click_state
  /\ UNCHANGED <<switchVars, pad, due, tapVars, outbox, table, touchVars, history>>

(* handle_slot_hotkey.                                                     *)
Hotkey(slot) ==
  /\ slot = None \/ HasSlot(table, slot)
  /\ Len(outbox.control) < MaxControl
  /\ outbox' = Push(outbox, SelectPeerMsg(slot))
  /\ asked' = slot
  /\ UNCHANGED <<switchVars, padVars, tapVars, table, touchVars, refused, aimed>>

-----------------------------------------------------------------------------
(* mt_callback.  It is called while fingers touch and once when the last   *)
(* one has left.                                                           *)

CalledBack == due \/ pad # {}

(* Mutants: frames without fingers are left out; only the first frame with *)
(* fingers and the first without are sent.                                 *)
WorthSendingTouched == pad # {}
WorthSendingChange  == (pad # {}) # had_contacts

(* A frame without fingers is sent once.                                   *)
WorthSending == pad # {} \/ had_contacts

(* Mutant: a lift that is sent is not forgotten.                           *)
StillHadContacts == had_contacts' = (table.forwarding /\ (had_contacts \/ pad # {}))

HadContacts == had_contacts' = (table.forwarding /\ pad # {})

MtCallback ==
  /\ frame = None /\ CalledBack
  /\ due' = FALSE
  /\ frame' = IF table.forwarding /\ WorthSending THEN TouchFrameMsg(pad, click_state) ELSE None
  /\ HadContacts
  /\ UNCHANGED <<switchVars, pad, click_state, outbox, table, touchVars, history>>

MtPush ==
  /\ frame # None /\ frame' = None
  /\ outbox' = Push(outbox, frame)
  /\ aimed' = asked
  /\ UNCHANGED <<switchVars, padVars, had_contacts, table, touchVars, asked, refused>>

-----------------------------------------------------------------------------
(* The serial writer and the firmware at the other end.                    *)

(* A report without contacts: nothing is lifted, the button is let go.     *)
ButtonUp(slot) == [shown EXCEPT ![slot].button = FALSE]

(* select_peer with clear_outputs_for and reset_input_state: selecting     *)
(* nobody resets the encoder even when nobody is active.                   *)
SelectPeer(slot) ==
  /\ Select(slot)
  /\ refused' = ~(slot = None \/ Selectable(slot))
  /\ IF refused' \/ (slot # None /\ slot = active_slot)
       THEN UNCHANGED touchVars
       ELSE /\ tracked' = {}
            /\ shown' = IF active_slot = None THEN shown ELSE ButtonUp(active_slot)

(* A report of the encoder lifts what it tracked, shows the fingers of the *)
(* frame, and leaves the others of the peer alone.  A frame without        *)
(* fingers gives none when nothing is tracked.                             *)
Touches(msg) ==
  IF active_slot = None \/ (msg.contacts = {} /\ tracked = {})
    THEN UNCHANGED touchVars
    ELSE /\ tracked' = msg.contacts
         /\ shown' = [shown EXCEPT ![active_slot] =
                        [down |-> (@.down \ tracked) \cup msg.contacts, button |-> msg.button]]

FirmwareReceives ==
  /\ ~IsEmpty(outbox)
  /\ outbox' = Rest(outbox)
  /\ LET msg == Received(outbox)
     IN  IF msg.type = "SelectPeer" THEN SelectPeer(msg.slot)
                                    ELSE Touches(msg) /\ UNCHANGED <<switchVars, refused>>
  /\ UNCHANGED <<padVars, tapVars, table, asked, aimed>>

(* A peer that comes shows nothing yet.  With the active one the encoder   *)
(* forgets its fingers.                                                    *)
Forgets ==
  /\ tracked' = IF active_slot' = active_slot THEN tracked ELSE {}
  /\ shown' = [s \in Slots |-> IF peers'[s] = peers[s] THEN shown[s] ELSE Untouched]

PeersComeAndGo ==
  /\ PeersChange /\ Forgets
  /\ UNCHANGED <<padVars, tapVars, outbox, table, history>>

(* Reader and fw-events: the mirror and with it the flag follow.           *)
HostHears ==
  /\ Deliver
  /\ table' = Apply(table, Head(tx))
  /\ UNCHANGED <<padVars, tapVars, outbox, touchVars, history>>

(* The program ends and is started again; the firmware stays as it is, and *)
(* tells its snapshot.                                                     *)
HostRestarts ==
  /\ had_contacts' = FALSE /\ frame' = None /\ click_state' = FALSE
  /\ outbox' = EmptyOutbox /\ tx' = <<>>
  /\ table' = ApplySnapshot(NewTable, Snapshot)
  /\ asked' = active_slot /\ aimed' = active_slot /\ refused' = FALSE
  /\ UNCHANGED <<host_ready, peers, active_slot, pad, due, touchVars>>

-----------------------------------------------------------------------------
PathNext ==
  \/ \E fingers \in SUBSET Fingers : FingersMove(fingers)
  \/ Click
  \/ \E slot \in Slots \cup {None} : Hotkey(slot)
  \/ MtCallback \/ MtPush
  \/ FirmwareReceives \/ PeersComeAndGo
  \/ HostHears \/ HostRestarts

PathSpec == PathInit /\ [][PathNext]_pathVars

(* Threads run and bytes arrive; the trackpad calls back.                  *)
PathFairness ==
  /\ WF_pathVars(MtCallback) /\ WF_pathVars(MtPush)
  /\ WF_pathVars(FirmwareReceives) /\ WF_pathVars(HostHears)

FairPathSpec == PathSpec /\ PathFairness

-----------------------------------------------------------------------------
(* Properties.                                                             *)

PathTypeOK ==
  /\ host_ready \in BOOLEAN /\ peers \in [Slots -> Addrs \cup {None}]
  /\ active_slot \in Slots \cup {None} /\ tx \in Seq(FirmwareMsg)
  /\ pad \subseteq Fingers /\ due \in BOOLEAN /\ click_state \in BOOLEAN
  /\ had_contacts \in BOOLEAN /\ frame \in TouchFrameMsgs \cup {None}
  /\ frame # None => had_contacts = (frame.contacts # {})
  /\ outbox.control \in Seq(ControlMsg) /\ outbox.latest_touch \in TouchFrameMsgs \cup {None}
  /\ table \in SlotTables
  /\ tracked \subseteq Fingers /\ refused \in BOOLEAN
  /\ shown \in [Slots -> [down : SUBSET Fingers, button : BOOLEAN]]

(* A touch frame that is sent next goes to the peer that was selected when *)
(* it was queued, although the selections overtake it, or to nobody once   *)
(* that peer has left.  Only when the firmware refuses that selection does *)
(* it go to the peer before: that one stays active then.                   *)
FrameReachesTarget ==
  outbox.latest_touch # None /\ outbox.control = <<>> /\ active_slot # None /\ ~refused
    => active_slot = aimed

(* When fingers rest on the pad and a peer stays selected, that peer shows *)
(* them in the end, and the button as it is, and the encoder tracks these  *)
(* fingers and no other: it will lift them, and nothing that a lost lift   *)
(* or a restarted host has left in it stays.                               *)
Resting(fingers, button) ==
  pad = fingers /\ click_state = button /\ active_slot # None /\ outbox.control = <<>>
CaughtUp(fingers, button) ==
  /\ active_slot # None /\ tracked = fingers
  /\ fingers \subseteq shown[active_slot].down /\ shown[active_slot].button = button
TouchCatchesUp ==
  \A fingers \in SUBSET Fingers \ {{}}, button \in BOOLEAN :
    <>[]Resting(fingers, button) /\ <>[][~HostRestarts]_pathVars => <>[]CaughtUp(fingers, button)

(* A lift that the host owes the peer goes from mt_callback to the outbox  *)
(* and on to the encoder, which then tracks nothing.  It is lost on the    *)
(* way in three places and no other: by a hotkey that empties the outbox,  *)
(* by a callback that finds the flag down, and with a host that ends.      *)
IsLift(msg) == msg # None /\ msg.contacts = {}
Owed == had_contacts \/ IsLift(frame) \/ IsLift(outbox.latest_touch)
LiftLost == Owed /\ ~Owed' /\ tracked' # {}
LiftsLostOnly ==
  [][LiftLost => \/ \E slot \in Slots \cup {None} : Hotkey(slot)
                 \/ MtCallback /\ ~table.forwarding
                 \/ HostRestarts]_pathVars
=============================================================================
