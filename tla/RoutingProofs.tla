---------------------------- MODULE RoutingProofs ----------------------------
(***************************************************************************)
(* What TLAPS proves about the views of the peers: what each of them was   *)
(* last told, next to what the session remembers.  The theorems name the   *)
(* faults that break them; TLC shows that each of these does.              *)
(***************************************************************************)
EXTENDS SessionProofs, WellFoundedInduction

-----------------------------------------------------------------------------
(* Who the active peer is, and how it changes.                             *)

LEMMA ActiveHasSlot ==
  ASSUME SafeInv, ActiveConnHandle # None
  PROVE  /\ active_slot \in Slots /\ HasHandle(active_slot, ActiveConnHandle)
         /\ ActiveConnHandle \in Handles
  BY HandleType DEF SafeInv, TypeOK, Optional, ActiveConnHandle, HasHandle

(* Without reuse, a handle that some slot has is not given out again: its  *)
(* drop is on the way, and the stack waits for the loop to see it.         *)
LEMMA HandleNotGivenTwice ==
  ASSUME TypeOK, QueueInv, "reuse" \notin Faults,
         NEW h \in Handles, NEW a \in Addrs, PeerConnects(h, a), NEW s \in Slots
  PROVE  ~HasHandle(s, h)
  <1>1. ~Linked(h) /\ ~Pending(h)
    BY DEF PeerConnects
  <1>2. ~\E k \in 1 .. Len(events) : Disconnects(events[k], h)
    BY <1>1 DEF Pending, Disconnects, TypeOK
  <1> QED
    BY <1>1, <1>2 DEF QueueInv, DropOnItsWay

LEMMA ActiveNotGivenTwice ==
  ASSUME SafeInv, QueueInv, "reuse" \notin Faults,
         NEW h \in Handles, NEW a \in Addrs, PeerConnects(h, a)
  PROVE  h # ActiveConnHandle
  <1>1. TypeOK /\ None \notin Handles
    BY SessionAssumption DEF SafeInv, SessionAssumption
  <1> QED
    BY <1>1, ActiveHasSlot, HandleNotGivenTwice

LEMMA UnroutedKeepsActive ==
  ASSUME Unrouted \/ UNCHANGED vars
  PROVE  UNCHANGED <<active_slot, ActiveConnHandle>>
  BY UnroutedKeeps DEF ActiveConnHandle, vars, peerVars

LEMMA ConnectedKeepsActive ==
  ASSUME SafeInv, HandleConnected
  PROVE  UNCHANGED ActiveConnHandle
  <1> DEFINE p == [conn_handle |-> Head(events).conn_handle, addr |-> Head(events).addr]
  <1>1. active_slot' = active_slot /\ peers \in [Slots -> Optional(PeerSlot)]
        /\ active_slot \in Optional(Slots) /\ (active_slot # None => peers[active_slot] # None)
    BY DEF SafeInv, TypeOK, ActivePeerKnown, HandleConnected
  <1>2. peers' = peers \/ \E s \in Slots : peers[s] = None /\ peers' = [peers EXCEPT ![s] = p]
    BY DEF HandleConnected, FirstFreeSlot
  <1> HIDE DEF p
  <1>3. active_slot # None => peers'[active_slot] = peers[active_slot]
    BY <1>1, <1>2 DEF Optional
  <1> QED
    BY <1>1, <1>3 DEF ActiveConnHandle

(* The active peer goes only with its own connection.                      *)
LEMMA DisconnectedActive ==
  ASSUME SafeInv, HandleDisconnected
  PROVE  \/ UNCHANGED <<ActiveConnHandle, inputVars>>
         \/ ActiveConnHandle' = None /\ Head(events).conn_handle = ActiveConnHandle
  <1>1. peers \in [Slots -> Optional(PeerSlot)] /\ active_slot \in Optional(Slots)
    BY DEF SafeInv, TypeOK
  <1>2. CASE UNCHANGED <<peers, active_slot, inputVars>>
    BY <1>2 DEF ActiveConnHandle
  <1>3. ASSUME NEW s \in Slots, SlotForConnHandle(s, Head(events).conn_handle),
               peers' = [peers EXCEPT ![s] = None], active_slot = s, active_slot' = None
        PROVE  ActiveConnHandle' = None /\ Head(events).conn_handle = ActiveConnHandle
    <2>1. active_slot # None
      BY <1>3, WireAssumption DEF WireAssumption, Slots
    <2> QED
      BY <1>3, <2>1 DEF ActiveConnHandle, SlotForConnHandle, HasHandle
  <1>4. ASSUME NEW s \in Slots, peers' = [peers EXCEPT ![s] = None], active_slot # s,
               UNCHANGED <<active_slot, inputVars>>
        PROVE  UNCHANGED <<ActiveConnHandle, inputVars>>
    <2>1. active_slot # None => peers'[active_slot] = peers[active_slot]
      BY <1>1, <1>4 DEF Optional
    <2> QED
      BY <1>4, <2>1 DEF ActiveConnHandle
  <1> QED
    BY <1>2, <1>3, <1>4 DEF HandleDisconnected

-----------------------------------------------------------------------------
(* What a step does to the views: only the active peer is told anything,   *)
(* and only while it is connected; a drop erases what it was told.         *)

UnlinkedReleased == \A h \in Handles : ~Linked(h) => shown[h] = Released

Clear(view) == view.keyboard = NoKeys /\ view.consumer = NoUsage /\ ~view.button

(* clear_outputs_for: nothing but the fingers survives an accepted one.    *)
LEMMA ClearReleases ==
  ASSUME TypeOK, ClearActiveOutputs
  PROVE  /\ \A h \in Handles : shown'[h].down = shown[h].down
         /\ \A h \in Handles : h # ActiveConnHandle \/ ~Linked(h) => shown'[h] = shown[h]
         /\ Faults \cap {"backpressure", "error"} = {} =>
              \A h \in Handles : h = ActiveConnHandle /\ Linked(h) => Clear(shown'[h])
  <1> DEFINE g == ActiveConnHandle
  <1>0. shown \in [Handles -> View]
    BY DEF TypeOK
  <1>1. CASE g = None
    <2>1. shown' = shown /\ None \notin Handles
      BY <1>1, SessionAssumption DEF ClearActiveOutputs, SessionAssumption
    <2> QED
      BY <1>1, <2>1
  <1>2. CASE g # None
    <2>1. g \in Handles
      BY <1>2, HandleType
    <2>2. PICK k, c, t \in Delivered(g) :
            shown' = [shown EXCEPT ![g] =
                        [keyboard |-> IF k THEN NoKeys ELSE @.keyboard,
                         consumer |-> IF c THEN NoUsage ELSE @.consumer,
                         down     |-> IF t THEN PeerDown(@.down, NoContacts) ELSE @.down,
                         button   |-> IF t THEN FALSE ELSE @.button]]
      BY <1>2 DEF ClearActiveOutputs, ClearOutputsFor
    <2>3. PeerDown(shown[g].down, NoContacts) = shown[g].down
      BY NoContactsIsMap DEF PeerDown, Touching
    <2> HIDE DEF g
    <2>4. shown'[g] = [keyboard |-> IF k THEN NoKeys ELSE shown[g].keyboard,
                       consumer |-> IF c THEN NoUsage ELSE shown[g].consumer,
                       down     |-> shown[g].down,
                       button   |-> IF t THEN FALSE ELSE shown[g].button]
      BY <1>0, <2>1, <2>2, <2>3
    <2>5. \A h \in Handles : h # g => shown'[h] = shown[h]
      BY <1>0, <2>1, <2>2
    <2>6. ~Linked(g) => shown'[g] = shown[g]
      <3>1. ASSUME ~Linked(g) PROVE k = FALSE /\ c = FALSE /\ t = FALSE
        BY <2>2, <3>1 DEF Delivered
      <3> QED
        BY <1>0, <2>1, <2>4, <3>1 DEF View
    <2>7. Faults \cap {"backpressure", "error"} = {} /\ Linked(g) => Clear(shown'[g])
      <3> SUFFICES ASSUME Faults \cap {"backpressure", "error"} = {}, Linked(g)
                   PROVE  Clear(shown'[g])
        OBVIOUS
      <3>1. k = TRUE /\ c = TRUE /\ t = TRUE
        BY <2>2 DEF Delivered
      <3>2. /\ shown'[g].keyboard = NoKeys /\ shown'[g].consumer = NoUsage
            /\ shown'[g].button = FALSE
        BY <2>4, <3>1
      <3> QED
        BY <3>2 DEF Clear
    <2> QED
      BY <2>4, <2>5, <2>6, <2>7 DEF g
  <1> QED
    BY <1>1, <1>2

(* A key or a control: the rest of the view stays.                         *)
LEMMA InputShown ==
  ASSUME SafeInv,
         \/ \E k \in KeyboardSnapshots : KeyboardState(k)
         \/ \E c \in ConsumerStates : ConsumerState(c)
  PROVE  /\ \A h \in Handles : shown'[h].down = shown[h].down
         /\ \A h \in Handles : h # ActiveConnHandle \/ ~Linked(h) => shown'[h] = shown[h]
         /\ UNCHANGED <<conns, touchVars, ActiveConnHandle, active_slot>>
         /\ ActiveConnHandle \in Handles
  <1> DEFINE h == ActiveConnHandle
  <1>0. /\ shown \in [Handles -> View] /\ UNCHANGED <<ActiveConnHandle, active_slot>>
        /\ UNCHANGED <<conns, touchVars>> /\ h \in Handles
    BY UnroutedKeepsActive, ActiveHasSlot
       DEF Unrouted, KeyboardState, ConsumerState, Decoded, bleVars, SafeInv, TypeOK
  <1>1. ASSUME NEW k \in KeyboardSnapshots, KeyboardState(k)
        PROVE  /\ \A g \in Handles : shown'[g].down = shown[g].down
               /\ \A g \in Handles : g # h \/ ~Linked(g) => shown'[g] = shown[g]
    <2>1. PICK ok \in Delivered(h) :
            shown' = [shown EXCEPT ![h].keyboard = IF ok THEN k ELSE shown[h].keyboard]
      BY <1>0, <1>1 DEF KeyboardState
    <2>2. ~Linked(h) => ok = FALSE
      BY <2>1 DEF Delivered
    <2> HIDE DEF h
    <2> QED
      BY <1>0, <2>1, <2>2 DEF View
  <1>2. ASSUME NEW c \in ConsumerStates, ConsumerState(c)
        PROVE  /\ \A g \in Handles : shown'[g].down = shown[g].down
               /\ \A g \in Handles : g # h \/ ~Linked(g) => shown'[g] = shown[g]
    <2>1. PICK ok \in Delivered(h) :
            shown' = [shown EXCEPT ![h].consumer = IF ok THEN c ELSE shown[h].consumer]
      BY <1>0, <1>2 DEF ConsumerState
    <2>2. ~Linked(h) => ok = FALSE
      BY <2>1 DEF Delivered
    <2> HIDE DEF h
    <2> QED
      BY <1>0, <2>1, <2>2 DEF View
  <1> QED
    BY <1>0, <1>1, <1>2

(* A flush: the report, when there is one that gets out.                   *)
NotifyKeeps(h) ==
  /\ touch \in ContactMap /\ shown \in [Handles -> View] /\ h \in Handles
  /\ UNCHANGED <<ActiveConnHandle, active_slot, conns, keyboard, consumer>>

NotifySends(h) ==
  \E report, tracked \in ContactMap :
    /\ Linked(h) /\ touch' = tracked
    /\ DOMAIN touch \subseteq DOMAIN report /\ DOMAIN tracked = Touching(report)
    /\ shown'[h].down = PeerDown(shown[h].down, report)
    /\ shown'[h].keyboard = shown[h].keyboard /\ shown'[h].consumer = shown[h].consumer
    /\ \A g \in Handles : g # h => shown'[g] = shown[g]

NotifyRefused(h) == Linked(h) /\ "backpressure" \in Faults /\ shown' = shown

NotifyFails(h) ==
  (Linked(h) => "error" \in Faults) /\ touch' = NoContacts /\ shown' = shown

NotifySkips == touch = NoContacts /\ DOMAIN touch' = {} /\ shown' = shown

LEMMA NotifyCases ==
  ASSUME SafeInv, Notify
  PROVE  /\ NotifyKeeps(ActiveConnHandle)
         /\ \/ NotifySends(ActiveConnHandle) \/ NotifyRefused(ActiveConnHandle)
            \/ NotifyFails(ActiveConnHandle) \/ NotifySkips
  <1> DEFINE frame == latest_touch.contacts
             h     == ActiveConnHandle
  <1>1. /\ touch \in ContactMap /\ frame \in ContactMap /\ h \in Handles
        /\ shown \in [Handles -> View] /\ UNCHANGED <<ActiveConnHandle, active_slot>>
        /\ UNCHANGED <<conns, keyboard, consumer>>
    BY HandleType, UnroutedKeepsActive
       DEF SafeInv, TypeOK, TouchFrame, NotifyTargeted, Notify, Unrouted, bleVars
  <1>2. PICK fresh \in FreshChoices(touch, frame) :
          IF Report(touch, frame, fresh) = NoContacts
            THEN NothingToReport(NextTracked(touch, frame, fresh))
            ELSE \/ Sent(h, Report(touch, frame, fresh), NextTracked(touch, frame, fresh))
                 \/ Refused(h, NextTracked(touch, frame, fresh))
                 \/ Failed(h)
    BY DEF Notify
  <1> DEFINE report  == Report(touch, frame, fresh)
             tracked == NextTracked(touch, frame, fresh)
  <1>3. /\ report \in ContactMap /\ tracked \in ContactMap
        /\ DOMAIN report = DOMAIN touch \cup fresh
        /\ DOMAIN tracked = Touching(report)
    <2> HIDE DEF frame
    <2>1. report \in ContactMap /\ DOMAIN report = DOMAIN touch \cup fresh
      BY <1>1, ReportType
    <2>2. tracked \in ContactMap
      BY <1>1, NextTrackedType
    <2>3. DOMAIN tracked = Touching(report)
      BY <1>1, TrackedIsTouching
    <2> QED
      BY <2>1, <2>2, <2>3
  <1> HIDE DEF report, tracked, frame, h
  <1>4. CASE report = NoContacts /\ NothingToReport(tracked)
    <2>1. DOMAIN touch = {} /\ DOMAIN tracked = {}
      BY <1>3, <1>4, NoContactsIsMap DEF Touching
    <2>2. touch = NoContacts
      BY <1>1, <2>1, ContactMapElim DEF NoContacts
    <2> QED
      BY <1>1, <1>4, <2>1, <2>2 DEF NothingToReport, NotifySkips, NotifyKeeps, h
  <1>5. CASE Sent(h, report, tracked)
    <2>1. /\ Linked(h) /\ touch' = tracked
          /\ shown' = [shown EXCEPT ![h].down = PeerDown(shown[h].down, report),
                                    ![h].button = latest_touch.button]
      BY <1>5 DEF Sent, Delivered
    <2>2. /\ shown'[h].down = PeerDown(shown[h].down, report)
          /\ shown'[h].keyboard = shown[h].keyboard /\ shown'[h].consumer = shown[h].consumer
          /\ \A g \in Handles : g # h => shown'[g] = shown[g]
      BY <1>1, <2>1 DEF View
    <2>3. NotifySends(h)
      BY <1>3, <2>1, <2>2 DEF NotifySends
    <2> QED
      BY <1>1, <2>3 DEF h, NotifyKeeps
  <1>6. CASE Failed(h)
    BY <1>1, <1>6 DEF Failed, h, NotifyFails, NotifyKeeps
  <1>7. CASE Refused(h, tracked)
    BY <1>1, <1>7 DEF Refused, h, NotifyRefused, NotifyKeeps
  <1> QED
    BY <1>2, <1>4, <1>5, <1>6, <1>7 DEF report, tracked, h, frame

(* Every step, by what it does to the views.                               *)
ShownUnchanged ==
  UNCHANGED <<conns, shown, keyboard, consumer, touch>> /\ (Unrouted \/ UNCHANGED vars)

LEMMA ShownCases ==
  ASSUME [Next]_vars
  PROVE  \/ Ble \/ HandleBleEvent \/ Notify \/ FlushUnlinked
         \/ SelectNone \/ (\E slot \in SlotNumbers : SelectOther(slot))
         \/ (\E k \in KeyboardSnapshots : KeyboardState(k))
         \/ (\E c \in ConsumerStates : ConsumerState(c))
         \/ ShownUnchanged
  BY DEF Next, Unrouted, EventsDrained, Flush, FlushSkipped, FlushDue, PacingElapses,
     ReadBytes, ReadTimesOut, ReadFails, WindowEmpty, HandleHostMsg, SelectPeer, SelectInvalid,
     SelectSame, Hello, InputIgnored, TouchFrameMsg, Decoded, UartTx, vars, bleVars, peerVars,
     inputVars, touchVars, ShownUnchanged

LEMMA FlushUnlinkedKeeps ==
  ASSUME FlushUnlinked
  PROVE  /\ ~Linked(ActiveConnHandle) /\ touch' = NoContacts
         /\ UNCHANGED <<conns, shown, keyboard, consumer, ActiveConnHandle, active_slot>>
  BY UnroutedKeepsActive DEF FlushUnlinked, Unrouted, Flush, bleVars

(* Nobody tells anything to a connection that is down.                     *)
LEMMA UnlinkedStep ==
  ASSUME SafeInv, UnlinkedReleased, [Next]_vars
  PROVE  UnlinkedReleased'
  <1>0. shown \in [Handles -> View] /\ conns \in [Handles -> Optional(Addrs)] /\ TypeOK
    BY DEF SafeInv, TypeOK
  <1>1. ASSUME UNCHANGED conns, \A h \in Handles : ~Linked(h) => shown'[h] = shown[h]
        PROVE  UnlinkedReleased'
    BY <1>1 DEF UnlinkedReleased, Linked
  <1>2. ASSUME Ble PROVE UnlinkedReleased'
    BY <1>0, <1>2 DEF Ble, PeerConnects, PeerDrops, PeerWritesLeds, UnlinkedReleased, Linked
  <1>3. ASSUME HandleBleEvent PROVE UnlinkedReleased'
    BY <1>1, <1>3 DEF HandleBleEvent, HandleConnected, HandleDisconnected, HandleLedState, Drain
  <1>4. ASSUME Notify PROVE UnlinkedReleased'
    BY <1>1, <1>4, NotifyCases
       DEF NotifyKeeps, NotifySends, NotifyRefused, NotifyFails, NotifySkips
  <1>5. ASSUME SelectNone \/ \E slot \in SlotNumbers : SelectOther(slot) PROVE UnlinkedReleased'
    <2>1. ClearActiveOutputs /\ UNCHANGED conns
      BY <1>5 DEF SelectNone, SelectOther, Decoded, bleVars
    <2> QED
      BY <1>0, <1>1, <2>1, ClearReleases
  <1>6. ASSUME \/ \E k \in KeyboardSnapshots : KeyboardState(k)
               \/ \E c \in ConsumerStates : ConsumerState(c)
        PROVE  UnlinkedReleased'
    BY <1>1, <1>6, InputShown
  <1> QED
    BY <1>1, <1>2, <1>3, <1>4, <1>5, <1>6, ShownCases, FlushUnlinkedKeeps DEF ShownUnchanged

LEMMA UnlinkedInvariant == Spec => [](SafeInv /\ QueueInv /\ UnlinkedReleased)
  <1>1. Init => UnlinkedReleased
    BY DEF Init, UnlinkedReleased
  <1>2. SafeInv /\ UnlinkedReleased /\ [Next]_vars => UnlinkedReleased'
    BY UnlinkedStep
  <1> QED
    BY <1>1, <1>2, SafeInvariant, QueueInvariant, PTL DEF Spec

-----------------------------------------------------------------------------
(* Keys, controls and the button: the active peer shows what the session   *)
(* remembers, any other connection shows none.  The active slot is cleared *)
(* only when its connection is down: without reuse a drop that the loop    *)
(* has not seen is still a drop.                                           *)

DroppedIsDown ==
  \A h \in Handles : \A i \in 1 .. Len(events) : Disconnects(events[i], h) => ~Linked(h)

Views == IdlePeersReleased /\ ActivePeerUpToDate

ViewInv == Views /\ DroppedIsDown

LEMMA ViewInit == Init => ViewInv
  BY DEF Init, ViewInv, Views, IdlePeersReleased, ActivePeerUpToDate, DroppedIsDown,
         ActiveConnHandle, Released

(* The queue.                                                              *)
LEMMA DroppedStep ==
  ASSUME TypeOK, DroppedIsDown, "reuse" \notin Faults, [Next]_vars
  PROVE  DroppedIsDown'
  <1>0. events \in Seq(BleEvent) /\ conns \in [Handles -> Optional(Addrs)]
    BY DEF TypeOK
  <1>1. ASSUME NEW h \in Handles, NEW a \in Addrs, PeerConnects(h, a) PROVE DroppedIsDown'
    <2> DEFINE e == [type |-> "Connected", conn_handle |-> h, addr |-> a]
    <2>1. events' = Append(events, e) /\ e \in BleEvent /\ \A g : ~Disconnects(e, g)
      BY <1>1 DEF PeerConnects, OnConnect, BleEvent, Disconnects
    <2>2. \A i \in 1 .. Len(events) : ~Disconnects(events[i], h)
      BY <1>0, <1>1 DEF PeerConnects, Pending, Disconnects
    <2>3. \A g \in Handles : g # h => (Linked(g)' <=> Linked(g))
      BY <1>0, <1>1 DEF PeerConnects, Linked
    <2> HIDE DEF e
    <2> QED
      BY <1>0, <2>1, <2>2, <2>3, AppendProperties DEF DroppedIsDown
  <1>2. ASSUME NEW h \in Handles, PeerDrops(h) PROVE DroppedIsDown'
    <2> DEFINE e == [type |-> "Disconnected", conn_handle |-> h]
    <2>1. events' = Append(events, e) /\ e \in BleEvent /\ \A g : Disconnects(e, g) => g = h
      BY <1>2 DEF PeerDrops, OnDisconnect, BleEvent, Disconnects
    <2>2. ~Linked(h)' /\ \A g \in Handles : g # h => (Linked(g)' <=> Linked(g))
      BY <1>0, <1>2 DEF PeerDrops, Linked
    <2> HIDE DEF e
    <2> QED
      BY <1>0, <2>1, <2>2, AppendProperties DEF DroppedIsDown
  <1>3. ASSUME NEW bits \in LedBits, PeerWritesLeds(bits) PROVE DroppedIsDown'
    <2> DEFINE e == [type |-> "LedState", bits |-> bits]
    <2>1. events' = Append(events, e) /\ e \in BleEvent /\ conns' = conns
          /\ \A g : ~Disconnects(e, g)
      BY <1>3 DEF PeerWritesLeds, BleEvent, Disconnects
    <2> HIDE DEF e
    <2> QED
      BY <1>0, <2>1, AppendProperties DEF DroppedIsDown, Linked
  <1>4. CASE events # <<>> /\ events' = Tail(events) /\ conns' = conns
    BY <1>0, <1>4, HeadTailProperties DEF DroppedIsDown, Linked
  <1>5. CASE UNCHANGED <<conns, events>>
    BY <1>5 DEF DroppedIsDown, Linked
  <1>6. Ble \/ HandleBleEvent \/ UNCHANGED <<conns, events>>
    BY DEF Next, EventsDrained, Flush, FlushSkipped, FlushUnlinked, FlushDue, Notify, PacingElapses,
       ReadBytes, ReadTimesOut, ReadFails, WindowEmpty, HandleHostMsg, SelectPeer, SelectNone,
       SelectInvalid, SelectSame, SelectOther, Hello, InputIgnored, KeyboardState, ConsumerState,
       TouchFrameMsg, Decoded, UartTx, vars, bleVars
  <1>7. HandleBleEvent => events # <<>> /\ events' = Tail(events) /\ conns' = conns
    BY DEF HandleBleEvent, HandleConnected, HandleDisconnected, HandleLedState, Drain
  <1> QED
    BY <1>1, <1>2, <1>3, <1>4, <1>5, <1>6, <1>7 DEF Ble

(* The stack: a connection shows nothing when it begins and when it ends.  *)
LEMMA ViewBle ==
  ASSUME SafeInv, QueueInv, Views, "reuse" \notin Faults, Ble
  PROVE  Views'
  <1>0. /\ shown \in [Handles -> View] /\ conns \in [Handles -> Optional(Addrs)]
        /\ UNCHANGED ActiveConnHandle /\ UNCHANGED <<keyboard, consumer>>
        /\ (ActiveConnHandle # None => ActiveConnHandle \in Handles)
    BY UnroutedKeepsActive, ActiveHasSlot DEF Unrouted, Ble, PeerConnects, PeerDrops,
       PeerWritesLeds, inputVars, SafeInv, TypeOK
  <1>1. ASSUME NEW h \in Handles, NEW a \in Addrs, PeerConnects(h, a) PROVE Views'
    <2>1. h # ActiveConnHandle /\ shown' = shown
          /\ \A g \in Handles : g # h => (Linked(g)' <=> Linked(g))
      BY <1>0, <1>1, ActiveNotGivenTwice DEF PeerConnects, Linked
    <2> QED
      BY <1>0, <2>1 DEF Views, IdlePeersReleased, ActivePeerUpToDate
  <1>2. ASSUME NEW h \in Handles, PeerDrops(h) PROVE Views'
    <2>1. /\ shown' = [shown EXCEPT ![h] = Released] /\ ~Linked(h)'
          /\ \A g \in Handles : g # h => (Linked(g)' <=> Linked(g))
      BY <1>0, <1>2 DEF PeerDrops, Linked
    <2> QED
      BY <1>0, <2>1 DEF Views, IdlePeersReleased, ActivePeerUpToDate, Released
  <1>3. ASSUME NEW bits \in LedBits, PeerWritesLeds(bits) PROVE Views'
    BY <1>0, <1>3 DEF PeerWritesLeds, Views, IdlePeersReleased, ActivePeerUpToDate, Linked
  <1> QED
    BY <1>1, <1>2, <1>3 DEF Ble

(* The loop's handling of an event.  When the active slot is cleared its   *)
(* connection is down, since nobody reuses it: nothing is left pressed.    *)
LEMMA ViewEvent ==
  ASSUME SafeInv, UnlinkedReleased, ViewInv, HandleBleEvent
  PROVE  Views'
  <1>0. UNCHANGED <<conns, shown>>
    BY DEF HandleBleEvent, HandleConnected, HandleDisconnected, HandleLedState, Drain
  <1>1. CASE UNCHANGED <<ActiveConnHandle, inputVars>>
    BY <1>0, <1>1 DEF ViewInv, Views, IdlePeersReleased, ActivePeerUpToDate, Linked, inputVars
  <1>2. CASE HandleDisconnected /\ ActiveConnHandle' = None /\ Head(events).conn_handle = ActiveConnHandle
    <2>1. events \in Seq(BleEvent) /\ events # <<>> /\ ActiveConnHandle \in Handles
          /\ Disconnects(events[1], ActiveConnHandle)
      BY <1>2, DrainType DEF SafeInv, TypeOK, HandleDisconnected, Drain, Disconnects, BleEvent
    <2>2. ~Linked(ActiveConnHandle)
      BY <2>1 DEF ViewInv, DroppedIsDown
    <2>3. shown[ActiveConnHandle] = Released
      BY <2>1, <2>2 DEF UnlinkedReleased
    <2> QED
      BY <1>0, <1>2, <2>3 DEF ViewInv, Views, IdlePeersReleased, ActivePeerUpToDate, Released
  <1>3. CASE HandleConnected
    BY <1>1, <1>3, ConnectedKeepsActive DEF HandleConnected
  <1>4. CASE HandleLedState
    BY <1>1, <1>4, UnroutedKeepsActive DEF HandleLedState, Unrouted
  <1> QED
    BY <1>1, <1>2, <1>3, <1>4, DisconnectedActive DEF HandleBleEvent

(* A switch: the old peer was told that nothing is pressed, and the new    *)
(* one was told nothing yet or was left in the same way before.            *)
LEMMA ViewSelect ==
  ASSUME SafeInv, UnlinkedReleased, Views, Faults \cap {"backpressure", "error"} = {},
         SelectNone \/ \E slot \in SlotNumbers : SelectOther(slot)
  PROVE  Views'
  <1>1. ClearActiveOutputs /\ ResetInputState /\ TypeOK
    BY DEF SelectNone, SelectOther, SafeInv
  <1>2. \A h \in Handles : Clear(shown'[h])
    <2> SUFFICES ASSUME NEW h \in Handles PROVE Clear(shown'[h])
      OBVIOUS
    <2>1. CASE h = ActiveConnHandle /\ Linked(h)
      BY <1>1, <2>1, ClearReleases
    <2>2. CASE ~Linked(h)
      <3>1. shown'[h] = Released
        BY <1>1, <2>2, ClearReleases DEF UnlinkedReleased
      <3> QED
        BY <3>1 DEF Clear, Released
    <2>3. CASE h # ActiveConnHandle
      <3>1. shown'[h] = shown[h]
        BY <1>1, <2>3, ClearReleases
      <3> QED
        BY <2>3, <3>1 DEF Clear, Views, IdlePeersReleased
    <2> QED
      BY <2>1, <2>2, <2>3
  <1>3. SafeInv'
    BY TypeStep, KnownStep, TargetedStep, NextCases DEF SafeInv
  <1>4. ActiveConnHandle' # None => ActiveConnHandle' \in Handles
    BY <1>3 DEF SafeInv, TypeOK, Optional, ActiveConnHandle, PeerSlot
  <1>5. ActivePeerUpToDate'
    BY <1>1, <1>2, <1>4 DEF ActivePeerUpToDate, ResetInputState, Clear
  <1> QED
    BY <1>2, <1>5 DEF Views, IdlePeersReleased, Clear

(* Input goes to the active peer; what it shows and what the session       *)
(* remembers change together.                                              *)
LEMMA ViewInput ==
  ASSUME SafeInv, Views, Faults \cap {"backpressure", "error"} = {},
         \/ \E k \in KeyboardSnapshots : KeyboardState(k)
         \/ \E c \in ConsumerStates : ConsumerState(c)
  PROVE  Views'
  <1> DEFINE h == ActiveConnHandle
  <1>0. /\ shown \in [Handles -> View] /\ UNCHANGED ActiveConnHandle /\ UNCHANGED conns
        /\ h \in Handles /\ \A g \in Handles : g # h => shown'[g] = shown[g]
    BY InputShown DEF SafeInv, TypeOK
  <1>1. IdlePeersReleased'
    BY <1>0 DEF Views, IdlePeersReleased
  <1>2. ASSUME NEW k \in KeyboardSnapshots, KeyboardState(k) PROVE ActivePeerUpToDate'
    <2>1. PICK ok \in Delivered(h) :
            shown' = [shown EXCEPT ![h].keyboard = IF ok THEN k ELSE shown[h].keyboard]
      BY <1>0, <1>2 DEF KeyboardState
    <2>2. Linked(h) => ok = TRUE
      BY <2>1 DEF Delivered
    <2>3. keyboard' = k /\ consumer' = consumer
      BY <1>2 DEF KeyboardState
    <2> HIDE DEF h
    <2>4. Linked(h) => shown'[h] = [shown[h] EXCEPT !.keyboard = k]
      BY <1>0, <2>1, <2>2
    <2> QED
      BY <1>0, <2>3, <2>4 DEF h, Views, ActivePeerUpToDate, Linked, View
  <1>3. ASSUME NEW c \in ConsumerStates, ConsumerState(c) PROVE ActivePeerUpToDate'
    <2>1. PICK ok \in Delivered(h) :
            shown' = [shown EXCEPT ![h].consumer = IF ok THEN c ELSE shown[h].consumer]
      BY <1>0, <1>3 DEF ConsumerState
    <2>2. Linked(h) => ok = TRUE
      BY <2>1 DEF Delivered
    <2>3. consumer' = c /\ keyboard' = keyboard
      BY <1>3 DEF ConsumerState
    <2> HIDE DEF h
    <2>4. Linked(h) => shown'[h] = [shown[h] EXCEPT !.consumer = c]
      BY <1>0, <2>1, <2>2
    <2> QED
      BY <1>0, <2>3, <2>4 DEF h, Views, ActivePeerUpToDate, Linked, View
  <1> QED
    BY <1>1, <1>2, <1>3 DEF Views

LEMMA ViewStep ==
  ASSUME SafeInv, QueueInv, UnlinkedReleased, ViewInv,
         Faults \cap {"reuse", "backpressure", "error"} = {}, [Next]_vars
  PROVE  ViewInv'
  <1>0. /\ TypeOK /\ Views /\ DroppedIsDown /\ "reuse" \notin Faults
        /\ Faults \cap {"backpressure", "error"} = {}
    BY DEF SafeInv, ViewInv
  <1>1. ASSUME UNCHANGED <<conns, shown, keyboard, consumer, ActiveConnHandle>> PROVE Views'
    BY <1>0, <1>1 DEF Views, IdlePeersReleased, ActivePeerUpToDate, Linked
  <1>2. ASSUME Notify PROVE Views'
    <2>1. /\ UNCHANGED <<ActiveConnHandle, conns, keyboard, consumer>> /\ ActiveConnHandle \in Handles
          /\ \A g \in Handles : g # ActiveConnHandle => shown'[g] = shown[g]
          /\ shown'[ActiveConnHandle].keyboard = shown[ActiveConnHandle].keyboard
          /\ shown'[ActiveConnHandle].consumer = shown[ActiveConnHandle].consumer
      BY <1>2, NotifyCases DEF NotifyKeeps, NotifySends, NotifyRefused, NotifyFails, NotifySkips
    <2> QED
      BY <1>0, <2>1 DEF Views, IdlePeersReleased, ActivePeerUpToDate, Linked
  <1>3. Views'
    BY <1>0, <1>1, <1>2, ShownCases, ViewBle, ViewEvent, ViewSelect, ViewInput,
       FlushUnlinkedKeeps, UnroutedKeepsActive DEF ShownUnchanged
  <1> QED
    BY <1>0, <1>3, DroppedStep DEF ViewInv

(* What holds while notifications to a live connection are accepted and    *)
(* the stack gives no handle out before its drop was seen.  Each of the    *)
(* faults breaks it: a refused clear_outputs_for leaves keys pressed, and  *)
(* a reused handle gets what was meant for the peer before.                *)
LEMMA ViewInvariant ==
  ASSUME Faults \cap {"reuse", "backpressure", "error"} = {}
  PROVE  Spec => []ViewInv
  <1>1. SafeInv /\ QueueInv /\ UnlinkedReleased /\ ViewInv /\ [Next]_vars => ViewInv'
    BY ViewStep
  <1> QED
    BY <1>1, UnlinkedInvariant, ViewInit, PTL DEF Spec

(* No key, consumer control or button stays pressed on a peer that was     *)
(* left, in whatever order the user switches, peers drop and come back,    *)
(* and events wait for the loop.                                           *)
THEOREM IdlePeersAlwaysReleased ==
  ASSUME Faults \cap {"reuse", "backpressure", "error"} = {}
  PROVE  Spec => []IdlePeersReleased
  <1>1. ViewInv => IdlePeersReleased
    BY DEF ViewInv, Views
  <1> QED
    BY <1>1, ViewInvariant, PTL

(* The active peer shows the keys and controls the session remembers.      *)
THEOREM ActivePeerAlwaysUpToDate ==
  ASSUME Faults \cap {"reuse", "backpressure", "error"} = {}
  PROVE  Spec => []ActivePeerUpToDate
  <1>1. ViewInv => ActivePeerUpToDate
    BY DEF ViewInv, Views
  <1> QED
    BY <1>1, ViewInvariant, PTL

-----------------------------------------------------------------------------
(* Fingers.  While a peer stays active, the ones that are down on it and   *)
(* untracked become no more: a report lifts or tracks each one it names,   *)
(* and a connection that is down shows none when it comes back, even one   *)
(* whose handle is reused.                                                 *)

LEMMA StuckStep ==
  ASSUME SafeInv, SafeInv', UnlinkedReleased, Faults \cap {"backpressure", "error"} = {},
         [Next]_vars, active_slot' = active_slot
  PROVE  Stuck' \subseteq Stuck
  <1> DEFINE h == ActiveConnHandle
  <1>0. /\ shown \in [Handles -> View] /\ conns \in [Handles -> Optional(Addrs)] /\ TypeOK
        /\ (h # None => h \in Handles)
    BY ActiveHasSlot DEF SafeInv, TypeOK
  <1>1. ASSUME UNCHANGED <<conns, touch, ActiveConnHandle>>,
               \A g \in Handles : shown'[g].down = shown[g].down
        PROVE  Stuck' \subseteq Stuck
    BY <1>0, <1>1 DEF Stuck, Linked
  <1>2. ASSUME ActiveConnHandle' = None \/ ~Linked(ActiveConnHandle)' PROVE Stuck' \subseteq Stuck
    BY <1>2 DEF Stuck
  <1>3. ASSUME Ble PROVE Stuck' \subseteq Stuck
    <2>1. UNCHANGED <<ActiveConnHandle, touch>>
      BY <1>3, UnroutedKeepsActive DEF Unrouted, Ble, PeerConnects, PeerDrops, PeerWritesLeds,
         inputVars, touchVars
    <2>2. CASE \E g \in Handles, a \in Addrs : PeerConnects(g, a)
      <3>1. PICK g \in Handles, a \in Addrs : PeerConnects(g, a)
        BY <2>2
      <3>2. /\ ~Linked(g) /\ shown' = shown
            /\ \A k \in Handles : k # g => (Linked(k)' <=> Linked(k))
        BY <1>0, <3>1 DEF PeerConnects, Linked
      <3>3. shown[g].down = {}
        BY <3>2 DEF UnlinkedReleased, Released
      <3> QED
        BY <1>0, <2>1, <3>2, <3>3 DEF Stuck
    <2>3. CASE \E g \in Handles : PeerDrops(g)
      <3>1. PICK g \in Handles : PeerDrops(g)
        BY <2>3
      <3>2. ~Linked(g)' /\ \A k \in Handles : k # g => (Linked(k)' <=> Linked(k)) /\ shown'[k] = shown[k]
        BY <1>0, <3>1 DEF PeerDrops, Linked
      <3> QED
        BY <1>0, <2>1, <3>2 DEF Stuck
    <2>4. CASE \E bits \in LedBits : PeerWritesLeds(bits)
      BY <1>1, <2>1, <2>4 DEF PeerWritesLeds
    <2> QED
      BY <1>3, <2>2, <2>3, <2>4 DEF Ble
  <1>4. ASSUME HandleBleEvent PROVE Stuck' \subseteq Stuck
    <2>1. UNCHANGED <<conns, shown>>
      BY <1>4 DEF HandleBleEvent, HandleConnected, HandleDisconnected, HandleLedState, Drain
    <2>2. HandleConnected \/ HandleLedState => UNCHANGED <<touch, ActiveConnHandle>>
      BY ConnectedKeepsActive, UnroutedKeepsActive
         DEF HandleConnected, HandleLedState, Unrouted, inputVars, touchVars
    <2>3. HandleDisconnected => UNCHANGED <<touch, ActiveConnHandle>> \/ ActiveConnHandle' = None
      BY DisconnectedActive DEF inputVars, touchVars
    <2> QED
      BY <1>1, <1>2, <1>4, <2>1, <2>2, <2>3 DEF HandleBleEvent
  <1>5. ASSUME Notify PROVE Stuck' \subseteq Stuck
    <2>1. NotifyKeeps(h) /\ (NotifySends(h) \/ NotifyFails(h) \/ NotifySkips)
      BY <1>5, NotifyCases DEF NotifyRefused
    <2>2. CASE NotifySends(h)
      <3>1. PICK report, tracked \in ContactMap :
              /\ touch' = tracked
              /\ DOMAIN touch \subseteq DOMAIN report /\ DOMAIN tracked = Touching(report)
              /\ shown'[h].down = PeerDown(shown[h].down, report) /\ Linked(h)
        BY <2>2 DEF NotifySends
      <3>2. shown'[h].down \ DOMAIN touch' \subseteq shown[h].down \ DOMAIN touch
        BY <3>1 DEF PeerDown
      <3> QED
        BY <2>1, <3>1, <3>2 DEF NotifyKeeps, Stuck, Linked
    <2>3. CASE NotifyFails(h)
      BY <1>2, <2>1, <2>3 DEF NotifyFails, NotifyKeeps, Linked
    <2>4. CASE NotifySkips
      BY <2>1, <2>4, NoContactsIsMap DEF NotifySkips, NotifyKeeps, Stuck, Linked
    <2> QED
      BY <2>1, <2>2, <2>3, <2>4
  <1>6. ASSUME FlushUnlinked PROVE Stuck' \subseteq Stuck
    <2>1. ~Linked(ActiveConnHandle)'
      BY <1>6, FlushUnlinkedKeeps DEF Linked
    <2> QED
      BY <1>2, <2>1
  <1>7. ASSUME SelectNone \/ \E slot \in SlotNumbers : SelectOther(slot)
        PROVE  Stuck' \subseteq Stuck
    <2>1. SelectNone /\ active_slot' = None
      BY <1>7 DEF SelectNone, SelectOther
    <2> QED
      BY <1>2, <2>1 DEF ActiveConnHandle
  <1>8. ASSUME \/ \E k \in KeyboardSnapshots : KeyboardState(k)
               \/ \E c \in ConsumerStates : ConsumerState(c)
        PROVE  Stuck' \subseteq Stuck
    BY <1>1, <1>8, InputShown DEF touchVars
  <1>9. ASSUME ShownUnchanged PROVE Stuck' \subseteq Stuck
    BY <1>1, <1>9, UnroutedKeepsActive DEF ShownUnchanged
  <1> QED
    BY <1>3, <1>4, <1>5, <1>6, <1>7, <1>8, <1>9, ShownCases

(* No finger gets stuck on a peer while it stays active: what a report     *)
(* puts down is tracked until a report has lifted it.  Reused handles do   *)
(* not matter; a refused or failed report loses a lift.                    *)
THEOREM FingersNeverGetStuck ==
  ASSUME Faults \cap {"backpressure", "error"} = {}
  PROVE  Spec => NoFingerGetsStuck
  <1>1. /\ SafeInv /\ SafeInv' /\ QueueInv /\ UnlinkedReleased /\ [Next]_vars
        => [active_slot' = active_slot => Stuck' \subseteq Stuck]_vars
    BY StuckStep
  <1> QED
    BY <1>1, UnlinkedInvariant, PTL DEF Spec, NoFingerGetsStuck

(* The other way round: what the encoder tracks is down on the peer.  A    *)
(* failed report resets the encoder, so it does not matter; a refused one  *)
(* does, since the encoder has moved on.                                   *)
LEMMA PhantomStep ==
  ASSUME SafeInv, QueueInv, NoPhantomContact, Faults \cap {"reuse", "backpressure"} = {},
         [Next]_vars
  PROVE  NoPhantomContact'
  <1> DEFINE h == ActiveConnHandle
  <1>0. /\ shown \in [Handles -> View] /\ conns \in [Handles -> Optional(Addrs)] /\ TypeOK
        /\ (h # None => h \in Handles) /\ "reuse" \notin Faults /\ "backpressure" \notin Faults
    BY ActiveHasSlot DEF SafeInv, TypeOK
  <1>1. ASSUME UNCHANGED <<conns, touch, ActiveConnHandle>>,
               \A g \in Handles : shown'[g].down = shown[g].down
        PROVE  NoPhantomContact'
    BY <1>0, <1>1 DEF NoPhantomContact, Linked
  <1>2. ASSUME DOMAIN touch' = {} \/ ActiveConnHandle' = None PROVE NoPhantomContact'
    BY <1>2 DEF NoPhantomContact
  <1>3. ASSUME Ble PROVE NoPhantomContact'
    <2>1. UNCHANGED <<ActiveConnHandle, touch>>
      BY <1>3, UnroutedKeepsActive DEF Unrouted, Ble, PeerConnects, PeerDrops, PeerWritesLeds,
         inputVars, touchVars
    <2>2. CASE \E g \in Handles, a \in Addrs : PeerConnects(g, a)
      <3>1. PICK g \in Handles, a \in Addrs : PeerConnects(g, a)
        BY <2>2
      <3>2. g # h /\ shown' = shown /\ \A k \in Handles : k # g => (Linked(k)' <=> Linked(k))
        BY <1>0, <3>1, ActiveNotGivenTwice DEF PeerConnects, Linked
      <3> QED
        BY <1>0, <2>1, <3>2 DEF NoPhantomContact
    <2>3. CASE \E g \in Handles : PeerDrops(g)
      <3>1. PICK g \in Handles : PeerDrops(g)
        BY <2>3
      <3>2. ~Linked(g)' /\ \A k \in Handles : k # g => (Linked(k)' <=> Linked(k)) /\ shown'[k] = shown[k]
        BY <1>0, <3>1 DEF PeerDrops, Linked
      <3> QED
        BY <1>0, <2>1, <3>2 DEF NoPhantomContact
    <2>4. CASE \E bits \in LedBits : PeerWritesLeds(bits)
      BY <1>1, <2>1, <2>4 DEF PeerWritesLeds
    <2> QED
      BY <1>3, <2>2, <2>3, <2>4 DEF Ble
  <1>4. ASSUME HandleBleEvent PROVE NoPhantomContact'
    <2>1. UNCHANGED <<conns, shown>>
      BY <1>4 DEF HandleBleEvent, HandleConnected, HandleDisconnected, HandleLedState, Drain
    <2>2. HandleConnected \/ HandleLedState => UNCHANGED <<touch, ActiveConnHandle>>
      BY ConnectedKeepsActive, UnroutedKeepsActive
         DEF HandleConnected, HandleLedState, Unrouted, inputVars, touchVars
    <2>3. HandleDisconnected => UNCHANGED <<touch, ActiveConnHandle>> \/ ActiveConnHandle' = None
      BY DisconnectedActive DEF inputVars, touchVars
    <2> QED
      BY <1>1, <1>2, <1>4, <2>1, <2>2, <2>3 DEF HandleBleEvent
  <1>5. ASSUME Notify PROVE NoPhantomContact'
    <2>1. NotifyKeeps(h) /\ (NotifySends(h) \/ NotifyFails(h) \/ NotifySkips)
      BY <1>0, <1>5, NotifyCases DEF NotifyRefused
    <2>2. NotifySends(h) => DOMAIN touch' \subseteq shown'[h].down
      BY DEF NotifySends, PeerDown
    <2> QED
      BY <1>2, <2>1, <2>2, NoContactsIsMap
         DEF NotifyKeeps, NotifyFails, NotifySkips, NoPhantomContact
  <1>6. ASSUME FlushUnlinked \/ SelectNone \/ \E slot \in SlotNumbers : SelectOther(slot)
        PROVE  NoPhantomContact'
    BY <1>2, <1>6, FlushUnlinkedKeeps, NoContactsIsMap
       DEF SelectNone, SelectOther, ResetInputState, ResetTouch
  <1>7. ASSUME \/ \E k \in KeyboardSnapshots : KeyboardState(k)
               \/ \E c \in ConsumerStates : ConsumerState(c)
        PROVE  NoPhantomContact'
    BY <1>1, <1>7, InputShown DEF touchVars
  <1>8. ASSUME ShownUnchanged PROVE NoPhantomContact'
    BY <1>1, <1>8, UnroutedKeepsActive DEF ShownUnchanged
  <1> QED
    BY <1>3, <1>4, <1>5, <1>6, <1>7, <1>8, ShownCases

(* A finger that the encoder tracks is down on the active peer.            *)
THEOREM NeverPhantomContact ==
  ASSUME Faults \cap {"reuse", "backpressure"} = {}
  PROVE  Spec => []NoPhantomContact
  <1>1. Init => NoPhantomContact
    BY DEF Init, NoPhantomContact, ActiveConnHandle
  <1>2. SafeInv /\ QueueInv /\ NoPhantomContact /\ [Next]_vars => NoPhantomContact'
    BY PhantomStep
  <1> QED
    BY <1>1, <1>2, UnlinkedInvariant, PTL DEF Spec

-----------------------------------------------------------------------------
(* The fingers of the latest frame arrive, although reports are refused:   *)
(* a refused one leaves the frame pending.  That the report has room for   *)
(* all fingers is a hypothesis (SecondFrameAlwaysCatchesUp tells what      *)
(* happens otherwise), and so is that every finger of a frame touches.     *)

Roomy ==
  /\ Cardinality(ContactIds) <= MAX_TOUCH_CONTACTS
  /\ \A f \in Frames : \A id \in DOMAIN f.contacts : f.contacts[id].touching

LatestTouches == \A id \in DOMAIN latest_touch.contacts : latest_touch.contacts[id].touching

(* The flush that is under way has a frame to send.                        *)
NotifyWaits == pc = "notify" => touch_dirty

QuietInv == LatestTouches /\ NotifyWaits /\ QuietShowsFingers

LEMMA NotifyWaitsStep == NotifyWaits /\ [Next]_vars => NotifyWaits'
  BY DEF NotifyWaits, Next, vars, Ble, PeerConnects, PeerDrops, PeerWritesLeds, HandleBleEvent,
     HandleConnected, HandleDisconnected, HandleLedState, Drain, EventsDrained, Flush,
     FlushSkipped, FlushUnlinked, FlushDue, Waiting, Notify, PacingElapses, ReadBytes,
     ReadTimesOut, ReadFails, WindowEmpty, HandleHostMsg, SelectPeer, SelectNone, SelectInvalid,
     SelectSame, SelectOther, Hello, InputIgnored, KeyboardState, ConsumerState, TouchFrameMsg,
     Decoded, UartTx, inputVars, touchVars, ResetInputState, ResetTouch

(* With room for all, every new contact is reported, and the peer has all  *)
(* of the frame.                                                           *)
LEMMA AllFreshFit ==
  ASSUME Roomy, NEW t \in ContactMap, NEW c \in ContactMap, NEW fresh \in FreshChoices(t, c)
  PROVE  fresh = DOMAIN c \ DOMAIN t
  <1> DEFINE new == DOMAIN c \ DOMAIN t
  <1>1. /\ DOMAIN t \subseteq ContactIds /\ DOMAIN c \subseteq ContactIds
        /\ IsFiniteSet(ContactIds) /\ MAX_TOUCH_CONTACTS \in Nat
    BY ContactMapElim, EncoderAssumption DEF EncoderAssumption
  <1>2. /\ IsFiniteSet(new) /\ IsFiniteSet(DOMAIN t)
        /\ Cardinality(new) \in Nat /\ Cardinality(DOMAIN t) \in Nat
    BY MapsAreFinite, FS_Difference, FS_CardinalityType
  <1>3. Cardinality(new) + Cardinality(DOMAIN t) <= MAX_TOUCH_CONTACTS
    <2>1. new \cap DOMAIN t = {}
      OBVIOUS
    <2> HIDE DEF new
    <2> DEFINE d == DOMAIN t
    <2> HIDE DEF d
    <2>2. Cardinality(new \cup DOMAIN t) = Cardinality(new) + Cardinality(DOMAIN t)
      <3>1. Cardinality(new \cup d) = Cardinality(new) + Cardinality(d) - Cardinality(new \cap d)
        BY <1>2, FS_Union DEF d
      <3>2. Cardinality(new \cap d) = 0
        BY <2>1, FS_EmptySet DEF d
      <3> QED
        BY <1>2, <3>1, <3>2 DEF d
    <2>3. new \cup DOMAIN t \in SUBSET ContactIds
      BY <1>1 DEF new
    <2>4. Cardinality(new \cup DOMAIN t) <= Cardinality(ContactIds)
      BY <1>1, <2>3, FS_Subset
    <2> QED
      BY <1>1, <1>2, <2>2, <2>4, FS_CardinalityType DEF Roomy
  <1>4. Cardinality(new) <= MAX_TOUCH_CONTACTS - Cardinality(DOMAIN t)
    BY <1>1, <1>2, <1>3
  <1> QED
    BY <1>4 DEF FreshChoices

(* The step that sends, retries or gives up a frame.                       *)
LEMMA QuietNotify ==
  ASSUME SafeInv, QuietInv, Roomy, Notify
  PROVE  LatestTouches' /\ QuietShowsFingers'
  <1> DEFINE frame == latest_touch.contacts
             h     == ActiveConnHandle
  <1>1. /\ touch \in ContactMap /\ frame \in ContactMap /\ h \in Handles
        /\ shown \in [Handles -> View] /\ UNCHANGED ActiveConnHandle
        /\ UNCHANGED <<conns, latest_touch>>
    BY HandleType, UnroutedKeepsActive
       DEF SafeInv, TypeOK, TouchFrame, NotifyTargeted, Notify, Unrouted, bleVars
  <1>2. PICK fresh \in FreshChoices(touch, frame) :
          IF Report(touch, frame, fresh) = NoContacts
            THEN NothingToReport(NextTracked(touch, frame, fresh))
            ELSE \/ Sent(h, Report(touch, frame, fresh), NextTracked(touch, frame, fresh))
                 \/ Refused(h, NextTracked(touch, frame, fresh))
                 \/ Failed(h)
    BY DEF Notify
  <1> DEFINE report  == Report(touch, frame, fresh)
             tracked == NextTracked(touch, frame, fresh)
  <1>3. /\ fresh = DOMAIN frame \ DOMAIN touch
        /\ DOMAIN report = DOMAIN touch \cup fresh
        /\ \A id \in DOMAIN frame : id \in DOMAIN report /\ report[id] = frame[id]
    <2> HIDE DEF frame
    <2>1. fresh = DOMAIN frame \ DOMAIN touch
      BY <1>1, AllFreshFit
    <2>2. DOMAIN report = DOMAIN touch \cup fresh
      BY <1>1, ReportType
    <2> QED
      BY <2>1, <2>2 DEF Report
  <1>4. DOMAIN frame \subseteq PeerDown(shown[h].down, report)
    BY <1>3 DEF QuietInv, LatestTouches, PeerDown, Touching
  <1>5. LatestTouches'
    BY <1>1 DEF QuietInv, LatestTouches
  <1> HIDE DEF report, tracked, frame, h
  <1>6. CASE report = NoContacts /\ NothingToReport(tracked)
    <2>1. DOMAIN frame = {}
      BY <1>3, <1>6, NoContactsIsMap
    <2> QED
      BY <1>1, <1>5, <2>1 DEF QuietInv, QuietShowsFingers, frame
  <1>7. CASE Sent(h, report, tracked)
    <2>1. shown'[h].down = PeerDown(shown[h].down, report)
      BY <1>1, <1>7 DEF Sent, View
    <2> QED
      BY <1>1, <1>4, <1>5, <2>1 DEF QuietInv, QuietShowsFingers, frame, h
  <1>8. CASE Refused(h, tracked)
    <2>1. touch_dirty'
      BY <1>8 DEF Refused, QuietInv, NotifyWaits, Notify
    <2> QED
      BY <1>5, <2>1 DEF QuietShowsFingers
  <1>9. CASE Failed(h)
    BY <1>5, <1>9 DEF Failed, QuietShowsFingers
  <1> QED
    BY <1>2, <1>6, <1>7, <1>8, <1>9 DEF report, tracked, h, frame

QuietShown == LatestTouches /\ QuietShowsFingers

LEMMA QuietStep ==
  ASSUME SafeInv, QueueInv, QuietInv, Roomy, "reuse" \notin Faults, [Next]_vars
  PROVE  QuietInv'
  <1>0. shown \in [Handles -> View] /\ conns \in [Handles -> Optional(Addrs)]
    BY DEF SafeInv, TypeOK
  <1>1. ASSUME UNCHANGED <<conns, shown, latest_touch, touch, touch_dirty, ActiveConnHandle>> PROVE QuietShown'
    BY <1>1 DEF QuietInv, QuietShown, LatestTouches, QuietShowsFingers, Linked
  <1>2. ASSUME Ble PROVE QuietShown'
    <2>1. UNCHANGED <<latest_touch, touch, touch_dirty, ActiveConnHandle>>
      BY <1>2, UnroutedKeepsActive DEF Unrouted, Ble, PeerConnects, PeerDrops, PeerWritesLeds,
         inputVars, touchVars
    <2>2. ActiveConnHandle # None => ActiveConnHandle \in Handles
      BY ActiveHasSlot
    <2>3. CASE \E g \in Handles, a \in Addrs : PeerConnects(g, a)
      <3>1. PICK g \in Handles, a \in Addrs : PeerConnects(g, a)
        BY <2>3
      <3>2. g # ActiveConnHandle /\ shown' = shown
            /\ \A k \in Handles : k # g => (Linked(k)' <=> Linked(k))
        BY <1>0, <3>1, ActiveNotGivenTwice DEF PeerConnects, Linked
      <3> QED
        BY <2>1, <2>2, <3>2 DEF QuietInv, QuietShown, LatestTouches, QuietShowsFingers
    <2>4. CASE \E g \in Handles : PeerDrops(g)
      <3>1. PICK g \in Handles : PeerDrops(g)
        BY <2>4
      <3>2. ~Linked(g)' /\ \A k \in Handles : k # g => (Linked(k)' <=> Linked(k)) /\ shown'[k] = shown[k]
        BY <1>0, <3>1 DEF PeerDrops, Linked
      <3> QED
        BY <2>1, <2>2, <3>2 DEF QuietInv, QuietShown, LatestTouches, QuietShowsFingers
    <2>5. CASE \E bits \in LedBits : PeerWritesLeds(bits)
      BY <1>1, <2>1, <2>5 DEF PeerWritesLeds
    <2> QED
      BY <1>2, <2>3, <2>4, <2>5 DEF Ble
  <1>3. ASSUME HandleBleEvent PROVE QuietShown'
    <2>0. UNCHANGED <<conns, shown>>
      BY <1>3 DEF HandleBleEvent, HandleConnected, HandleDisconnected, HandleLedState, Drain
    <2>1. HandleDisconnected => ResetInputState \/ UNCHANGED <<latest_touch, touch, touch_dirty>>
      BY DEF HandleDisconnected, inputVars, touchVars
    <2>2. HandleConnected \/ HandleLedState => UNCHANGED <<latest_touch, touch, touch_dirty>>
      BY DEF HandleConnected, HandleLedState, inputVars, touchVars
    <2>3. ASSUME ResetInputState PROVE QuietShown'
      BY <2>3, NoContactsIsMap
         DEF ResetInputState, ResetTouch, QuietShown, LatestTouches, QuietShowsFingers, NoFrame
    <2>4. ASSUME ActiveConnHandle' = None, UNCHANGED latest_touch PROVE QuietShown'
      BY <2>4 DEF QuietInv, QuietShown, LatestTouches, QuietShowsFingers
    <2>5. HandleLedState => UNCHANGED ActiveConnHandle
      BY UnroutedKeepsActive DEF HandleLedState, Unrouted
    <2> QED
      BY <1>1, <1>3, <2>0, <2>1, <2>2, <2>3, <2>4, <2>5, ConnectedKeepsActive, DisconnectedActive
         DEF HandleBleEvent
  <1>4. ASSUME FlushUnlinked PROVE QuietShown'
    <2>1. /\ ~Linked(ActiveConnHandle) /\ UNCHANGED <<conns, ActiveConnHandle, latest_touch>>
      BY <1>4, UnroutedKeepsActive DEF FlushUnlinked, Unrouted, Flush, bleVars
    <2> QED
      BY <2>1 DEF QuietInv, QuietShown, LatestTouches, QuietShowsFingers, Linked
  <1>5. ASSUME SelectNone \/ \E slot \in SlotNumbers : SelectOther(slot) PROVE QuietShown'
    <2>1. ResetInputState
      BY <1>5 DEF SelectNone, SelectOther
    <2>2. latest_touch'.contacts = NoContacts
      BY <2>1 DEF ResetInputState, ResetTouch, NoFrame
    <2> QED
      BY <2>2, NoContactsIsMap DEF QuietInv, QuietShown, LatestTouches, QuietShowsFingers
  <1>6. ASSUME NEW f \in Frames, TouchFrameMsg(f) PROVE QuietShown'
    BY <1>6 DEF TouchFrameMsg, Roomy, QuietInv, QuietShown, LatestTouches, QuietShowsFingers
  <1>7. ASSUME \/ \E k \in KeyboardSnapshots : KeyboardState(k)
               \/ \E c \in ConsumerStates : ConsumerState(c)
        PROVE  QuietShown'
    <2>1. UNCHANGED <<ActiveConnHandle, conns, latest_touch, touch, touch_dirty>>
      BY <1>7, UnroutedKeepsActive DEF Unrouted, KeyboardState, ConsumerState, Decoded, bleVars, touchVars
    <2>2. \A g \in Handles : shown'[g].down = shown[g].down
      BY <1>0, <1>7 DEF KeyboardState, ConsumerState, View
    <2>3. ActiveConnHandle # None => ActiveConnHandle \in Handles
      BY ActiveHasSlot
    <2> QED
      BY <2>1, <2>2, <2>3 DEF QuietInv, QuietShown, LatestTouches, QuietShowsFingers, Linked
  <1>8. \/ Ble \/ HandleBleEvent \/ Notify \/ FlushUnlinked
        \/ SelectNone \/ (\E slot \in SlotNumbers : SelectOther(slot))
        \/ (\E f \in Frames : TouchFrameMsg(f))
        \/ (\E k \in KeyboardSnapshots : KeyboardState(k))
        \/ (\E c \in ConsumerStates : ConsumerState(c))
        \/ UNCHANGED <<conns, shown, latest_touch, touch, touch_dirty>> /\ (Unrouted \/ UNCHANGED vars)
    BY DEF Next, Unrouted, EventsDrained, Flush, FlushSkipped, FlushDue, PacingElapses,
       ReadBytes, ReadTimesOut, ReadFails, WindowEmpty, HandleHostMsg, SelectPeer, SelectInvalid,
       SelectSame, Hello, InputIgnored, Decoded, UartTx, vars, bleVars, peerVars,
       inputVars, touchVars
  <1>9. QuietShown'
    BY <1>1, <1>2, <1>3, <1>4, <1>5, <1>6, <1>7, <1>8, QuietNotify, UnroutedKeepsActive DEF QuietShown
  <1>10. NotifyWaits'
    BY NotifyWaitsStep DEF QuietInv
  <1> QED
    BY <1>9, <1>10 DEF QuietShown, QuietInv

(* A frame that no longer waits has arrived, even when reports are refused *)
(* in between; on_disconnect and a switch only make its peer another.      *)
THEOREM QuietAlwaysShowsFingers ==
  ASSUME Roomy, "reuse" \notin Faults
  PROVE  Spec => []QuietShowsFingers
  <1>1. Spec => [](SafeInv /\ QueueInv)
    BY SafeInvariant, QueueInvariant, PTL
  <1>2. Init => QuietInv
    BY NoContactsIsMap
       DEF Init, QuietInv, NotifyWaits, LatestTouches, QuietShowsFingers, ActiveConnHandle, NoFrame
  <1>3. SafeInv /\ QueueInv /\ QuietInv /\ [Next]_vars => QuietInv'
    BY QuietStep
  <1>4. QuietInv => QuietShowsFingers
    BY DEF QuietInv
  <1> QED
    BY <1>1, <1>2, <1>3, <1>4, PTL DEF Spec

-----------------------------------------------------------------------------
(* The peer table and the connections.  The table is the set of            *)
(* connections as it was before the events that still wait; LinkedAfter is *)
(* what the queue tells about that past: whether h was connected when the  *)
(* first i of the waiting events had happened.                             *)

LinkedAfter(i, h) ==
  \/ \E j \in 1 .. Len(events) :
       /\ i < j /\ Disconnects(events[j], h)
       /\ \A k \in 1 .. Len(events) : i < k /\ k < j => ~Connects(events[k], h)
  \/ Linked(h) /\ \A k \in 1 .. Len(events) : i < k => ~Connects(events[k], h)

EventsChangeLinks ==
  \A h \in Handles, i \in 1 .. Len(events) :
    /\ Connects(events[i], h) => LinkedAfter(i, h)
    /\ Disconnects(events[i], h) => ~LinkedAfter(i, h)

NeverTooMany ==
  \A i \in 0 .. Len(events) : Cardinality({h \in Handles : LinkedAfter(i, h)}) <= MaxConnections

TableIsPast == \A h \in Handles : (\E s \in Slots : HasHandle(s, h)) <=> LinkedAfter(0, h)

AdvertisesWithRoom == advertising => Cardinality({h \in Handles : Linked(h)}) < MaxConnections

HistoryInv == EventsChangeLinks /\ NeverTooMany /\ TableIsPast /\ AdvertisesWithRoom

(* A slot, or an event on its way to one, has the address of the           *)
(* connection, unless that connection is one that was dropped since.       *)
AddrInv ==
  /\ \A h \in Handles, s \in Slots :
       HasHandle(s, h) /\ (\A k \in 1 .. Len(events) : ~Disconnects(events[k], h)) =>
         peers[s].addr = conns[h]
  /\ \A h \in Handles, i \in 1 .. Len(events) :
       Connects(events[i], h) /\ (\A k \in 1 .. Len(events) : i < k => ~Disconnects(events[k], h)) =>
         events[i].addr = conns[h]

LEMMA HistoryInit == Init => HistoryInv /\ AddrInv
  <1> SUFFICES ASSUME Init PROVE HistoryInv /\ AddrInv
    OBVIOUS
  <1>1. /\ Len(events) = 0 /\ \A h \in Handles : ~Linked(h)
        /\ \A s \in Slots, h \in Handles : ~HasHandle(s, h)
    BY DEF Init, Linked, HasHandle
  <1>2. \A i, h : h \in Handles => ~LinkedAfter(i, h)
    BY <1>1 DEF LinkedAfter
  <1>3. \A i : {h \in Handles : LinkedAfter(i, h)} = {} /\ {h \in Handles : Linked(h)} = {}
    BY <1>1, <1>2
  <1>4. Cardinality({}) = 0 /\ MaxConnections \in Nat \ {0}
    BY FS_EmptySet, SessionAssumption DEF SessionAssumption
  <1>5. NeverTooMany /\ AdvertisesWithRoom
    <2>1. 0 < MaxConnections /\ 0 <= MaxConnections
      BY <1>4
    <2>2. \A i : Cardinality({h \in Handles : LinkedAfter(i, h)}) = 0
      BY <1>3, <1>4
    <2>3. Cardinality({h \in Handles : Linked(h)}) = 0
      BY <1>3, <1>4
    <2> QED
      BY <2>1, <2>2, <2>3 DEF NeverTooMany, AdvertisesWithRoom
  <1> QED
    BY <1>1, <1>2, <1>5 DEF HistoryInv, AddrInv, EventsChangeLinks, TableIsPast

(* What a step of the stack tells the loop.                                *)
LEMMA StackTells ==
  ASSUME TypeOK, Ble
  PROVE  /\ peers' = peers
         /\ \E e \in BleEvent : /\ events' = Append(events, e)
                                /\ \A h \in Handles :
                                     \/ Connects(e, h) /\ ~Linked(h) /\ conns'[h] = e.addr
                                     \/ Disconnects(e, h) /\ Linked(h) /\ conns'[h] = None
                                     \/ ~Connects(e, h) /\ ~Disconnects(e, h) /\ conns'[h] = conns[h]
  <1> DEFINE Says(e) ==
        \A h \in Handles :
          \/ Connects(e, h) /\ ~Linked(h) /\ conns'[h] = e.addr
          \/ Disconnects(e, h) /\ Linked(h) /\ conns'[h] = None
          \/ ~Connects(e, h) /\ ~Disconnects(e, h) /\ conns'[h] = conns[h]
  <1>0. conns \in [Handles -> Optional(Addrs)]
    BY DEF TypeOK
  <1>1. ASSUME NEW h \in Handles, NEW a \in Addrs, PeerConnects(h, a)
        PROVE  \E e \in BleEvent : events' = Append(events, e) /\ Says(e)
    <2> DEFINE e == [type |-> "Connected", conn_handle |-> h, addr |-> a]
    <2>1. e \in BleEvent /\ events' = Append(events, e)
      BY <1>1 DEF BleEvent, PeerConnects, OnConnect
    <2>2. /\ \A g : (Connects(e, g) <=> g = h) /\ ~Disconnects(e, g)
          /\ e.addr = a /\ ~Linked(h) /\ conns' = [conns EXCEPT ![h] = a]
      BY <1>1 DEF Connects, Disconnects, PeerConnects
    <2> HIDE DEF e
    <2>3. Says(e)
      BY <1>0, <2>2
    <2> QED
      BY <2>1, <2>3
  <1>2. ASSUME NEW h \in Handles, PeerDrops(h)
        PROVE  \E e \in BleEvent : events' = Append(events, e) /\ Says(e)
    <2> DEFINE e == [type |-> "Disconnected", conn_handle |-> h]
    <2>1. e \in BleEvent /\ events' = Append(events, e)
      BY <1>2 DEF BleEvent, PeerDrops, OnDisconnect
    <2>2. /\ \A g : (Disconnects(e, g) <=> g = h) /\ ~Connects(e, g)
          /\ Linked(h) /\ conns' = [conns EXCEPT ![h] = None]
      BY <1>2 DEF Connects, Disconnects, PeerDrops
    <2> HIDE DEF e
    <2>3. Says(e)
      BY <1>0, <2>2
    <2> QED
      BY <2>1, <2>3
  <1>3. ASSUME NEW bits \in LedBits, PeerWritesLeds(bits)
        PROVE  \E e \in BleEvent : events' = Append(events, e) /\ Says(e)
    <2> DEFINE e == [type |-> "LedState", bits |-> bits]
    <2>1. e \in BleEvent /\ events' = Append(events, e) /\ conns' = conns
      BY <1>3 DEF BleEvent, PeerWritesLeds
    <2>2. \A g : ~Disconnects(e, g) /\ ~Connects(e, g)
      BY DEF Connects, Disconnects
    <2> HIDE DEF e
    <2>3. Says(e)
      BY <2>1, <2>2
    <2> QED
      BY <2>1, <2>3
  <1>4. peers' = peers
    BY DEF Ble, PeerConnects, PeerDrops, PeerWritesLeds, peerVars
  <1> HIDE DEF Says
  <1>5. \E e \in BleEvent : events' = Append(events, e) /\ Says(e)
    BY <1>1, <1>2, <1>3 DEF Ble
  <1> QED
    BY <1>4, <1>5 DEF Says

(* A new event changes nothing about the past.                             *)
LEMMA PastKept ==
  ASSUME TypeOK, Ble, NEW h \in Handles
  PROVE  /\ \A i \in 0 .. Len(events) : LinkedAfter(i, h)' <=> LinkedAfter(i, h)
         /\ \A i \in Nat : i = Len(events) + 1 => (LinkedAfter(i, h)' <=> Linked(h)')
  <1> DEFINE n == Len(events)
  <1>0. events \in Seq(BleEvent) /\ n \in Nat
    BY DEF TypeOK
  <1>1. PICK e \in BleEvent :
          /\ events' = Append(events, e)
          /\ \/ Connects(e, h) /\ ~Linked(h) /\ conns'[h] = e.addr
             \/ Disconnects(e, h) /\ Linked(h) /\ conns'[h] = None
             \/ ~Connects(e, h) /\ ~Disconnects(e, h) /\ conns'[h] = conns[h]
    BY StackTells
  <1>2. /\ Len(events') = n + 1 /\ events'[n + 1] = e
        /\ \A i \in 1 .. n : events'[i] = events[i]
    BY <1>0, <1>1, AppendProperties
  <1> HIDE DEF n
  <1>3. \/ Connects(e, h) /\ ~Disconnects(e, h) /\ ~Linked(h)
        \/ Disconnects(e, h) /\ ~Connects(e, h) /\ Linked(h) /\ ~Linked(h)'
        \/ ~Connects(e, h) /\ ~Disconnects(e, h) /\ (Linked(h)' <=> Linked(h))
    BY <1>1 DEF Connects, Disconnects, Linked
  <1>4. \A i : LinkedAfter(i, h)' <=>
           \/ \E j \in 1 .. n + 1 :
                /\ i < j /\ Disconnects(events'[j], h)
                /\ \A k \in 1 .. n + 1 : i < k /\ k < j => ~Connects(events'[k], h)
           \/ Linked(h)' /\ \A k \in 1 .. n + 1 : i < k => ~Connects(events'[k], h)
    BY <1>2 DEF LinkedAfter
  <1>5. \A i : LinkedAfter(i, h) <=>
           \/ \E j \in 1 .. n :
                /\ i < j /\ Disconnects(events[j], h)
                /\ \A k \in 1 .. n : i < k /\ k < j => ~Connects(events[k], h)
           \/ Linked(h) /\ \A k \in 1 .. n : i < k => ~Connects(events[k], h)
    BY DEF LinkedAfter, n
  <1>6. ASSUME NEW i \in 0 .. n PROVE LinkedAfter(i, h)' <=> LinkedAfter(i, h)
    <2> DEFINE Dropped == \E j \in 1 .. n :
                 /\ i < j /\ Disconnects(events[j], h)
                 /\ \A k \in 1 .. n : i < k /\ k < j => ~Connects(events[k], h)
               Quiet == \A k \in 1 .. n : i < k => ~Connects(events[k], h)
    <2>0. /\ \A k : k \in 1 .. n + 1 <=> k \in 1 .. n \/ k = n + 1
          /\ \A k \in 1 .. n : k < n + 1
          /\ i < n + 1
      BY <1>0
    <2>1. (\E j \in 1 .. n + 1 :
             /\ i < j /\ Disconnects(events'[j], h)
             /\ \A k \in 1 .. n + 1 : i < k /\ k < j => ~Connects(events'[k], h))
          <=> Dropped \/ (Disconnects(e, h) /\ Quiet)
      <3>1. ASSUME NEW j \in 1 .. n
            PROVE  (\A k \in 1 .. n + 1 : i < k /\ k < j => ~Connects(events'[k], h))
                     <=> (\A k \in 1 .. n : i < k /\ k < j => ~Connects(events[k], h))
        BY <1>0, <1>2, <2>0
      <3>2. (\A k \in 1 .. n + 1 : i < k /\ k < n + 1 => ~Connects(events'[k], h)) <=> Quiet
        BY <1>0, <1>2, <2>0
      <3>3. (\E j \in 1 .. n :
               /\ i < j /\ Disconnects(events'[j], h)
               /\ \A k \in 1 .. n + 1 : i < k /\ k < j => ~Connects(events'[k], h))
            <=> Dropped
        BY <1>2, <3>1
      <3> HIDE DEF Quiet
      <3>4. ASSUME NEW j \in 1 .. n + 1, i < j, Disconnects(events'[j], h),
                   \A k \in 1 .. n + 1 : i < k /\ k < j => ~Connects(events'[k], h)
            PROVE  Dropped \/ (Disconnects(e, h) /\ Quiet)
        <4>1. CASE j \in 1 .. n
          BY <3>3, <3>4, <4>1
        <4>2. CASE j = n + 1
          BY <1>2, <3>2, <3>4, <4>2
        <4> QED
          BY <2>0, <4>1, <4>2
      <3>5. ASSUME Disconnects(e, h), Quiet
            PROVE  \E j \in 1 .. n + 1 :
                     /\ i < j /\ Disconnects(events'[j], h)
                     /\ \A k \in 1 .. n + 1 : i < k /\ k < j => ~Connects(events'[k], h)
        BY <1>2, <2>0, <3>2, <3>5
      <3> QED
        BY <2>0, <3>3, <3>4, <3>5
    <2>2. (\A k \in 1 .. n + 1 : i < k => ~Connects(events'[k], h)) <=> Quiet /\ ~Connects(e, h)
      BY <1>2, <2>0
    <2>3. LinkedAfter(i, h) <=> Dropped \/ (Linked(h) /\ Quiet)
      BY <1>5
    <2> HIDE DEF Dropped, Quiet
    <2> QED
      BY <1>3, <1>4, <2>1, <2>2, <2>3
  <1>7. ASSUME NEW i \in Nat, i = n + 1 PROVE LinkedAfter(i, h)' <=> Linked(h)'
    <2>1. \A k \in 1 .. n + 1 : ~(i < k)
      BY <1>0, <1>7
    <2> QED
      BY <1>4, <2>1
  <1> QED
    BY <1>6, <1>7 DEF n

(* The loop takes an event: what was the first part of the past is over.   *)
LEMMA PastShifts ==
  ASSUME TypeOK, events # <<>>, events' = Tail(events), conns' = conns, NEW h \in Handles,
         NEW i \in 0 .. Len(events) - 1
  PROVE  LinkedAfter(i, h)' <=> LinkedAfter(i + 1, h)
  <1> DEFINE n == Len(events)
  <1>1. /\ n \in Nat \ {0} /\ i \in Nat
        /\ Len(events') = n - 1
        /\ \A k \in 1 .. n - 1 : events'[k] = events[k + 1]
    BY HeadTailProperties DEF TypeOK
  <1>2. Linked(h)' <=> Linked(h)
    BY DEF Linked
  <1> HIDE DEF n
  <1>3. /\ \A k \in 1 .. n - 1 : k + 1 \in 1 .. n /\ events[k + 1] = events'[k] /\ (i < k <=> i + 1 < k + 1)
        /\ \A k \in 1 .. n : i + 1 < k => k - 1 \in 1 .. n - 1 /\ events[k] = events'[k - 1] /\ i < k - 1
    <2>1. ASSUME NEW k \in 1 .. n, i + 1 < k PROVE k - 1 \in 1 .. n - 1 /\ (k - 1) + 1 = k /\ i < k - 1
      BY <1>1, <2>1
    <2> QED
      BY <1>1, <2>1
  <1>4. (\A k \in 1 .. n - 1 : i < k => ~Connects(events'[k], h))
          <=> (\A k \in 1 .. n : i + 1 < k => ~Connects(events[k], h))
    BY <1>3
  <1>5. ASSUME NEW j \in 1 .. n - 1
        PROVE  (\A k \in 1 .. n - 1 : i < k /\ k < j => ~Connects(events'[k], h))
                 <=> (\A k \in 1 .. n : i + 1 < k /\ k < j + 1 => ~Connects(events[k], h))
    <2>1. \A k \in 1 .. n - 1 : k < j <=> k + 1 < j + 1
      OBVIOUS
    <2>2. \A k \in 1 .. n : k - 1 < j <=> k < j + 1
      OBVIOUS
    <2> QED
      BY <1>3, <2>1, <2>2
  <1>6. (\E j \in 1 .. n - 1 :
           /\ i < j /\ Disconnects(events'[j], h)
           /\ \A k \in 1 .. n - 1 : i < k /\ k < j => ~Connects(events'[k], h))
        <=> (\E j \in 1 .. n :
               /\ i + 1 < j /\ Disconnects(events[j], h)
               /\ \A k \in 1 .. n : i + 1 < k /\ k < j => ~Connects(events[k], h))
    <2>1. ASSUME NEW j \in 1 .. n - 1, i < j, Disconnects(events'[j], h),
                 \A k \in 1 .. n - 1 : i < k /\ k < j => ~Connects(events'[k], h)
          PROVE  /\ j + 1 \in 1 .. n /\ i + 1 < j + 1 /\ Disconnects(events[j + 1], h)
                 /\ \A k \in 1 .. n : i + 1 < k /\ k < j + 1 => ~Connects(events[k], h)
      BY <1>3, <1>5, <2>1
    <2>2. ASSUME NEW m \in 1 .. n, i + 1 < m, Disconnects(events[m], h),
                 \A k \in 1 .. n : i + 1 < k /\ k < m => ~Connects(events[k], h)
          PROVE  /\ m - 1 \in 1 .. n - 1 /\ i < m - 1 /\ Disconnects(events'[m - 1], h)
                 /\ \A k \in 1 .. n - 1 : i < k /\ k < m - 1 => ~Connects(events'[k], h)
      <3>1. m - 1 \in 1 .. n - 1 /\ (m - 1) + 1 = m
        BY <1>3, <2>2
      <3> QED
        BY <1>3, <1>5, <2>2, <3>1
    <2> QED
      BY <2>1, <2>2
  <1>7. LinkedAfter(i, h)' <=>
           \/ \E j \in 1 .. n - 1 :
                /\ i < j /\ Disconnects(events'[j], h)
                /\ \A k \in 1 .. n - 1 : i < k /\ k < j => ~Connects(events'[k], h)
           \/ Linked(h)' /\ \A k \in 1 .. n - 1 : i < k => ~Connects(events'[k], h)
    BY <1>1 DEF LinkedAfter
  <1>8. LinkedAfter(i + 1, h) <=>
           \/ \E j \in 1 .. n :
                /\ i + 1 < j /\ Disconnects(events[j], h)
                /\ \A k \in 1 .. n : i + 1 < k /\ k < j => ~Connects(events[k], h)
           \/ Linked(h) /\ \A k \in 1 .. n : i + 1 < k => ~Connects(events[k], h)
    BY DEF LinkedAfter, n
  <1> QED
    BY <1>2, <1>4, <1>6, <1>7, <1>8

(* The past ends with the present.                                         *)
LEMMA PresentIsPast ==
  ASSUME TypeOK, NEW h \in Handles
  PROVE  LinkedAfter(Len(events), h) <=> Linked(h)
  <1>1. \A k \in 1 .. Len(events) : ~(Len(events) < k)
    BY DEF TypeOK
  <1> QED
    BY <1>1 DEF LinkedAfter

(* The stack counts its connections, and advertises while it has room.     *)
LEMMA LinkedCount ==
  ASSUME TypeOK, NeverTooMany, AdvertisesWithRoom, Ble
  PROVE  Cardinality({h \in Handles : Linked(h)'}) <= MaxConnections /\ AdvertisesWithRoom'
  <1> DEFINE L  == {h \in Handles : Linked(h)}
             LL == {h \in Handles : Linked(h)'}
  <1>0. conns \in [Handles -> Optional(Addrs)] /\ MaxConnections \in Nat /\ None \notin Addrs
    BY SessionAssumption, WireAssumption DEF TypeOK, SessionAssumption, WireAssumption
  <1>1. IsFiniteSet(L) /\ Cardinality(L) \in Nat
    <2>1. IsFiniteSet(Handles) /\ L \in SUBSET Handles
      BY SessionAssumption DEF SessionAssumption
    <2> QED
      BY <2>1, FS_Subset, FS_CardinalityType
  <1>2. Cardinality(L) <= MaxConnections
    <2>1. {h \in Handles : LinkedAfter(Len(events), h)} = L
      BY PresentIsPast
    <2>2. Len(events) \in 0 .. Len(events)
      BY DEF TypeOK
    <2> HIDE DEF L
    <2> QED
      BY <2>1, <2>2 DEF NeverTooMany
  <1>3. ASSUME NEW g \in Handles, NEW a \in Addrs, PeerConnects(g, a)
        PROVE  Cardinality(LL) <= MaxConnections /\ (advertising' => Cardinality(LL) < MaxConnections)
    <2>1. g \notin L /\ LL = L \cup {g}
      BY <1>0, <1>3 DEF PeerConnects, Linked
    <2>2. Cardinality(L) < MaxConnections
      BY <1>3 DEF AdvertisesWithRoom, PeerConnects
    <2>3. advertising' => Cardinality(LL) < MaxConnections
      BY <1>3 DEF PeerConnects, OnConnect, Linked
    <2> HIDE DEF L, LL
    <2>4. Cardinality(L \cup {g}) = Cardinality(L) + 1
      BY <1>1, <2>1, FS_AddElement
    <2> QED
      BY <1>0, <1>1, <2>1, <2>2, <2>3, <2>4
  <1>4. ASSUME NEW g \in Handles, PeerDrops(g)
        PROVE  Cardinality(LL) < MaxConnections
    <2>1. g \in L /\ LL = L \ {g}
      BY <1>0, <1>4 DEF PeerDrops, Linked
    <2> HIDE DEF L, LL
    <2>2. Cardinality(L \ {g}) = Cardinality(L) - 1
      BY <1>1, <2>1, FS_RemoveElement
    <2> QED
      BY <1>0, <1>1, <1>2, <2>1, <2>2
  <1>5. ASSUME NEW bits \in LedBits, PeerWritesLeds(bits)
        PROVE  LL = L /\ advertising' = advertising
    BY <1>5 DEF PeerWritesLeds, Linked
  <1>6. AdvertisesWithRoom => (advertising => Cardinality(L) < MaxConnections)
    BY DEF AdvertisesWithRoom
  <1>7. (advertising' => Cardinality(LL) < MaxConnections) => AdvertisesWithRoom'
    BY DEF AdvertisesWithRoom
  <1>8. Cardinality(LL) \in Nat
    <2>1. IsFiniteSet(Handles) /\ LL \in SUBSET Handles
      BY SessionAssumption DEF SessionAssumption
    <2> QED
      BY <2>1, FS_Subset, FS_CardinalityType
  <1> HIDE DEF L, LL
  <1>9. Cardinality(LL) <= MaxConnections /\ (advertising' => Cardinality(LL) < MaxConnections)
    BY <1>0, <1>1, <1>2, <1>3, <1>4, <1>5, <1>6, <1>8 DEF Ble
  <1> QED
    BY <1>7, <1>9 DEF LL

LEMMA HistoryBle ==
  ASSUME TypeOK, HistoryInv, Ble
  PROVE  HistoryInv'
  <1> DEFINE n == Len(events)
  <1>0. events \in Seq(BleEvent) /\ n \in Nat
    BY DEF TypeOK
  <1>1. PICK e \in BleEvent :
          /\ events' = Append(events, e)
          /\ \A h \in Handles :
               \/ Connects(e, h) /\ ~Linked(h) /\ conns'[h] = e.addr
               \/ Disconnects(e, h) /\ Linked(h) /\ conns'[h] = None
               \/ ~Connects(e, h) /\ ~Disconnects(e, h) /\ conns'[h] = conns[h]
    BY StackTells
  <1>2. /\ Len(events') = n + 1 /\ events'[n + 1] = e
        /\ \A i \in 1 .. n : events'[i] = events[i]
    BY <1>0, <1>1, AppendProperties
  <1>3. /\ \A h \in Handles, i \in 0 .. n : LinkedAfter(i, h)' <=> LinkedAfter(i, h)
        /\ \A h \in Handles, i \in Nat : i = n + 1 => (LinkedAfter(i, h)' <=> Linked(h)')
    BY PastKept
  <1> HIDE DEF n
  <1>4. /\ \A i : i \in 1 .. n + 1 => i \in 1 .. n \/ i = n + 1
        /\ \A i : i \in 0 .. n + 1 => i \in 0 .. n \/ i = n + 1
        /\ n + 1 \in Nat /\ \A i \in 1 .. n : i \in 0 .. n
    BY <1>0
  <1>5. \A h \in Handles : /\ Connects(e, h) => Linked(h)'
                           /\ Disconnects(e, h) => ~Linked(h)'
    <2>1. \A h \in Handles : Connects(e, h) => e.addr # None
      BY WireAssumption DEF Connects, BleEvent, WireAssumption
    <2> QED
      BY <1>1, <2>1 DEF Linked, Connects, Disconnects
  <1>6. ASSUME NEW h \in Handles, NEW i \in 1 .. n + 1
        PROVE  /\ Connects(events'[i], h) => LinkedAfter(i, h)'
               /\ Disconnects(events'[i], h) => ~LinkedAfter(i, h)'
    <2>1. CASE i \in 1 .. n
      <3>1. /\ Connects(events[i], h) => LinkedAfter(i, h)
            /\ Disconnects(events[i], h) => ~LinkedAfter(i, h)
        BY <2>1 DEF HistoryInv, EventsChangeLinks, n
      <3> QED
        BY <1>2, <1>3, <1>4, <2>1, <3>1
    <2>2. CASE i = n + 1
      BY <1>2, <1>3, <1>4, <1>5, <2>2
    <2> QED
      BY <1>4, <2>1, <2>2
  <1>7. EventsChangeLinks'
    BY <1>2, <1>6 DEF EventsChangeLinks
  <1>8. ASSUME NEW i \in 0 .. n + 1
        PROVE  Cardinality({h \in Handles : LinkedAfter(i, h)'}) <= MaxConnections
    <2>1. CASE i \in 0 .. n
      <3>1. {h \in Handles : LinkedAfter(i, h)'} = {h \in Handles : LinkedAfter(i, h)}
        BY <1>3, <2>1
      <3> QED
        BY <2>1, <3>1 DEF HistoryInv, NeverTooMany, n
    <2>2. CASE i = n + 1
      <3>1. {h \in Handles : LinkedAfter(i, h)'} = {h \in Handles : Linked(h)'}
        BY <1>3, <1>4, <2>2
      <3>2. Cardinality({h \in Handles : Linked(h)'}) <= MaxConnections
        BY LinkedCount DEF HistoryInv
      <3> QED
        BY <3>1, <3>2
    <2> QED
      BY <1>4, <2>1, <2>2
  <1>9. NeverTooMany'
    BY <1>2, <1>8 DEF NeverTooMany
  <1>10. TableIsPast'
    <2>1. peers' = peers
      BY StackTells
    <2>2. \A h \in Handles : LinkedAfter(0, h)' <=> LinkedAfter(0, h)
      BY <1>0, <1>3
    <2> QED
      BY <2>1, <2>2 DEF HistoryInv, TableIsPast, HasHandle
  <1> QED
    BY <1>7, <1>9, <1>10, LinkedCount DEF HistoryInv

(* What the table holds after an event is handled.                         *)
LEMMA Least ==
  ASSUME NEW S \in SUBSET Nat, S # {}
  PROVE  \E s \in S : \A r \in S : s <= r
  <1> DEFINE R == OpToRel(<, Nat)
  <1>1. \E x \in S : \A y \in S : ~ (<<y, x>> \in R)
    <2>1. IsWellFoundedOn(R, Nat)
      BY NatLessThanWellFounded
    <2> HIDE DEF R
    <2> QED
      BY <2>1, WFMin
  <1>2. ASSUME NEW x \in Nat, NEW y \in Nat, y < x PROVE <<y, x>> \in R
    BY <1>2 DEF OpToRel
  <1> HIDE DEF R
  <1>3. PICK s \in S : \A y \in S : ~ (<<y, s>> \in R)
    BY <1>1
  <1>4. ASSUME NEW r \in S PROVE s <= r
    <2>1. s \in Nat /\ r \in Nat
      OBVIOUS
    <2>2. ~(<<r, s>> \in R)
      BY <1>3
    <2>3. ~(r < s)
      BY <1>2, <2>1, <2>2
    <2> QED
      BY <2>1, <2>3
  <1> QED
    BY <1>3, <1>4

(* A slot is free for every connection the loop hears of: the connections  *)
(* that have one are no more than the stack allows, without the new one.   *)
LEMMA RoomForConnected ==
  ASSUME MaxConnections <= MAX_PEERS, TypeOK, QueueInv, HistoryInv, HandleConnected
  PROVE  \E s \in Slots : FirstFreeSlot(s)
  <1> DEFINE Occupants == {h \in Handles : LinkedAfter(0, h)}
             First     == {h \in Handles : LinkedAfter(1, h)}
             g         == Head(events).conn_handle
  <1>0. /\ peers \in [Slots -> Optional(PeerSlot)] /\ None \notin PeerSlot /\ IsFiniteSet(Handles)
        /\ MAX_PEERS \in Nat \ {0} /\ MaxConnections \in Nat /\ DistinctHandles
    BY SessionAssumption, WireAssumption DEF TypeOK, SessionAssumption, WireAssumption, QueueInv
  <1>1. /\ events \in Seq(BleEvent) /\ events # <<>> /\ g \in Handles /\ Connects(events[1], g)
        /\ 1 \in 1 .. Len(events) /\ 1 \in 0 .. Len(events)
    BY DrainType DEF TypeOK, HandleConnected, Drain, Connects, BleEvent
  <1>2. g \in First /\ g \notin Occupants
    <2>1. LinkedAfter(1, g)
      BY <1>1 DEF HistoryInv, EventsChangeLinks
    <2>2. \A s \in Slots : ~HasHandle(s, g)
      BY <1>1 DEF QueueInv, DropBeforeReuse
    <2>3. ~LinkedAfter(0, g)
      BY <1>1, <2>2 DEF HistoryInv, TableIsPast
    <2> QED
      BY <1>1, <2>1, <2>3
  <1>3. Occupants \subseteq First
    <2>1. ASSUME NEW h \in Handles, LinkedAfter(0, h) PROVE LinkedAfter(1, h)
      <3>1. ~Disconnects(events[1], h)
        BY <1>1 DEF Connects, Disconnects
      <3>2. \A j \in 1 .. Len(events) : 0 < j /\ Disconnects(events[j], h) => 1 < j
        BY <3>1
      <3> QED
        BY <2>1, <3>2 DEF LinkedAfter
    <2> QED
      BY <2>1
  <1>4. Cardinality(First) <= MaxConnections
    BY <1>1 DEF HistoryInv, NeverTooMany
  <1>5. /\ IsFiniteSet(Occupants) /\ IsFiniteSet(First)
        /\ Cardinality(Occupants) \in Nat /\ Cardinality(First) \in Nat
    <2>1. Occupants \in SUBSET Handles /\ First \in SUBSET Handles
      OBVIOUS
    <2> HIDE DEF Occupants, First
    <2> QED
      BY <1>0, <2>1, FS_Subset, FS_CardinalityType
  <1>6. \A s \in Slots : peers[s] # None => peers[s].conn_handle \in Occupants
    BY <1>0 DEF HistoryInv, TableIsPast, HasHandle, Optional, PeerSlot
  <1> HIDE DEF Occupants, First, g
  <1>7. Cardinality(Occupants) < MAX_PEERS
    <2>1. Cardinality(Occupants \cup {g}) = Cardinality(Occupants) + 1
      BY <1>2, <1>5, FS_AddElement
    <2>2. Occupants \cup {g} \in SUBSET First
      BY <1>2, <1>3
    <2>3. Cardinality(Occupants \cup {g}) <= Cardinality(First)
      BY <1>5, <2>2, FS_Subset
    <2> QED
      BY <1>0, <1>4, <1>5, <2>1, <2>3
  <1>8. \E s \in Slots : peers[s] = None
    <2> SUFFICES ASSUME \A s \in Slots : peers[s] # None PROVE FALSE
      OBVIOUS
    <2> DEFINE f == [s \in Slots |-> peers[s].conn_handle]
    <2>1. f \in Injection(Slots, Occupants)
      <3>1. f \in [Slots -> Occupants]
        BY <1>6
      <3>2. \A r, s \in Slots : f[r] = f[s] => r = s
        BY <1>0 DEF DistinctHandles
      <3> QED
        BY <3>1, <3>2 DEF Injection, IsInjective
    <2> HIDE DEF f
    <2>2. Cardinality(Slots) <= Cardinality(Occupants)
      BY <1>5, <2>1, FS_Injection
    <2>3. Cardinality(Slots) = MAX_PEERS
      BY <1>0, FS_Interval DEF Slots
    <2> QED
      BY <1>0, <1>5, <1>7, <2>2, <2>3
  <1>9. PICK s \in {r \in Slots : peers[r] = None} : \A r \in {q \in Slots : peers[q] = None} : s <= r
    <2> DEFINE Free == {q \in Slots : peers[q] = None}
    <2>1. Free \in SUBSET Nat /\ Free # {}
      BY <1>0, <1>8 DEF Slots
    <2> HIDE DEF Free
    <2>2. \E q \in Free : \A r \in Free : q <= r
      BY <2>1, Least
    <2> QED
      BY <2>2 DEF Free
  <1> QED
    BY <1>9 DEF FirstFreeSlot

(* Which connections have a slot after an event, and where it comes from.  *)
LEMMA TableAfterEvent ==
  ASSUME MaxConnections <= MAX_PEERS, TypeOK, QueueInv, HistoryInv, HandleBleEvent
  PROVE  /\ \A h \in Handles : Connects(Head(events), h) => \E s \in Slots : HasHandle(s, h)'
         /\ \A h \in Handles, s \in Slots :
              /\ HasHandle(s, h) /\ ~Disconnects(Head(events), h) => HasHandle(s, h)'
              /\ HasHandle(s, h)' =>
                   /\ ~Disconnects(Head(events), h)
                   /\ \/ HasHandle(s, h) /\ peers'[s] = peers[s]
                      \/ Connects(Head(events), h) /\ peers'[s].addr = Head(events).addr
  <1> DEFINE g == Head(events).conn_handle
             a == Head(events).addr
  <1>0. peers \in [Slots -> Optional(PeerSlot)]
    BY DEF TypeOK
  <1>1. CASE HandleConnected
    <2>1. Head(events).type = "Connected"
      BY <1>1, DrainType DEF HandleConnected
    <2>2. PICK s \in Slots : peers[s] = None /\ peers' = [peers EXCEPT ![s] = [conn_handle |-> g, addr |-> a]]
      BY <1>1, RoomForConnected DEF HandleConnected, FirstFreeSlot
    <2>3. None # [conn_handle |-> g, addr |-> a]
      <3>1. g \in Handles /\ a \in Addrs
        BY <1>1, DrainType DEF TypeOK, HandleConnected, Drain, BleEvent
      <3> QED
        BY <3>1, SessionAssumption DEF PeerSlot, SessionAssumption
    <2>4. /\ \A r \in Slots : r # s => peers'[r] = peers[r]
          /\ peers'[s] = [conn_handle |-> g, addr |-> a]
      BY <1>0, <2>2
    <2>5. \A h : (Connects(Head(events), h) <=> h = g) /\ ~Disconnects(Head(events), h)
      BY <2>1 DEF Connects, Disconnects
    <2> HIDE DEF g, a
    <2>6. \A h : HasHandle(s, h)' <=> h = g
      BY <2>3, <2>4 DEF HasHandle
    <2>7. \A h : ~HasHandle(s, h)
      BY <2>2 DEF HasHandle
    <2>8. \A h, r : r \in Slots /\ r # s => (HasHandle(r, h)' <=> HasHandle(r, h))
      BY <2>4 DEF HasHandle
    <2> QED
      BY <2>4, <2>5, <2>6, <2>7, <2>8 DEF a
  <1>2. CASE HandleDisconnected
    <2>1. Head(events).type = "Disconnected"
      BY <1>2, DrainType DEF HandleDisconnected
    <2>2. \A h : (Disconnects(Head(events), h) <=> h = g) /\ ~Connects(Head(events), h)
      BY <2>1 DEF Connects, Disconnects
    <2>3. \A h \in Handles, s \in Slots :
            HasHandle(s, h)' => HasHandle(s, h) /\ ~Disconnects(Head(events), h)
      BY <2>2, HandlesAfterEvent
    <2>4. \/ peers' = peers
          \/ \E s \in Slots : HasHandle(s, g) /\ peers' = [peers EXCEPT ![s] = None]
      BY <1>2 DEF HandleDisconnected, SlotForConnHandle
    <2>5. \A h \in Handles, s \in Slots : HasHandle(s, h) /\ h # g => peers'[s] = peers[s]
      BY <1>0, <2>4 DEF HasHandle
    <2> QED
      BY <2>2, <2>3, <2>5 DEF HasHandle
  <1>3. CASE HandleLedState
    <2>1. Head(events).type = "LedState" /\ peers' = peers
      BY <1>3, DrainType DEF HandleLedState
    <2> QED
      BY <2>1 DEF Connects, Disconnects, HasHandle
  <1> QED
    BY <1>1, <1>2, <1>3 DEF HandleBleEvent

LEMMA HistoryEvent ==
  ASSUME MaxConnections <= MAX_PEERS, TypeOK, QueueInv, HistoryInv, HandleBleEvent
  PROVE  HistoryInv'
  <1> DEFINE n == Len(events)
  <1>1. /\ events \in Seq(BleEvent) /\ n \in Nat \ {0} /\ events # <<>> /\ events' = Tail(events)
        /\ UNCHANGED <<conns, advertising>>
        /\ Head(events) = events[1] /\ Len(events') = n - 1
        /\ \A i \in 1 .. n - 1 : events'[i] = events[i + 1]
    <2>1. events # <<>> /\ events' = Tail(events) /\ UNCHANGED <<conns, advertising>>
      BY DEF HandleBleEvent, HandleConnected, HandleDisconnected, HandleLedState, Drain
    <2>2. events \in Seq(BleEvent)
      BY DEF TypeOK
    <2> QED
      BY <2>1, <2>2, HeadTailProperties
  <1>2. \A h \in Handles, i \in 0 .. n - 1 : LinkedAfter(i, h)' <=> LinkedAfter(i + 1, h)
    BY <1>1, PastShifts
  <1> HIDE DEF n
  <1>3. /\ \A i \in 1 .. n - 1 : i \in 0 .. n - 1 /\ i + 1 \in 1 .. n
        /\ \A i \in 0 .. n - 1 : i + 1 \in 0 .. n
        /\ 0 \in 0 .. n - 1 /\ 1 \in 1 .. n
    BY <1>1
  <1>4. EventsChangeLinks'
    <2>1. ASSUME NEW h \in Handles, NEW i \in 1 .. n - 1
          PROVE  /\ Connects(events'[i], h) => LinkedAfter(i, h)'
                 /\ Disconnects(events'[i], h) => ~LinkedAfter(i, h)'
      <3>1. /\ Connects(events[i + 1], h) => LinkedAfter(i + 1, h)
            /\ Disconnects(events[i + 1], h) => ~LinkedAfter(i + 1, h)
        BY <1>3 DEF HistoryInv, EventsChangeLinks, n
      <3> QED
        BY <1>1, <1>2, <1>3, <3>1
    <2> QED
      BY <1>1, <2>1 DEF EventsChangeLinks
  <1>5. NeverTooMany'
    <2>1. ASSUME NEW i \in 0 .. n - 1
          PROVE  Cardinality({h \in Handles : LinkedAfter(i, h)'}) <= MaxConnections
      <3>1. {h \in Handles : LinkedAfter(i, h)'} = {h \in Handles : LinkedAfter(i + 1, h)}
        BY <1>2
      <3> QED
        BY <1>3, <3>1 DEF HistoryInv, NeverTooMany, n
    <2> QED
      BY <1>1, <2>1 DEF NeverTooMany
  <1>6. TableIsPast'
    <2>1. ASSUME NEW h \in Handles PROVE (\E s \in Slots : HasHandle(s, h)') <=> LinkedAfter(1, h)
      <3>1. CASE Connects(events[1], h)
        BY <1>1, <1>3, <3>1, TableAfterEvent DEF HistoryInv, EventsChangeLinks, n
      <3>2. CASE Disconnects(events[1], h)
        BY <1>1, <1>3, <3>2, TableAfterEvent DEF HistoryInv, EventsChangeLinks, n
      <3>3. CASE ~Connects(events[1], h) /\ ~Disconnects(events[1], h)
        <4>1. LinkedAfter(0, h) <=> LinkedAfter(1, h)
          <5>1. \A j \in 1 .. n : 0 < j /\ (j # 1 <=> 1 < j)
            OBVIOUS
          <5>2. /\ \A j \in 1 .. n : Disconnects(events[j], h) => 1 < j
                /\ \A j \in 1 .. n : Connects(events[j], h) => 1 < j
            BY <3>3, <5>1
          <5> QED
            BY <5>1, <5>2 DEF LinkedAfter, n
        <4>2. (\E s \in Slots : HasHandle(s, h)) <=> LinkedAfter(0, h)
          BY DEF HistoryInv, TableIsPast
        <4> QED
          BY <1>1, <3>3, <4>1, <4>2, TableAfterEvent
      <3> QED
        BY <3>1, <3>2, <3>3
    <2>2. \A h \in Handles : LinkedAfter(0, h)' <=> LinkedAfter(1, h)
      <3>1. 0 + 1 = 1
        OBVIOUS
      <3> QED
        BY <1>2, <1>3, <3>1
    <2> QED
      BY <2>1, <2>2 DEF TableIsPast
  <1>7. AdvertisesWithRoom'
    BY <1>1 DEF HistoryInv, AdvertisesWithRoom, Linked
  <1> QED
    BY <1>4, <1>5, <1>6, <1>7 DEF HistoryInv

LEMMA AddrBle ==
  ASSUME TypeOK, QueueInv, AddrInv, Ble
  PROVE  AddrInv'
  <1> DEFINE n == Len(events)
  <1>0. events \in Seq(BleEvent) /\ n \in Nat
    BY DEF TypeOK
  <1>1. PICK e \in BleEvent :
          /\ events' = Append(events, e)
          /\ \A h \in Handles :
               \/ Connects(e, h) /\ ~Linked(h) /\ conns'[h] = e.addr
               \/ Disconnects(e, h) /\ Linked(h) /\ conns'[h] = None
               \/ ~Connects(e, h) /\ ~Disconnects(e, h) /\ conns'[h] = conns[h]
    BY StackTells
  <1>2. /\ Len(events') = n + 1 /\ events'[n + 1] = e
        /\ \A i \in 1 .. n : events'[i] = events[i]
    BY <1>0, <1>1, AppendProperties
  <1>3. peers' = peers
    BY StackTells
  <1> HIDE DEF n
  <1>4. /\ \A i : i \in 1 .. n + 1 <=> i \in 1 .. n \/ i = n + 1
        /\ \A i \in 1 .. n : i < n + 1
    BY <1>0
  <1>5. ASSUME NEW h \in Handles, NEW s \in Slots, HasHandle(s, h),
               \A k \in 1 .. n + 1 : ~Disconnects(events'[k], h)
        PROVE  peers'[s].addr = conns'[h]
    <2>1. ~Disconnects(e, h) /\ \A k \in 1 .. n : ~Disconnects(events[k], h)
      BY <1>2, <1>4, <1>5
    <2>2. Linked(h) /\ peers[s].addr = conns[h]
      BY <1>5, <2>1 DEF AddrInv, QueueInv, DropOnItsWay, n
    <2> QED
      BY <1>1, <1>3, <2>1, <2>2
  <1>6. ASSUME NEW h \in Handles, NEW i \in 1 .. n + 1, Connects(events'[i], h),
               \A k \in 1 .. n + 1 : i < k => ~Disconnects(events'[k], h)
        PROVE  events'[i].addr = conns'[h]
    <2>1. CASE i \in 1 .. n
      <3>1. ~Disconnects(e, h) /\ \A k \in 1 .. n : i < k => ~Disconnects(events[k], h)
        BY <1>2, <1>4, <1>6, <2>1
      <3>2. Connects(events[i], h)
        BY <1>2, <1>6, <2>1
      <3>3. Linked(h) /\ events[i].addr = conns[h]
        BY <2>1, <3>1, <3>2 DEF AddrInv, QueueInv, DropOnItsWay, n
      <3> QED
        BY <1>1, <1>2, <2>1, <3>1, <3>3
    <2>2. CASE i = n + 1
      BY <1>1, <1>2, <1>6, <2>2 DEF Connects, Disconnects
    <2> QED
      BY <1>4, <2>1, <2>2
  <1> QED
    BY <1>2, <1>3, <1>5, <1>6 DEF AddrInv, HasHandle

LEMMA AddrEvent ==
  ASSUME MaxConnections <= MAX_PEERS, TypeOK, QueueInv, HistoryInv, AddrInv, HandleBleEvent
  PROVE  AddrInv'
  <1> DEFINE n == Len(events)
  <1>1. /\ n \in Nat \ {0} /\ conns' = conns /\ Head(events) = events[1] /\ Len(events') = n - 1
        /\ \A i \in 1 .. n - 1 : events'[i] = events[i + 1]
    <2>1. events \in Seq(BleEvent) /\ events # <<>> /\ events' = Tail(events) /\ conns' = conns
      BY DEF TypeOK, HandleBleEvent, HandleConnected, HandleDisconnected, HandleLedState, Drain
    <2> QED
      BY <2>1, HeadTailProperties
  <1> HIDE DEF n
  <1>2. /\ \A i \in 1 .. n - 1 : i + 1 \in 1 .. n
        /\ \A k \in 1 .. n : 1 < k => k - 1 \in 1 .. n - 1 /\ events[k] = events'[k - 1]
        /\ \A k \in 1 .. n : k = 1 \/ 1 < k
        /\ 1 \in 1 .. n
    <2>1. ASSUME NEW k \in 1 .. n, 1 < k PROVE k - 1 \in 1 .. n - 1 /\ (k - 1) + 1 = k
      BY <1>1, <2>1
    <2> QED
      BY <1>1, <2>1
  <1>3. ASSUME NEW h \in Handles, NEW s \in Slots, HasHandle(s, h)',
               \A k \in 1 .. n - 1 : ~Disconnects(events'[k], h)
        PROVE  peers'[s].addr = conns[h]
    <2>1. \A k \in 1 .. n : 1 < k => ~Disconnects(events[k], h)
      BY <1>2, <1>3
    <2>2. /\ ~Disconnects(events[1], h)
          /\ \/ HasHandle(s, h) /\ peers'[s] = peers[s]
             \/ Connects(events[1], h) /\ peers'[s].addr = events[1].addr
      BY <1>1, <1>3, TableAfterEvent
    <2>3. CASE HasHandle(s, h) /\ peers'[s] = peers[s]
      BY <1>2, <2>1, <2>2, <2>3 DEF AddrInv, n
    <2>4. CASE Connects(events[1], h) /\ peers'[s].addr = events[1].addr
      BY <1>2, <2>1, <2>4 DEF AddrInv, n
    <2> QED
      BY <2>2, <2>3, <2>4
  <1>4. ASSUME NEW h \in Handles, NEW i \in 1 .. n - 1, Connects(events'[i], h),
               \A k \in 1 .. n - 1 : i < k => ~Disconnects(events'[k], h)
        PROVE  events'[i].addr = conns[h]
    <2>1. ASSUME NEW k \in 1 .. n, i + 1 < k PROVE ~Disconnects(events[k], h)
      <3>1. 1 < k /\ i < k - 1
        BY <1>1, <2>1
      <3> QED
        BY <1>2, <1>4, <3>1
    <2> QED
      BY <1>1, <1>2, <1>4, <2>1 DEF AddrInv, n
  <1> QED
    BY <1>1, <1>3, <1>4 DEF AddrInv

LEMMA TableStep ==
  ASSUME MaxConnections <= MAX_PEERS, TypeOK, QueueInv, HistoryInv, AddrInv, [Next]_vars
  PROVE  HistoryInv' /\ AddrInv'
  <1>1. Ble \/ HandleBleEvent \/ UNCHANGED <<conns, advertising, events, peers>>
    BY DEF Next, EventsDrained, Flush, FlushSkipped, FlushUnlinked, FlushDue, Notify, PacingElapses,
       ReadBytes, ReadTimesOut, ReadFails, WindowEmpty, HandleHostMsg, SelectPeer, SelectNone,
       SelectInvalid, SelectSame, SelectOther, Hello, InputIgnored, KeyboardState, ConsumerState,
       TouchFrameMsg, Decoded, UartTx, vars, bleVars, peerVars
  <1>2. ASSUME UNCHANGED <<conns, advertising, events, peers>> PROVE HistoryInv' /\ AddrInv'
    <2>1. \A i, h : LinkedAfter(i, h)' <=> LinkedAfter(i, h)
      BY <1>2 DEF LinkedAfter, Linked
    <2>2. \A i : {h \in Handles : LinkedAfter(i, h)'} = {h \in Handles : LinkedAfter(i, h)}
      BY <2>1
    <2>3. EventsChangeLinks' /\ TableIsPast' /\ AdvertisesWithRoom'
      BY <1>2, <2>1
         DEF HistoryInv, EventsChangeLinks, TableIsPast, AdvertisesWithRoom, HasHandle, Linked
    <2>4. NeverTooMany'
      BY <1>2, <2>2 DEF HistoryInv, NeverTooMany
    <2>5. AddrInv'
      BY <1>2 DEF AddrInv, HasHandle
    <2> QED
      BY <2>3, <2>4, <2>5 DEF HistoryInv
  <1> QED
    BY <1>1, <1>2, HistoryBle, HistoryEvent, AddrBle, AddrEvent

(* Once the events are drained the peer table is the set of connections,   *)
(* with their addresses, even if handles are reused.  The hypothesis is    *)
(* the configuration's: with more connections than slots, the loop would   *)
(* leave a peer out.                                                       *)
THEOREM PeerTableAlwaysTracksLinks ==
  ASSUME MaxConnections <= MAX_PEERS
  PROVE  Spec => []PeerTableTracksLinks
  <1>1. Spec => [](TypeOK /\ QueueInv)
    BY TypeCorrect, QueueInvariant, PTL
  <1>2. TypeOK /\ QueueInv /\ HistoryInv /\ AddrInv /\ [Next]_vars => HistoryInv' /\ AddrInv'
    BY TableStep
  <1>3. TypeOK /\ HistoryInv /\ AddrInv => PeerTableTracksLinks
    <2> SUFFICES ASSUME TypeOK, HistoryInv, AddrInv, \A h \in Handles : ~Pending(h)
                 PROVE  {peers[s] : s \in Slots} \ {None}
                          = {[conn_handle |-> h, addr |-> conns[h]] : h \in {g \in Handles : Linked(g)}}
      BY DEF PeerTableTracksLinks
    <2>0. /\ peers \in [Slots -> Optional(PeerSlot)] /\ None \notin PeerSlot
          /\ conns \in [Handles -> Optional(Addrs)]
      BY SessionAssumption DEF TypeOK, SessionAssumption
    <2>1. \A h \in Handles, k \in 1 .. Len(events) : ~Connects(events[k], h) /\ ~Disconnects(events[k], h)
      BY DEF TypeOK, Pending, Connects, Disconnects
    <2>2. \A h \in Handles : (\E s \in Slots : HasHandle(s, h)) <=> Linked(h)
      BY <2>1 DEF HistoryInv, TableIsPast, LinkedAfter
    <2>3. \A h \in Handles, s \in Slots : HasHandle(s, h) => peers[s] = [conn_handle |-> h, addr |-> conns[h]]
      BY <2>0, <2>1 DEF AddrInv, HasHandle, Optional, PeerSlot
    <2>4. \A s \in Slots : peers[s] # None =>
            peers[s].conn_handle \in Handles /\ HasHandle(s, peers[s].conn_handle)
      BY <2>0 DEF HasHandle, Optional, PeerSlot
    <2>5. ASSUME NEW s \in Slots, peers[s] # None
          PROVE  \E h \in Handles : Linked(h) /\ peers[s] = [conn_handle |-> h, addr |-> conns[h]]
      BY <2>2, <2>3, <2>4, <2>5
    <2>6. ASSUME NEW h \in Handles, Linked(h)
          PROVE  \E s \in Slots : peers[s] = [conn_handle |-> h, addr |-> conns[h]] /\ peers[s] # None
      BY <2>2, <2>3, <2>6 DEF HasHandle
    <2> DEFINE T == {peers[s] : s \in Slots} \ {None}
               C == {[conn_handle |-> h, addr |-> conns[h]] : h \in {g \in Handles : Linked(g)}}
    <2>7. \A x \in T : x \in C
      <3> SUFFICES ASSUME NEW s \in Slots, peers[s] # None PROVE peers[s] \in C
        OBVIOUS
      <3>1. PICK h \in Handles : Linked(h) /\ peers[s] = [conn_handle |-> h, addr |-> conns[h]]
        BY <2>5
      <3>2. h \in {g \in Handles : Linked(g)}
        BY <3>1
      <3> QED
        BY <3>1, <3>2
    <2>8. \A x \in C : x \in T
      <3> SUFFICES ASSUME NEW h \in Handles, Linked(h)
                   PROVE  [conn_handle |-> h, addr |-> conns[h]] \in T
        OBVIOUS
      <3>1. PICK s \in Slots : peers[s] = [conn_handle |-> h, addr |-> conns[h]] /\ peers[s] # None
        BY <2>6
      <3> QED
        BY <3>1
    <2> HIDE DEF T, C
    <2>9. T = C
      BY <2>7, <2>8
    <2> QED
      BY <2>9 DEF T, C
  <1> QED
    BY <1>1, <1>2, <1>3, HistoryInit, PTL DEF Spec
=============================================================================
