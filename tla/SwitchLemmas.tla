---------------------------- MODULE SwitchLemmas ----------------------------
(***************************************************************************)
(* Facts about the two operator libraries that a host is built on: what    *)
(* keeps its slot table sound, and what keeps the switch at the other end  *)
(* of the link, and the messages that come from it, typed.                 *)
(***************************************************************************)
EXTENDS InputSwitch, SlotTable, SequenceTheorems, WellFoundedInduction, TLAPS

-----------------------------------------------------------------------------
(* The slot table.  A sound table forwards exactly when it has an active   *)
(* slot, and that slot has a peer.                                         *)

Sound(t) ==
  /\ t \in SlotTables
  /\ t.forwarding = (t.active # None)
  /\ t.forwarding => HasSlot(t, t.active)

LEMMA SlotsAreNotNone == None \notin Slots /\ None \notin Addrs
  BY WireAssumption DEF WireAssumption, Slots

LEMMA NewTableSound == Sound(NewTable)
  <1>1. NewTable \in SlotTables
    BY DEF NewTable, SlotTables
  <1> QED
    BY <1>1 DEF NewTable, Sound

LEMMA SetActiveFields ==
  ASSUME NEW t \in SlotTables, NEW slot
  PROVE  LET next == IF HasSlot(t, slot) THEN slot ELSE None
         IN  SetActive(t, slot) = [slots |-> t.slots, active |-> next, forwarding |-> next # None]
  <1> DEFINE next == IF HasSlot(t, slot) THEN slot ELSE None
  <1>1. SetActive(t, slot) = [t EXCEPT !.active = next, !.forwarding = next # None]
    BY DEF SetActive
  <1> HIDE DEF next
  <1>2. t = [slots |-> t.slots, active |-> t.active, forwarding |-> t.forwarding]
    BY DEF SlotTables
  <1>3. SetActive(t, slot) = [slots |-> t.slots, active |-> next, forwarding |-> next # None]
    BY <1>1, <1>2
  <1> QED
    BY <1>3 DEF next

LEMMA SetActiveSound ==
  ASSUME NEW t \in SlotTables, NEW slot
  PROVE  Sound(SetActive(t, slot))
  <1> DEFINE next == IF HasSlot(t, slot) THEN slot ELSE None
             u    == [t EXCEPT !.active = next, !.forwarding = next # None]
  <1>1. next \in Slots \cup {None}
    BY DEF HasSlot
  <1>2. next # None => HasSlot(t, next)
    OBVIOUS
  <1> HIDE DEF next
  <1>3. (next # None) \in BOOLEAN
    OBVIOUS
  <1>4. u \in SlotTables /\ u.slots = t.slots /\ u.active = next /\ u.forwarding = (next # None)
    BY <1>1, <1>3 DEF SlotTables
  <1>5. HasSlot(u, u.active) <=> HasSlot(t, next)
    BY <1>4 DEF HasSlot
  <1>6. Sound(u)
    <2>1. u.forwarding => HasSlot(u, u.active)
      BY <1>2, <1>4, <1>5
    <2>2. u.forwarding = (u.active # None)
      BY <1>4
    <2> HIDE DEF u
    <2> QED
      BY <1>4, <2>1, <2>2 DEF Sound
  <1>7. SetActive(t, slot) = u
    BY DEF SetActive, next
  <1> QED
    BY <1>6, <1>7

LEMMA ApplySnapshotSound ==
  ASSUME NEW t \in SlotTables, NEW snapshot \in PeerSnapshot
  PROVE  Sound(ApplySnapshot(t, snapshot))
  <1> DEFINE told == {snapshot.peers[i] : i \in Slots} \ {None}
             addr(s) == IF \E p \in told : p.slot = s
                          THEN (CHOOSE p \in told : p.slot = s).addr ELSE None
             u == [t EXCEPT !.slots = [s \in Slots |-> addr(s)]]
  <1>1. told \subseteq PeerDescriptor
    BY DEF PeerSnapshot
  <1>2. ASSUME NEW s \in Slots PROVE addr(s) \in Addrs \cup {None}
    <2>1. CASE \E p \in told : p.slot = s
      <3>1. (CHOOSE p \in told : p.slot = s) \in told
        BY <2>1
      <3> QED
        BY <1>1, <2>1, <3>1 DEF PeerDescriptor
    <2> QED
      BY <2>1
  <1> HIDE DEF addr
  <1>3. [s \in Slots |-> addr(s)] \in [Slots -> Addrs \cup {None}]
    BY <1>2
  <1>4. u \in SlotTables
    BY <1>3 DEF SlotTables
  <1>5. ApplySnapshot(t, snapshot) = SetActive(u, snapshot.active_slot)
    BY DEF ApplySnapshot, addr
  <1> QED
    BY <1>4, <1>5, SetActiveSound

LEMMA ConnectSound ==
  ASSUME NEW t, Sound(t), NEW peer \in PeerDescriptor
  PROVE  Sound(Connect(t, peer)) /\ Connect(t, peer).forwarding = t.forwarding
  <1> DEFINE u == Connect(t, peer)
  <1>1. peer.slot \in Slots /\ peer.addr \in Addrs
    BY DEF PeerDescriptor
  <1>2. u \in SlotTables /\ u.active = t.active /\ u.forwarding = t.forwarding
        /\ u.slots = [t.slots EXCEPT ![peer.slot] = peer.addr]
    BY <1>1 DEF Sound, SlotTables, Connect
  <1>3. t.slots \in [Slots -> Addrs \cup {None}]
    BY DEF Sound, SlotTables
  <1>4. \A s : HasSlot(t, s) => HasSlot(u, s)
    BY <1>1, <1>2, <1>3, SlotsAreNotNone DEF HasSlot
  <1> QED
    BY <1>2, <1>4 DEF Sound

LEMMA DisconnectSound ==
  ASSUME NEW t, Sound(t), NEW slot \in Slots
  PROVE  Sound(Disconnect(t, slot))
  <1> DEFINE u == Disconnect(t, slot)
  <1>1. t.slots \in [Slots -> Addrs \cup {None}] /\ t.active \in Slots \cup {None}
        /\ t.forwarding \in BOOLEAN /\ t \in SlotTables
    BY DEF Sound, SlotTables
  <1>2. u.slots = [t.slots EXCEPT ![slot] = None]
        /\ u.active = (IF t.active = slot THEN None ELSE t.active)
        /\ u.forwarding = (t.forwarding /\ t.active # slot)
        /\ u \in SlotTables
    BY <1>1 DEF SlotTables, Disconnect
  <1>3. \A s : s # slot /\ HasSlot(t, s) => HasSlot(u, s)
    BY <1>1, <1>2 DEF HasSlot
  <1> QED
    BY <1>1, <1>2, <1>3, SlotsAreNotNone DEF Sound

(* What a message of each type carries.                                    *)
LEMMA MessageParts ==
  ASSUME NEW msg \in FirmwareMsg
  PROVE  /\ msg.type = "PeerSnapshot" => msg.snapshot \in PeerSnapshot
         /\ msg.type = "PeerConnected" => msg.peer \in PeerDescriptor
         /\ msg.type = "PeerDisconnected" => msg.slot \in Slots
  BY DEF FirmwareMsg, ProtocolError

(* A sound table stays sound whatever message is applied to it, and only   *)
(* messages of three types can change its flag.                            *)
LEMMA ApplySound ==
  ASSUME NEW t, Sound(t), NEW msg \in FirmwareMsg
  PROVE  /\ Sound(Apply(t, msg))
         /\ msg.type \notin {"PeerSnapshot", "PeerDisconnected", "ActivePeerChanged"}
              => Apply(t, msg).forwarding = t.forwarding
  <1>0. t \in SlotTables
    BY DEF Sound
  <1>1. CASE msg.type = "PeerSnapshot"
    BY <1>0, <1>1, MessageParts, ApplySnapshotSound DEF Apply
  <1>2. CASE msg.type = "PeerConnected"
    BY <1>2, MessageParts, ConnectSound DEF Apply
  <1>3. CASE msg.type = "PeerDisconnected"
    BY <1>3, MessageParts, DisconnectSound DEF Apply
  <1>4. CASE msg.type = "ActivePeerChanged"
    BY <1>0, <1>4, SetActiveSound DEF Apply
  <1>5. CASE msg.type \notin {"PeerSnapshot", "PeerConnected", "PeerDisconnected", "ActivePeerChanged"}
    BY <1>5 DEF Apply
  <1> QED
    BY <1>1, <1>2, <1>3, <1>4, <1>5

-----------------------------------------------------------------------------
(* Queues of messages.  A run of a queue is the row of tables that it      *)
(* leads through; ApplyAll is the last one.                                *)

LEMMA ApplyTyped ==
  ASSUME NEW t \in SlotTables, NEW msg \in FirmwareMsg
  PROVE  Apply(t, msg) \in SlotTables
  <1>1. CASE msg.type = "PeerSnapshot"
    BY <1>1, MessageParts, ApplySnapshotSound DEF Apply, Sound
  <1>2. CASE msg.type = "PeerConnected"
    BY <1>2, MessageParts DEF Apply, Connect, SlotTables, PeerDescriptor
  <1>3. CASE msg.type = "PeerDisconnected"
    BY <1>3, MessageParts DEF Apply, Disconnect, SlotTables
  <1>4. CASE msg.type = "ActivePeerChanged"
    BY <1>4, SetActiveSound DEF Apply, Sound
  <1>5. CASE msg.type \notin {"PeerSnapshot", "PeerConnected", "PeerDisconnected", "ActivePeerChanged"}
    BY <1>5 DEF Apply
  <1> QED
    BY <1>1, <1>2, <1>3, <1>4, <1>5

(* Induction, for a set and up to a bound.                                 *)
LEMMA CountUp ==
  ASSUME NEW n \in Nat, NEW k \in 0 .. n, NEW S, k \in S,
         \A i \in k .. n - 1 : i \in S => i + 1 \in S
  PROVE  n \in S
  <1> DEFINE R    == OpToRel(<, Nat)
             Left == {i \in k .. n : i \notin S}
  <1> SUFFICES ASSUME n \notin S PROVE FALSE
    OBVIOUS
  <1>1. n \in Left /\ Left \subseteq Nat
    OBVIOUS
  <1>2. IsWellFoundedOn(R, Nat)
    BY NatLessThanWellFounded
  <1>3. \A x \in Nat, y \in Nat : y < x => <<y, x>> \in R
    BY DEF OpToRel
  <1> HIDE DEF R, Left
  <1>4. PICK x \in Left : \A y \in Left : ~ (<<y, x>> \in R)
    BY <1>1, <1>2, WFMin
  <1>5. x \in k .. n /\ x \notin S
    BY <1>4 DEF Left
  <1>6. x # k /\ x - 1 \in k .. n - 1
    BY <1>5
  <1>7. x - 1 \notin S
    BY <1>5, <1>6
  <1>8. x - 1 \in Left /\ x - 1 < x
    BY <1>5, <1>6, <1>7 DEF Left
  <1> QED
    BY <1>1, <1>3, <1>4, <1>8

Steps(f, msgs) == \A i \in 1 .. Len(msgs) : f[i] = Apply(f[i - 1], msgs[i])

IsRun(f, t, msgs) ==
  /\ f \in [0 .. Len(msgs) -> SlotTables]
  /\ f[0] = t /\ Steps(f, msgs)

LEMMA RunExists ==
  ASSUME NEW t \in SlotTables, NEW msgs \in Seq(FirmwareMsg)
  PROVE  \E f : IsRun(f, t, msgs)
  <1> DEFINE Good(n, f) == /\ f \in [0 .. n -> SlotTables]
                           /\ f[0] = t /\ \A i \in 1 .. n : f[i] = Apply(f[i - 1], msgs[i])
             S == {n \in 0 .. Len(msgs) : \E f : Good(n, f)}
  <1>1. Len(msgs) \in Nat
    BY LenProperties
  <1>2. 0 \in S
    <2>1. Good(0, [i \in 0 .. 0 |-> t])
      OBVIOUS
    <2>2. 0 \in 0 .. Len(msgs)
      BY <1>1
    <2> HIDE DEF Good
    <2> QED
      BY <2>1, <2>2
  <1>3. ASSUME NEW n \in 0 .. Len(msgs) - 1, n \in S PROVE n + 1 \in S
    <2>1. PICK f : Good(n, f)
      BY <1>3
    <2>2. msgs[n + 1] \in FirmwareMsg
      BY <1>1, ElementOfSeq
    <2>3. f[n] \in SlotTables
      BY <1>1, <2>1
    <2> DEFINE next == Apply(f[n], msgs[n + 1])
               g    == [i \in 0 .. n + 1 |-> IF i = n + 1 THEN next ELSE f[i]]
    <2>4. next \in SlotTables
      BY <2>2, <2>3, ApplyTyped
    <2> HIDE DEF next
    <2>5. g \in [0 .. n + 1 -> SlotTables] /\ g[0] = t /\ g[n + 1] = next
          /\ \A i \in 0 .. n : g[i] = f[i]
      BY <1>1, <2>1, <2>4
    <2> HIDE DEF g
    <2>6. \A i \in 1 .. n + 1 : g[i] = Apply(g[i - 1], msgs[i])
      <3> TAKE i \in 1 .. n + 1
      <3>1. CASE i = n + 1
        BY <1>1, <2>5, <3>1 DEF next
      <3>2. CASE i \in 1 .. n
        <4>1. i - 1 \in 0 .. n /\ i \in 0 .. n
          BY <1>1, <3>2
        <4> QED
          BY <2>1, <2>5, <3>2, <4>1
      <3> QED
        BY <1>1, <3>1, <3>2
    <2>7. Good(n + 1, g)
      BY <2>5, <2>6
    <2> HIDE DEF Good
    <2> QED
      BY <1>1, <2>7
  <1> HIDE DEF Good
  <1>4. Len(msgs) \in S
    <2> HIDE DEF S
    <2>1. 0 \in 0 .. Len(msgs)
      BY <1>1
    <2> QED
      BY <1>1, <1>2, <1>3, <2>1, CountUp
  <1>5. PICK f : Good(Len(msgs), f)
    BY <1>4
  <1> QED
    BY <1>5 DEF Good, IsRun, Steps

(* Two rows that meet stay together.                                       *)
LEMMA RunsThatMeet ==
  ASSUME NEW f, NEW g, NEW msgs \in Seq(FirmwareMsg), Steps(f, msgs), Steps(g, msgs),
         NEW k \in 0 .. Len(msgs), f[k] = g[k]
  PROVE  f[Len(msgs)] = g[Len(msgs)]
  <1> DEFINE S == {i \in 0 .. Len(msgs) : f[i] = g[i]}
  <1>1. Len(msgs) \in Nat
    BY LenProperties
  <1>2. k \in S
    OBVIOUS
  <1>3. ASSUME NEW i \in k .. Len(msgs) - 1, i \in S PROVE i + 1 \in S
    <2>1. i + 1 \in 1 .. Len(msgs) /\ (i + 1) - 1 = i
      BY <1>1
    <2>2. f[i + 1] = Apply(f[(i + 1) - 1], msgs[i + 1]) /\ g[i + 1] = Apply(g[(i + 1) - 1], msgs[i + 1])
      BY <2>1 DEF Steps
    <2> QED
      BY <1>1, <1>3, <2>1, <2>2
  <1>4. Len(msgs) \in S
    <2> HIDE DEF S
    <2> QED
      BY <1>1, <1>2, <1>3, CountUp
  <1> QED
    BY <1>4

LEMMA ApplyAllRuns ==
  ASSUME NEW t \in SlotTables, NEW msgs \in Seq(FirmwareMsg), NEW f, IsRun(f, t, msgs)
  PROVE  ApplyAll(t, msgs) = f[Len(msgs)]
  <1> DEFINE Row(g) == g = [i \in 0 .. Len(msgs) |-> IF i = 0 THEN t ELSE Apply(g[i - 1], msgs[i])]
             after  == CHOOSE g : Row(g)
  <1>1. Len(msgs) \in Nat
    BY LenProperties
  <1>2. Row(f)
    <2>1. \A i \in 0 .. Len(msgs) : f[i] = IF i = 0 THEN t ELSE Apply(f[i - 1], msgs[i])
      BY <1>1 DEF IsRun, Steps
    <2>2. f = [i \in 0 .. Len(msgs) |-> f[i]]
      BY DEF IsRun
    <2> QED
      BY <2>1, <2>2
  <1>3. Row(after)
    BY <1>2
  <1>4. ApplyAll(t, msgs) = after[Len(msgs)]
    BY DEF ApplyAll
  <1> HIDE DEF after
  <1>5. after[0] = t /\ Steps(after, msgs)
    BY <1>1, <1>3 DEF Steps
  <1>6. 0 \in 0 .. Len(msgs) /\ f[0] = after[0] /\ Steps(f, msgs)
    BY <1>1, <1>5 DEF IsRun
  <1> QED
    BY <1>4, <1>5, <1>6, RunsThatMeet

LEMMA ApplyAllTyped ==
  ASSUME NEW t \in SlotTables, NEW msgs \in Seq(FirmwareMsg)
  PROVE  ApplyAll(t, msgs) \in SlotTables
  <1>1. PICK f : IsRun(f, t, msgs)
    BY RunExists
  <1>2. f[Len(msgs)] \in SlotTables
    BY <1>1, LenProperties DEF IsRun
  <1> QED
    BY <1>1, <1>2, ApplyAllRuns

LEMMA ApplyAllNone ==
  ASSUME NEW t \in SlotTables
  PROVE  ApplyAll(t, <<>>) = t
  <1>1. <<>> \in Seq(FirmwareMsg) /\ Len(<<>>) = 0
    OBVIOUS
  <1>2. PICK f : IsRun(f, t, <<>>)
    BY <1>1, RunExists
  <1> QED
    BY <1>1, <1>2, ApplyAllRuns DEF IsRun

LEMMA ApplyAllOne ==
  ASSUME NEW t \in SlotTables, NEW msg \in FirmwareMsg
  PROVE  ApplyAll(t, <<msg>>) = Apply(t, msg)
  <1> DEFINE one == <<msg>>
  <1>1. one \in Seq(FirmwareMsg) /\ Len(one) = 1 /\ one[1] = msg
    OBVIOUS
  <1> HIDE DEF one
  <1>2. PICK f : IsRun(f, t, one)
    BY <1>1, RunExists
  <1>3. f[1] = Apply(f[1 - 1], one[1]) /\ f[0] = t /\ 1 - 1 = 0
    BY <1>1, <1>2 DEF IsRun, Steps
  <1>4. f[1] = Apply(t, msg)
    BY <1>1, <1>3
  <1>5. ApplyAll(t, one) = f[1]
    BY <1>1, <1>2, ApplyAllRuns
  <1> QED
    BY <1>4, <1>5 DEF one

(* One queue after the other.                                              *)
LEMMA ApplyAllConcat ==
  ASSUME NEW t \in SlotTables, NEW a \in Seq(FirmwareMsg), NEW b \in Seq(FirmwareMsg)
  PROVE  ApplyAll(t, a \o b) = ApplyAll(ApplyAll(t, a), b)
  <1>1. PICK f : IsRun(f, t, a)
    BY RunExists
  <1>2. ApplyAll(t, a) = f[Len(a)] /\ f[Len(a)] \in SlotTables
    BY <1>1, ApplyAllRuns, ApplyAllTyped
  <1>3. PICK g : IsRun(g, f[Len(a)], b)
    BY <1>2, RunExists
  <1>4. ApplyAll(ApplyAll(t, a), b) = g[Len(b)]
    BY <1>2, <1>3, ApplyAllRuns
  <1> DEFINE n == Len(a)
             m == Len(b)
             c == a \o b
             h == [i \in 0 .. n + m |-> IF i <= n THEN f[i] ELSE g[i - n]]
  <1>5. n \in Nat /\ m \in Nat
    BY LenProperties
  <1>6. c \in Seq(FirmwareMsg) /\ Len(c) = n + m
        /\ \A i \in 1 .. n + m : c[i] = IF i <= n THEN a[i] ELSE b[i - n]
    BY ConcatProperties
  <1>7. /\ f \in [0 .. n -> SlotTables] /\ f[0] = t /\ \A i \in 1 .. n : f[i] = Apply(f[i - 1], a[i])
        /\ g \in [0 .. m -> SlotTables] /\ g[0] = f[n] /\ \A i \in 1 .. m : g[i] = Apply(g[i - 1], b[i])
    BY <1>1, <1>3 DEF IsRun, Steps
  <1> HIDE DEF n, m, c
  <1>8. /\ h \in [0 .. n + m -> SlotTables]
        /\ \A i \in 0 .. n : h[i] = f[i]
        /\ \A i \in 0 .. m : h[n + i] = g[i]
    BY <1>5, <1>7
  <1> HIDE DEF h
  <1>9. h[0] = t
    <2>1. 0 \in 0 .. n
      BY <1>5
    <2>2. h[0] = f[0]
      BY <1>8, <2>1
    <2> QED
      BY <1>7, <2>2
  <1>10. ASSUME NEW i \in 1 .. n + m PROVE h[i] = Apply(h[i - 1], c[i])
    <2>1. CASE i <= n
      <3>1. i \in 1 .. n /\ i - 1 \in 0 .. n /\ i \in 0 .. n
        BY <1>5, <2>1
      <3>2. c[i] = a[i]
        BY <1>6, <2>1
      <3>3. h[i] = f[i] /\ h[i - 1] = f[i - 1]
        BY <1>8, <3>1
      <3> QED
        BY <1>7, <3>1, <3>2, <3>3
    <2>2. CASE ~(i <= n)
      <3> DEFINE k == i - n
      <3>1. k \in 1 .. m /\ k \in 0 .. m /\ k - 1 \in 0 .. m /\ n + k = i /\ n + (k - 1) = i - 1
        BY <1>5, <2>2
      <3>2. c[i] = b[k]
        BY <1>6, <2>2
      <3> HIDE DEF k
      <3>3. h[i] = g[k] /\ h[i - 1] = g[k - 1]
        <4>1. h[n + k] = g[k] /\ h[n + (k - 1)] = g[k - 1]
          BY <1>8, <3>1
        <4> QED
          BY <3>1, <4>1
      <3> QED
        BY <1>7, <3>1, <3>2, <3>3
    <2> QED
      BY <2>1, <2>2
  <1>11. IsRun(h, t, c)
    BY <1>6, <1>8, <1>9, <1>10 DEF IsRun, Steps
  <1>12. ApplyAll(t, c) = h[n + m]
    BY <1>6, <1>11, ApplyAllRuns
  <1>13. h[n + m] = g[m]
    BY <1>5, <1>8
  <1> QED
    BY <1>4, <1>12, <1>13 DEF c, m

LEMMA ApplyAllFirst ==
  ASSUME NEW t \in SlotTables, NEW msgs \in Seq(FirmwareMsg), msgs # <<>>
  PROVE  ApplyAll(t, msgs) = ApplyAll(Apply(t, Head(msgs)), Tail(msgs))
  <1>1. Head(msgs) \in FirmwareMsg /\ Tail(msgs) \in Seq(FirmwareMsg) /\ msgs = <<Head(msgs)>> \o Tail(msgs)
    BY HeadTailProperties
  <1>2. <<Head(msgs)>> \in Seq(FirmwareMsg)
    BY <1>1
  <1>3. ApplyAll(t, <<Head(msgs)>> \o Tail(msgs)) = ApplyAll(ApplyAll(t, <<Head(msgs)>>), Tail(msgs))
    BY <1>1, <1>2, ApplyAllConcat
  <1>4. ApplyAll(t, <<Head(msgs)>>) = Apply(t, Head(msgs))
    BY <1>1, ApplyAllOne
  <1> QED
    BY <1>1, <1>3, <1>4

(* A snapshot in the queue makes what the table was before irrelevant.     *)
HasSnapshot(msgs) == \E i \in 1 .. Len(msgs) : msgs[i].type = "PeerSnapshot"

LEMMA SnapshotForgets ==
  ASSUME NEW t \in SlotTables, NEW u \in SlotTables, NEW snapshot
  PROVE  ApplySnapshot(t, snapshot) = ApplySnapshot(u, snapshot)
  <1> DEFINE told == {snapshot.peers[i] : i \in Slots} \ {None}
             slots == [s \in Slots |-> IF \E p \in told : p.slot = s
                                         THEN (CHOOSE p \in told : p.slot = s).addr ELSE None]
             active == IF snapshot.active_slot \in Slots /\ slots[snapshot.active_slot] # None
                         THEN snapshot.active_slot ELSE None
             new == [slots |-> slots, active |-> active, forwarding |-> active # None]
  <1>1. ASSUME NEW v \in SlotTables
        PROVE  ApplySnapshot(v, snapshot) = new
    <2> DEFINE w == [v EXCEPT !.slots = slots]
    <2>1. ApplySnapshot(v, snapshot) = SetActive(w, snapshot.active_slot)
      BY DEF ApplySnapshot
    <2> HIDE DEF slots
    <2>2. w = [slots |-> slots, active |-> v.active, forwarding |-> v.forwarding]
      BY DEF SlotTables
    <2> HIDE DEF w
    <2> QED
      BY <2>1, <2>2 DEF SetActive, HasSlot
  <1> HIDE DEF new
  <1> QED
    BY <1>1

LEMMA SnapshotDecides ==
  ASSUME NEW t \in SlotTables, NEW u \in SlotTables, NEW msgs \in Seq(FirmwareMsg), HasSnapshot(msgs)
  PROVE  ApplyAll(t, msgs) = ApplyAll(u, msgs)
  <1>1. PICK f : IsRun(f, t, msgs)
    BY RunExists
  <1>2. PICK g : IsRun(g, u, msgs)
    BY RunExists
  <1>3. PICK i \in 1 .. Len(msgs) : msgs[i].type = "PeerSnapshot"
    BY DEF HasSnapshot
  <1>4. Len(msgs) \in Nat /\ i \in 0 .. Len(msgs) /\ i - 1 \in 0 .. Len(msgs)
    BY LenProperties
  <1>5. f[i - 1] \in SlotTables /\ g[i - 1] \in SlotTables
    BY <1>1, <1>2, <1>4 DEF IsRun
  <1>6. Apply(f[i - 1], msgs[i]) = Apply(g[i - 1], msgs[i])
    BY <1>3, <1>5, SnapshotForgets DEF Apply
  <1>7. f[i] = g[i] /\ Steps(f, msgs) /\ Steps(g, msgs)
    BY <1>1, <1>2, <1>6 DEF IsRun, Steps
  <1>8. f[Len(msgs)] = g[Len(msgs)]
    BY <1>4, <1>7, RunsThatMeet
  <1> QED
    BY <1>1, <1>2, <1>8, ApplyAllRuns

-----------------------------------------------------------------------------
(* The switch at the other end of the link.                                *)

SwitchTyped ==
  /\ host_ready \in BOOLEAN /\ peers \in [Slots -> Addrs \cup {None}]
  /\ active_slot \in Slots \cup {None}
  /\ tx \in Seq(FirmwareMsg)

LEMMA SnapshotType ==
  ASSUME SwitchTyped
  PROVE  Snapshot \in PeerSnapshot
  <1>1. [s \in Slots |-> IF peers[s] = None THEN None ELSE [slot |-> s, addr |-> peers[s]]]
          \in [Slots -> PeerDescriptor \cup {None}]
    BY DEF SwitchTyped, PeerDescriptor
  <1> QED
    BY <1>1 DEF SwitchTyped, Snapshot, PeerSnapshot

LEMMA MessageTypes ==
  /\ HelloAckMsg \in FirmwareMsg
  /\ \A s \in PeerSnapshot : PeerSnapshotMsg(s) \in FirmwareMsg
  /\ \A p \in PeerDescriptor : PeerConnectedMsg(p) \in FirmwareMsg
  /\ \A s \in Slots : PeerDisconnectedMsg(s) \in FirmwareMsg
  /\ \A s \in Slots \cup {None} : ActivePeerChangedMsg(s) \in FirmwareMsg
  /\ \A b \in LedBits : LedStateMsg(b) \in FirmwareMsg
  /\ \A v \in Versions : UnsupportedVersionMsg(v) \in FirmwareMsg
  /\ \A s \in SlotNumbers : InvalidPeerSlotMsg(s) \in FirmwareMsg
  BY DEF HelloAckMsg, PeerSnapshotMsg, PeerConnectedMsg, PeerDisconnectedMsg, ActivePeerChangedMsg,
         LedStateMsg, UnsupportedVersionMsg, InvalidPeerSlotMsg, FirmwareMsg, ProtocolError

LEMMA TellType ==
  ASSUME SwitchTyped, NEW msgs \in Seq(FirmwareMsg), Post(msgs) \/ Tell(msgs)
  PROVE  tx' \in Seq(FirmwareMsg)
  <1>1. tx \in Seq(FirmwareMsg)
    BY DEF SwitchTyped
  <1>2. tx' = tx \o msgs \/ tx' = tx
    BY DEF Post, Tell
  <1> QED
    BY <1>1, <1>2, ConcatProperties

LEMMA JoinTyped ==
  ASSUME SwitchTyped, NEW s \in Slots, NEW a \in Addrs, Join(s, a)
  PROVE  SwitchTyped'
  <1>1. [slot |-> s, addr |-> a] \in PeerDescriptor
    BY DEF PeerDescriptor
  <1>2. <<PeerConnectedMsg([slot |-> s, addr |-> a])>> \in Seq(FirmwareMsg)
    BY <1>1, MessageTypes
  <1>3. tx' \in Seq(FirmwareMsg)
    BY <1>2, TellType DEF Join
  <1> QED
    BY <1>3 DEF Join, SwitchTyped

LEMMA LeaveTyped ==
  ASSUME SwitchTyped, NEW s \in Slots, Leave(s)
  PROVE  SwitchTyped'
  <1>1. <<PeerDisconnectedMsg(s), ActivePeerChangedMsg(None)>> \in Seq(FirmwareMsg)
        /\ <<PeerDisconnectedMsg(s)>> \in Seq(FirmwareMsg)
    BY MessageTypes
  <1>2. tx' \in Seq(FirmwareMsg)
    BY <1>1, TellType DEF Leave
  <1> QED
    BY <1>2 DEF Leave, SwitchTyped

LEMMA HelloTyped ==
  ASSUME SwitchTyped, NEW v \in Versions, Hello(v)
  PROVE  SwitchTyped'
  <1>1. <<HelloAckMsg, PeerSnapshotMsg(Snapshot)>> \in Seq(FirmwareMsg)
        /\ <<UnsupportedVersionMsg(v)>> \in Seq(FirmwareMsg)
    BY SnapshotType, MessageTypes
  <1>2. tx' \in Seq(FirmwareMsg)
    BY <1>1, TellType DEF Hello
  <1> QED
    BY <1>2 DEF Hello, SwitchTyped

LEMMA SelectTyped ==
  ASSUME SwitchTyped, NEW slot \in SlotNumbers \cup {None}, Select(slot)
  PROVE  SwitchTyped'
  <1>1. CASE slot = None \/ Selectable(slot)
    <2>1. slot \in Slots \cup {None}
      BY <1>1 DEF Selectable
    <2>2. <<ActivePeerChangedMsg(slot)>> \in Seq(FirmwareMsg)
      BY <2>1, MessageTypes
    <2>3. tx' \in Seq(FirmwareMsg)
      BY <1>1, <2>2, TellType DEF Select, SwitchTyped
    <2> QED
      BY <1>1, <2>1, <2>3 DEF Select, SwitchTyped
  <1>2. CASE ~(slot = None \/ Selectable(slot))
    <2>1. <<InvalidPeerSlotMsg(slot)>> \in Seq(FirmwareMsg)
      BY <1>2, MessageTypes
    <2>2. tx' \in Seq(FirmwareMsg)
      BY <1>2, <2>1, TellType DEF Select
    <2> QED
      BY <1>2, <2>2 DEF Select, SwitchTyped
  <1> QED
    BY <1>1, <1>2

LEMMA LedsTyped ==
  ASSUME SwitchTyped, NEW bits \in LedBits, TellLeds(bits)
  PROVE  SwitchTyped'
  <1>1. <<LedStateMsg(bits)>> \in Seq(FirmwareMsg)
    BY MessageTypes
  <1>2. tx' \in Seq(FirmwareMsg)
    BY <1>1, TellType DEF TellLeds
  <1> QED
    BY <1>2 DEF TellLeds, SwitchTyped

LEMMA DeliverTyped ==
  ASSUME SwitchTyped, Deliver
  PROVE  SwitchTyped' /\ Head(tx) \in FirmwareMsg
  <1>1. tx \in Seq(FirmwareMsg) /\ tx # <<>> /\ tx' = Tail(tx)
    BY DEF SwitchTyped, Deliver
  <1>2. Head(tx) \in FirmwareMsg /\ Tail(tx) \in Seq(FirmwareMsg)
    BY <1>1, HeadTailProperties
  <1> QED
    BY <1>1, <1>2 DEF SwitchTyped, Deliver
=============================================================================
