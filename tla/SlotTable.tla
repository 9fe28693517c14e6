------------------------------ MODULE SlotTable ------------------------------
(***************************************************************************)
(* host/src/slots.rs: the host's mirror of the firmware's peer table, and  *)
(* what each firmware message does to it (the fw-events thread of          *)
(* host/src/capture/mod.rs).  A table is a value, `forwarding' the flag    *)
(* the capture callbacks read.                                             *)
(***************************************************************************)
EXTENDS Wire, Sequences

SlotTables ==
  [slots : [Slots -> Addrs \cup {None}], active : Slots \cup {None}, forwarding : BOOLEAN]

NewTable == [slots |-> [s \in Slots |-> None], active |-> None, forwarding |-> FALSE]

HasSlot(table, slot) == slot \in Slots /\ table.slots[slot] # None

(* Mutant: what is not a slot with a peer changes nothing.                 *)
SetActiveOrKeep(table, slot) ==
  LET next == IF HasSlot(table, slot) THEN slot ELSE table.active
  IN  [table EXCEPT !.active = next, !.forwarding = next # None]

SetActive(table, slot) ==
  LET next == IF HasSlot(table, slot) THEN slot ELSE None
  IN  [table EXCEPT !.active = next, !.forwarding = next # None]

ApplySnapshot(table, snapshot) ==
  LET told == {snapshot.peers[i] : i \in Slots} \ {None}
  IN  SetActive([table EXCEPT !.slots =
                   [s \in Slots |-> IF \E p \in told : p.slot = s
                                      THEN (CHOOSE p \in told : p.slot = s).addr
                                      ELSE None]],
                snapshot.active_slot)

Connect(table, peer) == [table EXCEPT !.slots[peer.slot] = peer.addr]

(* Mutant: the active slot survives its peer.                              *)
DisconnectSlot(table, slot) == [table EXCEPT !.slots[slot] = None]

Disconnect(table, slot) ==
  [table EXCEPT !.slots[slot] = None,
                !.active = IF @ = slot THEN None ELSE @,
                !.forwarding = @ /\ table.active # slot]

Apply(table, msg) ==
  CASE msg.type = "PeerSnapshot"      -> ApplySnapshot(table, msg.snapshot)
    [] msg.type = "PeerConnected"     -> Connect(table, msg.peer)
    [] msg.type = "PeerDisconnected"  -> Disconnect(table, msg.slot)
    [] msg.type = "ActivePeerChanged" -> SetActive(table, msg.slot)
    [] OTHER                          -> table

(* What a table becomes when a queue of messages is applied to it.         *)
ApplyAll(table, msgs) ==
  LET after[i \in 0 .. Len(msgs)] == IF i = 0 THEN table ELSE Apply(after[i - 1], msgs[i])
  IN  after[Len(msgs)]
=============================================================================
