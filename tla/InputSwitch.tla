----------------------------- MODULE InputSwitch -----------------------------
(***************************************************************************)
(* What the firmware promises its host, without the BLE stack, the input   *)
(* or the loop: a table of peers in slots, at most one of them active, and *)
(* a stream of messages that tells every change in the order it happened.  *)
(* Session implements it, and the host side is checked against it.         *)
(***************************************************************************)
EXTENDS Wire, Sequences

CONSTANT MaxTx          \* bound: messages that wait for the link

VARIABLES host_ready,   \* a host has said hello
          peers,        \* slot -> address of its peer
          active_slot,
          tx            \* the messages on their way to the host

switchVars == <<host_ready, peers, active_slot, tx>>

Init ==
  /\ host_ready = FALSE
  /\ peers = [s \in Slots |-> None]
  /\ active_slot = None
  /\ tx = <<>>

Post(msgs) == Len(tx) + Len(msgs) <= MaxTx /\ tx' = tx \o msgs

Tell(msgs) == IF host_ready THEN Post(msgs) ELSE UNCHANGED tx

(* A peer takes a free slot.                                               *)
Join(s, a) ==
  /\ peers[s] = None
  /\ peers' = [peers EXCEPT ![s] = a]
  /\ Tell(<<PeerConnectedMsg([slot |-> s, addr |-> a])>>)
  /\ UNCHANGED <<host_ready, active_slot>>

(* A peer leaves; if it was the active one, nobody is.                     *)
Leave(s) ==
  /\ peers[s] # None
  /\ peers' = [peers EXCEPT ![s] = None]
  /\ IF active_slot = s
       THEN /\ active_slot' = None
            /\ Tell(<<PeerDisconnectedMsg(s), ActivePeerChangedMsg(None)>>)
       ELSE UNCHANGED active_slot /\ Tell(<<PeerDisconnectedMsg(s)>>)
  /\ UNCHANGED host_ready

Snapshot ==
  [peers |-> [s \in Slots |-> IF peers[s] = None THEN None
                                                 ELSE [slot |-> s, addr |-> peers[s]]],
   active_slot |-> active_slot]

Hello(version) ==
  /\ IF version = PROTOCOL_VERSION
       THEN host_ready' = TRUE /\ Post(<<HelloAckMsg, PeerSnapshotMsg(Snapshot)>>)
       ELSE UNCHANGED host_ready /\ Post(<<UnsupportedVersionMsg(version)>>)
  /\ UNCHANGED <<peers, active_slot>>

(* The host selects a slot.  Selecting the active one again changes        *)
(* nothing and is not answered; an empty or unknown one is an error.       *)
Selectable(slot) == slot \in Slots /\ peers[slot] # None

Select(slot) ==
  /\ IF slot = None \/ Selectable(slot)
       THEN /\ active_slot' = slot
            /\ IF slot # None /\ slot = active_slot THEN UNCHANGED tx
                                                    ELSE Tell(<<ActivePeerChangedMsg(slot)>>)
       ELSE UNCHANGED active_slot /\ Tell(<<InvalidPeerSlotMsg(slot)>>)
  /\ UNCHANGED <<host_ready, peers>>

TellLeds(bits) == Tell(<<LedStateMsg(bits)>>) /\ UNCHANGED <<host_ready, peers, active_slot>>

Deliver == tx # <<>> /\ tx' = Tail(tx) /\ UNCHANGED <<host_ready, peers, active_slot>>

PeersChange == \E s \in Slots : Leave(s) \/ \E a \in Addrs : Join(s, a)

Next ==
  \/ PeersChange
  \/ \E v \in Versions : Hello(v)
  \/ \E slot \in SlotNumbers \cup {None} : Select(slot)
  \/ \E bits \in LedBits : TellLeds(bits)
  \/ Deliver

Spec == Init /\ [][Next]_switchVars
=============================================================================
