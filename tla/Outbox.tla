------------------------------- MODULE Outbox -------------------------------
(***************************************************************************)
(* host/src/capture/outbox.rs: the queue between the capture callbacks and *)
(* the serial writer, as a value behind its mutex.  Control messages keep  *)
(* their order; of the touch frames only the latest waits.                 *)
(***************************************************************************)
EXTENDS Wire, Sequences

EmptyOutbox == [control |-> <<>>, latest_touch |-> None]

IsEmpty(outbox) == outbox.control = <<>> /\ outbox.latest_touch = None

(* Mutant: a touch frame outlives the selection of another peer.           *)
PushKeepingTouch(outbox, msg) ==
  IF msg.type = "TouchFrame" THEN [outbox EXCEPT !.latest_touch = msg]
                             ELSE [outbox EXCEPT !.control = Append(@, msg)]

(* Outbox::push.                                                           *)
Push(outbox, msg) ==
  CASE msg.type = "TouchFrame" -> [outbox EXCEPT !.latest_touch = msg]
    [] msg.type = "SelectPeer" -> [control |-> Append(outbox.control, msg), latest_touch |-> None]
    [] OTHER                   -> [outbox EXCEPT !.control = Append(@, msg)]

(* Outbox::recv: what it returns, and what it leaves.                      *)
Received(outbox) == IF outbox.control # <<>> THEN Head(outbox.control) ELSE outbox.latest_touch

Rest(outbox) == IF outbox.control # <<>> THEN [outbox EXCEPT !.control = Tail(@)]
                                         ELSE [outbox EXCEPT !.latest_touch = None]
=============================================================================
